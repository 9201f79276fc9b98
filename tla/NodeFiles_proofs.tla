-------------------------- MODULE NodeFiles_proofs --------------------------
(***************************************************************************)
(* What the node does to its files is safe, for every number of versions,  *)
(* block files, chunks and lives of the process. An engine migration never *)
(* opens a stale or cut database and never destroys the newest one.        *)
(* Pruning with an archive keeps a complete copy of every block file, and  *)
(* the block index never promises a removed one. When one call fetches at  *)
(* a time, a file reported as verified is the file that was asked for: the *)
(* digest is taken of the stream, and the file on disk is, at every point, *)
(* what the stream delivered. Last, the node that migrates, prunes and     *)
(* fetches in one life after another does each of them as it does alone.   *)
(***************************************************************************)
EXTENDS NodeFiles, FiniteSetTheorems, TLAPS

-----------------------------------------------------------------------------
(* DbMigrate *)

MigrateType ==
  /\ dir \in [Db -> [Slot -> Folder]]
  /\ newest \in [Db -> Nat] /\ torn \in [Db -> BOOLEAN] /\ gone \in [Db -> BOOLEAN]
  /\ mpc \in {"off", "copy", "copying", "swap", "moved", "open", "run"}
  /\ db \in Db /\ dest \in Engine /\ swapdb \in BOOLEAN /\ wipe \in SUBSET Db

\* A complete database has files, by which its engine is detected.
FilesNamed ==
  \A d \in Db, s \in Slot : /\ dir[d][s].whole => dir[d][s].engine # "none"
                            /\ dir[d][s].engine # "none" => dir[d][s].there

\* The destination of a running copy holds nothing of value.
Copying == mpc = "copying" => /\ dir[db]["live"].engine \notin {"none", dest}
                              /\ ~dir[db][dest].whole

\* A live folder can only be missing with both siblings there, which refuses any swap.
Lost ==
  \A d \in Db : ~torn[d] /\ dir[d]["live"].engine = "none" => \A e \in Engine : dir[d][e].there

\* This start has been through the copy of d, and not yet swapped it.
Copied(d) ==
  \/ mpc \in {"copy", "copying"} /\ db = Index /\ d = Chainstate
  \/ mpc = "swap" /\ (db = Chainstate \/ d = Index)
  \/ mpc = "moved" /\ db = Chainstate /\ d = Index

\* Then the copy is what the live folder still holds.
CopyGood ==
  \A d \in Db : Copied(d) /\ dir[d]["live"].engine # "none" =>
    /\ dir[d][dest] = Files(dest, dir[d]["live"].ver, dir[d]["live"].whole)
    /\ dir[d]["live"].engine # dest

\* Between the two renames.
Moved ==
  mpc = "moved" =>
    /\ dir[db]["live"] = Nowhere
    /\ ~torn[db] => /\ \A e \in Engine : dir[db][e].there
                    /\ dir[db][dest].engine # "none" /\ dir[db][dest].whole
                    /\ dir[db][dest].ver \in {0, newest[db]}

\* Databases that have been opened have files.
Opening ==
  /\ mpc = "open" /\ db = Chainstate => dir[Index]["live"].engine # "none"
  /\ mpc = "run" => \A d \in Db : dir[d]["live"].engine # "none"

MigrateInv ==
  /\ MigrateType /\ FilesNamed /\ Copying /\ Lost /\ CopyGood /\ Moved /\ Opening
  /\ LiveIsNewest /\ NewestKept

USE DEF Chainstate, Index, Db, Engine, Slot

\* The folder that Files describes.
LEMMA FilesType ==
  ASSUME NEW e \in Engine \cup {"none"}, NEW v \in Nat, NEW w \in BOOLEAN
  PROVE  /\ Files(e, v, w) \in Folder /\ Files(e, v, w).there
         /\ Files(e, v, w).engine = e /\ Files(e, v, w).ver = v /\ Files(e, v, w).whole = w
  BY DEF Files, Folder

\* No folder, and a folder without files.
LEMMA EmptyType ==
  /\ Nowhere \in Folder /\ ~Nowhere.there /\ Nowhere.engine = "none" /\ ~Nowhere.whole
  /\ NoFiles \in Folder /\ NoFiles.engine = "none" /\ ~NoFiles.whole
  BY DEF Nowhere, NoFiles, Folder

\* Both databases are whole at the start, under one engine.
LEMMA MigrateInitInv == MigrateInit => MigrateInv
  <1> SUFFICES ASSUME MigrateInit PROVE MigrateInv
    OBVIOUS
  <1>1. PICK e \in Engine :
          dir = [d \in Db |-> [s \in Slot |-> IF s = "live" THEN Files(e, 1, TRUE) ELSE Nowhere]]
    BY Zenon DEF MigrateInit
  <1>2. \A d \in Db : /\ dir[d]["live"] = Files(e, 1, TRUE)
                      /\ \A s \in Slot : s # "live" => dir[d][s] = Nowhere
    BY <1>1
  <1>3. dir \in [Db -> [Slot -> Folder]]
    BY Zenon, <1>1, FilesType, EmptyType
  <1>4. \A d \in Db : /\ dir[d]["live"].engine = e /\ dir[d]["live"].ver = 1
                      /\ dir[d]["live"].whole /\ dir[d]["live"].there
    BY <1>2 DEF Files
  <1>5. MigrateType
    BY Zenon, <1>3 DEF MigrateInit, MigrateType
  <1>6. FilesNamed
    BY <1>2, <1>4, EmptyType DEF FilesNamed
  <1>7. Lost /\ LiveIsNewest /\ NewestKept
    BY Zenon, <1>4 DEF MigrateInit, Lost, LiveIsNewest, NewestKept, Detect
  <1>8. Copying /\ CopyGood /\ Moved /\ Opening
    BY DEF MigrateInit, Copying, CopyGood, Copied, Moved, Opening
  <1> QED
    BY <1>5, <1>6, <1>7, <1>8 DEF MigrateInv

\* The steps that leave the disk alone.
LEMMA QuietInv ==
  ASSUME MigrateInv, Start \/ SkipCopy \/ RefuseCopy \/ NoSwap \/ RefuseSwap \/ MigrateCrash
  PROVE  MigrateInv'
  <1>1. /\ UNCHANGED <<dir, newest, torn, gone>>
        /\ db' \in Db /\ dest' \in Engine /\ swapdb' \in BOOLEAN /\ wipe' \in SUBSET Db
        /\ mpc' \in {"off", "copy", "swap", "open"}
    BY ZenonT(40)
       DEF MigrateInv, MigrateType, Start, SkipCopy, RefuseCopy, NoSwap, RefuseSwap, MigrateCrash,
           Stopped, CopyReturns, SwapReturns
  <1>2. MigrateType' /\ FilesNamed' /\ Lost' /\ LiveIsNewest' /\ NewestKept'
    BY <1>1 DEF MigrateInv, MigrateType, FilesNamed, Lost, LiveIsNewest, NewestKept, Detect
  <1>3. Copying' /\ Moved'
    BY <1>1 DEF Copying, Moved
  <1>4. Opening'
    BY <1>1 DEF MigrateInv, MigrateType, Opening, Start, SkipCopy, RefuseCopy, NoSwap, RefuseSwap,
                MigrateCrash, Stopped, CopyReturns, SwapReturns
  <1>5. ASSUME NEW d \in Db, Copied(d)', dir[d]["live"].engine # "none"
        PROVE  Copied(d) /\ dest' = dest
    <2>1. CASE Start \/ RefuseCopy \/ RefuseSwap \/ MigrateCrash
      BY <1>5, <2>1 DEF Copied, Start, RefuseCopy, RefuseSwap, MigrateCrash, Stopped
    <2>2. CASE SkipCopy
      BY <1>5, <2>2
         DEF MigrateInv, MigrateType, Copied, SkipCopy, NothingToCopy, Detect, CopyReturns,
                        Stopped
    <2>3. CASE NoSwap
      BY <1>5, <2>3 DEF MigrateInv, MigrateType, Copied, NoSwap, SwapReturns
    <2> QED
      BY <2>1, <2>2, <2>3
  <1>6. CopyGood'
    BY <1>1, <1>5 DEF MigrateInv, CopyGood
  <1> QED
    BY <1>2, <1>3, <1>4, <1>6 DEF MigrateInv

\* The copy begins.
LEMMA BeginCopyInv == ASSUME MigrateInv, BeginCopy PROVE MigrateInv'
  <1> USE DEF MigrateInv
  <1>1. PICK e \in {"none", dest} : dir' = [dir EXCEPT ![db][dest] = Files(e, 0, FALSE)]
    BY Zenon DEF BeginCopy
  <1>2. /\ mpc = "copy" /\ mpc' = "copying" /\ UNCHANGED <<newest, torn, gone, db, dest, swapdb, wipe>>
        /\ dir[db]["live"].engine \notin {"none", dest} /\ dir[db][dest].engine = "none"
    BY DEF BeginCopy, NothingToCopy, CopyRefused, Detect
  <1>3. /\ Files(e, 0, FALSE) \in Folder /\ Files(e, 0, FALSE).there /\ ~Files(e, 0, FALSE).whole
        /\ db \in Db /\ dest \in Engine
    BY DEF MigrateType, Files, Folder
  <1>4. /\ dir' \in [Db -> [Slot -> Folder]]
        /\ dir'[db][dest] = Files(e, 0, FALSE)
        /\ \A d \in Db, s \in Slot : d # db \/ s # dest => dir'[d][s] = dir[d][s]
    BY Zenon, <1>1, <1>3 DEF MigrateType
  <1>5. ~dir[db][dest].whole /\ \A d \in Db : dir'[d]["live"] = dir[d]["live"]
    BY <1>2, <1>3, <1>4 DEF FilesNamed
  <1>6. MigrateType'
    BY <1>2, <1>4 DEF MigrateType
  <1>7. /\ FilesNamed'
        /\ Copying' /\ Moved' /\ Opening'
    <2>1. FilesNamed'
      <3> SUFFICES ASSUME NEW d \in Db, NEW s \in Slot
                   PROVE  /\ dir'[d][s].whole => dir'[d][s].engine # "none"
                          /\ dir'[d][s].engine # "none" => dir'[d][s].there
        BY Zenon DEF FilesNamed
      <3>1. CASE d = db /\ s = dest
        BY Zenon, <1>3, <1>4, <3>1
      <3>2. CASE d # db \/ s # dest
        BY <1>4, <3>2 DEF FilesNamed
      <3> QED
        BY <3>1, <3>2
    <2>2. dir'[db']["live"].engine \notin {"none", dest'} /\ ~dir'[db'][dest'].whole
      BY Zenon, <1>2, <1>3, <1>4, <1>5
    <2>3. Copying' /\ Moved' /\ Opening'
      BY <1>2, <2>2 DEF Copying, Moved, Opening
    <2> QED
      BY <2>1, <2>3
  <1>8. Lost' /\ LiveIsNewest' /\ NewestKept'
    BY <1>2, <1>3, <1>4, <1>5 DEF Lost, LiveIsNewest, NewestKept, Detect
  <1>9. CopyGood'
    BY <1>2, <1>3, <1>4, <1>5 DEF CopyGood, Copied
  <1> QED
    BY <1>6, <1>7, <1>8, <1>9

\* The copy ends.
LEMMA EndCopyInv == ASSUME MigrateInv, EndCopy PROVE MigrateInv'
  <1> DEFINE f == Files(dest, dir[db]["live"].ver, dir[db]["live"].whole)
  <1> USE DEF MigrateInv
  <1>1. /\ db \in Db /\ dest \in Engine
        /\ dir[db]["live"] \in Folder
    BY DEF MigrateType
  <1>2. /\ f \in Folder /\ f.there /\ f.engine = dest /\ f.whole = dir[db]["live"].whole
        /\ f.ver = dir[db]["live"].ver
    BY <1>1 DEF f, Files, Folder
  <1>3. /\ mpc = "copying" /\ UNCHANGED <<newest, torn, gone>>
        /\ dir[db]["live"].engine \notin {"none", dest} /\ ~dir[db][dest].whole
        /\ CopyReturns
    BY DEF EndCopy, Copying
  <1> HIDE DEF f
  <1>4. /\ dir' \in [Db -> [Slot -> Folder]]
        /\ dir'[db][dest] = f
        /\ \A d \in Db, s \in Slot : d # db \/ s # dest => dir'[d][s] = dir[d][s]
    BY ZenonT(40), <1>1, <1>2 DEF EndCopy, f, MigrateType
  <1>5. \A d \in Db : dir'[d]["live"] = dir[d]["live"]
    BY <1>1, <1>4
  <1>6. MigrateType' /\ mpc' \in {"off", "copy", "swap"}
    BY Zenon, <1>3, <1>4 DEF MigrateType, CopyReturns, Stopped
  <1>7. Copying' /\ Moved' /\ Opening'
    BY Zenon, <1>6 DEF Copying, Moved, Opening
  <1>8. FilesNamed'
    BY <1>1, <1>2, <1>4 DEF FilesNamed
  <1>9. Lost' /\ LiveIsNewest' /\ NewestKept'
    BY <1>1, <1>2, <1>3, <1>4, <1>5 DEF Lost, LiveIsNewest, NewestKept, Detect
  <1>10. ASSUME NEW d \in Db, Copied(d)' PROVE dest' = dest /\ (d = db \/ Copied(d))
    BY <1>1, <1>3, <1>10 DEF Copied, CopyReturns, Stopped
  <1>11. CopyGood'
    <2> SUFFICES ASSUME NEW d \in Db, Copied(d)', dir[d]["live"].engine # "none"
                 PROVE  /\ dir'[d][dest'] = Files(dest', dir[d]["live"].ver, dir[d]["live"].whole)
                        /\ dir[d]["live"].engine # dest'
      BY <1>5 DEF CopyGood
    <2>1. CASE d = db
      BY <1>3, <1>4, <1>10, <2>1 DEF f
    <2>2. CASE d # db
      BY <1>1, <1>4, <1>10, <2>2 DEF CopyGood
    <2> QED
      BY <2>1, <2>2
  <1> QED
    BY <1>6, <1>7, <1>8, <1>9, <1>11

\* The first rename: only a copy of what the live folder holds is ever brought in.
LEMMA MoveAsideInv == ASSUME MigrateInv, MoveAside PROVE MigrateInv'
  <1> USE DEF MigrateInv
  <1>1. /\ mpc = "swap" /\ mpc' = "moved" /\ UNCHANGED <<newest, torn, gone, db, dest, swapdb, wipe>>
        /\ db \in Db /\ dest \in Engine /\ Backup \in Engine /\ ~dir[db][Backup].there
        /\ dir[db][dest].there /\ dir[db]["live"] \in Folder
    BY DEF MoveAside, MigrateType, Backup, Detect, Folder
  <1>2. Backup # dest
    BY <1>1
  <1>3. /\ dir' \in [Db -> [Slot -> Folder]]
        /\ dir'[db]["live"] = Nowhere /\ dir'[db][Backup] = dir[db]["live"]
        /\ dir'[db][dest] = dir[db][dest]
        /\ \A d \in Db, s \in Slot : d # db => dir'[d][s] = dir[d][s]
    BY Zenon, <1>1, <1>2, EmptyType DEF MoveAside, MigrateType
  <1>4. \A s \in Slot : s = "live" \/ s = Backup \/ s = dest
    BY <1>1, <1>2
  <1>5. ~torn[db] => /\ dir[db]["live"].engine # "none" /\ dir[db]["live"].there
                     /\ dir[db][dest].engine # "none" /\ dir[db][dest].whole
                     /\ dir[db][dest].ver \in {0, newest[db]}
    <2> SUFFICES ASSUME ~torn[db]
                 PROVE  /\ dir[db]["live"].engine # "none" /\ dir[db]["live"].there
                        /\ dir[db][dest].engine # "none" /\ dir[db][dest].whole
                        /\ dir[db][dest].ver \in {0, newest[db]}
      BY Zenon
    <2>1. dir[db]["live"].engine # "none"
      BY <1>1 DEF Lost
    <2>2. dir[db][dest] = Files(dest, dir[db]["live"].ver, dir[db]["live"].whole)
      BY Zenon, <1>1, <2>1 DEF CopyGood, Copied
    <2>3. dir[db]["live"].whole /\ dir[db]["live"].ver \in {0, newest[db]}
      BY Zenon, <1>1, <2>1 DEF LiveIsNewest, Detect
    <2> QED
      BY <1>1, <2>1, <2>2, <2>3 DEF Files, FilesNamed
  <1>6. MigrateType'
    BY <1>1, <1>3 DEF MigrateType
  <1>7. FilesNamed'
    <2> SUFFICES ASSUME NEW d \in Db, NEW s \in Slot
                 PROVE  /\ dir'[d][s].whole => dir'[d][s].engine # "none"
                        /\ dir'[d][s].engine # "none" => dir'[d][s].there
      BY Zenon DEF FilesNamed
    <2>1. CASE d # db
      BY <1>3, <2>1 DEF FilesNamed
    <2>2. CASE d = db
      BY <1>1, <1>3, <1>4, <2>2, EmptyType DEF FilesNamed
    <2> QED
      BY <2>1, <2>2
  <1>8. Copying' /\ Opening'
    BY <1>1 DEF Copying, Opening
  <1>9. Moved'
    <2>1. ~torn[db] => \A e \in Engine : dir'[db][e].there
      BY Zenon, <1>1, <1>3, <1>4, <1>5
    <2> QED
      BY Zenon, <1>1, <1>3, <1>5, <2>1 DEF Moved
  <1>10. Lost'
    <2> SUFFICES ASSUME NEW d \in Db, ~torn[d], dir'[d]["live"].engine = "none", NEW e \in Engine
                 PROVE  dir'[d][e].there
      BY Zenon, <1>1 DEF Lost
    <2>1. CASE d # db
      BY Zenon, <1>3, <2>1 DEF Lost
    <2>2. CASE d = db
      BY Zenon, <1>1, <1>3, <1>4, <1>5, <2>2
    <2> QED
      BY <2>1, <2>2
  <1>11. CopyGood'
    BY ZenonT(40), <1>1, <1>3, EmptyType DEF CopyGood, Copied
  <1>12. LiveIsNewest'
    <2> SUFFICES ASSUME NEW d \in Db, dir'[d]["live"].engine # "none", ~torn[d]
                 PROVE  dir'[d]["live"].whole /\ dir'[d]["live"].ver \in {0, newest[d]}
      BY Zenon, <1>1 DEF LiveIsNewest, Detect
    <2>1. d # db
      BY <1>3, EmptyType
    <2> QED
      BY Zenon, <1>3, <2>1 DEF LiveIsNewest, Detect
  <1>13. NewestKept'
    <2> SUFFICES ASSUME NEW d \in Db, ~gone[d]
                 PROVE  \E s \in Slot : dir'[d][s].whole /\ dir'[d][s].ver = newest[d]
      BY Zenon, <1>1 DEF NewestKept
    <2>1. PICK s \in Slot : dir[d][s].whole /\ dir[d][s].ver = newest[d]
      BY DEF NewestKept
    <2>2. CASE d # db
      BY <1>3, <2>1, <2>2
    <2>3. CASE d = db /\ s = "live"
      BY <1>1, <1>3, <2>1, <2>3
    <2>4. CASE d = db /\ s = dest
      BY ZenonT(40), <1>1, <1>3, <2>1, <2>4
    <2>5. CASE d = db /\ s = Backup
      <3>1. ~dir[db][Backup].whole
        BY Zenon, <1>1 DEF FilesNamed
      <3> QED
        BY <2>1, <2>5, <3>1
    <2> QED
      BY Zenon, <1>4, <2>2, <2>3, <2>4, <2>5
  <1> QED
    BY <1>6, <1>7, <1>8, <1>9, <1>10, <1>11, <1>12, <1>13

\* The second rename.
LEMMA MoveInInv == ASSUME MigrateInv, MoveIn PROVE MigrateInv'
  <1> USE DEF MigrateInv
  <1>1. /\ mpc = "moved" /\ UNCHANGED <<newest, torn, gone, dest, swapdb, wipe>>
        /\ db \in Db /\ dest \in Engine /\ db' = Index
        /\ mpc' = IF db = Chainstate THEN "swap" ELSE "open"
        /\ dir[db]["live"] = Nowhere
    BY Zenon DEF MoveIn, SwapReturns, MigrateType, Moved
  <1>2. /\ dir' \in [Db -> [Slot -> Folder]]
        /\ dir'[db]["live"] = dir[db][dest] /\ dir'[db][dest] = Nowhere
        /\ \A d \in Db, s \in Slot : d # db \/ s \notin {"live", dest} => dir'[d][s] = dir[d][s]
    BY ZenonT(40), <1>1, EmptyType DEF MoveIn, MigrateType
  <1>3. MigrateType'
    BY <1>1, <1>2 DEF MigrateType
  <1>4. FilesNamed'
    <2> SUFFICES ASSUME NEW d \in Db, NEW s \in Slot
                 PROVE  /\ dir'[d][s].whole => dir'[d][s].engine # "none"
                        /\ dir'[d][s].engine # "none" => dir'[d][s].there
      BY DEF FilesNamed
    <2>1. CASE d # db \/ s \notin {"live", dest}
      BY SMTT(40), <1>2, <2>1 DEF FilesNamed
    <2>2. CASE d = db /\ s \in {"live", dest}
      BY SMTT(40), <1>1, <1>2, <2>2, EmptyType DEF FilesNamed
    <2> QED
      BY <2>1, <2>2
  <1>5. Copying' /\ Opening' /\ Moved'
    BY Zenon, <1>1 DEF Copying, Opening, Moved
  <1>6. Lost'
    <2> SUFFICES ASSUME NEW d \in Db, ~torn[d], dir'[d]["live"].engine = "none", NEW e \in Engine
                 PROVE  dir'[d][e].there
      BY Zenon, <1>1 DEF Lost
    <2>1. d # db
      BY Zenon, <1>1, <1>2 DEF Moved
    <2> QED
      BY ZenonT(40), <1>2, <2>1 DEF Lost
  <1>7. CopyGood'
    <2> SUFFICES ASSUME NEW d \in Db, Copied(d)', dir'[d]["live"].engine # "none"
                 PROVE  /\ dir'[d][dest] = Files(dest, dir'[d]["live"].ver, dir'[d]["live"].whole)
                        /\ dir'[d]["live"].engine # dest
      BY Zenon, <1>1 DEF CopyGood
    <2>1. Copied(d) /\ d # db
      BY <1>1 DEF Copied
    <2> QED
      BY ZenonT(40), <1>1, <1>2, <2>1 DEF CopyGood
  <1>8. LiveIsNewest'
    <2> SUFFICES ASSUME NEW d \in Db, dir'[d]["live"].engine # "none", ~torn[d]
                 PROVE  dir'[d]["live"].whole /\ dir'[d]["live"].ver \in {0, newest[d]}
      BY Zenon, <1>1 DEF LiveIsNewest, Detect
    <2>1. CASE d # db
      BY Zenon, <1>2, <2>1 DEF LiveIsNewest, Detect
    <2>2. CASE d = db
      BY Zenon, <1>1, <1>2, <2>2 DEF Moved
    <2> QED
      BY <2>1, <2>2
  <1>9. NewestKept'
    <2> SUFFICES ASSUME NEW d \in Db, ~gone[d]
                 PROVE  \E s \in Slot : dir'[d][s].whole /\ dir'[d][s].ver = newest[d]
      BY Zenon, <1>1 DEF NewestKept
    <2>1. PICK s \in Slot : dir[d][s].whole /\ dir[d][s].ver = newest[d]
      BY DEF NewestKept
    <2>2. CASE d # db \/ s \notin {"live", dest}
      BY Zenon, <1>2, <2>1, <2>2
    <2>3. CASE d = db /\ s = dest
      BY <1>2, <2>1, <2>3
    <2>4. CASE d = db /\ s = "live"
      BY Zenon, <1>1, <2>1, <2>4, EmptyType
    <2> QED
      BY Zenon, <2>2, <2>3, <2>4
  <1> QED
    BY <1>3, <1>4, <1>5, <1>6, <1>7, <1>8, <1>9

\* Opening with the wipe of a reindex.
LEMMA DestroyInv == ASSUME MigrateInv, Destroy PROVE MigrateInv'
  <1> USE DEF MigrateInv
  <1>1. /\ mpc = "open" /\ UNCHANGED <<newest, mpc, db, dest, swapdb>> /\ db \in Db
        /\ torn' \in [Db -> BOOLEAN] /\ gone' \in [Db -> BOOLEAN] /\ wipe' \in SUBSET Db
        /\ torn'[db] /\ gone'[db]
        /\ \A d \in Db : d # db => torn'[d] = torn[d] /\ gone'[d] = gone[d]
    BY Zenon DEF Destroy, MigrateType
  <1>2. /\ dir' \in [Db -> [Slot -> Folder]]
        /\ dir'[db]["live"] = NoFiles
        /\ \A d \in Db, s \in Slot : d # db \/ s # "live" => dir'[d][s] = dir[d][s]
    BY ZenonT(40), <1>1, EmptyType DEF Destroy, MigrateType
  <1>3. MigrateType'
    BY <1>1, <1>2 DEF MigrateType
  <1>4. FilesNamed'
    <2> SUFFICES ASSUME NEW d \in Db, NEW s \in Slot
                 PROVE  /\ dir'[d][s].whole => dir'[d][s].engine # "none"
                        /\ dir'[d][s].engine # "none" => dir'[d][s].there
      BY DEF FilesNamed
    <2>1. CASE d # db \/ s # "live"
      BY <1>2, <2>1 DEF FilesNamed
    <2>2. CASE d = db /\ s = "live"
      BY Zenon, <1>2, <2>2, EmptyType
    <2> QED
      BY Zenon, <2>1, <2>2
  <1>5. Copying' /\ Opening' /\ Moved' /\ CopyGood'
    BY <1>1, <1>2 DEF Copying, Opening, Moved, CopyGood, Copied
  <1>6. Lost' /\ LiveIsNewest' /\ NewestKept'
    BY <1>1, <1>2 DEF Lost, LiveIsNewest, NewestKept, Detect
  <1> QED
    BY <1>3, <1>4, <1>5, <1>6

\* Opening with the engine the files show.
LEMMA OpenInv == ASSUME MigrateInv, Open PROVE MigrateInv'
  <1> USE DEF MigrateInv
  <1>1. /\ mpc = "open" /\ UNCHANGED <<newest, gone, wipe>> /\ db \in Db
        /\ torn' \in [Db -> BOOLEAN] /\ db' = Chainstate /\ dest' \in Engine /\ swapdb' \in BOOLEAN
        /\ mpc' = IF db = Index THEN "open" ELSE "run"
        /\ \A d \in Db : d # db => torn'[d] = torn[d]
        /\ dir[db]["live"].engine # "none" => torn'[db] = torn[db]
    BY Zenon DEF Open, MigrateType, Detect
  <1>2. PICK e \in Engine : dir' = [dir EXCEPT ![db]["live"] = Opened(db, e)]
    BY Zenon DEF Open
  <1>3. /\ Opened(db, e) \in Folder /\ Opened(db, e).engine # "none"
        /\ IF dir[db]["live"].engine = "none" THEN Opened(db, e) = Files(e, 0, TRUE)
                                             ELSE Opened(db, e) = dir[db]["live"]
    BY ZenonT(40), <1>1 DEF Opened, Detect, Files, Folder, MigrateType
  <1>4. /\ dir' \in [Db -> [Slot -> Folder]]
        /\ dir'[db]["live"] = Opened(db, e)
        /\ \A d \in Db, s \in Slot : d # db \/ s # "live" => dir'[d][s] = dir[d][s]
    BY Zenon, <1>1, <1>2, <1>3 DEF MigrateType
  <1>5. MigrateType'
    BY Zenon, <1>1, <1>4 DEF MigrateType
  <1>6. FilesNamed'
    <2> SUFFICES ASSUME NEW d \in Db, NEW s \in Slot
                 PROVE  /\ dir'[d][s].whole => dir'[d][s].engine # "none"
                        /\ dir'[d][s].engine # "none" => dir'[d][s].there
      BY Zenon DEF FilesNamed
    <2>1. CASE d # db \/ s # "live"
      BY SMTT(40), <1>4, <2>1 DEF FilesNamed
    <2>2. CASE d = db /\ s = "live"
      <3>1. dir'[d][s] = Opened(db, e)
        BY Zenon, <1>4, <2>2
      <3>2. CASE Opened(db, e) = Files(e, 0, TRUE)
        BY <1>3, <3>1, <3>2 DEF Files
      <3>3. CASE Opened(db, e) = dir[db]["live"] /\ dir[db]["live"].engine # "none"
        BY Zenon, <1>1, <2>2, <3>1, <3>3 DEF FilesNamed
      <3> QED BY Zenon, <1>3, <3>2, <3>3
    <2> QED
      BY Zenon, <2>1, <2>2
  <1>7. Copying' /\ Opening' /\ Moved' /\ CopyGood'
    BY <1>1, <1>3, <1>4 DEF Copying, Opening, Moved, CopyGood, Copied
  <1>8. Lost'
    BY <1>1, <1>3, <1>4 DEF Lost
  <1>9. LiveIsNewest'
    <2> SUFFICES ASSUME NEW d \in Db, dir'[d]["live"].engine # "none", ~torn'[d]
                 PROVE  dir'[d]["live"].whole /\ dir'[d]["live"].ver \in {0, newest[d]}
      BY Zenon, <1>1 DEF LiveIsNewest, Detect
    <2>1. CASE d # db
      BY <1>1, <1>4, <2>1 DEF LiveIsNewest, Detect
    <2>2. CASE d = db
      BY <1>1, <1>3, <1>4, <2>2 DEF LiveIsNewest, Detect, Files
    <2> QED
      BY Zenon, <2>1, <2>2
  <1>10. NewestKept'
    <2> SUFFICES ASSUME NEW d \in Db, ~gone[d]
                 PROVE  \E s \in Slot : dir'[d][s].whole /\ dir'[d][s].ver = newest[d]
      BY Zenon, <1>1 DEF NewestKept
    <2>1. PICK s \in Slot : dir[d][s].whole /\ dir[d][s].ver = newest[d]
      BY Zenon DEF NewestKept
    <2>2. dir[d][s].engine # "none"
      BY Zenon, <2>1 DEF FilesNamed
    <2>3. CASE d # db \/ s # "live"
      BY Zenon, <1>4, <2>1, <2>3
    <2>4. CASE d = db /\ s = "live"
      BY <1>3, <1>4, <2>1, <2>2, <2>4
    <2> QED
      BY Zenon, <2>3, <2>4
  <1> QED
    BY <1>5, <1>6, <1>7, <1>8, <1>9, <1>10

\* The running node writes.
LEMMA WriteLiveInv == ASSUME MigrateInv, WriteLive PROVE MigrateInv'
  <1> USE DEF MigrateInv
  <1> DEFINE new(d) == [there |-> TRUE, engine |-> dir[d]["live"].engine,
                        ver |-> newest[d] + 1, whole |-> dir[d]["live"].whole]
  <1>1. mpc = "run" /\ UNCHANGED <<torn, mpc, db, dest, swapdb, wipe>>
    BY Zenon DEF WriteLive
  <1>2. PICK w \in Db : /\ newest' = [newest EXCEPT ![w] = @ + 1]
                        /\ gone' = [gone EXCEPT ![w] = ~dir[w]["live"].whole]
                        /\ dir' = [dir EXCEPT ![w]["live"] = new(w)]
    BY Zenon DEF WriteLive, MigrateType
  <1>3. /\ newest' \in [Db -> Nat] /\ newest'[w] = newest[w] + 1
        /\ gone' \in [Db -> BOOLEAN] /\ gone'[w] = ~dir[w]["live"].whole
        /\ \A d \in Db : d # w => newest'[d] = newest[d] /\ gone'[d] = gone[d]
    BY <1>2 DEF MigrateType
  <1>4. new(w) \in Folder
    BY <1>2 DEF MigrateType, Folder
  <1>5. /\ dir' \in [Db -> [Slot -> Folder]]
        /\ dir'[w]["live"] = new(w)
        /\ \A d \in Db, s \in Slot : d # w \/ s # "live" => dir'[d][s] = dir[d][s]
    BY ZenonT(40), <1>2, <1>4 DEF MigrateType
  <1>6. /\ dir'[w]["live"].engine = dir[w]["live"].engine /\ dir'[w]["live"].there
        /\ dir'[w]["live"].whole = dir[w]["live"].whole /\ dir'[w]["live"].ver = newest'[w]
    BY <1>3, <1>5
  <1> HIDE DEF new
  <1>7. MigrateType'
    BY Zenon, <1>1, <1>3, <1>5 DEF MigrateType
  <1>8. FilesNamed'
    BY SMTT(40), <1>5, <1>6 DEF FilesNamed
  <1>9. Copying' /\ Opening' /\ Moved' /\ CopyGood'
    BY SMTT(40), <1>1, <1>5, <1>6 DEF Copying, Opening, Moved, CopyGood, Copied
  <1>10. Lost'
    BY <1>1, <1>5, <1>6 DEF Lost, Opening
  <1>11. LiveIsNewest'
    BY <1>1, <1>3, <1>5, <1>6 DEF LiveIsNewest, Detect
  <1>12. NewestKept'
    BY <1>3, <1>5, <1>6 DEF NewestKept
  <1> QED
    BY <1>7, <1>8, <1>9, <1>10, <1>11, <1>12

-----------------------------------------------------------------------------
(* The invariant is inductive: every step of a start, of a copy, of a swap *)
(* and of an opening (dbmigrate.cpp, dbwrapper.cpp), and a crash between   *)
(* any two of them, preserves it, for any number of versions written.      *)
THEOREM MigrateInvariant == MigrateSpec => []MigrateInv
  <1>1. MigrateInv /\ [MigrateStep \/ MigrateCrash]_migrateVars => MigrateInv'
    <2> SUFFICES ASSUME MigrateInv, [MigrateStep \/ MigrateCrash]_migrateVars PROVE MigrateInv'
      OBVIOUS
    <2>1. CASE Start \/ SkipCopy \/ RefuseCopy \/ NoSwap \/ RefuseSwap \/ MigrateCrash
      BY <2>1, QuietInv
    <2>2. CASE BeginCopy
      BY <2>2, BeginCopyInv
    <2>3. CASE EndCopy
      BY SMTT(40), <2>3, EndCopyInv
    <2>4. CASE MoveAside
      BY <2>4, MoveAsideInv
    <2>5. CASE MoveIn
      BY <2>5, MoveInInv
    <2>6. CASE Destroy
      BY <2>6, DestroyInv
    <2>7. CASE Open
      BY <2>7, OpenInv
    <2>8. CASE WriteLive
      BY <2>8, WriteLiveInv
    <2>9. CASE UNCHANGED migrateVars
      <3>1. UNCHANGED <<dir, newest, torn, gone, mpc, db, dest, swapdb, wipe>>
        BY Zenon, <2>9 DEF migrateVars
      <3>2. (MigrateType /\ FilesNamed /\ Copying /\ Lost)'
        BY Zenon, <3>1 DEF MigrateInv, MigrateType, FilesNamed, Copying, Lost
      <3>3. (CopyGood /\ Moved /\ Opening /\ LiveIsNewest /\ NewestKept)'
        BY Zenon, <3>1 DEF MigrateInv, CopyGood, Copied, Moved, Opening, LiveIsNewest, NewestKept, Detect
      <3> QED BY Zenon, <3>2, <3>3 DEF MigrateInv
    <2> QED
      BY <2>1, <2>2, <2>3, <2>4, <2>5, <2>6, <2>7, <2>8, <2>9 DEF MigrateStep
  <1> QED
    BY <1>1, MigrateInitInv, PTL DEF MigrateSpec

(* A copy cut short, or overtaken by the live database, is never renamed   *)
(* into place and opened (RunRequestedDbMigration, swapOne).               *)
THEOREM LiveTheorem == MigrateSpec => []LiveIsNewest
  <1>1. MigrateInv => LiveIsNewest
    BY DEF MigrateInv
  <1> QED
    BY <1>1, MigrateInvariant, PTL

(* What the node wrote last stays complete in one of the folders through   *)
(* every migration, refusal and crash (swapOne keeps the old folder).      *)
THEOREM KeptTheorem == MigrateSpec => []NewestKept
  <1>1. MigrateInv => NewestKept
    BY DEF MigrateInv
  <1> QED
    BY <1>1, MigrateInvariant, PTL

HIDE DEF Chainstate, Index, Db, Engine, Slot

-----------------------------------------------------------------------------
(* BlockArchive *)

Busy == apc \in {"archive", "copying", "unlink"}

ArchiveType ==
  /\ live \in [BlockFile -> SUBSET Part]
  /\ copy \in [BlockFile -> [Part -> Copy]]
  /\ sidecar \in [BlockFile -> SUBSET Part]
  /\ haveData \subseteq BlockFile /\ savedData \subseteq BlockFile /\ toPrune \subseteq BlockFile
  /\ apc \in {"idle", "index", "files", "archive", "copying", "unlink"}
  /\ part \in Part
  /\ Busy => file \in BlockFile

\* A sidecar vouches for a complete copy.
SidecarTrue == \A f \in BlockFile, p \in Part : p \in sidecar[f] => copy[f][p] = "whole"

\* The index in memory has forgotten the files that are being pruned, and so has the
\* one on disk from the moment on that files are touched.
Forgotten ==
  /\ apc # "idle" => haveData \cap toPrune = {}
  /\ apc = "idle" => toPrune = {}
  /\ apc = "files" \/ Busy => savedData \cap toPrune = {} /\ savedData = haveData
  /\ Busy => file \notin haveData \cup savedData \cup toPrune

\* Files the index has, or that still wait to be pruned, are in blocks/.
Present ==
  /\ \A f \in haveData \cup savedData \cup toPrune : live[f] = Part
  /\ apc \in {"archive", "copying"} => live[file] = Part

\* The parts that ArchiveBlockFilePair is through with are complete in the archive.
Archived ==
  Archiving =>
    /\ apc \in {"archive", "copying"} /\ part = "rev" => copy[file]["blk"] = "whole"
    /\ apc = "unlink" => \A p \in Part : copy[file][p] = "whole"

ArchiveInv ==
  ArchiveType /\ SidecarTrue /\ Forgotten /\ Present /\ Archived /\ OnlyCopyKept

\* No archive is there at the start.
LEMMA ArchiveInitInv == ArchiveInit => ArchiveInv
  <1> SUFFICES ASSUME ArchiveInit PROVE ArchiveInv
    OBVIOUS
  <1>1. copy \in [BlockFile -> [Part -> Copy]]
    BY DEF ArchiveInit, Copy, Part
  <1> QED
    BY Zenon, <1>1 DEF ArchiveInit, ArchiveInv, ArchiveType, Busy, SidecarTrue, Forgotten, Present,
                Archived, OnlyCopyKept, Part

\* The steps that touch neither a block file nor a copy.
LEMMA BookkeepingInv ==
  ASSUME ArchiveInv, FindFilesToPrune \/ WriteIndex \/ NextFile \/ PruneDone \/ PartFails
                     \/ ArchiveCrash
  PROVE  ArchiveInv'
  <1> USE ArchiveAssumption DEF ArchiveInv, ArchiveType, Busy, SidecarTrue, Forgotten, Present,
          Archived, OnlyCopyKept, Part
  <1>1. CASE FindFilesToPrune
    BY <1>1 DEF FindFilesToPrune
  <1>2. CASE WriteIndex
    BY ZenonT(40), <1>2 DEF WriteIndex
  <1>3. CASE NextFile
    BY <1>3 DEF NextFile
  <1>4. CASE PruneDone
    BY ZenonT(40), <1>4 DEF PruneDone
  <1>5. CASE PartFails
    BY ZenonT(40), <1>5 DEF PartFails
  <1>6. CASE ArchiveCrash
    BY ZenonT(40), <1>6 DEF ArchiveCrash
  <1> QED
    BY Zenon, <1>1, <1>2, <1>3, <1>4, <1>5, <1>6

\* A part whose copy has a sidecar is not copied again.
LEMMA SkipPartInv == ASSUME ArchiveInv, SkipPart PROVE ArchiveInv'
  BY DEF ArchiveInv, ArchiveType, Busy, SidecarTrue, Forgotten, Present, Archived, OnlyCopyKept,
         Part, SkipPart, AlreadyHave, PartArchived

\* A copy is begun only over one that no sidecar vouches for, of a file in blocks/.
LEMMA BeginPartInv == ASSUME ArchiveInv, BeginPart PROVE ArchiveInv'
  <1> USE DEF ArchiveInv, ArchiveType, Busy, Part
  <1>1. file \in BlockFile /\ part \notin sidecar[file]
    BY DEF BeginPart, AlreadyHave, SidecarTrue
  <1>2. /\ copy' \in [BlockFile -> [Part -> Copy]]
        /\ \A f \in BlockFile, p \in Part :
             copy'[f][p] = IF f = file /\ p = part THEN "cut" ELSE copy[f][p]
    BY Zenon, <1>1 DEF BeginPart, Copy
  <1>3. ArchiveType' /\ Forgotten' /\ Present'
    BY Zenon, <1>1, <1>2 DEF BeginPart, Forgotten, Present
  <1>4. SidecarTrue'
    BY <1>1, <1>2 DEF BeginPart, SidecarTrue
  <1>5. OnlyCopyKept' /\ Archived'
    BY ZenonT(40), <1>1, <1>2 DEF BeginPart, OnlyCopyKept, Archived, Present
  <1> QED
    BY Zenon, <1>3, <1>4, <1>5

\* The archived copy of a part is complete.
LEMMA EndPartInv == ASSUME ArchiveInv, EndPart PROVE ArchiveInv'
  <1> USE DEF ArchiveInv, ArchiveType, Busy, Part
  <1>1. file \in BlockFile
    BY DEF EndPart
  <1>2. /\ copy' \in [BlockFile -> [Part -> Copy]]
        /\ \A f \in BlockFile, p \in Part :
             copy'[f][p] = IF f = file /\ p = part THEN "whole" ELSE copy[f][p]
    BY Zenon, <1>1 DEF EndPart, Copy
  <1>3. /\ sidecar' \in [BlockFile -> SUBSET Part]
        /\ \A f \in BlockFile, p \in Part :
             p \in sidecar'[f] => p \in sidecar[f] \/ (f = file /\ p = part)
    BY ZenonT(40), <1>1 DEF EndPart
  <1>4. ArchiveType' /\ Forgotten' /\ Present'
    BY Zenon, <1>1, <1>2, <1>3 DEF EndPart, PartArchived, Forgotten, Present
  <1>5. SidecarTrue'
    BY ZenonT(40), <1>1, <1>2, <1>3 DEF SidecarTrue
  <1>6. OnlyCopyKept' /\ Archived'
    BY <1>1, <1>2 DEF EndPart, PartArchived, OnlyCopyKept, Archived
  <1> QED
    BY <1>4, <1>5, <1>6

\* A part is deleted after the pair was archived.
LEMMA UnlinkInv == ASSUME ArchiveInv, Unlink PROVE ArchiveInv'
  <1> USE DEF ArchiveInv, ArchiveType, Busy, Part
  <1>1. file \in BlockFile
    BY Zenon DEF Unlink
  <1>2. /\ live' \in [BlockFile -> SUBSET Part]
        /\ \A f \in BlockFile : f # file => live'[f] = live[f]
    BY Zenon, <1>1 DEF Unlink
  <1>3. ArchiveType' /\ Forgotten' /\ SidecarTrue'
    BY <1>1, <1>2 DEF Unlink, Forgotten, SidecarTrue
  <1>4. Present'
    BY Zenon, <1>1, <1>2 DEF Unlink, Present, Forgotten
  <1>5. OnlyCopyKept' /\ Archived'
    BY <1>1, <1>2 DEF Unlink, OnlyCopyKept, Archived
  <1> QED
    BY Zenon, <1>3, <1>4, <1>5

\* What every step of the prune, and every crash, preserves.
THEOREM ArchiveInvariant == ArchiveSpec => []ArchiveInv
  <1>1. ArchiveInv /\ [ArchiveStep \/ ArchiveCrash]_archiveVars => ArchiveInv'
    <2> SUFFICES ASSUME ArchiveInv, [ArchiveStep \/ ArchiveCrash]_archiveVars
                 PROVE  ArchiveInv'
      OBVIOUS
    <2>1. CASE UNCHANGED archiveVars
      BY Zenon, <2>1 DEF archiveVars, ArchiveInv, ArchiveType, Busy, SidecarTrue, Forgotten, Present,
                  Archived, OnlyCopyKept
    <2>2. CASE ArchiveStep \/ ArchiveCrash
      BY <2>2, BookkeepingInv, SkipPartInv, BeginPartInv, EndPartInv, UnlinkInv DEF ArchiveStep
    <2> QED
      BY <2>1, <2>2
  <1> QED
    BY <1>1, ArchiveInitInv, PTL DEF ArchiveSpec

\* With -archivepath the only complete copy of a block file is never removed: not by a
\* failed copy, a copy cut short by a crash, or one found from an earlier run.
THEOREM OnlyCopyTheorem == ArchiveSpec => []OnlyCopyKept
  <1>1. ArchiveInv => OnlyCopyKept
    BY DEF ArchiveInv
  <1> QED
    BY <1>1, ArchiveInvariant, PTL

\* The block index, in memory or on disk, only promises block files that are there.
THEOREM IndexTheorem == ArchiveSpec => []IndexOnlyPromisesFiles
  <1>1. ArchiveInv => IndexOnlyPromisesFiles
    BY DEF ArchiveInv, Present, IndexOnlyPromisesFiles
  <1> QED
    BY <1>1, ArchiveInvariant, PTL

-----------------------------------------------------------------------------
(* SnapshotFetch *)

OneCaller == \A c, d \in Caller : c = d

Byte == Chunk \cup {Zero}
FetchPc == {"idle", "clean", "open", "stream", "rename", "compare", "ok"}

FetchType ==
  /\ bytes \in [File -> Seq(Byte)]
  /\ partial \in File \cup {NoFetch} /\ fetched \in File \cup {NoFetch}
  /\ fpc \in [Caller -> FetchPc]
  /\ sources \in [Caller -> Seq(Source)]
  /\ fd \in [Caller -> File \cup {NoFetch}]
  /\ got \in [Caller -> Seq(Chunk)]

\* The file x is exactly what call c has hashed.
Holds(x, c) == x # NoFetch /\ bytes[x] = got[c]

\* A call under way has a source, and the name it is at refers to its bytes.
InStep ==
  \A c \in Caller :
    /\ fpc[c] # "idle" => sources[c] # <<>>
    /\ fpc[c] = "stream" => fd[c] = partial
    /\ fpc[c] \in {"stream", "rename"} => Holds(partial, c)
    /\ fpc[c] \in {"compare", "ok"} => Holds(fetched, c)
    /\ fpc[c] = "ok" => got[c] = Expected

FetchInv == FetchType /\ InStep

-----------------------------------------------------------------------------
\* Every list of candidates StartFetch chooses from is a non-empty list of sources.
LEMMA Candidates ==
  \A ss \in Orders \cup {<<s>> : s \in Source} : ss \in Seq(Source) /\ ss # <<>>
<1>1. Cardinality(Source) \in Nat /\ Cardinality(Source) # 0
  BY SMTT(40), FS_CardinalityType, FS_EmptySet, FetchAssumption
<1>2. ASSUME NEW ss \in Orders PROVE ss \in Seq(Source) /\ ss # <<>>
  <2>1. ss \in [1..Cardinality(Source) -> Source]
    BY DEF Orders
  <2>2. ss \in Seq(Source) /\ Len(ss) = Cardinality(Source)
    BY <1>1, <2>1
  <2>3. \A q : q = <<>> => Len(q) = 0
    OBVIOUS
  <2> QED BY <1>1, <2>2, <2>3
<1>3. ASSUME NEW s \in Source PROVE <<s>> \in Seq(Source) /\ <<s>> # <<>>
  OBVIOUS
<1> QED BY Zenon, <1>2, <1>3

\* A sequence is a function on the numbers up to its length.
LEMMA SeqIsFunction ==
  ASSUME NEW S, NEW seq \in Seq(S)
  PROVE  seq \in [1..Len(seq) -> S]
  OBVIOUS

\* The first element of a sequence.
LEMMA HeadIn == ASSUME NEW S, NEW seq \in Seq(S), seq # <<>> PROVE Head(seq) \in S
  OBVIOUS

\* One more element makes a sequence.
LEMMA AppendIn == ASSUME NEW S, NEW seq \in Seq(S), NEW v \in S PROVE Append(seq, v) \in Seq(S)
  OBVIOUS

\* What follows a shorter sequence in a longer one.
LEMMA NextIn ==
  ASSUME NEW S, NEW seq \in Seq(S), NEW T, NEW q \in Seq(T), Len(seq) + 1 <= Len(q)
  PROVE  Len(seq) + 1 \in 1..Len(q) /\ q[Len(seq) + 1] \in T
  OBVIOUS

\* Writing at the end of a file appends.
LEMMA WriteAppends ==
  ASSUME NEW s \in Seq(Byte), NEW v \in Byte
  PROVE  WrittenAt(s, Len(s) + 1, v) = Append(s, v)
<1>1. Len(s) \in Nat /\ Len(s) + 1 > Len(s)
  OBVIOUS
<1>2. WrittenAt(s, Len(s) + 1, v) = [k \in 1..(Len(s) + 1) |-> IF k = Len(s) + 1 THEN v ELSE s[k]]
  BY <1>1 DEF WrittenAt
<1>3. Append(s, v) = [k \in 1..(Len(s) + 1) |-> IF k = Len(s) + 1 THEN v ELSE s[k]]
  <2>1. Append(s, v) \in Seq(Byte) /\ Len(Append(s, v)) = Len(s) + 1
    OBVIOUS
  <2>2. \A k \in 1..(Len(s) + 1) : Append(s, v)[k] = IF k = Len(s) + 1 THEN v ELSE s[k]
    OBVIOUS
  <2>3. Append(s, v) \in [1..(Len(s) + 1) -> Byte]
    BY Zenon, <2>1, SeqIsFunction
  <2> QED BY Zenon, <2>2, <2>3
<1> QED BY <1>2, <1>3

\* A source that failed is followed by the next, or by the end of the call.
LEMMA NextSourceKeeps ==
  ASSUME OneCaller, FetchInv, NEW c \in Caller, fpc[c] # "idle", NextSource(c),
         partial' \in {partial, NoFetch}, fetched' \in {fetched, NoFetch}
  PROVE  FetchInv'
<1>1. sources[c] \in Seq(Source) /\ sources[c] # <<>>
  BY Zenon DEF FetchInv, FetchType, InStep
<1>2. /\ Tail(sources[c]) \in Seq(Source)
      /\ Len(sources[c]) > 1 => Tail(sources[c]) # <<>>
  <2>1. Tail(sources[c]) \in Seq(Source) /\ Len(Tail(sources[c])) = Len(sources[c]) - 1
    BY <1>1
  <2>2. Len(<<>>) = 0 /\ Len(sources[c]) \in Nat
    BY SMTT(40), <1>1
  <2>3. ASSUME Len(sources[c]) > 1, Tail(sources[c]) = <<>> PROVE FALSE
    <3>1. Len(Tail(sources[c])) = 0
      BY Zenon, <2>2, <2>3
    <3>2. \A n \in Nat : n > 1 => n - 1 # 0
      OBVIOUS
    <3> QED BY <2>1, <2>2, <2>3, <3>1, <3>2, Zenon
  <2> QED BY <2>1, <2>3
<1>3. FetchType'
  BY <1>2 DEF FetchInv, FetchType, NextSource, FetchPc
<1>4. \A d \in Caller : d = c
  BY DEF OneCaller
<1>5. /\ fpc'[c] = IF Len(sources[c]) > 1 THEN "clean" ELSE "idle"
      /\ sources'[c] = Tail(sources[c])
  BY Zenon DEF NextSource, FetchInv, FetchType
<1>6. InStep'
  BY Zenon, <1>2, <1>4, <1>5 DEF InStep
<1> QED BY <1>3, <1>6 DEF FetchInv

\* Every step of the one call keeps the file and the digest in step.
LEMMA FetchKeeps ==
  ASSUME OneCaller, FetchInv, NEW c \in Caller,
         \/ StartFetch(c) \/ Clean(c) \/ OpenPartial(c) \/ Stream(c) \/ StreamFails(c)
         \/ RemoveDest(c) \/ Rename(c) \/ CompareOk(c) \/ CompareFails(c) \/ Verified(c)
  PROVE  FetchInv'
<1>o. \A d \in Caller : d = c
  BY DEF OneCaller
<1>f. NoFetch \notin File
  BY FetchAssumption
<1>1. CASE StartFetch(c)
  <2>1. FetchType'
    BY Zenon, <1>1, Candidates DEF StartFetch, FetchInv, FetchType, FetchPc
  <2>2. fpc'[c] \in {"clean", "open"} /\ sources'[c] # <<>>
    BY Zenon, <1>1, Candidates DEF StartFetch, FetchInv, FetchType
  <2>3. InStep'
    BY Zenon, <1>o, <2>2 DEF InStep
  <2> QED BY <2>1, <2>3 DEF FetchInv
<1>2. CASE Clean(c)
  <2>1. FetchType' /\ fpc'[c] = "open" /\ sources'[c] # <<>>
    BY Zenon, <1>2 DEF Clean, FetchInv, FetchType, InStep, FetchPc
  <2>2. InStep'
    BY Zenon, <1>o, <2>1 DEF InStep
  <2> QED BY Zenon, <2>1, <2>2 DEF FetchInv
<1>3. CASE OpenPartial(c)
  <2>1. PICK x \in File : /\ bytes' = [bytes EXCEPT ![x] = <<>>] /\ partial' = x
                          /\ fd' = [fd EXCEPT ![c] = x]
    BY Zenon, <1>3 DEF OpenPartial
  <2>2. <<>> \in Seq(Byte) /\ <<>> \in Seq(Chunk)
    OBVIOUS
  <2>3. FetchType'
    BY Zenon, <1>3, <2>1, <2>2 DEF OpenPartial, FetchInv, FetchType, FetchPc
  <2>4. /\ fpc'[c] = "stream" /\ fd'[c] = x /\ got'[c] = <<>> /\ bytes'[x] = <<>>
        /\ sources'[c] # <<>>
    BY Zenon, <1>3, <2>1 DEF OpenPartial, FetchInv, FetchType, InStep
  <2>5. InStep'
    BY Zenon, <1>o, <1>f, <2>1, <2>4 DEF InStep, Holds
  <2> QED BY <2>3, <2>5 DEF FetchInv
<1>4. CASE Stream(c)
  <2> DEFINE from == Content[Head(sources[c])]
             i == Len(got[c]) + 1
  <2>1. /\ sources[c] \in Seq(Source) /\ sources[c] # <<>> /\ got[c] \in Seq(Chunk)
        /\ fd[c] = partial /\ partial \in File /\ bytes[partial] = got[c]
    BY Zenon, <1>4 DEF Stream, FetchInv, FetchType, InStep, Holds
  <2>2. from \in Seq(Chunk)
    <3>1. Head(sources[c]) \in Source
      BY Zenon, <2>1, HeadIn
    <3> QED BY Zenon, <3>1, FetchAssumption
  <2>3. i \in 1..Len(from) /\ from[i] \in Chunk
    BY Zenon, <1>4, <2>1, <2>2, NextIn DEF Stream
  <2>4. WrittenAt(bytes[partial], i, from[i]) = Append(got[c], from[i])
    <3>1. got[c] \in Seq(Byte)
      BY Zenon, <2>1 DEF FetchInv, FetchType
    <3> QED BY Zenon, <2>1, <2>3, <3>1, WriteAppends DEF Byte
  <2>5. /\ bytes' = [bytes EXCEPT ![partial] = Append(got[c], from[i])]
        /\ got' = [got EXCEPT ![c] = Append(got[c], from[i])]
    BY ZenonT(40), <1>4, <2>1, <2>4 DEF Stream
  <2>6. Append(got[c], from[i]) \in Seq(Chunk) /\ Append(got[c], from[i]) \in Seq(Byte)
    <3>1. got[c] \in Seq(Byte) /\ from[i] \in Byte
      BY Zenon, <2>1, <2>3 DEF FetchInv, FetchType, Byte
    <3>2. Append(got[c], from[i]) \in Seq(Chunk)
      BY Zenon, <2>1, <2>3, AppendIn
    <3>3. Append(got[c], from[i]) \in Seq(Byte)
      BY Zenon, <3>1, AppendIn
    <3> QED BY Zenon, <3>2, <3>3
  <2> HIDE DEF from, i
  <2>7. FetchType'
    <3>1. bytes' \in [File -> Seq(Byte)]
      BY Zenon, <2>1, <2>5, <2>6 DEF FetchInv, FetchType
    <3>2. got' \in [Caller -> Seq(Chunk)]
      BY Zenon, <2>5, <2>6 DEF FetchInv, FetchType
    <3> QED BY Zenon, <1>4, <3>1, <3>2 DEF Stream, FetchInv, FetchType
  <2>8. bytes'[partial] = got'[c]
    BY Zenon, <2>1, <2>5 DEF FetchInv, FetchType
  <2>9. InStep'
    BY Zenon, <1>4, <1>o, <1>f, <2>1, <2>8 DEF Stream, InStep, Holds
  <2> QED BY <2>7, <2>9 DEF FetchInv
<1>5. CASE StreamFails(c)
  BY Zenon, <1>5, NextSourceKeeps DEF StreamFails
<1>6. CASE RemoveDest(c)
  <2>1. FetchType' /\ fpc'[c] = "rename" /\ UNCHANGED <<bytes, partial, sources, got>>
    BY Zenon, <1>6 DEF RemoveDest, FetchInv, FetchType, FetchPc
  <2>2. InStep'
    BY Zenon, <1>6, <1>o, <2>1 DEF RemoveDest, FetchInv, InStep, Holds
  <2> QED BY <2>1, <2>2 DEF FetchInv
<1>7. CASE Rename(c)
  <2>1. CASE NextSource(c) /\ UNCHANGED fetched
    BY Zenon, <1>7, <2>1, NextSourceKeeps DEF Rename
  <2>2. CASE /\ fetched' = partial /\ fpc' = [fpc EXCEPT ![c] = "compare"]
             /\ UNCHANGED <<bytes, sources, cleans, fd, got>>
    <3>1. FetchType' /\ fpc'[c] = "compare"
      BY Zenon, <1>7, <2>2 DEF Rename, FetchInv, FetchType, FetchPc
    <3>2. InStep'
      BY Zenon, <1>7, <1>o, <2>2, <3>1 DEF Rename, FetchInv, InStep, Holds
    <3> QED BY <3>1, <3>2 DEF FetchInv
  <2> QED BY Zenon, <1>7, <2>1, <2>2 DEF Rename
<1>8. CASE CompareOk(c)
  <2>1. FetchType' /\ fpc'[c] = "ok"
    BY Zenon, <1>8 DEF CompareOk, FetchInv, FetchType, FetchPc
  <2>2. InStep'
    BY Zenon, <1>8, <1>o, <2>1 DEF CompareOk, FetchInv, InStep, Holds
  <2> QED BY <2>1, <2>2 DEF FetchInv
<1>9. CASE CompareFails(c)
  BY Zenon, <1>9, NextSourceKeeps DEF CompareFails
<1>10. CASE Verified(c)
  <2>1. FetchType' /\ fpc'[c] = "idle"
    BY SMTT(40), <1>10 DEF Verified, FetchInv, FetchType, FetchPc
  <2>2. InStep'
    BY Zenon, <1>o, <2>1 DEF InStep
  <2> QED BY <2>1, <2>2 DEF FetchInv
<1> QED BY Zenon, <1>1, <1>2, <1>3, <1>4, <1>5, <1>6, <1>7, <1>8, <1>9, <1>10

\* A call that reports success, after any failed sources, aborts and crashes, leaves
\* at dest the file whose digest was asked for: FetchSnapshotArtifact compares the
\* digest of a stream, and dest holds that stream.
THEOREM FetchTheorem == OneCaller /\ FetchSpec => []FetchVerified
<1> SUFFICES ASSUME OneCaller PROVE FetchSpec => []FetchVerified
  OBVIOUS
<1>1. FetchInit => FetchInv
  <2>1. <<>> \in Seq(Byte) /\ <<>> \in Seq(Chunk) /\ <<>> \in Seq(Source)
    OBVIOUS
  <2> QED BY Zenon, <2>1 DEF FetchInit, FetchInv, FetchType, InStep, FetchPc
<1>2. FetchInv /\ [FetchStep \/ FetchCrash]_fetchVars => FetchInv'
  <2> SUFFICES ASSUME FetchInv, [FetchStep \/ FetchCrash]_fetchVars PROVE FetchInv'
    OBVIOUS
  <2>1. CASE FetchStep
    BY Zenon, <2>1, FetchKeeps DEF FetchStep
  <2>2. CASE FetchCrash
    <3>1. <<>> \in Seq(Chunk) /\ <<>> \in Seq(Source)
      OBVIOUS
    <3> QED BY Zenon, <2>2, <3>1 DEF FetchCrash, FetchInv, FetchType, InStep, FetchPc
  <2>3. CASE UNCHANGED fetchVars
    BY Zenon, <2>3 DEF fetchVars, FetchInv, FetchType, InStep, Holds
  <2> QED BY SMTT(40), <2>1, <2>2, <2>3
<1>3. FetchInv => FetchVerified
  BY Zenon DEF FetchInv, InStep, Holds, FetchVerified
<1> QED BY <1>1, <1>2, <1>3, PTL DEF FetchSpec

-----------------------------------------------------------------------------
(* The node *)

\* Each part of the node behaves as it does alone: migration has finished before
\* the others start, and a crash cuts them all.
THEOREM NodeParts == Spec => MigrateSpec /\ ArchiveSpec /\ FetchSpec
<1>1. Init => MigrateInit /\ ArchiveInit /\ FetchInit
  BY DEF Init
<1>2. [Next]_fileVars => /\ [MigrateStep \/ MigrateCrash]_migrateVars
                        /\ [ArchiveStep \/ ArchiveCrash]_archiveVars
                        /\ [FetchStep \/ FetchCrash]_fetchVars
  <2> SUFFICES ASSUME [Next]_fileVars
               PROVE  /\ MigrateStep \/ MigrateCrash \/ UNCHANGED migrateVars
                      /\ ArchiveStep \/ ArchiveCrash \/ UNCHANGED archiveVars
                      /\ FetchStep \/ FetchCrash \/ UNCHANGED fetchVars
    OBVIOUS
  <2>1. CASE Databases
    BY <2>1 DEF Databases, PlainStart, MigrateStep
  <2>2. CASE Prune
    BY <2>2 DEF Prune
  <2>3. CASE Fetch
    BY <2>3 DEF Fetch
  <2>4. CASE Crash
    BY <2>4 DEF Crash
  <2>5. CASE UNCHANGED fileVars
    BY <2>5 DEF fileVars
  <2> QED BY <2>1, <2>2, <2>3, <2>4, <2>5 DEF Next
<1> QED BY <1>1, <1>2, PTL DEF Spec, MigrateSpec, ArchiveSpec, FetchSpec

\* In every life of the node the live databases are the newest ones, the newest
\* one and the only copy of a block file are never destroyed, and the block index
\* promises no file that is gone.
THEOREM FilesSafe ==
  Spec => [](LiveIsNewest /\ NewestKept /\ OnlyCopyKept /\ IndexOnlyPromisesFiles)
  BY NodeParts, LiveTheorem, KeptTheorem, OnlyCopyTheorem, IndexTheorem, PTL

\* A node with one fetch at a time reports only the file that was asked for.
THEOREM NodeFetch == OneCaller /\ Spec => []FetchVerified
  BY NodeParts, FetchTheorem, PTL
=============================================================================
