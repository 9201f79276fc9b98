----------------------------- MODULE DbMigrate -----------------------------
(***************************************************************************)
(* The engine migration of the two local databases (dbmigrate.cpp, with    *)
(* dbengine.cpp and the opening of the databases in init.cpp): -migratedb  *)
(* copies the chainstate and then the block index to sibling folders,      *)
(* -swapdb renames the live folders aside and the copies into place.       *)
(*                                                                         *)
(* A folder is what DetectExistingEngine and fs::exists tell of it, which  *)
(* version of the database it holds, and whether it holds all of it.       *)
(***************************************************************************)
EXTENDS Integers

CONSTANT MaxVer     \* bound on the versions a database goes through

ASSUME VersionAssumption == MaxVer \in Nat

(* The chainstate is copied and swapped first; the index is opened first.  *)
Chainstate == 1
Index == 2
Db == {Chainstate, Index}

Engine == {"leveldb", "mdbx"}

(* chainstate, chainstate_leveldb, chainstate_mdbx; likewise the index.    *)
Slot == Engine \cup {"live"}

VARIABLES
  dir,      \* [Db -> [Slot -> folder]]: what is on disk
  newest,   \* [Db -> Nat]: the last version the node wrote
  torn,     \* [Db -> BOOLEAN]: a reindex has removed it, not yet re-created it
  gone,     \* [Db -> BOOLEAN]: what was written last was removed, or never whole
  mpc,      \* where startup is
  db,       \* the database startup is working on
  dest,     \* -migratedb
  swapdb,   \* -swapdb
  wipe      \* the databases -reindex or -reindex-chainstate still has to wipe

migrateVars == <<dir, newest, torn, gone, mpc, db, dest, swapdb, wipe>>

Folder == [there : BOOLEAN, engine : Engine \cup {"none"}, ver : Nat, whole : BOOLEAN]

Nowhere == [there |-> FALSE, engine |-> "none", ver |-> 0, whole |-> FALSE]

Files(e, v, w) == [there |-> TRUE, engine |-> e, ver |-> v, whole |-> w]

(* A folder without database files, whatever its ENGINE stamp says.        *)
NoFiles == [there |-> TRUE, engine |-> "none", ver |-> 0, whole |-> FALSE]

MigrateInit ==
  /\ \E e \in Engine :
       dir = [d \in Db |-> [s \in Slot |-> IF s = "live" THEN Files(e, 1, TRUE) ELSE Nowhere]]
  /\ newest = [d \in Db |-> 1]
  /\ torn = [d \in Db |-> FALSE]
  /\ gone = [d \in Db |-> FALSE]
  /\ mpc = "off" /\ db = Chainstate
  /\ dest = "leveldb" /\ swapdb = FALSE /\ wipe = {}

Detect(d, s) == dir[d][s].engine

(* Start the node, with or without -migratedb, -swapdb or a reindex.       *)
Start ==
  /\ mpc = "off"
  /\ \/ /\ \E e \in Engine, s \in BOOLEAN : dest' = e /\ swapdb' = s
        /\ mpc' = "copy" /\ db' = Chainstate
        /\ UNCHANGED wipe
     \/ /\ \E w \in {{}, {Chainstate}, Db} : wipe' = w
        /\ mpc' = "open" /\ db' = Index
        /\ UNCHANGED <<dest, swapdb>>
  /\ UNCHANGED <<dir, newest, torn, gone>>

(* Startup has ended or the process has: only the disk remains.            *)
Stopped ==
  mpc' = "off" /\ db' = Chainstate /\ dest' = "leveldb" /\ swapdb' = FALSE /\ wipe' = {}

(* What follows the copy of a database: the next one, then the swap; with- *)
(* out -swapdb RunRequestedDbMigration returns false and startup ends.     *)
CopyReturns ==
  \/ db = Chainstate /\ db' = Index /\ mpc' = "copy" /\ UNCHANGED <<dest, swapdb, wipe>>
  \/ db = Index /\ swapdb /\ db' = Chainstate /\ mpc' = "swap" /\ UNCHANGED <<dest, swapdb, wipe>>
  \/ db = Index /\ ~swapdb /\ Stopped

(* A plausible slip: a copy that is already there is taken for a good one. *)
NothingToCopyOrCopied == Detect(db, "live") = "none" \/ Detect(db, dest) # "none"

NothingToCopy == Detect(db, "live") = "none"

SkipCopy ==
  /\ mpc = "copy"
  /\ NothingToCopy
  /\ CopyReturns
  /\ UNCHANGED <<dir, newest, torn, gone>>

CopyRefused == Detect(db, "live") = dest \/ Detect(db, dest) # "none"

RefuseCopy ==
  /\ mpc = "copy"
  /\ ~NothingToCopy
  /\ CopyRefused
  /\ Stopped
  /\ UNCHANGED <<dir, newest, torn, gone>>

(* The destination is created; its files come after its folder.            *)
BeginCopy ==
  /\ mpc = "copy"
  /\ ~NothingToCopy
  /\ ~CopyRefused
  /\ \E e \in {"none", dest} : dir' = [dir EXCEPT ![db][dest] = Files(e, 0, FALSE)]
  /\ mpc' = "copying"
  /\ UNCHANGED <<newest, torn, gone, db, dest, swapdb, wipe>>

EndCopy ==
  /\ mpc = "copying"
  /\ dir' = [dir EXCEPT ![db][dest] = Files(dest, dir[db]["live"].ver, dir[db]["live"].whole)]
  /\ CopyReturns
  /\ UNCHANGED <<newest, torn, gone>>

SwapReturns ==
  /\ db' = Index
  /\ mpc' = IF db = Chainstate THEN "swap" ELSE "open"

NoSwap ==
  /\ mpc = "swap"
  /\ ~dir[db][dest].there
  /\ SwapReturns
  /\ UNCHANGED <<dir, newest, torn, gone, dest, swapdb, wipe>>

Backup == IF Detect(db, "live") = "none" THEN "leveldb" ELSE Detect(db, "live")

RefuseSwap ==
  /\ mpc = "swap"
  /\ dir[db][dest].there
  /\ dir[db][Backup].there
  /\ Stopped
  /\ UNCHANGED <<dir, newest, torn, gone>>

MoveAside ==
  /\ mpc = "swap"
  /\ dir[db][dest].there
  /\ ~dir[db][Backup].there
  /\ dir' = [dir EXCEPT ![db] = [@ EXCEPT ![Backup] = dir[db]["live"], !["live"] = Nowhere]]
  /\ mpc' = "moved"
  /\ UNCHANGED <<newest, torn, gone, db, dest, swapdb, wipe>>

MoveIn ==
  /\ mpc = "moved"
  /\ dir' = [dir EXCEPT ![db] = [@ EXCEPT !["live"] = dir[db][dest], ![dest] = Nowhere]]
  /\ SwapReturns
  /\ UNCHANGED <<newest, torn, gone, dest, swapdb, wipe>>

(* Opening for a reindex removes the files first.                          *)
Destroy ==
  /\ mpc = "open"
  /\ db \in wipe
  /\ dir' = [dir EXCEPT ![db]["live"] = NoFiles]
  /\ torn' = [torn EXCEPT ![db] = TRUE]
  /\ gone' = [gone EXCEPT ![db] = TRUE]
  /\ wipe' = wipe \ {db}
  /\ UNCHANGED <<newest, mpc, db, dest, swapdb>>

(* A plausible slip: -dbengine, not the files on disk, decides the engine. *)
OpenedDefault(d, e) ==
  IF Detect(d, "live") # e THEN Files(e, 0, TRUE) ELSE dir[d]["live"]

(* The files on disk decide; without files the engine of -dbengine starts  *)
(* an empty database.                                                      *)
Opened(d, e) ==
  IF Detect(d, "live") = "none" THEN Files(e, 0, TRUE) ELSE dir[d]["live"]

Open ==
  /\ mpc = "open"
  /\ db \notin wipe
  /\ \E e \in Engine : dir' = [dir EXCEPT ![db]["live"] = Opened(db, e)]
  /\ torn' = [torn EXCEPT ![db] = @ /\ Detect(db, "live") # "none"]
  /\ db' = Chainstate
  /\ mpc' = IF db = Index THEN "open" ELSE "run"
  /\ dest' = "leveldb" /\ swapdb' = FALSE
  /\ UNCHANGED <<newest, gone, wipe>>

(* The running node writes a batch to one of the databases.                *)
WriteLive ==
  /\ mpc = "run"
  /\ \E d \in Db :
       /\ newest[d] < MaxVer
       /\ newest' = [newest EXCEPT ![d] = @ + 1]
       /\ gone' = [gone EXCEPT ![d] = ~dir[d]["live"].whole]
       /\ dir' = [dir EXCEPT ![d]["live"] =
            [there |-> TRUE, engine |-> @.engine, ver |-> newest[d] + 1, whole |-> @.whole]]
  /\ UNCHANGED <<torn, mpc, db, dest, swapdb, wipe>>

(* The node stops: a shutdown, a crash, or an exception of a copy, a       *)
(* rename or an opening, which all end startup where it is.                *)
MigrateCrash ==
  /\ Stopped
  /\ UNCHANGED <<dir, newest, torn, gone>>

MigrateStep ==
  \/ Start \/ SkipCopy \/ RefuseCopy \/ BeginCopy \/ EndCopy
  \/ NoSwap \/ RefuseSwap \/ MoveAside \/ MoveIn
  \/ Destroy \/ Open \/ WriteLive

MigrateSpec == MigrateInit /\ [][MigrateStep \/ MigrateCrash]_migrateVars

-----------------------------------------------------------------------------
(* Whatever the order of migrations, refusals and crashes, the database    *)
(* the node opens is complete and the newest one, or a new empty one: a    *)
(* copy cut short or overtaken by the live database is never renamed into  *)
(* place (swapOne).  A database whose reindex was cut before it re-created *)
(* the files is excepted: there a copy left by an earlier cut migration    *)
(* can be swapped in.                                                      *)
LiveIsNewest ==
  \A d \in Db :
    Detect(d, "live") # "none" /\ ~torn[d] =>
      /\ dir[d]["live"].whole
      /\ dir[d]["live"].ver \in {0, newest[d]}

(* What the node wrote last is never destroyed by a migration: one of the  *)
(* folders holds it completely, also when a crash falls between the two    *)
(* renames and the next start opens an empty database (dbmigrate.cpp:139). *)
NewestKept ==
  \A d \in Db :
    ~gone[d] => \E s \in Slot : dir[d][s].whole /\ dir[d][s].ver = newest[d]
=============================================================================
