---------------------------- MODULE BlockArchive ----------------------------
(***************************************************************************)
(* Pruning with a cold copy: FlushStateToDisk's prune of closed block      *)
(* files (validation.cpp), which writes the block index, copies the        *)
(* blk/rev pair to -archivepath (blockarchive.cpp) and unlinks it.         *)
(*                                                                         *)
(* A copy in the archive is missing, cut short or complete; a sidecar with *)
(* the digest of the live file, when there, was written for a complete     *)
(* copy.  The digest comparisons are therefore comparisons of completeness.*)
(***************************************************************************)
CONSTANTS
  BlockFile,    \* the closed block files
  NoFile,       \* no block file
  Archiving     \* -archivepath is set

ASSUME ArchiveAssumption == NoFile \notin BlockFile /\ Archiving \in BOOLEAN

Part == {"blk", "rev"}

Copy == {"none", "cut", "whole"}

VARIABLES
  live,       \* [BlockFile -> SUBSET Part]: the parts in blocks/
  copy,       \* [BlockFile -> [Part -> Copy]]: the parts in the archive
  sidecar,    \* [BlockFile -> SUBSET Part]: the parts with a .sha256
  haveData,   \* SUBSET BlockFile: the index in memory says HAVE_DATA, HAVE_UNDO
  savedData,  \* SUBSET BlockFile: the index on disk says so
  apc,        \* where FlushStateToDisk is
  toPrune,    \* setFilesToPrune, what is left of it
  file,       \* the file UnlinkPrunedFiles is at
  part        \* the part of it ArchiveBlockFilePair or fs::remove is at

archiveVars == <<live, copy, sidecar, haveData, savedData, apc, toPrune, file, part>>

(* The archive may hold copies of an earlier life of this data directory.  *)
ArchiveInit ==
  /\ live = [f \in BlockFile |-> Part]
  /\ copy \in [BlockFile -> {[p \in Part |-> c] : c \in Copy}]
  /\ sidecar = [f \in BlockFile |-> {p \in Part : copy[f][p] = "whole"}]
  /\ haveData = BlockFile /\ savedData = BlockFile
  /\ apc = "idle" /\ toPrune = {} /\ file = NoFile /\ part = "blk"

(* FindFilesToPrune: any of the closed files the index still has.          *)
FindFilesToPrune ==
  /\ apc = "idle"
  /\ \E fs \in (SUBSET haveData) \ {{}} :
       /\ toPrune' = fs
       /\ haveData' = haveData \ fs
  /\ apc' = "index"
  /\ UNCHANGED <<live, copy, sidecar, savedData, file, part>>

(* A plausible slip: the files go before the index that forgets them.      *)
WriteIndexLater ==
  /\ apc = "index"
  /\ apc' = "files"
  /\ UNCHANGED <<live, copy, sidecar, haveData, savedData, toPrune, file, part>>

WriteIndex ==
  /\ apc = "index"
  /\ savedData' = haveData
  /\ apc' = "files"
  /\ UNCHANGED <<live, copy, sidecar, haveData, toPrune, file, part>>

NextFile ==
  /\ apc = "files"
  /\ \E f \in toPrune :
       /\ file' = f
       /\ toPrune' = toPrune \ {f}
  /\ part' = "blk"
  /\ apc' = IF Archiving THEN "archive" ELSE "unlink"
  /\ UNCHANGED <<live, copy, sidecar, haveData, savedData>>

PruneDone ==
  /\ apc = "files" /\ toPrune = {}
  /\ apc' = "idle" /\ file' = NoFile /\ part' = "blk"
  /\ UNCHANGED <<live, copy, sidecar, haveData, savedData, toPrune>>

(* The rest of ArchiveBlockFilePair once a part is safe.                   *)
PartArchived ==
  \/ part = "blk" /\ part' = "rev" /\ apc' = "archive"
  \/ part = "rev" /\ part' = "blk" /\ apc' = "unlink"

(* A plausible slip: any file of that name in the archive counts.          *)
AlreadyHaveName == copy[file][part] # "none"

AlreadyHave == copy[file][part] # "none" /\ part \in sidecar[file]

SkipPart ==
  /\ apc = "archive"
  /\ AlreadyHave
  /\ PartArchived
  /\ UNCHANGED <<live, copy, sidecar, haveData, savedData, toPrune, file>>

BeginPart ==
  /\ apc = "archive"
  /\ ~AlreadyHave
  /\ copy' = [copy EXCEPT ![file][part] = "cut"]
  /\ apc' = "copying"
  /\ UNCHANGED <<live, sidecar, haveData, savedData, toPrune, file, part>>

(* The copy is complete and verified; the sidecar may not be writable.     *)
EndPart ==
  /\ apc = "copying"
  /\ copy' = [copy EXCEPT ![file][part] = "whole"]
  /\ \E s \in {sidecar[file], sidecar[file] \cup {part}} :
       sidecar' = [sidecar EXCEPT ![file] = s]
  /\ PartArchived
  /\ UNCHANGED <<live, haveData, savedData, toPrune, file>>

(* A file cannot be read, the copy throws or its digest differs: the pair  *)
(* stays in blocks/.                                                       *)
PartFails ==
  /\ apc \in {"archive", "copying"}
  /\ part' = "blk"
  /\ apc' = "files"
  /\ UNCHANGED <<live, copy, sidecar, haveData, savedData, toPrune, file>>

Unlink ==
  /\ apc = "unlink"
  /\ live' = [live EXCEPT ![file] = @ \ {part}]
  /\ \/ part = "blk" /\ part' = "rev" /\ apc' = "unlink"
     \/ part = "rev" /\ part' = "blk" /\ apc' = "files"
  /\ UNCHANGED <<copy, sidecar, haveData, savedData, toPrune, file>>

(* A crash, and the start after it: the index is loaded from disk.         *)
ArchiveCrash ==
  /\ haveData' = savedData
  /\ apc' = "idle" /\ toPrune' = {} /\ file' = NoFile /\ part' = "blk"
  /\ UNCHANGED <<live, copy, sidecar, savedData>>

ArchiveStep ==
  \/ FindFilesToPrune \/ WriteIndex \/ NextFile \/ PruneDone
  \/ SkipPart \/ BeginPart \/ EndPart \/ PartFails \/ Unlink

ArchiveSpec == ArchiveInit /\ [][ArchiveStep \/ ArchiveCrash]_archiveVars

-----------------------------------------------------------------------------
(* With -archivepath, every block file is complete in blocks/ or in the    *)
(* archive, after any failed copies and crashes: "Copy failure skips the   *)
(* unlink so the only copy is not destroyed" (blockarchive.h:19).          *)
OnlyCopyKept ==
  Archiving =>
    \A f \in BlockFile, p \in Part : p \in live[f] \/ copy[f][p] = "whole"

(* No start finds an index that promises a block file the prune removed:   *)
(* FlushStateToDisk writes the index before it unlinks (validation.cpp:2161).*)
IndexOnlyPromisesFiles ==
  \A f \in savedData \cup haveData : live[f] = Part
=============================================================================
