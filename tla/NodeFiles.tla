----------------------------- MODULE NodeFiles -----------------------------
(***************************************************************************)
(* What the node does to the files of its data directory, in one life      *)
(* after another: a start migrates and opens the databases (DbMigrate);    *)
(* only the running node prunes (BlockArchive) and fetches snapshots       *)
(* (SnapshotFetch); a crash cuts all of them at the same point.            *)
(***************************************************************************)
EXTENDS DbMigrate, BlockArchive, SnapshotFetch

(* The three share the process and touch different files.  Bound: in one   *)
(* behaviour one of them is used, the others only start, run and crash.    *)
VARIABLE inUse

fileVars == <<migrateVars, archiveVars, fetchVars, inUse>>

Init ==
  /\ MigrateInit /\ ArchiveInit /\ FetchInit
  /\ inUse \in {"migrate", "archive", "fetch"}
  /\ inUse # "migrate" => \A d \in Db : Detect(d, "live") = "leveldb"
  /\ inUse # "archive" => \A f \in BlockFile, p \in Part : copy[f][p] = "none"

PlainStart == Start /\ mpc' = "open" /\ wipe' = {}

Databases ==
  /\ IF inUse = "migrate" THEN MigrateStep ELSE PlainStart \/ Open
  /\ UNCHANGED <<archiveVars, fetchVars, inUse>>

Prune ==
  /\ inUse = "archive" /\ mpc = "run"
  /\ ArchiveStep
  /\ UNCHANGED <<migrateVars, fetchVars, inUse>>

Fetch ==
  /\ inUse = "fetch" /\ mpc = "run"
  /\ FetchStep
  /\ UNCHANGED <<migrateVars, archiveVars, inUse>>

Crash == MigrateCrash /\ ArchiveCrash /\ FetchCrash /\ UNCHANGED inUse

Next == Databases \/ Prune \/ Fetch \/ Crash

Spec == Init /\ [][Next]_fileVars
=============================================================================
