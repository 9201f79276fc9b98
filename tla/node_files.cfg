\* One caller fetches at a time; two block files; two versions of a database.
CONSTANTS
  MaxVer = 2
  BlockFile = {f1, f2}
  NoFile = NoFile
  Archiving = TRUE
  Caller = {c1}
  Source = {"s1", "s2"}
  Chunk = {"a", "b", "c", "x"}
  Content <- MCContent
  Expected <- MCExpected
  File = {1, 2, 3}
  NoFetch = NoFetch

SPECIFICATION Spec

INVARIANTS
  LiveIsNewest
  NewestKept
  OnlyCopyKept
  IndexOnlyPromisesFiles
  FetchVerified
