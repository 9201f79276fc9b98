--------------------------- MODULE SnapshotFetch ---------------------------
(***************************************************************************)
(* Fetching a snapshot file (node/snapshot_fetch.cpp): each candidate      *)
(* source is streamed into dest.partial while its bytes are hashed, the    *)
(* partial file is renamed to dest, and the digest of the stream decides   *)
(* whether dest is kept.  The two RPCs and the Fast Sync dialog use the    *)
(* same default dest and take no lock.                                     *)
(*                                                                         *)
(* Names and files are distinct, as on POSIX: a name refers to a file, a   *)
(* file that lost its name is still written by who has it open.            *)
(***************************************************************************)
EXTENDS Naturals, Sequences, FiniteSets

CONSTANTS
  Caller,     \* threads in fetchassumeutxo, fetchassumeutxomanifest, Fast Sync
  Source,     \* URLs and paths
  Chunk,      \* the buffers a source delivers
  Content,    \* [Source -> Seq(Chunk)]: what a source delivers
  Expected,   \* the file whose digest the caller asks for
  File,       \* identities of files (bound on how many exist at a time)
  NoFetch     \* no file

(* There is a source to try: FetchSnapshotArtifactFromCandidates refuses   *)
(* an empty list.                                                          *)
ASSUME FetchAssumption ==
  /\ IsFiniteSet(Source) /\ Source # {}
  /\ Content \in [Source -> Seq(Chunk)]
  /\ NoFetch \notin File

Zero == "zero"    \* what reads from a hole in a file

VARIABLES
  bytes,      \* [File -> Seq(Chunk)], with holes
  partial,    \* the file named dest.partial
  fetched,    \* the file named dest
  fpc,        \* [Caller -> where the call is]
  sources,    \* [Caller -> Seq(Source)]: the candidates left, the current first
  cleans,     \* [Caller -> BOOLEAN]: FetchSnapshotArtifactFromCandidates
  fd,         \* [Caller -> file open for writing]
  got         \* [Caller -> Seq(Chunk)]: the chunks hashed

fetchVars == <<bytes, partial, fetched, fpc, sources, cleans, fd, got>>

FetchInit ==
  /\ bytes = [x \in File |-> <<>>]
  /\ partial = NoFetch /\ fetched = NoFetch
  /\ fpc = [c \in Caller |-> "idle"]
  /\ sources = [c \in Caller |-> <<>>]
  /\ cleans = [c \in Caller |-> FALSE]
  /\ fd = [c \in Caller |-> NoFetch]
  /\ got = [c \in Caller |-> <<>>]

Unused(x) == x # partial /\ x # fetched /\ \A c \in Caller : fd[c] # x

(* The sources, one after another.                                         *)
Orders ==
  {ss \in [1 .. Cardinality(Source) -> Source] :
     \A m, n \in DOMAIN ss : m # n => ss[m] # ss[n]}

(* fetchassumeutxo gives one source, the manifest one or several.          *)
StartFetch(c) ==
  /\ fpc[c] = "idle"
  /\ \E ss \in Orders \cup {<<s>> : s \in Source}, many \in BOOLEAN :
       /\ Len(ss) > 1 => many
       /\ sources' = [sources EXCEPT ![c] = ss]
       /\ cleans' = [cleans EXCEPT ![c] = many]
       /\ fpc' = [fpc EXCEPT ![c] = IF many THEN "clean" ELSE "open"]
  /\ UNCHANGED <<bytes, partial, fetched, fd, got>>

Clean(c) ==
  /\ fpc[c] = "clean"
  /\ fetched' = NoFetch /\ partial' = NoFetch
  /\ fpc' = [fpc EXCEPT ![c] = "open"]
  /\ UNCHANGED <<bytes, sources, cleans, fd, got>>

(* A plausible slip: the partial file is opened without truncating it.     *)
OpenPartialUncut(c) ==
  /\ fpc[c] = "open"
  /\ \E x \in File :
       /\ IF partial = NoFetch THEN Unused(x) ELSE x = partial
       /\ bytes' = [bytes EXCEPT ![x] = IF partial = NoFetch THEN <<>> ELSE @]
       /\ partial' = x
       /\ fd' = [fd EXCEPT ![c] = x]
  /\ got' = [got EXCEPT ![c] = <<>>]
  /\ fpc' = [fpc EXCEPT ![c] = "stream"]
  /\ UNCHANGED <<fetched, sources, cleans>>

(* fopen "wb" truncates the file of that name, or makes one.               *)
OpenPartial(c) ==
  /\ fpc[c] = "open"
  /\ \E x \in File :
       /\ IF partial = NoFetch THEN Unused(x) ELSE x = partial
       /\ bytes' = [bytes EXCEPT ![x] = <<>>]
       /\ partial' = x
       /\ fd' = [fd EXCEPT ![c] = x]
  /\ got' = [got EXCEPT ![c] = <<>>]
  /\ fpc' = [fpc EXCEPT ![c] = "stream"]
  /\ UNCHANGED <<fetched, sources, cleans>>

(* A write at the offset of the writer, past the end or over what is there.*)
WrittenAt(s, i, v) ==
  [k \in 1 .. (IF i > Len(s) THEN i ELSE Len(s)) |->
     IF k = i THEN v ELSE IF k > Len(s) THEN Zero ELSE s[k]]

Stream(c) ==
  /\ fpc[c] = "stream"
  /\ LET from == Content[Head(sources[c])]
         i == Len(got[c]) + 1
     IN /\ i <= Len(from)
        /\ bytes' = [bytes EXCEPT ![fd[c]] = WrittenAt(@, i, from[i])]
        /\ got' = [got EXCEPT ![c] = Append(@, from[i])]
  /\ UNCHANGED <<partial, fetched, fpc, sources, cleans, fd>>

(* A call of FetchSnapshotArtifact returned false: the next candidate, or  *)
(* the call as a whole fails.                                              *)
NextSource(c) ==
  /\ sources' = [sources EXCEPT ![c] = Tail(@)]
  /\ fpc' = [fpc EXCEPT ![c] = IF Len(sources[c]) > 1 THEN "clean" ELSE "idle"]
  /\ fd' = [fd EXCEPT ![c] = NoFetch]
  /\ got' = [got EXCEPT ![c] = <<>>]
  /\ UNCHANGED <<bytes, cleans>>

(* A file cannot be opened, the request cannot be made, the connection     *)
(* breaks, a write fails or the user aborts; only the last three remove    *)
(* the partial file.                                                       *)
StreamFails(c) ==
  /\ fpc[c] \in {"open", "stream"}
  /\ partial' \in {partial, NoFetch}
  /\ NextSource(c)
  /\ UNCHANGED fetched

RemoveDest(c) ==
  /\ fpc[c] = "stream"
  /\ Len(got[c]) = Len(Content[Head(sources[c])])
  /\ fetched' = NoFetch
  /\ fd' = [fd EXCEPT ![c] = NoFetch]
  /\ fpc' = [fpc EXCEPT ![c] = "rename"]
  /\ UNCHANGED <<bytes, partial, sources, cleans, got>>

(* The rename, or its failure, after which the partial file is removed.    *)
Rename(c) ==
  /\ fpc[c] = "rename"
  /\ partial' = NoFetch
  /\ \/ /\ partial # NoFetch
        /\ fetched' = partial
        /\ fpc' = [fpc EXCEPT ![c] = "compare"]
        /\ UNCHANGED <<bytes, sources, cleans, fd, got>>
     \/ NextSource(c) /\ UNCHANGED fetched

CompareOk(c) ==
  /\ fpc[c] = "compare"
  /\ got[c] = Expected
  /\ fpc' = [fpc EXCEPT ![c] = "ok"]
  /\ UNCHANGED <<bytes, partial, fetched, sources, cleans, fd, got>>

CompareFails(c) ==
  /\ fpc[c] = "compare"
  /\ got[c] # Expected
  /\ fetched' = NoFetch
  /\ NextSource(c)
  /\ UNCHANGED partial

(* The caller reports "verified", and loads dest if asked to.              *)
Verified(c) ==
  /\ fpc[c] = "ok"
  /\ fpc' = [fpc EXCEPT ![c] = "idle"]
  /\ sources' = [sources EXCEPT ![c] = <<>>]
  /\ got' = [got EXCEPT ![c] = <<>>]
  /\ UNCHANGED <<bytes, partial, fetched, cleans, fd>>

FetchCrash ==
  /\ fpc' = [c \in Caller |-> "idle"]
  /\ sources' = [c \in Caller |-> <<>>]
  /\ cleans' = [c \in Caller |-> FALSE]
  /\ fd' = [c \in Caller |-> NoFetch]
  /\ got' = [c \in Caller |-> <<>>]
  /\ UNCHANGED <<bytes, partial, fetched>>

FetchStep ==
  \E c \in Caller :
    \/ StartFetch(c) \/ Clean(c) \/ OpenPartial(c) \/ Stream(c) \/ StreamFails(c)
    \/ RemoveDest(c) \/ Rename(c) \/ CompareOk(c) \/ CompareFails(c) \/ Verified(c)

FetchSpec == FetchInit /\ [][FetchStep \/ FetchCrash]_fetchVars

-----------------------------------------------------------------------------
(* A call that returns true leaves at dest the file whose digest was asked *)
(* for, after whatever failed sources, aborts and crashes came before:     *)
(* "Fail closed on digest mismatch - never trust the transport"            *)
(* (node/snapshot_fetch.h:16).                                             *)
FetchVerified ==
  \A c \in Caller : fpc[c] = "ok" => fetched # NoFetch /\ bytes[fetched] = Expected
=============================================================================
