------------------------ MODULE NetProcessing_proofs ------------------------
(***************************************************************************)
(* The transaction tracker passes its SanityCheck, and the tables of the   *)
(* block download agree, in every state of the peer logic: for every       *)
(* finite set of peers, length of the chain, window and limit.             *)
(***************************************************************************)
EXTENDS NetProcessing, TxRequest_proofs

-----------------------------------------------------------------------------
(* The transaction tracker in the node *)

\* Every step leaves the tracker sane.
LEMMA TrackerStep ==
  ASSUME Sane(tracker), Next
  PROVE  Sane(tracker')
<1>p. TxPeer = Peer
  BY Zenon, PeersAssumption
<1>1. ASSUME NEW p \in Peer, InitializeNode(p) \/ Disconnect(p) \/ BlockEvent(p)
      PROVE  Sane(tracker')
  <2>1. UNCHANGED tracker
    BY Zenon, <1>1 DEF InitializeNode, Disconnect, BlockEvent, txVars
  <2> QED BY Zenon, <2>1
<1>2. ASSUME NEW p \in Peer, FinalizeNode(p)
      PROVE  Sane(tracker')
  BY Zenon, <1>2, DisconnectKeeps DEF FinalizeNode
<1>3. ASSUME NEW p \in Peer, SendMessages(p)
      PROVE  Sane(tracker')
  BY Zenon, <1>p, <1>3, RequestsKeep DEF SendMessages
<1>4. ASSUME NEW p \in Peer, NEW t \in Tx, Inv(p, t)
      PROVE  Sane(tracker')
  BY Zenon, <1>p, <1>4, AnnounceKeeps DEF Inv
<1>5. ASSUME NEW p \in Peer, NEW t \in Tx, NEW kept, TxMessage(p, t, kept)
      PROVE  Sane(tracker')
  BY Zenon, <1>p, <1>5, ResponseKeeps, EraseKeeps DEF TxMessage, ForgetTxHash
<1>6. ASSUME NEW p \in Peer, NEW t \in Tx, NEW parent \in Tx, Orphan(p, t, parent)
      PROVE  Sane(tracker')
  BY Zenon, <1>p, <1>6, ResponseKeeps, AnnounceKeeps, EraseKeeps DEF Orphan, ForgetTxHash
<1>7. ASSUME NEW p \in Peer, NEW t \in Tx, NotFound(p, t)
      PROVE  Sane(tracker')
  BY Zenon, <1>p, <1>7, ResponseKeeps DEF NotFound
<1>8. ASSUME NEW t \in Tx, SyncTransaction(t)
      PROVE  Sane(tracker')
  BY Zenon, <1>8, EraseKeeps DEF SyncTransaction, ForgetTxHash
<1>9. CASE Accept \/ Time \/ \E t \in Tx : LoseTx(t)
  <2>1. UNCHANGED tracker
    BY Zenon, <1>9 DEF Accept, Time, LoseTx, Tick, ClockBack, txVars
  <2> QED BY Zenon, <2>1
<1> QED BY Zenon, <1>1, <1>2, <1>3, <1>4, <1>5, <1>6, <1>7, <1>8, <1>9 DEF Next, TxEvent

\* TxRequestTracker::SanityCheck, whatever the peers announce, answer and withhold,
\* whenever they leave, and however the clock goes.
THEOREM TrackerTheorem == Spec => []SanityCheck
<1>1. Init => Sane(tracker)
  BY Zenon DEF Init, TrackerInit, Sane, State, Selected
<1>2. Sane(tracker) /\ [Next]_vars => Sane(tracker)'
  <2>1. Sane(tracker) /\ UNCHANGED vars => Sane(tracker')
    BY Zenon DEF vars, txVars
  <2> QED BY Zenon, <2>1, TrackerStep
<1> QED BY <1>1, <1>2, SaneChecks, PTL DEF Spec

-----------------------------------------------------------------------------
(* The block download *)

\* How many peers owe blocks, by the numbers n.
Loading(n) == Cardinality({p \in Peer : n[p] > 0})

\* The tables d describe one set of requests, and peers that stall owe a block.
Agrees(d) ==
  /\ d \in Tables
  /\ \A b \in Block, p \in Peer : d.from[b] = p <=> b \in d.queue[p]
  /\ \A p \in Peer : d.n[p] = Cardinality(d.queue[p])
  /\ d.loading = Loading(d.n)
  /\ d.partial \subseteq {b \in Block : InFlight(d, b)}
  /\ \A p \in d.stalls : d.queue[p] # {}
  /\ ~d.null

\* Blocks, and the sets of peers and blocks, are finite.
LEMMA BlocksFinite ==
  /\ \A S \in SUBSET Block : IsFiniteSet(S) /\ Cardinality(S) \in Nat
  /\ \A S \in SUBSET Peer : IsFiniteSet(S) /\ Cardinality(S) \in Nat
<1>1. IsFiniteSet(Block)
  BY DownloadAssumption, FS_Interval DEF Block
<1>2. IsFiniteSet(Peer)
  BY Zenon, DownloadAssumption
<1> QED BY Zenon, <1>1, <1>2, FS_Subset, FS_CardinalityType

\* One request more or less of a peer p changes the number of peers that owe blocks
\* if it is the first or the last one.
LEMMA LoadingChanges ==
  ASSUME NEW n \in [Peer -> Nat], NEW p \in Peer, NEW m \in Nat,
         NEW f, f = [n EXCEPT ![p] = m]
  PROVE  Loading(f) = IF n[p] > 0 /\ m = 0 THEN Loading(n) - 1
                      ELSE IF n[p] = 0 /\ m > 0 THEN Loading(n) + 1
                      ELSE Loading(n)
<1> DEFINE old == {q \in Peer : n[q] > 0}
           new == {q \in Peer : f[q] > 0}
<1>1. IsFiniteSet(old) /\ IsFiniteSet(new) /\ Cardinality(old) \in Nat
  BY Zenon, BlocksFinite
<1>2. CASE n[p] > 0 /\ m = 0
  <2>1. new = old \ {p} /\ p \in old
    BY <1>2
  <2> HIDE DEF new, old
  <2>2. Cardinality(new) = Cardinality(old) - 1
    BY Zenon, <1>1, <2>1, FS_RemoveElement
  <2> QED BY Zenon, <1>2, <2>2 DEF new, old, Loading
<1>3. CASE n[p] = 0 /\ m > 0
  <2>1. new = old \cup {p} /\ p \notin old
    BY <1>3
  <2> HIDE DEF new, old
  <2>2. Cardinality(new) = Cardinality(old) + 1
    BY Zenon, <1>1, <2>1, FS_AddElement
  <2>3. ~(n[p] > 0 /\ m = 0)
    BY <1>3
  <2> QED BY Zenon, <1>3, <2>2, <2>3 DEF new, old, Loading
<1>4. CASE n[p] > 0 <=> m > 0
  <2>1. new = old
    BY <1>4
  <2>2. ~(n[p] > 0 /\ m = 0) /\ ~(n[p] = 0 /\ m > 0)
    BY <1>4
  <2> QED BY Zenon, <2>1, <2>2 DEF Loading
<1>5. (n[p] > 0 /\ m = 0) \/ (n[p] = 0 /\ m > 0) \/ (n[p] > 0 <=> m > 0)
  OBVIOUS
<1> QED BY Zenon, <1>2, <1>3, <1>4, <1>5

\* The parts of tables that agree.
LEMMA AgreesTypes ==
  ASSUME NEW d, Agrees(d)
  PROVE  /\ d.from \in [Block -> Peer \cup {NoPeer}] /\ d.queue \in [Peer -> SUBSET Block]
         /\ d.n \in [Peer -> Nat] /\ d.loading \in Int
         /\ d.stalls \in SUBSET Peer /\ d.partial \in SUBSET Block
         /\ \A p \in Peer : IsFiniteSet(d.queue[p]) /\ (d.n[p] = 0 <=> d.queue[p] = {})
<1>1. /\ d.from \in [Block -> Peer \cup {NoPeer}] /\ d.queue \in [Peer -> SUBSET Block]
      /\ d.n \in [Peer -> Int] /\ d.loading \in Int
      /\ d.stalls \in SUBSET Peer /\ d.partial \in SUBSET Block
  BY DEF Agrees, Tables
<1>2. \A p \in Peer : IsFiniteSet(d.queue[p]) /\ Cardinality(d.queue[p]) \in Nat
  BY Zenon, <1>1, BlocksFinite
<1>3. ASSUME NEW p \in Peer PROVE d.n[p] \in Nat /\ (d.n[p] = 0 <=> d.queue[p] = {})
  <2>1. Cardinality(d.queue[p]) = 0 <=> d.queue[p] = {}
    BY Zenon, <1>2, FS_EmptySet
  <2>2. d.n[p] = Cardinality(d.queue[p])
    BY Zenon DEF Agrees
  <2> QED BY Zenon, <1>2, <2>1, <2>2
<1>4. d.n \in [Peer -> Nat]
  BY Zenon, <1>1, <1>3
<1> QED BY Zenon, <1>1, <1>2, <1>3, <1>4

\* A block that was asked for has come, or is asked of another peer.
LEMMA ReceivedAgrees ==
  ASSUME NEW d, Agrees(d), NEW b \in Block
  PROVE  LET e == MarkBlockAsReceived(d, b)
         IN /\ Agrees(e) /\ e.from = [d.from EXCEPT ![b] = NoPeer]
            /\ \A q \in Peer : e.queue[q] \subseteq d.queue[q]
            /\ d.from[b] = NoPeer => e = d
<1> DEFINE e == MarkBlockAsReceived(d, b)
           p == d.from[b]
<1>0. d \in Tables /\ d.from \in [Block -> Peer \cup {NoPeer}]
  BY Zenon, AgreesTypes DEF Agrees
<1>1. CASE p = NoPeer
  <2>1. e = d /\ e.from = [d.from EXCEPT ![b] = NoPeer]
    BY <1>0, <1>1 DEF MarkBlockAsReceived
  <2> QED BY Zenon, <2>1
<1>2. CASE p # NoPeer
  <2>1. p \in Peer /\ b \in d.queue[p]
    BY Zenon, <1>0, <1>2 DEF Agrees
  <2>2. e = [d EXCEPT !.from[b] = NoPeer, !.queue[p] = @ \ {b}, !.n[p] = @ - 1,
                    !.loading = IF d.n[p] = 1 THEN @ - 1 ELSE @,
                    !.stalls = @ \ {p}, !.partial = @ \ {b}]
    BY Zenon, <1>2 DEF MarkBlockAsReceived
  <2> HIDE DEF e, p
  <2>3. /\ e.from = [d.from EXCEPT ![b] = NoPeer]
        /\ e.queue = [d.queue EXCEPT ![p] = @ \ {b}]
        /\ e.n = [d.n EXCEPT ![p] = @ - 1]
    BY <1>0, <2>2 DEF Tables
  <2>4. /\ e.loading = IF d.n[p] = 1 THEN d.loading - 1 ELSE d.loading
        /\ e.stalls = d.stalls \ {p} /\ e.partial = d.partial \ {b} /\ e.null = d.null
    BY <1>0, <2>2 DEF Tables
  <2>5. e \in Tables
    <3>1. /\ d.queue \in [Peer -> SUBSET Block] /\ d.n \in [Peer -> Nat] /\ d.loading \in Int
          /\ d.stalls \in SUBSET Peer /\ d.partial \in SUBSET Block
      BY Zenon, AgreesTypes
    <3>2. [d.from EXCEPT ![b] = NoPeer] \in [Block -> Peer \cup {NoPeer}]
      BY Zenon, <1>0
    <3>3. [d.queue EXCEPT ![p] = @ \ {b}] \in [Peer -> SUBSET Block]
      BY <3>1
    <3>4. [d.n EXCEPT ![p] = @ - 1] \in [Peer -> Int]
      BY <2>1, <3>1
    <3>5. (IF d.n[p] = 1 THEN d.loading - 1 ELSE d.loading) \in Int
      BY <3>1
    <3> QED BY <1>0, <2>2, <3>1, <3>2, <3>3, <3>4, <3>5 DEF Tables
  <2>6. /\ d.queue \in [Peer -> SUBSET Block] /\ d.n \in [Peer -> Nat] /\ NoPeer \notin Peer
        /\ d.stalls \in SUBSET Peer /\ d.n[p] > 0 /\ IsFiniteSet(d.queue[p])
    BY <2>1, AgreesTypes, DownloadAssumption
  <2>7. ASSUME NEW q \in Peer
        PROVE  /\ q # p => e.queue[q] = d.queue[q] /\ e.n[q] = d.n[q]
               /\ e.queue[p] = d.queue[p] \ {b} /\ e.n[p] = d.n[p] - 1
    BY <2>1, <2>3, <2>6
  <2>8. \A c \in Block, q \in Peer : e.from[c] = q <=> c \in e.queue[q]
    <3>1. ASSUME NEW c \in Block, NEW q \in Peer, c # b PROVE e.from[c] = q <=> c \in e.queue[q]
      <4>1. e.from[c] = d.from[c]
        BY Zenon, <1>0, <2>3, <3>1
      <4>2. c \in e.queue[q] <=> c \in d.queue[q]
        BY Zenon, <2>7, <3>1
      <4> QED BY Zenon, <4>1, <4>2 DEF Agrees
    <3>2. ASSUME NEW q \in Peer PROVE e.from[b] # q /\ b \notin e.queue[q]
      <4>1. e.from[b] = NoPeer
        BY Zenon, <1>0, <2>3
      <4>2. q # p => b \notin d.queue[q]
        BY Zenon DEF Agrees, p
      <4> QED BY Zenon, <2>6, <2>7, <4>1, <4>2
    <3>3. ASSUME NEW c \in Block, NEW q \in Peer, c = b PROVE e.from[c] = q <=> c \in e.queue[q]
      BY Zenon, <3>2, <3>3
    <3> QED BY Zenon, <3>1, <3>3
  <2>9. \A q \in Peer : e.n[q] = Cardinality(e.queue[q])
    <3>1. Cardinality(d.queue[p] \ {b}) = Cardinality(d.queue[p]) - 1
      BY Zenon, <2>1, <2>6, FS_RemoveElement
    <3> QED BY Zenon, <2>1, <2>7, <3>1 DEF Agrees
  <2>10. e.loading = Loading(e.n)
    <3> DEFINE m == d.n[p] - 1
    <3>1. /\ m \in Nat /\ (m = 0 <=> d.n[p] = 1) /\ e.n = [d.n EXCEPT ![p] = m]
          /\ d.n[p] > 0 /\ d.n[p] # 0
      BY <2>1, <2>3, <2>6
    <3> HIDE DEF m
    <3>2. Loading(e.n) = IF m = 0 THEN Loading(d.n) - 1 ELSE Loading(d.n)
      BY <2>1, <2>6, <3>1, LoadingChanges
    <3> QED BY Zenon, <2>4, <3>1, <3>2 DEF Agrees
  <2>11. e.partial \subseteq {c \in Block : InFlight(e, c)}
    BY Zenon, <1>0, <2>3, <2>4 DEF Agrees, InFlight
  <2>12. \A q \in e.stalls : e.queue[q] # {}
    BY Zenon, <2>4, <2>6, <2>7 DEF Agrees
  <2>13. Agrees(e)
    BY Zenon, <2>4, <2>5, <2>8, <2>9, <2>10, <2>11, <2>12 DEF Agrees
  <2>14. \A q \in Peer : e.queue[q] \subseteq d.queue[q]
    BY Zenon, <2>7
  <2> QED BY Zenon, <1>2, <2>3, <2>13, <2>14 DEF e, p
<1> QED BY Zenon, <1>1, <1>2

\* Nothing that is owed in d is forgotten in e.
Grows(d, e) == \A q \in Peer : d.queue[q] \subseteq e.queue[q]

\* The tables e are d with the blocks of S asked of p too.
Asked(d, e, p, S) ==
  /\ Agrees(e) /\ e.stalls = d.stalls
  /\ e.queue[p] = d.queue[p] \cup S
  /\ \A q \in Peer \ {p} : e.queue[q] = d.queue[q]
  /\ \A b \in Block \ S : e.from[b] = d.from[b]

\* A block is asked of p that is not in flight.
LEMMA InFlightAgrees ==
  ASSUME NEW d, Agrees(d), NEW p \in Peer, NEW b \in Block, d.from[b] = NoPeer
  PROVE  Asked(d, MarkBlockAsInFlight(d, p, b), p, {b})
<1> DEFINE e == MarkBlockAsInFlight(d, p, b)
<1>1. d.from[b] # p
  BY Zenon, DownloadAssumption
<1>2. e = [d EXCEPT !.from[b] = p, !.queue[p] = @ \cup {b}, !.n[p] = @ + 1,
                    !.loading = IF d.n[p] = 0 THEN @ + 1 ELSE @]
  BY Zenon, <1>1 DEF MarkBlockAsInFlight, MarkBlockAsReceived
<1> HIDE DEF e
<1>3. /\ d.from \in [Block -> Peer \cup {NoPeer}] /\ d.queue \in [Peer -> SUBSET Block]
      /\ d.n \in [Peer -> Nat] /\ d.loading \in Int /\ IsFiniteSet(d.queue[p])
      /\ d.partial \in SUBSET Block /\ d.stalls \in SUBSET Peer
  BY Zenon, AgreesTypes
<1>4. d \in Tables
  BY Zenon DEF Agrees
<1>5. /\ e.from = [d.from EXCEPT ![b] = p]
      /\ e.queue = [d.queue EXCEPT ![p] = @ \cup {b}]
      /\ e.n = [d.n EXCEPT ![p] = @ + 1]
  BY <1>2, <1>4 DEF Tables
<1>6. /\ e.loading = IF d.n[p] = 0 THEN d.loading + 1 ELSE d.loading
      /\ e.stalls = d.stalls /\ e.partial = d.partial /\ e.null = d.null
  BY <1>2, <1>4 DEF Tables
<1>7. e \in Tables
  <2>1. [d.from EXCEPT ![b] = p] \in [Block -> Peer \cup {NoPeer}]
    BY Zenon, <1>3
  <2>2. [d.queue EXCEPT ![p] = @ \cup {b}] \in [Peer -> SUBSET Block]
    BY <1>3
  <2>3. [d.n EXCEPT ![p] = @ + 1] \in [Peer -> Int]
    BY <1>3
  <2>4. (IF d.n[p] = 0 THEN d.loading + 1 ELSE d.loading) \in Int
    BY <1>3
  <2> QED BY <1>2, <1>4, <2>1, <2>2, <2>3, <2>4 DEF Tables
<1>9. NoPeer \notin Peer
  BY Zenon, DownloadAssumption
<1>10. ASSUME NEW q \in Peer
       PROVE  /\ q # p => e.queue[q] = d.queue[q] /\ e.n[q] = d.n[q]
              /\ e.queue[p] = d.queue[p] \cup {b} /\ e.n[p] = d.n[p] + 1
  BY <1>3, <1>5
<1>a. /\ \A c \in Block, q \in Peer : d.from[c] = q <=> c \in d.queue[q]
      /\ d.partial \subseteq {c \in Block : d.from[c] # NoPeer}
      /\ \A q \in d.stalls : d.queue[q] # {}
      /\ d.loading = Loading(d.n) /\ ~d.null
  BY Zenon DEF Agrees, InFlight
<1>11. \A c \in Block, q \in Peer : e.from[c] = q <=> c \in e.queue[q]
  <2>1. ASSUME NEW c \in Block, NEW q \in Peer, c # b PROVE e.from[c] = q <=> c \in e.queue[q]
    <3>1. e.from[c] = d.from[c]
      BY Zenon, <1>3, <1>5, <2>1
    <3>2. c \in e.queue[q] <=> c \in d.queue[q]
      BY <1>10, <2>1
    <3> QED BY Zenon, <1>a, <3>1, <3>2
  <2>2. ASSUME NEW q \in Peer PROVE e.from[b] = q <=> b \in e.queue[q]
    <3>1. e.from[b] = p
      BY Zenon, <1>3, <1>5
    <3>2. b \notin d.queue[q]
      BY <1>a, <1>9
    <3> QED BY Zenon, <1>10, <3>1, <3>2
  <2>3. ASSUME NEW c \in Block, NEW q \in Peer, c = b PROVE e.from[c] = q <=> c \in e.queue[q]
    BY Zenon, <2>2, <2>3
  <2> QED BY Zenon, <2>1, <2>3
<1>12. \A q \in Peer : e.n[q] = Cardinality(e.queue[q])
  <2>1. b \notin d.queue[p]
    BY <1>a, <1>9
  <2>2. Cardinality(d.queue[p] \cup {b}) = Cardinality(d.queue[p]) + 1
    BY Zenon, <1>3, <2>1, FS_AddElement
  <2>3. \A q \in Peer : d.n[q] = Cardinality(d.queue[q])
    BY Zenon DEF Agrees
  <2> QED BY <1>10, <2>2, <2>3
<1>13. e.loading = Loading(e.n)
  <2> DEFINE m == d.n[p] + 1
  <2>1. /\ m \in Nat /\ m > 0 /\ m # 0 /\ e.n = [d.n EXCEPT ![p] = m]
    BY <1>3, <1>5
  <2> HIDE DEF m
  <2>2. Loading(e.n) = IF d.n[p] = 0 THEN Loading(d.n) + 1 ELSE Loading(d.n)
    BY <1>3, <2>1, LoadingChanges
  <2> QED BY Zenon, <1>a, <1>6, <2>2
<1>14. e.partial \subseteq {c \in Block : InFlight(e, c)}
  BY <1>a, <1>3, <1>5, <1>6, <1>9 DEF InFlight
<1>15. \A q \in e.stalls : e.queue[q] # {}
  BY <1>a, <1>3, <1>6, <1>10
<1>16. Agrees(e)
  BY Zenon, <1>6, <1>7, <1>a, <1>11, <1>12, <1>13, <1>14, <1>15 DEF Agrees
<1>17. \A c \in Block \ {b} : e.from[c] = d.from[c]
  BY <1>3, <1>5
<1>18. Asked(d, e, p, {b})
  BY Zenon, <1>6, <1>10, <1>16, <1>17 DEF Asked
<1> QED BY Zenon, <1>18 DEF e

\* Tables with the requests of d, and other marks on peers and blocks.
LEMMA SameRequests ==
  ASSUME NEW d, Agrees(d), NEW e \in Tables,
         e.from = d.from, e.queue = d.queue, e.n = d.n, e.loading = d.loading, e.null = d.null,
         e.partial \subseteq {c \in Block : InFlight(e, c)},
         \A q \in e.stalls : e.queue[q] # {}
  PROVE  Agrees(e)
<1>1. /\ \A b \in Block, p \in Peer : d.from[b] = p <=> b \in d.queue[p]
      /\ \A p \in Peer : d.n[p] = Cardinality(d.queue[p])
      /\ d.loading = Loading(d.n) /\ ~d.null
  BY Zenon DEF Agrees
<1>2. /\ \A b \in Block, p \in Peer : e.from[b] = p <=> b \in e.queue[p]
      /\ \A p \in Peer : e.n[p] = Cardinality(e.queue[p])
      /\ e.loading = Loading(e.n) /\ ~e.null
  BY <1>1
<1> QED BY Zenon, <1>2 DEF Agrees

\* The same for a compact block, that p may owe already.
LEMMA PartialAgrees ==
  ASSUME NEW d, Agrees(d), NEW p \in Peer, NEW b \in Block, d.from[b] \in {p, NoPeer}
  PROVE  LET e == MarkPartial(d, p, b)
         IN Agrees(e) /\ Grows(d, e) /\ \A q \in Peer \ {p} : e.queue[q] = d.queue[q]
<1> DEFINE m == IF d.from[b] = p THEN d ELSE MarkBlockAsInFlight(d, p, b)
           e == MarkPartial(d, p, b)
<1>1. /\ Agrees(m) /\ m.from[b] = p /\ Grows(d, m)
      /\ \A q \in Peer \ {p} : m.queue[q] = d.queue[q]
  <2>1. CASE d.from[b] = p
    BY Zenon, <2>1 DEF Grows
  <2>2. CASE d.from[b] # p
    <3>1. d.from[b] = NoPeer /\ m = MarkBlockAsInFlight(d, p, b)
      BY Zenon, <2>2
    <3> HIDE DEF m
    <3>2. Asked(d, m, p, {b})
      BY Zenon, <3>1, InFlightAgrees
    <3>3. m.from[b] = p
      <4>1. Agrees(m) /\ b \in m.queue[p]
        BY Zenon, <3>2 DEF Asked
      <4> QED BY Zenon, <4>1 DEF Agrees
    <3>4. Grows(d, m)
      BY Zenon, <3>2 DEF Asked, Grows
    <3> QED BY Zenon, <3>2, <3>3, <3>4 DEF Asked
  <2> QED BY Zenon, <2>1, <2>2
<1>2. e = [m EXCEPT !.partial = @ \cup {b}]
  BY Zenon DEF MarkPartial
<1> HIDE DEF m, e
<1>3. m \in Tables /\ m.partial \in SUBSET Block
  BY Zenon, <1>1, AgreesTypes DEF Agrees
<1>4. /\ e.from = m.from /\ e.queue = m.queue /\ e.n = m.n /\ e.loading = m.loading
      /\ e.stalls = m.stalls /\ e.partial = m.partial \cup {b} /\ e.null = m.null
  BY <1>2, <1>3 DEF Tables
<1>5. e \in Tables
  BY <1>2, <1>3 DEF Tables
<1>6. e.partial \subseteq {c \in Block : InFlight(e, c)}
  <2>1. m.partial \subseteq {c \in Block : InFlight(m, c)} /\ NoPeer \notin Peer
    BY Zenon, <1>1, DownloadAssumption DEF Agrees
  <2> QED BY Zenon, <1>1, <1>4, <2>1 DEF InFlight
<1>7. Agrees(e)
  <2>1. \A q \in e.stalls : e.queue[q] # {}
    BY Zenon, <1>1, <1>4 DEF Agrees
  <2> QED BY Zenon, <1>1, <1>4, <1>5, <1>6, <2>1, SameRequests
<1>8. Grows(d, e)
  BY Zenon, <1>1, <1>4 DEF Grows
<1> QED BY Zenon, <1>1, <1>4, <1>7, <1>8 DEF e

\* A peer that owes a block is found to stall.
LEMMA StallAgrees ==
  ASSUME NEW d, Agrees(d), NEW p \in Peer, d.queue[p] # {}
  PROVE  LET e == [d EXCEPT !.stalls = @ \cup {p}]
         IN Agrees(e) /\ e.queue = d.queue
<1> DEFINE e == [d EXCEPT !.stalls = @ \cup {p}]
<1>1. d \in Tables /\ \A q \in d.stalls : d.queue[q] # {}
  BY Zenon DEF Agrees
<1>2. /\ e.from = d.from /\ e.queue = d.queue /\ e.n = d.n /\ e.loading = d.loading
      /\ e.stalls = d.stalls \cup {p} /\ e.partial = d.partial /\ e.null = d.null
      /\ e \in Tables
  BY <1>1 DEF Tables
<1> HIDE DEF e
<1>3. \A q \in e.stalls : e.queue[q] # {}
  BY Zenon, <1>1, <1>2
<1>4. e.partial \subseteq {c \in Block : InFlight(e, c)}
  BY Zenon, <1>2 DEF Agrees, InFlight
<1>5. Agrees(e)
  BY Zenon, <1>2, <1>3, <1>4, SameRequests
<1> QED BY Zenon, <1>2, <1>5 DEF e

\* What p owed is forgotten when its connection is finalized.
LEMMA FinalizeAgrees ==
  ASSUME NEW d, Agrees(d), NEW p \in Peer
  PROVE  LET e == FinalizeBlocks(d, p)
         IN /\ Agrees(e) /\ e.queue[p] = {}
            /\ \A q \in Peer \ {p} : e.queue[q] = d.queue[q]
<1> DEFINE e == FinalizeBlocks(d, p)
           owed == d.queue[p]
<1>1. e = [d EXCEPT !.from = [b \in Block |-> IF b \in owed THEN NoPeer ELSE @[b]],
                    !.queue[p] = {}, !.n[p] = 0, !.stalls = @ \ {p}, !.partial = @ \ owed,
                    !.loading = IF d.n[p] # 0 THEN @ - 1 ELSE @]
  BY Zenon DEF FinalizeBlocks
<1>2. /\ d \in Tables /\ ~d.null /\ NoPeer \notin Peer
      /\ \A b \in Block, q \in Peer : d.from[b] = q <=> b \in d.queue[q]
      /\ d.partial \subseteq {b \in Block : d.from[b] # NoPeer}
      /\ \A q \in d.stalls : d.queue[q] # {}
      /\ d.loading = Loading(d.n)
      /\ \A q \in Peer : d.n[q] = Cardinality(d.queue[q])
  BY Zenon, DownloadAssumption DEF Agrees, InFlight
<1>3. /\ d.from \in [Block -> Peer \cup {NoPeer}] /\ d.queue \in [Peer -> SUBSET Block]
      /\ d.n \in [Peer -> Nat] /\ d.loading \in Int
      /\ d.partial \in SUBSET Block /\ d.stalls \in SUBSET Peer
  BY Zenon, AgreesTypes
<1> HIDE DEF e, owed
<1>4. /\ e.from = [b \in Block |-> IF b \in owed THEN NoPeer ELSE d.from[b]]
      /\ e.queue = [d.queue EXCEPT ![p] = {}]
      /\ e.n = [d.n EXCEPT ![p] = 0]
  BY <1>1, <1>2 DEF Tables
<1>5. /\ e.loading = IF d.n[p] # 0 THEN d.loading - 1 ELSE d.loading
      /\ e.stalls = d.stalls \ {p} /\ e.partial = d.partial \ owed /\ e.null = d.null
  BY <1>1, <1>2 DEF Tables
<1>6. e \in Tables
  <2>1. [b \in Block |-> IF b \in owed THEN NoPeer ELSE d.from[b]] \in [Block -> Peer \cup {NoPeer}]
    BY <1>3
  <2>2. [d.queue EXCEPT ![p] = {}] \in [Peer -> SUBSET Block]
    BY <1>3
  <2>3. [d.n EXCEPT ![p] = 0] \in [Peer -> Int]
    BY <1>3
  <2>4. (IF d.n[p] # 0 THEN d.loading - 1 ELSE d.loading) \in Int
    BY <1>3
  <2> QED BY <1>1, <1>2, <1>3, <2>1, <2>2, <2>3, <2>4 DEF Tables
<1>7. /\ \A q \in Peer \ {p} : e.queue[q] = d.queue[q] /\ e.n[q] = d.n[q]
      /\ e.queue[p] = {} /\ e.n[p] = 0
  BY <1>3, <1>4
<1>8. \A b \in Block, q \in Peer : e.from[b] = q <=> b \in e.queue[q]
  <2>1. ASSUME NEW b \in Block, NEW q \in Peer, q # p PROVE e.from[b] = q <=> b \in e.queue[q]
    BY <1>2, <1>4, <1>7, <2>1 DEF owed
  <2>2. ASSUME NEW b \in Block PROVE e.from[b] = p <=> b \in e.queue[p]
    BY <1>2, <1>4, <1>7 DEF owed
  <2> QED BY Zenon, <2>1, <2>2
<1>9. \A q \in Peer : e.n[q] = Cardinality(e.queue[q])
  <2>1. Cardinality({}) = 0
    BY Zenon, FS_EmptySet
  <2> QED BY Zenon, <1>2, <1>7, <2>1
<1>10. e.loading = Loading(e.n)
  <2>1. Loading(e.n) = IF d.n[p] > 0 THEN Loading(d.n) - 1 ELSE Loading(d.n)
    BY <1>3, <1>4, LoadingChanges
  <2>2. d.n[p] > 0 <=> d.n[p] # 0
    BY <1>3
  <2> QED BY Zenon, <1>2, <1>5, <2>1, <2>2
<1>11. e.partial \subseteq {b \in Block : InFlight(e, b)}
  BY <1>2, <1>3, <1>4, <1>5 DEF InFlight
<1>12. \A q \in e.stalls : e.queue[q] # {}
  BY Zenon, <1>2, <1>3, <1>5, <1>7
<1>13. Agrees(e)
  BY Zenon, <1>2, <1>5, <1>6, <1>8, <1>9, <1>10, <1>11, <1>12 DEF Agrees
<1> QED BY Zenon, <1>7, <1>13 DEF e

\* Whatever the tables, asking for a block gives tables.
LEMMA MarkTyped ==
  ASSUME NEW d \in Tables, NEW p \in Peer, NEW b \in Block
  PROVE  MarkBlockAsInFlight(d, p, b) \in Tables
<1> DEFINE r == MarkBlockAsReceived(d, b)
           q == d.from[b]
<1>1. r \in Tables
  <2>1. CASE q = NoPeer
    BY Zenon, <2>1 DEF MarkBlockAsReceived
  <2>2. CASE q # NoPeer
    <3>1. r = [d EXCEPT !.from[b] = NoPeer, !.queue[q] = @ \ {b}, !.n[q] = @ - 1,
                        !.loading = IF d.n[q] = 1 THEN @ - 1 ELSE @,
                        !.stalls = @ \ {q}, !.partial = @ \ {b}]
      BY Zenon, <2>2 DEF MarkBlockAsReceived
    <3>2. q \in Peer
      BY <2>2 DEF Tables
    <3> HIDE DEF r, q
    <3>3. /\ d.from \in [Block -> Peer \cup {NoPeer}] /\ d.queue \in [Peer -> SUBSET Block]
          /\ d.n \in [Peer -> Int] /\ d.loading \in Int
          /\ d.stalls \in SUBSET Peer /\ d.partial \in SUBSET Block
      BY DEF Tables
    <3>4. [d.from EXCEPT ![b] = NoPeer] \in [Block -> Peer \cup {NoPeer}]
      BY Zenon, <3>3
    <3>5. [d.queue EXCEPT ![q] = @ \ {b}] \in [Peer -> SUBSET Block]
      BY <3>3
    <3>6. [d.n EXCEPT ![q] = @ - 1] \in [Peer -> Int]
      BY <3>2, <3>3
    <3>7. (IF d.n[q] = 1 THEN d.loading - 1 ELSE d.loading) \in Int
      BY <3>3
    <3> QED BY <3>1, <3>3, <3>4, <3>5, <3>6, <3>7 DEF Tables
  <2> QED BY Zenon, <2>1, <2>2
<1>2. CASE q = p
  BY <1>2 DEF MarkBlockAsInFlight, Tables
<1>3. CASE q # p
  <2>1. MarkBlockAsInFlight(d, p, b)
          = [r EXCEPT !.from[b] = p, !.queue[p] = @ \cup {b}, !.n[p] = @ + 1,
                      !.loading = IF r.n[p] = 0 THEN @ + 1 ELSE @]
    BY Zenon, <1>3 DEF MarkBlockAsInFlight
  <2> HIDE DEF r, q
  <2>2. /\ r.from \in [Block -> Peer \cup {NoPeer}] /\ r.queue \in [Peer -> SUBSET Block]
        /\ r.n \in [Peer -> Int] /\ r.loading \in Int
    BY <1>1 DEF Tables
  <2>3. [r.from EXCEPT ![b] = p] \in [Block -> Peer \cup {NoPeer}]
    BY Zenon, <2>2
  <2>4. [r.queue EXCEPT ![p] = @ \cup {b}] \in [Peer -> SUBSET Block]
    BY <2>2
  <2>5. [r.n EXCEPT ![p] = @ + 1] \in [Peer -> Int]
    BY <2>2
  <2>6. (IF r.n[p] = 0 THEN r.loading + 1 ELSE r.loading) \in Int
    BY <2>2
  <2> DEFINE F == [r.from EXCEPT ![b] = p]
             Q == [r.queue EXCEPT ![p] = @ \cup {b}]
             N == [r.n EXCEPT ![p] = @ + 1]
             L == IF r.n[p] = 0 THEN r.loading + 1 ELSE r.loading
  <2>7. MarkBlockAsInFlight(d, p, b) = [r EXCEPT !.from = F, !.queue = Q, !.n = N, !.loading = L]
    BY Zenon, <2>1
  <2> HIDE DEF F, Q, N, L
  <2>8. /\ F \in [Block -> Peer \cup {NoPeer}] /\ Q \in [Peer -> SUBSET Block]
        /\ N \in [Peer -> Int] /\ L \in Int
    BY Zenon, <2>3, <2>4, <2>5, <2>6 DEF F, Q, N, L
  <2> QED BY <1>1, <2>7, <2>8 DEF Tables
<1> QED BY Zenon, <1>2, <1>3

\* Blocks are asked of p that are not in flight: none of them twice.
LEMMA MarkAllAgrees ==
  ASSUME NEW d, Agrees(d), NEW p \in Peer, NEW S \in SUBSET Block,
         \A b \in S : d.from[b] = NoPeer
  PROVE  Asked(d, MarkAll(d, p, S), p, S)
<1> DEFINE pick == [s \in SUBSET S |-> CHOOSE b \in s : TRUE]
           step == [z \in S \X Tables |-> MarkBlockAsInFlight(z[2], p, z[1])]
           IsFold(g) == g = [s \in SUBSET S |-> IF s = {} THEN d
                               ELSE MarkBlockAsInFlight(g[s \ {CHOOSE b \in s : TRUE}], p,
                                                        CHOOSE b \in s : TRUE)]
<1>1. MarkAll(d, p, S) = (CHOOSE g : IsFold(g))[S]
  BY Zenon DEF MarkAll, FoldSet, MapThenFoldSet
<1>2. \A b \in S, e \in Tables : MarkBlockAsInFlight(e, p, b) \in Tables
  BY Zenon, MarkTyped
<1>3. step \in [S \X Tables -> Tables] /\ d \in Tables /\ IsFiniteSet(S)
  BY <1>2, BlocksFinite DEF Agrees
<1>4. Picks(pick, S)
  <2>1. \A s \in (SUBSET S) \ {{}} : (CHOOSE b \in s : TRUE) \in s
    BY Zenon
  <2> QED BY Zenon, <2>1 DEF Picks
<1>5. PICK f : Folding(f, S, Tables, d, step, pick)
  <2> HIDE DEF pick, step
  <2> QED BY Zenon, <1>3, <1>4, RecursionOnSubsets
<1>6. IsFold(f)
  <2>1. f \in [SUBSET S -> Tables] /\ f[{}] = d
    BY Zenon, <1>5 DEF Folding
  <2>2. ASSUME NEW s \in SUBSET S, s # {}
        PROVE  f[s] = MarkBlockAsInFlight(f[s \ {CHOOSE b \in s : TRUE}], p,
                                          CHOOSE b \in s : TRUE)
    <3> DEFINE x == CHOOSE b \in s : TRUE
    <3>1. x \in s /\ x \in S /\ pick[s] = x /\ f[s \ {x}] \in Tables
      BY Zenon, <2>1, <2>2
    <3>2. f[s] = step[<<x, f[s \ {x}]>>]
      <4>1. s \in (SUBSET S) \ {{}}
        BY <2>2
      <4>2. f[s] = step[<<pick[s], f[s \ {pick[s]}]>>]
        <5> HIDE DEF step, pick
        <5> QED BY Zenon, <1>5, <4>1 DEF Folding
      <4> QED BY Zenon, <3>1, <4>2
    <3> HIDE DEF x
    <3> QED BY <3>1, <3>2
  <2> QED BY Zenon, <2>1, <2>2
<1>7. PICK g : IsFold(g) /\ g = CHOOSE h : IsFold(h)
  <2> HIDE DEF IsFold
  <2> QED BY Zenon, <1>6
<1>8. ASSUME NEW s \in SUBSET S, NEW b \in s, NEW e, Asked(d, e, p, s \ {b})
      PROVE  Asked(d, MarkBlockAsInFlight(e, p, b), p, s)
  <2> DEFINE h == MarkBlockAsInFlight(e, p, b)
  <2>1. b \in Block /\ b \notin s \ {b} /\ d.from[b] = NoPeer
    BY Zenon
  <2>2. Agrees(e) /\ e.from[b] = NoPeer
    BY Zenon, <1>8, <2>1 DEF Asked
  <2>3. Asked(e, h, p, {b})
    BY Zenon, <2>1, <2>2, InFlightAgrees
  <2> HIDE DEF h
  <2>4. /\ Agrees(h) /\ h.stalls = d.stalls
        /\ \A q \in Peer \ {p} : h.queue[q] = d.queue[q]
    BY <1>8, <2>3 DEF Asked
  <2>5. h.queue[p] = d.queue[p] \cup s
    BY <1>8, <2>3 DEF Asked
  <2>6. \A c \in Block \ s : h.from[c] = d.from[c]
    BY <1>8, <2>3 DEF Asked
  <2>7. Asked(d, h, p, s)
    BY Zenon, <2>4, <2>5, <2>6 DEF Asked
  <2> QED BY Zenon, <2>7 DEF h
<1>9. S \in {s \in SUBSET S : Asked(d, g[s], p, s)}
  <2> DEFINE T == {s \in SUBSET S : Asked(d, g[s], p, s)}
  <2>1. {} \in T
    <3>1. g[{}] = d
      BY Zenon, <1>7
    <3>2. Asked(d, d, p, {})
      BY Zenon DEF Asked
    <3> QED BY Zenon, <3>1, <3>2
  <2>2. ASSUME NEW s \in (SUBSET S) \ {{}}, s \ {pick[s]} \in T
        PROVE  s \in T
    <3>1. g[s] = MarkBlockAsInFlight(g[s \ {pick[s]}], p, pick[s]) /\ pick[s] \in s
      BY Zenon, <1>4, <1>7 DEF Picks
    <3> HIDE DEF pick
    <3> QED BY Zenon, <1>8, <2>2, <3>1
  <2>3. SUBSET S \subseteq T
    <3> HIDE DEF T, pick
    <3> QED BY <1>3, <1>4, <2>1, <2>2, SubsetInduction
  <2> QED BY Zenon, <2>3
<1> QED BY Zenon, <1>1, <1>7, <1>9

\* The invariant: the tables agree, blocks are owed by peers that the node knows,
\* and the heights are on the chain of headers.
DownloadInv ==
  /\ Agrees(dl)
  /\ \A p \in Peer : dl.queue[p] # {} => p \in Known
  /\ link \in [Peer -> {"new", "up", "dropped", "gone"}]
  /\ tip \in Base .. Top
  /\ best \in [Peer -> 0 .. Top] /\ lastCommon \in [Peer -> -1 .. Top]
  /\ message # NoMessage => message.block \in Block

\* The blocks that may be asked for, the peers that owe one, and the states of the walk
\* in FindNextBlocksToDownload.
Askable == {b \in Block : b > tip /\ ~InFlight(dl, b)}
Owing == {NoPeer} \cup {q \in Peer : dl.queue[q] # {}}
Walks == [blocks : SUBSET Askable, common : 0 .. Top, waitingfor : Owing, staller : Owing,
          done : BOOLEAN]

\* A finite set of numbers has a greatest one.
LEMMA MaxFound ==
  ASSUME NEW S \in SUBSET Int, IsFiniteSet(S), S # {}
  PROVE  Max(S) \in S /\ \A x \in S : Max(S) >= x
<1> DEFINE w == [x \in S |-> x]
<1>1. w \in [S -> Int] /\ \A x \in S : w[x] = x
  BY Zenon
<1> HIDE DEF w
<1>2. PICK a \in S : \A x \in S : w[x] <= w[a]
  BY <1>1, Heaviest
<1>3. \A x \in S : a >= x
  BY <1>1, <1>2
<1> QED BY Zenon, <1>3 DEF Max

\* One block of the walk.
LEMMA ConsiderKeeps ==
  ASSUME DownloadInv, NEW s \in Walks, NEW b \in Block, NEW p, NEW count, NEW size, NEW end
  PROVE  Consider(s, b, p, count, size, end) \in Walks
<1>1. /\ s.blocks \in SUBSET Askable /\ s.waitingfor \in Owing
      /\ tip \in Int /\ b \in Int /\ b \in 0 .. Top
  BY DownloadAssumption DEF Walks, DownloadInv, Block
<1>2. CASE s.done
  BY Zenon, <1>2 DEF Consider
<1>3. CASE ~s.done /\ (b \in have \/ b <= tip)
  <2>1. Consider(s, b, p, count, size, end)
          = [s EXCEPT !.common = IF HasChainTx(b) THEN b ELSE @]
    BY Zenon, <1>3 DEF Consider
  <2> QED BY <1>1, <2>1 DEF Walks
<1>4. CASE ~s.done /\ ~(b \in have \/ b <= tip) /\ InFlight(dl, b)
  <2>1. Consider(s, b, p, count, size, end)
          = [s EXCEPT !.waitingfor = IF @ = NoPeer THEN dl.from[b] ELSE @]
    BY Zenon, <1>4 DEF Consider
  <2>2. dl.from[b] \in Peer
    <3>1. dl.from \in [Block -> Peer \cup {NoPeer}]
      BY Zenon, AgreesTypes DEF DownloadInv
    <3> QED BY Zenon, <1>4, <3>1 DEF InFlight
  <2>3. dl.from[b] \in Owing
    BY Zenon, <2>2 DEF DownloadInv, Agrees, Owing
  <2> QED BY <2>1, <2>3 DEF Walks
<1>5. CASE ~s.done /\ ~(b \in have \/ b <= tip) /\ ~InFlight(dl, b) /\ b > end
  <2>1. Consider(s, b, p, count, size, end)
          = [s EXCEPT !.done = TRUE,
                      !.staller = IF size = 0 /\ s.blocks = {} /\ s.waitingfor # p
                                  THEN s.waitingfor ELSE @]
    BY Zenon, <1>5 DEF Consider
  <2> QED BY <1>1, <2>1 DEF Walks
<1>6. CASE ~s.done /\ ~(b \in have \/ b <= tip) /\ ~InFlight(dl, b) /\ ~(b > end)
  <2>1. Consider(s, b, p, count, size, end)
          = [s EXCEPT !.blocks = @ \cup {b},
                      !.done = size + Cardinality(s.blocks) + 1 = count]
    BY Zenon, <1>6 DEF Consider
  <2>2. s.blocks \cup {b} \in SUBSET Askable
    BY <1>1, <1>6 DEF Askable
  <2>3. (size + Cardinality(s.blocks) + 1 = count) \in BOOLEAN
    BY Zenon
  <2> QED BY <2>1, <2>2, <2>3 DEF Walks
<1> QED BY Zenon, <1>2, <1>3, <1>4, <1>5, <1>6

\* FindNextBlocksToDownload chooses blocks above the tip that nobody was asked for, and
\* names as staller a peer that owes a block.
LEMMA FoundAskable ==
  ASSUME DownloadInv, NEW p \in Peer, NEW count, NEW size,
         NEW found, found = FindNextBlocksToDownload(p, count, size)
  PROVE  found.blocks \in SUBSET Askable /\ found.staller \in Owing /\ found.common \in -1 .. Top
<1> DEFINE guess == IF lastCommon[p] = -1 THEN Least(best[p], tip) ELSE Least(lastCommon[p], best[p])
           start == [blocks |-> {}, common |-> guess, waitingfor |-> NoPeer, staller |-> NoPeer,
                     done |-> FALSE]
           end == guess + Window
           D == (guess + 1)..Least(best[p], end + 1)
<1>1. lastCommon[p] \in -1 .. Top /\ best[p] \in 0 .. Top /\ tip \in 0 .. Top
  BY DownloadAssumption DEF DownloadInv
<1>2. guess \in 0 .. Top
  BY <1>1, DownloadAssumption DEF Least
<1> HIDE DEF guess
<1>3. D \in SUBSET Int /\ IsFiniteSet(D) /\ D \in SUBSET Block
  <2> DEFINE n == Least(best[p], end + 1)
  <2>1. n \in Int /\ n <= Top
    BY <1>1, <1>2, DownloadAssumption DEF Least
  <2> HIDE DEF n
  <2>2. (guess + 1)..n \subseteq Block /\ Block \subseteq Int
    BY <1>2, <2>1, DownloadAssumption DEF Block
  <2>3. IsFiniteSet((guess + 1)..n)
    BY <1>2, <2>1, FS_Interval
  <2> QED BY Zenon, <2>2, <2>3 DEF n
<1>4. start \in Walks
  BY <1>2 DEF Walks, Owing
<1>5. CASE count = 0 \/ best[p] = 0 \/ best[p] < tip
  <2>1. found = [start EXCEPT !.common = lastCommon[p]]
    BY Zenon, <1>5 DEF FindNextBlocksToDownload, guess
  <2> QED BY <1>1, <2>1 DEF Owing
<1>6. CASE ~(count = 0 \/ best[p] = 0 \/ best[p] < tip)
  <2> DEFINE Step(k, s) == Consider(s, k, p, count, size, end)
             pick == [s \in SUBSET D |-> Max(s)]
             step == [z \in D \X Walks |-> Step(z[1], z[2])]
             IsFold(g) == g = [s \in SUBSET D |-> IF s = {} THEN start
                                 ELSE Step(Max(s), g[s \ {Max(s)}])]
  <2>1. found = (CHOOSE g : IsFold(g))[D]
    BY Zenon, <1>6 DEF FindNextBlocksToDownload, guess, MapThenFoldSet
  <2>2. \A k \in D, s \in Walks : Step(k, s) \in Walks
    <3> HIDE DEF D, end
    <3> QED BY Zenon, <1>3, ConsiderKeeps
  <2> HIDE DEF D, start, end, Step
  <2>3. step \in [D \X Walks -> Walks]
    BY <2>2
  <2>4. Picks(pick, D)
    <3>1. \A s \in (SUBSET D) \ {{}} : Max(s) \in s
      BY Zenon, <1>3, FS_Subset, MaxFound
    <3> QED BY Zenon, <3>1 DEF Picks
  <2>5. PICK f : Folding(f, D, Walks, start, step, pick)
    <3> HIDE DEF pick, step
    <3> QED BY Zenon, <1>3, <1>4, <2>3, <2>4, RecursionOnSubsets
  <2>6. IsFold(f)
    <3>1. f \in [SUBSET D -> Walks] /\ f[{}] = start
      BY Zenon, <2>5 DEF Folding
    <3>2. ASSUME NEW s \in SUBSET D, s # {}
          PROVE  f[s] = Step(Max(s), f[s \ {Max(s)}])
      <4>1. s \in (SUBSET D) \ {{}} /\ pick[s] = Max(s)
        BY Zenon, <3>2
      <4>2. Max(s) \in D /\ f[s \ {Max(s)}] \in Walks
        BY Zenon, <2>4, <3>1, <4>1 DEF Picks
      <4>3. f[s] = step[<<pick[s], f[s \ {pick[s]}]>>]
        <5> HIDE DEF step, pick
        <5> QED BY Zenon, <2>5, <4>1 DEF Folding
      <4>4. f[s] = step[<<Max(s), f[s \ {Max(s)}]>>]
        BY Zenon, <4>1, <4>3
      <4> QED BY <4>2, <4>4
    <3> QED BY Zenon, <3>1, <3>2
  <2>7. PICK g : IsFold(g) /\ g = CHOOSE h : IsFold(h)
    <3> HIDE DEF IsFold
    <3> QED BY Zenon, <2>6
  <2>8. D \in {s \in SUBSET D : g[s] \in Walks}
    <3> DEFINE T == {s \in SUBSET D : g[s] \in Walks}
    <3>1. {} \in T
      BY Zenon, <1>4, <2>7
    <3>2. ASSUME NEW s \in (SUBSET D) \ {{}}, s \ {pick[s]} \in T
          PROVE  s \in T
      <4>1. g[s] = Step(pick[s], g[s \ {pick[s]}]) /\ pick[s] \in D
        BY Zenon, <2>4, <2>7 DEF Picks
      <4> HIDE DEF pick
      <4> QED BY Zenon, <2>2, <3>2, <4>1
    <3>3. SUBSET D \subseteq T
      <4>1. IsFiniteSet(D)
        BY Zenon, <1>3
      <4> HIDE DEF T, pick, step, IsFold
      <4> QED BY <2>4, <3>1, <3>2, <4>1, SubsetInduction
    <3> QED BY Zenon, <3>3
  <2>9. found \in Walks
    BY Zenon, <2>1, <2>7, <2>8
  <2> QED BY <2>9 DEF Walks
<1> QED BY Zenon, <1>5, <1>6

\* Tables that agree, in which only known peers owe blocks.
Kept(d) == Agrees(d) /\ \A q \in Peer : d.queue[q] # {} => q \in Known

\* Blocks above the tip or of the history, that are not in flight, are asked of p.
LEMMA AskKeeps ==
  ASSUME NEW d, Kept(d), NEW p \in Known, NEW S \in SUBSET Block,
         \A b \in S : d.from[b] = NoPeer,
         NEW e, e = MarkAll(d, p, S)
  PROVE  /\ Kept(e) /\ \A b \in Block \ S : e.from[b] = d.from[b]
         /\ \A q \in Peer : d.queue[q] \subseteq e.queue[q]
<1>1. p \in Peer /\ Agrees(d)
  BY Zenon DEF Known, Kept
<1>2. Asked(d, e, p, S)
  BY Zenon, <1>1, MarkAllAgrees
<1>3. \A q \in Peer : e.queue[q] # {} => q \in Known
  BY Zenon, <1>2 DEF Asked, Kept
<1>4. \A q \in Peer : d.queue[q] \subseteq e.queue[q]
  BY Zenon, <1>2 DEF Asked
<1> QED BY Zenon, <1>2, <1>3, <1>4 DEF Asked, Kept

\* SendMessages: blocks of the history, then blocks above the tip; none is in both.
LEMMA SendKeeps ==
  ASSUME DownloadInv, NEW p \in Peer, link[p] = "up", SendGetData(p)
  PROVE  Kept(dl') /\ Grows(dl, dl') /\ lastCommon' \in [Peer -> -1 .. Top]
<1> DEFINE slots == MaxInTransit - dl.n[p]
           history == {b \in MissingHistory(slots) : ~InFlight(dl, b)}
           found == FindNextBlocksToDownload(p, slots - Cardinality(history), Cardinality(history))
           first == MarkAll(dl, p, history)
           marked == MarkAll(first, p, found.blocks)
<1>1. Kept(dl) /\ p \in Known /\ lastCommon \in [Peer -> -1 .. Top]
  BY Zenon DEF DownloadInv, Kept, Known
<1>2. CASE ~(CanDownloadBlocks(p) /\ dl.n[p] < MaxInTransit)
  BY Zenon, <1>1, <1>2 DEF SendGetData, Grows
<1>3. CASE CanDownloadBlocks(p) /\ dl.n[p] < MaxInTransit
  <2>1. /\ dl' = IF marked.n[p] = 0 /\ found.staller # NoPeer
                 THEN [marked EXCEPT !.stalls = @ \cup {found.staller}] ELSE marked
        /\ lastCommon' = [lastCommon EXCEPT ![p] = found.common]
    BY Zenon, <1>3 DEF SendGetData
  <2>2. history \in SUBSET Block /\ \A b \in history : b <= tip /\ dl.from[b] = NoPeer
    <3>1. history \subseteq 1 .. Base /\ \A b \in history : ~InFlight(dl, b)
      BY Zenon DEF MissingHistory, First
    <3>2. tip \in Int /\ tip >= Base
      BY DownloadAssumption DEF DownloadInv
    <3> HIDE DEF history
    <3> QED BY <3>1, <3>2, DownloadAssumption DEF Block, InFlight
  <2> HIDE DEF history
  <2>3. /\ found.blocks \in SUBSET Askable /\ found.staller \in Owing
        /\ found.common \in -1 .. Top
    <3> HIDE DEF found
    <3> QED BY Zenon, FoundAskable DEF found
  <2> HIDE DEF found
  <2>4. /\ Kept(first) /\ \A b \in Block \ history : first.from[b] = dl.from[b]
        /\ \A q \in Peer : dl.queue[q] \subseteq first.queue[q]
    <3>1. /\ Kept(dl) /\ p \in Known /\ history \in SUBSET Block
          /\ \A b \in history : dl.from[b] = NoPeer
      BY Zenon, <1>1, <2>2
    <3> QED BY Zenon, <3>1, AskKeeps
  <2> HIDE DEF first
  <2>5. /\ found.blocks \in SUBSET Block
        /\ \A b \in found.blocks : b \in Block \ history /\ dl.from[b] = NoPeer
    <3>1. tip \in Int
      BY DownloadAssumption DEF DownloadInv
    <3> QED BY <2>2, <2>3, <3>1 DEF Askable, InFlight, Block
  <2>6. Kept(marked) /\ \A q \in Peer : first.queue[q] \subseteq marked.queue[q]
    <3>1. \A b \in found.blocks : first.from[b] = NoPeer
      BY Zenon, <2>4, <2>5
    <3>2. Kept(first) /\ found.blocks \in SUBSET Block /\ p \in Known
      BY Zenon, <1>1, <2>4, <2>5
    <3> DEFINE B == found.blocks
               k == MarkAll(first, p, B)
    <3> HIDE DEF B
    <3>3. /\ marked = k /\ Kept(first) /\ B \in SUBSET Block
          /\ p \in Known /\ \A b \in B : first.from[b] = NoPeer
      BY Zenon, <3>1, <3>2 DEF B
    <3>4. /\ Kept(k) /\ \A b \in Block \ B : k.from[b] = first.from[b]
          /\ \A q \in Peer : first.queue[q] \subseteq k.queue[q]
      BY Zenon, <3>3, AskKeeps
    <3> HIDE DEF marked, k
    <3> QED BY Zenon, <3>3, <3>4
  <2> HIDE DEF marked
  <2>7. Kept(dl') /\ dl'.queue = marked.queue
    <3>1. CASE marked.n[p] = 0 /\ found.staller # NoPeer
      <4> DEFINE s == found.staller
                 e == [marked EXCEPT !.stalls = @ \cup {s}]
      <4>1. s \in Peer /\ dl.queue[s] # {}
        BY Zenon, <2>3, <3>1 DEF Owing
      <4>2. marked.queue[s] # {}
        BY Zenon, <2>4, <2>6, <4>1
      <4> HIDE DEF s
      <4>3. Agrees(e) /\ e.queue = marked.queue
        BY Zenon, <2>6, <4>1, <4>2, StallAgrees DEF Kept
      <4>4. dl' = e
        BY Zenon, <2>1, <3>1 DEF s
      <4> HIDE DEF e
      <4>5. Kept(e)
        BY Zenon, <2>6, <4>3 DEF Kept
      <4> QED BY Zenon, <4>3, <4>4, <4>5
    <3>2. CASE ~(marked.n[p] = 0 /\ found.staller # NoPeer)
      BY Zenon, <2>1, <2>6, <3>2
    <3> QED BY Zenon, <3>1, <3>2
  <2>8. lastCommon' \in [Peer -> -1 .. Top]
    <3> DEFINE H == -1 .. Top
    <3>1. found.common \in H /\ lastCommon \in [Peer -> H]
      BY Zenon, <1>1, <2>3
    <3> HIDE DEF H
    <3>2. lastCommon' \in [Peer -> H]
      BY Zenon, <2>1, <3>1
    <3> QED BY Zenon, <3>2 DEF H
  <2>9. Grows(dl, dl')
    BY Zenon, <2>4, <2>6, <2>7 DEF Grows
  <2> QED BY Zenon, <2>7, <2>8, <2>9
<1> QED BY Zenon, <1>2, <1>3

\* The direct fetch of headers and of compact blocks.
LEMMA FetchKeeps ==
  ASSUME DownloadInv, NEW p \in Peer, link[p] = "up", NEW b \in Block, DirectFetch(p, b)
  PROVE  Kept(dl') /\ Grows(dl, dl')
<1> DEFINE missing == {c \in (tip + 1)..b : c \notin have /\ ~InFlight(dl, c)}
           asked == First(MaxInTransit - dl.n[p], missing)
<1>1. Kept(dl) /\ p \in Known
  BY Zenon DEF DownloadInv, Kept, Known
<1>2. CASE Cardinality(missing \ {tip + 1}) <= MaxInTransit /\ dl.n[p] < MaxInTransit
  <2>1. dl' = MarkAll(dl, p, asked)
    BY Zenon, <1>2 DEF DirectFetch
  <2>2. asked \subseteq (tip + 1)..b /\ \A c \in asked : dl.from[c] = NoPeer
    BY Zenon DEF First, InFlight
  <2> HIDE DEF asked
  <2>3. asked \in SUBSET Block
    BY <2>2, DownloadAssumption DEF Block, DownloadInv
  <2> QED BY Zenon, <1>1, <2>1, <2>2, <2>3, AskKeeps DEF Grows
<1>3. CASE ~(Cardinality(missing \ {tip + 1}) <= MaxInTransit /\ dl.n[p] < MaxInTransit)
  BY Zenon, <1>1, <1>3 DEF DirectFetch, Grows
<1> QED BY Zenon, <1>2, <1>3

\* A block has come.
LEMMA ReceiveKeeps ==
  ASSUME NEW d, Kept(d), NEW b \in Block
  PROVE  Kept(MarkBlockAsReceived(d, b))
<1> DEFINE e == MarkBlockAsReceived(d, b)
<1>1. Agrees(e) /\ \A q \in Peer : e.queue[q] \subseteq d.queue[q]
  BY Zenon, ReceivedAgrees DEF Kept
<1> HIDE DEF e
<1>2. Kept(e)
  BY Zenon, <1>1 DEF Kept
<1> QED BY Zenon, <1>2 DEF e

\* FillBlock, and what follows it.
LEMMA FillKeeps ==
  ASSUME NEW p \in Peer, link[p] = "up", link \in [Peer -> {"new", "up", "dropped", "gone"}],
         NEW b \in Block, NEW d, Kept(d), NEW outcome, Fill(p, b, d, outcome)
  PROVE  /\ Kept(dl') /\ link' \in {link, [link EXCEPT ![p] = "dropped"]}
         /\ message' = message \/ message'.block \in Block
<1>1. Kept(MarkBlockAsReceived(d, b))
  BY Zenon, ReceiveKeeps
<1>2. CASE outcome = "invalid" /\ dl' = MarkBlockAsReceived(d, b)
           /\ link' = [link EXCEPT ![p] = "dropped"] /\ UNCHANGED message
  BY Zenon, <1>1, <1>2
<1>3. CASE outcome = "failed" /\ dl' = d /\ UNCHANGED <<link, message>>
  BY Zenon, <1>3
<1>4. CASE outcome = "ok" /\ dl' = MarkBlockAsReceived(d, b) /\ Give(p, b, FALSE)
           /\ UNCHANGED link
  <2>1. message'.block = b
    BY <1>4 DEF Give
  <2> QED BY Zenon, <1>1, <1>4, <2>1
<1> QED BY Zenon, <1>2, <1>3, <1>4 DEF Fill

\* How the connection of p may change: then known peers stay known.
LEMMA KnownKept ==
  ASSUME link \in [Peer -> {"new", "up", "dropped", "gone"}], NEW p \in Peer,
         link' \in {link, [link EXCEPT ![p] = "up"], [link EXCEPT ![p] = "dropped"]}
  PROVE  Known \subseteq Known' /\ link' \in [Peer -> {"new", "up", "dropped", "gone"}]
BY DEF Known

\* The invariant holds after a step that keeps the tables and the heights.
LEMMA InvKept ==
  ASSUME DownloadInv, Kept(dl'), NEW p \in Peer,
         link' \in {link, [link EXCEPT ![p] = "up"], [link EXCEPT ![p] = "dropped"]},
         tip' \in Base .. Top, best' \in [Peer -> 0 .. Top], lastCommon' \in [Peer -> -1 .. Top],
         message' # NoMessage => message'.block \in Block
  PROVE  DownloadInv'
<1>1. Known \subseteq Known' /\ link' \in [Peer -> {"new", "up", "dropped", "gone"}]
  BY Zenon, KnownKept DEF DownloadInv
<1>2. Agrees(dl') /\ \A q \in Peer : dl'.queue[q] # {} => q \in Known'
  BY Zenon, <1>1 DEF Kept
<1> QED BY Zenon, <1>1, <1>2 DEF DownloadInv

\* A peer is known to have a block.
LEMMA BestKept ==
  ASSUME DownloadInv, NEW p \in Peer, NEW b \in Block, UpdateBlockAvailability(p, b)
  PROVE  best' \in [Peer -> 0 .. Top]
<1>1. best \in [Peer -> 0 .. Top] /\ b \in 0 .. Top
  BY DownloadAssumption DEF DownloadInv, Block
<1>2. Greatest(best[p], b) \in 0 .. Top
  BY <1>1 DEF Greatest
<1>3. best' = [best EXCEPT ![p] = Greatest(best[p], b)]
  BY Zenon DEF UpdateBlockAvailability
<1> DEFINE H == 0 .. Top
<1>4. best \in [Peer -> H] /\ Greatest(best[p], b) \in H
  BY Zenon, <1>1, <1>2
<1> HIDE DEF H
<1>5. best' \in [Peer -> H]
  BY Zenon, <1>3, <1>4
<1> QED BY Zenon, <1>5 DEF H

\* A compact block, in whatever way it is handled.
LEMMA CmpctKeeps ==
  ASSUME DownloadInv, NEW p \in Peer, NEW b \in Block, NEW direct, NEW outcome,
         CmpctBlock(p, b, direct, outcome)
  PROVE  DownloadInv'
<1>1. /\ link[p] = "up" /\ message = NoMessage /\ best' \in [Peer -> 0 .. Top]
      /\ tip' = tip /\ lastCommon' = lastCommon
  BY Zenon, BestKept DEF CmpctBlock, Handling
<1>2. Kept(dl) /\ link \in [Peer -> {"new", "up", "dropped", "gone"}] /\ p \in Known
  BY Zenon, <1>1 DEF DownloadInv, Kept, Known
<1>3. /\ Kept(dl') /\ link' \in {link, [link EXCEPT ![p] = "dropped"]}
      /\ message' = message \/ message'.block \in Block
  <2>1. CASE UNCHANGED <<link, dl, message>>
    BY Zenon, <1>2, <2>1
  <2>2. CASE DirectFetch(p, b) /\ UNCHANGED <<link, message>>
    BY Zenon, <1>1, <2>2, FetchKeeps
  <2>3. CASE /\ IF InFlight(dl, b) THEN dl.from[b] = p ELSE direct /\ dl.n[p] < MaxInTransit
             /\ \/ Fill(p, b, MarkPartial(dl, p, b), outcome)
                \/ dl' = MarkPartial(dl, p, b) /\ UNCHANGED <<link, message>>
    <3>1. dl.from[b] \in {p, NoPeer}
      BY Zenon, <2>3 DEF InFlight
    <3> DEFINE e == MarkPartial(dl, p, b)
    <3>2. Agrees(e) /\ \A q \in Peer \ {p} : e.queue[q] = dl.queue[q]
      BY Zenon, <1>2, <3>1, PartialAgrees DEF Kept
    <3> HIDE DEF e
    <3>3. Kept(e)
      BY Zenon, <1>2, <3>2 DEF Kept
    <3>4. CASE Fill(p, b, e, outcome)
      BY Zenon, <1>1, <1>2, <3>3, <3>4, FillKeeps
    <3>5. CASE dl' = e /\ UNCHANGED <<link, message>>
      BY Zenon, <3>3, <3>5
    <3> QED BY Zenon, <2>3, <3>4, <3>5 DEF e
  <2>4. CASE UNCHANGED <<link, dl>> /\ (Give(p, b, TRUE) \/ UNCHANGED message)
    <3>1. message' = message \/ message'.block = b
      BY <2>4 DEF Give
    <3> QED BY Zenon, <1>2, <2>4, <3>1
  <2> QED BY Zenon, <2>1, <2>2, <2>3, <2>4 DEF CmpctBlock
<1>4. /\ tip' \in Base .. Top /\ lastCommon' \in [Peer -> -1 .. Top]
      /\ message' # NoMessage => message'.block \in Block
  BY Zenon, <1>1, <1>3 DEF DownloadInv
<1> QED BY Zenon, <1>1, <1>3, <1>4, InvKept

\* The new tip is the highest block that all blocks below are there for.
LEMMA TipKept ==
  ASSUME tip \in Base .. Top, NEW S,
         tip' = CHOOSE h \in tip..Top : /\ h = tip \/ 1..h \subseteq S
                                       /\ \A k \in (h + 1)..Top : ~(1..k \subseteq S)
  PROVE  tip' \in Base .. Top
<1> DEFINE R == {h \in tip..Top : h = tip \/ 1..h \subseteq S}
           P(h) == /\ h = tip \/ 1..h \subseteq S
                   /\ \A k \in (h + 1)..Top : ~(1..k \subseteq S)
<1>1. tip \in Int /\ Top \in Int /\ Base \in Int /\ Base <= tip /\ tip <= Top
  BY DownloadAssumption
<1>2. IsFiniteSet(tip..Top)
  BY <1>1, FS_Interval
<1>3. R \in SUBSET Int /\ R # {} /\ IsFiniteSet(R)
  <2>1. R \subseteq tip..Top /\ tip \in R
    BY <1>1
  <2>2. \A x \in tip..Top : x \in Int
    BY <1>1
  <2> HIDE DEF R
  <2> QED BY Zenon, <1>2, <2>1, <2>2, FS_Subset
<1>4. PICK m \in R : \A x \in R : m >= x
  <2> HIDE DEF R
  <2> QED BY Zenon, <1>3, MaxFound
<1>5. m \in tip..Top /\ P(m)
  <2>1. m \in tip..Top /\ (m = tip \/ 1..m \subseteq S)
    BY Zenon, <1>4
  <2>2. ASSUME NEW k \in (m + 1)..Top, 1..k \subseteq S PROVE FALSE
    <3>1. k \in tip..Top /\ ~(m >= k)
      BY <1>1, <2>1
    <3>2. k \in R
      BY Zenon, <2>2, <3>1
    <3> QED BY Zenon, <1>4, <3>1, <3>2
  <2> QED BY Zenon, <2>1, <2>2
<1>6. tip' \in tip..Top
  <2>1. tip' = CHOOSE h \in tip..Top : P(h)
    BY Zenon
  <2> HIDE DEF P
  <2> QED BY Zenon, <1>5, <2>1
<1> QED BY <1>1, <1>6

\* Every step keeps the invariant.
LEMMA DownloadStep ==
  ASSUME DownloadInv, Next
  PROVE  DownloadInv'
<1>k. /\ Kept(dl) /\ link \in [Peer -> {"new", "up", "dropped", "gone"}]
      /\ tip \in Base .. Top /\ best \in [Peer -> 0 .. Top]
      /\ lastCommon \in [Peer -> -1 .. Top]
      /\ message # NoMessage => message.block \in Block
  BY Zenon DEF DownloadInv, Kept
<1>1. ASSUME NEW p \in Peer, InitializeNode(p) \/ Disconnect(p) PROVE DownloadInv'
  <2>1. /\ link' \in {link, [link EXCEPT ![p] = "up"], [link EXCEPT ![p] = "dropped"]}
        /\ dl' = dl /\ tip' = tip /\ best' = best /\ lastCommon' = lastCommon
        /\ message' = message
    BY Zenon, <1>1 DEF InitializeNode, Disconnect
  <2> QED BY Zenon, <1>k, <2>1, InvKept
<1>2. ASSUME NEW p \in Peer, FinalizeNode(p) PROVE DownloadInv'
  <2> DEFINE e == FinalizeBlocks(dl, p)
  <2>1. /\ Agrees(e) /\ e.queue[p] = {} /\ \A q \in Peer \ {p} : e.queue[q] = dl.queue[q]
    BY Zenon, <1>k, FinalizeAgrees DEF Kept
  <2>2. /\ link' = [link EXCEPT ![p] = "gone"] /\ dl' = e /\ tip' = tip /\ best' = best
        /\ lastCommon' = lastCommon /\ message' = message
    BY Zenon, <1>2 DEF FinalizeNode
  <2> HIDE DEF e
  <2>3. link' \in [Peer -> {"new", "up", "dropped", "gone"}] /\ \A q \in Known \ {p} : q \in Known'
    BY <1>k, <2>2 DEF Known
  <2>4. \A q \in Peer : dl'.queue[q] # {} => q \in Known'
    BY Zenon, <1>k, <2>1, <2>2, <2>3 DEF Kept
  <2> QED BY Zenon, <1>k, <2>1, <2>2, <2>3, <2>4 DEF DownloadInv
<1>3. ASSUME NEW p \in Peer, SendMessages(p) PROVE DownloadInv'
  <2>1. /\ link[p] = "up" /\ SendGetData(p) /\ link' = link /\ tip' = tip /\ best' = best
        /\ message' = message
    BY Zenon, <1>3 DEF SendMessages, Handling
  <2>2. Kept(dl') /\ lastCommon' \in [Peer -> -1 .. Top]
    BY Zenon, <2>1, SendKeeps
  <2> QED BY Zenon, <1>k, <2>1, <2>2, InvKept
<1>4. ASSUME NEW p \in Peer, NEW b \in Block, NEW direct, Headers(p, b, direct) PROVE DownloadInv'
  <2>1. /\ link[p] = "up" /\ link' = link /\ tip' = tip /\ lastCommon' = lastCommon
        /\ message' = message /\ best' \in [Peer -> 0 .. Top]
    BY Zenon, <1>4, BestKept DEF Headers, Handling
  <2>2. Kept(dl')
    BY Zenon, <1>k, <1>4, <2>1, FetchKeeps DEF Headers
  <2> QED BY Zenon, <1>k, <2>1, <2>2, InvKept
<1>5. ASSUME NEW p \in Peer, NEW b \in Block, BlockMessage(p, b) PROVE DownloadInv'
  <2>1. /\ link' = link /\ tip' = tip /\ lastCommon' = lastCommon /\ best' = best
        /\ dl' = MarkBlockAsReceived(dl, b)
    BY Zenon, <1>5 DEF BlockMessage
  <2>2. message'.block = b
    BY <1>5 DEF BlockMessage
  <2>3. Kept(dl')
    BY Zenon, <1>k, <2>1, ReceiveKeeps
  <2> QED BY Zenon, <1>k, <2>1, <2>2, <2>3, InvKept
<1>6. ASSUME NEW p \in Peer, NEW b \in Block, NEW outcome, BlockTxn(p, b, outcome) PROVE DownloadInv'
  <2>1. /\ link[p] = "up" /\ tip' = tip /\ lastCommon' = lastCommon /\ best' = best
        /\ Fill(p, b, dl, outcome)
    BY Zenon, <1>6 DEF BlockTxn, Handling
  <2>2. /\ Kept(dl') /\ link' \in {link, [link EXCEPT ![p] = "dropped"]}
        /\ message' = message \/ message'.block \in Block
    BY Zenon, <1>k, <2>1, FillKeeps
  <2> QED BY Zenon, <1>k, <2>1, <2>2, InvKept
<1>7. ASSUME NEW p \in Peer, StallOrTimeout(p) PROVE DownloadInv'
  <2>1. /\ link' = [link EXCEPT ![p] = "dropped"] /\ dl' = dl /\ tip' = tip /\ best' = best
        /\ lastCommon' = lastCommon /\ message' = message
    BY Zenon, <1>7 DEF StallOrTimeout
  <2> QED BY Zenon, <1>k, <2>1, InvKept
<1>8. ASSUME NEW p \in Peer, BlockEvent(p) PROVE DownloadInv'
  BY Zenon, <1>4, <1>5, <1>6, <1>7, <1>8, CmpctKeeps DEF BlockEvent
<1>9. CASE Accept
  <2>1. /\ link' = link /\ best' = best /\ lastCommon' = lastCommon /\ message' = NoMessage
        /\ message.block \in Block
        /\ dl' = dl \/ dl' = MarkBlockAsReceived(dl, message.block)
    BY Zenon, <1>k, <1>9 DEF Accept, ProcessNewBlock
  <2>2. Kept(dl')
    BY Zenon, <1>k, <2>1, ReceiveKeeps
  <2>3. tip' \in Base .. Top
    <3>1. tip' = CHOOSE h \in tip..Top : /\ h = tip \/ 1..h \subseteq have'
                                        /\ \A k \in (h + 1)..Top : ~(1..k \subseteq have')
      BY Zenon, <1>9 DEF Accept, ProcessNewBlock
    <3> QED BY Zenon, <1>k, <3>1, TipKept
  <2>4. Known' = Known
    BY Zenon, <2>1 DEF Known
  <2> QED BY Zenon, <1>k, <2>1, <2>2, <2>3, <2>4 DEF DownloadInv, Kept
<1>10. CASE UNCHANGED downloadVars
  BY Zenon, <1>10 DEF DownloadInv, downloadVars, Known
<1>11. ASSUME NEW p \in Peer, TxEvent(p) PROVE DownloadInv'
  <2>1. UNCHANGED downloadVars
    BY Zenon, <1>11 DEF TxEvent, Inv, TxMessage, Orphan, NotFound
  <2> QED BY Zenon, <1>10, <2>1
<1>12. CASE Time \/ \E t \in Tx : SyncTransaction(t) \/ LoseTx(t)
  <2>1. UNCHANGED downloadVars
    BY Zenon, <1>12 DEF Time, SyncTransaction, LoseTx
  <2> QED BY Zenon, <1>10, <2>1
<1> QED BY Zenon, <1>1, <1>2, <1>3, <1>8, <1>9, <1>11, <1>12 DEF Next

\* Before the first connection nothing is in flight.
LEMMA DownloadStart == Init => DownloadInv
<1> SUFFICES ASSUME Init PROVE DownloadInv
  OBVIOUS
<1>1. /\ link = [p \in Peer |-> "new"] /\ (tip = Top \/ tip = Base)
      /\ best = [p \in Peer |-> 0] /\ lastCommon = [p \in Peer |-> -1]
      /\ dl = [from |-> [b \in Block |-> NoPeer], queue |-> [p \in Peer |-> {}],
               n |-> [p \in Peer |-> 0], stalls |-> {}, partial |-> {}, loading |-> 0,
               null |-> FALSE]
      /\ message = NoMessage
  BY Zenon DEF Init, DownloadInitAt
<1>2. /\ dl.from = [b \in Block |-> NoPeer] /\ dl.queue = [p \in Peer |-> {}]
      /\ dl.n = [p \in Peer |-> 0] /\ dl.stalls = {} /\ dl.partial = {} /\ dl.loading = 0
      /\ dl.null = FALSE /\ dl \in Tables
  BY <1>1 DEF Tables
<1>3. Loading(dl.n) = 0
  <2>1. {p \in Peer : dl.n[p] > 0} = {}
    BY <1>2
  <2> QED BY Zenon, <2>1, FS_EmptySet DEF Loading
<1>4. \A p \in Peer : dl.n[p] = Cardinality(dl.queue[p])
  BY <1>2, FS_EmptySet
<1>5. \A b \in Block, p \in Peer : dl.from[b] = p <=> b \in dl.queue[p]
  BY <1>2, DownloadAssumption
<1>6. Agrees(dl)
  BY Zenon, <1>2, <1>3, <1>4, <1>5 DEF Agrees
<1>7. /\ link \in [Peer -> {"new", "up", "dropped", "gone"}] /\ tip \in Base .. Top
      /\ best \in [Peer -> 0 .. Top] /\ lastCommon \in [Peer -> -1 .. Top]
  BY <1>1, DownloadAssumption
<1> QED BY Zenon, <1>1, <1>2, <1>6, <1>7 DEF DownloadInv

\* The invariant holds in every state.
LEMMA DownloadInvariant == Spec => []DownloadInv
<1>1. DownloadInv /\ UNCHANGED vars => DownloadInv'
  BY Zenon DEF vars, downloadVars, DownloadInv, Known
<1>2. DownloadInv /\ [Next]_vars => DownloadInv'
  BY Zenon, <1>1, DownloadStep
<1> QED BY <1>2, DownloadStart, PTL DEF Spec

\* mapBlocksInFlight, the queues of the peers and the counters describe one set of
\* requests (TablesAgree), however the peers come and go, answer and withhold.
THEOREM TablesTheorem == Spec => []TablesAgree
<1>1. DownloadInv => TablesAgree
  BY Zenon DEF DownloadInv, Agrees, Loading, TablesAgree
<1> QED BY <1>1, DownloadInvariant, PTL

\* A peer whose stall clock runs owes a block (StallersOwe).
THEOREM StallersTheorem == Spec => []StallersOwe
<1>1. DownloadInv => StallersOwe
  BY Zenon DEF DownloadInv, Agrees, StallersOwe
<1> QED BY <1>1, DownloadInvariant, PTL

-----------------------------------------------------------------------------
(* Requests last *)

\* What RequestsLast says of a step.
Lasting == \A b \in Block : InFlight(dl, b) /\ dl'.from[b] # dl.from[b] => RequestEnds(b)

\* A block is in flight from the peer whose queue it is in.
LEMMA Owner ==
  ASSUME NEW d, Agrees(d), NEW b \in Block
  PROVE  d.from[b] \in Peer \cup {NoPeer} /\ \A q \in Peer : d.from[b] = q <=> b \in d.queue[q]
<1>1. d.from \in [Block -> Peer \cup {NoPeer}]
  BY Zenon, AgreesTypes
<1>2. d.from[b] \in Peer \cup {NoPeer}
  BY Zenon, <1>1
<1> QED BY Zenon, <1>2 DEF Agrees

\* A block in flight is owed by one peer, and stays in flight from it while nothing
\* that is owed is forgotten.
LEMMA GrowsLasts ==
  ASSUME NEW d, Agrees(d), NEW e, Agrees(e), Grows(d, e), NEW b \in Block, InFlight(d, b)
  PROVE  e.from[b] = d.from[b]
<1>1. d.from[b] \in Peer
  BY Zenon, Owner DEF InFlight
<1>2. b \in d.queue[d.from[b]]
  BY Zenon, <1>1, Owner
<1>3. b \in e.queue[d.from[b]]
  BY Zenon, <1>1, <1>2 DEF Grows
<1>4. \A q \in Peer : e.from[b] = q <=> b \in e.queue[q]
  BY Zenon, Owner
<1> QED BY Zenon, <1>1, <1>3, <1>4

\* The tables e are d without a request for b.
Freed(d, e, b) == e.from[b] = NoPeer /\ \A c \in Block \ {b} : e.from[c] = d.from[c]

\* One block is received.
LEMMA ReceivedFrom ==
  ASSUME NEW d, Agrees(d), NEW b \in Block
  PROVE  Freed(d, MarkBlockAsReceived(d, b), b)
<1> DEFINE e == MarkBlockAsReceived(d, b)
<1>1. e.from = [d.from EXCEPT ![b] = NoPeer]
  BY Zenon, ReceivedAgrees
<1>2. d.from \in [Block -> Peer \cup {NoPeer}]
  BY Zenon, AgreesTypes
<1> HIDE DEF e
<1>3. Freed(d, e, b)
  BY Zenon, <1>1, <1>2 DEF Freed
<1> QED BY Zenon, <1>3 DEF e

\* FillBlock ends at most the request for b of p.
LEMMA FillLasts ==
  ASSUME Agrees(dl), link \in [Peer -> {"new", "up", "dropped", "gone"}],
         NEW p \in Peer, NEW b \in Block, NEW d, Agrees(d), Grows(dl, d),
         dl.from[b] \in {p, NoPeer}, NEW outcome, Fill(p, b, d, outcome)
  PROVE  Lasting
<1>1. \A c \in Block : InFlight(dl, c) => d.from[c] = dl.from[c]
  BY Zenon, GrowsLasts
<1>2. CASE dl' = d
  BY Zenon, <1>1, <1>2 DEF Lasting
<1>3. CASE /\ dl' = MarkBlockAsReceived(d, b)
           /\ Give(p, b, FALSE) \/ link' = [link EXCEPT ![p] = "dropped"]
  <2>1. Freed(d, dl', b)
    BY Zenon, <1>3, ReceivedFrom
  <2>2. message'.block = b \/ link'[p] = "dropped"
    BY <1>3 DEF Give
  <2>3. InFlight(dl, b) => RequestEnds(b)
    BY Zenon, <2>1, <2>2 DEF InFlight, RequestEnds, Freed
  <2> QED BY Zenon, <1>1, <2>1, <2>3 DEF Lasting, Freed
<1> QED BY Zenon, <1>2, <1>3 DEF Fill

\* Every step lets requests last.
LEMMA LastingStep ==
  ASSUME DownloadInv, Next
  PROVE  Lasting
<1>k. /\ Kept(dl) /\ Agrees(dl) /\ link \in [Peer -> {"new", "up", "dropped", "gone"}]
      /\ message # NoMessage => message.block \in Block
  BY Zenon DEF DownloadInv, Kept
<1>0. CASE dl' = dl
  BY Zenon, <1>0 DEF Lasting
<1>1. CASE Kept(dl') /\ Grows(dl, dl')
  BY Zenon, <1>k, <1>1, GrowsLasts DEF Kept, Lasting
<1>2. ASSUME NEW p \in Peer, FinalizeNode(p) PROVE Lasting
  <2> DEFINE e == FinalizeBlocks(dl, p)
  <2>1. /\ Agrees(e) /\ e.queue[p] = {} /\ \A q \in Peer \ {p} : e.queue[q] = dl.queue[q]
    BY Zenon, <1>k, FinalizeAgrees
  <2>2. link' = [link EXCEPT ![p] = "gone"] /\ dl' = e
    BY Zenon, <1>2 DEF FinalizeNode
  <2> HIDE DEF e
  <2>3. link'[p] = "gone"
    BY Zenon, <1>k, <2>2
  <2>4. ASSUME NEW b \in Block, InFlight(dl, b), dl'.from[b] # dl.from[b] PROVE RequestEnds(b)
    <3>1. dl.from[b] \in Peer /\ \A q \in Peer : dl.from[b] = q <=> b \in dl.queue[q]
      BY Zenon, <1>k, <2>4, Owner DEF InFlight
    <3>2. /\ e.from[b] \in Peer \cup {NoPeer} /\ e.from[b] # dl.from[b]
          /\ \A q \in Peer : e.from[b] = q <=> b \in e.queue[q]
      BY Zenon, <2>1, <2>2, <2>4, Owner
    <3>3. dl.from[b] = p
      BY Zenon, <2>1, <3>1, <3>2
    <3>4. e.from[b] \notin Peer
      BY Zenon, <2>1, <3>1, <3>2, <3>3
    <3> QED BY Zenon, <2>2, <2>3, <3>2, <3>3, <3>4 DEF RequestEnds
  <2> QED BY Zenon, <2>4 DEF Lasting
<1>3. ASSUME NEW p \in Peer, SendMessages(p) PROVE Lasting
  BY Zenon, <1>1, <1>3, SendKeeps DEF SendMessages, Handling
<1>4. ASSUME NEW p \in Peer, NEW b \in Block, NEW direct, Headers(p, b, direct) PROVE Lasting
  BY Zenon, <1>0, <1>1, <1>4, FetchKeeps DEF Headers, Handling
<1>5. ASSUME NEW p \in Peer, NEW b \in Block, BlockMessage(p, b) PROVE Lasting
  <2>1. Freed(dl, dl', b)
    BY Zenon, <1>k, <1>5, ReceivedFrom DEF BlockMessage
  <2>2. message'.block = b
    BY <1>5 DEF BlockMessage
  <2> QED BY Zenon, <2>1, <2>2 DEF Lasting, RequestEnds, Freed
<1>6. ASSUME NEW p \in Peer, NEW b \in Block, NEW outcome, BlockTxn(p, b, outcome) PROVE Lasting
  <2>1. Fill(p, b, dl, outcome) /\ dl.from[b] = p
    BY Zenon, <1>6 DEF BlockTxn
  <2>2. Grows(dl, dl)
    BY Zenon DEF Grows
  <2> QED BY Zenon, <1>k, <2>1, <2>2, FillLasts
<1>7. ASSUME NEW p \in Peer, NEW b \in Block, NEW direct, NEW outcome,
             CmpctBlock(p, b, direct, outcome)
      PROVE  Lasting
  <2>1. link[p] = "up"
    BY Zenon, <1>7 DEF CmpctBlock, Handling
  <2>2. CASE DirectFetch(p, b)
    BY Zenon, <1>1, <2>1, <2>2, FetchKeeps
  <2>3. CASE /\ IF InFlight(dl, b) THEN dl.from[b] = p ELSE direct /\ dl.n[p] < MaxInTransit
             /\ \/ Fill(p, b, MarkPartial(dl, p, b), outcome)
                \/ dl' = MarkPartial(dl, p, b)
    <3>1. dl.from[b] \in {p, NoPeer}
      BY Zenon, <2>3 DEF InFlight
    <3> DEFINE e == MarkPartial(dl, p, b)
    <3>2. Agrees(e) /\ Grows(dl, e)
      BY Zenon, <1>k, <3>1, PartialAgrees
    <3> HIDE DEF e
    <3>3. CASE Fill(p, b, e, outcome)
      BY Zenon, <1>k, <3>1, <3>2, <3>3, FillLasts
    <3>4. CASE dl' = e
      BY Zenon, <1>k, <3>2, <3>4, GrowsLasts DEF Lasting
    <3> QED BY Zenon, <2>3, <3>3, <3>4 DEF e
  <2> QED BY Zenon, <1>0, <1>7, <2>2, <2>3 DEF CmpctBlock
<1>8. ASSUME NEW p \in Peer, BlockEvent(p) PROVE Lasting
  <2>1. StallOrTimeout(p) => Lasting
    BY Zenon, <1>0 DEF StallOrTimeout
  <2> QED BY Zenon, <1>4, <1>5, <1>6, <1>7, <1>8, <2>1 DEF BlockEvent
<1>9. CASE Accept
  <2>1. CASE dl' = MarkBlockAsReceived(dl, message.block) /\ message.block \in have'
             /\ message.block \in Block
    <3>1. Freed(dl, dl', message.block)
      BY Zenon, <1>k, <2>1, ReceivedFrom
    <3> QED BY Zenon, <2>1, <3>1 DEF Lasting, RequestEnds, Freed
  <2> QED BY Zenon, <1>k, <1>0, <1>9, <2>1 DEF Accept, ProcessNewBlock
<1>10. ASSUME NEW p \in Peer, InitializeNode(p) \/ Disconnect(p) \/ TxEvent(p) PROVE Lasting
  BY Zenon, <1>0, <1>10
  DEF InitializeNode, Disconnect, TxEvent, Inv, TxMessage, Orphan, NotFound, downloadVars
<1>11. CASE Time \/ \E t \in Tx : SyncTransaction(t) \/ LoseTx(t)
  BY Zenon, <1>0, <1>11 DEF Time, SyncTransaction, LoseTx, downloadVars
<1> QED BY Zenon, <1>2, <1>3, <1>8, <1>9, <1>10, <1>11 DEF Next

\* A request for a block ends only with the block in hand or with the peer that owes it
\* given up, and never moves from one peer to another (RequestsLast).
THEOREM RequestsTheorem == Spec => RequestsLast
<1>1. DownloadInv /\ [Next]_vars => [Lasting]_downloadVars
  BY Zenon, LastingStep DEF vars
<1> QED BY <1>1, DownloadInvariant, PTL DEF Spec, RequestsLast, Lasting
=============================================================================
