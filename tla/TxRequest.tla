----------------------------- MODULE TxRequest -----------------------------
(***************************************************************************)
(* TxRequestTracker (txrequest.cpp): which peer a transaction announced by *)
(* several is asked of, one at a time and in turn.  An announcement is a   *)
(* pair of a peer and a transaction.  m_time is kept as the time that is   *)
(* left until it; the order of requests in a message (m_sequence) and the  *)
(* counters of m_peerinfo (here the numbers they count) are left out.      *)
(***************************************************************************)
EXTENDS Integers, FiniteSets, FiniteSetsExt

CONSTANTS
  TxPeer,      \* the peers that announce transactions
  Tx,
  Outbound,    \* peers with fPreferredDownload
  Priority,    \* PriorityComputer
  MaxAnnounce, \* MAX_PEER_TX_ANNOUNCEMENTS
  MaxRequests, \* MAX_PEER_TX_IN_FLIGHT
  Delay,       \* NONPREF_PEER_TX_DELAY and OVERLOADED_PEER_TX_DELAY
  Expiry       \* GETDATA_TX_INTERVAL

Ann == TxPeer \X Tx

\* Preferred peers come first; no two peers have the same priority.
ASSUME TrackerAssumption ==
  /\ IsFiniteSet(TxPeer) /\ IsFiniteSet(Tx)
  /\ Priority \in [Ann -> Nat] /\ Outbound \subseteq TxPeer
  /\ \A p, q \in TxPeer, t \in Tx :
       /\ p # q => Priority[p, t] # Priority[q, t]
       /\ p \in Outbound /\ q \notin Outbound => Priority[p, t] > Priority[q, t]
  /\ MaxAnnounce \in Nat /\ MaxRequests \in Nat /\ Delay \in Nat /\ Expiry \in Nat \ {0}

VARIABLES
  tracker, \* m_index: the state of every announcement
  left     \* m_time - now, for announcements that wait; 0 once it has passed

State == {"none", "delayed", "ready", "best", "requested", "completed"}
TrackerInit ==
  /\ tracker = [a \in Ann |-> "none"]
  /\ left = [a \in Ann |-> 0]

\* The announcements of transaction t in one of the states S.
Of(k, t, S) == {a \in Ann : a[2] = t /\ k[a] \in S}
Selected == {"best", "requested"}
Waiting == {"requested", "delayed"}
One(b) == IF b THEN 1 ELSE 0
Highest(A) == CHOOSE a \in A : \A b \in A : Priority[b] <= Priority[a]
Number(k, p, S) == Cardinality({t \in Tx : k[<<p, t>>] \in S})

-----------------------------------------------------------------------------
(* The index *)

Modify(k, a, s) == [k EXCEPT ![a] = s]
EraseAll(k, A) == [a \in Ann |-> IF a \in A THEN "none" ELSE k[a]]

\* The successor in the ByTxHash index is a better READY, the BEST, the REQUESTED,
\* or none of them.
PromoteCandidateReady(k, a) ==
  LET r == Modify(k, a, "ready")
      t == a[2]
      better == {b \in Of(r, t, {"ready"}) : Priority[b] > Priority[a]}
      top == Of(r, t, {"best"})
  IN IF better # {} THEN r
     ELSE IF Of(r, t, Selected) = {} THEN Modify(r, a, "best")
     ELSE IF top # {} /\ \A b \in top : Priority[a] > Priority[b]
          THEN [b \in Ann |-> IF b = a THEN "best" ELSE IF b \in top THEN "ready" ELSE r[b]]
     ELSE r

\* Mutant: no other announcement is selected.
ChangeOnly(k, a, s) == Modify(k, a, s)
ChangeAndReselect(k, a, s) ==
  LET ready == Of(k, a[2], {"ready"})
  IN Modify(IF k[a] \in Selected /\ ready # {} THEN Modify(k, Highest(ready), "best") ELSE k,
            a, s)

IsOnlyNonCompleted(k, a) == Of(k, a[2], State \ {"none", "completed"}) = {a}

MakeCompleted(k, a) ==
  IF k[a] = "completed" THEN k
  ELSE IF IsOnlyNonCompleted(k, a) THEN EraseAll(k, Of(k, a[2], State \ {"none"}))
  ELSE ChangeAndReselect(k, a, "completed")

\* Mutant: a request is waited for without end.
PassWaiting(a, k) == IF k[a] = "delayed" THEN PromoteCandidateReady(k, a) ELSE k

\* SetTimePoint: one announcement whose time has come, and one whose time has been
\* put off by a clock that was set back.  The order in which they are taken makes no
\* difference: the best READY announcement ends up selected.
Pass(a, k) == IF k[a] = "delayed" THEN PromoteCandidateReady(k, a)
              ELSE IF k[a] = "requested" THEN MakeCompleted(k, a) ELSE k
PutOff(a, k) == ChangeAndReselect(k, a, "delayed")
SetTimePoint(k) ==
  LET due == {a \in Ann : k[a] \in Waiting /\ left[a] = 0}
      early == {a \in Ann : k[a] \in {"ready", "best"} /\ left[a] > 0}
  IN FoldSet(PutOff, FoldSet(Pass, k, due), early)

-----------------------------------------------------------------------------
(* Operations *)

DisconnectedPeer(k, p) ==
  FoldSet(LAMBDA a, j : Modify(MakeCompleted(j, a), a, "none"), k,
          {a \in Ann : a[1] = p /\ k[a] # "none"})

\* ForgetTxHash, for every transaction of T.
ForgetTxHash(k, T) == EraseAll(k, {a \in Ann : a[2] \in T})

\* AddTxAnnouncement and ReceivedInv: the tracker, and the time until the request.
Ignored(k, p, t) ==
  Number(k, p, State \ {"none"}) >= MaxAnnounce \/ k[<<p, t>>] # "none"
AddTxAnnouncement(k, p, t) ==
  IF Ignored(k, p, t) THEN k ELSE [k EXCEPT ![<<p, t>>] = "delayed"]
ReqTime(k, p, t) ==
  IF Ignored(k, p, t) THEN left
  ELSE [left EXCEPT ![<<p, t>>] =
          Delay * (One(p \notin Outbound) + One(Number(k, p, {"requested"}) >= MaxRequests))]

Requestable(k, p) == {t \in Tx : k[<<p, t>>] = "best"}

\* RequestedTx, for every transaction of T; GetRequestable has just returned them.
RequestedTx(k, p, T) == [a \in Ann |-> IF a[1] = p /\ a[2] \in T THEN "requested" ELSE k[a]]

ReceivedResponse(k, p, t) == IF k[<<p, t>>] = "none" THEN k ELSE MakeCompleted(k, <<p, t>>)

\* Announcements that are gone, or need no time any more, have no time left.
Times(k, f) == [a \in Ann |-> IF k[a] \in {"none", "completed"} THEN 0 ELSE f[a]]

\* SendMessages: the getdata for transactions; the ones in Have are not wanted.
RequestTxs(p, Have) ==
  \E k \in {SetTimePoint(tracker)} :
    LET asked == Requestable(k, p) \ Have
    IN /\ tracker' = RequestedTx(ForgetTxHash(k, Requestable(k, p) \cap Have), p, asked)
       /\ left' = Times(tracker', [a \in Ann |-> IF a[1] = p /\ a[2] \in asked THEN Expiry
                                                 ELSE left[a]])

\* Time passes.
Tick ==
  /\ \E a \in Ann : left[a] > 0
  /\ left' = [a \in Ann |-> IF left[a] > 0 THEN left[a] - 1 ELSE 0]
  /\ UNCHANGED tracker

\* The clock is set back: what had become due only now is not due any more.
ClockBack(back) ==
  /\ back \subseteq {a \in Ann : tracker[a] \notin {"none", "completed"} /\ left[a] = 0}
  /\ back # {}
  /\ left' = [a \in Ann |-> IF left[a] > 0 \/ a \in back THEN left[a] + 1 ELSE 0]
  /\ UNCHANGED tracker

-----------------------------------------------------------------------------
(* Properties *)

\* SanityCheck: a transaction is asked of one peer at a time; if a peer could be
\* asked, one is selected, and it is the best; and announcements do not outlive the
\* last one that can still be asked.
SanityCheck ==
  \A t \in Tx :
    /\ Cardinality(Of(tracker, t, Selected)) <= 1
    /\ Of(tracker, t, {"ready"}) # {} => Of(tracker, t, Selected) # {}
    /\ \A a \in Of(tracker, t, {"best"}), b \in Of(tracker, t, {"ready"}) :
         Priority[a] > Priority[b]
    /\ Of(tracker, t, {"completed"}) # {} => Of(tracker, t, State \ {"none", "completed"}) # {}
=============================================================================
