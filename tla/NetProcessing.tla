--------------------------- MODULE NetProcessing ---------------------------
(***************************************************************************)
(* The peer logic of net_processing.cpp: the block download tables and the *)
(* transaction request tracker behind InitializeNode, ProcessMessages,     *)
(* SendMessages and FinalizeNode.  Bound: a behaviour is that of a node    *)
(* that fetches blocks and ignores transactions (initial block download),  *)
(* or of one that has the blocks and fetches transactions.                 *)
(***************************************************************************)
EXTENDS BlockDownload, TxRequest

CONSTANT MaxBack \* bound on how often the clock is set back

ASSUME PeersAssumption ==
  TxPeer = Peer /\ Outbound = Preferred /\ MaxBack \in Nat

VARIABLES
  synced, \* transactions are fetched, not blocks
  txHave, \* AlreadyHave: in the pool, an orphan, rejected lately, or in a block
  txAsked,\* transactions asked of each peer on the wire and not yet answered
  backs   \* how often the clock was set back

txVars == <<tracker, left, txHave, txAsked, backs>>
vars == <<downloadVars, txVars, synced>>

Init ==
  /\ synced \in BOOLEAN
  /\ TrackerInit /\ txHave = {} /\ txAsked = {} /\ backs = 0
  /\ IF synced THEN DownloadInitAt(Block, Top) ELSE DownloadInitAt({}, Base)

InitializeNode(p) ==
  /\ link[p] = "new"
  /\ link' = [link EXCEPT ![p] = "up"]
  /\ UNCHANGED <<have, tip, best, lastCommon, dl, getdata, message, txVars>>

\* The connection breaks, or the peer is banned.
Disconnect(p) ==
  /\ link[p] = "up" /\ p \notin Honest
  /\ link' = [link EXCEPT ![p] = "dropped"]
  /\ UNCHANGED <<have, tip, best, lastCommon, dl, getdata, message, txVars>>

\* The socket thread deletes the node once the message handler has let go of it.
FinalizeNode(p) ==
  /\ link[p] = "dropped" /\ message.peer # p
  /\ link' = [link EXCEPT ![p] = "gone"]
  /\ dl' = FinalizeBlocks(dl, p)
  /\ tracker' = DisconnectedPeer(tracker, p) /\ left' = Times(tracker', left)
  /\ getdata' = [getdata EXCEPT ![p] = {}] /\ txAsked' = {a \in txAsked : a[1] # p}
  /\ UNCHANGED <<have, tip, best, lastCommon, message, txHave, backs>>

SendMessages(p) ==
  /\ Handling(p)
  /\ SendGetData(p)
  /\ RequestTxs(p, txHave)
  /\ txAsked' = txAsked \cup {a \in Ann : tracker'[a] = "requested" /\ tracker[a] # "requested"}
  /\ UNCHANGED <<link, have, tip, best, message, txHave, backs>>

BlockEvent(p) ==
  /\ ~synced
  /\ \/ \E b \in Block, direct \in BOOLEAN : Headers(p, b, direct)
     \/ \E b \in Block : BlockMessage(p, b)
     \/ \E b \in Block, outcome \in {"ok", "failed"} : BlockTxn(p, b, outcome)
     \/ \E b \in Block, direct \in BOOLEAN, outcome \in {"ok", "missing", "failed"} :
          CmpctBlock(p, b, direct, outcome)
     \/ /\ p \notin Honest
        /\ \/ \E b \in Block : BlockTxn(p, b, "invalid") \/ CmpctBlock(p, b, TRUE, "invalid")
           \/ StallOrTimeout(p)
  /\ UNCHANGED txVars

Accept == ProcessNewBlock /\ UNCHANGED txVars

\* inv
Inv(p, t) ==
  /\ link[p] = "up" /\ t \notin txHave
  /\ tracker' = AddTxAnnouncement(tracker, p, t) /\ left' = ReqTime(tracker, p, t)
  /\ UNCHANGED <<downloadVars, txHave, txAsked, backs>>

\* tx: it is kept (accepted, or rejected for good), or may have been altered on the
\* way, which says nothing of the transaction.
TxMessage(p, t, kept) ==
  /\ link[p] = "up"
  /\ tracker' = LET k == ReceivedResponse(tracker, p, t)
                IN IF kept THEN ForgetTxHash(k, {t}) ELSE k
  /\ left' = Times(tracker', left)
  /\ txHave' = IF kept THEN txHave \cup {t} ELSE txHave
  /\ txAsked' = txAsked \ {<<p, t>>}
  /\ UNCHANGED <<downloadVars, backs>>

\* tx: an orphan is kept, and its missing parent is announced by the peer.
Orphan(p, t, parent) ==
  /\ link[p] = "up" /\ t # parent /\ {t, parent} \cap txHave = {}
  /\ LET k == ReceivedResponse(tracker, p, t)
     IN /\ tracker' = ForgetTxHash(AddTxAnnouncement(k, p, parent), {t})
        /\ left' = Times(tracker', ReqTime(k, p, parent))
  /\ txHave' = txHave \cup {t}
  /\ txAsked' = txAsked \ {<<p, t>>}
  /\ UNCHANGED <<downloadVars, backs>>

NotFound(p, t) ==
  /\ link[p] = "up"
  /\ tracker' = ReceivedResponse(tracker, p, t) /\ left' = Times(tracker', left)
  /\ txAsked' = txAsked \ {<<p, t>>}
  /\ UNCHANGED <<downloadVars, txHave, backs>>

\* A transaction comes in a block; or it leaves the pool, the orphans or the filter
\* of rejected transactions.
SyncTransaction(t) ==
  /\ tracker' = ForgetTxHash(tracker, {t}) /\ left' = Times(tracker', left)
  /\ txHave' = txHave \cup {t}
  /\ UNCHANGED <<downloadVars, txAsked, backs>>
LoseTx(t) ==
  /\ t \in txHave
  /\ txHave' = txHave \ {t}
  /\ UNCHANGED <<downloadVars, tracker, left, txAsked, backs>>

Time ==
  \/ Tick /\ UNCHANGED <<downloadVars, txHave, txAsked, backs>>
  \/ /\ backs < MaxBack /\ backs' = backs + 1
     /\ \E back \in SUBSET Ann : ClockBack(back)
     /\ UNCHANGED <<downloadVars, txHave, txAsked>>

TxEvent(p) ==
  /\ synced
  /\ \E t \in Tx : \/ Inv(p, t)
                   \/ TxMessage(p, t, TRUE)
                   \/ \E parent \in Tx : Orphan(p, t, parent)
                   \/ p \notin Honest /\ (TxMessage(p, t, FALSE) \/ NotFound(p, t))

Next ==
  /\ \/ \E p \in Peer : \/ InitializeNode(p) \/ Disconnect(p) \/ FinalizeNode(p)
                        \/ SendMessages(p) \/ BlockEvent(p) \/ TxEvent(p)
     \/ Accept
     \/ synced /\ (Time \/ \E t \in Tx : SyncTransaction(t) \/ LoseTx(t))
  /\ UNCHANGED synced

Spec == Init /\ [][Next]_vars

-----------------------------------------------------------------------------
(* Fairness.  ThreadMessageHandler turns to every peer again and again, and the
   socket thread to every dropped connection; an honest peer answers what it is
   asked; every peer answers getheaders; a peer that does not deliver is timed
   out.  The handler works on one message at a time, which makes SendMessages and
   the arrivals wait for each other: strong fairness says that none is passed over. *)

Answers(p) ==
  \/ \E b \in Block : BlockMessage(p, b)
  \/ \E b \in Block : BlockTxn(p, b, "ok")
Blocks(A) == ~synced /\ A /\ UNCHANGED <<txVars, synced>>

FairSpec ==
  /\ Spec
  /\ WF_vars(Accept /\ UNCHANGED synced)
  /\ WF_vars(synced /\ Tick /\ UNCHANGED <<downloadVars, txHave, txAsked, backs, synced>>)
  /\ \A p \in Peer :
       /\ WF_vars(FinalizeNode(p) /\ UNCHANGED synced)
       /\ SF_vars(SendMessages(p) /\ UNCHANGED synced)
       /\ SF_vars(Blocks(\E direct \in BOOLEAN : Headers(p, Top, direct)))
  /\ \A p \in Peer \ Honest : SF_vars(Blocks(StallOrTimeout(p)))
  /\ \A p \in Honest :
       /\ SF_vars(Blocks(Answers(p)))
       /\ \A t \in Tx : WF_vars(/\ synced /\ <<p, t>> \in txAsked
                               /\ TxMessage(p, t, TRUE) /\ UNCHANGED synced)

-----------------------------------------------------------------------------
(* Properties *)

\* While an honest peer is connected the chain is completed at last, whatever the
\* other peers withhold (IBD with preferred peers, the rescue, the stall clock, the
\* timeout and FinalizeNode together).
AllFetched == \A p \in Honest : link[p] = "up" ~> tip = Top

\* A transaction an honest peer announced arrives, whoever
\* else announced it and does not answer (TxRequestTracker's turns).
TxArrives ==
  \A p \in Honest, t \in Tx :
    tracker[<<p, t>>] # "none" ~> t \in txHave
=============================================================================
