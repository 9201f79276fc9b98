--------------------------- MODULE BlockDownload ---------------------------
(***************************************************************************)
(* Which block is asked of which peer: the tables of net_processing.cpp    *)
(* (mapBlocksInFlight and the per-peer queue and counters), the choice of  *)
(* the next blocks, the stall detector, and the messages that deliver      *)
(* blocks.  The headers form one chain; a block is its height.  With an    *)
(* assumed chain state the blocks up to Base are on the active chain and   *)
(* are fetched for background validation.  All requests carry a block      *)
(* index entry, so that nBlocksInFlightValidHeaders is nBlocksInFlight.    *)
(***************************************************************************)
EXTENDS Integers, FiniteSets, FiniteSetsExt

CONSTANTS
  Peer,         \* the connections the node ever has; a NodeId is not used again
  NoPeer,       \* the NodeId -1
  Preferred,    \* peers with fPreferredDownload
  Top,          \* the height of the best header
  Base,         \* the height of the snapshot base; 0 without a session
  Window,       \* BLOCK_DOWNLOAD_WINDOW
  MaxInTransit, \* MaxBlocksInTransitPerPeer()
  Ahead,        \* MIN_BLOCKS_TO_KEEP: how far ahead a block is kept unasked
  Ibd,          \* IsInitialBlockDownload()
  Honest        \* peers that stay, and send the blocks they are asked for in time

ASSUME DownloadAssumption ==
  /\ IsFiniteSet(Peer) /\ NoPeer \notin Peer /\ Preferred \subseteq Peer /\ Honest \subseteq Peer
  /\ Top \in Nat /\ Base \in 0..Top
  /\ Window \in Nat \ {0} /\ MaxInTransit \in Nat \ {0} /\ Ahead \in Nat
  /\ Ibd \in BOOLEAN

VARIABLES
  link,       \* each connection: not yet made, up, fDisconnect set, finalized
  have,       \* the blocks with BLOCK_HAVE_DATA
  tip,        \* chainActive.Height()
  best,       \* pindexBestKnownBlock of each peer
  lastCommon, \* pindexLastCommonBlock of each peer; -1 if not set
  dl,         \* the download tables, see Tables
  getdata,    \* the blocks asked of each honest peer on the wire and not yet answered
  message     \* a block message whose block is not yet given to ProcessNewBlock

Block == 1..Top
downloadVars == <<link, have, tip, best, lastCommon, dl, getdata, message>>

\* from: mapBlocksInFlight; queue: vBlocksInFlight, without its order; n: nBlocksInFlight; stalls:
\* nStallingSince # 0; partial: blocks in flight with a PartiallyDownloadedBlock;
\* loading: nPeersWithValidatedDownloads; null: the null `pit' was written through.
Tables == [from : [Block -> Peer \cup {NoPeer}], queue : [Peer -> SUBSET Block],
           n : [Peer -> Int], stalls : SUBSET Peer, partial : SUBSET Block,
           loading : Int, null : BOOLEAN]
NoMessage == [peer |-> NoPeer, block |-> 0, force |-> FALSE, late |-> FALSE]

DownloadInitAt(stored, height) ==
  /\ link = [p \in Peer |-> "new"]
  /\ have = stored /\ tip = height
  /\ best = [p \in Peer |-> 0] /\ lastCommon = [p \in Peer |-> -1]
  /\ dl = [from |-> [b \in Block |-> NoPeer], queue |-> [p \in Peer |-> {}],
           n |-> [p \in Peer |-> 0], stalls |-> {}, partial |-> {}, loading |-> 0,
           null |-> FALSE]
  /\ getdata = [p \in Peer |-> {}]
  /\ message = NoMessage

\* mapNodeState has an entry until FinalizeNode.
Known == {p \in Peer : link[p] \in {"up", "dropped"}}
InFlight(d, b) == d.from[b] # NoPeer
Least(a, b) == IF a < b THEN a ELSE b
Greatest(a, b) == IF a > b THEN a ELSE b

-----------------------------------------------------------------------------
(* The tables *)

\* Mutant: the stall clock of the peer keeps running.
MarkBlockAsReceivedStalling(d, b) ==
  LET p == d.from[b]
  IN IF p = NoPeer THEN d
     ELSE [d EXCEPT !.from[b] = NoPeer, !.queue[p] = @ \ {b}, !.n[p] = @ - 1,
                    !.loading = IF d.n[p] = 1 THEN @ - 1 ELSE @,
                    !.partial = @ \ {b}]

MarkBlockAsReceived(d, b) ==
  LET p == d.from[b]
  IN IF p = NoPeer THEN d
     ELSE [d EXCEPT !.from[b] = NoPeer, !.queue[p] = @ \ {b}, !.n[p] = @ - 1,
                    !.loading = IF d.n[p] = 1 THEN @ - 1 ELSE @,
                    !.stalls = @ \ {p}, !.partial = @ \ {b}]

\* Called with a null `pit': a block already in flight from p makes it write
\* through the null pointer.
MarkBlockAsInFlight(d, p, b) ==
  IF d.from[b] = p THEN [d EXCEPT !.null = TRUE]
  ELSE LET e == MarkBlockAsReceived(d, b)
       IN [e EXCEPT !.from[b] = p, !.queue[p] = @ \cup {b}, !.n[p] = @ + 1,
                    !.loading = IF e.n[p] = 0 THEN @ + 1 ELSE @]

\* Called with a `pit': the entry of p gets a PartiallyDownloadedBlock.
MarkPartial(d, p, b) ==
  [(IF d.from[b] = p THEN d ELSE MarkBlockAsInFlight(d, p, b)) EXCEPT !.partial = @ \cup {b}]

\* Mutant: the blocks a lost peer owes stay in mapBlocksInFlight.
FinalizeBlocksKept(d, p) ==
  [d EXCEPT !.queue[p] = {}, !.n[p] = 0, !.stalls = @ \ {p},
            !.loading = IF d.n[p] # 0 THEN @ - 1 ELSE @]

\* FinalizeNode: the part that forgets the blocks p owes.
FinalizeBlocks(d, p) ==
  LET owed == d.queue[p]
  IN [d EXCEPT !.from = [b \in Block |-> IF b \in owed THEN NoPeer ELSE @[b]],
               !.queue[p] = {}, !.n[p] = 0, !.stalls = @ \ {p}, !.partial = @ \ owed,
               !.loading = IF d.n[p] # 0 THEN @ - 1 ELSE @]

-----------------------------------------------------------------------------
(* The choice of blocks to ask for *)

\* nChainTx # 0
HasChainTx(b) == 1..b \subseteq have

\* The first blocks of a set, by height.
First(count, S) == {b \in S : Cardinality({c \in S : c < b}) < count}

\* GetBackgroundValidationMissingBlocks: the first missing blocks of the history.
MissingHistory(count) == First(count, 1..Base \ have)

\* Mutant: a block that is in flight from another peer is asked for again.
ConsiderAgain(s, b, p, count, size, end) ==
  IF s.done THEN s
  ELSE IF b \in have \/ b <= tip THEN [s EXCEPT !.common = IF HasChainTx(b) THEN b ELSE @]
  ELSE IF b > end THEN [s EXCEPT !.done = TRUE]
  ELSE [s EXCEPT !.blocks = @ \cup {b}, !.done = size + Cardinality(s.blocks) + 1 = count]

\* One block of the walk in FindNextBlocksToDownload, from the state s of its locals;
\* vBlocks has `size' blocks of the caller and those in s.
Consider(s, b, p, count, size, end) ==
  IF s.done THEN s
  ELSE IF b \in have \/ b <= tip THEN [s EXCEPT !.common = IF HasChainTx(b) THEN b ELSE @]
  ELSE IF InFlight(dl, b)
       THEN [s EXCEPT !.waitingfor = IF @ = NoPeer THEN dl.from[b] ELSE @]
  ELSE IF b > end
       THEN [s EXCEPT !.done = TRUE,
                      !.staller = IF size = 0 /\ s.blocks = {} /\ s.waitingfor # p
                                  THEN s.waitingfor ELSE @]
  ELSE [s EXCEPT !.blocks = @ \cup {b}, !.done = size + Cardinality(s.blocks) + 1 = count]

\* FindNextBlocksToDownload: `count' is compared with the size of the whole list,
\* which the caller may have put blocks into.  The walk goes up: the greatest height
\* is considered last.
FindNextBlocksToDownload(p, count, size) ==
  LET guess == IF lastCommon[p] = -1 THEN Least(best[p], tip) ELSE Least(lastCommon[p], best[p])
      start == [blocks |-> {}, common |-> guess, waitingfor |-> NoPeer, staller |-> NoPeer,
                done |-> FALSE]
      end == guess + Window
      walk == (guess + 1)..Least(best[p], end + 1)
  IN IF count = 0 \/ best[p] = 0 \/ best[p] < tip THEN [start EXCEPT !.common = lastCommon[p]]
     ELSE MapThenFoldSet(LAMBDA b, s : Consider(s, b, p, count, size, end), start,
                         LAMBDA b : b, Max, walk)

\* PreferredDownloadersNeedRescue, with -ibdrescue on.
NeedRescue ==
  LET preferred == Preferred \cap Known
  IN /\ preferred # {}
     /\ \/ preferred \cap dl.stalls # {}
        \/ /\ \A p \in preferred : dl.n[p] >= MaxInTransit
           /\ \E b \in Block : InFlight(dl, b)

\* fFetch \/ !fIbd \/ rescue
CanDownloadBlocks(p) == ~Ibd \/ p \in Preferred \/ Preferred \cap Known = {} \/ NeedRescue

\* The getdata message; what a peer that may not answer is asked does not matter.
Ask(p, blocks) ==
  getdata' = IF p \in Honest THEN [getdata EXCEPT ![p] = @ \cup blocks] ELSE getdata

\* Every block of a set is asked of p.
MarkAll(d, p, S) == FoldSet(LAMBDA b, e : MarkBlockAsInFlight(e, p, b), d, S)

\* SendMessages: the getdata for blocks.  vToDownload is `history', then `found.blocks'.
SendGetData(p) ==
  LET slots == MaxInTransit - dl.n[p]
      history == {b \in MissingHistory(slots) : ~InFlight(dl, b)}
      found == FindNextBlocksToDownload(p, slots - Cardinality(history), Cardinality(history))
      marked == MarkAll(MarkAll(dl, p, history), p, found.blocks)
  IN IF CanDownloadBlocks(p) /\ dl.n[p] < MaxInTransit
     THEN /\ dl' = IF marked.n[p] = 0 /\ found.staller # NoPeer
                   THEN [marked EXCEPT !.stalls = @ \cup {found.staller}] ELSE marked
          /\ lastCommon' = [lastCommon EXCEPT ![p] = found.common]
          /\ Ask(p, history \cup found.blocks)
     ELSE UNCHANGED <<dl, lastCommon, getdata>>

-----------------------------------------------------------------------------
(* Messages.  The message handler thread works on one at a time; while a block is
   between MarkBlockAsReceived and ProcessNewBlock, cs_main is free for others. *)

Handling(p) == link[p] = "up" /\ message = NoMessage
Give(p, b, late) == message' = [peer |-> p, block |-> b, force |-> TRUE, late |-> late]
UpdateBlockAvailability(p, b) == best' = [best EXCEPT ![p] = Greatest(@, b)]

\* The walk back from b must reach the active chain within MaxInTransit missing blocks.
DirectFetch(p, b) ==
  LET missing == {c \in (tip + 1)..b : c \notin have /\ ~InFlight(dl, c)}
      asked == First(MaxInTransit - dl.n[p], missing)
  IN IF Cardinality(missing \ {tip + 1}) <= MaxInTransit /\ dl.n[p] < MaxInTransit
     THEN dl' = MarkAll(dl, p, asked) /\ Ask(p, asked)
     ELSE UNCHANGED <<dl, getdata>>

\* headers, ending in b; `direct' is CanDirectFetch.
Headers(p, b, direct) ==
  /\ Handling(p)
  /\ UpdateBlockAvailability(p, b)
  /\ IF direct /\ tip <= b THEN DirectFetch(p, b) ELSE UNCHANGED <<dl, getdata>>
  /\ UNCHANGED <<link, have, tip, lastCommon, message>>

\* block, asked for or not.
BlockMessage(p, b) ==
  /\ Handling(p) /\ (p \in Honest => b \in getdata[p])
  /\ message' = [peer |-> p, block |-> b, force |-> InFlight(dl, b), late |-> FALSE]
  /\ dl' = MarkBlockAsReceived(dl, b)
  /\ getdata' = [getdata EXCEPT ![p] = @ \ {b}]
  /\ UNCHANGED <<link, have, tip, best, lastCommon>>

\* FillBlock on the PartiallyDownloadedBlock in the tables d.
Fill(p, b, d, outcome) ==
  \/ /\ outcome = "invalid"
     /\ dl' = MarkBlockAsReceived(d, b) /\ link' = [link EXCEPT ![p] = "dropped"]
     /\ UNCHANGED <<getdata, message>>
  \/ /\ outcome = "failed"
     /\ dl' = d /\ Ask(p, {b})
     /\ UNCHANGED <<link, message>>
  \/ /\ outcome = "ok"
     /\ dl' = MarkBlockAsReceived(d, b) /\ Give(p, b, FALSE)
     /\ UNCHANGED <<link, getdata>>

\* blocktxn
BlockTxn(p, b, outcome) ==
  /\ Handling(p)
  /\ dl.from[b] = p /\ b \in dl.partial
  /\ Fill(p, b, dl, outcome)
  /\ UNCHANGED <<have, tip, best, lastCommon>>

\* cmpctblock: what InitData says of it, and whether transactions are missing.
CmpctBlock(p, b, direct, outcome) ==
  /\ Handling(p)
  /\ UpdateBlockAvailability(p, b)
  /\ UNCHANGED <<have, tip, lastCommon>>
  /\ \/ \* stored, not the time for it, or being synced already
        /\ \/ b \in have
           \/ b > tip /\ ~InFlight(dl, b) /\ ~direct
           \/ b > tip /\ b <= tip + 2 /\ dl.from[b] = p /\ b \in dl.partial
        /\ UNCHANGED <<link, dl, getdata, message>>
     \/ \* known to be useless, or too far ahead: a plain getdata if it is in flight
        /\ b \notin have
        /\ b <= tip \/ (b > tip + 2 /\ InFlight(dl, b))
        /\ IF InFlight(dl, b) THEN Ask(p, {b}) ELSE UNCHANGED getdata
        /\ UNCHANGED <<link, dl, message>>
     \/ \* far ahead and not in flight: handled as headers
        /\ b \notin have /\ b > tip + 2 /\ ~InFlight(dl, b) /\ direct
        /\ DirectFetch(p, b)
        /\ UNCHANGED <<link, message>>
     \/ \* taken over as a compact download from p
        /\ b \in ((tip + 1)..(tip + 2)) \ have
        /\ IF InFlight(dl, b) THEN dl.from[b] = p ELSE direct /\ dl.n[p] < MaxInTransit
        /\ ~(dl.from[b] = p /\ b \in dl.partial)
        /\ \/ Fill(p, b, MarkPartial(dl, p, b), outcome)
           \/ /\ outcome = "missing"
              /\ dl' = MarkPartial(dl, p, b)
              /\ UNCHANGED <<link, getdata, message>>
     \/ \* in flight from another peer, or no room: rebuilt without a round trip
        /\ b \in ((tip + 1)..(tip + 2)) \ have
        /\ IF InFlight(dl, b) THEN dl.from[b] # p ELSE direct /\ dl.n[p] >= MaxInTransit
        /\ IF outcome = "ok" THEN Give(p, b, TRUE) ELSE UNCHANGED message
        /\ UNCHANGED <<link, dl, getdata>>

\* ProcessNewBlock: AcceptBlock, then ActivateBestChain.  A block rebuilt while it
\* was in flight elsewhere is marked received only now, if it is valid.
ProcessNewBlock ==
  /\ message # NoMessage
  /\ LET b == message.block
         wanted == b \notin have /\ (message.force \/ b \in (tip + 1)..(tip + Ahead))
     IN /\ have' = IF wanted THEN have \cup {b} ELSE have
        /\ tip' = CHOOSE h \in tip..Top : /\ h = tip \/ 1..h \subseteq have'
                                         /\ \A k \in (h + 1)..Top : ~(1..k \subseteq have')
        /\ dl' = IF message.late /\ b \in have' THEN MarkBlockAsReceived(dl, b) ELSE dl
  /\ message' = NoMessage
  /\ UNCHANGED <<link, best, lastCommon, getdata>>

\* SendMessages: a peer that stalls the window, or does not deliver, is dropped.
StallOrTimeout(p) ==
  /\ Handling(p)
  /\ p \in dl.stalls \/ dl.queue[p] # {}
  /\ link' = [link EXCEPT ![p] = "dropped"]
  /\ UNCHANGED <<have, tip, best, lastCommon, dl, getdata, message>>

-----------------------------------------------------------------------------
(* Properties *)

\* mapBlocksInFlight, the queues of the peers and the counters describe one set of
\* requests: what FinalizeNode asserts when the last peer leaves, at every moment,
\* and no block is asked for twice in one go (MarkBlockAsInFlight's null pointer).
TablesAgree ==
  /\ \A b \in Block, p \in Peer : dl.from[b] = p <=> b \in dl.queue[p]
  /\ \A p \in Peer : dl.n[p] = Cardinality(dl.queue[p])
  /\ dl.loading = Cardinality({p \in Peer : dl.n[p] > 0})
  /\ dl.partial \subseteq {b \in Block : InFlight(dl, b)}
  /\ \A p \in Peer : dl.queue[p] # {} => p \in Known
  /\ ~dl.null

\* A peer is dropped for stalling only while it owes a block (nStallingSince).
StallersOwe == \A p \in dl.stalls : dl.queue[p] # {}

\* The request for b ends: the block is in hand, or the peer that owes it is given up.
RequestEnds(b) ==
  /\ dl'.from[b] = NoPeer
  /\ message'.block = b \/ b \in have' \/ link'[dl.from[b]] \in {"dropped", "gone"}

\* A block that one peer was asked for is not asked of another one, and its request is
\* not forgotten, until the block is in hand or that peer is given up.
\* MarkBlockAsInFlight would move it; no caller lets it.
RequestsLast ==
  [][\A b \in Block : InFlight(dl, b) /\ dl'.from[b] # dl.from[b] => RequestEnds(b)]_downloadVars

\* No more than MaxBlocksInTransitPerPeer blocks are asked of one peer at a time.
InFlightBounded == \A p \in Peer : dl.n[p] <= MaxInTransit
=============================================================================
