----------------------------- MODULE ConnectTip -----------------------------
(***************************************************************************)
(* ConnectTip and DisconnectTip: one block is applied to, or undone from,  *)
(* the stack of coins views while the script-check pool verifies its       *)
(* inputs.  One action per access to a coins view; the pool's threads run  *)
(* in between.  Everything here happens under cs_main, so no other thread  *)
(* sees the views between the steps; a crash does.                         *)
(***************************************************************************)
EXTENDS CoinsCache, CheckQueue

CONSTANTS
  Offers,     \* bound: the sets of blocks that may be there to connect
  Overpaying, \* blocks whose coinbase pays too much
  Read        \* bound: transactions the mempool looks up between blocks

\* The script checks are named after the inputs.
ASSUME TipAssumption ==
  /\ Offers \subseteq SUBSET (Label \ {Genesis}) /\ Read \subseteq Txid
  /\ \A b \in Label \ {Genesis} : \A k \in DOMAIN BlockTxs[b] :
       \A m \in DOMAIN BlockTxs[b][k].ins : <<BlockTxs[b][k].id, m>> \in Check

VARIABLES
  offered,    \* the blocks whose data the node has
  active,     \* chainActive.Tip()
  failed,     \* blocks marked BLOCK_FAILED_VALID
  undo,       \* rev files: for each block the inputs <<i, j>> whose undo entry
              \* carries the metadata of a fully spent transaction
  haveUndo,   \* blocks with BLOCK_HAVE_UNDO
  savedUndo,  \* those of them in the block index on disk
  pc, dir, blk, i, j,
  blockundo,  \* the undo data of the block being connected
  fClean

tipVars == <<offered, active, failed, undo, haveUndo, savedUndo, pc, dir, blk, i, j, blockundo, fClean>>
vars == <<coinsVars, queueVars, tipVars>>

Txs == BlockTxs[blk]
Tx == Txs[i]
Prevout == Tx.ins[j]     \* <<txid, n>>
InputLeft == j \in DOMAIN Tx.ins

Init ==
  /\ db = [t \in Txid |-> {}] /\ dbBest = Genesis
  /\ tip = Empty /\ tipBest = Genesis
  /\ view = Empty /\ viewBest = Genesis
  /\ open = FALSE /\ fault = FALSE
  /\ QueueInit
  /\ offered \in Offers /\ active = Genesis /\ failed = {}
  /\ undo = [b \in Label |-> {}] /\ haveUndo = {} /\ savedUndo = {}
  /\ pc = "idle" /\ dir = "connect" /\ blk = Genesis /\ i = 1 /\ j = 1
  /\ blockundo = {} /\ fClean = TRUE

Goto(where, ii, jj) ==
  /\ pc' = where /\ i' = ii /\ j' = jj
  /\ UNCHANGED <<dir, blk>>

\* The locals of ConnectTip and DisconnectTip.
Start(where, b, d, ii) == pc' = where /\ i' = ii /\ j' = 1 /\ dir' = d /\ blk' = b
Finished == Start("idle", Genesis, "connect", 1) /\ blockundo' = {} /\ fClean' = TRUE

-----------------------------------------------------------------------------
(* ConnectTip *)

ConnectBegin(b) ==
  /\ pc = "idle" /\ ~stopping
  /\ Parent[b] = active /\ b \notin failed
  /\ OpenView
  /\ Start("bip30", b, "connect", 1)
  /\ UNCHANGED <<queueVars, offered, active, failed, undo, haveUndo, savedUndo, blockundo, fClean>>

Bip30 ==
  /\ pc = "bip30"
  /\ FetchView(Tx.id)
  /\ CASE ViewCoins[Tx.id] # {} -> Goto("reject", 1, 1)
       [] ViewCoins[Tx.id] = {} /\ i < Len(Txs) -> Goto("bip30", i + 1, 1)
       [] OTHER -> Goto("control", 1, 1)
  /\ UNCHANGED <<queueVars, offered, active, failed, undo, haveUndo, savedUndo, blockundo, fClean>>

MakeControl ==
  /\ pc = "control"
  /\ OpenControl
  /\ Goto("inputs", 1, 1)
  /\ UNCHANGED <<coinsVars, offered, active, failed, undo, haveUndo, savedUndo, blockundo, fClean>>

\* HaveInputs.  An early return runs the control's destructor.
HaveInput ==
  /\ pc = "inputs" /\ InputLeft
  /\ FetchView(Prevout[1])
  /\ IF Prevout[2] \in ViewCoins[Prevout[1]]
     THEN Goto("inputs", i, j + 1) /\ UNCHANGED queueVars
     ELSE Goto("unwind", 1, 1) /\ BeginWait
  /\ UNCHANGED <<offered, active, failed, undo, haveUndo, savedUndo, blockundo, fClean>>

\* CheckInputs makes one check per input of a transaction that is no coinbase.
AddChecks ==
  /\ pc = "inputs" /\ ~InputLeft
  /\ Add({<<Tx.id, k>> : k \in DOMAIN Tx.ins})
  /\ Goto("update", i, 1)
  /\ UNCHANGED <<coinsVars, offered, active, failed, undo, haveUndo, savedUndo, blockundo, fClean>>

\* UpdateCoins: one input is spent.
SpendInput ==
  LET left == ViewCoins[Prevout[1]] \ {Prevout[2]} IN
  /\ pc = "update" /\ InputLeft
  /\ ModifyView(Prevout[1], left)
  /\ blockundo' = IF left = {} THEN blockundo \cup {<<i, j>>} ELSE blockundo
  /\ Goto("update", i, j + 1)
  /\ UNCHANGED <<queueVars, offered, active, failed, undo, haveUndo, savedUndo, fClean>>

\* UpdateCoins: the outputs are added.  After the last transaction the block's
\* reward is checked, and the control waits for the pool.
AddOutputs ==
  /\ pc = "update" /\ ~InputLeft
  /\ NewInView(Tx.id, i = 1, Tx.outs)
  /\ IF i < Len(Txs)
     THEN Goto("inputs", i + 1, 1) /\ UNCHANGED queueVars
     ELSE Goto(IF blk \in Overpaying THEN "unwind" ELSE "verify", 1, 1) /\ BeginWait
  /\ UNCHANGED <<offered, active, failed, undo, haveUndo, savedUndo, blockundo, fClean>>

\* control.Wait() returned true.
WaitOk == verdict /\ ~thrown

\* Undo data is written once per block.
ConnectOk ==
  /\ pc = "verify" /\ CloseControl /\ WaitOk
  /\ undo' = IF blk \in haveUndo THEN undo ELSE [undo EXCEPT ![blk] = blockundo]
  /\ haveUndo' = haveUndo \cup {blk}
  /\ SetBestBlock(blk)
  /\ Goto("flush", 1, 1)
  /\ UNCHANGED <<offered, active, failed, savedUndo, blockundo, fClean>>

\* Mutant: whatever ended ConnectBlock marks the block invalid.
InvalidBlockFoundAlways == failed' = failed \cup {blk}

\* InvalidBlockFound, when the validation state says the block is invalid.
InvalidBlockFound == failed' = IF thrown THEN failed ELSE failed \cup {blk}

ConnectFailed ==
  /\ \/ pc = "reject" /\ UNCHANGED queueVars
     \/ pc = "unwind" /\ CloseControl
     \/ pc = "verify" /\ CloseControl /\ ~WaitOk
  /\ InvalidBlockFound
  /\ DropView
  /\ Finished
  /\ UNCHANGED <<offered, active, undo, haveUndo, savedUndo>>

-----------------------------------------------------------------------------
(* DisconnectTip *)

DisconnectBegin ==
  /\ pc = "idle" /\ ~stopping /\ active \in haveUndo
  /\ OpenView
  /\ Start("remove", active, "disconnect", Len(BlockTxs[active]))
  /\ UNCHANGED <<queueVars, offered, active, failed, undo, haveUndo, savedUndo, blockundo, fClean>>

RemoveOutputs ==
  /\ pc = "remove"
  /\ ModifyView(Tx.id, {})
  /\ fClean' = (fClean /\ ViewCoins[Tx.id] = Tx.outs)
  /\ Goto("restore", i, Len(Tx.ins))
  /\ UNCHANGED <<queueVars, offered, active, failed, undo, haveUndo, savedUndo, blockundo>>

\* ApplyTxInUndo
RestoreInput ==
  LET last == <<i, j>> \in undo[blk]
      had == ViewCoins[Prevout[1]]
      kept == IF last THEN {} ELSE had
  IN
  /\ pc = "restore" /\ InputLeft
  /\ ModifyView(Prevout[1], kept \cup {Prevout[2]})
  /\ fClean' = (fClean /\ (last <=> had = {}) /\ Prevout[2] \notin kept)
  /\ Goto("restore", i, j - 1)
  /\ UNCHANGED <<queueVars, offered, active, failed, undo, haveUndo, savedUndo, blockundo>>

\* Mutant: the transactions are undone in the order of the block.
DisconnectNextForward ==
  /\ pc = "restore" /\ ~InputLeft
  /\ CASE i < Len(Txs) -> Goto("remove", i + 1, 1) /\ UNCHANGED coinsVars
       [] i >= Len(Txs) /\ fClean -> Goto("flush", 1, 1) /\ SetBestBlock(Parent[blk])
       [] OTHER -> Start("idle", Genesis, "connect", 1) /\ DropView
  /\ UNCHANGED <<queueVars, offered, active, failed, undo, haveUndo, savedUndo, blockundo, fClean>>

DisconnectNext ==
  /\ pc = "restore" /\ ~InputLeft
  /\ CASE i > 1 -> Goto("remove", i - 1, 1) /\ UNCHANGED coinsVars
       [] i = 1 /\ fClean -> Goto("flush", 1, 1) /\ SetBestBlock(Parent[blk])
       [] OTHER -> Start("idle", Genesis, "connect", 1) /\ DropView
  /\ UNCHANGED <<queueVars, offered, active, failed, undo, haveUndo, savedUndo, blockundo, fClean>>

-----------------------------------------------------------------------------
(* What both end with *)

CommitView ==
  /\ pc = "flush"
  /\ FlushView
  /\ Goto("write", 1, 1)
  /\ UNCHANGED <<queueVars, offered, active, failed, undo, haveUndo, savedUndo, blockundo, fClean>>

\* FlushStateToDisk(FLUSH_STATE_IF_NEEDED): block files and index before the coins.
WriteChainState == FlushTip /\ savedUndo' = haveUndo

UpdateTip ==
  /\ pc = "write"
  /\ WriteChainState \/ UNCHANGED <<coinsVars, savedUndo>>
  /\ active' = IF dir = "connect" THEN blk ELSE Parent[blk]
  /\ Finished
  /\ UNCHANGED <<queueVars, offered, failed, undo, haveUndo>>

\* Between two blocks: the mempool reads through pcoinsTip and drops what it
\* read; FlushStateToDisk may run.
BetweenBlocks ==
  /\ pc = "idle" /\ ~stopping
  /\ \/ (\E t \in Read : FetchTip(t) \/ Uncache(t)) /\ UNCHANGED savedUndo
     \/ WriteChainState
  /\ UNCHANGED <<queueVars, offered, active, failed, undo, haveUndo, pc, dir, blk, i, j, blockundo, fClean>>

\* An interruption of the import thread inside the destructor of the control
\* ends the process: a destructor must not throw.
PoolStep ==
  /\ PoolNext \/ InterruptAll
  /\ ~(pc = "unwind" /\ Interrupted(Master))
  /\ UNCHANGED <<coinsVars, tipVars>>

\* The process dies.  The block index on disk is the last one written, or a
\* later one (index-only writes); the chain is loaded from the coins' label.
Crash ==
  /\ CrashCoins
  /\ queue' = {} /\ nTodo' = 0 /\ fAllOk' = TRUE /\ nIdle' = 0 /\ nTotal' = 0
  /\ qpc' = [t \in Thread |-> IF t = Master THEN "out" ELSE "lock"]
  /\ batch' = [t \in Thread |-> {}] /\ fOk' = [t \in Thread |-> TRUE]
  /\ added' = {} /\ verdict' = TRUE /\ stopping' = FALSE /\ intr' = {} /\ thrown' = FALSE
  /\ \E B \in SUBSET haveUndo :
       /\ savedUndo \subseteq B
       /\ haveUndo' = B /\ savedUndo' = B
       /\ undo' = [b \in Label |-> IF b \in B THEN undo[b] ELSE {}]
  /\ failed' \in SUBSET failed
  /\ active' = dbBest /\ UNCHANGED offered
  /\ Finished

BlockStep ==
  \/ Bip30 \/ MakeControl \/ HaveInput \/ AddChecks \/ SpendInput \/ AddOutputs
  \/ ConnectOk \/ ConnectFailed
  \/ RemoveOutputs \/ RestoreInput \/ DisconnectNext \/ CommitView \/ UpdateTip

Next ==
  \/ \E b \in offered : ConnectBegin(b)
  \/ DisconnectBegin \/ BlockStep \/ BetweenBlocks \/ PoolStep \/ Crash

Spec == Init /\ [][Next]_vars

\* Threads that are not blocked run.
FairSpec == /\ Spec
            /\ WF_vars(BlockStep)
            /\ \A t \in Thread : WF_vars(ThreadStep(t) /\ UNCHANGED <<coinsVars, tipVars>>)

-----------------------------------------------------------------------------
(* Which blocks are valid, said directly *)

ValidBlock(b) ==
  /\ b \notin Overpaying
  /\ \A k \in DOMAIN BlockTxs[b] :
       LET tx == BlockTxs[b][k]
           before == AfterTxs(UtxoOf[Parent[b]], BlockTxs[b])[k - 1]
       IN /\ UtxoOf[Parent[b]][tx.id] = {}
          /\ \A m \in DOMAIN tx.ins : /\ tx.ins[m][2] \in before[tx.ins[m][1]]
                                      /\ <<tx.id, m>> \notin Bad

ValidChain[b \in Label] == b = Genesis \/ (ValidChain[Parent[b]] /\ ValidBlock(b))

-----------------------------------------------------------------------------
(* Properties *)

\* Between two blocks pcoinsTip is the result of the active chain's blocks, and
\* the database is at all times that of the chain its label names, through
\* rejected blocks, reorganisations, cache drops and crashes.
CoinsAreTheChains ==
  /\ pc = "idle" => TipCoins = UtxoOf[active] /\ tipBest = active
  /\ db = UtxoOf[dbBest]

\* No assertion or "database corrupted" error of ConnectBlock, UpdateCoins,
\* DisconnectBlock and ApplyTxInUndo is reached, nor a logic_error of the cache,
\* and every block of the active chain can be disconnected.
NeverCorrupt ==
  /\ FlagsTrue /\ fClean
  /\ pc = "update" /\ InputLeft => Prevout[2] \in ViewCoins[Prevout[1]]
  /\ pc \in {"bip30", "remove"} => viewBest = active
  /\ ChainOf[active] \subseteq haveUndo

\* The active chain is valid and only invalid blocks are marked so, also when an
\* interruption or a crash ends ConnectBlock.
VerdictsRight ==
  /\ ValidChain[active] /\ ValidChain[dbBest]
  /\ \A b \in failed : ~ValidBlock(b)

\* A block that is being connected or disconnected comes to an end: the master
\* is never left waiting for the pool.
BlockEnds == pc # "idle" ~> pc = "idle"
=============================================================================
