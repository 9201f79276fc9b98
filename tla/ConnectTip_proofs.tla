-------------------------- MODULE ConnectTip_proofs --------------------------
(***************************************************************************)
(* Connecting and disconnecting blocks keeps the coins those of the chain, *)
(* reaches no "corrupt" path and marks only invalid blocks, for every tree *)
(* of blocks that passed CheckBlock, every number of script-check threads, *)
(* and every interleaving with interruptions and crashes.                  *)
(*                                                                         *)
(* The invariant says, for every place inside ConnectTip and DisconnectTip,*)
(* how far the block is applied: the view shows the coins after so many    *)
(* transactions and so many inputs of the next one, the pool was given the *)
(* checks of so many transactions, and the undo data names the inputs that *)
(* emptied a transaction so far.  It relies on the verdict of the pool     *)
(* (Pool), whose invariant relies on being given no check twice.           *)
(***************************************************************************)
EXTENDS ConnectTip, CoinsCache_proofs, CheckQueue_proofs

\* The checks of the first k transactions.
ChecksOf(b, k) ==
  {c \in Check : \E l \in 1 .. k : \E m \in DOMAIN TxOf(b, l).ins : c = <<TxOf(b, l).id, m>>}

-----------------------------------------------------------------------------
(* The inductive invariant *)

Typed ==
  /\ offered \in Offers /\ active \in Label /\ blk \in Label
  /\ undo \in [Label -> SUBSET (Nat \X Nat)] /\ haveUndo \subseteq Label
  /\ i \in Nat /\ j \in Nat /\ fClean = TRUE

\* What is on disk and what a restart needs.
OnDisk ==
  /\ db = UtxoOf[dbBest]
  /\ ValidChain[active] /\ ValidChain[dbBest]
  /\ ChainOf[active] \subseteq haveUndo
  /\ ChainOf[dbBest] \subseteq savedUndo /\ savedUndo \subseteq haveUndo
  /\ \A b \in haveUndo : b # Genesis /\ ValidBlock(b) /\ undo[b] = UndoOf(b)
  /\ \A b \in failed : ~ValidBlock(b)

TipIs(b) == TipCoins = UtxoOf[b] /\ tipBest = b
MasterOut == qpc[Master] = "out" /\ ~thrown
InPool == {"lock", "exec", "wait", "awake", "done"}
InBlock == i \in 1 .. Len(Txs)

AtIdle == pc = "idle" /\ ~open /\ MasterOut /\ TipIs(active) /\ blockundo = {}

\* A block is being connected; the first k transactions passed BIP30.
Connecting(k) ==
  /\ open /\ TipIs(active) /\ dir = "connect"
  /\ blk # Genesis /\ Parent[blk] = active
  /\ \A l \in 1 .. k : IsNew(blk, l)

AtBip30 ==
  /\ pc = "bip30" /\ MasterOut /\ InBlock /\ Connecting(i - 1)
  /\ ViewCoins = UtxoOf[active] /\ viewBest = active /\ blockundo = {}

AtControl ==
  /\ pc = "control" /\ MasterOut /\ Connecting(Len(Txs))
  /\ ViewCoins = UtxoOf[active] /\ blockundo = {}

AtInputs ==
  /\ pc = "inputs" /\ qpc[Master] = "add" /\ ~thrown /\ InBlock /\ Connecting(Len(Txs))
  /\ j \in 1 .. Len(Tx.ins) + 1
  /\ \A l \in 1 .. i - 1 : HasInputs(blk, l)
  /\ \A m \in 1 .. j - 1 : Available(blk, i, m)
  /\ ViewCoins = At(blk, i - 1)
  /\ added = ChecksOf(blk, i - 1) /\ blockundo = UndoUpto(blk, i, 1)

AtUpdate ==
  /\ pc = "update" /\ qpc[Master] = "add" /\ ~thrown /\ InBlock /\ Connecting(Len(Txs))
  /\ j \in 1 .. Len(Tx.ins) + 1
  /\ \A l \in 1 .. i : HasInputs(blk, l)
  /\ ViewCoins = Spent(At(blk, i - 1), Tx, j - 1)
  /\ added = ChecksOf(blk, i) /\ blockundo = UndoUpto(blk, i, j)

AtVerify ==
  /\ pc = "verify" /\ qpc[Master] \in InPool /\ Connecting(Len(Txs))
  /\ blk \notin Overpaying /\ \A l \in 1 .. Len(Txs) : HasInputs(blk, l)
  /\ ViewCoins = UtxoOf[blk]
  /\ added = ChecksOf(blk, Len(Txs)) /\ blockundo = UndoOf(blk)

AtReject == pc = "reject" /\ MasterOut /\ Connecting(0) /\ ~ValidBlock(blk)
AtUnwind ==
  /\ pc = "unwind" /\ qpc[Master] \in InPool /\ ~thrown
  /\ Connecting(0) /\ ~ValidBlock(blk)

\* The tip is being disconnected.
Disconnecting ==
  /\ MasterOut /\ open /\ TipIs(active) /\ viewBest = active /\ blockundo = {}
  /\ dir = "disconnect" /\ blk = active /\ blk \in haveUndo /\ InBlock

AtRemove == pc = "remove" /\ Disconnecting /\ ViewCoins = At(blk, i)

AtRestore ==
  /\ pc = "restore" /\ Disconnecting /\ j \in 0 .. Len(Tx.ins)
  /\ ViewCoins = Spent(At(blk, i - 1), Tx, j)

\* The block that the view is to be the state of.
Target == IF dir = "connect" THEN blk ELSE Parent[blk]
Done ==
  /\ MasterOut /\ blk \in haveUndo
  /\ dir \in {"connect", "disconnect"}
  /\ active = IF dir = "connect" THEN Parent[blk] ELSE blk

AtFlush ==
  /\ pc = "flush" /\ Done /\ open /\ TipIs(active)
  /\ ViewCoins = UtxoOf[Target] /\ viewBest = Target

AtWrite == pc = "write" /\ Done /\ ~open /\ TipIs(Target)

Place ==
  \/ AtIdle \/ AtBip30 \/ AtControl \/ AtInputs \/ AtUpdate \/ AtVerify \/ AtReject \/ AtUnwind
  \/ AtRemove \/ AtRestore \/ AtFlush \/ AtWrite

ChainInv == CoinsInv /\ Typed /\ OnDisk /\ Place

\* What the steps below rely on of the pool.
Pool ==
  /\ qpc \in [Thread -> Places]
  /\ qpc[Master] = "out" => added = {}
  /\ qpc[Master] = "done" => verdict = (added \cap Bad = {})

-----------------------------------------------------------------------------
(* Valid blocks *)

\* What ValidChain says of a block and the one before it.
LEMMA ValidChainStep ==
  /\ ValidChain[Genesis]
  /\ \A b \in Label \ {Genesis} : ValidChain[b] <=> ValidChain[Parent[b]] /\ ValidBlock(b)
<1> DEFINE step == [p \in Label \X BOOLEAN |-> p[2] /\ ValidBlock(p[1])]
           Goal(g) == g = [b \in Label |-> b = Genesis \/ (g[Parent[b]] /\ ValidBlock(b))]
<1>1. step \in [Label \X BOOLEAN -> BOOLEAN]
  OBVIOUS
<1>2. \A b \in Label, s \in BOOLEAN : step[<<b, s>>] = (s /\ ValidBlock(b))
  OBVIOUS
<1> HIDE DEF step
<1>3. PICK f : FollowsTree(f, BOOLEAN, TRUE, step)
  BY Zenon, <1>1, RecursionOnTree
<1>4. f \in [Label -> BOOLEAN] /\ f[Genesis] = TRUE
      /\ \A b \in Label \ {Genesis} : f[b] = step[<<b, f[Parent[b]]>>]
  BY <1>3 DEF FollowsTree
<1>5. \A b \in Label \ {Genesis} : f[b] = (f[Parent[b]] /\ ValidBlock(b))
  <2>1. \A b \in Label : f[Parent[b]] \in BOOLEAN
    BY <1>4, BlockTyped
  <2> QED BY Zenon, <1>2, <1>4, <2>1
<1>6. Goal(f)
  <2>1. \A b \in Label : f[b] = (b = Genesis \/ (f[Parent[b]] /\ ValidBlock(b)))
    BY <1>4, <1>5
  <2> QED BY <1>4, <2>1
<1>7. ValidChain = CHOOSE g : Goal(g)
  BY DEF ValidChain
<1>8. Goal(ValidChain)
  <2> HIDE DEF Goal
  <2> QED BY <1>6, <1>7
<1> DEFINE v == ValidChain
<1> HIDE DEF v
<1>9. v = [b \in Label |-> b = Genesis \/ (v[Parent[b]] /\ ValidBlock(b))]
  BY <1>8 DEF v
<1>10. \A b \in Label : v[b] = (b = Genesis \/ (v[Parent[b]] /\ ValidBlock(b)))
  BY Zenon, <1>9
<1> QED BY Zenon, <1>10, TreeAssumption DEF v

\* What ValidBlock says, in the terms of the invariant.
LEMMA ValidMeans ==
  ASSUME NEW b \in Label
  PROVE  ValidBlock(b) <=>
           /\ b \notin Overpaying
           /\ \A k \in 1 .. Len(BlockTxs[b]) :
                /\ IsNew(b, k) /\ HasInputs(b, k)
                /\ \A m \in DOMAIN TxOf(b, k).ins : <<TxOf(b, k).id, m>> \notin Bad
<1>1. DOMAIN BlockTxs[b] = 1 .. Len(BlockTxs[b])
  BY BlockTyped
<1> QED BY Zenon, <1>1 DEF ValidBlock, IsNew, HasInputs, Available, In, At, TxOf

\* The checks that a transaction adds are new ones.
LEMMA ChecksGrow ==
  ASSUME NEW b \in Label \ {Genesis}, NEW k \in 1 .. Len(BlockTxs[b])
  PROVE  /\ ChecksOf(b, k)
              = ChecksOf(b, k - 1) \cup {<<TxOf(b, k).id, m>> : m \in DOMAIN TxOf(b, k).ins}
         /\ {<<TxOf(b, k).id, m>> : m \in DOMAIN TxOf(b, k).ins} \subseteq Check
         /\ Passed(b, k) =>
              ChecksOf(b, k - 1) \cap {<<TxOf(b, k).id, m>> : m \in DOMAIN TxOf(b, k).ins} = {}
<1> DEFINE new == {<<TxOf(b, k).id, m>> : m \in DOMAIN TxOf(b, k).ins}
<1>0. /\ k \in 1 .. k /\ k \in DOMAIN BlockTxs[b] /\ k \in 0 .. Len(BlockTxs[b])
      /\ \A l \in 1 .. k : l = k \/ l \in 1 .. k - 1
      /\ \A l \in 1 .. k - 1 : l \in 1 .. k /\ l # k
  BY BlockTyped
<1>1. new \subseteq Check
  BY <1>0, TipAssumption DEF TxOf
<1>2. ChecksOf(b, k) = ChecksOf(b, k - 1) \cup new
  <2>1. ASSUME NEW c \in Check
        PROVE  c \in ChecksOf(b, k) <=> c \in ChecksOf(b, k - 1) \cup new
    BY Zenon, <1>0 DEF ChecksOf
  <2>2. ChecksOf(b, k) \subseteq Check /\ ChecksOf(b, k - 1) \subseteq Check
    BY DEF ChecksOf
  <2> HIDE DEF new
  <2> QED BY <1>1, <2>1, <2>2
<1>3. ASSUME Passed(b, k)
      PROVE  ChecksOf(b, k - 1) \cap new = {}
  <2>1. \A l \in 1 .. k - 1 : TxOf(b, l).id # TxOf(b, k).id
    BY <1>0, <1>3, NamesDiffer DEF Passed
  <2> QED BY <2>1 DEF ChecksOf
<1> QED BY <1>1, <1>2, <1>3

\* Nothing is checked before the first transaction.
LEMMA NoChecks ==
  ASSUME NEW b
  PROVE  ChecksOf(b, 0) = {}
  BY DEF ChecksOf

\* A block that passed everything else is valid when none of its checks fails.
LEMMA ChecksDecide ==
  ASSUME NEW b \in Label \ {Genesis}, Passed(b, Len(BlockTxs[b])), b \notin Overpaying
  PROVE  ValidBlock(b) <=> ChecksOf(b, Len(BlockTxs[b])) \cap Bad = {}
<1>1. \A k \in 1 .. Len(BlockTxs[b]) : \A m \in DOMAIN TxOf(b, k).ins : <<TxOf(b, k).id, m>> \in Check
  BY BlockTyped, TipAssumption DEF TxOf
<1>2. ChecksOf(b, Len(BlockTxs[b])) \cap Bad = {} <=>
        \A k \in 1 .. Len(BlockTxs[b]) : \A m \in DOMAIN TxOf(b, k).ins : <<TxOf(b, k).id, m>> \notin Bad
  BY <1>1 DEF ChecksOf
<1> QED BY <1>2, ValidMeans DEF Passed

\* A valid block passed what ConnectBlock checks, up to each transaction.
LEMMA ValidPassed ==
  ASSUME NEW b \in Label \ {Genesis}, ValidBlock(b)
  PROVE  /\ Passed(b, Len(BlockTxs[b]))
         /\ \A k \in 1 .. Len(BlockTxs[b]) : Passed(b, k)
<1>1. Passed(b, Len(BlockTxs[b]))
  BY ValidMeans DEF Passed
<1>2. \A k \in 1 .. Len(BlockTxs[b]) : \A l \in 1 .. k : l \in 1 .. Len(BlockTxs[b])
  BY BlockTyped
<1> QED BY <1>1, <1>2 DEF Passed

-----------------------------------------------------------------------------
(* What a step leaves alone *)

\* Where the program is.
LEMMA Where ==
  ASSUME ChainInv
  PROVE  /\ pc = "idle" => AtIdle
         /\ pc = "bip30" => AtBip30
         /\ pc = "control" => AtControl
         /\ pc = "inputs" => AtInputs
         /\ pc = "update" => AtUpdate
         /\ pc = "verify" => AtVerify
         /\ pc = "reject" => AtReject
         /\ pc = "unwind" => AtUnwind
         /\ pc = "remove" => AtRemove
         /\ pc = "restore" => AtRestore
         /\ pc = "flush" => AtFlush
         /\ pc = "write" => AtWrite
  BY DEF ChainInv, Place, AtIdle, AtBip30, AtControl, AtInputs, AtUpdate, AtVerify, AtReject,
         AtUnwind, AtRemove, AtRestore, AtFlush, AtWrite

\* A step inside a block that does not touch what a restart needs.
LEMMA DiskSame ==
  ASSUME OnDisk, SameDb, UNCHANGED <<active, failed, undo, haveUndo, savedUndo>>
  PROVE  OnDisk'
  BY Zenon DEF OnDisk, SameDb

\* A step that leaves the pool alone.
LEMMA QueueSame ==
  ASSUME UNCHANGED queueVars
  PROVE  UNCHANGED <<qpc, thrown, added, verdict>>
  BY Zenon DEF queueVars

\* A step that leaves the coins alone.
LEMMA CoinsSame ==
  ASSUME CoinsInv, UNCHANGED coinsVars
  PROVE  CoinsInv' /\ SameTip /\ SameView /\ SameDb /\ open' = open
<1>1. UNCHANGED <<db, dbBest, tip, tipBest, view, viewBest, open>>
  BY Zenon DEF coinsVars
<1>2. TipCoins' = TipCoins
  BY Zenon, <1>1 DEF TipCoins
<1>3. ViewCoins' = ViewCoins
  BY Zenon, <1>1, <1>2 DEF ViewCoins
<1>4. CoinsInv'
  BY Zenon, CoinsNextStep
<1> QED BY Zenon, <1>1, <1>2, <1>3, <1>4 DEF SameTip, SameView, SameDb

\* The transaction and the input the program is at.
LEMMA Here ==
  ASSUME Typed, InBlock
  PROVE  /\ blk \in Label /\ i \in 1 .. Len(BlockTxs[blk]) /\ Txs = BlockTxs[blk]
         /\ Tx = TxOf(blk, i) /\ Prevout = In(blk, i, j)
         /\ Tx.id \in Txid /\ Tx.outs \in SUBSET Out /\ Len(Tx.ins) \in Nat
         /\ InputLeft <=> j \in 1 .. Len(TxOf(blk, i).ins)
         /\ InputLeft => Prevout[1] \in Txid /\ Prevout[2] \in Out
<1>1. blk \in Label /\ i \in 1 .. Len(BlockTxs[blk]) /\ Txs = BlockTxs[blk]
  BY Zenon DEF Typed, InBlock, Txs
<1>2. Tx = TxOf(blk, i) /\ Prevout = In(blk, i, j)
  BY Zenon DEF Tx, Txs, Prevout, TxOf, In
<1>3. /\ TxOf(blk, i).id \in Txid /\ TxOf(blk, i).outs \in SUBSET Out
      /\ Len(TxOf(blk, i).ins) \in Nat
      /\ DOMAIN TxOf(blk, i).ins = 1 .. Len(TxOf(blk, i).ins)
      /\ \A m \in 1 .. Len(TxOf(blk, i).ins) : In(blk, i, m)[1] \in Txid /\ In(blk, i, m)[2] \in Out
  BY Zenon, <1>1, TxTyped
<1> QED BY Zenon, <1>1, <1>2, <1>3 DEF InputLeft

\* Opening the view of a block, and giving it its label.
LEMMA OpenViewStep ==
  ASSUME CoinsInv, OpenView
  PROVE  CoinsInv' /\ SameTip /\ SameView /\ SameDb /\ open'
         /\ ViewCoins = TipCoins /\ viewBest = tipBest
<1>1. ~open /\ open' /\ UNCHANGED <<db, dbBest, tip, tipBest, view, viewBest>>
  BY Zenon DEF OpenView
<1>2. TipCoins' = TipCoins
  BY Zenon, <1>1 DEF TipCoins
<1>3. ViewCoins' = ViewCoins
  BY Zenon, <1>1, <1>2 DEF ViewCoins
<1>4. CoinsInv'
  BY Zenon, CoinsNextStep DEF CoinsNext
<1>5. ViewCoins = TipCoins /\ viewBest = tipBest
  BY Zenon, <1>1, ClosedView
<1> QED BY Zenon, <1>1, <1>2, <1>3, <1>4, <1>5 DEF SameTip, SameView, SameDb

\* The view gets the label of the block it will be the state of.
LEMMA SetBestStep ==
  ASSUME CoinsInv, NEW b \in Label, SetBestBlock(b)
  PROVE  CoinsInv' /\ SameTip /\ SameDb /\ open /\ open' /\ ViewCoins' = ViewCoins /\ viewBest' = b
<1>1. open /\ open' /\ viewBest' = b /\ UNCHANGED <<db, dbBest, tip, tipBest, view>>
  BY Zenon DEF SetBestBlock
<1>2. TipCoins' = TipCoins
  BY Zenon, <1>1 DEF TipCoins
<1>3. ViewCoins' = ViewCoins
  BY Zenon, <1>1, <1>2 DEF ViewCoins
<1>4. CoinsInv'
  BY Zenon, CoinsNextStep DEF CoinsNext
<1> QED BY Zenon, <1>1, <1>2, <1>3, <1>4 DEF SameTip, SameDb

\* The master goes into the pool.
LEMMA BeginWaitStep ==
  ASSUME Pool, BeginWait
  PROVE  qpc'[Master] = "lock" /\ UNCHANGED <<added, thrown>>
<1>1. qpc' = [qpc EXCEPT ![Master] = "lock"] /\ qpc \in [Thread -> Places] /\ Master \in Thread
  BY Zenon DEF BeginWait, Pool, Thread
<1> QED BY Zenon, <1>1 DEF BeginWait

\* The checks of a transaction are handed to the pool.
LEMMA AddedStep ==
  ASSUME NEW S, Add(S)
  PROVE  qpc'[Master] = "add" /\ added' = added \cup S /\ UNCHANGED thrown
<1>1. qpc[Master] = "add" /\ added' = added \cup S /\ UNCHANGED thrown
  BY Zenon DEF Add
<1>2. PICK W \in Notified(Cardinality(S)) : qpc' = [t \in Thread |-> IF t \in W THEN "awake" ELSE qpc[t]]
  BY Zenon DEF Add
<1>3. W \subseteq Worker
  BY <1>2 DEF Notified, Waiting
<1>4. Master \in Thread /\ Master \notin W
  BY Zenon, <1>3, QueueAssumption DEF Thread
<1> QED BY Zenon, <1>1, <1>2, <1>4

-----------------------------------------------------------------------------
(* ConnectTip *)

\* ConnectTip begins with a view of the coins of the tip.
LEMMA ConnectBeginStep ==
  ASSUME ChainInv, Pool, NEW b \in offered, ConnectBegin(b)
  PROVE  ChainInv'
<1>1. AtIdle /\ Typed /\ OnDisk /\ CoinsInv
  BY Zenon, Where DEF ConnectBegin, ChainInv
<1>2. b \in Label /\ b # Genesis /\ 1 \in 1 .. Len(BlockTxs[b])
  <2>1. b \in Label /\ b # Genesis
    BY Zenon, <1>1, TipAssumption DEF Typed
  <2> QED BY <2>1, BlockTyped, BlockAssumption
<1>3. /\ pc' = "bip30" /\ i' = 1 /\ j' = 1 /\ dir' = "connect" /\ blk' = b
      /\ OpenView /\ Parent[b] = active
      /\ UNCHANGED <<queueVars, offered, active, failed, undo, haveUndo, savedUndo, blockundo, fClean>>
  BY Zenon DEF ConnectBegin, Start
<1>4. UNCHANGED <<qpc, thrown>>
  BY Zenon, <1>1, <1>3, QueueSame
<1>5. CoinsInv' /\ SameTip /\ SameView /\ SameDb /\ open' /\ ViewCoins = TipCoins
      /\ viewBest = tipBest
  BY Zenon, <1>1, <1>3, OpenViewStep
<1>6. OnDisk'
  BY Zenon, <1>1, <1>3, <1>5, DiskSame
<1>7. Typed'
  BY Zenon, <1>1, <1>2, <1>3 DEF Typed
<1>8. i' - 1 = 0 /\ \A l \in 1 .. i' - 1 : IsNew(b, l)
  BY <1>3
<1>9. AtBip30'
  BY Zenon, <1>1, <1>2, <1>3, <1>4, <1>5, <1>8
  DEF AtIdle, AtBip30, MasterOut, TipIs, Connecting, InBlock, Txs, SameTip, SameView
<1> QED BY Zenon, <1>4, <1>5, <1>6, <1>7, <1>9 DEF ChainInv, Place

\* BIP30: the first transaction whose name is taken makes the block invalid.
LEMMA Bip30Step ==
  ASSUME ChainInv, Pool, Bip30
  PROVE  ChainInv'
<1>1. AtBip30 /\ Typed /\ OnDisk /\ CoinsInv /\ InBlock /\ Connecting(i - 1)
  BY Zenon, Where DEF Bip30, ChainInv, AtBip30
<1>2. /\ blk \in Label /\ i \in 1 .. Len(BlockTxs[blk]) /\ Txs = BlockTxs[blk]
      /\ Tx = TxOf(blk, i) /\ Tx.id \in Txid
  BY Zenon, <1>1, Here
<1>3. /\ FetchView(Tx.id)
      /\ UNCHANGED <<queueVars, offered, active, failed, undo, haveUndo, savedUndo, blockundo, fClean>>
  BY Zenon DEF Bip30
<1>4. UNCHANGED <<qpc, thrown>>
  BY Zenon, <1>1, <1>3, QueueSame
<1>5. CoinsInv' /\ SameTip /\ SameView /\ SameDb /\ open' = open
  BY Zenon, <1>1, <1>2, <1>3, FetchViewStep
<1>6. OnDisk'
  BY Zenon, <1>1, <1>3, <1>5, DiskSame
<1>7. ViewCoins[Tx.id] = {} <=> IsNew(blk, i)
  BY Zenon, <1>1, <1>2 DEF AtBip30, Connecting, IsNew
<1>8. CASE ~IsNew(blk, i)
  <2>1. pc' = "reject" /\ i' = 1 /\ j' = 1 /\ UNCHANGED <<dir, blk>>
    BY Zenon, <1>7, <1>8 DEF Bip30, Goto
  <2>2. ~ValidBlock(blk)
    BY Zenon, <1>2, <1>8, ValidMeans
  <2>3. \A l \in 1 .. 0 : IsNew(blk, l)
    OBVIOUS
  <2>4. AtReject'
    BY Zenon, <1>1, <1>3, <1>4, <1>5, <2>1, <2>2, <2>3
    DEF AtBip30, AtReject, MasterOut, TipIs, Connecting, SameTip
  <2>5. Typed'
    BY <1>1, <1>3, <2>1 DEF Typed
  <2> QED BY Zenon, <1>4, <1>5, <1>6, <2>4, <2>5 DEF ChainInv, Place
<1>9. ASSUME IsNew(blk, i)
      PROVE  \A l \in 1 .. i : IsNew(blk, l)
  <2>1. \A l \in 1 .. i : l = i \/ l \in 1 .. i - 1
    BY <1>2, BlockTyped
  <2> QED BY Zenon, <1>1, <1>9, <2>1 DEF Connecting
<1>10. CASE IsNew(blk, i) /\ i < Len(Txs)
  <2>1. pc' = "bip30" /\ i' = i + 1 /\ j' = 1 /\ UNCHANGED <<dir, blk>>
    BY Zenon, <1>7, <1>10 DEF Bip30, Goto
  <2>2. i + 1 \in 1 .. Len(BlockTxs[blk]) /\ i + 1 \in Nat /\ 1 \in Nat /\ (i + 1) - 1 = i
    BY <1>2, <1>10, BlockTyped
  <2>3. AtBip30'
    BY Zenon, <1>1, <1>3, <1>4, <1>5, <1>9, <1>10, <2>1, <2>2
    DEF AtBip30, MasterOut, TipIs, Connecting, SameTip, SameView, InBlock, Txs
  <2>4. Typed'
    BY Zenon, <1>1, <1>3, <2>1, <2>2 DEF Typed
  <2> QED BY Zenon, <1>4, <1>5, <1>6, <2>3, <2>4 DEF ChainInv, Place
<1>11. CASE IsNew(blk, i) /\ ~(i < Len(Txs))
  <2>1. pc' = "control" /\ i' = 1 /\ j' = 1 /\ UNCHANGED <<dir, blk>>
    BY Zenon, <1>7, <1>11 DEF Bip30, Goto
  <2>2. i = Len(BlockTxs[blk]) /\ 1 \in Nat
    BY <1>2, <1>11, BlockTyped
  <2>3. AtControl'
    BY Zenon, <1>1, <1>3, <1>4, <1>5, <1>9, <1>11, <2>1, <2>2
    DEF AtBip30, AtControl, MasterOut, TipIs, Connecting, SameTip, SameView, Txs
  <2>4. Typed'
    BY Zenon, <1>1, <1>3, <2>1, <2>2 DEF Typed
  <2> QED BY Zenon, <1>4, <1>5, <1>6, <2>3, <2>4 DEF ChainInv, Place
<1> QED BY Zenon, <1>8, <1>10, <1>11

\* The control of the pool's work is made; nothing is checked yet.
LEMMA MakeControlStep ==
  ASSUME ChainInv, Pool, MakeControl
  PROVE  ChainInv'
<1>1. AtControl /\ Typed /\ OnDisk /\ CoinsInv /\ Connecting(Len(Txs))
  BY Zenon, Where DEF MakeControl, ChainInv, AtControl
<1>2. /\ OpenControl /\ pc' = "inputs" /\ i' = 1 /\ j' = 1 /\ UNCHANGED <<dir, blk>>
      /\ UNCHANGED <<coinsVars, offered, active, failed, undo, haveUndo, savedUndo, blockundo, fClean>>
  BY Zenon DEF MakeControl, Goto
<1>3. CoinsInv' /\ SameTip /\ SameView /\ SameDb /\ open' = open
  BY Zenon, <1>1, <1>2, CoinsSame
<1>4. qpc'[Master] = "add" /\ added = {} /\ UNCHANGED <<added, thrown>>
  <2>1. qpc' = [qpc EXCEPT ![Master] = "add"] /\ qpc \in [Thread -> Places] /\ Master \in Thread
    BY Zenon, <1>1, <1>2 DEF OpenControl, Pool, Thread
  <2>2. added = {} /\ UNCHANGED <<added, thrown>>
    BY Zenon, <1>1, <1>2 DEF OpenControl, Pool
  <2> QED BY Zenon, <2>1, <2>2
<1>5. OnDisk'
  BY Zenon, <1>1, <1>2, <1>3, DiskSame
<1>6. blk \in Label /\ blk # Genesis /\ 1 \in 1 .. Len(BlockTxs[blk]) /\ 1 \in Nat
  <2>1. blk \in Label /\ blk # Genesis
    BY Zenon, <1>1 DEF Typed, Connecting
  <2> QED BY <2>1, BlockTyped, BlockAssumption
<1>7. Typed'
  BY Zenon, <1>1, <1>2, <1>6 DEF Typed
<1>8. /\ 1 \in 1 .. Len(TxOf(blk, 1).ins) + 1
      /\ \A l \in 1 .. 1 - 1 : HasInputs(blk, l)
      /\ \A m \in 1 .. 1 - 1 : Available(blk, 1, m)
  BY <1>6, TxTyped
<1>9. At(blk, 1 - 1) = UtxoOf[active] /\ ChecksOf(blk, 1 - 1) = {} /\ UndoUpto(blk, 1, 1) = {}
  <2>1. 1 - 1 = 0
    OBVIOUS
  <2>2. At(blk, 0) = UtxoOf[active] /\ ChecksOf(blk, 0) = {}
    BY Zenon, <1>1, <1>6, AtStep, NoChecks DEF Connecting
  <2> QED BY Zenon, <1>6, <2>1, <2>2, UndoGrows
<1>10. AtInputs'
  BY Zenon, <1>1, <1>2, <1>3, <1>4, <1>6, <1>8, <1>9
  DEF AtControl, AtInputs, MasterOut, TipIs, Connecting, SameTip, SameView, InBlock, Txs, Tx, TxOf
<1> QED BY Zenon, <1>3, <1>4, <1>5, <1>7, <1>10 DEF ChainInv, Place

\* HaveInputs: an input that is not there makes the block invalid.
LEMMA HaveInputStep ==
  ASSUME ChainInv, Pool, HaveInput
  PROVE  ChainInv'
<1>1. AtInputs /\ Typed /\ OnDisk /\ CoinsInv /\ InBlock /\ Connecting(Len(Txs)) /\ InputLeft
  BY Zenon, Where DEF HaveInput, ChainInv, AtInputs
<1>2. /\ blk \in Label /\ i \in 1 .. Len(BlockTxs[blk]) /\ Txs = BlockTxs[blk]
      /\ Tx = TxOf(blk, i) /\ Prevout = In(blk, i, j) /\ j \in 1 .. Len(TxOf(blk, i).ins)
      /\ Prevout[1] \in Txid /\ Len(TxOf(blk, i).ins) \in Nat
  BY Zenon, <1>1, Here
<1>3. /\ FetchView(Prevout[1])
      /\ UNCHANGED <<offered, active, failed, undo, haveUndo, savedUndo, blockundo, fClean>>
  BY Zenon DEF HaveInput
<1>4. CoinsInv' /\ SameTip /\ SameView /\ SameDb /\ open' = open
  BY Zenon, <1>1, <1>2, <1>3, FetchViewStep
<1>5. OnDisk'
  BY Zenon, <1>1, <1>3, <1>4, DiskSame
<1>6. Prevout[2] \in ViewCoins[Prevout[1]] <=> Available(blk, i, j)
  BY Zenon, <1>1, <1>2 DEF AtInputs, Available
<1>7. CASE Available(blk, i, j)
  <2>1. pc' = "inputs" /\ i' = i /\ j' = j + 1 /\ UNCHANGED <<dir, blk, queueVars>>
    BY Zenon, <1>6, <1>7 DEF HaveInput, Goto
  <2>2. UNCHANGED <<qpc, thrown, added>>
    BY Zenon, <1>1, <2>1, QueueSame
  <2>3. /\ j + 1 \in 1 .. Len(TxOf(blk, i).ins) + 1 /\ j + 1 \in Nat
        /\ \A m \in 1 .. (j + 1) - 1 : m = j \/ m \in 1 .. j - 1
    BY <1>2
  <2>4. \A m \in 1 .. (j + 1) - 1 : Available(blk, i, m)
    BY Zenon, <1>1, <1>7, <2>3 DEF AtInputs
  <2>5. AtInputs'
    BY Zenon, <1>1, <1>2, <1>3, <1>4, <2>1, <2>2, <2>3, <2>4
    DEF AtInputs, TipIs, Connecting, SameTip, SameView, InBlock, Txs, Tx
  <2>6. Typed'
    BY Zenon, <1>1, <1>3, <2>1, <2>3 DEF Typed
  <2> QED BY Zenon, <1>4, <1>5, <2>2, <2>5, <2>6 DEF ChainInv, Place
<1>8. CASE ~Available(blk, i, j)
  <2>1. pc' = "unwind" /\ i' = 1 /\ j' = 1 /\ BeginWait /\ UNCHANGED <<dir, blk>>
    BY Zenon, <1>6, <1>8 DEF HaveInput, Goto
  <2>2. qpc'[Master] = "lock" /\ UNCHANGED thrown
    BY Zenon, <1>1, <2>1, BeginWaitStep
  <2>3. ~ValidBlock(blk)
    <3>1. j \in DOMAIN TxOf(blk, i).ins
      BY Zenon, <1>2, TxTyped
    <3>2. ~HasInputs(blk, i)
      BY Zenon, <1>8, <3>1 DEF HasInputs
    <3> QED BY Zenon, <1>2, <3>2, ValidMeans
  <2>4. 1 \in Nat /\ \A l \in 1 .. 0 : IsNew(blk, l)
    OBVIOUS
  <2>5. AtUnwind'
    BY Zenon, <1>1, <1>3, <1>4, <2>1, <2>2, <2>3, <2>4
    DEF AtInputs, AtUnwind, TipIs, Connecting, SameTip, InPool
  <2>6. Typed'
    BY Zenon, <1>1, <1>3, <2>1, <2>4 DEF Typed
  <2> QED BY Zenon, <1>4, <1>5, <2>2, <2>5, <2>6 DEF ChainInv, Place
<1> QED BY Zenon, <1>7, <1>8

\* CheckInputs: the checks are new ones, so that the pool counts each once.
LEMMA ChecksAreNew ==
  ASSUME ChainInv, AddChecks
  PROVE  /\ \E S \in SUBSET (Check \ added) : Add(S) /\ added \cup S = ChecksOf(blk, i)
         /\ \A l \in 1 .. i : HasInputs(blk, l)
<1>1. AtInputs /\ Typed /\ InBlock /\ Connecting(Len(Txs)) /\ ~InputLeft
  BY Zenon, Where DEF AddChecks, ChainInv, AtInputs
<1>2. /\ blk \in Label /\ i \in 1 .. Len(BlockTxs[blk]) /\ Txs = BlockTxs[blk]
      /\ Tx = TxOf(blk, i) /\ ~(j \in 1 .. Len(TxOf(blk, i).ins)) /\ Len(TxOf(blk, i).ins) \in Nat
  BY Zenon, <1>1, Here
<1> DEFINE S == {<<Tx.id, k>> : k \in DOMAIN Tx.ins}
<1>3. Add(S)
  BY Zenon DEF AddChecks
<1>4. j - 1 = Len(TxOf(blk, i).ins) /\ Len(BlockTxs[blk]) \in Nat
  <2>1. j \in 1 .. Len(TxOf(blk, i).ins) + 1
    BY Zenon, <1>1, <1>2 DEF AtInputs
  <2> QED BY <1>2, <2>1, BlockTyped
<1>5. /\ \A l \in 1 .. i : l = i \/ l \in 1 .. i - 1
      /\ \A l \in 1 .. i : l \in 1 .. Len(BlockTxs[blk])
  BY <1>2, <1>4
<1>6. HasInputs(blk, i)
  <2>1. DOMAIN TxOf(blk, i).ins = 1 .. Len(TxOf(blk, i).ins)
    BY Zenon, <1>2, TxTyped
  <2> QED BY Zenon, <1>1, <1>4, <2>1 DEF AtInputs, HasInputs
<1>7. \A l \in 1 .. i : HasInputs(blk, l)
  BY Zenon, <1>1, <1>5, <1>6 DEF AtInputs
<1>8. Passed(blk, i)
  BY Zenon, <1>1, <1>2, <1>5, <1>7 DEF Connecting, Passed
<1>9. S \in SUBSET (Check \ added) /\ added \cup S = ChecksOf(blk, i)
  <2>1. blk \in Label \ {Genesis} /\ added = ChecksOf(blk, i - 1)
        /\ S = {<<TxOf(blk, i).id, k>> : k \in DOMAIN TxOf(blk, i).ins}
    BY Zenon, <1>1, <1>2 DEF Connecting, AtInputs
  <2> HIDE DEF S
  <2>2. ChecksOf(blk, i) = ChecksOf(blk, i - 1) \cup S /\ S \subseteq Check
        /\ ChecksOf(blk, i - 1) \cap S = {}
    BY Zenon, <1>2, <1>8, <2>1, ChecksGrow
  <2> QED BY Zenon, <2>1, <2>2
<1> HIDE DEF S
<1> QED BY Zenon, <1>3, <1>7, <1>9

\* The checks of the transaction are in the queue, and its inputs will be spent.
LEMMA AddChecksStep ==
  ASSUME ChainInv, Pool, AddChecks
  PROVE  ChainInv'
<1>1. AtInputs /\ Typed /\ OnDisk /\ CoinsInv /\ InBlock /\ Connecting(Len(Txs)) /\ ~InputLeft
  BY Zenon, Where DEF AddChecks, ChainInv, AtInputs
<1>2. /\ blk \in Label /\ i \in 1 .. Len(BlockTxs[blk]) /\ Txs = BlockTxs[blk]
      /\ Tx = TxOf(blk, i) /\ Len(TxOf(blk, i).ins) \in Nat
  BY Zenon, <1>1, Here
<1>3. /\ pc' = "update" /\ i' = i /\ j' = 1 /\ UNCHANGED <<dir, blk>>
      /\ UNCHANGED <<coinsVars, offered, active, failed, undo, haveUndo, savedUndo, blockundo, fClean>>
  BY Zenon DEF AddChecks, Goto
<1>4. PICK S \in SUBSET (Check \ added) : Add(S) /\ added \cup S = ChecksOf(blk, i)
  BY Zenon, ChecksAreNew
<1>5. qpc'[Master] = "add" /\ added' = ChecksOf(blk, i) /\ UNCHANGED thrown
  BY Zenon, <1>4, AddedStep
<1>6. \A l \in 1 .. i : HasInputs(blk, l)
  BY Zenon, ChecksAreNew
<1>7. CoinsInv' /\ SameTip /\ SameView /\ SameDb /\ open' = open
  BY Zenon, <1>1, <1>3, CoinsSame
<1>8. OnDisk'
  BY Zenon, <1>1, <1>3, <1>7, DiskSame
<1>9. /\ 1 - 1 = 0 /\ 1 \in Nat /\ 1 \in 1 .. Len(TxOf(blk, i).ins) + 1
      /\ i - 1 \in 0 .. Len(BlockTxs[blk])
  BY <1>2, BlockTyped
<1>10. At(blk, i - 1) = Spent(At(blk, i - 1), TxOf(blk, i), 1 - 1)
  BY Zenon, <1>2, <1>9, AtStep, SpentNone
<1>11. AtUpdate'
  BY Zenon, <1>1, <1>2, <1>3, <1>5, <1>6, <1>7, <1>9, <1>10
  DEF AtInputs, AtUpdate, TipIs, Connecting, SameTip, SameView, InBlock, Txs, Tx
<1>12. Typed'
  BY Zenon, <1>1, <1>3, <1>9 DEF Typed
<1> QED BY Zenon, <1>7, <1>8, <1>11, <1>12 DEF ChainInv, Place

\* UpdateCoins: the input is there, and the undo data grows with it.
LEMMA SpendInputStep ==
  ASSUME ChainInv, Pool, SpendInput
  PROVE  ChainInv'
<1>1. AtUpdate /\ Typed /\ OnDisk /\ CoinsInv /\ InBlock /\ Connecting(Len(Txs)) /\ InputLeft
  BY Zenon, Where DEF SpendInput, ChainInv, AtUpdate
<1>2. /\ blk \in Label \ {Genesis} /\ i \in 1 .. Len(BlockTxs[blk]) /\ Txs = BlockTxs[blk]
      /\ Tx = TxOf(blk, i) /\ Prevout = In(blk, i, j) /\ j \in 1 .. Len(TxOf(blk, i).ins)
      /\ Prevout[1] \in Txid /\ Len(TxOf(blk, i).ins) \in Nat
  BY Zenon, <1>1, Here DEF Connecting
<1> DEFINE before == Spent(At(blk, i - 1), TxOf(blk, i), j - 1)
           after == Spent(At(blk, i - 1), TxOf(blk, i), j)
           p == In(blk, i, j)
           left == ViewCoins[Prevout[1]] \ {Prevout[2]}
<1>3. /\ ModifyView(Prevout[1], left)
      /\ blockundo' = IF left = {} THEN blockundo \cup {<<i, j>>} ELSE blockundo
      /\ pc' = "update" /\ i' = i /\ j' = j + 1 /\ UNCHANGED <<dir, blk>>
      /\ UNCHANGED <<queueVars, offered, active, failed, undo, haveUndo, savedUndo, fClean>>
  BY Zenon DEF SpendInput, Goto
<1>4. i \in 1 .. i
  BY <1>2, BlockTyped
<1>5. /\ before \in Coins /\ after[p[1]] = before[p[1]] \ {p[2]}
      /\ after = [before EXCEPT ![p[1]] = after[p[1]]]
  <2>1. HasInputs(blk, i)
    BY Zenon, <1>1, <1>4 DEF AtUpdate
  <2> QED BY Zenon, <1>2, <2>1, SpendOne
<1>6. ViewCoins = before
  BY Zenon, <1>1, <1>2 DEF AtUpdate
<1> HIDE DEF before, after
<1>7. left = after[Prevout[1]] /\ left \in SUBSET Out
  <2>1. ViewCoins[Prevout[1]] \in SUBSET Out
    BY Zenon, <1>2, <1>5, <1>6 DEF Coins
  <2> QED BY Zenon, <1>2, <1>5, <1>6, <2>1
<1> HIDE DEF left
<1>8. /\ CoinsInv' /\ SameTip /\ SameDb /\ open /\ open'
      /\ ViewCoins' = [ViewCoins EXCEPT ![Prevout[1]] = left]
  BY Zenon, <1>1, <1>2, <1>3, <1>7, ModifyViewStep
<1>9. ViewCoins' = Spent(At(blk, i - 1), TxOf(blk, i), j)
  <2>1. ViewCoins' = after
    BY Zenon, <1>2, <1>5, <1>6, <1>7, <1>8
  <2> QED BY Zenon, <2>1 DEF after
<1>10. blockundo' = UndoUpto(blk, i, j + 1)
  <2>1. blockundo = UndoUpto(blk, i, j)
    BY Zenon, <1>1 DEF AtUpdate
  <2>2. left = {} <=> Empties(blk, i, j)
    BY Zenon, <1>2, <1>7 DEF Empties, after
  <2>3. UndoUpto(blk, i, j + 1)
          = IF Empties(blk, i, j) THEN UndoUpto(blk, i, j) \cup {<<i, j>>} ELSE UndoUpto(blk, i, j)
    BY Zenon, <1>2, UndoGrows
  <2> QED BY Zenon, <1>3, <2>1, <2>2, <2>3
<1>11. UNCHANGED <<qpc, thrown, added>>
  BY Zenon, <1>1, <1>3, QueueSame
<1>12. OnDisk'
  BY Zenon, <1>1, <1>3, <1>8, DiskSame
<1>13. (j + 1) - 1 = j /\ j + 1 \in Nat /\ j + 1 \in 1 .. Len(TxOf(blk, i).ins) + 1
  BY <1>2
<1>14. AtUpdate'
  BY Zenon, <1>1, <1>2, <1>3, <1>8, <1>9, <1>10, <1>11, <1>13
  DEF AtUpdate, TipIs, Connecting, SameTip, InBlock, Txs, Tx
<1>15. Typed'
  BY Zenon, <1>1, <1>3, <1>13 DEF Typed
<1> QED BY Zenon, <1>8, <1>11, <1>12, <1>14, <1>15 DEF ChainInv, Place

\* What the view shows when the outputs of a transaction are added.
LEMMA OutputsAdded ==
  ASSUME ChainInv, AddOutputs
  PROVE  /\ CoinsInv' /\ SameTip /\ SameDb /\ open /\ open'
         /\ ViewCoins[Tx.id] = {}
         /\ ViewCoins' = At(blk, i) /\ blockundo = UndoUpto(blk, i + 1, 1)
         /\ blk \in Label \ {Genesis} /\ i \in 1 .. Len(BlockTxs[blk])
         /\ Txs = BlockTxs[blk] /\ Len(BlockTxs[blk]) \in Nat
<1>1. AtUpdate /\ Typed /\ CoinsInv /\ InBlock /\ Connecting(Len(Txs)) /\ ~InputLeft
  BY Zenon, Where DEF AddOutputs, ChainInv, AtUpdate
<1>2. /\ blk \in Label \ {Genesis} /\ i \in 1 .. Len(BlockTxs[blk]) /\ Txs = BlockTxs[blk]
      /\ Tx = TxOf(blk, i) /\ ~(j \in 1 .. Len(TxOf(blk, i).ins)) /\ Len(TxOf(blk, i).ins) \in Nat
      /\ Tx.id \in Txid /\ Tx.outs \in SUBSET Out
  BY Zenon, <1>1, Here DEF Connecting
<1>3. /\ NewInView(Tx.id, i = 1, Tx.outs)
  BY Zenon DEF AddOutputs
<1>4. j - 1 = Len(TxOf(blk, i).ins) /\ j = Len(TxOf(blk, i).ins) + 1 /\ Len(BlockTxs[blk]) \in Nat
  <2>1. j \in 1 .. Len(TxOf(blk, i).ins) + 1
    BY Zenon, <1>1, <1>2 DEF AtUpdate
  <2> QED BY <1>2, <2>1, BlockTyped
<1>5. i - 1 \in 0 .. Len(BlockTxs[blk]) /\ \A l \in 1 .. i : l \in 1 .. Len(BlockTxs[blk])
  BY <1>2, <1>4
<1> DEFINE all == Spent(At(blk, i - 1), TxOf(blk, i), Len(TxOf(blk, i).ins))
<1>6. ViewCoins = all /\ ViewCoins[Tx.id] = {}
  <2>1. Passed(blk, i)
    BY Zenon, <1>1, <1>2, <1>5 DEF AtUpdate, Connecting, Passed
  <2>2. ViewCoins = Spent(At(blk, i - 1), TxOf(blk, i), Len(TxOf(blk, i).ins))
    BY Zenon, <1>1, <1>2, <1>4 DEF AtUpdate
  <2> QED BY Zenon, <1>2, <2>1, <2>2, NameUnspent
<1>7. /\ CoinsInv' /\ SameTip /\ SameDb /\ open /\ open'
      /\ ViewCoins' = [ViewCoins EXCEPT ![Tx.id] = Tx.outs]
  <2> DEFINE coinbase == i = 1
  <2>1. /\ CoinsInv /\ coinbase \in BOOLEAN /\ Tx.id \in Txid /\ Tx.outs \in SUBSET Out
        /\ ~coinbase => ViewCoins[Tx.id] = {}
        /\ NewInView(Tx.id, coinbase, Tx.outs)
    BY Zenon, <1>1, <1>2, <1>3, <1>6
  <2> HIDE DEF coinbase
  <2> QED BY ZenonT(40), <2>1, NewInViewStep
<1>8. At(blk, i) = [all EXCEPT ![Tx.id] = Tx.outs]
  <2>1. /\ TxOf(blk, i) \in Transaction /\ At(blk, i - 1) \in Coins
        /\ At(blk, i) = AfterTx(At(blk, i - 1), TxOf(blk, i))
    BY Zenon, <1>2, <1>5, TxTyped, AtStep
  <2> QED BY Zenon, <1>2, <2>1, SpentAll
<1>9. blockundo = UndoUpto(blk, i + 1, 1)
  BY Zenon, <1>1, <1>2, <1>4, UndoGrows DEF AtUpdate
<1> QED BY Zenon, <1>2, <1>4, <1>6, <1>7, <1>8, <1>9

\* UpdateCoins: the outputs are added; after the last transaction the reward is
\* checked and the master joins the pool.
LEMMA AddOutputsStep ==
  ASSUME ChainInv, Pool, AddOutputs
  PROVE  ChainInv'
<1>1. AtUpdate /\ Typed /\ OnDisk /\ InBlock /\ Connecting(Len(Txs))
  BY Zenon, Where DEF AddOutputs, ChainInv, AtUpdate
<1>2. /\ CoinsInv' /\ SameTip /\ SameDb /\ open /\ open'
      /\ ViewCoins' = At(blk, i) /\ blockundo = UndoUpto(blk, i + 1, 1)
      /\ blk \in Label \ {Genesis} /\ i \in 1 .. Len(BlockTxs[blk])
      /\ Txs = BlockTxs[blk] /\ Len(BlockTxs[blk]) \in Nat
  BY Zenon, OutputsAdded
<1>3. UNCHANGED <<offered, active, failed, undo, haveUndo, savedUndo, blockundo, fClean>>
  BY Zenon DEF AddOutputs
<1>4. OnDisk'
  BY Zenon, <1>1, <1>2, <1>3, DiskSame
<1>5. CASE i < Len(Txs)
  <2>1. pc' = "inputs" /\ i' = i + 1 /\ j' = 1 /\ UNCHANGED <<dir, blk, queueVars>>
    BY Zenon, <1>5 DEF AddOutputs, Goto
  <2>2. UNCHANGED <<qpc, thrown, added>>
    BY Zenon, <1>1, <2>1, QueueSame
  <2>3. /\ i + 1 \in 1 .. Len(BlockTxs[blk]) /\ i + 1 \in Nat /\ 1 \in Nat /\ (i + 1) - 1 = i
        /\ \A m \in 1 .. 1 - 1 : Available(blk, i + 1, m)
    BY <1>2, <1>5
  <2>4. 1 \in 1 .. Len(TxOf(blk, i + 1).ins) + 1
    BY <1>2, <2>3, TxTyped
  <2>5. AtInputs'
    BY Zenon, <1>1, <1>2, <1>3, <2>1, <2>2, <2>3, <2>4
    DEF AtUpdate, AtInputs, TipIs, Connecting, SameTip, InBlock, Txs, Tx, TxOf
  <2>6. Typed'
    BY Zenon, <1>1, <1>3, <2>1, <2>3 DEF Typed
  <2> QED BY Zenon, <1>2, <1>4, <2>2, <2>5, <2>6 DEF ChainInv, Place
<1>6. CASE ~(i < Len(Txs))
  <2>1. /\ pc' = (IF blk \in Overpaying THEN "unwind" ELSE "verify") /\ i' = 1 /\ j' = 1
        /\ BeginWait /\ UNCHANGED <<dir, blk>>
    BY Zenon, <1>6 DEF AddOutputs, Goto
  <2>2. qpc'[Master] = "lock" /\ UNCHANGED <<added, thrown>>
    BY Zenon, <1>1, <2>1, BeginWaitStep
  <2>3. i = Len(BlockTxs[blk]) /\ 1 \in Nat /\ \A l \in 1 .. 0 : IsNew(blk, l)
    BY <1>2, <1>6
  <2>4. Typed'
    BY Zenon, <1>1, <1>3, <2>1, <2>3 DEF Typed
  <2>5. CASE blk \in Overpaying
    <3>1. ~ValidBlock(blk)
      BY Zenon, <1>2, <2>5, ValidMeans
    <3>2. AtUnwind'
      BY Zenon, <1>1, <1>2, <1>3, <2>1, <2>2, <2>3, <2>5, <3>1
      DEF AtUpdate, AtUnwind, TipIs, Connecting, SameTip, InPool
    <3> QED BY Zenon, <1>2, <1>4, <2>2, <2>4, <3>2 DEF ChainInv, Place
  <2>6. CASE blk \notin Overpaying
    <3>1. ViewCoins' = UtxoOf[blk] /\ blockundo = UndoOf(blk)
      BY Zenon, <1>2, <2>3, AtStep DEF UndoOf
    <3>2. AtVerify'
      BY Zenon, <1>1, <1>2, <1>3, <2>1, <2>2, <2>3, <2>6, <3>1
      DEF AtUpdate, AtVerify, TipIs, Connecting, SameTip, InPool, Txs
    <3> QED BY Zenon, <1>2, <1>4, <2>2, <2>4, <3>2 DEF ChainInv, Place
  <2> QED BY Zenon, <2>5, <2>6
<1> QED BY Zenon, <1>5, <1>6

\* The control is gone.
LEMMA CloseControlStep ==
  ASSUME Pool, CloseControl
  PROVE  qpc[Master] = "done" /\ qpc'[Master] = "out" /\ ~thrown'
         /\ verdict = (added \cap Bad = {})
<1>1. qpc' = [qpc EXCEPT ![Master] = "out"] /\ qpc \in [Thread -> Places] /\ Master \in Thread
  BY Zenon DEF CloseControl, Pool, Thread
<1> QED BY Zenon, <1>1 DEF CloseControl, Pool

\* A block that went through everything is valid, and its undo data is complete.
LEMMA ConnectOkStep ==
  ASSUME ChainInv, Pool, ConnectOk
  PROVE  ChainInv'
<1>1. AtVerify /\ Typed /\ OnDisk /\ CoinsInv /\ Connecting(Len(Txs))
  BY Zenon, Where DEF ConnectOk, ChainInv, AtVerify
<1>2. /\ CloseControl /\ verdict /\ ~thrown /\ SetBestBlock(blk)
      /\ undo' = (IF blk \in haveUndo THEN undo ELSE [undo EXCEPT ![blk] = blockundo])
      /\ haveUndo' = haveUndo \cup {blk}
      /\ pc' = "flush" /\ i' = 1 /\ j' = 1 /\ UNCHANGED <<dir, blk>>
      /\ UNCHANGED <<offered, active, failed, savedUndo, blockundo, fClean>>
  BY Zenon DEF ConnectOk, WaitOk, Goto
<1>3. blk \in Label \ {Genesis} /\ Txs = BlockTxs[blk] /\ 1 \in Nat
  BY Zenon, <1>1 DEF Typed, Connecting, Txs
<1>4. qpc'[Master] = "out" /\ ~thrown' /\ added \cap Bad = {}
  BY Zenon, <1>1, <1>2, CloseControlStep
<1>5. ValidBlock(blk)
  <2>1. Passed(blk, Len(BlockTxs[blk])) /\ blk \notin Overpaying
        /\ added = ChecksOf(blk, Len(BlockTxs[blk]))
    BY Zenon, <1>1, <1>3 DEF AtVerify, Connecting, Passed
  <2> QED BY Zenon, <1>3, <1>4, <2>1, ChecksDecide
<1>6. /\ CoinsInv' /\ SameTip /\ SameDb /\ open /\ open'
      /\ ViewCoins' = ViewCoins /\ viewBest' = blk
  BY Zenon, <1>1, <1>2, <1>3, SetBestStep
<1>7. undo' \in [Label -> SUBSET (Nat \X Nat)] /\ undo'[blk] = UndoOf(blk)
      /\ \A b \in haveUndo : undo'[b] = undo[b]
  <2>1. blockundo = UndoOf(blk) /\ UndoOf(blk) \in SUBSET (Nat \X Nat)
    BY Zenon, <1>1 DEF AtVerify, UndoOf, UndoUpto
  <2>2. undo \in [Label -> SUBSET (Nat \X Nat)] /\ haveUndo \subseteq Label
        /\ \A b \in haveUndo : undo[b] = UndoOf(b)
    BY Zenon, <1>1 DEF Typed, OnDisk
  <2>3. CASE blk \in haveUndo
    BY Zenon, <1>2, <2>2, <2>3
  <2>4. CASE blk \notin haveUndo
    <3>1. undo' = [undo EXCEPT ![blk] = UndoOf(blk)]
      BY Zenon, <1>2, <2>1, <2>4
    <3>2. \A b \in haveUndo : b \in Label /\ b # blk
      BY Zenon, <2>2, <2>4
    <3>3. undo' \in [Label -> SUBSET (Nat \X Nat)] /\ undo'[blk] = UndoOf(blk)
      BY Zenon, <1>3, <2>1, <2>2, <3>1
    <3>4. \A b \in haveUndo : undo'[b] = undo[b]
      BY Zenon, <2>2, <3>1, <3>2
    <3> QED BY Zenon, <3>3, <3>4
  <2> QED BY Zenon, <2>3, <2>4
<1>8. OnDisk'
  <2>1. /\ db' = UtxoOf[dbBest'] /\ ValidChain[active'] /\ ValidChain[dbBest']
        /\ ChainOf[active'] \subseteq haveUndo' /\ ChainOf[dbBest'] \subseteq savedUndo'
        /\ savedUndo' \subseteq haveUndo' /\ \A b \in failed' : ~ValidBlock(b)
    BY Zenon, <1>1, <1>2, <1>6 DEF OnDisk, SameDb
  <2>2. \A b \in haveUndo' : b # Genesis /\ ValidBlock(b) /\ undo'[b] = UndoOf(b)
    BY Zenon, <1>1, <1>2, <1>3, <1>5, <1>7 DEF OnDisk
  <2> QED BY Zenon, <2>1, <2>2 DEF OnDisk
<1>9. Typed'
  BY Zenon, <1>1, <1>2, <1>3, <1>7 DEF Typed
<1>10. AtFlush'
  BY Zenon, <1>1, <1>2, <1>4, <1>6
  DEF AtVerify, AtFlush, Done, MasterOut, TipIs, Connecting, SameTip, Target
<1> QED BY Zenon, <1>4, <1>6, <1>8, <1>9, <1>10 DEF ChainInv, Place

\* ConnectBlock failed: the view is dropped, and the block is marked when the
\* pool was not interrupted.
LEMMA ConnectFailedStep ==
  ASSUME ChainInv, Pool, ConnectFailed
  PROVE  ChainInv'
<1>1. Typed /\ OnDisk /\ CoinsInv
  BY Zenon DEF ChainInv
<1>2. /\ DropView /\ InvalidBlockFound
      /\ pc' = "idle" /\ i' = 1 /\ j' = 1 /\ dir' = "connect" /\ blk' = Genesis
      /\ blockundo' = {} /\ fClean' = TRUE
      /\ UNCHANGED <<offered, active, undo, haveUndo, savedUndo>>
  BY Zenon DEF ConnectFailed, Finished, Start
<1>3. CoinsInv' /\ SameDb /\ SameTip /\ ~open'
  BY Zenon, <1>1, <1>2, DropViewStep
<1>4. /\ qpc'[Master] = "out" /\ ~thrown' /\ TipIs(active)
      /\ ~thrown => ~ValidBlock(blk)
  <2>1. CASE pc = "reject" /\ UNCHANGED queueVars
    <3>1. AtReject
      BY Zenon, <2>1, Where
    <3>2. UNCHANGED <<qpc, thrown>>
      BY Zenon, <1>1, <2>1, QueueSame
    <3> QED BY Zenon, <3>1, <3>2 DEF AtReject, MasterOut, Connecting
  <2>2. CASE pc = "unwind" /\ CloseControl
    <3>1. AtUnwind
      BY Zenon, <2>2, Where
    <3> QED BY Zenon, <1>1, <2>2, <3>1, CloseControlStep DEF AtUnwind, Connecting
  <2>3. CASE pc = "verify" /\ CloseControl /\ ~WaitOk
    <3>1. AtVerify
      BY Zenon, <2>3, Where
    <3>2. qpc'[Master] = "out" /\ ~thrown' /\ verdict = (added \cap Bad = {})
      BY Zenon, <1>1, <2>3, CloseControlStep
    <3>3. ASSUME ~thrown PROVE ~ValidBlock(blk)
      <4>1. added \cap Bad # {}
        BY Zenon, <2>3, <3>2, <3>3 DEF WaitOk
      <4>2. blk \in Label \ {Genesis} /\ Passed(blk, Len(BlockTxs[blk])) /\ blk \notin Overpaying
            /\ added = ChecksOf(blk, Len(BlockTxs[blk]))
        BY Zenon, <1>1, <3>1 DEF Typed, AtVerify, Connecting, Passed, Txs
      <4> QED BY Zenon, <4>1, <4>2, ChecksDecide
    <3> QED BY Zenon, <3>1, <3>2, <3>3 DEF AtVerify, Connecting
  <2> QED BY Zenon, <2>1, <2>2, <2>3 DEF ConnectFailed
<1>5. \A b \in failed' : ~ValidBlock(b)
  BY Zenon, <1>1, <1>2, <1>4 DEF InvalidBlockFound, OnDisk
<1>6. OnDisk'
  BY Zenon, <1>1, <1>2, <1>3, <1>5 DEF OnDisk, SameDb
<1>7. 1 \in Nat
  OBVIOUS
<1>8. Typed'
  BY Zenon, <1>1, <1>2, <1>7, TreeAssumption DEF Typed
<1>9. AtIdle'
  BY Zenon, <1>2, <1>3, <1>4 DEF AtIdle, MasterOut, TipIs, SameTip
<1> QED BY Zenon, <1>3, <1>4, <1>6, <1>8, <1>9 DEF ChainInv, Place

-----------------------------------------------------------------------------
(* DisconnectTip *)

\* The tip is valid, so it has transactions to undo.
LEMMA DisconnectBeginStep ==
  ASSUME ChainInv, Pool, DisconnectBegin
  PROVE  ChainInv'
<1>1. AtIdle /\ Typed /\ OnDisk /\ CoinsInv
  BY Zenon, Where DEF DisconnectBegin, ChainInv
<1>2. /\ OpenView /\ active \in haveUndo
      /\ pc' = "remove" /\ i' = Len(BlockTxs[active]) /\ j' = 1 /\ dir' = "disconnect" /\ blk' = active
      /\ UNCHANGED <<queueVars, offered, active, failed, undo, haveUndo, savedUndo, blockundo, fClean>>
  BY Zenon DEF DisconnectBegin, Start
<1>3. active \in Label \ {Genesis}
  BY Zenon, <1>1, <1>2 DEF Typed, OnDisk
<1>4. Len(BlockTxs[active]) \in 1 .. Len(BlockTxs[active]) /\ Len(BlockTxs[active]) \in Nat
      /\ 1 \in Nat
  BY <1>3, BlockTyped, BlockAssumption
<1>5. UNCHANGED <<qpc, thrown>>
  BY Zenon, <1>1, <1>2, QueueSame
<1>6. CoinsInv' /\ SameTip /\ SameView /\ SameDb /\ open' /\ ViewCoins = TipCoins
      /\ viewBest = tipBest
  BY Zenon, <1>1, <1>2, OpenViewStep
<1>7. OnDisk'
  BY Zenon, <1>1, <1>2, <1>6, DiskSame
<1>8. Typed'
  BY Zenon, <1>1, <1>2, <1>3, <1>4 DEF Typed
<1>9. ViewCoins' = At(active, Len(BlockTxs[active]))
  BY Zenon, <1>1, <1>3, <1>6, AtStep DEF AtIdle, TipIs, SameView
<1>10. AtRemove'
  BY Zenon, <1>1, <1>2, <1>4, <1>5, <1>6, <1>9
  DEF AtIdle, AtRemove, Disconnecting, MasterOut, TipIs, InBlock, Txs, SameTip, SameView
<1> QED BY Zenon, <1>5, <1>6, <1>7, <1>8, <1>10 DEF ChainInv, Place

\* A block that is being disconnected is valid, and its undo data is that of the
\* block.
LEMMA Undoing ==
  ASSUME ChainInv, Pool, Disconnecting
  PROVE  /\ blk \in Label \ {Genesis} /\ i \in 1 .. Len(BlockTxs[blk])
         /\ Passed(blk, Len(BlockTxs[blk])) /\ undo[blk] = UndoOf(blk)
         /\ Len(TxOf(blk, i).ins) \in Nat
<1>1. blk \in Label \ {Genesis} /\ ValidBlock(blk) /\ undo[blk] = UndoOf(blk) /\ Typed /\ InBlock
  BY Zenon DEF ChainInv, Typed, OnDisk, Disconnecting
<1>2. i \in 1 .. Len(BlockTxs[blk]) /\ Len(TxOf(blk, i).ins) \in Nat
  BY Zenon, <1>1, Here
<1> QED BY Zenon, <1>1, <1>2, ValidPassed

\* DisconnectBlock: the outputs found are those of the transaction.
LEMMA RemoveOutputsStep ==
  ASSUME ChainInv, Pool, RemoveOutputs
  PROVE  ChainInv'
<1>1. AtRemove /\ Typed /\ OnDisk /\ CoinsInv /\ InBlock /\ Disconnecting
  BY Zenon, Where DEF RemoveOutputs, ChainInv, AtRemove, Disconnecting
<1>2. /\ Tx = TxOf(blk, i) /\ Tx.id \in Txid /\ Txs = BlockTxs[blk]
  BY Zenon, <1>1, Here
<1>3. /\ blk \in Label \ {Genesis} /\ i \in 1 .. Len(BlockTxs[blk])
      /\ Passed(blk, Len(BlockTxs[blk])) /\ Len(TxOf(blk, i).ins) \in Nat
  BY Zenon, <1>1, Undoing
<1>4. /\ ModifyView(Tx.id, {}) /\ fClean' = (fClean /\ ViewCoins[Tx.id] = Tx.outs)
      /\ pc' = "restore" /\ i' = i /\ j' = Len(Tx.ins) /\ UNCHANGED <<dir, blk>>
      /\ UNCHANGED <<queueVars, offered, active, failed, undo, haveUndo, savedUndo, blockundo>>
  BY Zenon DEF RemoveOutputs, Goto
<1>5. /\ CoinsInv' /\ SameTip /\ SameDb /\ open /\ open' /\ viewBest' = viewBest
      /\ ViewCoins' = [ViewCoins EXCEPT ![Tx.id] = {}]
  <2>1. {} \in SUBSET Out
    OBVIOUS
  <2> QED BY Zenon, <1>1, <1>2, <1>4, <2>1, ModifyViewStep
<1>6. /\ ViewCoins[Tx.id] = Tx.outs
      /\ ViewCoins' = Spent(At(blk, i - 1), TxOf(blk, i), Len(TxOf(blk, i).ins))
  <2>1. ViewCoins = At(blk, i)
    BY Zenon, <1>1 DEF AtRemove
  <2>2. /\ At(blk, i)[TxOf(blk, i).id] = TxOf(blk, i).outs
        /\ Spent(At(blk, i - 1), TxOf(blk, i), Len(TxOf(blk, i).ins))
             = [At(blk, i) EXCEPT ![TxOf(blk, i).id] = {}]
    BY Zenon, <1>3, RemoveOne
  <2> QED BY Zenon, <1>2, <1>5, <2>1, <2>2
<1>7. UNCHANGED <<qpc, thrown>>
  BY Zenon, <1>1, <1>4, QueueSame
<1>8. OnDisk'
  BY Zenon, <1>1, <1>4, <1>5, DiskSame
<1>9. Typed'
  BY Zenon, <1>1, <1>2, <1>3, <1>4, <1>6 DEF Typed
<1>10. Len(TxOf(blk, i).ins) \in 0 .. Len(TxOf(blk, i).ins)
  BY <1>3
<1>11. AtRestore'
  BY Zenon, <1>1, <1>2, <1>4, <1>5, <1>6, <1>7, <1>10
  DEF AtRestore, Disconnecting, MasterOut, TipIs, InBlock, Txs, Tx, SameTip
<1> QED BY Zenon, <1>5, <1>7, <1>8, <1>9, <1>11 DEF ChainInv, Place

\* ApplyTxInUndo: the undo data restores exactly what the input spent.
LEMMA RestoreInputStep ==
  ASSUME ChainInv, Pool, RestoreInput
  PROVE  ChainInv'
<1>1. AtRestore /\ Typed /\ OnDisk /\ CoinsInv /\ InBlock /\ Disconnecting /\ InputLeft
  BY Zenon, Where DEF RestoreInput, ChainInv, AtRestore, Disconnecting
<1>2. /\ Tx = TxOf(blk, i) /\ Prevout = In(blk, i, j) /\ j \in 1 .. Len(TxOf(blk, i).ins)
      /\ Prevout[1] \in Txid /\ Prevout[2] \in Out /\ Txs = BlockTxs[blk]
  BY Zenon, <1>1, Here
<1>3. /\ blk \in Label \ {Genesis} /\ i \in 1 .. Len(BlockTxs[blk]) /\ undo[blk] = UndoOf(blk)
      /\ Passed(blk, Len(BlockTxs[blk])) /\ Len(TxOf(blk, i).ins) \in Nat
  BY Zenon, <1>1, Undoing
<1> DEFINE before == Spent(At(blk, i - 1), TxOf(blk, i), j - 1)
           after == Spent(At(blk, i - 1), TxOf(blk, i), j)
           p == In(blk, i, j)
<1>4. /\ <<i, j>> \in UndoOf(blk) <=> after[p[1]] = {}
      /\ p[2] \notin after[p[1]]
      /\ after[p[1]] \cup {p[2]} \in SUBSET Out
      /\ before = [after EXCEPT ![p[1]] = after[p[1]] \cup {p[2]}]
  BY Zenon, <1>2, <1>3, RestoreOne
<1>5. ViewCoins = after
  BY Zenon, <1>1, <1>2 DEF AtRestore
<1> HIDE DEF before, after
<1> DEFINE last == <<i, j>> \in undo[blk]
           had == ViewCoins[Prevout[1]]
           kept == IF last THEN {} ELSE had
<1>6. /\ ModifyView(Prevout[1], kept \cup {Prevout[2]})
      /\ fClean' = (fClean /\ (last <=> had = {}) /\ Prevout[2] \notin kept)
      /\ pc' = "restore" /\ i' = i /\ j' = j - 1 /\ UNCHANGED <<dir, blk>>
      /\ UNCHANGED <<queueVars, offered, active, failed, undo, haveUndo, savedUndo, blockundo>>
  BY Zenon DEF RestoreInput, Goto
<1>7. (last <=> had = {}) /\ had = after[p[1]]
  BY Zenon, <1>2, <1>3, <1>4, <1>5
<1>8. kept = had
  BY Zenon, <1>7
<1> HIDE DEF last, kept, had
<1>9. fClean'
  BY Zenon, <1>1, <1>2, <1>4, <1>6, <1>7, <1>8 DEF Typed
<1>10. /\ CoinsInv' /\ SameTip /\ SameDb /\ open /\ open' /\ viewBest' = viewBest
       /\ ViewCoins' = [ViewCoins EXCEPT ![Prevout[1]] = kept \cup {Prevout[2]}]
  <2>1. kept \cup {Prevout[2]} \in SUBSET Out
    BY Zenon, <1>2, <1>4, <1>7, <1>8
  <2> QED BY Zenon, <1>1, <1>2, <1>6, <2>1, ModifyViewStep
<1>11. ViewCoins' = Spent(At(blk, i - 1), TxOf(blk, i), j - 1)
  <2>1. ViewCoins' = before
    BY Zenon, <1>2, <1>4, <1>5, <1>7, <1>8, <1>10
  <2> QED BY Zenon, <2>1 DEF before
<1>12. UNCHANGED <<qpc, thrown>>
  BY Zenon, <1>1, <1>6, QueueSame
<1>13. OnDisk'
  BY Zenon, <1>1, <1>6, <1>10, DiskSame
<1>14. j - 1 \in 0 .. Len(TxOf(blk, i).ins) /\ j - 1 \in Nat
  BY <1>2, <1>3
<1>15. fClean' = TRUE
  BY <1>6, <1>9
<1>16. Typed'
  BY Zenon, <1>1, <1>6, <1>14, <1>15 DEF Typed
<1>17. AtRestore'
  BY Zenon, <1>1, <1>2, <1>6, <1>10, <1>11, <1>12, <1>14
  DEF AtRestore, Disconnecting, MasterOut, TipIs, InBlock, Txs, Tx, SameTip
<1> QED BY Zenon, <1>10, <1>12, <1>13, <1>16, <1>17 DEF ChainInv, Place

\* When the inputs of a transaction are restored the coins are those before it.
LEMMA DisconnectNextStep ==
  ASSUME ChainInv, Pool, DisconnectNext
  PROVE  ChainInv'
<1>1. AtRestore /\ Typed /\ OnDisk /\ CoinsInv /\ InBlock /\ Disconnecting /\ ~InputLeft
  BY Zenon, Where DEF DisconnectNext, ChainInv, AtRestore, Disconnecting
<1>2. Tx = TxOf(blk, i) /\ ~(j \in 1 .. Len(TxOf(blk, i).ins)) /\ Txs = BlockTxs[blk]
  BY Zenon, <1>1, Here
<1>3. /\ blk \in Label \ {Genesis} /\ i \in 1 .. Len(BlockTxs[blk])
      /\ Len(TxOf(blk, i).ins) \in Nat
  BY Zenon, <1>1, Undoing
<1>4. Len(BlockTxs[blk]) \in Nat /\ Parent[blk] \in Label
  BY Zenon, <1>3, BlockTyped
<1>5. UNCHANGED <<queueVars, offered, active, failed, undo, haveUndo, savedUndo, blockundo, fClean>>
  BY Zenon DEF DisconnectNext
<1>6. ViewCoins = At(blk, i - 1)
  <2>1. j = 0 /\ i - 1 \in 0 .. Len(BlockTxs[blk])
    <3>1. j \in 0 .. Len(TxOf(blk, i).ins)
      BY Zenon, <1>1, <1>2 DEF AtRestore
    <3> QED BY <1>2, <1>3, <1>4, <3>1
  <2>2. ViewCoins = Spent(At(blk, i - 1), TxOf(blk, i), 0)
    BY Zenon, <1>1, <1>2, <2>1 DEF AtRestore
  <2>3. At(blk, i - 1) \in Coins
    BY Zenon, <1>3, <2>1, AtStep
  <2> QED BY Zenon, <2>2, <2>3, SpentNone
<1>7. UNCHANGED <<qpc, thrown>>
  BY Zenon, <1>1, <1>5, QueueSame
<1>8. CASE i > 1
  <2>0. i # 1
    BY <1>3, <1>8
  <2>1. pc' = "remove" /\ i' = i - 1 /\ j' = 1 /\ UNCHANGED <<dir, blk, coinsVars>>
    BY Zenon, <1>8, <2>0 DEF DisconnectNext, Goto
  <2>2. i - 1 \in 1 .. Len(BlockTxs[blk]) /\ i - 1 \in Nat /\ 1 \in Nat
    BY <1>3, <1>4, <1>8
  <2>3. CoinsInv' /\ SameTip /\ SameView /\ SameDb /\ open' = open
    BY Zenon, <1>1, <2>1, CoinsSame
  <2>4. OnDisk'
    BY Zenon, <1>1, <1>5, <2>3, DiskSame
  <2>5. Typed'
    BY Zenon, <1>1, <1>5, <2>1, <2>2 DEF Typed
  <2>6. AtRemove'
    BY Zenon, <1>1, <1>2, <1>5, <1>6, <1>7, <2>1, <2>2, <2>3
    DEF AtRemove, Disconnecting, MasterOut, TipIs, InBlock, Txs, SameTip, SameView
  <2> QED BY Zenon, <1>7, <2>3, <2>4, <2>5, <2>6 DEF ChainInv, Place
<1>9. CASE ~(i > 1)
  <2>0. i = 1 /\ i - 1 = 0 /\ 1 \in Nat
    BY <1>3, <1>4, <1>9
  <2>1. pc' = "flush" /\ i' = 1 /\ j' = 1 /\ UNCHANGED <<dir, blk>> /\ SetBestBlock(Parent[blk])
    BY Zenon, <1>1, <1>9, <2>0 DEF DisconnectNext, Goto, Typed
  <2>2. /\ CoinsInv' /\ SameTip /\ SameDb /\ open /\ open'
        /\ ViewCoins' = ViewCoins /\ viewBest' = Parent[blk]
    BY Zenon, <1>1, <1>4, <2>1, SetBestStep
  <2>3. OnDisk'
    BY Zenon, <1>1, <1>5, <2>2, DiskSame
  <2>4. Typed'
    BY Zenon, <1>1, <1>5, <2>0, <2>1 DEF Typed
  <2>5. ViewCoins' = UtxoOf[Parent[blk]]
    BY Zenon, <1>3, <1>6, <2>0, <2>2, AtStep
  <2>6. dir' = "disconnect" /\ "disconnect" # "connect"
    BY <1>1, <2>1 DEF Disconnecting
  <2>7. AtFlush'
    BY Zenon, <1>1, <1>5, <1>7, <2>1, <2>2, <2>5, <2>6
    DEF Disconnecting, AtFlush, Done, MasterOut, TipIs, Target, SameTip
  <2> QED BY Zenon, <1>7, <2>2, <2>3, <2>4, <2>7 DEF ChainInv, Place
<1> QED BY Zenon, <1>8, <1>9

-----------------------------------------------------------------------------
(* What both end with *)

\* The block's view is written to pcoinsTip.
LEMMA CommitViewStep ==
  ASSUME ChainInv, Pool, CommitView
  PROVE  ChainInv'
<1>1. AtFlush /\ Typed /\ OnDisk /\ CoinsInv
  BY Zenon, Where DEF CommitView, ChainInv
<1>2. /\ FlushView /\ pc' = "write" /\ i' = 1 /\ j' = 1 /\ UNCHANGED <<dir, blk>>
      /\ UNCHANGED <<queueVars, offered, active, failed, undo, haveUndo, savedUndo, blockundo, fClean>>
  BY Zenon DEF CommitView, Goto
<1>3. CoinsInv' /\ SameDb /\ ~open' /\ TipCoins' = ViewCoins /\ tipBest' = viewBest
  BY Zenon, <1>1, <1>2, FlushViewStep
<1>4. UNCHANGED <<qpc, thrown>>
  BY Zenon, <1>1, <1>2, QueueSame
<1>5. OnDisk'
  BY Zenon, <1>1, <1>2, <1>3, DiskSame
<1>6. 1 \in Nat
  OBVIOUS
<1>7. Typed'
  BY Zenon, <1>1, <1>2, <1>6 DEF Typed
<1>8. Target' = Target
  BY Zenon, <1>2 DEF Target
<1>9. AtWrite'
  BY Zenon, <1>1, <1>2, <1>3, <1>4, <1>8 DEF AtFlush, AtWrite, Done, MasterOut, TipIs
<1> QED BY Zenon, <1>3, <1>4, <1>5, <1>7, <1>9 DEF ChainInv, Place

\* The block that becomes the tip ends a valid chain, all of which can be undone.
LEMMA TargetFits ==
  ASSUME ChainInv, Pool, Done
  PROVE  Target \in Label /\ ValidChain[Target] /\ ChainOf[Target] \subseteq haveUndo
<1>1. blk \in Label \ {Genesis} /\ ValidBlock(blk) /\ blk \in haveUndo
      /\ ValidChain[active] /\ ChainOf[active] \subseteq haveUndo
  BY Zenon DEF ChainInv, Typed, OnDisk, Done
<1>2. /\ ValidChain[blk] <=> ValidChain[Parent[blk]] /\ ValidBlock(blk)
      /\ ChainOf[blk] = ChainOf[Parent[blk]] \cup {blk} /\ Parent[blk] \in Label
  BY Zenon, <1>1, ValidChainStep, ChainOfStep, BlockTyped
<1>3. CASE dir = "connect"
  <2>1. Target = blk /\ active = Parent[blk]
    BY Zenon, <1>3 DEF Done, Target
  <2> QED BY Zenon, <1>1, <1>2, <2>1
<1>4. CASE dir # "connect"
  <2>1. Target = Parent[blk] /\ active = blk
    BY Zenon, <1>4 DEF Done, Target
  <2> QED BY Zenon, <1>1, <1>2, <2>1
<1> QED BY Zenon, <1>3, <1>4

\* UpdateTip, with or without a write of everything to disk.
LEMMA UpdateTipStep ==
  ASSUME ChainInv, Pool, UpdateTip
  PROVE  ChainInv'
<1>1. AtWrite /\ Done /\ Typed /\ OnDisk /\ CoinsInv
  BY Zenon, Where DEF UpdateTip, ChainInv, AtWrite
<1>2. /\ pc' = "idle" /\ i' = 1 /\ j' = 1 /\ dir' = "connect" /\ blk' = Genesis
      /\ blockundo' = {} /\ fClean' = TRUE /\ active' = Target
      /\ UNCHANGED <<queueVars, offered, failed, undo, haveUndo>>
  BY Zenon DEF UpdateTip, Finished, Start, Target
<1>3. Target \in Label /\ ValidChain[Target] /\ ChainOf[Target] \subseteq haveUndo
  BY Zenon, <1>1, TargetFits
<1>4. UNCHANGED <<qpc, thrown>>
  BY Zenon, <1>1, <1>2, QueueSame
<1>5. 1 \in Nat
  OBVIOUS
<1>6. Typed'
  BY Zenon, <1>1, <1>2, <1>3, <1>5, TreeAssumption DEF Typed
<1>7. CoinsInv' /\ SameTip /\ ~open' /\ OnDisk'
  <2>1. CASE WriteChainState
    <3>1. FlushTip /\ savedUndo' = haveUndo
      BY Zenon, <2>1 DEF WriteChainState
    <3>2. CoinsInv' /\ SameTip /\ ~open' /\ db' = TipCoins /\ dbBest' = tipBest
      BY Zenon, <1>1, <3>1, FlushTipStep
    <3>3. db' = UtxoOf[Target] /\ dbBest' = Target
      BY Zenon, <1>1, <3>2 DEF AtWrite, TipIs
    <3>4. OnDisk'
      BY Zenon, <1>1, <1>2, <1>3, <3>1, <3>3 DEF OnDisk
    <3> QED BY Zenon, <3>2, <3>4
  <2>2. CASE UNCHANGED <<coinsVars, savedUndo>>
    <3>1. CoinsInv' /\ SameTip /\ SameDb /\ open' = open
      BY Zenon, <1>1, <2>2, CoinsSame
    <3>2. OnDisk'
      BY Zenon, <1>1, <1>2, <1>3, <2>2, <3>1 DEF OnDisk, SameDb
    <3> QED BY Zenon, <1>1, <3>1, <3>2 DEF AtWrite
  <2> QED BY Zenon, <2>1, <2>2 DEF UpdateTip
<1>8. AtIdle'
  BY Zenon, <1>1, <1>2, <1>4, <1>7 DEF AtWrite, AtIdle, Done, MasterOut, TipIs, SameTip
<1> QED BY Zenon, <1>4, <1>6, <1>7, <1>8 DEF ChainInv, Place

\* Between two blocks the coins do not change, only where they are kept.
LEMMA BetweenBlocksStep ==
  ASSUME ChainInv, Pool, BetweenBlocks
  PROVE  ChainInv'
<1>1. AtIdle /\ Typed /\ OnDisk /\ CoinsInv
  BY Zenon, Where DEF BetweenBlocks, ChainInv
<1>2. UNCHANGED <<queueVars, offered, active, failed, undo, haveUndo, pc, dir, blk, i, j, blockundo, fClean>>
  BY Zenon DEF BetweenBlocks
<1>3. UNCHANGED <<qpc, thrown>>
  BY Zenon, <1>1, <1>2, QueueSame
<1>4. CoinsInv' /\ SameTip /\ ~open' /\ OnDisk'
  <2>1. ASSUME NEW t \in Read, FetchTip(t) \/ Uncache(t), UNCHANGED savedUndo
        PROVE  CoinsInv' /\ SameTip /\ ~open' /\ OnDisk'
    <3>1. t \in Txid
      BY Zenon, TipAssumption
    <3>2. CoinsInv' /\ SameTip /\ SameDb /\ open' = open
      BY Zenon, <1>1, <2>1, <3>1, FetchTipStep, UncacheStep
    <3>3. OnDisk'
      BY Zenon, <1>1, <1>2, <2>1, <3>2, DiskSame
    <3> QED BY Zenon, <1>1, <3>2, <3>3 DEF AtIdle
  <2>2. CASE WriteChainState
    <3>1. FlushTip /\ savedUndo' = haveUndo
      BY Zenon, <2>2 DEF WriteChainState
    <3>2. CoinsInv' /\ SameTip /\ ~open' /\ db' = TipCoins /\ dbBest' = tipBest
      BY Zenon, <1>1, <3>1, FlushTipStep
    <3>3. db' = UtxoOf[active] /\ dbBest' = active
      BY Zenon, <1>1, <3>2 DEF AtIdle, TipIs
    <3>4. OnDisk'
      BY Zenon, <1>1, <1>2, <3>1, <3>3 DEF OnDisk
    <3> QED BY Zenon, <3>2, <3>4
  <2> QED BY Zenon, <2>1, <2>2 DEF BetweenBlocks
<1>5. Typed'
  BY Zenon, <1>1, <1>2 DEF Typed
<1>6. AtIdle'
  BY Zenon, <1>1, <1>2, <1>3, <1>4 DEF AtIdle, MasterOut, TipIs, SameTip
<1> QED BY Zenon, <1>3, <1>4, <1>5, <1>6 DEF ChainInv, Place

-----------------------------------------------------------------------------
(* The pool, and the end of the process *)

\* A step of a thread in the loop moves the master only inside the pool.
LEMMA ServeMaster ==
  ASSUME NEW t \in Thread, NEW pcs \in [Thread -> Places], NEW todo, NEW ok, NEW total, NEW idle,
         Serve(t, pcs, todo, ok, total, idle), qpc[t] \in {"lock", "exec", "awake"},
         pcs[Master] = qpc[Master] \/ (qpc[Master] = "wait" /\ pcs[Master] = "awake")
  PROVE  /\ UNCHANGED <<added, thrown>>
         /\ qpc[Master] \in {"out", "add"} => qpc'[Master] = qpc[Master]
         /\ qpc[Master] \in InPool => qpc'[Master] \in InPool
<1>1. UNCHANGED <<added, thrown>>
  BY Zenon DEF Serve
<1>2. PICK x \in {"exec", "done", "wait"} : qpc' = [pcs EXCEPT ![t] = x]
  BY Zenon DEF Serve, Take, Return, Sleep
<1>3. Master \in Thread
  BY Zenon DEF Thread
<1>4. CASE t = Master
  <2>1. qpc'[Master] = x
    BY Zenon, <1>2, <1>3, <1>4
  <2> QED BY <1>1, <1>2, <1>4, <2>1 DEF InPool
<1>5. CASE t # Master
  <2>1. qpc'[Master] = pcs[Master]
    BY Zenon, <1>2, <1>3, <1>5
  <2> QED BY <1>1, <2>1 DEF InPool
<1> QED BY Zenon, <1>4, <1>5

\* What the pool does on its own does not end or begin a block.
LEMMA PoolMoves ==
  ASSUME Pool, PoolNext \/ InterruptAll
  PROVE  /\ UNCHANGED added
         /\ qpc[Master] \in {"out", "add"} => (thrown' => thrown) /\ qpc'[Master] = qpc[Master]
         /\ qpc[Master] \in InPool => qpc'[Master] \in InPool
         /\ (thrown' => thrown) \/ Interrupted(Master)
<1>1. qpc \in [Thread -> Places] /\ Master \in Thread
  BY Zenon DEF Pool, Thread
<1>2. ASSUME NEW t \in Thread, Enter(t) \/ Resume(t)
      PROVE  /\ UNCHANGED <<added, thrown>>
             /\ qpc[Master] \in {"out", "add"} => qpc'[Master] = qpc[Master]
             /\ qpc[Master] \in InPool => qpc'[Master] \in InPool
  <2>1. qpc[t] \in {"lock", "exec", "awake"}
        /\ \E total, idle : Serve(t, qpc, nTodo, fAllOk, total, idle)
    BY Zenon, <1>2 DEF Enter, Resume
  <2> QED BY Zenon, <1>1, <2>1, ServeMaster
<1>3. ASSUME NEW t \in Thread, Finish(t)
      PROVE  /\ UNCHANGED <<added, thrown>>
             /\ qpc[Master] \in {"out", "add"} => qpc'[Master] = qpc[Master]
             /\ qpc[Master] \in InPool => qpc'[Master] \in InPool
  <2>1. PICK todo : \E ok : Serve(t, MasterWoken(t, todo), todo, ok, nTotal, nIdle)
    BY Zenon, <1>3 DEF Finish
  <2>2. /\ MasterWoken(t, todo) \in [Thread -> Places]
        /\ \/ MasterWoken(t, todo)[Master] = qpc[Master]
           \/ qpc[Master] = "wait" /\ MasterWoken(t, todo)[Master] = "awake"
    BY <1>1 DEF MasterWoken, Places
  <2>3. qpc[t] \in {"lock", "exec", "awake"}
    BY Zenon, <1>3 DEF Finish
  <2> QED BY Zenon, <2>1, <2>2, <2>3, ServeMaster
<1>4. ASSUME NEW t \in Thread, SpuriousWake(t) \/ Interrupted(t)
      PROVE  /\ UNCHANGED added
             /\ (thrown' => thrown) \/ Interrupted(Master)
             /\ qpc[Master] \in {"out", "add"} => (thrown' => thrown) /\ qpc'[Master] = qpc[Master]
             /\ qpc[Master] \in InPool => qpc'[Master] \in InPool
  <2>1. PICK x \in {"awake", "lock", "gone"} :
          /\ qpc' = [qpc EXCEPT ![t] = x]
          /\ x = "gone" => t # Master
          /\ qpc[t] \in {"wait", "awake"}
    BY Zenon, <1>4 DEF SpuriousWake, Interrupted
  <2>2. UNCHANGED added /\ ((thrown' => thrown) \/ (t = Master /\ Interrupted(t)))
    <3>1. CASE SpuriousWake(t)
      BY Zenon, <3>1 DEF SpuriousWake
    <3>2. CASE Interrupted(t)
      <4>1. UNCHANGED added /\ thrown' = (thrown \/ t = Master)
        BY Zenon, <3>2 DEF Interrupted
      <4> QED BY Zenon, <3>2, <4>1
    <3> QED BY Zenon, <1>4, <3>1, <3>2
  <2>3. CASE t = Master
    <3>1. qpc'[Master] = x
      BY Zenon, <1>1, <2>1, <2>3
    <3> QED BY <2>1, <2>2, <2>3, <3>1 DEF InPool
  <2>4. CASE t # Master
    <3>1. qpc'[Master] = qpc[Master]
      BY Zenon, <1>1, <2>1, <2>4
    <3> QED BY Zenon, <2>2, <2>4, <3>1
  <2> QED BY Zenon, <2>3, <2>4
<1>5. CASE InterruptAll
  BY Zenon, <1>5 DEF InterruptAll
<1>6. CASE PoolNext
  <2>1. PICK t \in Thread : ThreadStep(t) \/ SpuriousWake(t) \/ Interrupted(t)
    BY Zenon, <1>6 DEF PoolNext
  <2>2. CASE Enter(t) \/ Resume(t)
    BY Zenon, <1>2, <2>2
  <2>3. CASE Finish(t)
    BY Zenon, <1>3, <2>3
  <2>4. CASE SpuriousWake(t) \/ Interrupted(t)
    BY Zenon, <1>4, <2>4
  <2> QED BY Zenon, <2>1, <2>2, <2>3, <2>4 DEF ThreadStep
<1> QED BY Zenon, <1>5, <1>6

\* The pool works on a block, or on nothing, without moving the block along.
LEMMA PoolStepStep ==
  ASSUME ChainInv, Pool, PoolStep
  PROVE  ChainInv'
<1>1. Typed /\ OnDisk /\ CoinsInv /\ Place
  BY Zenon DEF ChainInv
<1>2. /\ PoolNext \/ InterruptAll
      /\ ~(pc = "unwind" /\ Interrupted(Master))
      /\ UNCHANGED <<coinsVars, tipVars>>
  BY Zenon DEF PoolStep
<1>3. UNCHANGED <<offered, active, failed, undo, haveUndo, savedUndo, pc, dir, blk, i, j, blockundo, fClean>>
  BY Zenon, <1>2 DEF tipVars
<1>4. CoinsInv' /\ SameTip /\ SameView /\ SameDb /\ open' = open
  BY Zenon, <1>1, <1>2, CoinsSame
<1>5. /\ UNCHANGED added
      /\ qpc[Master] \in {"out", "add"} => (thrown' => thrown) /\ qpc'[Master] = qpc[Master]
      /\ qpc[Master] \in InPool => qpc'[Master] \in InPool
      /\ (thrown' => thrown) \/ Interrupted(Master)
  BY Zenon, <1>1, <1>2, PoolMoves
<1>6. OnDisk' /\ Typed'
  BY Zenon, <1>1, <1>3, <1>4, DiskSame DEF Typed
<1>7. Tx' = Tx /\ Txs' = Txs /\ Target' = Target
  BY Zenon, <1>3 DEF Tx, Txs, Target
<1>8. MasterOut => MasterOut'
  BY Zenon, <1>5 DEF MasterOut
<1>9. qpc[Master] = "add" /\ ~thrown => qpc'[Master] = "add" /\ ~thrown'
  BY Zenon, <1>5
<1>10. ASSUME NEW k PROVE Connecting(k) => Connecting(k)'
  BY Zenon, <1>3, <1>4 DEF Connecting, TipIs, SameTip
<1>11. Disconnecting => Disconnecting'
  BY Zenon, <1>3, <1>4, <1>7, <1>8 DEF Disconnecting, TipIs, InBlock, SameTip, SameView
<1>12. Done => Done'
  BY Zenon, <1>3, <1>8 DEF Done
<1> SUFFICES Place'
  BY Zenon, <1>4, <1>5, <1>6 DEF ChainInv
<1>13. CASE AtIdle \/ AtReject
  BY Zenon, <1>3, <1>4, <1>8, <1>10, <1>13 DEF AtIdle, AtReject, TipIs, SameTip, Place
<1>14. CASE AtBip30 \/ AtControl
  BY Zenon, <1>3, <1>4, <1>7, <1>8, <1>10, <1>14 DEF AtBip30, AtControl, InBlock, SameView, Place
<1>15. CASE AtInputs
  BY Zenon, <1>3, <1>4, <1>5, <1>7, <1>9, <1>10, <1>15 DEF AtInputs, InBlock, SameView, Place
<1>16. CASE AtUpdate
  BY Zenon, <1>3, <1>4, <1>5, <1>7, <1>9, <1>10, <1>16 DEF AtUpdate, InBlock, SameView, Place
<1>17. CASE AtVerify
  BY Zenon, <1>3, <1>4, <1>5, <1>7, <1>10, <1>17 DEF AtVerify, SameView, Place
<1>18. CASE AtUnwind
  BY Zenon, <1>2, <1>3, <1>5, <1>10, <1>18 DEF AtUnwind, Place
<1>19. CASE AtRemove \/ AtRestore
  BY Zenon, <1>3, <1>4, <1>7, <1>11, <1>19 DEF AtRemove, AtRestore, SameView, Place
<1>20. CASE AtFlush \/ AtWrite
  BY Zenon, <1>3, <1>4, <1>7, <1>12, <1>20 DEF AtFlush, AtWrite, TipIs, SameTip, SameView, Place
<1> QED
  BY Zenon, <1>1, <1>13, <1>14, <1>15, <1>16, <1>17, <1>18, <1>19, <1>20 DEF Place

\* After a crash the node continues from what is on disk.
LEMMA CrashTipStep ==
  ASSUME ChainInv, Pool, Crash
  PROVE  ChainInv'
<1>1. Typed /\ OnDisk /\ CoinsInv
  BY Zenon DEF ChainInv
<1>2. CoinsInv' /\ SameDb /\ ~open' /\ TipCoins' = db /\ tipBest' = dbBest
  BY Zenon, <1>1, CrashStep DEF Crash
<1>3. QueueInit'
  BY Zenon DEF Crash, QueueInit
<1>5. /\ pc' = "idle" /\ i' = 1 /\ j' = 1 /\ dir' = "connect" /\ blk' = Genesis
      /\ blockundo' = {} /\ fClean' = TRUE /\ active' = dbBest /\ offered' = offered
      /\ failed' \in SUBSET failed
  BY Zenon DEF Crash, Finished, Start
<1>6. PICK B \in SUBSET haveUndo :
        /\ savedUndo \subseteq B /\ haveUndo' = B /\ savedUndo' = B
        /\ undo' = [b \in Label |-> IF b \in B THEN undo[b] ELSE {}]
  BY Zenon DEF Crash
<1>7. /\ B \subseteq Label /\ \A b \in B : undo'[b] = undo[b]
      /\ undo' \in [Label -> SUBSET (Nat \X Nat)]
  <2>1. B \subseteq Label /\ undo \in [Label -> SUBSET (Nat \X Nat)]
    BY Zenon, <1>1, <1>6 DEF Typed
  <2> QED BY Zenon, <1>6, <2>1
<1>8. OnDisk'
  BY Zenon, <1>1, <1>2, <1>5, <1>6, <1>7 DEF OnDisk, SameDb
<1>9. 1 \in Nat /\ dbBest \in Label
  BY Zenon, <1>1 DEF CoinsInv, CoinsType
<1>10. Typed'
  BY Zenon, <1>1, <1>5, <1>6, <1>7, <1>9, TreeAssumption DEF Typed
<1>11. qpc'[Master] = "out" /\ ~thrown'
  BY Zenon, <1>3 DEF QueueInit, Thread
<1>12. AtIdle'
  BY Zenon, <1>1, <1>2, <1>5, <1>11 DEF AtIdle, MasterOut, TipIs, OnDisk, SameDb
<1> QED BY Zenon, <1>2, <1>8, <1>10, <1>12 DEF ChainInv, Place

\* The node starts at the genesis block with nothing on disk.
LEMMA ChainInitInv ==
  ASSUME Init
  PROVE  ChainInv
<1>1. /\ db = [t \in Txid |-> {}] /\ dbBest = Genesis
      /\ tip = Empty /\ tipBest = Genesis /\ view = Empty /\ viewBest = Genesis
      /\ open = FALSE /\ fault = FALSE /\ QueueInit
  BY Zenon DEF Init
<1>2. /\ offered \in Offers /\ active = Genesis /\ failed = {}
      /\ undo = [b \in Label |-> {}] /\ haveUndo = {} /\ savedUndo = {}
      /\ pc = "idle" /\ dir = "connect" /\ blk = Genesis /\ i = 1 /\ j = 1
      /\ blockundo = {} /\ fClean = TRUE
  BY Zenon DEF Init
<1>3. Genesis \in Label
  BY Zenon, TreeAssumption
<1>4. CoinsInv
  <2>1. db \in [Txid -> SUBSET Out]
    BY Zenon, <1>1
  <2>2. CoinsInit
    BY Zenon, <1>1, <1>3, <2>1 DEF CoinsInit
  <2> QED BY Zenon, <2>2, CoinsInitInv
<1>6. Typed
  <2>1. undo \in [Label -> SUBSET (Nat \X Nat)]
    BY Zenon, <1>2
  <2>2. 1 \in Nat
    OBVIOUS
  <2> QED BY Zenon, <1>2, <1>3, <2>1, <2>2 DEF Typed
<1>7. OnDisk
  BY Zenon, <1>1, <1>2, UtxoOfStep, ChainOfStep, ValidChainStep DEF OnDisk
<1>8. TipCoins = db
  <2>1. \A t \in Txid : TipCoins[t] = db[t]
    BY Zenon, <1>1 DEF TipCoins, Empty, NoEntry
  <2> QED BY Zenon, <1>1, <2>1 DEF TipCoins
<1>9. qpc[Master] = "out" /\ ~thrown
  BY Zenon, <1>1 DEF QueueInit, Thread
<1>10. AtIdle
  BY Zenon, <1>1, <1>2, <1>8, <1>9, UtxoOfStep DEF AtIdle, MasterOut, TipIs
<1> QED BY Zenon, <1>4, <1>6, <1>7, <1>10 DEF ChainInv, Place

\* A step of something else.
LEMMA ChainSame ==
  ASSUME ChainInv, UNCHANGED vars
  PROVE  ChainInv'
<1>1. UNCHANGED coinsVars /\ UNCHANGED queueVars /\ UNCHANGED tipVars
  BY Zenon DEF vars
<1>2. Typed /\ OnDisk /\ CoinsInv /\ Place
  BY Zenon DEF ChainInv
<1>3. UNCHANGED <<offered, active, failed, undo, haveUndo, savedUndo, pc, dir, blk, i, j, blockundo, fClean>>
  BY Zenon, <1>1 DEF tipVars
<1>4. CoinsInv' /\ SameTip /\ SameView /\ SameDb /\ open' = open
  BY Zenon, <1>1, <1>2, CoinsSame
<1>5. UNCHANGED <<qpc, thrown, added, verdict>>
  BY Zenon, <1>1, <1>2, QueueSame
<1>6. OnDisk' /\ Typed'
  BY Zenon, <1>2, <1>3, <1>4, DiskSame DEF Typed
<1>7. Tx' = Tx /\ Txs' = Txs /\ Target' = Target
  BY Zenon, <1>3 DEF Tx, Txs, Target
<1>8. /\ TipCoins' = TipCoins /\ tipBest' = tipBest
      /\ ViewCoins' = ViewCoins /\ viewBest' = viewBest
  BY Zenon, <1>4 DEF SameTip, SameView
<1>9. MasterOut' = MasterOut /\ InBlock' = InBlock /\ \A b : TipIs(b)' = TipIs(b)
  BY Zenon, <1>3, <1>5, <1>7, <1>8 DEF MasterOut, InBlock, TipIs
<1>10. ASSUME NEW k PROVE Connecting(k)' = Connecting(k)
  BY Zenon, <1>3, <1>4, <1>9 DEF Connecting
<1>11. Disconnecting' = Disconnecting /\ Done' = Done
  BY Zenon, <1>3, <1>4, <1>8, <1>9 DEF Disconnecting, Done
<1>12. AtIdle' = AtIdle /\ AtReject' = AtReject /\ AtUnwind' = AtUnwind
  BY Zenon, <1>3, <1>4, <1>5, <1>9, <1>10 DEF AtIdle, AtReject, AtUnwind
<1>13. AtBip30' = AtBip30 /\ AtControl' = AtControl
  BY Zenon, <1>3, <1>7, <1>8, <1>9, <1>10 DEF AtBip30, AtControl
<1>14. AtInputs' = AtInputs
  BY Zenon, <1>3, <1>5, <1>7, <1>8, <1>9, <1>10 DEF AtInputs
<1>15. AtUpdate' = AtUpdate
  BY Zenon, <1>3, <1>5, <1>7, <1>8, <1>9, <1>10 DEF AtUpdate
<1>16. AtVerify' = AtVerify
  BY Zenon, <1>3, <1>5, <1>7, <1>8, <1>9, <1>10 DEF AtVerify
<1>17. AtRemove' = AtRemove /\ AtRestore' = AtRestore
  BY Zenon, <1>3, <1>7, <1>8, <1>11 DEF AtRemove, AtRestore
<1>18. AtFlush' = AtFlush /\ AtWrite' = AtWrite
  BY Zenon, <1>3, <1>4, <1>7, <1>8, <1>9, <1>11 DEF AtFlush, AtWrite, TipIs
<1>19. Place'
  BY Zenon, <1>2, <1>12, <1>13, <1>14, <1>15, <1>16, <1>17, <1>18 DEF Place
<1> QED BY Zenon, <1>4, <1>5, <1>6, <1>19 DEF ChainInv

\* The assertions of UpdateCoins, ConnectBlock and DisconnectBlock never fail.
LEMMA NothingCorrupt ==
  ASSUME ChainInv
  PROVE  NeverCorrupt
<1>1. Typed /\ OnDisk /\ CoinsInv
  BY Zenon DEF ChainInv
<1>2. FlagsTrue
  BY Zenon, <1>1, InvImpliesFlags
<1>3. ASSUME pc = "update", InputLeft
      PROVE  Prevout[2] \in ViewCoins[Prevout[1]]
  <2>1. AtUpdate /\ InBlock
    BY Zenon, <1>3, Where DEF AtUpdate
  <2>2. /\ blk \in Label \ {Genesis} /\ i \in 1 .. Len(BlockTxs[blk]) /\ Txs = BlockTxs[blk]
        /\ Tx = TxOf(blk, i) /\ Prevout = In(blk, i, j) /\ j \in 1 .. Len(TxOf(blk, i).ins)
    BY Zenon, <1>1, <1>3, <2>1, Here DEF AtUpdate, Connecting
  <2>3. i \in 1 .. i
    BY <2>2, BlockTyped
  <2>4. HasInputs(blk, i)
    BY Zenon, <2>1, <2>3 DEF AtUpdate
  <2>5. ViewCoins = Spent(At(blk, i - 1), TxOf(blk, i), j - 1)
    BY Zenon, <2>1, <2>2 DEF AtUpdate
  <2> QED BY Zenon, <2>2, <2>4, <2>5, SpendOne
<1>4. pc \in {"bip30", "remove"} => viewBest = active
  BY Zenon, Where DEF AtBip30, AtRemove, Disconnecting
<1> QED BY Zenon, <1>1, <1>2, <1>3, <1>4 DEF NeverCorrupt, Typed, OnDisk

-----------------------------------------------------------------------------
(* The chain and the pool together *)

TipInv == ChainInv /\ QueueInv

\* The pool's invariant has what the block code relies on.
LEMMA PoolServes ==
  ASSUME QueueInv
  PROVE  Pool
  BY Zenon DEF QueueInv, QueueType, Result, Pool

\* A crash empties the pool.
LEMMA CrashQueue ==
  ASSUME Crash
  PROVE  QueueInv'
<1>1. QueueInit'
  BY Zenon DEF Crash, QueueInit
<1>2. Outstanding' = {}
  BY Zenon, <1>1 DEF QueueInit, Outstanding
<1> QED
  BY <1>1, <1>2, FS_EmptySet
  DEF QueueInit, QueueInv, QueueType, Apart, Batches, Counted, Result, Places, Thread

\* ConnectBlock uses the pool as its interface demands: one control at a time,
\* and no check twice.
LEMMA BlockUsesPool ==
  ASSUME ChainInv, QueueInv, BlockStep
  PROVE  QueueInv'
<1> SUFFICES [QueueNext]_queueVars
  BY Zenon, QueueNextInv
<1>1. CASE Bip30 \/ SpendInput \/ RemoveOutputs \/ RestoreInput \/ DisconnectNext \/ CommitView \/ UpdateTip
  BY Zenon, <1>1
     DEF Bip30, SpendInput, RemoveOutputs, RestoreInput, DisconnectNext, CommitView, UpdateTip
<1>2. CASE MakeControl
  BY Zenon, <1>2 DEF MakeControl, QueueNext
<1>3. CASE HaveInput
  BY Zenon, <1>3 DEF HaveInput, QueueNext
<1>4. CASE AddChecks
  <2>1. PICK S \in SUBSET (Check \ added) : Add(S)
    BY Zenon, <1>4, ChecksAreNew
  <2> QED BY Zenon, <2>1 DEF QueueNext
<1>5. CASE AddOutputs
  BY Zenon, <1>5 DEF AddOutputs, QueueNext
<1>6. CASE ConnectOk
  BY Zenon, <1>6 DEF ConnectOk, WaitOk, QueueNext
<1>7. CASE ConnectFailed
  BY Zenon, <1>7 DEF ConnectFailed, WaitOk, QueueNext
<1> QED BY Zenon, <1>1, <1>2, <1>3, <1>4, <1>5, <1>6, <1>7 DEF BlockStep

\* Every step of the node keeps the pool's invariant.
LEMMA TipKeepsQueue ==
  ASSUME ChainInv, QueueInv, [Next]_vars
  PROVE  QueueInv'
<1>1. CASE UNCHANGED vars \/ (\E b \in offered : ConnectBegin(b)) \/ DisconnectBegin \/ BetweenBlocks
  <2>1. UNCHANGED queueVars
    BY Zenon, <1>1 DEF vars, ConnectBegin, DisconnectBegin, BetweenBlocks
  <2> QED BY Zenon, <2>1, QueueNextInv
<1>2. CASE PoolStep
  BY Zenon, <1>2, QueueNextInv DEF PoolStep, QueueNext
<1> QED BY Zenon, <1>1, <1>2, BlockUsesPool, CrashQueue DEF Next

\* Every step of the node keeps the invariant.
LEMMA TipNextInv ==
  ASSUME TipInv, [Next]_vars
  PROVE  TipInv'
<1> SUFFICES ChainInv'
  BY Zenon, TipKeepsQueue DEF TipInv
<1>0. ChainInv /\ Pool
  BY Zenon, PoolServes DEF TipInv
<1>1. CASE UNCHANGED vars
  BY Zenon, <1>0, <1>1, ChainSame
<1>2. CASE \E b \in offered : ConnectBegin(b)
  BY Zenon, <1>0, <1>2, ConnectBeginStep
<1>3. CASE DisconnectBegin \/ BetweenBlocks \/ PoolStep \/ Crash
  BY Zenon, <1>0, <1>3, DisconnectBeginStep, BetweenBlocksStep, PoolStepStep, CrashTipStep
<1>4. CASE BlockStep
  <2>1. CASE Bip30 \/ MakeControl \/ HaveInput \/ AddChecks \/ SpendInput \/ AddOutputs
    BY Zenon, <1>0, <2>1, Bip30Step, MakeControlStep, HaveInputStep, AddChecksStep, SpendInputStep,
       AddOutputsStep
  <2>2. CASE ConnectOk \/ ConnectFailed \/ CommitView \/ UpdateTip
    BY Zenon, <1>0, <2>2, ConnectOkStep, ConnectFailedStep, CommitViewStep, UpdateTipStep
  <2>3. CASE RemoveOutputs \/ RestoreInput \/ DisconnectNext
    BY Zenon, <1>0, <2>3, RemoveOutputsStep, RestoreInputStep, DisconnectNextStep
  <2> QED BY Zenon, <1>4, <2>1, <2>2, <2>3 DEF BlockStep
<1> QED BY Zenon, <1>1, <1>2, <1>3, <1>4 DEF Next

\* The places of ConnectTip and DisconnectTip are always as TipInv describes.
THEOREM TipTheorem == Spec => []TipInv
<1>1. Init => TipInv
  BY Zenon, ChainInitInv, QueueInitInv DEF Init, TipInv
<1>2. TipInv /\ [Next]_vars => TipInv'
  BY Zenon, TipNextInv
<1> QED BY <1>1, <1>2, PTL DEF Spec

\* Between two blocks the coins of the tip are those of the active chain, and the
\* database holds at all times those of the chain it names, whatever blocks are
\* offered and however ConnectTip, DisconnectTip, flushes and crashes interleave.
THEOREM CoinsTheorem == Spec => []CoinsAreTheChains
<1>1. TipInv => CoinsAreTheChains
  BY Zenon, Where DEF TipInv, ChainInv, AtIdle, TipIs, OnDisk, CoinsAreTheChains
<1> QED BY <1>1, TipTheorem, PTL

\* No "corrupt" path of the block code is reached: the flags of the coins caches
\* are true, each spent input is there, DisconnectBlock is always clean, the view
\* is of the right block, and the undo data of the active chain is present.
THEOREM NeverCorruptTheorem == Spec => []NeverCorrupt
<1>1. TipInv => NeverCorrupt
  BY Zenon, NothingCorrupt DEF TipInv
<1> QED BY <1>1, TipTheorem, PTL

\* The active chain and the one on disk hold valid blocks only, and only invalid
\* blocks are marked as failed, for every interleaving of the script-check
\* threads, interruption and crash.
THEOREM VerdictsTheorem == Spec => []VerdictsRight
<1>1. TipInv => VerdictsRight
  BY Zenon DEF TipInv, ChainInv, OnDisk, VerdictsRight
<1> QED BY <1>1, TipTheorem, PTL

\* The block code uses the coins views by their operations only, and adds new
\* coins only for a transaction that has none.
LEMMA TipUsesCoins ==
  ASSUME ChainInv, [Next]_vars
  PROVE  [CoinsNext]_coinsVars
<1>1. Typed /\ CoinsInv
  BY Zenon DEF ChainInv
<1>2. \A t \in Txid : ViewCoins[t] \in SUBSET Out
  <2>1. ViewCoins \in [Txid -> SUBSET Out]
    BY Zenon, <1>1, CoinsTyped DEF CoinsInv
  <2> QED BY Zenon, <2>1
<1>3. CASE UNCHANGED vars \/ MakeControl \/ AddChecks \/ PoolStep
  BY Zenon, <1>3 DEF vars, MakeControl, AddChecks, PoolStep
<1>4. CASE \/ \E b \in offered : ConnectBegin(b)
           \/ DisconnectBegin \/ ConnectFailed \/ CommitView \/ Crash
  BY Zenon, <1>4 DEF ConnectBegin, DisconnectBegin, ConnectFailed, CommitView, Crash, CoinsNext
<1>5. CASE Bip30 \/ HaveInput
  <2>1. InBlock
    BY Zenon, <1>5, Where DEF Bip30, HaveInput, AtBip30, AtInputs
  <2>2. PICK t \in Txid : FetchView(t)
    BY Zenon, <1>1, <1>5, <2>1, Here DEF Bip30, HaveInput
  <2> QED BY Zenon, <2>2 DEF CoinsNext
<1>6. CASE SpendInput \/ RestoreInput \/ RemoveOutputs
  <2>1. InBlock
    BY Zenon, <1>6, Where
    DEF SpendInput, RestoreInput, RemoveOutputs, AtUpdate, AtRestore, AtRemove, Disconnecting
  <2>2. /\ Tx.id \in Txid
        /\ InputLeft => Prevout[1] \in Txid /\ Prevout[2] \in Out
    BY Zenon, <1>1, <2>1, Here
  <2>3. CASE SpendInput
    <3>1. Prevout[1] \in Txid /\ ModifyView(Prevout[1], ViewCoins[Prevout[1]] \ {Prevout[2]})
      BY Zenon, <2>2, <2>3 DEF SpendInput
    <3>2. ViewCoins[Prevout[1]] \ {Prevout[2]} \in SUBSET Out
      BY Zenon, <1>2, <3>1
    <3> QED BY Zenon, <3>1, <3>2 DEF CoinsNext
  <2>4. CASE RestoreInput
    <3> DEFINE kept == IF <<i, j>> \in undo[blk] THEN {} ELSE ViewCoins[Prevout[1]]
    <3>1. Prevout[1] \in Txid /\ Prevout[2] \in Out /\ ModifyView(Prevout[1], kept \cup {Prevout[2]})
      BY Zenon, <2>2, <2>4 DEF RestoreInput
    <3>2. kept \cup {Prevout[2]} \in SUBSET Out
      BY Zenon, <1>2, <3>1
    <3> QED BY Zenon, <3>1, <3>2 DEF CoinsNext
  <2>5. CASE RemoveOutputs
    <3>1. ModifyView(Tx.id, {}) /\ {} \in SUBSET Out
      BY Zenon, <2>5 DEF RemoveOutputs
    <3> QED BY Zenon, <2>2, <3>1 DEF CoinsNext
  <2> QED BY Zenon, <1>6, <2>3, <2>4, <2>5
<1>7. CASE AddOutputs
  <2>1. InBlock
    BY Zenon, <1>7, Where DEF AddOutputs, AtUpdate
  <2>2. Tx.id \in Txid /\ Tx.outs \in SUBSET Out /\ ViewCoins[Tx.id] = {}
    BY Zenon, <1>1, <1>7, <2>1, Here, OutputsAdded
  <2>3. (i = 1) \in BOOLEAN /\ NewInView(Tx.id, i = 1, Tx.outs)
    BY Zenon, <1>7 DEF AddOutputs
  <2> QED BY Zenon, <2>2, <2>3 DEF CoinsNext
<1>8. CASE ConnectOk \/ DisconnectNext
  <2>1. blk \in Label /\ Parent[blk] \in Label
    BY Zenon, <1>1, BlockTyped DEF Typed
  <2>2. CASE ConnectOk
    BY Zenon, <2>1, <2>2 DEF ConnectOk, CoinsNext
  <2>3. CASE DisconnectNext
    <3>1. UNCHANGED coinsVars \/ SetBestBlock(Parent[blk]) \/ DropView
      BY <2>3 DEF DisconnectNext
    <3> QED BY Zenon, <2>1, <3>1 DEF CoinsNext
  <2> QED BY Zenon, <1>8, <2>2, <2>3
<1>9. CASE UpdateTip \/ BetweenBlocks
  BY Zenon, <1>9, TipAssumption DEF UpdateTip, BetweenBlocks, WriteChainState, CoinsNext
<1> QED BY Zenon, <1>3, <1>4, <1>5, <1>6, <1>7, <1>8, <1>9 DEF Next, BlockStep

\* Under the block code the stack of coins views behaves like one set of unspent
\* outputs.
THEOREM TipUtxoTheorem == Spec => ActsAsUtxoSet
<1>1. Init => Flat!Init
  <2> SUFFICES ASSUME Init PROVE Flat!Init
    OBVIOUS
  <2>1. CoinsInit
    BY Zenon, TreeAssumption DEF Init, CoinsInit
  <2> QED BY Zenon, <2>1, CoinsInitFlat
<1>2. TipInv /\ [Next]_vars => [Flat!Next]_(Flat!vars)
  BY Zenon, TipUsesCoins, CoinsNextStep DEF TipInv, ChainInv
<1> QED BY <1>1, <1>2, TipTheorem, PTL DEF Spec, ActsAsUtxoSet, Flat!Spec

\* The verdict of the pool is exact for every block that is connected.
THEOREM TipVerdictTheorem == Spec => []VerdictExact
<1>1. TipInv => VerdictExact
  BY Zenon DEF TipInv, QueueInv, Result, VerdictExact
<1> QED BY <1>1, TipTheorem, PTL

\* Whenever no control is open the pool has nothing left of any block.
THEOREM TipDrainedTheorem == Spec => []Drained
<1>1. TipInv => Drained
  BY FS_EmptySet DEF TipInv, QueueInv, QueueType, Result, Counted, Outstanding, Drained
<1> QED BY <1>1, TipTheorem, PTL
=============================================================================
