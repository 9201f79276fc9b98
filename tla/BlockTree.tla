------------------------------ MODULE BlockTree ------------------------------
(***************************************************************************)
(* The blocks a node can have, as CheckBlock and CheckTransaction let them *)
(* in, and the coins that a chain of them leaves, said directly.           *)
(***************************************************************************)
EXTENDS Integers, Sequences

CONSTANTS
  Txid,       \* transactions
  Out,        \* output positions
  Label,      \* blocks; a view of the coins is labelled with one
  Genesis,
  Parent,     \* the block before each block
  Height,     \* nHeight
  BlockTxs    \* its transactions, the coinbase first: [id, ins, outs]

Transaction == [id : Txid, ins : Seq(Txid \X Out), outs : SUBSET Out]

\* The blocks form a tree.
ASSUME TreeAssumption ==
  /\ Genesis \in Label /\ Parent \in [Label -> Label]
  /\ Height \in [Label -> Nat] /\ Height[Genesis] = 0
  /\ \A b \in Label \ {Genesis} : Height[b] = Height[Parent[b]] + 1

\* Every block has passed CheckBlock: the first transaction is a coinbase, the
\* others are not, and none spends an output twice.  In one block a hash stands
\* for one transaction.
ASSUME BlockAssumption ==
  /\ BlockTxs \in [Label -> Seq(Transaction)]
  /\ \A b \in Label \ {Genesis} :
       /\ Len(BlockTxs[b]) > 0 /\ BlockTxs[b][1].ins = <<>>
       /\ \A k \in DOMAIN BlockTxs[b] :
            /\ k > 1 => BlockTxs[b][k].ins # <<>>
            /\ \A m, n \in DOMAIN BlockTxs[b][k].ins :
                 m # n => BlockTxs[b][k].ins[m] # BlockTxs[b][k].ins[n]
            /\ \A l \in DOMAIN BlockTxs[b] :
                 BlockTxs[b][k].id = BlockTxs[b][l].id => BlockTxs[b][k] = BlockTxs[b][l]

-----------------------------------------------------------------------------

\* A transaction takes its inputs out of the set and puts its outputs in.
AfterTx(set, tx) ==
  [t \in Txid |-> IF t = tx.id THEN tx.outs
                  ELSE {n \in set[t] : \A k \in DOMAIN tx.ins : tx.ins[k] # <<t, n>>}]

\* The set after none, the first, the first two, ... of the transactions.
AfterTxs(set, txs) ==
  LET after[k \in 0..Len(txs)] == IF k = 0 THEN set ELSE AfterTx(after[k - 1], txs[k])
  IN after

UtxoOf[b \in Label] ==
  IF b = Genesis THEN [t \in Txid |-> {}]
  ELSE AfterTxs(UtxoOf[Parent[b]], BlockTxs[b])[Len(BlockTxs[b])]

ChainOf[b \in Label] == IF b = Genesis THEN {} ELSE ChainOf[Parent[b]] \cup {b}
=============================================================================
