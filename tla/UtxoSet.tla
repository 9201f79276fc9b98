------------------------------ MODULE UtxoSet ------------------------------
(***************************************************************************)
(* What the stack of coins views promises: one set of unspent outputs that *)
(* is changed through a scratch copy, committed or discarded as a whole,   *)
(* and saved as a whole.  Each set carries the block it belongs to.        *)
(***************************************************************************)
CONSTANTS
  Txid,   \* transactions
  Out,    \* output positions
  Label   \* blocks

VARIABLES
  saved,  \* the set on disk
  utxo,   \* the set of the active chain
  work,   \* the scratch copy a block is applied to
  open    \* whether there is one

vars == <<saved, utxo, work, open>>

UtxoSets == [coins : [Txid -> SUBSET Out], best : Label]

Init == /\ saved \in UtxoSets
        /\ utxo = saved /\ work = saved
        /\ open = FALSE

Begin == /\ ~open /\ open' = TRUE
         /\ work' = utxo
         /\ UNCHANGED <<saved, utxo>>

\* One transaction's outputs are replaced, or the set is given another block.
Change(set, new) ==
  \/ \E t \in Txid : \E outs \in SUBSET Out : new = [set EXCEPT !.coins[t] = outs]
  \/ \E b \in Label : new = [set EXCEPT !.best = b]

ChangeWork == /\ open /\ Change(work, work')
              /\ UNCHANGED <<saved, utxo, open>>

\* The background proof and the snapshot loader change the set in place.
ChangeInPlace == /\ ~open /\ Change(utxo, utxo')
                 /\ work' = utxo'
                 /\ UNCHANGED <<saved, open>>

Commit == /\ open /\ open' = FALSE
          /\ utxo' = work
          /\ UNCHANGED <<saved, work>>

Discard == /\ open /\ open' = FALSE
           /\ work' = utxo
           /\ UNCHANGED <<saved, utxo>>

Save == /\ ~open
        /\ saved' = utxo
        /\ UNCHANGED <<utxo, work, open>>

Crash == /\ utxo' = saved /\ work' = saved /\ open' = FALSE
         /\ UNCHANGED saved

Next == Begin \/ ChangeWork \/ ChangeInPlace \/ Commit \/ Discard \/ Save \/ Crash

Spec == Init /\ [][Next]_vars
=============================================================================
