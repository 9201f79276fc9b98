----------------------------- MODULE CoinsCache -----------------------------
(***************************************************************************)
(* The stack of coins views of one chainstate: the database, the cache     *)
(* pcoinsTip on top of it, and the short-lived cache that ConnectTip and   *)
(* DisconnectTip put on top of pcoinsTip for one block.  A cache entry is  *)
(* DIRTY when it may differ from the view below and FRESH when the view    *)
(* below has nothing (or a fully spent entry) for the transaction.         *)
(*                                                                         *)
(* The coins of a transaction are the set of its unspent outputs; the      *)
(* empty set is a pruned entry.  The database keeps no pruned entries.     *)
(***************************************************************************)
EXTENDS BlockTree

VARIABLES
  db, dbBest,      \* CCoinsViewDB and DB_BEST_BLOCK
  tip, tipBest,    \* pcoinsTip: cacheCoins and hashBlock
  view, viewBest,  \* the view of one block
  open,            \* whether that view exists
  fault            \* a std::logic_error was thrown

coinsVars == <<db, dbBest, tip, tipBest, view, viewBest, open, fault>>

\* CCoinsCacheEntry; `in' says whether cacheCoins has an entry.
Entry == [in : BOOLEAN, coins : SUBSET Out, dirty : BOOLEAN, fresh : BOOLEAN]
NoEntry == [in |-> FALSE, coins |-> {}, dirty |-> FALSE, fresh |-> FALSE]
Empty == [t \in Txid |-> NoEntry]

\* GetCoins through pcoinsTip, and through the view: what a reader sees.
TipCoins == [t \in Txid |-> IF tip[t].in THEN tip[t].coins ELSE db[t]]
ViewCoins == [t \in Txid |-> IF view[t].in THEN view[t].coins ELSE TipCoins[t]]

CoinsInit ==
  /\ db \in [Txid -> SUBSET Out] /\ dbBest \in Label
  /\ tip = Empty /\ tipBest = dbBest
  /\ view = Empty /\ viewBest = dbBest
  /\ open = FALSE /\ fault = FALSE

-----------------------------------------------------------------------------
(* The operations of one cache over a base that returns (has) or does not
   return the coins s for a transaction. *)

\* The entry that FetchCoins and ModifyCoins insert.
NewEntry(has, s) ==
  [in |-> TRUE, coins |-> s, dirty |-> FALSE, fresh |-> ~has \/ s = {}]

\* FetchCoins: nothing is inserted for a transaction the base does not know.
Fetched(c, t, has, s) ==
  IF c[t].in \/ ~has THEN c ELSE [c EXCEPT ![t] = NewEntry(has, s)]

\* The end of a CCoinsModifier: a FRESH entry that is pruned is erased.
Kept(e) == IF e.fresh /\ e.coins = {} THEN NoEntry ELSE e

\* ModifyCoins, with the outputs the caller leaves.
Modified(c, t, has, s, outs) ==
  LET e == IF c[t].in THEN c[t] ELSE NewEntry(has, s)
  IN [c EXCEPT ![t] = Kept([in |-> TRUE, coins |-> outs, dirty |-> TRUE, fresh |-> e.fresh])]

\* ModifyNewCoins does not ask the base.
ModifiedNew(c, t, coinbase, outs) ==
  [c EXCEPT ![t] = Kept([in |-> TRUE, coins |-> outs, dirty |-> TRUE,
                         fresh |-> @.fresh \/ (~coinbase /\ ~@.dirty)])]

\* Mutant: the FRESH flag of the child is always copied to the parent.
WrittenFresh(p, c) ==
  IF ~c.in \/ ~c.dirty THEN p
  ELSE IF ~p.in
       THEN IF c.fresh /\ c.coins = {} THEN p ELSE c
       ELSE IF p.fresh /\ c.coins = {} THEN NoEntry ELSE c

\* One entry of CCoinsViewCache::BatchWrite: p in the parent, c in the child.
Written(p, c) ==
  IF ~c.in \/ ~c.dirty THEN p
  ELSE IF ~p.in
       THEN IF c.fresh /\ c.coins = {} THEN p ELSE c
       ELSE IF p.fresh /\ c.coins = {} THEN NoEntry
            ELSE [in |-> TRUE, coins |-> c.coins, dirty |-> TRUE, fresh |-> p.fresh]

\* "FRESH flag misapplied to cache entry for base transaction with spendable outputs"
Misapplied(p, c) == c.in /\ c.dirty /\ c.fresh /\ p.in /\ p.coins # {}

-----------------------------------------------------------------------------
(* The view of a block.  Reading through it fills pcoinsTip as well. *)

OpenView ==
  /\ ~open /\ open' = TRUE
  /\ UNCHANGED <<db, dbBest, tip, tipBest, view, viewBest, fault>>

TipAfterFetch(t) == Fetched(tip, t, db[t] # {}, db[t])

\* AccessCoins, HaveCoins, GetCoins
FetchView(t) ==
  /\ open
  /\ tip' = TipAfterFetch(t)
  /\ view' = Fetched(view, t, tip'[t].in, tip'[t].coins)
  /\ UNCHANGED <<db, dbBest, tipBest, viewBest, open, fault>>

ModifyView(t, outs) ==
  /\ open
  /\ tip' = IF view[t].in THEN tip ELSE TipAfterFetch(t)
  /\ view' = Modified(view, t, tip'[t].in, tip'[t].coins, outs)
  /\ UNCHANGED <<db, dbBest, tipBest, viewBest, open, fault>>

\* A transaction of a block.  The BIP30 check, or BIP34's unique coinbases, make
\* sure that no unspent transaction of that name exists.
NewInView(t, coinbase, outs) ==
  /\ open
  /\ view' = ModifiedNew(view, t, coinbase, outs)
  /\ fault' = (fault \/ (~coinbase /\ view[t].coins # {}))
  /\ UNCHANGED <<db, dbBest, tip, tipBest, viewBest, open>>

SetBestBlock(b) ==
  /\ open
  /\ viewBest' = b
  /\ UNCHANGED <<db, dbBest, tip, tipBest, view, open, fault>>

\* view.Flush()
FlushView ==
  /\ open /\ open' = FALSE
  /\ tip' = [t \in Txid |-> Written(tip[t], view[t])]
  /\ tipBest' = viewBest
  /\ view' = Empty
  /\ fault' = (fault \/ \E t \in Txid : Misapplied(tip[t], view[t]))
  /\ UNCHANGED <<db, dbBest, viewBest>>

\* The view goes out of scope without a flush.
DropView ==
  /\ open /\ open' = FALSE
  /\ view' = Empty /\ viewBest' = tipBest
  /\ UNCHANGED <<db, dbBest, tip, tipBest, fault>>

-----------------------------------------------------------------------------
(* pcoinsTip itself *)

FetchTip(t) ==
  /\ ~open
  /\ tip' = TipAfterFetch(t)
  /\ UNCHANGED <<db, dbBest, tipBest, view, viewBest, open, fault>>

\* The background proof and the snapshot loader write to their cache directly.
ModifyTip(t, outs) ==
  /\ ~open
  /\ tip' = Modified(tip, t, db[t] # {}, db[t], outs)
  /\ UNCHANGED <<db, dbBest, tipBest, view, viewBest, open, fault>>

\* Mutant: a modified entry may be dropped.
UncacheDirty(t) ==
  /\ ~open
  /\ tip[t].in /\ ~tip[t].fresh
  /\ tip' = [tip EXCEPT ![t] = NoEntry]
  /\ UNCHANGED <<db, dbBest, tipBest, view, viewBest, open, fault>>

Uncache(t) ==
  /\ ~open
  /\ tip[t].in /\ ~tip[t].dirty /\ ~tip[t].fresh
  /\ tip' = [tip EXCEPT ![t] = NoEntry]
  /\ UNCHANGED <<db, dbBest, tipBest, view, viewBest, open, fault>>

\* pcoinsTip->Flush(): CCoinsViewDB::BatchWrite is one database batch.
FlushTip ==
  /\ ~open
  /\ db' = [t \in Txid |-> IF tip[t].in /\ tip[t].dirty THEN tip[t].coins ELSE db[t]]
  /\ dbBest' = tipBest
  /\ tip' = Empty
  /\ UNCHANGED <<tipBest, view, viewBest, open, fault>>

CrashCoins ==
  /\ tip' = Empty /\ tipBest' = dbBest
  /\ view' = Empty /\ viewBest' = dbBest
  /\ open' = FALSE
  /\ UNCHANGED <<db, dbBest, fault>>

CoinsNext ==
  \/ OpenView \/ FlushView \/ DropView \/ FlushTip \/ CrashCoins
  \/ \E b \in Label : SetBestBlock(b)
  \/ \E t \in Txid :
       \/ FetchView(t) \/ FetchTip(t) \/ Uncache(t)
       \/ \E outs \in SUBSET Out :
            \/ ModifyView(t, outs) \/ ModifyTip(t, outs)
            \/ \E coinbase \in BOOLEAN :
                 (~coinbase => ViewCoins[t] = {}) /\ NewInView(t, coinbase, outs)

CoinsSpec == CoinsInit /\ [][CoinsNext]_coinsVars

-----------------------------------------------------------------------------
(* Properties *)

\* The flags never lie about the view below, so that neither logic_error of
\* ModifyNewCoins and BatchWrite is ever thrown.
FlagsTrue ==
  /\ ~fault
  /\ \A t \in Txid :
       /\ tip[t].in => /\ tip[t].fresh => db[t] = {}
                       /\ ~tip[t].dirty => tip[t].coins = db[t]
       /\ view[t].in => /\ view[t].fresh => TipCoins[t] = {}
                        /\ ~view[t].dirty => view[t].coins = TipCoins[t]

\* Whatever is fetched, modified, flushed, dropped or uncached in whatever order,
\* the stack behaves like one set of unspent outputs (CCoinsViewCache, BatchWrite).
Flat == INSTANCE UtxoSet WITH
  saved <- [coins |-> db, best |-> dbBest],
  utxo <- [coins |-> TipCoins, best |-> tipBest],
  work <- [coins |-> ViewCoins, best |-> viewBest]
ActsAsUtxoSet == Flat!Spec
=============================================================================
