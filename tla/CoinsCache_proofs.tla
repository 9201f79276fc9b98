-------------------------- MODULE CoinsCache_proofs --------------------------
(***************************************************************************)
(* The stack of coins views behaves like one set of unspent outputs, for   *)
(* any transactions, outputs and blocks.  The argument is made for one     *)
(* entry at a time: an entry that tells the truth about what is below it   *)
(* still does after every operation, and a reader sees the same coins      *)
(* unless the operation changes them.                                      *)
(*                                                                         *)
(* And what the coins of a chain are, for every tree of blocks: the        *)
(* recursive definitions have the values they seem to have, the inputs of  *)
(* a transaction can be spent one by one and taken back with the undo      *)
(* data, and no transaction occurs twice in a block that passed BIP30 and  *)
(* had its inputs.  The code checks this last fact nowhere: it follows     *)
(* from the inputs of the second occurrence being spent by the first.      *)
(***************************************************************************)
EXTENDS CoinsCache, WellFoundedInduction, TLAPS

-----------------------------------------------------------------------------
(* One entry of a cache *)

\* What a reader of an entry over `below' sees.
Seen(e, below) == IF e.in THEN e.coins ELSE below

\* An entry tells the truth about the coins below it.
Honest(e, below) ==
  /\ e \in Entry
  /\ ~e.in => e = NoEntry
  /\ e.in /\ e.fresh => below = {}
  /\ e.in /\ ~e.dirty => e.coins = below

\* The operations on one entry.
FetchedEntry(e, has, s) == IF e.in \/ ~has THEN e ELSE NewEntry(has, s)
ModifiedEntry(e, has, s, outs) ==
  Kept([in |-> TRUE, coins |-> outs, dirty |-> TRUE,
        fresh |-> (IF e.in THEN e ELSE NewEntry(has, s)).fresh])
ModifiedNewEntry(e, coinbase, outs) ==
  Kept([in |-> TRUE, coins |-> outs, dirty |-> TRUE,
        fresh |-> e.fresh \/ (~coinbase /\ ~e.dirty)])

\* Fetching an entry changes nothing that a reader sees.
LEMMA FetchedHonest ==
  ASSUME NEW e, NEW has \in BOOLEAN, NEW s \in SUBSET Out,
         Honest(e, s), ~has => s = {}
  PROVE  /\ Honest(FetchedEntry(e, has, s), s)
         /\ Seen(FetchedEntry(e, has, s), s) = Seen(e, s)
  BY Zenon DEF Honest, FetchedEntry, Seen, NewEntry, Entry, NoEntry

\* After a fetch from the database, which keeps no pruned entries, the entry holds
\* what a reader sees; without an entry there is nothing to see.
LEMMA FetchedHolds ==
  ASSUME NEW e, NEW s \in SUBSET Out, Honest(e, s)
  PROVE  /\ FetchedEntry(e, s # {}, s).coins = Seen(e, s)
         /\ ~FetchedEntry(e, s # {}, s).in => Seen(e, s) = {}
<1>1. CASE e.in
  BY <1>1 DEF Honest, FetchedEntry, Seen
<1>2. CASE ~e.in /\ s = {}
  BY <1>2 DEF Honest, FetchedEntry, Seen, NoEntry
<1>3. CASE ~e.in /\ s # {}
  BY <1>3 DEF FetchedEntry, Seen, NewEntry
<1> QED BY <1>1, <1>2, <1>3

\* A modified entry is honest, and a reader sees the new outputs.
LEMMA ModifiedHonest ==
  ASSUME NEW e, NEW has \in BOOLEAN, NEW s \in SUBSET Out, NEW outs \in SUBSET Out,
         Honest(e, s), ~has => s = {}
  PROVE  /\ Honest(ModifiedEntry(e, has, s, outs), s)
         /\ Seen(ModifiedEntry(e, has, s, outs), s) = outs
  BY Zenon DEF Honest, ModifiedEntry, Seen, NewEntry, Entry, NoEntry, Kept

\* So is the entry of a new transaction, when no unspent one of that name was seen
\* (or it is a coinbase, which is not marked FRESH).
LEMMA ModifiedNewHonest ==
  ASSUME NEW e, NEW coinbase \in BOOLEAN, NEW s \in SUBSET Out, NEW outs \in SUBSET Out,
         Honest(e, s), ~coinbase => Seen(e, s) = {}
  PROVE  /\ Honest(ModifiedNewEntry(e, coinbase, outs), s)
         /\ Seen(ModifiedNewEntry(e, coinbase, outs), s) = outs
         /\ ~coinbase => e.coins = {}
  BY DEF Honest, ModifiedNewEntry, Seen, Entry, NoEntry, Kept

\* Writing a child's entry c into the parent's entry p over the database's d: the
\* parent's entry stays honest, a reader sees what the child showed, and the FRESH
\* flag is never misapplied.
LEMMA WrittenHonest ==
  ASSUME NEW p, NEW c, NEW d \in SUBSET Out,
         Honest(p, d), Honest(c, Seen(p, d))
  PROVE  /\ Honest(Written(p, c), d)
         /\ Seen(Written(p, c), d) = Seen(c, Seen(p, d))
         /\ ~Misapplied(p, c)
  BY Zenon DEF Honest, Written, Seen, Entry, NoEntry, Misapplied

\* Writing an entry to the database.
LEMMA SavedHonest ==
  ASSUME NEW p, NEW d \in SUBSET Out, Honest(p, d)
  PROVE  (IF p.in /\ p.dirty THEN p.coins ELSE d) = Seen(p, d)
  BY DEF Honest, Seen

\* An entry without flags may be forgotten.
LEMMA UncachedHonest ==
  ASSUME NEW p, NEW d \in SUBSET Out, Honest(p, d), p.in, ~p.dirty, ~p.fresh
  PROVE  Honest(NoEntry, d) /\ Seen(NoEntry, d) = Seen(p, d)
  BY DEF Honest, Seen, NoEntry, Entry

\* A transaction without an entry is read from below.
LEMMA NoEntryHonest ==
  ASSUME NEW d
  PROVE  Honest(NoEntry, d) /\ Seen(NoEntry, d) = d
  BY DEF Honest, Seen, NoEntry, Entry

-----------------------------------------------------------------------------
CoinsType ==
  /\ db \in [Txid -> SUBSET Out] /\ dbBest \in Label
  /\ tip \in [Txid -> Entry] /\ tipBest \in Label
  /\ view \in [Txid -> Entry] /\ viewBest \in Label
  /\ open \in BOOLEAN /\ fault = FALSE

TipHonest == \A t \in Txid : Honest(tip[t], db[t])
ViewHonest == \A t \in Txid : Honest(view[t], TipCoins[t])
Closed == ~open => view = Empty /\ viewBest = tipBest

CoinsInv == CoinsType /\ TipHonest /\ ViewHonest /\ Closed

\* A reader of the tip and of the view, one transaction at a time.
LEMMA SeenAll ==
  ASSUME NEW t \in Txid
  PROVE  /\ TipCoins[t] = Seen(tip[t], db[t])
         /\ ViewCoins[t] = Seen(view[t], TipCoins[t])
  BY DEF TipCoins, ViewCoins, Seen

\* The same in the next state.
LEMMA SeenAllNext ==
  ASSUME NEW t \in Txid
  PROVE  /\ TipCoins'[t] = Seen(tip[t]', db[t]')
         /\ ViewCoins'[t] = Seen(view[t]', TipCoins'[t])
  BY DEF TipCoins, ViewCoins, Seen

\* What readers see are sets of coins.
LEMMA CoinsTyped ==
  ASSUME CoinsType
  PROVE  TipCoins \in [Txid -> SUBSET Out] /\ ViewCoins \in [Txid -> SUBSET Out]
  BY DEF CoinsType, TipCoins, ViewCoins, Entry

\* pcoinsTip after it was asked for t: readers see the same, and the entry holds
\* what they see.
LEMMA TipFetched ==
  ASSUME CoinsInv, NEW t \in Txid
  PROVE  /\ TipAfterFetch(t) = [tip EXCEPT ![t] = FetchedEntry(tip[t], db[t] # {}, db[t])]
         /\ TipAfterFetch(t) \in [Txid -> Entry]
         /\ \A u \in Txid : /\ Honest(TipAfterFetch(t)[u], db[u])
                            /\ Seen(TipAfterFetch(t)[u], db[u]) = TipCoins[u]
         /\ TipAfterFetch(t)[t].coins = TipCoins[t]
         /\ ~TipAfterFetch(t)[t].in => TipCoins[t] = {}
<1>0. /\ db \in [Txid -> SUBSET Out] /\ tip \in [Txid -> Entry]
      /\ \A u \in Txid : Honest(tip[u], db[u])
  BY DEF CoinsInv, CoinsType, TipHonest
<1>1. TipAfterFetch(t) = [tip EXCEPT ![t] = FetchedEntry(tip[t], db[t] # {}, db[t])]
  BY Zenon, <1>0 DEF TipAfterFetch, Fetched, FetchedEntry
<1>2. /\ Honest(FetchedEntry(tip[t], db[t] # {}, db[t]), db[t])
      /\ Seen(FetchedEntry(tip[t], db[t] # {}, db[t]), db[t]) = Seen(tip[t], db[t])
  <2>1. db[t] \in SUBSET Out /\ Honest(tip[t], db[t])
    BY <1>0
  <2> QED BY Zenon, <2>1, FetchedHonest
<1>3. TipAfterFetch(t) \in [Txid -> Entry]
  BY <1>0, <1>1, <1>2 DEF Honest
<1>4. ASSUME NEW u \in Txid
      PROVE  /\ Honest(TipAfterFetch(t)[u], db[u])
             /\ Seen(TipAfterFetch(t)[u], db[u]) = TipCoins[u]
  BY <1>0, <1>1, <1>2, SeenAll
<1>5. /\ TipAfterFetch(t)[t].coins = TipCoins[t]
      /\ ~TipAfterFetch(t)[t].in => TipCoins[t] = {}
  <2>1. TipAfterFetch(t)[t] = FetchedEntry(tip[t], db[t] # {}, db[t])
    BY <1>0, <1>1
  <2>2. TipCoins[t] = Seen(tip[t], db[t])
    BY SeenAll
  <2>3. db[t] \in SUBSET Out /\ Honest(tip[t], db[t])
    BY <1>0
  <2> QED
    BY <2>1, <2>2, <2>3, FetchedHolds
<1> QED
  BY <1>1, <1>3, <1>4, <1>5

-----------------------------------------------------------------------------
(* What a step does to the flat sets *)

SameTip == TipCoins' = TipCoins /\ tipBest' = tipBest
SameView == ViewCoins' = ViewCoins /\ viewBest' = viewBest
SameDb == db' = db /\ dbBest' = dbBest

\* Asking the view for a transaction.
LEMMA FetchViewStep ==
  ASSUME CoinsInv, NEW t \in Txid, FetchView(t)
  PROVE  CoinsInv' /\ SameTip /\ SameView /\ SameDb /\ open' = open
<1>0. /\ CoinsType /\ ViewHonest /\ open
      /\ tip' = TipAfterFetch(t)
      /\ view' = Fetched(view, t, tip'[t].in, tip'[t].coins)
      /\ UNCHANGED <<db, dbBest, tipBest, viewBest, open, fault>>
  BY DEF CoinsInv, FetchView
<1>1. \A u \in Txid : /\ Honest(tip'[u], db[u])
                      /\ Seen(tip'[u], db[u]) = TipCoins[u]
  BY <1>0, TipFetched
<1>2. TipCoins' = TipCoins
  BY <1>0, <1>1 DEF TipCoins, Seen
<1>3. tip' \in [Txid -> Entry] /\ tip'[t].coins = TipCoins[t] /\ (~tip'[t].in => TipCoins[t] = {})
  BY <1>0, TipFetched
<1>4. view' = [view EXCEPT ![t] = FetchedEntry(view[t], tip'[t].in, TipCoins[t])]
  BY Zenon, <1>0, <1>3 DEF Fetched, FetchedEntry, CoinsType
<1>5. /\ Honest(FetchedEntry(view[t], tip'[t].in, TipCoins[t]), TipCoins[t])
      /\ Seen(FetchedEntry(view[t], tip'[t].in, TipCoins[t]), TipCoins[t]) = Seen(view[t], TipCoins[t])
  <2>1. tip'[t].in \in BOOLEAN /\ TipCoins[t] \in SUBSET Out /\ Honest(view[t], TipCoins[t])
    BY <1>0, <1>3, CoinsTyped DEF ViewHonest, Entry
  <2> QED BY <1>3, <2>1, FetchedHonest
<1>6. view' \in [Txid -> Entry] /\ \A u \in Txid : Honest(view'[u], TipCoins'[u])
  BY ZenonT(40), <1>0, <1>2, <1>4, <1>5 DEF Honest, ViewHonest, CoinsType
<1>7. ViewCoins' = ViewCoins
  <2>1. \A u \in Txid : Seen(view'[u], TipCoins[u]) = Seen(view[u], TipCoins[u])
    BY <1>0, <1>4, <1>5 DEF CoinsType
  <2> QED BY <1>2, <2>1 DEF ViewCoins, Seen
<1>8. CoinsInv'
  BY <1>0, <1>1, <1>3, <1>6 DEF CoinsInv, CoinsType, TipHonest, ViewHonest, Closed
<1> QED BY <1>0, <1>2, <1>7, <1>8 DEF SameTip, SameView, SameDb

\* Changing a transaction through the view.
LEMMA ModifyViewStep ==
  ASSUME CoinsInv, NEW t \in Txid, NEW outs \in SUBSET Out, ModifyView(t, outs)
  PROVE  CoinsInv' /\ SameTip /\ SameDb /\ open /\ open' /\ viewBest' = viewBest
         /\ ViewCoins' = [ViewCoins EXCEPT ![t] = outs]
<1>0. /\ CoinsType /\ ViewHonest /\ TipHonest /\ open
      /\ tip' = IF view[t].in THEN tip ELSE TipAfterFetch(t)
      /\ view' = Modified(view, t, tip'[t].in, tip'[t].coins, outs)
      /\ UNCHANGED <<db, dbBest, tipBest, viewBest, open, fault>>
  BY DEF CoinsInv, ModifyView
<1>1. \A u \in Txid : /\ Honest(tip'[u], db[u])
                      /\ Seen(tip'[u], db[u]) = TipCoins[u]
  <2>1. CASE view[t].in
    BY <1>0, <2>1, SeenAll DEF TipHonest
  <2>2. CASE ~view[t].in
    BY <1>0, <2>2, TipFetched
  <2> QED BY <2>1, <2>2
<1>2. TipCoins' = TipCoins
  BY <1>0, <1>1 DEF TipCoins, Seen
<1>3. tip' \in [Txid -> Entry]
  BY <1>0, TipFetched DEF CoinsType
<1>4. view' = [view EXCEPT ![t] = ModifiedEntry(view[t], tip'[t].in, TipCoins[t], outs)]
  <2>1. CASE view[t].in
    BY <1>0, <2>1 DEF Modified, ModifiedEntry
  <2>2. CASE ~view[t].in
    <3>1. tip'[t].coins = TipCoins[t]
      BY <1>0, <2>2, TipFetched
    <3> QED BY Zenon, <1>0, <2>2, <3>1 DEF Modified, ModifiedEntry
  <2> QED BY <2>1, <2>2
<1>5. /\ Honest(ModifiedEntry(view[t], tip'[t].in, TipCoins[t], outs), TipCoins[t])
      /\ Seen(ModifiedEntry(view[t], tip'[t].in, TipCoins[t], outs), TipCoins[t]) = outs
  <2>1. tip'[t].in \in BOOLEAN /\ TipCoins[t] \in SUBSET Out /\ Honest(view[t], TipCoins[t])
    BY <1>0, <1>3, CoinsTyped DEF ViewHonest, Entry
  <2>2. CASE ~view[t].in
    <3>1. ~tip'[t].in => TipCoins[t] = {}
      BY Zenon, <1>0, <2>2, TipFetched
    <3> QED BY <2>1, <3>1, ModifiedHonest
  <2>3. CASE view[t].in
    BY Zenon, <2>1, <2>3 DEF ModifiedEntry, Honest, Seen, Kept, Entry, NoEntry
  <2> QED BY <2>2, <2>3
<1>6. view' \in [Txid -> Entry] /\ \A u \in Txid : Honest(view'[u], TipCoins'[u])
  BY ZenonT(40), <1>0, <1>2, <1>4, <1>5 DEF Honest, ViewHonest, CoinsType
<1>7. ViewCoins' = [ViewCoins EXCEPT ![t] = outs]
  <2>1. \A u \in Txid : Seen(view'[u], TipCoins[u]) = IF u = t THEN outs ELSE Seen(view[u], TipCoins[u])
    BY Zenon, <1>0, <1>4, <1>5 DEF CoinsType
  <2> QED BY Zenon, <1>2, <2>1 DEF ViewCoins, Seen
<1>8. CoinsInv'
  BY Zenon, <1>0, <1>1, <1>3, <1>6 DEF CoinsInv, CoinsType, TipHonest, ViewHonest, Closed
<1> QED BY <1>0, <1>2, <1>7, <1>8 DEF SameTip, SameDb

\* A new transaction in the view.
LEMMA NewInViewStep ==
  ASSUME CoinsInv, NEW t \in Txid, NEW outs \in SUBSET Out, NEW coinbase \in BOOLEAN,
         ~coinbase => ViewCoins[t] = {}, NewInView(t, coinbase, outs)
  PROVE  CoinsInv' /\ SameTip /\ SameDb /\ open /\ open' /\ viewBest' = viewBest
         /\ ViewCoins' = [ViewCoins EXCEPT ![t] = outs]
<1>0. /\ CoinsType /\ ViewHonest /\ TipHonest /\ open
      /\ view' = [view EXCEPT ![t] = ModifiedNewEntry(view[t], coinbase, outs)]
      /\ fault' = (fault \/ (~coinbase /\ view[t].coins # {}))
      /\ UNCHANGED <<db, dbBest, tip, tipBest, viewBest, open>>
  BY DEF CoinsInv, NewInView, ModifiedNew, ModifiedNewEntry
<1>1. TipCoins' = TipCoins
  BY <1>0 DEF TipCoins
<1>2. /\ Honest(ModifiedNewEntry(view[t], coinbase, outs), TipCoins[t])
      /\ Seen(ModifiedNewEntry(view[t], coinbase, outs), TipCoins[t]) = outs
      /\ ~coinbase => view[t].coins = {}
  <2>1. TipCoins[t] \in SUBSET Out /\ Honest(view[t], TipCoins[t])
    BY <1>0, CoinsTyped DEF ViewHonest
  <2>2. ~coinbase => Seen(view[t], TipCoins[t]) = {}
    BY SeenAll
  <2> QED BY <2>1, <2>2, ModifiedNewHonest
<1>3. view' \in [Txid -> Entry] /\ \A u \in Txid : Honest(view'[u], TipCoins'[u])
  BY Zenon, <1>0, <1>1, <1>2 DEF Honest, ViewHonest, CoinsType
<1>4. ViewCoins' = [ViewCoins EXCEPT ![t] = outs]
  <2>1. \A u \in Txid : Seen(view'[u], TipCoins[u]) = IF u = t THEN outs ELSE Seen(view[u], TipCoins[u])
    BY <1>0, <1>2 DEF CoinsType
  <2> QED BY Zenon, <1>1, <2>1 DEF ViewCoins, Seen
<1>5. fault' = FALSE
  BY Zenon, <1>0, <1>2 DEF CoinsType
<1>6. CoinsInv'
  BY Zenon, <1>0, <1>3, <1>5 DEF CoinsInv, CoinsType, TipHonest, ViewHonest, Closed
<1> QED BY <1>0, <1>1, <1>4, <1>6 DEF SameTip, SameDb

\* view.Flush(): pcoinsTip shows what the view showed.
LEMMA FlushViewStep ==
  ASSUME CoinsInv, FlushView
  PROVE  CoinsInv' /\ SameDb /\ SameView /\ open /\ ~open'
         /\ TipCoins' = ViewCoins /\ tipBest' = viewBest
<1>0. /\ CoinsType /\ ViewHonest /\ TipHonest /\ open /\ open' = FALSE
      /\ tip' = [t \in Txid |-> Written(tip[t], view[t])]
      /\ tipBest' = viewBest /\ view' = Empty
      /\ fault' = (fault \/ \E t \in Txid : Misapplied(tip[t], view[t]))
      /\ UNCHANGED <<db, dbBest, viewBest>>
  BY DEF CoinsInv, FlushView
<1>1. ASSUME NEW t \in Txid
      PROVE  /\ Honest(tip'[t], db[t])
             /\ Seen(tip'[t], db[t]) = ViewCoins[t]
             /\ ~Misapplied(tip[t], view[t])
  <2>1. /\ db[t] \in SUBSET Out /\ Honest(tip[t], db[t])
        /\ Honest(view[t], Seen(tip[t], db[t]))
        /\ ViewCoins[t] = Seen(view[t], Seen(tip[t], db[t]))
    BY Zenon, <1>0, SeenAll DEF CoinsType, TipHonest, ViewHonest
  <2>2. tip'[t] = Written(tip[t], view[t])
    BY <1>0
  <2> QED BY <2>1, <2>2, WrittenHonest
<1>2. TipCoins' = ViewCoins
  <2>1. \A t \in Txid : TipCoins'[t] = ViewCoins[t]
    BY <1>0, <1>1 DEF TipCoins, Seen
  <2> QED BY <2>1 DEF TipCoins, ViewCoins
<1>3. ViewCoins' = TipCoins'
  BY Zenon, <1>0 DEF ViewCoins, TipCoins, Empty, NoEntry
<1>4. \A t \in Txid : Honest(view'[t], TipCoins'[t])
  BY <1>0, NoEntryHonest DEF Empty
<1>5. fault' = FALSE
  BY Zenon, <1>0, <1>1 DEF CoinsType
<1>6. tip' \in [Txid -> Entry] /\ view' \in [Txid -> Entry]
  BY Zenon, <1>0, <1>1 DEF Honest, Empty, NoEntry, Entry
<1>7. CoinsInv'
  BY Zenon, <1>0, <1>1, <1>4, <1>5, <1>6 DEF CoinsInv, CoinsType, TipHonest, ViewHonest, Closed
<1> QED BY Zenon, <1>0, <1>2, <1>3, <1>7 DEF SameDb, SameView

\* The view is dropped: its changes were never seen outside it.
LEMMA DropViewStep ==
  ASSUME CoinsInv, DropView
  PROVE  CoinsInv' /\ SameDb /\ SameTip /\ open /\ ~open'
         /\ ViewCoins' = TipCoins /\ viewBest' = tipBest
<1>0. /\ CoinsType /\ TipHonest /\ open /\ open' = FALSE
      /\ view' = Empty /\ viewBest' = tipBest
      /\ UNCHANGED <<db, dbBest, tip, tipBest, fault>>
  BY DEF CoinsInv, DropView
<1>1. TipCoins' = TipCoins
  BY <1>0 DEF TipCoins
<1>2. ViewCoins' = TipCoins
  BY <1>0 DEF ViewCoins, TipCoins, Empty, NoEntry
<1>3. \A t \in Txid : Honest(view'[t], TipCoins'[t])
  BY <1>0, NoEntryHonest DEF Empty
<1>4. view' \in [Txid -> Entry]
  BY <1>0 DEF Empty, NoEntry, Entry
<1>5. CoinsInv'
  BY Zenon, <1>0, <1>3, <1>4 DEF CoinsInv, CoinsType, TipHonest, ViewHonest, Closed
<1> QED BY <1>0, <1>1, <1>2, <1>5 DEF SameDb, SameTip

\* Without a view, the view's coins are those of pcoinsTip.
LEMMA ClosedView ==
  ASSUME CoinsInv, ~open
  PROVE  ViewCoins = TipCoins /\ viewBest = tipBest
  BY DEF CoinsInv, Closed, ViewCoins, TipCoins, Empty, NoEntry

\* The same in the next state.
LEMMA ClosedViewNext ==
  ASSUME CoinsInv', ~open'
  PROVE  ViewCoins' = TipCoins' /\ viewBest' = tipBest'
  BY DEF CoinsInv, Closed, ViewCoins, TipCoins, Empty, NoEntry

\* A change of pcoinsTip alone, while there is no view, keeps the invariant when
\* every entry stays honest.
LEMMA TipStep ==
  ASSUME CoinsInv, ~open, UNCHANGED <<tipBest, view, viewBest, open, fault>>,
         db' \in [Txid -> SUBSET Out], dbBest' \in Label,
         \A t \in Txid : Honest(tip'[t], db'[t]), tip' \in [Txid -> Entry]
  PROVE  CoinsInv'
<1>1. CoinsType' /\ TipHonest' /\ Closed'
  BY DEF CoinsInv, CoinsType, TipHonest, Closed
<1>2. ViewHonest'
  BY NoEntryHonest DEF CoinsInv, Closed, ViewHonest, Empty
<1> QED BY <1>1, <1>2 DEF CoinsInv

\* A lookup through pcoinsTip.
LEMMA FetchTipStep ==
  ASSUME CoinsInv, NEW t \in Txid, FetchTip(t)
  PROVE  CoinsInv' /\ SameTip /\ SameView /\ SameDb /\ open' = open
<1>0. /\ CoinsType /\ ~open /\ tip' = TipAfterFetch(t)
      /\ UNCHANGED <<db, dbBest, tipBest, view, viewBest, open, fault>>
  BY DEF CoinsInv, FetchTip
<1>1. \A u \in Txid : /\ Honest(tip'[u], db'[u])
                      /\ Seen(tip'[u], db[u]) = TipCoins[u]
  BY Zenon, <1>0, TipFetched
<1>2. tip' \in [Txid -> Entry]
  BY Zenon, <1>0, TipFetched
<1>3. CoinsInv'
  BY <1>0, <1>1, <1>2, TipStep DEF CoinsType
<1>4. TipCoins' = TipCoins
  BY Zenon, <1>0, <1>1 DEF TipCoins, Seen
<1>5. ViewCoins' = ViewCoins
  BY Zenon, <1>0, <1>4 DEF ViewCoins
<1> QED BY <1>0, <1>3, <1>4, <1>5 DEF SameTip, SameView, SameDb

\* Forgetting a clean entry of pcoinsTip.
LEMMA UncacheStep ==
  ASSUME CoinsInv, NEW t \in Txid, Uncache(t)
  PROVE  CoinsInv' /\ SameTip /\ SameView /\ SameDb /\ open' = open
<1>0. /\ CoinsType /\ TipHonest /\ ~open /\ tip' = [tip EXCEPT ![t] = NoEntry]
      /\ tip[t].in /\ ~tip[t].dirty /\ ~tip[t].fresh
      /\ UNCHANGED <<db, dbBest, tipBest, view, viewBest, open, fault>>
  BY DEF CoinsInv, Uncache
<1>1. Honest(NoEntry, db[t]) /\ Seen(NoEntry, db[t]) = Seen(tip[t], db[t])
  <2>1. db[t] \in SUBSET Out /\ Honest(tip[t], db[t])
    BY <1>0 DEF CoinsType, TipHonest
  <2> QED BY Zenon, <1>0, <2>1, UncachedHonest
<1>2. \A u \in Txid : /\ Honest(tip'[u], db'[u])
                      /\ Seen(tip'[u], db[u]) = Seen(tip[u], db[u])
  BY <1>0, <1>1 DEF CoinsType, TipHonest
<1>3. tip' \in [Txid -> Entry]
  BY <1>0 DEF CoinsType, NoEntry, Entry
<1>4. CoinsInv'
  BY <1>0, <1>2, <1>3, TipStep DEF CoinsType
<1>5. TipCoins' = TipCoins
  BY Zenon, <1>0, <1>2 DEF TipCoins, Seen
<1>6. ViewCoins' = ViewCoins
  BY <1>0, <1>5 DEF ViewCoins
<1> QED BY <1>0, <1>4, <1>5, <1>6 DEF SameTip, SameView, SameDb

\* A change in place.
LEMMA ModifyTipStep ==
  ASSUME CoinsInv, NEW t \in Txid, NEW outs \in SUBSET Out, ModifyTip(t, outs)
  PROVE  CoinsInv' /\ SameDb /\ ~open /\ ~open' /\ tipBest' = tipBest
         /\ TipCoins' = [TipCoins EXCEPT ![t] = outs]
<1>0. /\ CoinsType /\ TipHonest /\ ~open
      /\ tip' = [tip EXCEPT ![t] = ModifiedEntry(tip[t], db[t] # {}, db[t], outs)]
      /\ UNCHANGED <<db, dbBest, tipBest, view, viewBest, open, fault>>
  BY Zenon DEF CoinsInv, ModifyTip, Modified, ModifiedEntry
<1>1. /\ Honest(ModifiedEntry(tip[t], db[t] # {}, db[t], outs), db[t])
      /\ Seen(ModifiedEntry(tip[t], db[t] # {}, db[t], outs), db[t]) = outs
  <2>1. db[t] \in SUBSET Out /\ Honest(tip[t], db[t])
    BY <1>0 DEF CoinsType, TipHonest
  <2> QED BY Zenon, <2>1, ModifiedHonest
<1>2. \A u \in Txid : /\ Honest(tip'[u], db'[u])
                      /\ Seen(tip'[u], db[u]) = IF u = t THEN outs ELSE Seen(tip[u], db[u])
  BY SMTT(40), <1>0, <1>1 DEF CoinsType, TipHonest
<1>3. tip' \in [Txid -> Entry]
  BY Zenon, <1>0, <1>1 DEF CoinsType, Honest
<1>4. CoinsInv'
  BY <1>0, <1>2, <1>3, TipStep DEF CoinsType
<1>5. TipCoins' = [TipCoins EXCEPT ![t] = outs]
  BY Zenon, <1>0, <1>2 DEF TipCoins, Seen
<1> QED BY <1>0, <1>4, <1>5 DEF SameDb

\* pcoinsTip->Flush(): the database has what readers see.
LEMMA FlushTipStep ==
  ASSUME CoinsInv, FlushTip
  PROVE  CoinsInv' /\ SameTip /\ SameView /\ ~open /\ ~open'
         /\ db' = TipCoins /\ dbBest' = tipBest
<1>0. /\ CoinsType /\ TipHonest /\ ~open
      /\ db' = [t \in Txid |-> IF tip[t].in /\ tip[t].dirty THEN tip[t].coins ELSE db[t]]
      /\ dbBest' = tipBest /\ tip' = Empty
      /\ UNCHANGED <<tipBest, view, viewBest, open, fault>>
  BY DEF CoinsInv, FlushTip
<1>1. db' = TipCoins
  <2>1. ASSUME NEW t \in Txid
        PROVE  db'[t] = TipCoins[t]
    <3>1. db[t] \in SUBSET Out /\ Honest(tip[t], db[t])
      BY <1>0 DEF CoinsType, TipHonest
    <3> QED BY Zenon, <1>0, <3>1, SavedHonest, SeenAll
  <2> QED BY Zenon, <1>0, <2>1 DEF TipCoins
<1>2. \A t \in Txid : Honest(tip'[t], db'[t])
  BY <1>0, NoEntryHonest DEF Empty
<1>3. tip' \in [Txid -> Entry]
  BY Zenon, <1>0 DEF Empty, NoEntry, Entry
<1>4. CoinsInv'
  BY Zenon, <1>0, <1>1, <1>2, <1>3, TipStep, CoinsTyped DEF CoinsType
<1>5. TipCoins' = TipCoins
  <2>1. TipCoins' = db'
    BY Zenon, <1>0, <1>1 DEF TipCoins, Empty, NoEntry
  <2> QED BY <1>1, <2>1
<1>6. ViewCoins' = ViewCoins
  BY Zenon, <1>0, <1>5 DEF ViewCoins
<1> QED BY <1>0, <1>1, <1>4, <1>5, <1>6 DEF SameTip, SameView

\* A crash leaves what the database has.
LEMMA CrashStep ==
  ASSUME CoinsInv, CrashCoins
  PROVE  CoinsInv' /\ SameDb /\ ~open' /\ TipCoins' = db /\ tipBest' = dbBest
<1>0. /\ CoinsType
      /\ tip' = Empty /\ tipBest' = dbBest /\ view' = Empty /\ viewBest' = dbBest
      /\ open' = FALSE /\ UNCHANGED <<db, dbBest, fault>>
  BY DEF CoinsInv, CrashCoins
<1>1. TipCoins' = db
  BY <1>0 DEF TipCoins, Empty, NoEntry, CoinsType
<1>2. \A t \in Txid : Honest(tip'[t], db'[t]) /\ Honest(view'[t], TipCoins'[t])
  BY <1>0, NoEntryHonest DEF Empty
<1>3. tip' \in [Txid -> Entry] /\ view' \in [Txid -> Entry]
  BY Zenon, <1>0 DEF Empty, NoEntry, Entry
<1>4. CoinsInv'
  BY Zenon, <1>0, <1>2, <1>3 DEF CoinsInv, CoinsType, TipHonest, ViewHonest, Closed
<1> QED BY <1>0, <1>1, <1>4 DEF SameDb

-----------------------------------------------------------------------------
(* The theorems *)

\* Empty caches over any database satisfy the invariant.
LEMMA CoinsInitInv ==
  ASSUME CoinsInit
  PROVE  CoinsInv
<1>1. CoinsType /\ Closed
  BY Zenon DEF CoinsInit, CoinsType, Closed, Empty, NoEntry, Entry
<1>2. TipHonest /\ ViewHonest
  BY NoEntryHonest DEF CoinsInit, TipHonest, ViewHonest, Empty
<1> QED BY <1>1, <1>2 DEF CoinsInv

\* Every step keeps the invariant and is a step of the one set of unspent outputs.
LEMMA CoinsNextStep ==
  ASSUME CoinsInv, [CoinsNext]_coinsVars
  PROVE  CoinsInv' /\ [Flat!Next]_(Flat!vars)
<1>1. CASE OpenView
  <2>1. TipCoins' = TipCoins /\ ViewCoins' = ViewCoins
    BY Zenon, <1>1 DEF OpenView, TipCoins, ViewCoins
  <2>2. CoinsInv'
    BY Zenon, <1>1, <2>1 DEF OpenView, CoinsInv, CoinsType, TipHonest, ViewHonest, Closed
  <2>3. Flat!Begin
    BY <1>1, <2>1, ClosedView DEF OpenView, Flat!Begin
  <2> QED BY <2>2, <2>3 DEF Flat!Next
<1>2. CASE FlushView
  <2>1. Flat!Commit
    BY <1>2, FlushViewStep DEF Flat!Commit, SameDb, SameView
  <2> QED BY <1>2, <2>1, FlushViewStep DEF Flat!Next
<1>3. CASE DropView
  <2>1. Flat!Discard
    BY Zenon, <1>3, DropViewStep DEF Flat!Discard, SameDb, SameTip, DropView
  <2> QED BY <1>3, <2>1, DropViewStep DEF Flat!Next
<1>4. CASE FlushTip
  <2>1. Flat!Save
    BY Zenon, <1>4, FlushTipStep DEF Flat!Save, SameTip, SameView, FlushTip
  <2> QED BY <1>4, <2>1, FlushTipStep DEF Flat!Next
<1>5. CASE CrashCoins
  <2>1. ViewCoins' = TipCoins' /\ viewBest' = tipBest'
    BY <1>5, CrashStep, ClosedViewNext
  <2>2. Flat!Crash
    BY Zenon, <1>5, <2>1, CrashStep DEF Flat!Crash, SameDb, CrashCoins
  <2> QED BY <1>5, <2>2, CrashStep DEF Flat!Next
<1>6. ASSUME NEW b \in Label, SetBestBlock(b)
      PROVE  CoinsInv' /\ Flat!Next
  <2>1. TipCoins' = TipCoins /\ ViewCoins' = ViewCoins
    BY Zenon, <1>6 DEF SetBestBlock, TipCoins, ViewCoins
  <2>2. CoinsInv'
    BY Zenon, <1>6, <2>1 DEF SetBestBlock, CoinsInv, CoinsType, TipHonest, ViewHonest, Closed
  <2>3. [coins |-> ViewCoins', best |-> viewBest']
          = [[coins |-> ViewCoins, best |-> viewBest] EXCEPT !.best = b]
    BY <1>6, <2>1 DEF SetBestBlock
  <2>4. Flat!ChangeWork
    BY <1>6, <2>1, <2>3 DEF SetBestBlock, Flat!ChangeWork, Flat!Change
  <2> QED BY <2>2, <2>4 DEF Flat!Next
<1>7. ASSUME NEW t \in Txid, FetchView(t) \/ FetchTip(t) \/ Uncache(t)
      PROVE  CoinsInv' /\ UNCHANGED Flat!vars
  BY <1>7, FetchViewStep, FetchTipStep, UncacheStep
  DEF Flat!vars, SameTip, SameView, SameDb
<1>8. ASSUME NEW t \in Txid, NEW outs \in SUBSET Out,
             \/ ModifyView(t, outs)
             \/ \E coinbase \in BOOLEAN :
                  (~coinbase => ViewCoins[t] = {}) /\ NewInView(t, coinbase, outs)
      PROVE  CoinsInv' /\ Flat!Next
  <2>1. CoinsInv' /\ SameTip /\ SameDb /\ open /\ open' /\ viewBest' = viewBest
        /\ ViewCoins' = [ViewCoins EXCEPT ![t] = outs]
    BY <1>8, ModifyViewStep, NewInViewStep
  <2>2. [coins |-> ViewCoins', best |-> viewBest']
          = [[coins |-> ViewCoins, best |-> viewBest] EXCEPT !.coins[t] = outs]
    BY SMTT(40), <2>1
  <2>3. open' = open
    BY Zenon, <1>8 DEF ModifyView, NewInView
  <2>4. Flat!ChangeWork
    BY Zenon, <2>1, <2>2, <2>3 DEF Flat!ChangeWork, Flat!Change, SameTip, SameDb
  <2> QED BY <2>1, <2>4 DEF Flat!Next
<1>9. ASSUME NEW t \in Txid, NEW outs \in SUBSET Out, ModifyTip(t, outs)
      PROVE  CoinsInv' /\ Flat!Next
  <2>1. CoinsInv' /\ SameDb /\ ~open /\ ~open' /\ tipBest' = tipBest
        /\ TipCoins' = [TipCoins EXCEPT ![t] = outs]
    BY <1>9, ModifyTipStep
  <2>2. [coins |-> TipCoins', best |-> tipBest']
          = [[coins |-> TipCoins, best |-> tipBest] EXCEPT !.coins[t] = outs]
    BY <2>1
  <2>3. ViewCoins' = TipCoins' /\ viewBest' = tipBest'
    BY <2>1, ClosedViewNext
  <2>4. open' = open
    BY <1>9 DEF ModifyTip
  <2>5. Flat!ChangeInPlace
    BY Zenon, <2>1, <2>2, <2>3, <2>4 DEF Flat!ChangeInPlace, Flat!Change, SameDb
  <2> QED BY <2>1, <2>5 DEF Flat!Next
<1>10. CASE UNCHANGED coinsVars
  <2>1. TipCoins' = TipCoins /\ ViewCoins' = ViewCoins
    BY Zenon, <1>10 DEF coinsVars, TipCoins, ViewCoins
  <2> QED
    BY Zenon, <1>10, <2>1
    DEF coinsVars, CoinsInv, CoinsType, TipHonest, ViewHonest, Closed, Flat!vars
<1> QED
  BY Zenon, <1>1, <1>2, <1>3, <1>4, <1>5, <1>6, <1>7, <1>8, <1>9, <1>10 DEF CoinsNext

\* Honest entries have true flags.
LEMMA InvImpliesFlags ==
  ASSUME CoinsInv
  PROVE  FlagsTrue
  BY Zenon DEF CoinsInv, CoinsType, TipHonest, ViewHonest, Honest, FlagsTrue

\* The DIRTY and FRESH flags never lie, and no logic_error is thrown, for every
\* sequence of operations on the coins views.
THEOREM FlagsTheorem == CoinsSpec => []FlagsTrue
<1>1. CoinsInit => CoinsInv
  BY CoinsInitInv
<1>2. CoinsInv /\ [CoinsNext]_coinsVars => CoinsInv'
  BY CoinsNextStep
<1>3. CoinsInv => FlagsTrue
  BY InvImpliesFlags
<1> QED BY <1>1, <1>2, <1>3, PTL DEF CoinsSpec

\* Empty caches are an initial state of one set of unspent outputs.
LEMMA CoinsInitFlat ==
  ASSUME CoinsInit
  PROVE  Flat!Init
<1>1. CoinsInv
  BY Zenon, CoinsInitInv
<1>2. ~open /\ TipCoins = db /\ tipBest = dbBest
  BY Zenon DEF CoinsInit, TipCoins, Empty, NoEntry
<1>3. ViewCoins = db /\ viewBest = dbBest
  BY Zenon, <1>1, <1>2, ClosedView
<1> QED BY <1>2, <1>3 DEF CoinsInit, Flat!Init, Flat!UtxoSets

\* The stack of coins views implements one set of unspent outputs.
THEOREM UtxoSetTheorem == CoinsSpec => ActsAsUtxoSet
<1>1. CoinsInit => CoinsInv /\ Flat!Init
  BY Zenon, CoinsInitInv, CoinsInitFlat
<1>2. CoinsInv /\ [CoinsNext]_coinsVars => CoinsInv' /\ [Flat!Next]_(Flat!vars)
  BY CoinsNextStep
<1> QED BY <1>1, <1>2, PTL DEF CoinsSpec, ActsAsUtxoSet, Flat!Spec

-----------------------------------------------------------------------------
(* Induction and recursion on natural numbers *)

\* A set of natural numbers that is not empty has a least element.
LEMMA LeastNatural ==
  ASSUME NEW T, T \subseteq Nat, T # {}
  PROVE  \E n \in T : \A m \in T : n <= m
<1> DEFINE R == OpToRel(<, Nat)
<1>1. IsWellFoundedOn(R, Nat)
  BY Zenon, NatLessThanWellFounded
<1>2. \A m, n \in Nat : <<m, n>> \in R <=> m < n
  BY DEF OpToRel
<1>3. \E Q : IsWellFoundedOn(Q, Nat) /\ \A m, n \in Nat : <<m, n>> \in Q <=> m < n
  <2> HIDE DEF R
  <2> QED BY <1>1, <1>2
<1>4. PICK Q : IsWellFoundedOn(Q, Nat) /\ \A m, n \in Nat : <<m, n>> \in Q <=> m < n
  BY <1>3
<1>a. IsWellFoundedOn(Q, Nat)
  BY <1>4
<1>5. PICK n \in T : \A m \in T : ~(<<m, n>> \in Q)
  BY Zenon, <1>a, WFMin
<1>6. \A m \in T : ~(m < n)
  BY Zenon, <1>4, <1>5
<1>7. \A m \in T : n <= m
  BY <1>6
<1> QED BY <1>7

\* A set that has 0, and n + 1 whenever it has n, has every natural number.
LEMMA SetInduction ==
  ASSUME NEW T, 0 \in T, \A n \in Nat : n \in T => n + 1 \in T
  PROVE  Nat \subseteq T
<1> DEFINE U == Nat \ T
<1>1. SUFFICES ASSUME U # {} PROVE FALSE
  OBVIOUS
<1>2. PICK n \in U : \A m \in U : n <= m
  BY Zenon, <1>1, LeastNatural
<1>3. n - 1 \in Nat /\ n - 1 \in T
  BY <1>2
<1> QED BY <1>3, <1>2

\* f is the sequence of elements of S that starts with s0 and goes on by step.
Follows(f, S, s0, step) ==
  /\ f \in [Nat -> S] /\ f[0] = s0
  /\ \A n \in Nat : f[n + 1] = step[<<n, f[n]>>]

\* Recursion on natural numbers: the sequence exists.
LEMMA RecursionOnNat ==
  ASSUME NEW S, NEW s0 \in S, NEW step \in [Nat \X S -> S]
  PROVE  \E f : Follows(f, S, s0, step)
<1> DEFINE Upto(n) == {g \in [0..n -> S] :
                         g[0] = s0 /\ \A k \in 0..(n - 1) : g[k + 1] = step[<<k, g[k]>>]}
<1>1. \A n \in Nat : Upto(n) # {}
  <2> DEFINE T == {n \in Nat : Upto(n) # {}}
  <2>1. 0 \in T
    <3>1. [k \in 0..0 |-> s0] \in Upto(0)
      OBVIOUS
    <3> QED BY Zenon, <3>1
  <2>2. ASSUME NEW n \in Nat, n \in T
        PROVE  n + 1 \in T
    <3>1. PICK g \in Upto(n) : TRUE
      BY <2>2
    <3> DEFINE h == [k \in 0..(n + 1) |-> IF k = n + 1 THEN step[<<n, g[n]>>] ELSE g[k]]
    <3>2. g[n] \in S /\ step[<<n, g[n]>>] \in S
      BY <3>1
    <3>3. h \in [0..(n + 1) -> S]
      BY <3>1, <3>2
    <3>4. h[n + 1] = step[<<n, g[n]>>] /\ \A k \in 0..n : h[k] = g[k]
      OBVIOUS
    <3> HIDE DEF h
    <3>5. ASSUME NEW k \in 0..n PROVE h[k + 1] = step[<<k, h[k]>>]
      <4>1. CASE k = n
        BY Zenon, <3>4, <4>1
      <4>2. CASE k # n
        <5>1. k \in 0..(n - 1) /\ k + 1 \in 0..n
          BY <4>2
        <5> QED BY <5>1, <3>1, <3>4
      <4> QED BY <4>1, <4>2
    <3>6. h[0] = s0 /\ (n + 1) - 1 = n
      BY <3>1, <3>4
    <3>7. h \in Upto(n + 1)
      BY <3>3, <3>5, <3>6
    <3> HIDE DEF Upto
    <3> QED BY <3>7
  <2> HIDE DEF T
  <2>3. Nat \subseteq T
    BY <2>1, <2>2, SetInduction
  <2> QED BY Zenon, <2>3 DEF T
<1>2. ASSUME NEW m \in Nat, NEW n \in Nat, m <= n, NEW g \in Upto(m), NEW h \in Upto(n)
      PROVE  \A k \in 0..m : g[k] = h[k]
  <2> DEFINE T == {k \in Nat : k <= m => g[k] = h[k]}
  <2>1. 0 \in T
    BY Zenon
  <2>2. ASSUME NEW k \in Nat, k \in T
        PROVE  k + 1 \in T
    <3>1. CASE k + 1 <= m
      <4>1. k \in 0..(m - 1) /\ k \in 0..(n - 1)
        BY <1>2, <3>1
      <4>2. g[k + 1] = step[<<k, g[k]>>] /\ h[k + 1] = step[<<k, h[k]>>]
        BY <4>1
      <4>3. g[k] = h[k]
        BY <2>2, <3>1
      <4> QED BY <4>2, <4>3
    <3>2. CASE ~(k + 1 <= m)
      BY <3>2
    <3> QED BY <3>1, <3>2
  <2> HIDE DEF T
  <2>3. Nat \subseteq T
    BY Zenon, <2>1, <2>2, SetInduction
  <2> QED BY <2>3 DEF T
<1> DEFINE G(n) == CHOOSE g \in Upto(n) : TRUE
           f == [n \in Nat |-> G(n)[n]]
<1>3. \A n \in Nat : G(n) \in Upto(n)
  BY Zenon, <1>1
<1> HIDE DEF G
<1>4. f \in [Nat -> S] /\ f[0] = s0
  <2>1. \A n \in Nat : G(n)[n] \in S
    BY <1>3
  <2> QED BY <2>1, <1>3
<1>5. ASSUME NEW n \in Nat PROVE f[n + 1] = step[<<n, f[n]>>]
  <2>1. G(n + 1)[n + 1] = step[<<n, G(n + 1)[n]>>]
    BY <1>3
  <2>2. G(n + 1)[n] = G(n)[n]
    <3> HIDE DEF Upto
    <3>1. G(n) \in Upto(n) /\ G(n + 1) \in Upto(n + 1) /\ n + 1 \in Nat /\ n <= n + 1 /\ n \in 0..n
      BY <1>3
    <3> QED BY <3>1, <1>2
  <2> QED BY <2>1, <2>2
<1> HIDE DEF f
<1> QED BY <1>4, <1>5 DEF Follows

-----------------------------------------------------------------------------
(* The coins inside a block *)

Coins == [Txid -> SUBSET Out]

TxOf(b, k) == BlockTxs[b][k]
In(b, k, m) == BlockTxs[b][k].ins[m]

\* The coins after the first k transactions of b.
At(b, k) == AfterTxs(UtxoOf[Parent[b]], BlockTxs[b])[k]

\* A set of coins without the first m inputs of a transaction.
Spent(set, tx, m) ==
  [t \in Txid |-> {n \in set[t] : \A l \in 1 .. m : tx.ins[l] # <<t, n>>}]

\* What ConnectBlock checks: BIP30, and that the inputs are there.
IsNew(b, k) == UtxoOf[Parent[b]][TxOf(b, k).id] = {}
Available(b, k, m) == In(b, k, m)[2] \in At(b, k - 1)[In(b, k, m)[1]]
HasInputs(b, k) == \A m \in DOMAIN TxOf(b, k).ins : Available(b, k, m)

\* The inputs before input y of transaction x whose spending left nothing.
Empties(b, k, m) == Spent(At(b, k - 1), TxOf(b, k), m)[In(b, k, m)[1]] = {}
UndoUpto(b, x, y) ==
  {p \in Nat \X Nat : /\ p[1] \in DOMAIN BlockTxs[b] /\ p[2] \in DOMAIN TxOf(b, p[1]).ins
                      /\ p[1] < x \/ (p[1] = x /\ p[2] < y)
                      /\ Empties(b, p[1], p[2])}
UndoOf(b) == UndoUpto(b, Len(BlockTxs[b]) + 1, 1)

-----------------------------------------------------------------------------
(* What the definitions by recursion compute *)

\* A block has a parent in the tree and holds a sequence of transactions.
LEMMA BlockTyped ==
  ASSUME NEW b \in Label
  PROVE  /\ Parent[b] \in Label
         /\ BlockTxs[b] \in Seq(Transaction) /\ Len(BlockTxs[b]) \in Nat
         /\ DOMAIN BlockTxs[b] = 1 .. Len(BlockTxs[b])
  BY TreeAssumption, BlockAssumption

\* A transaction of a block, and the outputs its inputs name.
LEMMA TxTyped ==
  ASSUME NEW b \in Label, NEW k \in 1 .. Len(BlockTxs[b])
  PROVE  /\ TxOf(b, k) \in Transaction
         /\ TxOf(b, k).id \in Txid /\ TxOf(b, k).outs \in SUBSET Out
         /\ TxOf(b, k).ins \in Seq(Txid \X Out) /\ Len(TxOf(b, k).ins) \in Nat
         /\ DOMAIN TxOf(b, k).ins = 1 .. Len(TxOf(b, k).ins)
         /\ \A m \in 1 .. Len(TxOf(b, k).ins) :
              /\ In(b, k, m) \in Txid \X Out
              /\ In(b, k, m) = TxOf(b, k).ins[m]
              /\ In(b, k, m)[1] \in Txid /\ In(b, k, m)[2] \in Out
              /\ In(b, k, m) = <<In(b, k, m)[1], In(b, k, m)[2]>>
<1>1. TxOf(b, k) \in Transaction
  BY BlockTyped DEF TxOf
<1>2. /\ TxOf(b, k).id \in Txid /\ TxOf(b, k).outs \in SUBSET Out
      /\ TxOf(b, k).ins \in Seq(Txid \X Out)
  BY <1>1 DEF Transaction
<1>3. \A m \in 1 .. Len(TxOf(b, k).ins) : In(b, k, m) \in Txid \X Out
  BY <1>2 DEF In, TxOf
<1>4. \A m : In(b, k, m) = TxOf(b, k).ins[m]
  BY DEF In, TxOf
<1> QED BY <1>1, <1>2, <1>3, <1>4

\* Applying a transaction to a set of coins gives a set of coins.
LEMMA AfterTxTyped ==
  ASSUME NEW set \in Coins, NEW tx \in Transaction
  PROVE  AfterTx(set, tx) \in Coins
  BY Zenon DEF Coins, AfterTx, Transaction

\* The coins after each transaction.
LEMMA AfterTxsStep ==
  ASSUME NEW set \in Coins, NEW txs \in Seq(Transaction)
  PROVE  /\ AfterTxs(set, txs) \in [0 .. Len(txs) -> Coins]
         /\ AfterTxs(set, txs)[0] = set
         /\ \A k \in 1 .. Len(txs) :
              AfterTxs(set, txs)[k] = AfterTx(AfterTxs(set, txs)[k - 1], txs[k])
<1> DEFINE step == [p \in Nat \X Coins |->
                      IF p[1] < Len(txs) THEN AfterTx(p[2], txs[p[1] + 1]) ELSE p[2]]
           Goal(g) == g = [k \in 0 .. Len(txs) |->
                             IF k = 0 THEN set ELSE AfterTx(g[k - 1], txs[k])]
<1>0. Len(txs) \in Nat /\ \A k \in 1 .. Len(txs) : txs[k] \in Transaction
  OBVIOUS
<1>1. step \in [Nat \X Coins -> Coins]
  BY <1>0, AfterTxTyped
<1>2. \A n \in Nat, s \in Coins :
        n < Len(txs) => step[<<n, s>>] = AfterTx(s, txs[n + 1])
  OBVIOUS
<1> HIDE DEF step
<1>3a. PICK f : Follows(f, Coins, set, step)
  BY Zenon, <1>1, RecursionOnNat
<1>3. f \in [Nat -> Coins] /\ f[0] = set /\ \A n \in Nat : f[n + 1] = step[<<n, f[n]>>]
  BY <1>3a DEF Follows
<1> DEFINE h == [k \in 0 .. Len(txs) |-> f[k]]
<1>4. h \in [0 .. Len(txs) -> Coins] /\ h[0] = set
  BY <1>0, <1>3
<1>5. ASSUME NEW k \in 1 .. Len(txs)
      PROVE  h[k] = AfterTx(h[k - 1], txs[k])
  <2>1. k - 1 \in Nat /\ k - 1 < Len(txs) /\ (k - 1) + 1 = k /\ k \in 0 .. Len(txs)
        /\ k - 1 \in 0 .. Len(txs)
    BY <1>0
  <2>2. f[k] = step[<<k - 1, f[k - 1]>>] /\ f[k - 1] \in Coins
    BY Zenon, <1>3, <2>1
  <2>3. step[<<k - 1, f[k - 1]>>] = AfterTx(f[k - 1], txs[k])
    BY Zenon, <1>2, <2>1, <2>2
  <2> QED BY Zenon, <2>1, <2>2, <2>3
<1> HIDE DEF h
<1>6. Goal(h)
  BY <1>0, <1>4, <1>5
<1>7. AfterTxs(set, txs) = CHOOSE g : Goal(g)
  BY DEF AfterTxs
<1>8. Goal(AfterTxs(set, txs))
  <2> HIDE DEF Goal
  <2> QED BY <1>6, <1>7
<1> DEFINE a == AfterTxs(set, txs)
<1> HIDE DEF a
<1>9. a = [k \in 0 .. Len(txs) |-> IF k = 0 THEN set ELSE AfterTx(a[k - 1], txs[k])]
  BY Zenon, <1>8 DEF a
<1>10. a[0] = set /\ \A k \in 1 .. Len(txs) : a[k] = AfterTx(a[k - 1], txs[k])
  BY <1>0, <1>9
<1>11. \A k \in 0 .. Len(txs) : a[k] = h[k]
  <2> DEFINE T == {k \in Nat : k <= Len(txs) => a[k] = h[k]}
  <2>1. 0 \in T
    BY <1>4, <1>10
  <2>2. ASSUME NEW n \in Nat, n \in T
        PROVE  n + 1 \in T
    <3>1. CASE n + 1 <= Len(txs)
      <4>1. n + 1 \in 1 .. Len(txs) /\ (n + 1) - 1 = n /\ a[n] = h[n]
        BY <1>0, <2>2, <3>1
      <4> QED BY <1>5, <1>10, <4>1
    <3>2. CASE ~(n + 1 <= Len(txs))
      BY <3>2
    <3> QED BY <3>1, <3>2
  <2> HIDE DEF T
  <2>3. Nat \subseteq T
    BY <2>1, <2>2, SetInduction
  <2> QED BY <1>0, <2>3 DEF T
<1>12. a \in [0 .. Len(txs) -> Coins]
  BY <1>4, <1>9, <1>11
<1> QED BY Zenon, <1>10, <1>12 DEF a

\* f is the function on blocks that starts with s0 and goes on by step.
FollowsTree(f, S, s0, step) ==
  /\ f \in [Label -> S] /\ f[Genesis] = s0
  /\ \A b \in Label \ {Genesis} : f[b] = step[<<b, f[Parent[b]]>>]

\* Recursion on the tree of blocks, by height.
LEMMA RecursionOnTree ==
  ASSUME NEW S, NEW s0 \in S, NEW step \in [Label \X S -> S]
  PROVE  \E f : FollowsTree(f, S, s0, step)
<1> DEFINE F == [Label -> S]
           grow == [p \in Nat \X F |->
                      [b \in Label |-> IF b = Genesis THEN s0 ELSE step[<<b, p[2][Parent[b]]>>]]]
           g0 == [b \in Label |-> s0]
<1>1. g0 \in F
  OBVIOUS
<1>2. grow \in [Nat \X F -> F]
  BY Zenon, TreeAssumption
<1>3. \A n \in Nat, e \in F, b \in Label \ {Genesis} :
        grow[<<n, e>>][b] = step[<<b, e[Parent[b]]>>]
  BY Zenon
<1> HIDE DEF grow, F
<1>4. PICK g : Follows(g, F, g0, grow)
  BY Zenon, <1>1, <1>2, RecursionOnNat
<1>5. g \in [Nat -> F] /\ g[0] = g0 /\ \A n \in Nat : g[n + 1] = grow[<<n, g[n]>>]
  BY <1>4 DEF Follows
<1> DEFINE f == [b \in Label |-> g[Height[b]][b]]
<1>6. \A b \in Label : Height[b] \in Nat /\ g[Height[b]] \in [Label -> S]
  BY <1>5, TreeAssumption DEF F
<1>7. f \in [Label -> S] /\ f[Genesis] = s0
  BY ZenonT(40), <1>5, <1>6, TreeAssumption
<1>8. ASSUME NEW b \in Label \ {Genesis}
      PROVE  f[b] = step[<<b, f[Parent[b]]>>]
  <2> DEFINE n == Height[Parent[b]]
  <2>1. n \in Nat /\ Height[b] = n + 1 /\ Parent[b] \in Label
    BY TreeAssumption
  <2>2. f[b] = g[n + 1][b] /\ f[Parent[b]] = g[n][Parent[b]]
    BY Zenon, <2>1
  <2> HIDE DEF n, f
  <2>3. g[n + 1] = grow[<<n, g[n]>>] /\ g[n] \in F
    BY <1>5, <2>1
  <2>4. grow[<<n, g[n]>>][b] = step[<<b, g[n][Parent[b]]>>]
    BY Zenon, <1>3, <2>1, <2>3
  <2> QED BY Zenon, <2>2, <2>3, <2>4
<1> HIDE DEF f
<1>9. FollowsTree(f, S, s0, step)
  BY <1>7, <1>8 DEF FollowsTree
<1> QED BY <1>9

\* The coins of a chain.
LEMMA UtxoOfStep ==
  /\ UtxoOf \in [Label -> Coins]
  /\ UtxoOf[Genesis] = [t \in Txid |-> {}]
  /\ \A b \in Label \ {Genesis} :
       UtxoOf[b] = AfterTxs(UtxoOf[Parent[b]], BlockTxs[b])[Len(BlockTxs[b])]
<1> DEFINE none == [t \in Txid |-> {}]
           step == [p \in Label \X Coins |-> AfterTxs(p[2], BlockTxs[p[1]])[Len(BlockTxs[p[1]])]]
           Goal(g) == g = [b \in Label |->
                             IF b = Genesis THEN none
                             ELSE AfterTxs(g[Parent[b]], BlockTxs[b])[Len(BlockTxs[b])]]
<1>1. none \in Coins
  BY DEF Coins
<1>2. \A b \in Label, s \in Coins : AfterTxs(s, BlockTxs[b])[Len(BlockTxs[b])] \in Coins
  BY BlockTyped, AfterTxsStep
<1>3. step \in [Label \X Coins -> Coins]
  BY <1>2
<1>4. \A b \in Label, s \in Coins : step[<<b, s>>] = AfterTxs(s, BlockTxs[b])[Len(BlockTxs[b])]
  OBVIOUS
<1> HIDE DEF step, none
<1>5. PICK f : FollowsTree(f, Coins, none, step)
  BY Zenon, <1>1, <1>3, RecursionOnTree
<1>6. f \in [Label -> Coins] /\ f[Genesis] = none
      /\ \A b \in Label \ {Genesis} : f[b] = step[<<b, f[Parent[b]]>>]
  BY <1>5 DEF FollowsTree
<1>7. \A b \in Label \ {Genesis} : f[b] = AfterTxs(f[Parent[b]], BlockTxs[b])[Len(BlockTxs[b])]
  BY Zenon, <1>4, <1>6, BlockTyped
<1>8. Goal(f)
  BY Zenon, <1>6, <1>7
<1>9. UtxoOf = CHOOSE g : Goal(g)
  BY DEF UtxoOf, none
<1>10. Goal(UtxoOf)
  <2> HIDE DEF Goal
  <2> QED BY <1>8, <1>9
<1> DEFINE u == UtxoOf
<1> HIDE DEF u
<1>11. u = [b \in Label |-> IF b = Genesis THEN none
                            ELSE AfterTxs(u[Parent[b]], BlockTxs[b])[Len(BlockTxs[b])]]
  BY Zenon, <1>10 DEF u
<1>12. /\ u[Genesis] = none
       /\ \A b \in Label \ {Genesis} :
            u[b] = AfterTxs(u[Parent[b]], BlockTxs[b])[Len(BlockTxs[b])]
  BY Zenon, <1>11, TreeAssumption
<1>13. \A b \in Label : u[b] = f[b]
  <2> DEFINE T == {n \in Nat : \A b \in Label : Height[b] = n => u[b] = f[b]}
  <2>1. \A b \in Label : Height[b] = 0 => b = Genesis
    BY TreeAssumption
  <2>2. 0 \in T
    BY Zenon, <1>6, <1>12, <2>1
  <2>3. ASSUME NEW n \in Nat, n \in T
        PROVE  n + 1 \in T
    <3>1. ASSUME NEW b \in Label, Height[b] = n + 1
          PROVE  u[b] = f[b]
      <4>1. b # Genesis /\ Parent[b] \in Label /\ Height[Parent[b]] = n
        BY <3>1, TreeAssumption
      <4>2. u[Parent[b]] = f[Parent[b]]
        BY Zenon, <2>3, <4>1
      <4> QED BY Zenon, <1>7, <1>12, <4>1, <4>2
    <3> QED BY <3>1
  <2> HIDE DEF T
  <2>4. Nat \subseteq T
    BY <2>2, <2>3, SetInduction
  <2> QED BY <2>4, TreeAssumption DEF T
<1>14. u \in [Label -> Coins]
  BY Zenon, <1>6, <1>11, <1>13
<1> QED BY Zenon, <1>12, <1>14 DEF u, none

\* The chain of a block is that of its parent, and the block.
LEMMA ChainOfStep ==
  /\ ChainOf[Genesis] = {}
  /\ \A b \in Label \ {Genesis} : ChainOf[b] = ChainOf[Parent[b]] \cup {b}
<1> DEFINE step == [p \in Label \X SUBSET Label |-> p[2] \cup {p[1]}]
           Goal(g) == g = [b \in Label |-> IF b = Genesis THEN {} ELSE g[Parent[b]] \cup {b}]
<1>1. step \in [Label \X SUBSET Label -> SUBSET Label]
  OBVIOUS
<1>2. \A b \in Label, s \in SUBSET Label : step[<<b, s>>] = s \cup {b}
  OBVIOUS
<1> HIDE DEF step
<1>3. PICK f : FollowsTree(f, SUBSET Label, {}, step)
  BY Zenon, <1>1, RecursionOnTree
<1>4. f \in [Label -> SUBSET Label] /\ f[Genesis] = {}
      /\ \A b \in Label \ {Genesis} : f[b] = step[<<b, f[Parent[b]]>>]
  BY <1>3 DEF FollowsTree
<1>5. \A b \in Label \ {Genesis} : f[b] = f[Parent[b]] \cup {b}
  BY Zenon, <1>2, <1>4, BlockTyped
<1>6. Goal(f)
  BY <1>4, <1>5
<1>7. ChainOf = CHOOSE g : Goal(g)
  BY DEF ChainOf
<1>8. Goal(ChainOf)
  <2> HIDE DEF Goal
  <2> QED BY <1>6, <1>7
<1> DEFINE c == ChainOf
<1> HIDE DEF c
<1>9. c = [b \in Label |-> IF b = Genesis THEN {} ELSE c[Parent[b]] \cup {b}]
  BY <1>8 DEF c
<1> QED BY <1>9, TreeAssumption DEF c

\* The coins inside a block.
LEMMA AtStep ==
  ASSUME NEW b \in Label
  PROVE  /\ At(b, 0) = UtxoOf[Parent[b]]
         /\ b # Genesis => UtxoOf[b] = At(b, Len(BlockTxs[b]))
         /\ \A k \in 0 .. Len(BlockTxs[b]) : At(b, k) \in Coins
         /\ \A k \in 1 .. Len(BlockTxs[b]) : At(b, k) = AfterTx(At(b, k - 1), TxOf(b, k))
<1>1. UtxoOf[Parent[b]] \in Coins /\ BlockTxs[b] \in Seq(Transaction)
  BY Zenon, UtxoOfStep, BlockTyped
<1>2. /\ AfterTxs(UtxoOf[Parent[b]], BlockTxs[b]) \in [0 .. Len(BlockTxs[b]) -> Coins]
      /\ At(b, 0) = UtxoOf[Parent[b]]
      /\ \A k \in 1 .. Len(BlockTxs[b]) : At(b, k) = AfterTx(At(b, k - 1), TxOf(b, k))
  BY Zenon, <1>1, AfterTxsStep DEF At, TxOf
<1>3. \A k \in 0 .. Len(BlockTxs[b]) : At(b, k) \in Coins
  BY Zenon, <1>2 DEF At
<1>4. b # Genesis => UtxoOf[b] = At(b, Len(BlockTxs[b]))
  BY UtxoOfStep DEF At
<1> QED BY Zenon, <1>2, <1>3, <1>4

-----------------------------------------------------------------------------
(* Spending the inputs of a transaction one by one *)

\* Spending inputs of a transaction gives a set of coins.
LEMMA SpentTyped ==
  ASSUME NEW set \in Coins, NEW tx, NEW m
  PROVE  Spent(set, tx, m) \in Coins
  BY DEF Spent, Coins

\* Spending no input changes nothing.
LEMMA SpentNone ==
  ASSUME NEW set \in Coins, NEW tx
  PROVE  Spent(set, tx, 0) = set
<1>1. \A t \in Txid : Spent(set, tx, 0)[t] = set[t]
  BY DEF Spent
<1> QED BY <1>1 DEF Spent, Coins

\* Of two sets of coins, the second is the first one without output p.
Without(before, after, p) ==
  /\ p[1] \in Txid /\ after[p[1]] = before[p[1]] \ {p[2]}
  /\ after = [before EXCEPT ![p[1]] = after[p[1]]]

\* Spending one more input removes one output only.
LEMMA SpentNext ==
  ASSUME NEW set \in Coins, NEW tx \in Transaction, NEW m \in 1 .. Len(tx.ins)
  PROVE  Without(Spent(set, tx, m - 1), Spent(set, tx, m), tx.ins[m])
<1> DEFINE p == tx.ins[m]
<1>1. p \in Txid \X Out /\ p = <<p[1], p[2]>> /\ p[1] \in Txid /\ p[2] \in Out
  BY DEF Transaction
<1>2. Len(tx.ins) \in Nat /\ m \in 1 .. m /\ \A l \in 1 .. m : l = m \/ l \in 1 .. m - 1
  BY DEF Transaction
<1>3. \A l \in 1 .. m - 1 : l \in 1 .. m
  BY <1>2
<1> HIDE DEF p
<1>4. \A t, n : tx.ins[m] = <<t, n>> <=> t = p[1] /\ n = p[2]
  BY <1>1 DEF p
<1>5. \A t \in Txid : Spent(set, tx, m)[t] = {n \in Spent(set, tx, m - 1)[t] : tx.ins[m] # <<t, n>>}
  <2> SUFFICES ASSUME NEW t \in Txid, NEW n
               PROVE  n \in Spent(set, tx, m)[t]
                        <=> n \in Spent(set, tx, m - 1)[t] /\ tx.ins[m] # <<t, n>>
    BY Zenon
  <2>1. n \in Spent(set, tx, m)[t]
          <=> n \in set[t] /\ \A l \in 1 .. m : tx.ins[l] # <<t, n>>
    BY DEF Spent
  <2>2. n \in Spent(set, tx, m - 1)[t]
          <=> n \in set[t] /\ \A l \in 1 .. m - 1 : tx.ins[l] # <<t, n>>
    BY DEF Spent
  <2> QED BY Zenon, <1>2, <1>3, <2>1, <2>2
<1>6. Spent(set, tx, m)[p[1]] = Spent(set, tx, m - 1)[p[1]] \ {p[2]}
  BY <1>1, <1>4, <1>5
<1>7. \A t \in Txid : t # p[1] => Spent(set, tx, m)[t] = Spent(set, tx, m - 1)[t]
  <2> SUFFICES ASSUME NEW t \in Txid, t # p[1], NEW n
               PROVE  n \in Spent(set, tx, m)[t] <=> n \in Spent(set, tx, m - 1)[t]
    BY Zenon, SpentTyped DEF Coins
  <2> QED BY Zenon, <1>4, <1>5
<1>8. Spent(set, tx, m) = [Spent(set, tx, m - 1) EXCEPT ![p[1]] = Spent(set, tx, m)[p[1]]]
  BY <1>7, SpentTyped DEF Coins
<1> QED BY Zenon, <1>1, <1>6, <1>8 DEF p, Without

\* AfterTx: all inputs are spent, then the outputs are added.
LEMMA SpentAll ==
  ASSUME NEW set \in Coins, NEW tx \in Transaction
  PROVE  AfterTx(set, tx) = [Spent(set, tx, Len(tx.ins)) EXCEPT ![tx.id] = tx.outs]
<1>1. DOMAIN tx.ins = 1 .. Len(tx.ins)
  BY DEF Transaction
<1> QED BY Zenon, <1>1 DEF AfterTx, Spent

\* An input that is there, and that no earlier input names, is still there.
LEMMA SpentOther ==
  ASSUME NEW set \in Coins, NEW tx \in Transaction, NEW m \in 1 .. Len(tx.ins),
         \A x, y \in DOMAIN tx.ins : x # y => tx.ins[x] # tx.ins[y],
         tx.ins[m][2] \in set[tx.ins[m][1]]
  PROVE  /\ tx.ins[m][2] \in Spent(set, tx, m - 1)[tx.ins[m][1]]
         /\ tx.ins[m][2] \notin Spent(set, tx, m)[tx.ins[m][1]]
<1>1. tx.ins[m] \in Txid \X Out /\ DOMAIN tx.ins = 1 .. Len(tx.ins) /\ Len(tx.ins) \in Nat
  BY DEF Transaction
<1>2. tx.ins[m][1] \in Txid /\ tx.ins[m] = <<tx.ins[m][1], tx.ins[m][2]>>
  BY <1>1
<1>3. \A l \in 1 .. m - 1 : l \in DOMAIN tx.ins /\ l # m
  BY <1>1
<1>4. \A l \in 1 .. m - 1 : tx.ins[l] # tx.ins[m]
  BY Zenon, <1>1, <1>3
<1>5. tx.ins[m][2] \in Spent(set, tx, m - 1)[tx.ins[m][1]]
  BY Zenon, <1>2, <1>4 DEF Spent
<1>6. m \in 1 .. m
  BY <1>1
<1>7. tx.ins[m][2] \notin Spent(set, tx, m)[tx.ins[m][1]]
  BY Zenon, <1>2, <1>6 DEF Spent
<1> QED BY Zenon, <1>5, <1>7

-----------------------------------------------------------------------------
(* No transaction occurs twice in an accepted block *)

\* Coins that were not there before the block were made in it.
LEMMA MadeInBlock ==
  ASSUME NEW b \in Label, NEW k \in 0 .. Len(BlockTxs[b]), NEW t \in Txid,
         At(b, k)[t] # {}, UtxoOf[Parent[b]][t] = {}
  PROVE  \E l \in 1 .. k : TxOf(b, l).id = t
<1> DEFINE N == Len(BlockTxs[b])
           T == {n \in Nat : n <= N /\ At(b, n)[t] # {} => \E l \in 1 .. n : TxOf(b, l).id = t}
<1>0. N \in Nat
  BY Zenon, BlockTyped
<1>1. 0 \in T
  BY Zenon, AtStep
<1>2. ASSUME NEW n \in Nat, n \in T
      PROVE  n + 1 \in T
  <2> SUFFICES ASSUME n + 1 <= N, At(b, n + 1)[t] # {}
               PROVE  \E l \in 1 .. n + 1 : TxOf(b, l).id = t
    OBVIOUS
  <2>1. n + 1 \in 1 .. N /\ (n + 1) - 1 = n /\ n + 1 \in 1 .. n + 1 /\ n <= N
        /\ \A l \in 1 .. n : l \in 1 .. n + 1
    BY <1>0
  <2>2. At(b, n + 1) = AfterTx(At(b, n), TxOf(b, n + 1))
    BY Zenon, <2>1, AtStep
  <2>3. CASE TxOf(b, n + 1).id = t
    BY Zenon, <2>1, <2>3
  <2>4. CASE TxOf(b, n + 1).id # t
    <3>1. At(b, n)[t] # {}
      BY Zenon, <2>2, <2>4 DEF AfterTx
    <3>2. \E l \in 1 .. n : TxOf(b, l).id = t
      BY Zenon, <1>2, <2>1, <3>1
    <3> QED BY Zenon, <2>1, <3>2
  <2> QED BY Zenon, <2>3, <2>4
<1> HIDE DEF T
<1>3. Nat \subseteq T
  BY Zenon, <1>1, <1>2, SetInduction
<1>4. k \in Nat /\ k <= N
  BY <1>0
<1> HIDE DEF N
<1> QED BY Zenon, <1>3, <1>4 DEF T

\* An output that a transaction of the block spent is there again only when its
\* transaction was made again since.
LEMMA SpentInBlock ==
  ASSUME NEW b \in Label, NEW k \in 0 .. Len(BlockTxs[b]), NEW l \in 1 .. k,
         NEW m \in DOMAIN TxOf(b, l).ins, In(b, l, m)[2] \in At(b, k)[In(b, l, m)[1]]
  PROVE  \E h \in l .. k : TxOf(b, h).id = In(b, l, m)[1]
<1> DEFINE N == Len(BlockTxs[b])
           t == In(b, l, m)[1]
           o == In(b, l, m)[2]
           T == {n \in Nat : n <= N /\ l <= n /\ o \in At(b, n)[t]
                               => \E h \in l .. n : TxOf(b, h).id = t}
<1>0. N \in Nat /\ k \in Nat /\ k <= N /\ l \in 1 .. N /\ l \in Nat
  BY BlockTyped
<1>1. t \in Txid /\ TxOf(b, l).ins[m] = <<t, o>> /\ m \in DOMAIN TxOf(b, l).ins
  <2>1. m \in 1 .. Len(TxOf(b, l).ins)
    BY Zenon, <1>0, TxTyped
  <2>2. /\ In(b, l, m) = TxOf(b, l).ins[m] /\ In(b, l, m)[1] \in Txid
        /\ In(b, l, m) = <<In(b, l, m)[1], In(b, l, m)[2]>>
    BY Zenon, <1>0, <2>1, TxTyped
  <2> QED BY Zenon, <2>2
<1> HIDE DEF t, o, N
<1>2. 0 \in T
  BY <1>0
<1>3. ASSUME NEW n \in Nat, n \in T
      PROVE  n + 1 \in T
  <2> SUFFICES ASSUME n + 1 <= N, l <= n + 1, o \in At(b, n + 1)[t]
               PROVE  \E h \in l .. n + 1 : TxOf(b, h).id = t
    OBVIOUS
  <2>1. n + 1 \in 1 .. N /\ (n + 1) - 1 = n /\ n + 1 \in l .. n + 1 /\ n <= N
        /\ \A h \in l .. n : h \in l .. n + 1
    BY <1>0
  <2>2. At(b, n + 1) = AfterTx(At(b, n), TxOf(b, n + 1))
    BY Zenon, <2>1, AtStep DEF N
  <2>3. CASE TxOf(b, n + 1).id = t
    BY Zenon, <2>1, <2>3
  <2>4. CASE TxOf(b, n + 1).id # t
    <3>1. o \in At(b, n)[t] /\ \A x \in DOMAIN TxOf(b, n + 1).ins : TxOf(b, n + 1).ins[x] # <<t, o>>
      BY <1>1, <2>2, <2>4 DEF AfterTx
    <3>2. l # n + 1
      BY Zenon, <1>1, <3>1
    <3>3. \E h \in l .. n : TxOf(b, h).id = t
      BY <1>0, <1>3, <2>1, <3>1, <3>2
    <3> QED BY Zenon, <2>1, <3>3
  <2> QED BY Zenon, <2>3, <2>4
<1> HIDE DEF T
<1>4. Nat \subseteq T
  BY Zenon, <1>2, <1>3, SetInduction
<1>5. l <= k /\ o \in At(b, k)[t]
  BY <1>0 DEF o, t
<1> QED BY Zenon, <1>0, <1>4, <1>5 DEF T, t

\* The transactions of a block whose inputs were there and that passed BIP30 have
\* different names.
LEMMA NamesDiffer ==
  ASSUME NEW b \in Label \ {Genesis}, NEW k \in 0 .. Len(BlockTxs[b]),
         \A l \in 1 .. k : IsNew(b, l) /\ HasInputs(b, l),
         NEW x \in 1 .. k, NEW y \in 1 .. k, TxOf(b, x).id = TxOf(b, y).id
  PROVE  x = y
<1> DEFINE N == Len(BlockTxs[b])
           Same(p, q) == TxOf(b, p).id = TxOf(b, q).id
           T == {n \in Nat : n <= k => \A p, q \in 1 .. n : Same(p, q) => p = q}
<1>0. N \in Nat /\ k \in Nat /\ k <= N
  BY BlockTyped
<1>1. 0 \in T
  OBVIOUS
<1>2. ASSUME NEW n \in Nat, n \in T, n + 1 <= k,
             NEW q \in 1 .. n, Same(n + 1, q)
      PROVE  FALSE
  <2> DEFINE c == n + 1
  <2>1. /\ c \in 1 .. N /\ q \in 1 .. N /\ q < c /\ c > 1 /\ c - 1 = n
        /\ c \in 1 .. k /\ q \in 1 .. k /\ q - 1 \in 0 .. N /\ n \in 0 .. N
        /\ \A l \in 1 .. q - 1 : l \in 1 .. n /\ l \in 1 .. k
        /\ \A l \in q .. n : l \in 1 .. n /\ l \in 1 .. k
    BY <1>0, <1>2
  <2>2. TxOf(b, c) = TxOf(b, q) /\ TxOf(b, c).ins # <<>>
    BY <1>2, <2>1, BlockTyped, BlockAssumption DEF TxOf
  <2> HIDE DEF c
  <2>3. 1 \in DOMAIN TxOf(b, c).ins /\ 1 \in DOMAIN TxOf(b, q).ins
    <3>1. TxOf(b, c).ins \in Seq(Txid \X Out)
      BY Zenon, <2>1, TxTyped DEF N
    <3> QED BY <2>2, <3>1
  <2> DEFINE t == In(b, q, 1)[1]
             o == In(b, q, 1)[2]
  <2>4. In(b, c, 1) = In(b, q, 1) /\ t \in Txid
    BY ZenonT(40), <2>1, <2>2, <2>3, TxTyped DEF In, TxOf, N
  <2>5. o \in At(b, n)[t] /\ o \in At(b, q - 1)[t]
    BY Zenon, <2>1, <2>3, <2>4 DEF HasInputs, Available
  <2>6. PICK h \in q .. n : TxOf(b, h).id = t
    BY Zenon, <2>1, <2>3, <2>5, SpentInBlock DEF N
  <2>7. UtxoOf[Parent[b]][t] = {}
    BY Zenon, <2>1, <2>6 DEF IsNew
  <2>8. PICK g \in 1 .. q - 1 : TxOf(b, g).id = t
    BY ZenonT(40), <2>1, <2>4, <2>5, <2>7, MadeInBlock DEF N
  <2>9. g \in 1 .. n /\ h \in 1 .. n /\ g # h
    BY <2>1
  <2> QED BY <1>2, <2>6, <2>8, <2>9
<1>3. ASSUME NEW n \in Nat, n \in T
      PROVE  n + 1 \in T
  <2> SUFFICES ASSUME n + 1 <= k, NEW p \in 1 .. n + 1, NEW q \in 1 .. n + 1, Same(p, q)
               PROVE  p = q
    OBVIOUS
  <2>1. n <= k /\ (p = n + 1 \/ p \in 1 .. n) /\ (q = n + 1 \/ q \in 1 .. n)
    BY <1>0
  <2>2. CASE p \in 1 .. n /\ q \in 1 .. n
    BY Zenon, <1>3, <2>1, <2>2
  <2>3. CASE p = n + 1 /\ q \in 1 .. n
    BY Zenon, <1>2, <1>3, <2>3
  <2>4. CASE q = n + 1 /\ p \in 1 .. n
    BY Zenon, <1>2, <1>3, <2>4
  <2> QED BY Zenon, <2>1, <2>2, <2>3, <2>4
<1> HIDE DEF T
<1>4. Nat \subseteq T
  BY Zenon, <1>1, <1>3, SetInduction
<1>5. k <= k /\ k \in T
  BY <1>0, <1>4
<1> QED BY <1>0, <1>5 DEF T

-----------------------------------------------------------------------------
(* What the steps through a block rely on *)

\* The first k transactions of b passed what ConnectBlock checks.
Passed(b, k) == \A l \in 1 .. k : IsNew(b, l) /\ HasInputs(b, l)

\* An accepted transaction finds no coins of its name.
LEMMA NameUnspent ==
  ASSUME NEW b \in Label \ {Genesis}, NEW k \in 1 .. Len(BlockTxs[b]), Passed(b, k), NEW m
  PROVE  /\ At(b, k - 1)[TxOf(b, k).id] = {}
         /\ Spent(At(b, k - 1), TxOf(b, k), m)[TxOf(b, k).id] = {}
<1>0. /\ Len(BlockTxs[b]) \in Nat /\ k - 1 \in 0 .. Len(BlockTxs[b]) /\ k \in 1 .. k
      /\ k \in 0 .. Len(BlockTxs[b])
      /\ \A l \in 1 .. k - 1 : l \in 1 .. k /\ l # k
  BY BlockTyped
<1>1. TxOf(b, k).id \in Txid
  BY Zenon, TxTyped
<1>2. UtxoOf[Parent[b]][TxOf(b, k).id] = {}
  BY Zenon, <1>0 DEF Passed, IsNew
<1>3. \A l \in 1 .. k - 1 : TxOf(b, l).id # TxOf(b, k).id
  BY Zenon, <1>0, NamesDiffer DEF Passed
<1>4. At(b, k - 1)[TxOf(b, k).id] = {}
  BY <1>0, <1>1, <1>2, <1>3, MadeInBlock
<1>5. Spent(At(b, k - 1), TxOf(b, k), m)[TxOf(b, k).id] = {}
  BY Zenon, <1>1, <1>4 DEF Spent
<1> QED BY Zenon, <1>4, <1>5

\* The undo data grows with the inputs.
LEMMA UndoGrows ==
  ASSUME NEW b \in Label, NEW k \in 1 .. Len(BlockTxs[b])
  PROVE  /\ UndoUpto(b, 1, 1) = {}
         /\ UndoUpto(b, k, Len(TxOf(b, k).ins) + 1) = UndoUpto(b, k + 1, 1)
         /\ \A m \in 1 .. Len(TxOf(b, k).ins) :
              UndoUpto(b, k, m + 1)
                = IF Empties(b, k, m) THEN UndoUpto(b, k, m) \cup {<<k, m>>} ELSE UndoUpto(b, k, m)
<1>0. /\ k \in Nat /\ k \in DOMAIN BlockTxs[b] /\ DOMAIN BlockTxs[b] \subseteq Nat \ {0}
      /\ Len(TxOf(b, k).ins) \in Nat /\ DOMAIN TxOf(b, k).ins = 1 .. Len(TxOf(b, k).ins)
      /\ \A l \in DOMAIN BlockTxs[b] : DOMAIN TxOf(b, l).ins \subseteq Nat \ {0}
  BY BlockTyped, TxTyped
<1>1. UndoUpto(b, 1, 1) = {}
  BY <1>0 DEF UndoUpto
<1>2. UndoUpto(b, k, Len(TxOf(b, k).ins) + 1) = UndoUpto(b, k + 1, 1)
  <2> SUFFICES ASSUME NEW p \in Nat \X Nat, p[1] \in DOMAIN BlockTxs[b], p[2] \in DOMAIN TxOf(b, p[1]).ins
               PROVE  p[1] < k \/ (p[1] = k /\ p[2] < Len(TxOf(b, k).ins) + 1)
                        <=> p[1] < k + 1 \/ (p[1] = k + 1 /\ p[2] < 1)
    BY Zenon DEF UndoUpto
  <2> QED BY <1>0
<1>3. ASSUME NEW m \in 1 .. Len(TxOf(b, k).ins)
      PROVE  UndoUpto(b, k, m + 1)
               = IF Empties(b, k, m) THEN UndoUpto(b, k, m) \cup {<<k, m>>} ELSE UndoUpto(b, k, m)
  <2>1. ASSUME NEW p \in Nat \X Nat
        PROVE  (p[1] < k \/ (p[1] = k /\ p[2] < m + 1)) <=>
                 ((p[1] < k \/ (p[1] = k /\ p[2] < m)) \/ p = <<k, m>>)
    BY <1>0
  <2>2. <<k, m>> \in Nat \X Nat /\ m \in DOMAIN TxOf(b, k).ins
    BY Zenon, <1>0
  <2>3. \A p \in Nat \X Nat : p \in UndoUpto(b, k, m + 1) <=>
          p \in UndoUpto(b, k, m) \/ (p = <<k, m>> /\ Empties(b, k, m))
    <3> SUFFICES ASSUME NEW p \in Nat \X Nat
                 PROVE  p \in UndoUpto(b, k, m + 1) <=>
                          p \in UndoUpto(b, k, m) \/ (p = <<k, m>> /\ Empties(b, k, m))
      BY Zenon
    <3>1. CASE p = <<k, m>>
      <4>1. p[1] = k /\ p[2] = m
        BY <3>1
      <4> QED BY Zenon, <1>0, <2>1, <2>2, <3>1, <4>1 DEF UndoUpto
    <3>2. CASE p # <<k, m>>
      BY Zenon, <2>1, <3>2 DEF UndoUpto
    <3> QED BY Zenon, <3>1, <3>2
  <2>4. UndoUpto(b, k, m + 1) \subseteq Nat \X Nat /\ UndoUpto(b, k, m) \subseteq Nat \X Nat
    BY Zenon DEF UndoUpto
  <2> QED BY Zenon, <2>2, <2>3, <2>4
<1> QED BY Zenon, <1>1, <1>2, <1>3

\* UpdateCoins: the input that is spent is there, and what is left is the next set.
LEMMA SpendOne ==
  ASSUME NEW b \in Label \ {Genesis}, NEW k \in 1 .. Len(BlockTxs[b]), HasInputs(b, k),
         NEW m \in 1 .. Len(TxOf(b, k).ins)
  PROVE  LET before == Spent(At(b, k - 1), TxOf(b, k), m - 1)
             after == Spent(At(b, k - 1), TxOf(b, k), m)
             p == In(b, k, m)
         IN /\ p[1] \in Txid /\ p[2] \in before[p[1]] /\ p[2] \notin after[p[1]]
            /\ before \in Coins /\ after \in Coins
            /\ after[p[1]] = before[p[1]] \ {p[2]}
            /\ after = [before EXCEPT ![p[1]] = after[p[1]]]
<1> DEFINE before == Spent(At(b, k - 1), TxOf(b, k), m - 1)
           after == Spent(At(b, k - 1), TxOf(b, k), m)
           p == In(b, k, m)
<1>0. /\ TxOf(b, k) \in Transaction /\ p = TxOf(b, k).ins[m]
      /\ At(b, k - 1) \in Coins /\ m \in DOMAIN TxOf(b, k).ins
  <2>1. k - 1 \in 0 .. Len(BlockTxs[b])
    BY BlockTyped
  <2> QED BY ZenonT(40), <2>1, TxTyped, AtStep
<1>1. p[2] \in At(b, k - 1)[p[1]]
  BY Zenon, <1>0 DEF HasInputs, Available
<1>2. \A x, y \in DOMAIN TxOf(b, k).ins : x # y => TxOf(b, k).ins[x] # TxOf(b, k).ins[y]
  BY BlockTyped, BlockAssumption DEF TxOf
<1> HIDE DEF p
<1>3. p[2] \in before[p[1]] /\ p[2] \notin after[p[1]]
  BY Zenon, <1>0, <1>1, <1>2, SpentOther
<1>4. /\ p[1] \in Txid /\ after[p[1]] = before[p[1]] \ {p[2]}
      /\ after = [before EXCEPT ![p[1]] = after[p[1]]]
  <2>1. Without(before, after, p)
    BY Zenon, <1>0, SpentNext
  <2> QED BY Zenon, <2>1 DEF Without
<1>5. before \in Coins /\ after \in Coins
  BY Zenon, <1>0, SpentTyped
<1> HIDE DEF before, after
<1> QED BY Zenon, <1>3, <1>4, <1>5 DEF before, after, p

\* ApplyTxInUndo: in a block that passed it takes an input back exactly.
LEMMA RestoreOne ==
  ASSUME NEW b \in Label \ {Genesis}, Passed(b, Len(BlockTxs[b])), NEW k \in 1 .. Len(BlockTxs[b]),
         NEW m \in 1 .. Len(TxOf(b, k).ins)
  PROVE  LET before == Spent(At(b, k - 1), TxOf(b, k), m - 1)
             after == Spent(At(b, k - 1), TxOf(b, k), m)
             p == In(b, k, m)
         IN /\ <<k, m>> \in UndoOf(b) <=> after[p[1]] = {}
            /\ p[1] \in Txid /\ p[2] \notin after[p[1]]
            /\ after[p[1]] \cup {p[2]} \in SUBSET Out
            /\ before = [after EXCEPT ![p[1]] = after[p[1]] \cup {p[2]}]
<1> DEFINE before == Spent(At(b, k - 1), TxOf(b, k), m - 1)
           after == Spent(At(b, k - 1), TxOf(b, k), m)
           p == In(b, k, m)
<1>1. HasInputs(b, k)
  BY DEF Passed
<1>2. /\ p[1] \in Txid /\ p[2] \in before[p[1]] /\ p[2] \notin after[p[1]]
      /\ before \in Coins /\ after \in Coins
      /\ after[p[1]] = before[p[1]] \ {p[2]}
      /\ after = [before EXCEPT ![p[1]] = after[p[1]]]
  BY Zenon, <1>1, SpendOne
<1>3. <<k, m>> \in UndoOf(b) <=> after[p[1]] = {}
  <2>1. /\ <<k, m>> \in Nat \X Nat /\ k \in DOMAIN BlockTxs[b] /\ m \in DOMAIN TxOf(b, k).ins
        /\ k < Len(BlockTxs[b]) + 1
    BY BlockTyped, TxTyped
  <2>2. <<k, m>> \in UndoOf(b) <=> Empties(b, k, m)
    BY Zenon, <2>1 DEF UndoOf, UndoUpto
  <2> QED BY Zenon, <2>2 DEF Empties
<1> HIDE DEF before, after, p
<1>4. after[p[1]] \cup {p[2]} = before[p[1]] /\ before[p[1]] \in SUBSET Out
  BY ZenonT(40), <1>2 DEF Coins
<1>5. before = [after EXCEPT ![p[1]] = before[p[1]]]
  BY <1>2 DEF Coins
<1> QED BY Zenon, <1>2, <1>3, <1>4, <1>5 DEF before, after, p

\* DisconnectBlock: in a block that passed the outputs of a transaction are all there,
\* and without them all of its inputs are spent.
LEMMA RemoveOne ==
  ASSUME NEW b \in Label \ {Genesis}, Passed(b, Len(BlockTxs[b])), NEW k \in 1 .. Len(BlockTxs[b])
  PROVE  LET all == Spent(At(b, k - 1), TxOf(b, k), Len(TxOf(b, k).ins))
         IN /\ At(b, k)[TxOf(b, k).id] = TxOf(b, k).outs
            /\ At(b, k) = [all EXCEPT ![TxOf(b, k).id] = TxOf(b, k).outs]
            /\ all = [At(b, k) EXCEPT ![TxOf(b, k).id] = {}]
<1> DEFINE all == Spent(At(b, k - 1), TxOf(b, k), Len(TxOf(b, k).ins))
<1>1. /\ TxOf(b, k) \in Transaction /\ TxOf(b, k).id \in Txid
      /\ At(b, k - 1) \in Coins /\ At(b, k) = AfterTx(At(b, k - 1), TxOf(b, k))
  <2>1. k - 1 \in 0 .. Len(BlockTxs[b])
    BY BlockTyped
  <2> QED BY Zenon, <2>1, TxTyped, AtStep
<1>2. At(b, k) = [all EXCEPT ![TxOf(b, k).id] = TxOf(b, k).outs]
  BY Zenon, <1>1, SpentAll
<1>3. all[TxOf(b, k).id] = {}
  <2>1. \A l \in 1 .. k : l \in 1 .. Len(BlockTxs[b])
    BY BlockTyped
  <2>2. Passed(b, k)
    BY <2>1 DEF Passed
  <2> QED BY Zenon, <2>2, NameUnspent
<1>4. all \in Coins
  BY <1>1, SpentTyped
<1> HIDE DEF all
<1>5. all = [At(b, k) EXCEPT ![TxOf(b, k).id] = {}]
  BY Zenon, <1>1, <1>2, <1>3, <1>4 DEF Coins
<1> QED BY Zenon, <1>1, <1>2, <1>4, <1>5 DEF all, Coins
=============================================================================
