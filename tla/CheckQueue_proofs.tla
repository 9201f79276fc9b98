-------------------------- MODULE CheckQueue_proofs --------------------------
(***************************************************************************)
(* Wait returns the conjunction of exactly the checks of its control, and  *)
(* leaves nothing behind, for any number of workers and checks.            *)
(*                                                                         *)
(* The invariant accounts for every check: nTodo counts those queued or in *)
(* a batch, no check is in two places, and fAllOk says whether the checks  *)
(* that are finished are all good.  A batch that is skipped because of an  *)
(* earlier failure is harmless: fAllOk is already false, and cannot become *)
(* true before the batch is cleaned up.                                    *)
(***************************************************************************)
EXTENDS CheckQueue, FiniteSetTheorems, TLAPS

\* The checks that a thread other than t has taken.
Taken(t) == {x \in Check : \E u \in Thread : u # t /\ x \in batch[u]}

\* The checks not finished, without those of t.
Rest(t) == queue \cup Taken(t)

Outstanding == queue \cup {x \in Check : \E u \in Thread : x \in batch[u]}

QueueType ==
  /\ queue \in SUBSET Check /\ added \in SUBSET Check
  /\ nTodo \in Nat /\ fAllOk \in BOOLEAN /\ verdict \in BOOLEAN
  /\ qpc \in [Thread -> Places]
  /\ batch \in [Thread -> SUBSET Check]
  /\ fOk \in [Thread -> BOOLEAN]

\* No check is in two places.
Apart ==
  /\ \A t \in Thread : queue \cap batch[t] = {}
  /\ \A t, u \in Thread : t # u => batch[t] \cap batch[u] = {}

\* A thread has a batch exactly while it runs it; a batch that is skipped was
\* taken after a failure.
Batches ==
  \A t \in Thread : /\ qpc[t] = "exec" <=> batch[t] # {}
                    /\ qpc[t] = "exec" /\ ~fOk[t] => ~fAllOk

Counted ==
  /\ Outstanding \subseteq added
  /\ nTodo = Cardinality(Outstanding)

\* What fAllOk and the verdict say.
Result ==
  /\ qpc[Master] # "done" => (fAllOk <=> (added \ Outstanding) \cap Bad = {})
  /\ qpc[Master] = "done" => verdict = (added \cap Bad = {})
  /\ qpc[Master] = "out" => added = {}
  /\ qpc[Master] \in {"out", "done"} => Outstanding = {} /\ fAllOk

QueueInv == QueueType /\ Apart /\ Batches /\ Counted /\ Result

\* Checks are finitely many, so that a set of them can be counted.
LEMMA Finite ==
  ASSUME NEW S \in SUBSET Check
  PROVE  /\ IsFiniteSet(S) /\ Cardinality(S) \in Nat
         /\ Cardinality(S) = 0 <=> S = {}
  BY QueueAssumption, FS_Subset, FS_CardinalityType, FS_EmptySet

\* A batch is never empty.
LEMMA BatchNotEmpty ==
  ASSUME NEW total, NEW idle, NEW B \in SUBSET queue, queue \in SUBSET Check,
         Cardinality(B) = nNow(total, idle)
  PROVE  B # {}
<1>1. Cardinality(B) # 0
  BY DEF nNow
<1>2. B \in SUBSET Check
  OBVIOUS
<1> QED BY <1>1, <1>2, Finite

\* The state of the queue after the clean-up of t, with t out of the way: pcs, todo
\* and ok are what the rest of the critical section goes on with.
CleanedUp(t, pcs, todo, ok) ==
  /\ pcs \in [Thread -> Places] /\ ok \in BOOLEAN
  /\ \A u \in Thread : u # t => /\ pcs[u] = "exec" <=> batch[u] # {}
                                /\ pcs[u] = "exec" /\ ~fOk[u] => ~ok
  /\ Rest(t) \subseteq added
  /\ todo = Cardinality(Rest(t))
  /\ pcs[Master] # "done" => (ok <=> (added \ Rest(t)) \cap Bad = {})
  /\ pcs[Master] = "done" => verdict = (added \cap Bad = {})
  /\ pcs[Master] = "out" => added = {}
  /\ pcs[Master] \in {"out", "done"} => Rest(t) = {} /\ ok
  /\ t = Master => pcs[Master] \notin {"out", "done"}

\* The end of a critical section keeps the account.
LEMMA ServeStep ==
  ASSUME QueueType, Apart, NEW t \in Thread, NEW pcs, NEW todo, NEW ok, NEW total, NEW idle,
         CleanedUp(t, pcs, todo, ok),
         Serve(t, pcs, todo, ok, total, idle)
  PROVE  QueueInv'
<1> USE DEF QueueType, CleanedUp
<1>0. Rest(t) \in SUBSET Check /\ todo \in Nat
  BY Finite DEF Rest, Taken
<1>1. CASE Take(t, pcs, ok, total, idle)
  <2>1. PICK B \in SUBSET queue : /\ Cardinality(B) = nNow(total, idle)
                                  /\ batch' = [batch EXCEPT ![t] = B]
                                  /\ queue' = queue \ B
    BY Zenon, <1>1 DEF Take
  <2>2. B # {}
    BY <2>1, BatchNotEmpty
  <2>3. /\ nTodo' = todo /\ fOk' = [fOk EXCEPT ![t] = ok] /\ qpc' = [pcs EXCEPT ![t] = "exec"]
        /\ fAllOk' = ok /\ UNCHANGED <<verdict, added>>
    BY <1>1 DEF Take, Serve
  <2>4. QueueType'
    BY <1>0, <2>1, <2>3 DEF Places
  <2>5. Apart'
    BY <2>1 DEF Apart
  <2>6. Outstanding' = Rest(t)
    BY <2>1 DEF Outstanding, Rest, Taken
  <2>7. Batches'
    BY <2>1, <2>2, <2>3 DEF Batches
  <2>8. Counted'
    BY <2>3, <2>6 DEF Counted
  <2>9. Result'
    <3>1. queue # {} /\ queue \subseteq Rest(t)
      BY <1>1 DEF Take, Rest
    <3>2. pcs[Master] \notin {"out", "done"} /\ qpc'[Master] \notin {"out", "done"}
      BY <3>1, <2>3 DEF Thread
    <3> QED BY <2>3, <2>6, <3>2 DEF Result
  <2> QED BY <2>4, <2>5, <2>7, <2>8, <2>9 DEF QueueInv
<1>2. CASE Return(t, pcs, todo, ok, total, idle)
  <2>1. /\ queue = {} /\ t = Master /\ todo = 0
        /\ verdict' = ok /\ fAllOk' = TRUE
        /\ qpc' = [pcs EXCEPT ![t] = "done"]
        /\ batch' = [batch EXCEPT ![t] = {}] /\ fOk' = [fOk EXCEPT ![t] = TRUE]
        /\ nTodo' = todo /\ UNCHANGED <<queue, added>>
    BY <1>2 DEF Return, Serve
  <2>2. Rest(t) = {}
    BY Zenon, <1>0, <2>1, Finite
  <2>3. Outstanding' = {} /\ \A u \in Thread : batch'[u] = {}
    <3>1. \A u \in Thread : u # t => batch[u] = {}
      BY <2>2 DEF Rest, Taken
    <3> QED BY <2>1, <3>1 DEF Outstanding
  <2>4. QueueType' /\ Apart'
    BY <1>0, <2>1, <2>3 DEF Apart, Places
  <2>5. Batches'
    <3>1. \A u \in Thread : u # t => pcs[u] # "exec"
      BY <2>2 DEF Rest, Taken
    <3> QED BY <2>1, <2>3, <3>1 DEF Batches
  <2>6. Counted'
    BY <2>1, <2>2, <2>3 DEF Counted
  <2>7. Result'
    BY <2>1, <2>2, <2>3 DEF Result, Thread
  <2> QED BY <2>4, <2>5, <2>6, <2>7 DEF QueueInv
<1>3. CASE Sleep(t, pcs, todo, ok, total, idle)
  <2>1. /\ queue = {} /\ fAllOk' = ok
        /\ qpc' = [pcs EXCEPT ![t] = "wait"]
        /\ batch' = [batch EXCEPT ![t] = {}] /\ fOk' = [fOk EXCEPT ![t] = TRUE]
        /\ nTodo' = todo /\ UNCHANGED <<queue, added, verdict>>
    BY <1>3 DEF Sleep, Serve
  <2>2. Outstanding' = Rest(t)
    BY <2>1 DEF Outstanding, Rest, Taken
  <2>3. QueueType' /\ Apart'
    BY <1>0, <2>1 DEF Apart, Places
  <2>4. Batches'
    BY <2>1 DEF Batches
  <2>5. Counted'
    BY <2>1, <2>2 DEF Counted
  <2>6. Result'
    BY <2>1, <2>2 DEF Result, Thread
  <2> QED BY <2>3, <2>4, <2>5, <2>6 DEF QueueInv
<1> QED BY <1>1, <1>2, <1>3 DEF Serve

\* A thread without a batch has nothing to clean up.
LEMMA NoCleanUp ==
  ASSUME QueueInv, NEW t \in Thread, qpc[t] \in {"lock", "awake"}
  PROVE  CleanedUp(t, qpc, nTodo, fAllOk)
<1>1. batch[t] = {}
  BY DEF QueueInv, Batches
<1>2. Rest(t) = Outstanding
  BY <1>1 DEF Rest, Taken, Outstanding
<1> QED
  BY <1>2 DEF QueueInv, QueueType, Batches, Counted, Result, CleanedUp

\* The clean-up after a batch.
LEMMA FinishStep ==
  ASSUME QueueInv, NEW t \in Thread, Finish(t)
  PROVE  QueueInv'
<1> DEFINE todo == nTodo - Cardinality(batch[t])
           good == fOk[t] /\ batch[t] \cap Bad = {}
           pcs == MasterWoken(t, todo)
<1>0. /\ QueueType /\ Apart /\ Batches /\ Counted /\ Result /\ qpc[t] = "exec"
      /\ Serve(t, pcs, todo, fAllOk /\ good, nTotal, nIdle)
  BY DEF QueueInv, Finish
<1>1. /\ batch[t] \subseteq Outstanding /\ batch[t] # {}
      /\ Rest(t) = Outstanding \ batch[t]
      /\ Outstanding \in SUBSET Check
  BY <1>0 DEF QueueType, Batches, Apart, Rest, Taken, Outstanding
<1>2. todo = Cardinality(Rest(t))
  <2>1. Outstanding \cap batch[t] = batch[t]
    BY <1>1
  <2>2. IsFiniteSet(Outstanding)
    BY <1>1, Finite
  <2> QED BY ZenonT(40), <1>0, <1>1, <2>1, <2>2, FS_Difference DEF Counted
<1>3. qpc[Master] \notin {"out", "done"}
  BY <1>0, <1>1 DEF Result
<1>4. /\ pcs \in [Thread -> Places]
      /\ pcs[Master] \notin {"out", "done"}
      /\ \A u \in Thread : pcs[u] = "exec" <=> qpc[u] = "exec"
  BY <1>0, <1>3 DEF MasterWoken, QueueType, Places, Thread
<1>5. (fAllOk /\ good) <=> (added \ Rest(t)) \cap Bad = {}
  <2>1. added \ Rest(t) = (added \ Outstanding) \cup batch[t]
    BY <1>0, <1>1 DEF Counted
  <2>2. fAllOk <=> (added \ Outstanding) \cap Bad = {}
    BY <1>0, <1>3 DEF Result
  <2>3. fAllOk => fOk[t]
    BY <1>0 DEF Batches, QueueType
  <2> QED BY <2>1, <2>2, <2>3
<1>6. CleanedUp(t, pcs, todo, fAllOk /\ good)
  <2>1. \A u \in Thread : u # t => /\ pcs[u] = "exec" <=> batch[u] # {}
                                   /\ pcs[u] = "exec" /\ ~fOk[u] => ~(fAllOk /\ good)
    BY <1>0, <1>4 DEF Batches
  <2>2. Rest(t) \subseteq added
    BY <1>0, <1>1 DEF Counted
  <2> HIDE DEF good, pcs, todo
  <2>3. (fAllOk /\ good) \in BOOLEAN
    OBVIOUS
  <2> QED BY <1>2, <1>4, <1>5, <2>1, <2>2, <2>3 DEF CleanedUp
<1> HIDE DEF good, pcs, todo
<1> QED BY <1>0, <1>6, ServeStep

-----------------------------------------------------------------------------
\* An idle pool satisfies the invariant.
LEMMA QueueInitInv ==
  ASSUME QueueInit
  PROVE  QueueInv
<1>1. Outstanding = {}
  BY DEF QueueInit, Outstanding
<1> QED
  BY <1>1, FS_EmptySet
  DEF QueueInit, QueueInv, QueueType, Apart, Batches, Counted, Result, Places, Thread

\* Steps that move threads between places without a batch.
LEMMA MoveStep ==
  ASSUME QueueInv, qpc' \in [Thread -> Places],
         UNCHANGED <<queue, nTodo, fAllOk, batch, fOk>>,
         \A t \in Thread : qpc'[t] = "exec" <=> qpc[t] = "exec",
         added' = added \/ (qpc'[Master] = "out" /\ added' = {} /\ qpc[Master] = "done"),
         qpc'[Master] = "done" => qpc[Master] = "done" /\ added' = added /\ verdict' = verdict,
         qpc'[Master] = "out" => (qpc[Master] = "out" \/ added' = {}) /\ qpc[Master] \in {"out", "done"},
         qpc[Master] = "done" => qpc'[Master] \in {"done", "out"},
         verdict' \in BOOLEAN
  PROVE  QueueInv'
<1>1. Outstanding' = Outstanding
  BY DEF Outstanding
<1>2. QueueType' /\ Apart' /\ Batches'
  BY DEF QueueInv, QueueType, Apart, Batches
<1>3. Counted'
  BY <1>1 DEF QueueInv, Counted, Result
<1>4. Result'
  BY <1>1 DEF QueueInv, Result
<1> QED BY <1>2, <1>3, <1>4 DEF QueueInv

\* Add puts new checks into the account.
LEMMA AddStep ==
  ASSUME QueueInv, NEW S \in SUBSET (Check \ added), Add(S)
  PROVE  QueueInv'
<1>0. /\ QueueType /\ Apart /\ Batches /\ Counted /\ Result
      /\ qpc[Master] = "add"
      /\ queue' = queue \cup S /\ added' = added \cup S
      /\ nTodo' = nTodo + Cardinality(S)
      /\ UNCHANGED <<fAllOk, batch, fOk, verdict>>
  BY DEF QueueInv, Add
<1>1. PICK W \in Notified(Cardinality(S)) :
        qpc' = [t \in Thread |-> IF t \in W THEN "awake" ELSE qpc[t]]
  BY DEF Add
<1>2. W \subseteq Waiting
  BY DEF Notified
<1>3. /\ qpc' \in [Thread -> Places] /\ qpc'[Master] = "add"
      /\ \A t \in Thread : qpc'[t] = "exec" <=> qpc[t] = "exec"
  BY <1>0, <1>1, <1>2, QueueAssumption DEF QueueType, Places, Waiting, Thread
<1>4. /\ Outstanding' = Outstanding \cup S /\ Outstanding \cap S = {}
      /\ Outstanding \in SUBSET Check
  BY <1>0 DEF Outstanding, Counted, QueueType
<1>5. nTodo' = Cardinality(Outstanding') /\ nTodo' \in Nat
  <2>1. /\ IsFiniteSet(Outstanding) /\ IsFiniteSet(S)
        /\ Cardinality(Outstanding) \in Nat /\ Cardinality(S) \in Nat
    BY <1>4, Finite
  <2>2. Cardinality(Outstanding \cup S)
          = Cardinality(Outstanding) + Cardinality(S) - Cardinality({})
    BY <1>4, <2>1, FS_Union
  <2> QED BY <1>0, <1>4, <2>1, <2>2, FS_EmptySet DEF Counted
<1>6. QueueType'
  BY <1>0, <1>3, <1>5 DEF QueueType
<1>7. Apart'
  BY <1>0, <1>4 DEF Apart, Outstanding, QueueType
<1>8. Batches'
  BY <1>0, <1>3 DEF Batches
<1>9. Counted'
  BY <1>0, <1>4, <1>5 DEF Counted
<1>10. Result'
  <2>1. added' \ Outstanding' = added \ Outstanding
    BY <1>0, <1>4
  <2> QED BY <1>0, <1>3, <2>1 DEF Result
<1> QED BY <1>6, <1>7, <1>8, <1>9, <1>10 DEF QueueInv

\* Every step of the pool and of its control keeps the invariant.
LEMMA QueueNextInv ==
  ASSUME QueueInv, [QueueNext]_queueVars
  PROVE  QueueInv'
<1> USE DEF QueueInv
<1>1. ASSUME NEW t \in Thread, Enter(t) \/ Resume(t)
      PROVE  QueueInv'
  BY <1>1, NoCleanUp, ServeStep DEF Enter, Resume
<1>2. ASSUME NEW t \in Thread, Finish(t)
      PROVE  QueueInv'
  BY <1>2, FinishStep
<1>3. ASSUME NEW t \in Thread, SpuriousWake(t) \/ Interrupted(t)
      PROVE  QueueInv'
  BY <1>3, MoveStep DEF SpuriousWake, Interrupted, QueueType, Places, Thread
<1>4. CASE OpenControl \/ BeginWait
  BY <1>4, MoveStep DEF OpenControl, BeginWait, QueueType, Places, Thread
<1>5. CASE CloseControl
  BY <1>5, MoveStep DEF CloseControl, QueueType, Places, Thread
<1>6. CASE InterruptAll \/ UNCHANGED queueVars
  <2>1. UNCHANGED <<queue, nTodo, fAllOk, qpc, batch, fOk, added, verdict>>
    BY <1>6 DEF InterruptAll, queueVars
  <2> QED BY <2>1, MoveStep DEF QueueType
<1>7. ASSUME NEW S \in SUBSET (Check \ added), Add(S)
      PROVE  QueueInv'
  BY <1>7, AddStep
<1> QED
  BY <1>1, <1>2, <1>3, <1>4, <1>5, <1>6, <1>7 DEF QueueNext, PoolNext, ThreadStep

\* Wait returns the conjunction of exactly the checks of its control.
THEOREM VerdictTheorem == QueueSpec => []VerdictExact
<1>1. QueueInit => QueueInv
  BY QueueInitInv
<1>2. QueueInv /\ [QueueNext]_queueVars => QueueInv'
  BY QueueNextInv
<1>3. QueueInv => VerdictExact
  BY DEF QueueInv, Result, VerdictExact
<1> QED BY <1>1, <1>2, <1>3, PTL DEF QueueSpec

\* When the control is gone no check is queued or running.
THEOREM DrainedTheorem == QueueSpec => []Drained
<1>1. QueueInit => QueueInv
  BY QueueInitInv
<1>2. QueueInv /\ [QueueNext]_queueVars => QueueInv'
  BY QueueNextInv
<1>3. QueueInv => Drained
  BY FS_EmptySet DEF QueueInv, QueueType, Result, Counted, Outstanding, Drained
<1> QED BY <1>1, <1>2, <1>3, PTL DEF QueueSpec
=============================================================================
