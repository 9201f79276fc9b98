----------------------------- MODULE CheckQueue -----------------------------
(***************************************************************************)
(* CCheckQueue: the pool of script-check threads.  The master (whichever   *)
(* thread connects a block) adds checks under a CCheckQueueControl, then   *)
(* joins the workers until nothing is left, and gets the conjunction of    *)
(* the checks.  One action per critical section of the queue's mutex.      *)
(*                                                                         *)
(* The queue is a LIFO vector whose order the code declares irrelevant; it *)
(* is a set here and a batch is any subset of the batch's size.  A check   *)
(* is pure, so running a batch is joined to the critical section after it. *)
(***************************************************************************)
EXTENDS Integers, FiniteSets

CONSTANTS
  Check,      \* script checks
  Bad,        \* those that fail
  Worker,     \* ThreadScriptCheck threads
  Master,     \* the thread that connects the block
  nBatchSize

ASSUME QueueAssumption ==
  /\ Bad \subseteq Check /\ IsFiniteSet(Check)
  /\ Master \notin Worker
  /\ nBatchSize \in Nat \ {0}

Thread == Worker \cup {Master}

VARIABLES
  queue, nTodo, fAllOk, nIdle, nTotal,
  qpc,        \* where each thread is
  batch,      \* vChecks of each thread, until its clean-up
  fOk,        \* fOk of each thread, while it has a batch
  added,      \* history: the checks added under the present control
  verdict,    \* what Wait returned, until the control goes
  stopping,   \* interrupt_all() was called
  intr,       \* threads with a pending boost interruption
  thrown      \* Wait was left by an interruption

queueVars == <<queue, nTodo, fAllOk, nIdle, nTotal, qpc, batch, fOk, added,
               verdict, stopping, intr, thrown>>

\* A worker is outside before its first turn; the master is outside ("out"), adds
\* checks under its control ("add"), and has its answer ("done").  In the loop:
\* "lock" before the first critical section, "exec" with a batch, "wait" on the
\* condition variable, "awake" after it; "gone" when an interruption ended it.
Places == {"lock", "exec", "wait", "awake", "gone", "out", "add", "done"}

QueueInit ==
  /\ queue = {} /\ nTodo = 0 /\ fAllOk = TRUE /\ nIdle = 0 /\ nTotal = 0
  /\ qpc = [t \in Thread |-> IF t = Master THEN "out" ELSE "lock"]
  /\ batch = [t \in Thread |-> {}] /\ fOk = [t \in Thread |-> TRUE]
  /\ added = {} /\ verdict = TRUE /\ stopping = FALSE /\ intr = {} /\ thrown = FALSE

nNow(total, idle) ==
  LET share == Cardinality(queue) \div (total + idle + 1)
      most == IF share < nBatchSize THEN share ELSE nBatchSize
  IN IF most > 1 THEN most ELSE 1

\* The rest of a critical section, after the clean-up or the wait.
Take(t, pcs, ok, total, idle) ==
  /\ queue # {}
  /\ \E B \in SUBSET queue :
       /\ Cardinality(B) = nNow(total, idle)
       /\ batch' = [batch EXCEPT ![t] = B]
       /\ queue' = queue \ B
  /\ fOk' = [fOk EXCEPT ![t] = ok]
  /\ qpc' = [pcs EXCEPT ![t] = "exec"]
  /\ fAllOk' = ok /\ nTotal' = total /\ nIdle' = idle
  /\ UNCHANGED verdict

\* Mutant: the result is not reset for the next block.
ReturnNoReset(t, pcs, todo, ok, total, idle) ==
  /\ queue = {} /\ t = Master /\ todo = 0
  /\ verdict' = ok /\ fAllOk' = ok
  /\ qpc' = [pcs EXCEPT ![t] = "done"]
  /\ batch' = [batch EXCEPT ![t] = {}]
  /\ fOk' = [fOk EXCEPT ![t] = TRUE]
  /\ nTotal' = total - 1 /\ nIdle' = idle
  /\ UNCHANGED queue

\* Mutant: the master leaves when the queue is empty, whatever is still running.
ReturnEarly(t, pcs, todo, ok, total, idle) ==
  /\ queue = {} /\ t = Master
  /\ verdict' = ok /\ fAllOk' = TRUE
  /\ qpc' = [pcs EXCEPT ![t] = "done"]
  /\ batch' = [batch EXCEPT ![t] = {}]
  /\ fOk' = [fOk EXCEPT ![t] = TRUE]
  /\ nTotal' = total - 1 /\ nIdle' = idle
  /\ UNCHANGED queue

Return(t, pcs, todo, ok, total, idle) ==
  /\ queue = {} /\ t = Master /\ todo = 0
  /\ verdict' = ok /\ fAllOk' = TRUE
  /\ qpc' = [pcs EXCEPT ![t] = "done"]
  /\ batch' = [batch EXCEPT ![t] = {}]
  /\ fOk' = [fOk EXCEPT ![t] = TRUE]
  /\ nTotal' = total - 1 /\ nIdle' = idle
  /\ UNCHANGED queue

Sleep(t, pcs, todo, ok, total, idle) ==
  /\ queue = {} /\ ~(t = Master /\ todo = 0)
  /\ fAllOk' = ok /\ nTotal' = total /\ nIdle' = idle + 1
  /\ qpc' = [pcs EXCEPT ![t] = "wait"]
  /\ batch' = [batch EXCEPT ![t] = {}] /\ fOk' = [fOk EXCEPT ![t] = TRUE]
  /\ UNCHANGED <<queue, verdict>>

Serve(t, pcs, todo, ok, total, idle) ==
  /\ nTodo' = todo
  /\ \/ Take(t, pcs, ok, total, idle)
     \/ Return(t, pcs, todo, ok, total, idle)
     \/ Sleep(t, pcs, todo, ok, total, idle)
  /\ UNCHANGED <<added, stopping, intr, thrown>>

Enter(t) == /\ qpc[t] = "lock"
            /\ Serve(t, qpc, nTodo, fAllOk, nTotal + 1, nIdle)

\* Mutant: the worker that finishes the last check does not tell the master.
MasterWokenNot(t, todo) == qpc

\* The worker that finishes the last check wakes the master.
MasterWoken(t, todo) ==
  IF todo = 0 /\ t # Master /\ qpc[Master] = "wait"
  THEN [qpc EXCEPT ![Master] = "awake"] ELSE qpc

\* The batch is run (not at all once a check has failed), then cleaned up.
Finish(t) ==
  LET todo == nTodo - Cardinality(batch[t])
      ok == fOk[t] /\ batch[t] \cap Bad = {}
  IN /\ qpc[t] = "exec"
     /\ Serve(t, MasterWoken(t, todo), todo, fAllOk /\ ok, nTotal, nIdle)

Resume(t) == /\ qpc[t] = "awake"
             /\ Serve(t, qpc, nTodo, fAllOk, nTotal, nIdle - 1)

\* cond.wait returns without a notification.
SpuriousWake(t) ==
  /\ qpc[t] = "wait"
  /\ qpc' = [qpc EXCEPT ![t] = "awake"]
  /\ UNCHANGED <<queue, nTodo, fAllOk, nIdle, nTotal, batch, fOk, added, verdict, stopping, intr, thrown>>

-----------------------------------------------------------------------------
(* CCheckQueueControl *)

OpenControl ==
  /\ qpc[Master] = "out"
  /\ qpc' = [qpc EXCEPT ![Master] = "add"]
  /\ UNCHANGED <<queue, nTodo, fAllOk, nIdle, nTotal, batch, fOk, added, verdict, stopping, intr, thrown>>

Waiting == {w \in Worker : qpc[w] = "wait"}

\* Whom Add notifies: one waiting worker for one check, all of them for more.
Notified(n) ==
  IF n = 0 \/ Waiting = {} THEN {{}}
  ELSE IF n = 1 THEN {{w} : w \in Waiting} ELSE {Waiting}

Add(S) ==
  /\ qpc[Master] = "add"
  /\ queue' = queue \cup S /\ added' = added \cup S
  /\ nTodo' = nTodo + Cardinality(S)
  /\ \E W \in Notified(Cardinality(S)) :
       qpc' = [t \in Thread |-> IF t \in W THEN "awake" ELSE qpc[t]]
  /\ UNCHANGED <<fAllOk, nIdle, nTotal, batch, fOk, verdict, stopping, intr, thrown>>

\* control.Wait(), or the destructor on an early return.
BeginWait ==
  /\ qpc[Master] = "add"
  /\ qpc' = [qpc EXCEPT ![Master] = "lock"]
  /\ UNCHANGED <<queue, nTodo, fAllOk, nIdle, nTotal, batch, fOk, added, verdict, stopping, intr, thrown>>

CloseControl ==
  /\ qpc[Master] = "done"
  /\ qpc' = [qpc EXCEPT ![Master] = "out"]
  /\ added' = {} /\ thrown' = FALSE /\ verdict' = TRUE
  /\ UNCHANGED <<queue, nTodo, fAllOk, nIdle, nTotal, batch, fOk, stopping, intr>>

-----------------------------------------------------------------------------
(* Shutdown: threadGroup.interrupt_all().  The master is interrupted when it is
   the import thread, which is in the group; cond.wait is the only interruption
   point of the loop. *)

InterruptAll ==
  /\ ~stopping /\ stopping' = TRUE
  /\ intr' \in {Worker, Thread}
  /\ UNCHANGED <<queue, nTodo, fAllOk, nIdle, nTotal, qpc, batch, fOk, added, verdict, thrown>>

\* A worker leaves by the exception.  The master's stack unwinds into the
\* control's destructor, which waits again.
Interrupted(t) ==
  /\ t \in intr /\ qpc[t] \in {"wait", "awake"}
  /\ intr' = intr \ {t}
  /\ qpc' = [qpc EXCEPT ![t] = IF t = Master THEN "lock" ELSE "gone"]
  /\ thrown' = (thrown \/ t = Master)
  /\ UNCHANGED <<queue, nTodo, fAllOk, nIdle, nTotal, batch, fOk, added, verdict, stopping>>

ThreadStep(t) == Enter(t) \/ Finish(t) \/ Resume(t)

PoolNext == \E t \in Thread : ThreadStep(t) \/ SpuriousWake(t) \/ Interrupted(t)

QueueNext ==
  \/ PoolNext \/ InterruptAll
  \/ OpenControl \/ BeginWait \/ CloseControl
  \/ \E S \in SUBSET (Check \ added) : Add(S)

QueueSpec == QueueInit /\ [][QueueNext]_queueVars

-----------------------------------------------------------------------------
(* Properties *)

\* Wait returns the conjunction of exactly the checks added under this control:
\* nothing of an earlier block, and nothing left out, however the batches fall
\* and whoever was interrupted (Loop, CCheckQueueControl).
VerdictExact ==
  qpc[Master] = "done" /\ ~thrown => verdict = (added \cap Bad = {})

\* When the control is gone no check is queued or running, so that the transaction
\* data the checks point to may be freed ("PrecomputedTransactionData MUST outlive
\* CCheckQueueControl", validation.cpp:1938).
Drained ==
  qpc[Master] \in {"out", "done"} =>
    /\ queue = {} /\ nTodo = 0 /\ fAllOk
    /\ \A t \in Thread : batch[t] = {}
=============================================================================
