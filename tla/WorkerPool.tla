---------------------------- MODULE WorkerPool ----------------------------
(***************************************************************************)
(* The runtime's bounded worker pool (Runtime::WorkerPool in               *)
(* src/src/runtime/runtime.cpp).                                           *)
(*                                                                         *)
(* An action is what a thread does between two points where others may     *)
(* run: a critical section of the pool's mutex, a notification, a task, a  *)
(* join.  notify_one and notify_all are called after the mutex was         *)
(* released, so they are steps of their own.  A worker blocked in          *)
(* condition.wait is "waiting"; it is "ready" when it is about to evaluate *)
(* the predicate under the mutex, after a notification, a spurious wakeup  *)
(* or a finished task.                                                     *)
(*                                                                         *)
(* start and stop are called by the owner of the pool, one after the       *)
(* other; submit is called by any number of threads at any time.  All      *)
(* tasks are alike (Runtime::request_maintenance), so the deque is its     *)
(* length.                                                                 *)
(***************************************************************************)
EXTENDS Integers, FiniteSets

CONSTANTS
  Workers,      \* the threads that a start spawns
  max_pending,  \* max_pending_tasks
  MaxTasks, MaxRejected, MaxStarts  \* bounds of the model

ASSUME PoolAssumption ==
  /\ IsFiniteSet(Workers) /\ Workers # {}
  /\ max_pending \in Nat \ {0}
  /\ MaxTasks \in Nat /\ MaxRejected \in Nat /\ MaxStarts \in Nat

VARIABLES
  tasks,      \* the length of the deque
  threads,    \* the workers in the vector: none or all
  worker,     \* what every worker is doing
  stopping,
  submitted, completed, rejected,
  notifying,  \* submitters that pushed a task and have not yet notified
  owner,      \* where the owner is in stop()
  starts      \* starts so far

vars == <<tasks, threads, worker, stopping, submitted, completed, rejected,
          notifying, owner, starts>>

Init ==
  /\ tasks = 0
  /\ threads = {}
  /\ worker = [w \in Workers |-> "absent"]
  /\ stopping = FALSE
  /\ submitted = 0 /\ completed = 0 /\ rejected = 0
  /\ notifying = 0
  /\ owner = "free"
  /\ starts = 0

-----------------------------------------------------------------------------
(***************************************************************************)
(* The owner.                                                              *)
(***************************************************************************)
\* A start while the threads exist does nothing.
start ==
  /\ owner = "free" /\ starts < MaxStarts
  /\ threads = {}
  /\ stopping' = FALSE
  /\ threads' = Workers
  /\ worker' = [w \in Workers |-> "ready"]
  /\ starts' = starts + 1
  /\ UNCHANGED <<tasks, submitted, completed, rejected, notifying, owner>>

stop ==
  /\ owner = "free"
  /\ stopping' = TRUE
  /\ owner' = "notifying"
  /\ UNCHANGED <<tasks, threads, worker, submitted, completed, rejected,
                 notifying, starts>>

\* Mutant: nobody is woken up.
NotifyAll_Nobody ==
  /\ owner = "notifying"
  /\ owner' = "joining"
  /\ UNCHANGED <<tasks, threads, worker, stopping, submitted, completed,
                 rejected, notifying, starts>>

NotifyAll ==
  /\ owner = "notifying"
  /\ worker' = [w \in Workers |-> IF worker[w] = "waiting" THEN "ready" ELSE worker[w]]
  /\ owner' = "joining"
  /\ UNCHANGED <<tasks, threads, stopping, submitted, completed, rejected,
                 notifying, starts>>

\* The last join returns when the last worker has returned.
Join ==
  /\ owner = "joining"
  /\ \A w \in threads : worker[w] = "exited"
  /\ owner' = "clearing"
  /\ UNCHANGED <<tasks, threads, worker, stopping, submitted, completed,
                 rejected, notifying, starts>>

\* The flag stays set until the next start.
Clear ==
  /\ owner = "clearing"
  /\ threads' = {}
  /\ worker' = [w \in Workers |-> "absent"]
  /\ owner' = "free"
  /\ UNCHANGED <<tasks, stopping, submitted, completed, rejected, notifying, starts>>

-----------------------------------------------------------------------------
(***************************************************************************)
(* Submitters.                                                             *)
(***************************************************************************)
QueueFull == tasks >= max_pending

SubmitAccepted ==
  /\ submitted < MaxTasks
  /\ ~stopping /\ threads # {} /\ ~QueueFull
  /\ tasks' = tasks + 1
  /\ submitted' = submitted + 1
  /\ notifying' = notifying + 1
  /\ UNCHANGED <<threads, worker, stopping, completed, rejected, owner, starts>>

SubmitRejected ==
  /\ rejected < MaxRejected
  /\ stopping \/ threads = {} \/ QueueFull
  /\ rejected' = rejected + 1
  /\ UNCHANGED <<tasks, threads, worker, stopping, submitted, completed,
                 notifying, owner, starts>>

submit == SubmitAccepted \/ SubmitRejected

\* Mutant: the notification gets lost.
NotifyOne_Lost ==
  /\ notifying > 0
  /\ notifying' = notifying - 1
  /\ UNCHANGED <<tasks, threads, worker, stopping, submitted, completed,
                 rejected, owner, starts>>

\* One waiting worker is woken up, whichever; with none waiting nothing happens.
NotifyOne ==
  /\ notifying > 0
  /\ notifying' = notifying - 1
  /\ \/ \E w \in Workers : worker[w] = "waiting" /\ worker' = [worker EXCEPT ![w] = "ready"]
     \/ (\A w \in Workers : worker[w] # "waiting") /\ UNCHANGED worker
  /\ UNCHANGED <<tasks, threads, stopping, submitted, completed, rejected, owner, starts>>

-----------------------------------------------------------------------------
(***************************************************************************)
(* worker_loop.  The predicate is evaluated and the wait begun, the task   *)
(* popped or the loop left in one critical section.                        *)
(***************************************************************************)
Wait(w) ==
  /\ worker[w] = "ready" /\ tasks = 0 /\ ~stopping
  /\ worker' = [worker EXCEPT ![w] = "waiting"]
  /\ UNCHANGED <<tasks, threads, stopping, submitted, completed, rejected,
                 notifying, owner, starts>>

WakeSpuriously(w) ==
  /\ worker[w] = "waiting"
  /\ worker' = [worker EXCEPT ![w] = "ready"]
  /\ UNCHANGED <<tasks, threads, stopping, submitted, completed, rejected,
                 notifying, owner, starts>>

Pop(w) ==
  /\ worker[w] = "ready" /\ tasks > 0
  /\ tasks' = tasks - 1
  /\ worker' = [worker EXCEPT ![w] = "busy"]
  /\ UNCHANGED <<threads, stopping, submitted, completed, rejected,
                 notifying, owner, starts>>

\* The task ran to its end outside the mutex.
Finish(w) ==
  /\ worker[w] = "busy"
  /\ completed' = completed + 1
  /\ worker' = [worker EXCEPT ![w] = "ready"]
  /\ UNCHANGED <<tasks, threads, stopping, submitted, rejected,
                 notifying, owner, starts>>

\* Mutant: a worker leaves as soon as it sees the flag.
Exit_Undrained(w) ==
  /\ worker[w] = "ready" /\ stopping
  /\ worker' = [worker EXCEPT ![w] = "exited"]
  /\ UNCHANGED <<tasks, threads, stopping, submitted, completed, rejected,
                 notifying, owner, starts>>

Exit(w) ==
  /\ worker[w] = "ready" /\ tasks = 0 /\ stopping
  /\ worker' = [worker EXCEPT ![w] = "exited"]
  /\ UNCHANGED <<tasks, threads, stopping, submitted, completed, rejected,
                 notifying, owner, starts>>

-----------------------------------------------------------------------------
worker_loop(w) == Wait(w) \/ Pop(w) \/ Finish(w) \/ Exit(w)

Stopping == NotifyAll \/ Join \/ Clear

Next ==
  \/ start \/ stop \/ Stopping
  \/ submit \/ NotifyOne
  \/ \E w \in Workers : worker_loop(w) \/ WakeSpuriously(w)

Spec == Init /\ [][Next]_vars

\* Threads that can run do: a worker, a submitter on its way to notify and an
\* owner inside stop() go on, and tasks end (maintenance is bounded work).
\* Nobody has to call anything, and no wakeup has to be spurious.
Fairness ==
  /\ \A w \in Workers : WF_vars(worker_loop(w))
  /\ WF_vars(NotifyOne)
  /\ WF_vars(Stopping)

FairSpec == Spec /\ Fairness
-----------------------------------------------------------------------------
(***************************************************************************)
(* Properties.                                                             *)
(***************************************************************************)
Activity == {"absent", "ready", "waiting", "busy", "exited"}

\* Type invariant: the queue never exceeds its bound and the vector holds all
\* the workers or none.
TypeOK ==
  /\ tasks \in 0..max_pending
  /\ threads \in {{}, Workers}
  /\ worker \in [Workers -> Activity]
  /\ stopping \in BOOLEAN
  /\ submitted \in Nat /\ completed \in Nat /\ rejected \in Nat /\ notifying \in Nat
  /\ owner \in {"free", "notifying", "joining", "clearing"}
  /\ starts \in Nat

\* "Tasks already queued are executed, never abandoned" (docs/concurrency.md:44):
\* when no thread is left, every submitted task has been completed.
NoTaskAbandoned == threads = {} => completed = submitted /\ tasks = 0

\* A task in the queue is never overlooked: while every worker waits, a
\* notification is still on its way.
NoLostWakeup ==
  (threads # {} /\ (tasks > 0 \/ stopping) /\ \A w \in threads : worker[w] = "waiting")
     => notifying > 0 \/ owner = "notifying"

\* Every submitted task is executed, whether or not the pool is ever stopped.
EveryTaskRuns == \A n \in 1..MaxTasks : submitted >= n ~> completed >= n

\* stop() returns: the workers drain the queue and can all be joined.
StopReturns == owner # "free" ~> owner = "free"
=============================================================================
