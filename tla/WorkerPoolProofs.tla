-------------------------- MODULE WorkerPoolProofs --------------------------
(***************************************************************************)
(* Safety of the worker pool for any number of workers, any bound of the   *)
(* queue and any number of submitters: no task is abandoned and no wakeup  *)
(* is lost.                                                                *)
(*                                                                         *)
(* That a drained pool has completed what was submitted is not inductive.  *)
(* The ledger makes it so: a submitted task is completed, queued or in the *)
(* hands of a busy worker.  And a worker that has left proves the queue    *)
(* empty for good, since nothing is pushed once the flag is set.           *)
(***************************************************************************)
EXTENDS WorkerPool, FiniteSetTheorems, TLAPS

Busy == {w \in Workers : worker[w] = "busy"}

\* Every submitted task is completed, queued or being run.
Ledger == submitted = completed + tasks + Cardinality(Busy)

\* The workers of the vector are the ones that exist, a worker leaves only an
\* empty queue, and an empty vector comes with an empty queue.
Drained ==
  /\ \A w \in Workers : worker[w] = "absent" <=> threads = {}
  /\ \A w \in Workers : worker[w] = "exited" => stopping /\ tasks = 0
  /\ owner = "clearing" => \A w \in threads : worker[w] = "exited"
  /\ threads = {} => tasks = 0

PoolInv == TypeOK /\ Drained /\ Ledger

-----------------------------------------------------------------------------
LEMMA TypeStep ==
  ASSUME TypeOK, [Next]_vars
  PROVE  TypeOK'
<1> USE PoolAssumption DEF TypeOK, Activity
<1>1. CASE start
  <2>1. worker' \in [Workers -> Activity]
    BY <1>1 DEF start
  <2>2. threads' \in {{}, Workers}
    BY <1>1 DEF start
  <2>3. stopping' \in BOOLEAN
    BY <1>1, Zenon DEF start
  <2>4. starts' = starts + 1
        /\ UNCHANGED <<tasks, submitted, completed, rejected, notifying, owner>>
    BY <1>1, Zenon DEF start
  <2>5. QED
    BY <2>1, <2>2, <2>3, <2>4
<1>2. CASE stop
  BY <1>2 DEF stop
<1>3. CASE NotifyAll
  BY <1>3 DEF NotifyAll
<1>4. CASE Join
  BY <1>4 DEF Join
<1>5. CASE Clear
  BY <1>5 DEF Clear
<1>6. CASE SubmitAccepted
  BY <1>6 DEF SubmitAccepted, QueueFull
<1>7. CASE SubmitRejected
  BY <1>7 DEF SubmitRejected
<1>8. CASE NotifyOne
  BY <1>8 DEF NotifyOne
<1>9. ASSUME NEW w \in Workers, Wait(w) \/ Pop(w) \/ Finish(w) \/ Exit(w) \/ WakeSpuriously(w)
      PROVE  TypeOK'
  BY <1>9 DEF Wait, Pop, Finish, Exit, WakeSpuriously
<1>10. CASE UNCHANGED vars
  BY <1>10 DEF vars
<1>11. QED
  BY <1>1, <1>2, <1>3, <1>4, <1>5, <1>6, <1>7, <1>8, <1>9, <1>10
     DEF Next, Stopping, submit, worker_loop

LEMMA DrainedStep ==
  ASSUME TypeOK, Drained, [Next]_vars
  PROVE  Drained'
<1> USE PoolAssumption DEF TypeOK, Drained
<1>1. CASE start
  BY <1>1 DEF start
<1>2. CASE stop
  BY <1>2 DEF stop
<1>3. CASE NotifyAll
  BY <1>3 DEF NotifyAll
<1>4. CASE Join
  BY <1>4 DEF Join
<1>5. CASE Clear
  <2>1. tasks = 0
    BY <1>5 DEF Clear
  <2>2. QED
    BY <1>5, <2>1 DEF Clear
<1>6. CASE SubmitAccepted
  BY <1>6 DEF SubmitAccepted
<1>7. CASE SubmitRejected
  BY <1>7 DEF SubmitRejected
<1>8. CASE NotifyOne
  BY <1>8 DEF NotifyOne
<1>9. ASSUME NEW w \in Workers, Wait(w) \/ Pop(w) \/ Finish(w) \/ Exit(w) \/ WakeSpuriously(w)
      PROVE  Drained'
  <2>1. threads = Workers /\ threads' = threads
    BY <1>9 DEF Wait, Pop, Finish, Exit, WakeSpuriously
  <2>2. QED
    BY <1>9, <2>1 DEF Wait, Pop, Finish, Exit, WakeSpuriously
<1>10. CASE UNCHANGED vars
  BY <1>10 DEF vars
<1>11. QED
  BY <1>1, <1>2, <1>3, <1>4, <1>5, <1>6, <1>7, <1>8, <1>9, <1>10
     DEF Next, Stopping, submit, worker_loop

-----------------------------------------------------------------------------
LEMMA BusyFinite == IsFiniteSet(Busy) /\ Cardinality(Busy) \in Nat
<1>1. IsFiniteSet(Busy)
  BY PoolAssumption, FS_Subset DEF Busy
<1>2. QED
  BY <1>1, FS_CardinalityType

LEMMA LedgerStep ==
  ASSUME TypeOK, Drained, Ledger, [Next]_vars
  PROVE  Ledger'
<1> USE PoolAssumption DEF TypeOK
<1>1. IsFiniteSet(Busy) /\ Cardinality(Busy) \in Nat
  BY BusyFinite
<1>2. ASSUME Busy' = Busy, UNCHANGED <<tasks, submitted, completed>>
      PROVE  Ledger'
  BY <1>2 DEF Ledger
<1>3. CASE start
  <2>1. Busy = {} /\ Busy' = {}
    BY <1>3 DEF start, Drained, Busy
  <2>2. QED
    BY <1>2, <1>3, <2>1 DEF start
<1>4. CASE stop \/ Join \/ SubmitRejected \/ UNCHANGED vars
  <2>1. Busy' = Busy
    BY <1>4 DEF stop, Join, SubmitRejected, vars, Busy
  <2>2. QED
    BY <1>2, <1>4, <2>1 DEF stop, Join, SubmitRejected, vars
<1>5. CASE NotifyAll
  <2>1. Busy' = Busy
    BY <1>5 DEF NotifyAll, Busy
  <2>2. QED
    BY <1>2, <1>5, <2>1 DEF NotifyAll
<1>6. CASE Clear
  <2>1. Busy = {} /\ Busy' = {}
    BY <1>6 DEF Clear, Drained, Busy
  <2>2. QED
    BY <1>2, <1>6, <2>1 DEF Clear
<1>7. CASE SubmitAccepted
  <2>1. Busy' = Busy
    BY <1>7 DEF SubmitAccepted, Busy
  <2>2. QED
    BY <1>1, <1>7, <2>1 DEF SubmitAccepted, Ledger
<1>8. CASE NotifyOne
  <2>1. Busy' = Busy
    BY <1>8 DEF NotifyOne, Busy
  <2>2. QED
    BY <1>2, <1>8, <2>1 DEF NotifyOne
<1>9. ASSUME NEW w \in Workers, Wait(w) \/ Exit(w) \/ WakeSpuriously(w)
      PROVE  Ledger'
  <2>1. Busy' = Busy
    BY <1>9 DEF Wait, Exit, WakeSpuriously, Busy
  <2>2. QED
    BY <1>2, <1>9, <2>1 DEF Wait, Exit, WakeSpuriously
<1>10. ASSUME NEW w \in Workers, Pop(w)
       PROVE  Ledger'
  <2>1. w \notin Busy /\ Busy' = Busy \cup {w}
    BY <1>10 DEF Pop, Busy
  <2>2. Cardinality(Busy') = Cardinality(Busy) + 1
    BY <1>1, <2>1, FS_AddElement
  <2>3. QED
    BY <1>1, <1>10, <2>2 DEF Pop, Ledger
<1>11. ASSUME NEW w \in Workers, Finish(w)
       PROVE  Ledger'
  <2>1. w \in Busy /\ Busy' = Busy \ {w}
    BY <1>11 DEF Finish, Busy
  <2>2. Cardinality(Busy') = Cardinality(Busy) - 1
    BY <1>1, <2>1, FS_RemoveElement
  <2>3. QED
    BY <1>1, <1>11, <2>2 DEF Finish, Ledger
<1>12. QED
  BY <1>3, <1>4, <1>5, <1>6, <1>7, <1>8, <1>9, <1>10, <1>11
     DEF Next, Stopping, submit, worker_loop

LEMMA PoolInvariant == Spec => []PoolInv
<1>1. Init => PoolInv
  <2> SUFFICES ASSUME Init PROVE PoolInv
    OBVIOUS
  <2>1. TypeOK
    <3>1. worker \in [Workers -> Activity]
      BY DEF Init, Activity
    <3>2. tasks \in 0..max_pending
      BY PoolAssumption DEF Init
    <3>3. QED
      BY <3>1, <3>2 DEF Init, TypeOK
  <2>2. Drained
    BY PoolAssumption DEF Init, Drained
  <2>3. Busy = {}
    BY DEF Init, Busy
  <2>4. Cardinality(Busy) = 0
    BY <2>3, FS_EmptySet
  <2>5. QED
    BY <2>1, <2>2, <2>4 DEF Init, PoolInv, Ledger
<1>2. PoolInv /\ [Next]_vars => PoolInv'
  BY TypeStep, DrainedStep, LedgerStep DEF PoolInv
<1>3. QED
  BY <1>1, <1>2, PTL DEF Spec

-----------------------------------------------------------------------------
\* The queue stays within max_pending_tasks and the vector of threads holds all
\* of them or none, for any sequence of starts, stops and submits.
THEOREM QueueBounded == Spec => []TypeOK
<1>1. PoolInv => TypeOK
  BY DEF PoolInv
<1>2. QED
  BY <1>1, PoolInvariant, PTL

\* stop() abandons no task: with the last worker gone, everything that submit
\* accepted has been completed.
THEOREM StopDrains == Spec => []NoTaskAbandoned
<1>1. PoolInv => NoTaskAbandoned
  <2> SUFFICES ASSUME PoolInv, threads = {} PROVE completed = submitted /\ tasks = 0
    BY DEF NoTaskAbandoned
  <2>1. tasks = 0 /\ Busy = {}
    BY DEF PoolInv, Drained, Busy
  <2>2. Cardinality(Busy) = 0
    BY <2>1, FS_EmptySet
  <2>3. QED
    BY <2>1, <2>2 DEF PoolInv, Ledger, TypeOK
<1>2. QED
  BY <1>1, PoolInvariant, PTL

LEMMA WakeupStep ==
  ASSUME TypeOK, Drained, NoLostWakeup, [Next]_vars
  PROVE  NoLostWakeup'
<1> USE PoolAssumption DEF TypeOK, NoLostWakeup
<1>1. CASE start
  BY <1>1 DEF start
<1>2. CASE stop
  BY <1>2 DEF stop
<1>3. CASE NotifyAll
  BY <1>3 DEF NotifyAll
<1>4. CASE Join
  BY <1>4 DEF Join
<1>5. CASE Clear
  BY <1>5 DEF Clear
<1>6. CASE SubmitAccepted
  BY <1>6 DEF SubmitAccepted
<1>7. CASE SubmitRejected
  BY <1>7 DEF SubmitRejected
<1>8. CASE NotifyOne
  <2>1. \E w \in Workers : worker'[w] # "waiting"
    BY <1>8 DEF NotifyOne
  <2>2. threads' \in {{}, Workers}
    BY <1>8 DEF NotifyOne
  <2>3. QED
    BY <2>1, <2>2
<1>9. ASSUME NEW w \in Workers, Wait(w)
      PROVE  NoLostWakeup'
  BY <1>9 DEF Wait
<1>10. ASSUME NEW w \in Workers, Pop(w) \/ Finish(w) \/ Exit(w) \/ WakeSpuriously(w)
       PROVE  NoLostWakeup'
  <2>1. worker'[w] # "waiting" /\ threads' = threads
    BY <1>10 DEF Pop, Finish, Exit, WakeSpuriously
  <2>2. QED
    BY <2>1
<1>11. CASE UNCHANGED vars
  BY <1>11 DEF vars
<1>12. QED
  BY <1>1, <1>2, <1>3, <1>4, <1>5, <1>6, <1>7, <1>8, <1>9, <1>10, <1>11
     DEF Next, Stopping, submit, worker_loop

\* No wakeup is lost, although notifications are sent without the mutex: a
\* queued task or a stop never finds every worker waiting with nobody about
\* to notify.
THEOREM WakeupsArrive == Spec => []NoLostWakeup
<1>1. Init => NoLostWakeup
  BY DEF Init, NoLostWakeup
<1>2. PoolInv /\ NoLostWakeup /\ [Next]_vars => NoLostWakeup'
  BY WakeupStep DEF PoolInv
<1>3. QED
  BY <1>1, <1>2, PoolInvariant, PTL DEF Spec
=============================================================================
