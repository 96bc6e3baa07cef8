-------------------------- MODULE WorkerPoolProofs --------------------------
(***************************************************************************)
(* Proofs about WorkerPool, for any number of workers and tasks.           *)
(***************************************************************************)
EXTENDS WorkerPool, TLAPS

(* The inductive invariant.  Nobody exits in the middle of a task, nor     *)
(* before the pool is stopped or closed; pool.done stands for the exit of  *)
(* all; only the owner closes pool.tasks, and only outside Do; and every   *)
(* task given to a pool nobody stopped is offered, running or ended.       *)

Leaving ==
    /\ \A w \in exited : working[w] = None
    /\ exited # {} => stopped \/ closed
    /\ done => exited = Worker

Closing ==
    /\ closed <=> caller \in {"waiting", "returned"}
    /\ caller = "returned" => done

Accounted ==
    /\ offered # None => offered \in given /\ \A w \in Worker : working[w] # offered
    /\ \A w \in Worker : working[w] # None => working[w] \in given
    /\ ~stopped => \A t \in given : \/ t \in ended
                                    \/ t = offered
                                    \/ \E w \in Worker : working[w] = t

IInv == TypeOK /\ Leaving /\ Closing /\ Accounted

(* A new pool satisfies the invariant. *)
LEMMA InitIInv == Init => IInv
BY TaskAssumption DEF Init, IInv, TypeOK, Leaving, Closing, Accounted

(* So does the pool that replaces one. *)
LEMMA ResetStep == ASSUME Reset PROVE IInv'
BY TaskAssumption DEF Reset, IInv, TypeOK, Leaving, Closing, Accounted

(* NewWorkerPool makes such a pool (worker_pool.go:30-42). *)
LEMMA NewStep == ASSUME New PROVE IInv'
BY ResetStep DEF New

(* The owner's steps; a pool nobody stopped drops nothing, because its     *)
(* workers exit only once the owner is past its last Do.                   *)
LEMMA DoStep == ASSUME IInv, NEW t \in Task \ given, Do(t) PROVE IInv'
<1> USE TaskAssumption DEF IInv, Do, channels
<1>1. TypeOK'
  BY DEF TypeOK
<1>2. Leaving' /\ Closing'
  BY DEF Leaving, Closing, TypeOK
<1>3. Accounted'
  BY DEF Accounted, TypeOK
<1> QED BY <1>1, <1>2, <1>3

(* Do drops its task: the pool was stopped (worker_pool.go:78-79). *)
LEMMA DropStep == ASSUME IInv, Drop PROVE IInv'
<1> USE TaskAssumption DEF IInv, Drop, channels
<1>1. stopped
  BY WorkerAssumption DEF Leaving, Closing, TypeOK
<1>2. TypeOK'
  BY DEF TypeOK
<1>3. Leaving' /\ Closing' /\ Accounted'
  BY <1>1 DEF Leaving, Closing, Accounted, TypeOK
<1> QED BY <1>2, <1>3

(* Wait closes pool.tasks; no Do is under way (worker_pool.go:96). *)
LEMMA WaitStep == ASSUME IInv, Wait PROVE IInv'
<1> USE TaskAssumption DEF IInv, Wait
<1>1. TypeOK'
  BY DEF TypeOK
<1>2. Leaving' /\ Closing' /\ Accounted'
  BY DEF Leaving, Closing, Accounted
<1> QED BY <1>1, <1>2

(* Wait returns: every worker has left (worker_pool.go:97-100). *)
LEMMA WaitedStep == ASSUME IInv, Waited PROVE IInv'
<1> USE TaskAssumption DEF IInv, Waited, channels
<1>1. TypeOK'
  BY DEF TypeOK
<1>2. Leaving' /\ Closing' /\ Accounted'
  BY DEF Leaving, Closing, Accounted
<1> QED BY <1>1, <1>2

(* The workers' steps. *)
LEMMA TakeStep == ASSUME IInv, NEW w \in Worker, Take(w) PROVE IInv'
<1> USE TaskAssumption DEF IInv, Take, Idle, channels
<1>1. \A v \in Worker : working'[v] = IF v = w THEN offered ELSE working[v]
  BY DEF TypeOK
<1>2. TypeOK'
  BY <1>1 DEF TypeOK, Accounted
<1>3. Leaving' /\ Closing'
  BY <1>1 DEF Leaving, Closing, TypeOK
<1>4. Accounted'
  BY <1>1 DEF Accounted, TypeOK
<1> QED BY <1>2, <1>3, <1>4

(* A task stops the pool (worker_pool.go:89-93). *)
LEMMA StopStep == ASSUME IInv, NEW w \in Worker, Stop(w) PROVE IInv'
BY TaskAssumption DEF Stop, IInv, TypeOK, Leaving, Closing, Accounted

(* A task ends; the others run on (worker_pool.go:58-60). *)
LEMMA FinishStep == ASSUME IInv, NEW w \in Worker, Finish(w) PROVE IInv'
<1> USE TaskAssumption DEF IInv, Finish, channels
<1>1. \A v \in Worker : working'[v] = IF v = w THEN None ELSE working[v]
  BY DEF TypeOK
<1>2. TypeOK'
  BY <1>1 DEF TypeOK, Accounted
<1>3. Leaving' /\ Closing'
  BY <1>1 DEF Leaving, Closing, TypeOK
<1>4. Accounted'
  <2>1. \A t \in given : t # working[w] => \A v \in Worker : working[v] = t => working'[v] = t
    BY <1>1
  <2> QED BY <1>1, <2>1 DEF Accounted, TypeOK
<1> QED BY <1>2, <1>3, <1>4

(* A worker without a task leaves (worker_pool.go:51-57). *)
LEMMA ExitStep == ASSUME IInv, NEW w \in Worker, Exit(w) PROVE IInv'
<1> USE TaskAssumption DEF IInv, Exit, Idle, channels
<1>1. TypeOK'
  BY DEF TypeOK
<1>2. Leaving' /\ Closing' /\ Accounted'
  BY DEF Leaving, Closing, Accounted, TypeOK
<1> QED BY <1>1, <1>2

(* pool.done is closed after the last exit (worker_pool.go:64-68). *)
LEMMA CloseDoneStep == ASSUME IInv, CloseDone PROVE IInv'
BY TaskAssumption DEF CloseDone, IInv, TypeOK, Leaving, Closing, Accounted

(* Every step keeps the invariant, one action at a time. *)
LEMMA NextIInv == IInv /\ [Next]_vars => IInv'
<1> SUFFICES ASSUME IInv, [Next]_vars PROVE IInv'
  OBVIOUS
<1>1. CASE New
  BY <1>1, NewStep
<1>2. CASE \E t \in Task \ given : Do(t)
  BY <1>2, DoStep
<1>3. CASE Drop \/ Wait \/ Waited \/ CloseDone
  BY <1>3, DropStep, WaitStep, WaitedStep, CloseDoneStep
<1>4. CASE \E w \in Worker : WorkerSteps(w)
  BY <1>4, TakeStep, StopStep, FinishStep, ExitStep DEF WorkerSteps
<1>5. CASE UNCHANGED vars
  BY <1>5 DEF vars, IInv, TypeOK, Leaving, Closing, Accounted
<1> QED BY <1>1, <1>2, <1>3, <1>4, <1>5 DEF Next

(* The invariant holds throughout. *)
LEMMA Invariance == Spec => []IInv
BY InitIInv, NextIInv, PTL DEF Spec

(* The pool's state always has its type, and no task runs twice at a time. *)
THEOREM TypeCorrect == Spec => []TypeOK
BY Invariance, PTL DEF IInv

(* When Wait returns, stopped pool or not, no task is running: the owner   *)
(* waited for pool.done, which is closed after the last worker's exit.     *)
THEOREM WaitIsABarrier == Spec => []NothingRunsAfterWait
<1>1. IInv => NothingRunsAfterWait
  BY DEF IInv, Leaving, Closing, TypeOK, NothingRunsAfterWait
<1> QED BY <1>1, Invariance, PTL

(* A pool nobody stopped has run every task it was given when Wait         *)
(* returns.                                                                *)
THEOREM UnstoppedPoolRunsAll == Spec => []TasksAreLostOnlyToStop
<1>1. IInv => TasksAreLostOnlyToStop
  <2> SUFFICES ASSUME IInv, caller = "returned", ~stopped PROVE ended = given
    BY DEF TasksAreLostOnlyToStop
  <2>1. \A w \in Worker : working[w] = None
    BY DEF IInv, Leaving, Closing
  <2>2. offered = None
    BY DEF IInv, TypeOK
  <2> QED BY <2>1, <2>2, TaskAssumption DEF IInv, Accounted, TypeOK
<1> QED BY <1>1, Invariance, PTL

=============================================================================
