----------------------------- MODULE WorkerPool -----------------------------
(***************************************************************************)
(* lib/concurrency/worker_pool.go: a fixed number of goroutines that run   *)
(* the functions one caller hands them.                                    *)
(*                                                                         *)
(* No channel has a buffer, so all there is to know of them is which are   *)
(* closed (stopped, closed, done) and which function the caller is sending *)
(* (offered).  A worker that could take a task and could also see the pool *)
(* stopped does either: Go's select chooses at random.                     *)
(***************************************************************************)
CONSTANTS
    Worker,   \* the pool's goroutines
    Task,     \* the functions handed to Do
    None      \* no task

ASSUME WorkerAssumption == Worker # {}
ASSUME TaskAssumption == None \notin Task

VARIABLES
    caller,   \* what the pool's owner is doing
    offered,  \* the task on its way through pool.tasks
    given,    \* the tasks handed to Do so far
    working,  \* the task each worker runs
    exited,   \* the workers that have returned
    stopped, closed, done,  \* pool.stop, pool.tasks, pool.done are closed
    ended     \* the tasks that ran to their end

vars == <<caller, offered, given, working, exited, stopped, closed, done, ended>>
channels == <<stopped, closed, done>>

Init ==
    /\ caller = "free"
    /\ offered = None
    /\ given = {}
    /\ working = [w \in Worker |-> None]
    /\ exited = {}
    /\ stopped = FALSE
    /\ closed = FALSE
    /\ done = FALSE
    /\ ended = {}

(* The state of a pool just made. *)
Reset ==
    /\ caller' = "free"
    /\ offered' = None
    /\ given' = {}
    /\ working' = [w \in Worker |-> None]
    /\ exited' = {}
    /\ stopped' = FALSE
    /\ closed' = FALSE
    /\ done' = FALSE
    /\ ended' = {}

-----------------------------------------------------------------------------
(* Mutants: the form a definition below would take with a plausible bug. *)

(* Wait returns once the tasks channel is closed: <-pool.done is missing. *)
WaitedAtOnce ==
    /\ caller = "waiting"
    /\ caller' = "returned"
    /\ UNCHANGED <<offered, given, working, exited, channels, ended>>

(* A worker that sees pool.stop leaves in the middle of its task. *)
ExitAtOnce(w) ==
    /\ w \notin exited
    /\ stopped \/ closed
    /\ exited' = exited \cup {w}
    /\ UNCHANGED <<caller, offered, given, working, channels, ended>>

(* Do does not watch pool.done. *)
DropNever == FALSE /\ UNCHANGED vars

(* The send is repeated although a worker has received the task. *)
TakeAndLeave(w) ==
    /\ working[w] = None
    /\ w \notin exited
    /\ offered # None
    /\ working' = [working EXCEPT ![w] = offered]
    /\ UNCHANGED <<caller, offered, given, exited, channels, ended>>

-----------------------------------------------------------------------------
(* The owner. *)

(* NewWorkerPool, once the owner is through with the pool before. *)
New == caller = "returned" /\ Reset

(* Do blocks while its goroutine sends the task. *)
Do(t) ==
    /\ caller = "free"
    /\ caller' = "offering"
    /\ offered' = t
    /\ given' = given \cup {t}
    /\ UNCHANGED <<working, exited, channels, ended>>

(* Every worker has returned: the task is dropped. *)
Drop ==
    /\ done
    /\ offered # None
    /\ offered' = None
    /\ caller' = "free"
    /\ UNCHANGED <<given, working, exited, channels, ended>>

Wait ==
    /\ caller = "free"
    /\ caller' = "waiting"
    /\ closed' = TRUE
    /\ UNCHANGED <<offered, given, working, exited, stopped, done, ended>>

Waited ==
    /\ caller = "waiting"
    /\ done
    /\ caller' = "returned"
    /\ UNCHANGED <<offered, given, working, exited, channels, ended>>

-----------------------------------------------------------------------------
(* A worker, and the goroutine that waits for all of them. *)

Idle(w) == working[w] = None /\ w \notin exited

Take(w) ==
    /\ Idle(w)
    /\ offered # None
    /\ working' = [working EXCEPT ![w] = offered]
    /\ offered' = None
    /\ caller' = "free"
    /\ UNCHANGED <<given, exited, channels, ended>>

(* The task's own call of Stop. *)
Stop(w) ==
    /\ working[w] # None
    /\ stopped' = TRUE
    /\ UNCHANGED <<caller, offered, given, working, exited, closed, done, ended>>

Finish(w) ==
    /\ working[w] # None
    /\ ended' = ended \cup {working[w]}
    /\ working' = [working EXCEPT ![w] = None]
    /\ UNCHANGED <<caller, offered, given, exited, channels>>

Exit(w) ==
    /\ Idle(w)
    /\ stopped \/ closed
    /\ exited' = exited \cup {w}
    /\ UNCHANGED <<caller, offered, given, working, channels, ended>>

CloseDone ==
    /\ exited = Worker
    /\ done' = TRUE
    /\ UNCHANGED <<caller, offered, given, working, exited, stopped, closed, ended>>

-----------------------------------------------------------------------------
WorkerSteps(w) == Take(w) \/ Stop(w) \/ Finish(w) \/ Exit(w)

Next ==
    \/ New
    \/ \E t \in Task \ given : Do(t)
    \/ Drop \/ Wait \/ Waited \/ CloseDone
    \/ \E w \in Worker : WorkerSteps(w)

Spec == Init /\ [][Next]_vars

(* The goroutines are scheduled and the tasks end. *)
Fairness ==
    /\ WF_vars(Drop) /\ WF_vars(Waited) /\ WF_vars(CloseDone)
    /\ \A w \in Worker : WF_vars(Take(w) \/ Finish(w) \/ Exit(w))

FairSpec == Spec /\ Fairness

-----------------------------------------------------------------------------
(* Properties. *)

(* Every variable has its type; the caller is inside Do exactly while a    *)
(* task is offered, and no task is run by two workers.                     *)
TypeOK ==
    /\ caller \in {"free", "offering", "waiting", "returned"}
    /\ offered \in Task \cup {None}
    /\ given \subseteq Task
    /\ working \in [Worker -> Task \cup {None}]
    /\ exited \subseteq Worker
    /\ stopped \in BOOLEAN /\ closed \in BOOLEAN /\ done \in BOOLEAN
    /\ ended \subseteq given
    /\ caller = "offering" <=> offered # None
    /\ \A v, w \in Worker : working[v] = working[w] /\ working[v] # None => v = w

(* "Wait waits for stop or all tasks are done" (worker_pool.go:95).  Even  *)
(* after a stop, when Wait returns no task is still running: what the      *)
(* tasks wrote, errors above all, can be read without a lock.              *)
NothingRunsAfterWait == caller = "returned" => \A w \in Worker : working[w] = None

(* Tasks are lost only to a stop (worker_pool.go:87-88): when Wait returns *)
(* from a pool nobody stopped, every task given to Do has been run.        *)
TasksAreLostOnlyToStop == caller = "returned" /\ ~stopped => ended = given

(* Do and Wait return, also when the last worker leaves a stopped pool     *)
(* while a task is on offer (worker_pool.go:78-81).                        *)
CallerReturns == caller \in {"offering", "waiting"} ~> caller \in {"free", "returned"}

=============================================================================
