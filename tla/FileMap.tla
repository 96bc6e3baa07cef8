------------------------------ MODULE FileMap ------------------------------
(***************************************************************************)
(* lib/storage/base/file_map.go: lruFileMap, the concurrent map behind     *)
(* every on-disk store of makisu.                                          *)
(*                                                                         *)
(* Goroutines call the map's operations.  An operation that runs the       *)
(* caller's function f looks the entry up under the map's mutex, gives the *)
(* mutex back, takes the read-write lock of the entry, looks the name up   *)
(* again and only then runs f; the mutex and the lock of an entry are      *)
(* never awaited in the opposite order.  A critical section of the mutex   *)
(* is one action: elements and queue are read and written nowhere else.    *)
(***************************************************************************)
EXTENDS Integers, Sequences, SequencesExt

CONSTANTS
    Goroutine,  \* the callers
    Name,       \* file names, the keys
    Entry,      \* the addresses of fileEntryWithAccessTime objects
    Size,       \* the capacity; 0 disables eviction
    None        \* no object

ASSUME SizeAssumption == Size \in Nat
ASSUME NoneAssumption == None \notin Goroutine \cup Name \cup Entry

VARIABLES
    elements,   \* the entry stored under each name
    queue,      \* the LRU list, most recent first; the list element of an
                \* entry is represented by the name it is stored under
    writer,     \* the goroutine holding the write lock of each entry
    readers,    \* the goroutines holding the read lock of each entry
    pc, op, name, ent,  \* per goroutine: control, operation, its locals
    result      \* per goroutine: what its last operation returned

vars == <<elements, queue, writer, readers, pc, op, name, ent, result>>
mapVars == <<elements, queue>>
lockVars == <<writer, readers>>
callVars == <<op, name, ent>>

Loads == {"Peek", "Read", "Write"}
Ops == Loads \cup {"Store", "Delete", "Evict", "None"}
Control == {"idle", "insert", "acquire", "recheck", "callback", "remove",
            "unlock", "evict"}

(* RLock is enough for an operation that leaves entry and map alone. *)
Shared(o) == o \in {"Peek", "Read"}

Init ==
    /\ elements = [n \in Name |-> None]
    /\ queue = <<>>
    /\ writer = [e \in Entry |-> None]
    /\ readers = [e \in Entry |-> {}]
    /\ pc = [p \in Goroutine |-> "idle"]
    /\ op = [p \in Goroutine |-> "None"]
    /\ name = [p \in Goroutine |-> None]
    /\ ent = [p \in Goroutine |-> None]
    /\ result = [p \in Goroutine |-> FALSE]

-----------------------------------------------------------------------------
(* The list and the map, under the mutex. *)

Present(n) == elements[n] # None

(* get: a hit makes the name the most recent one, whoever asks. *)
Get(n) == queue' = IF Present(n) THEN <<n>> \o RemoveFirst(queue, n) ELSE queue

(* The memory of an entry is reused once nothing refers to it. *)
Free(e) == /\ \A n \in Name : elements[n] # e
           /\ \A p \in Goroutine : ent[p] # e

Goto(p, label) == pc' = [pc EXCEPT ![p] = label]

Return(p, ok) == /\ result' = [result EXCEPT ![p] = ok]
                 /\ Goto(p, "idle")
                 /\ op' = [op EXCEPT ![p] = "None"]
                 /\ name' = [name EXCEPT ![p] = None]
                 /\ ent' = [ent EXCEPT ![p] = None]

-----------------------------------------------------------------------------
(* Mutants: the form a definition below would take with a plausible bug. *)

(* The check "ne != e" is dropped: another entry under the name will do. *)
StillStoredByName(p) == Present(name[p])

(* A writer does not wait for the readers. *)
AcquireDespiteReaders(p) ==
    /\ pc[p] = "acquire"
    /\ writer[ent[p]] = None
    /\ IF Shared(op[p])
       THEN /\ readers' = [readers EXCEPT ![ent[p]] = @ \cup {p}]
            /\ UNCHANGED writer
       ELSE /\ writer' = [writer EXCEPT ![ent[p]] = p]
            /\ UNCHANGED readers
    /\ Goto(p, "recheck")
    /\ UNCHANGED <<mapVars, callVars, result>>

(* delete(fm.elements, name) without fm.queue.Remove(e). *)
SyncRemoveFromMapOnly(p) ==
    /\ pc[p] = "remove"
    /\ elements' = [elements EXCEPT ![name[p]] = None]
    /\ Goto(p, "unlock")
    /\ UNCHANGED <<queue, lockVars, callVars, result>>

(* A load returns early without its RUnlock. *)
UnlockOnlyWriter(p) ==
    /\ pc[p] = "unlock"
    /\ writer' = [e \in Entry |-> IF writer[e] = p THEN None ELSE writer[e]]
    /\ IF op[p] = "Store"
       THEN /\ Goto(p, "evict")
            /\ ent' = [ent EXCEPT ![p] = None]
            /\ UNCHANGED <<op, name, result>>
       ELSE Return(p, result[p])
    /\ UNCHANGED <<mapVars, readers>>

-----------------------------------------------------------------------------
(* TryStore: the new entry is locked before anybody else can see it. *)
TryStore(p, n) ==
    /\ pc[p] = "idle"
    /\ \E e \in Entry :
          /\ Free(e)
          /\ ent' = [ent EXCEPT ![p] = e]
          /\ writer' = [writer EXCEPT ![e] = p]
    /\ op' = [op EXCEPT ![p] = "Store"]
    /\ name' = [name EXCEPT ![p] = n]
    /\ Goto(p, "insert")
    /\ UNCHANGED <<mapVars, readers, result>>

(* TryStore's critical section: add, or refresh the entry that is there. *)
Insert(p) ==
    /\ pc[p] = "insert"
    /\ IF Present(name[p])
       THEN /\ Get(name[p])
            /\ Goto(p, "unlock")
            /\ result' = [result EXCEPT ![p] = FALSE]
            /\ UNCHANGED elements
       ELSE /\ elements' = [elements EXCEPT ![name[p]] = ent[p]]
            /\ queue' = <<name[p]>> \o queue
            /\ Goto(p, "callback")
            /\ UNCHANGED result
    /\ UNCHANGED <<lockVars, callVars>>

(* LoadForPeek, LoadForRead, LoadForWrite and Delete begin with syncGet. *)
Lookup(p, o, n) ==
    /\ pc[p] = "idle"
    /\ Get(n)
    /\ IF Present(n)
       THEN /\ op' = [op EXCEPT ![p] = o]
            /\ name' = [name EXCEPT ![p] = n]
            /\ ent' = [ent EXCEPT ![p] = elements[n]]
            /\ Goto(p, "acquire")
            /\ UNCHANGED result
       ELSE Return(p, FALSE)
    /\ UNCHANGED <<elements, lockVars>>

(* e.Lock() and e.RLock(). *)
Acquire(p) ==
    /\ pc[p] = "acquire"
    /\ writer[ent[p]] = None
    /\ IF Shared(op[p])
       THEN /\ readers' = [readers EXCEPT ![ent[p]] = @ \cup {p}]
            /\ UNCHANGED writer
       ELSE /\ readers[ent[p]] = {}
            /\ writer' = [writer EXCEPT ![ent[p]] = p]
            /\ UNCHANGED readers
    /\ Goto(p, "recheck")
    /\ UNCHANGED <<mapVars, callVars, result>>

(* "Make sure k was not deleted or overwritten." *)
StillStored(p) == elements[name[p]] = ent[p]

Recheck(p) ==
    /\ pc[p] = "recheck"
    /\ Get(name[p])
    /\ IF StillStored(p)
       THEN Goto(p, "callback") /\ UNCHANGED result
       ELSE Goto(p, "unlock") /\ result' = [result EXCEPT ![p] = FALSE]
    /\ UNCHANGED <<elements, lockVars, callVars>>

(* f returns.  A load keeps the entry, a store keeps it when f succeeded,  *)
(* a deletion removes it when f agreed; eviction ignores the error of      *)
(* e.fe.Delete().                                                          *)
Callback(p, ok) ==
    /\ pc[p] = "callback"
    /\ op[p] \in Loads \cup {"Evict"} => ok
    /\ LET removes == \/ op[p] = "Store" /\ ~ok
                      \/ op[p] \in {"Delete", "Evict"} /\ ok
       IN  Goto(p, IF removes THEN "remove" ELSE "unlock")
    /\ result' = IF op[p] = "Evict" THEN result ELSE [result EXCEPT ![p] = ok]
    /\ UNCHANGED <<mapVars, lockVars, callVars>>

(* syncRemove, while the lock of the entry is still held. *)
SyncRemove(p) ==
    /\ pc[p] = "remove"
    /\ elements' = [elements EXCEPT ![name[p]] = None]
    /\ queue' = RemoveFirst(queue, name[p])
    /\ Goto(p, "unlock")
    /\ UNCHANGED <<lockVars, callVars, result>>

(* The deferred unlock; TryStore's other deferred call is the eviction. *)
Unlock(p) ==
    /\ pc[p] = "unlock"
    /\ IF Shared(op[p])
       THEN /\ readers' = [readers EXCEPT ![ent[p]] = @ \ {p}]
            /\ UNCHANGED writer
       ELSE /\ writer' = [writer EXCEPT ![ent[p]] = None]
            /\ UNCHANGED readers
    /\ IF op[p] = "Store"
       THEN /\ Goto(p, "evict")
            /\ ent' = [ent EXCEPT ![p] = None]
            /\ UNCHANGED <<op, name, result>>
       ELSE Return(p, result[p])
    /\ UNCHANGED mapVars

OverCapacity == Size > 0 /\ Len(queue) > Size
Oldest == Last(queue)

(* The first critical section of syncRemoveOldestIfNeeded. *)
PickOldest(p) ==
    /\ pc[p] = "evict"
    /\ IF OverCapacity
       THEN /\ op' = [op EXCEPT ![p] = "Evict"]
            /\ name' = [name EXCEPT ![p] = Oldest]
            /\ ent' = [ent EXCEPT ![p] = elements[Oldest]]
            /\ Goto(p, "acquire")
            /\ UNCHANGED result
       ELSE Return(p, result[p])
    /\ UNCHANGED <<mapVars, lockVars>>

-----------------------------------------------------------------------------
(* What a goroutine does of its own accord once it is inside an operation. *)
Continue(p) ==
    \/ Insert(p)
    \/ Acquire(p)
    \/ Recheck(p)
    \/ \E ok \in BOOLEAN : Callback(p, ok)
    \/ SyncRemove(p)
    \/ Unlock(p)
    \/ PickOldest(p)

Call(p) ==
    \E n \in Name : \/ TryStore(p, n)
                    \/ \E o \in Loads \cup {"Delete"} : Lookup(p, o, n)

Next == \E p \in Goroutine : Call(p) \/ Continue(p)

Spec == Init /\ [][Next]_vars

(* Goroutines inside an operation are scheduled and f returns; sync.RWMutex  *)
(* does not starve a waiter, although the lock may be taken by others first. *)
Fairness == \A p \in Goroutine : /\ WF_vars(Continue(p))
                                 /\ SF_vars(Acquire(p))

FairSpec == Spec /\ Fairness

-----------------------------------------------------------------------------
(* Properties. *)

(* Every variable has its type, and a write lock excludes readers.         *)
TypeOK ==
    /\ elements \in [Name -> Entry \cup {None}]
    /\ queue \in Seq(Name)
    /\ writer \in [Entry -> Goroutine \cup {None}]
    /\ readers \in [Entry -> SUBSET Goroutine]
    /\ pc \in [Goroutine -> Control]
    /\ op \in [Goroutine -> Ops]
    /\ name \in [Goroutine -> Name \cup {None}]
    /\ ent \in [Goroutine -> Entry \cup {None}]
    /\ result \in [Goroutine -> BOOLEAN]
    /\ \A e \in Entry : writer[e] = None \/ readers[e] = {}

(* f is running, or has agreed to a removal that is not made yet. *)
Held(p) == pc[p] \in {"callback", "remove"}

(* "While f executes, it is guaranteed that k will not be deleted from the *)
(* map" (file_map.go:268), nor replaced by another entry: the look-up made *)
(* under the entry lock stays right until the operation is over.           *)
HeldStaysStored == \A p \in Goroutine : Held(p) => StillStored(p)

(* The lock belongs to an entry, the promise is about the name: no two     *)
(* functions run for the same name unless both only read, although the     *)
(* name's entry may have been replaced while a goroutine waited.           *)
ExclusiveByName ==
    \A p, q \in Goroutine :
        p # q /\ Held(p) /\ Held(q) /\ name[p] = name[q]
            => Shared(op[p]) /\ Shared(op[q])

(* The list and the map never disagree on what is stored, and no entry is  *)
(* stored under two names, so capacity and eviction are about the entries  *)
(* the map holds.                                                          *)
QueueMatchesMap ==
    /\ \A n \in Name : Present(n) <=> \E i \in 1..Len(queue) : queue[i] = n
    /\ \A i, j \in 1..Len(queue) : queue[i] = queue[j] => i = j
    /\ \A m, n \in Name : Present(m) /\ elements[m] = elements[n] => m = n

Quiescent == \A p \in Goroutine : pc[p] = "idle"

(* "After store, make sure size limit wasn't exceeded" (file_map.go:216):  *)
(* when no operation is under way the map is within its capacity.          *)
WithinCapacity == Quiescent /\ Size > 0 => Len(queue) <= Size

(* Every operation returns: no deadlock between entry locks, whoever else  *)
(* stores, deletes and evicts meanwhile.                                   *)
OperationsReturn == \A p \in Goroutine : pc[p] # "idle" ~> pc[p] = "idle"

Stored == {n \in Name : Present(n)}
Holding == [p \in Goroutine |-> IF Held(p) THEN name[p] ELSE None]
Exclusive == {p \in Goroutine : Held(p) /\ ~Shared(op[p])}

Contract == INSTANCE FileMapContract WITH
                stored <- Stored, holding <- Holding, exclusive <- Exclusive

(* The two-step locking implements the contract: a set of names, each with *)
(* a lock of its own.                                                      *)
ImplementsContract == Contract!Spec

=============================================================================
