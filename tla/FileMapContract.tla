-------------------------- MODULE FileMapContract --------------------------
(***************************************************************************)
(* What lib/storage/base/file_map.go promises the file operations built on *)
(* it: a set of stored names, each guarded by a read-write lock that a     *)
(* caller holds while its function runs.  "While f executes, it is         *)
(* guaranteed that k will not be deleted from the map."  Which names are   *)
(* evicted, and when, is left open: any name nobody holds may go.          *)
(***************************************************************************)
CONSTANTS Goroutine, Name, None

VARIABLES
    stored,     \* the names in the map
    holding,    \* the name whose lock each goroutine holds, or None
    exclusive   \* the goroutines that hold it alone

vars == <<stored, holding, exclusive>>

Init == stored = {} /\ holding = [p \in Goroutine |-> None] /\ exclusive = {}

Holders(n) == {p \in Goroutine : holding[p] = n}

(* TryStore runs f with the new name stored and locked. *)
Store(p, n) ==
    /\ holding[p] = None
    /\ n \notin stored
    /\ stored' = stored \cup {n}
    /\ holding' = [holding EXCEPT ![p] = n]
    /\ exclusive' = exclusive \cup {p}

(* LoadForPeek and LoadForRead begin: the name is stored, others may read. *)
Enter(p, n) ==
    /\ holding[p] = None
    /\ n \in stored
    /\ Holders(n) \cap exclusive = {}
    /\ holding' = [holding EXCEPT ![p] = n]
    /\ UNCHANGED <<stored, exclusive>>

(* LoadForWrite, Delete and an eviction begin: nobody else is there. *)
EnterAlone(p, n) ==
    /\ holding[p] = None
    /\ n \in stored
    /\ Holders(n) = {}
    /\ holding' = [holding EXCEPT ![p] = n]
    /\ exclusive' = exclusive \cup {p}
    /\ UNCHANGED stored

Release(p) == /\ holding' = [holding EXCEPT ![p] = None]
              /\ exclusive' = exclusive \ {p}

(* The operation ends, and the name stays. *)
Leave(p) ==
    /\ holding[p] # None
    /\ Release(p)
    /\ UNCHANGED stored

(* It ends with the name removed, which only a sole holder may do. *)
LeaveAndRemove(p) ==
    /\ holding[p] # None
    /\ p \in exclusive
    /\ Release(p)
    /\ stored' = stored \ {holding[p]}

Next ==
    \E p \in Goroutine :
        \/ \E n \in Name : Store(p, n) \/ Enter(p, n) \/ EnterAlone(p, n)
        \/ Leave(p)
        \/ LeaveAndRemove(p)

Spec == Init /\ [][Next]_vars

=============================================================================
