---------------------------- MODULE CacheManager ----------------------------
(***************************************************************************)
(* lib/cache/cache_manager.go: registryCacheManager, the map from the      *)
(* cache ID of a build step to the layer the step committed.  Layers live  *)
(* on the builder's disk and in a docker registry; the map lives in a      *)
(* key-value store.  Registry and store are shared by all builders.        *)
(*                                                                         *)
(* A builder is one makisu process with one manager: its main goroutine    *)
(* calls PullCache, PushCache and, at the end of the build, WaitForPush;   *)
(* PushCache leaves the upload to a goroutine of its own.  A process may   *)
(* die at any point, and the next one starts with what is on disk.         *)
(***************************************************************************)
EXTENDS Naturals

CONSTANTS
    Builder,      \* makisu processes, each with its storage directory
    CacheID,      \* cache IDs of build steps
    Layer,        \* committed layers, by digest pair
    Push,         \* push goroutines; bounds the PushCache calls of a process
    Empty,        \* _cacheEmptyEntry, the step committed no layer
    None,         \* no entry
    HasRegistry   \* whether a registry client was configured (--push)

ASSUME EntryAssumption == /\ Empty \notin Layer
                          /\ None \notin Layer \cup {Empty}
ASSUME RegistryAssumption == HasRegistry \in BOOLEAN

Entry == Layer \cup {Empty}

VARIABLES
    kv,         \* the shared key-value store
    registry,   \* the layers in the registry
    disk,       \* the layers in each builder's layer store
    mem,        \* memKVStore
    errors,     \* pushErrors is not empty
    mutex,      \* the manager's mutex: "free", or held by a "pull" or a "push"
    pc, id, entry,  \* the main goroutine of each builder
    waited,     \* what WaitForPush returned
    push        \* the push goroutines

vars == <<kv, registry, disk, mem, errors, mutex, pc, id, entry, waited, push>>
mainVars == <<pc, id, entry, waited>>

Idle == [stage |-> "unused", builder |-> None, id |-> None, entry |-> None]

Init ==
    /\ kv = [i \in CacheID |-> None]
    /\ registry = {}
    /\ disk = [b \in Builder |-> {}]
    /\ mem = [b \in Builder |-> [i \in CacheID |-> None]]
    /\ errors = [b \in Builder |-> FALSE]
    /\ mutex = [b \in Builder |-> "free"]
    /\ pc = [b \in Builder |-> "idle"]
    /\ id = [b \in Builder |-> None]
    /\ entry = [b \in Builder |-> None]
    /\ waited = [b \in Builder |-> "no"]
    /\ push = [k \in Push |-> Idle]

PushesOf(b) == {k \in Push : push[k].builder = b}

Stage(k, s) == push' = [push EXCEPT ![k].stage = s]

Blame(b) == errors' = [errors EXCEPT ![b] = TRUE]

-----------------------------------------------------------------------------
(* Mutants: the form a definition below would take with a plausible bug. *)

(* The goroutine begins with kvStore.Put. *)
FirstStageStoresAtOnce(e) == "lock"

(* wg.Add(1) is left to the goroutine and comes after the upload. *)
PendingAfterUpload(b) == {k \in PushesOf(b) : push[k].stage \in {"lock", "store"}}

(* An upload that fails ends the goroutine without pushErrors.Add. *)
UploadFailsSilently(k) ==
    /\ push[k].stage = "upload"
    /\ Stage(k, "failed")
    /\ UNCHANGED <<kv, registry, disk, mem, errors, mutex, mainVars>>

(* A failed Put returns without the deferred manager.Unlock(). *)
StoreFailsLocked(k) ==
    /\ push[k].stage = "store"
    /\ Stage(k, "failed")
    /\ Blame(push[k].builder)
    /\ UNCHANGED <<kv, registry, disk, mem, mutex, mainVars>>

(* The test entry == "" after kvStore.Get is dropped. *)
QueryFindsWhatever(b) ==
    /\ pc[b] = "query"
    /\ entry' = [entry EXCEPT ![b] = kv[id[b]]]
    /\ pc' = [pc EXCEPT ![b] = "found"]
    /\ UNCHANGED <<kv, registry, disk, mem, errors, mutex, id, waited, push>>

-----------------------------------------------------------------------------
(* The build around the manager. *)

(* A step commits a layer into the layer store. *)
CommitLayer(b, l) ==
    /\ pc[b] = "idle"
    /\ disk' = [disk EXCEPT ![b] = @ \cup {l}]
    /\ UNCHANGED <<kv, registry, mem, errors, mutex, mainVars, push>>

(* The layer store is an LRU map and may evict any layer. *)
EvictLayer(b, l) ==
    /\ l \in disk[b]
    /\ disk' = [disk EXCEPT ![b] = @ \ {l}]
    /\ UNCHANGED <<kv, registry, mem, errors, mutex, mainVars, push>>

(* The time-to-live of a mapping ends. *)
Expire(i) ==
    /\ kv[i] # None
    /\ kv' = [kv EXCEPT ![i] = None]
    /\ UNCHANGED <<registry, disk, mem, errors, mutex, mainVars, push>>

(* The process ends, or dies, and another takes over its directory. *)
Restart(b) ==
    /\ mem' = [mem EXCEPT ![b] = [i \in CacheID |-> None]]
    /\ errors' = [errors EXCEPT ![b] = FALSE]
    /\ mutex' = [mutex EXCEPT ![b] = "free"]
    /\ pc' = [pc EXCEPT ![b] = "idle"]
    /\ id' = [id EXCEPT ![b] = None]
    /\ entry' = [entry EXCEPT ![b] = None]
    /\ waited' = [waited EXCEPT ![b] = "no"]
    /\ push' = [k \in Push |-> IF push[k].builder = b THEN Idle ELSE push[k]]
    /\ UNCHANGED <<kv, registry, disk>>

-----------------------------------------------------------------------------
(* PullCache, under the mutex from beginning to end. *)

EndPull(b) ==
    /\ pc' = [pc EXCEPT ![b] = "idle"]
    /\ id' = [id EXCEPT ![b] = None]
    /\ entry' = [entry EXCEPT ![b] = None]
    /\ mutex' = [mutex EXCEPT ![b] = "free"]

PullCache(b, i) ==
    /\ pc[b] = "idle"
    /\ mutex[b] = "free"
    /\ mutex' = [mutex EXCEPT ![b] = "pull"]
    /\ id' = [id EXCEPT ![b] = i]
    /\ entry' = [entry EXCEPT ![b] = mem[b][i]]
    /\ pc' = [pc EXCEPT ![b] = IF mem[b][i] # None THEN "found" ELSE "query"]
    /\ UNCHANGED <<kv, registry, disk, mem, errors, waited, push>>

QueryFinds(b) ==
    /\ pc[b] = "query"
    /\ kv[id[b]] # None
    /\ entry' = [entry EXCEPT ![b] = kv[id[b]]]
    /\ pc' = [pc EXCEPT ![b] = "found"]
    /\ UNCHANGED <<kv, registry, disk, mem, errors, mutex, id, waited, push>>

(* No mapping: ErrorLayerNotFound. *)
QueryMisses(b) ==
    /\ pc[b] = "query"
    /\ kv[id[b]] = None
    /\ EndPull(b)
    /\ UNCHANGED <<kv, registry, disk, mem, errors, waited, push>>

(* The store cannot be asked.  Every store of lib/cache/keyvalue returns   *)
(* "" with its error, and entry == "" is tested before err is: this too is *)
(* ErrorLayerNotFound, and the branch that retries is not reached.         *)
QueryFails(b) ==
    /\ pc[b] = "query"
    /\ EndPull(b)
    /\ UNCHANGED <<kv, registry, disk, mem, errors, waited, push>>

(* The empty entry, or a layer that is on disk, is a hit; without a client *)
(* there is no other source.                                               *)
StatLayer(b) ==
    /\ pc[b] = "found"
    /\ IF entry[b] \in disk[b] \cup {Empty} \/ ~HasRegistry
       THEN EndPull(b)
       ELSE /\ pc' = [pc EXCEPT ![b] = "fetch"]
            /\ UNCHANGED <<id, entry, mutex>>
    /\ UNCHANGED <<kv, registry, disk, mem, errors, waited, push>>

PullLayer(b) ==
    /\ pc[b] = "fetch"
    /\ \/ /\ entry[b] \in registry
          /\ disk' = [disk EXCEPT ![b] = @ \cup {entry[b]}]
       \/ UNCHANGED disk
    /\ EndPull(b)
    /\ UNCHANGED <<kv, registry, mem, errors, waited, push>>

-----------------------------------------------------------------------------
(* PushCache and its goroutine. *)

(* What wg counts. *)
Pending(b) == {k \in PushesOf(b) : push[k].stage \in {"upload", "lock", "store"}}

FirstStage(e) == IF e = Empty THEN "lock" ELSE "upload"

PushCache(b, i, e) ==
    /\ pc[b] = "idle"
    /\ mutex[b] = "free"
    /\ e \in disk[b] \cup {Empty}     \* just committed, or no layer
    /\ mem' = [mem EXCEPT ![b][i] = e]
    /\ IF HasRegistry
       THEN /\ \E k \in Push :
                  /\ push[k].stage = "unused"
                  /\ push' = [push EXCEPT ![k] =
                        [stage |-> FirstStage(e), builder |-> b, id |-> i, entry |-> e]]
            /\ UNCHANGED errors
       ELSE /\ Blame(b)
            /\ UNCHANGED push
    /\ UNCHANGED <<kv, registry, disk, mutex, mainVars>>

(* PushLayer finds the layer in the registry, or reads it from disk. *)
Upload(k) ==
    /\ push[k].stage = "upload"
    /\ push[k].entry \in registry \cup disk[push[k].builder]
    /\ registry' = registry \cup {push[k].entry}
    /\ Stage(k, "lock")
    /\ UNCHANGED <<kv, disk, mem, errors, mutex, mainVars>>

UploadFails(k) ==
    /\ push[k].stage = "upload"
    /\ Stage(k, "failed")
    /\ Blame(push[k].builder)
    /\ UNCHANGED <<kv, registry, disk, mem, mutex, mainVars>>

(* The registry took the layer, but the answer was lost. *)
UploadAnswerLost(k) ==
    /\ push[k].stage = "upload"
    /\ push[k].entry \in disk[push[k].builder]
    /\ registry' = registry \cup {push[k].entry}
    /\ Stage(k, "failed")
    /\ Blame(push[k].builder)
    /\ UNCHANGED <<kv, disk, mem, mutex, mainVars>>

LockToStore(k) ==
    /\ push[k].stage = "lock"
    /\ mutex[push[k].builder] = "free"
    /\ mutex' = [mutex EXCEPT ![push[k].builder] = "push"]
    /\ Stage(k, "store")
    /\ UNCHANGED <<kv, registry, disk, mem, errors, mainVars>>

StoreMapping(k) ==
    /\ push[k].stage = "store"
    /\ kv' = [kv EXCEPT ![push[k].id] = push[k].entry]
    /\ Stage(k, "done")
    /\ mutex' = [mutex EXCEPT ![push[k].builder] = "free"]
    /\ UNCHANGED <<registry, disk, mem, errors, mainVars>>

(* Put returns an error, whether or not the store took the mapping. *)
StoreFails(k) ==
    /\ push[k].stage = "store"
    /\ kv' \in {kv, [kv EXCEPT ![push[k].id] = push[k].entry]}
    /\ Stage(k, "failed")
    /\ Blame(push[k].builder)
    /\ mutex' = [mutex EXCEPT ![push[k].builder] = "free"]
    /\ UNCHANGED <<registry, disk, mem, mainVars>>

-----------------------------------------------------------------------------
(* WaitForPush, the last call of a build. *)

WaitForPush(b) ==
    /\ pc[b] = "idle"
    /\ pc' = [pc EXCEPT ![b] = "waiting"]
    /\ UNCHANGED <<kv, registry, disk, mem, errors, mutex, id, entry, waited, push>>

EndWait(b, outcome) ==
    /\ pc[b] = "waiting"
    /\ pc' = [pc EXCEPT ![b] = "exit"]
    /\ waited' = [waited EXCEPT ![b] = outcome]
    /\ UNCHANGED <<kv, registry, disk, mem, errors, mutex, id, entry, push>>

Waited(b) == /\ Pending(b) = {}
             /\ EndWait(b, IF errors[b] THEN "errors" ELSE "clean")

(* Ten minutes have passed. *)
Timeout(b) == EndWait(b, "timeout")

-----------------------------------------------------------------------------
PullSteps(b) == \/ QueryFinds(b) \/ QueryMisses(b) \/ QueryFails(b)
                \/ StatLayer(b) \/ PullLayer(b)

PushSteps(k) == \/ Upload(k) \/ UploadFails(k) \/ UploadAnswerLost(k)
                \/ StoreMapping(k) \/ StoreFails(k)

Next ==
    \/ \E b \in Builder :
          \/ \E l \in Layer : CommitLayer(b, l) \/ EvictLayer(b, l)
          \/ \E i \in CacheID : PullCache(b, i)
          \/ \E i \in CacheID, e \in Entry : PushCache(b, i, e)
          \/ PullSteps(b)
          \/ WaitForPush(b) \/ Waited(b) \/ Timeout(b)
          \/ Restart(b)
    \/ \E k \in Push : PushSteps(k) \/ LockToStore(k)
    \/ \E i \in CacheID : Expire(i)

Spec == Init /\ [][Next]_vars

(* Requests end: the clients have timeouts.  sync.Mutex is not unfair to a *)
(* goroutine for ever.  A process that waits reaches its timer.            *)
Fairness ==
    /\ \A b \in Builder : WF_vars(PullSteps(b)) /\ WF_vars(Waited(b) \/ Timeout(b))
    /\ \A k \in Push : WF_vars(PushSteps(k)) /\ SF_vars(LockToStore(k))

FairSpec == Spec /\ Fairness

-----------------------------------------------------------------------------
(* Properties. *)

PushRecord == [stage : {"unused", "upload", "lock", "store", "done", "failed"},
               builder : Builder \cup {None},
               id : CacheID \cup {None},
               entry : Entry \cup {None}]

(* Every variable has its type; a look-up has a cache ID, and an entry     *)
(* once it claims to have found one; a push goroutine that was started     *)
(* knows its builder, cache ID and entry.                                  *)
TypeOK ==
    /\ kv \in [CacheID -> Entry \cup {None}]
    /\ registry \subseteq Layer
    /\ disk \in [Builder -> SUBSET Layer]
    /\ mem \in [Builder -> [CacheID -> Entry \cup {None}]]
    /\ errors \in [Builder -> BOOLEAN]
    /\ mutex \in [Builder -> {"free", "pull", "push"}]
    /\ pc \in [Builder -> {"idle", "query", "found", "fetch", "waiting", "exit"}]
    /\ id \in [Builder -> CacheID \cup {None}]
    /\ entry \in [Builder -> Entry \cup {None}]
    /\ waited \in [Builder -> {"no", "clean", "errors", "timeout"}]
    /\ push \in [Push -> PushRecord]
    /\ \A b \in Builder : pc[b] \in {"query", "found", "fetch"} => id[b] \in CacheID
    /\ \A b \in Builder : pc[b] \in {"found", "fetch"} => entry[b] \in Entry
    /\ \A k \in Push : push[k].stage # "unused" =>
            push[k].builder \in Builder /\ push[k].id \in CacheID /\ push[k].entry \in Entry

(* A mapping is stored only after its layer was pushed                     *)
(* (cache_manager.go:204-213): whoever reads a mapping, whenever, and      *)
(* however many builders died on the way, the registry has its layer.      *)
MappedLayersArePushed == \A i \in CacheID : kv[i] \in Layer => kv[i] \in registry

(* When WaitForPush returns no error, every mapping this build was asked   *)
(* to push has reached the key-value store.                                *)
CleanWaitMeansStored ==
    \A b \in Builder : waited[b] = "clean" =>
        \A i \in CacheID : mem[b][i] # None =>
            \E k \in PushesOf(b) : /\ push[k].id = i
                                   /\ push[k].entry = mem[b][i]
                                   /\ push[k].stage = "done"

(* Every push goroutine ends, whatever PullCache calls compete with it for *)
(* the mutex, unless its process dies first.                               *)
PushesEnd ==
    \A k \in Push : push[k].stage \in {"upload", "lock", "store"}
                        ~> push[k].stage \in {"done", "failed", "unused"}

=============================================================================
