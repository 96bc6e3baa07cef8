------------------------- MODULE CacheManagerProofs -------------------------
(***************************************************************************)
(* Proofs about CacheManager, for any builders, cache IDs, layers and push *)
(* goroutines, with and without a registry.                                *)
(***************************************************************************)
EXTENDS CacheManager, TLAPS

(* The inductive invariant.  A goroutine that is past its upload left its  *)
(* layer in the registry; one that failed left an error behind; what was   *)
(* handed to PushCache is with some goroutine, or is an error; and a wait  *)
(* that ended without errors ended after the last goroutine.               *)

Uploaded ==
    \A k \in Push : push[k].stage \in {"lock", "store"} /\ push[k].entry \in Layer
                        => push[k].entry \in registry

Blamed == \A k \in Push : push[k].stage = "failed" => errors[push[k].builder]

Tracked ==
    \A b \in Builder, i \in CacheID : mem[b][i] # None /\ ~errors[b] =>
        \E k \in Push : /\ push[k].stage # "unused"
                        /\ push[k].builder = b
                        /\ push[k].id = i
                        /\ push[k].entry = mem[b][i]

Settled ==
    \A b \in Builder :
        /\ waited[b] # "no" => pc[b] = "exit"
        /\ waited[b] = "clean" => ~errors[b] /\ Pending(b) = {}

IInv == /\ TypeOK
        /\ MappedLayersArePushed
        /\ Uploaded
        /\ Blamed
        /\ Tracked
        /\ Settled

(* A process that has done nothing yet satisfies it. *)
LEMMA InitIInv == Init => IInv
<1> SUFFICES ASSUME Init PROVE IInv
  OBVIOUS
<1>1. TypeOK
  BY DEF Init, TypeOK, PushRecord, Idle
<1>2. MappedLayersArePushed /\ Uploaded /\ Blamed /\ Tracked
  BY EntryAssumption DEF Init, Idle, MappedLayersArePushed, Uploaded, Blamed, Tracked
<1>3. Settled
  BY DEF Init, Settled
<1> QED BY <1>1, <1>2, <1>3 DEF IInv

(* Steps of the main goroutine that leave mappings, layers and pushes alone. *)
LEMMA MainStep ==
    ASSUME IInv, TypeOK', registry \subseteq registry',
           UNCHANGED <<mem, errors, push>>,
           \A i \in CacheID : kv'[i] # None => kv'[i] = kv[i],
           \A b \in Builder : \/ UNCHANGED <<pc[b], waited[b]>>
                              \/ pc[b] # "exit" /\ waited'[b] = waited[b]
                              \/ /\ pc'[b] = "exit"
                                 /\ waited'[b] = "clean" => ~errors[b] /\ Pending(b) = {}
    PROVE  IInv'
<1> USE EntryAssumption DEF IInv
<1>1. MappedLayersArePushed'
  BY DEF MappedLayersArePushed, TypeOK, Entry
<1>2. Uploaded' /\ Blamed' /\ Tracked'
  BY DEF Uploaded, Blamed, Tracked
<1>3. Settled'
  BY DEF Settled, Pending, PushesOf
<1> QED BY <1>1, <1>2, <1>3

(* A new process forgets what the old one waited for; the stores and the   *)
(* registry stay.                                                          *)
LEMMA RestartStep ==
    ASSUME IInv, NEW b \in Builder, Restart(b)
    PROVE  IInv'
<1> USE EntryAssumption DEF IInv, Restart
<1>1. TypeOK'
  BY DEF TypeOK, PushRecord, Idle
<1>2. MappedLayersArePushed'
  BY DEF MappedLayersArePushed
<1>3. Uploaded' /\ Blamed'
  BY DEF Uploaded, Blamed, Idle, TypeOK
<1>4. Tracked'
  <2> SUFFICES ASSUME NEW c \in Builder, NEW j \in CacheID,
                      mem'[c][j] # None, ~errors'[c]
               PROVE  \E m \in Push : /\ push'[m].stage # "unused"
                                      /\ push'[m].builder = c
                                      /\ push'[m].id = j
                                      /\ push'[m].entry = mem'[c][j]
    BY DEF Tracked
  <2>1. c # b /\ mem'[c] = mem[c] /\ errors'[c] = errors[c]
    BY DEF TypeOK
  <2>2. PICK m \in Push : /\ push[m].stage # "unused"
                          /\ push[m].builder = c
                          /\ push[m].id = j
                          /\ push[m].entry = mem[c][j]
    BY <2>1 DEF Tracked
  <2>3. push'[m] = push[m]
    BY <2>1, <2>2
  <2> QED BY <2>1, <2>2, <2>3
<1>5. Settled'
  BY DEF Settled, Pending, PushesOf, Idle, TypeOK
<1> QED BY <1>1, <1>2, <1>3, <1>4, <1>5

(* PushCache starts a goroutine for a mapping (cache_manager.go:173-215). *)
LEMMA PushCacheStep ==
    ASSUME IInv, NEW b \in Builder, NEW i \in CacheID, NEW e \in Entry,
           PushCache(b, i, e)
    PROVE  IInv'
<1> USE EntryAssumption, RegistryAssumption DEF IInv, PushCache, mainVars, Blame
<1>1. CASE HasRegistry
  <2>1. PICK k \in Push :
           /\ push[k].stage = "unused"
           /\ push' = [push EXCEPT ![k] = [stage |-> FirstStage(e), builder |-> b,
                                           id |-> i, entry |-> e]]
    BY <1>1
  <2>2. /\ mem' = [mem EXCEPT ![b][i] = e]
        /\ UNCHANGED <<kv, registry, disk, errors, mutex, pc, id, entry, waited>>
    BY <1>1
  <2>3. TypeOK'
    BY <2>1, <2>2 DEF TypeOK, PushRecord, FirstStage, Entry
  <2>4. MappedLayersArePushed'
    BY <2>2 DEF MappedLayersArePushed
  <2>5. Uploaded' /\ Blamed'
    BY <2>1, <2>2 DEF Uploaded, Blamed, FirstStage, TypeOK
  <2>6. Tracked'
    <3> SUFFICES ASSUME NEW c \in Builder, NEW j \in CacheID,
                        mem'[c][j] # None, ~errors[c]
                 PROVE  \E m \in Push : /\ push'[m].stage # "unused"
                                        /\ push'[m].builder = c
                                        /\ push'[m].id = j
                                        /\ push'[m].entry = mem'[c][j]
      BY <2>2 DEF Tracked
    <3>1. CASE c = b /\ j = i
      BY <2>1, <2>2, <3>1 DEF TypeOK, FirstStage
    <3>2. CASE ~(c = b /\ j = i)
      <4>1. mem'[c][j] = mem[c][j]
        BY <2>2, <3>2 DEF TypeOK
      <4>2. PICK m \in Push : /\ push[m].stage # "unused"
                              /\ push[m].builder = c
                              /\ push[m].id = j
                              /\ push[m].entry = mem[c][j]
        BY <4>1 DEF Tracked
      <4>3. push'[m] = push[m]
        BY <2>1, <4>2 DEF TypeOK
      <4> QED BY <4>1, <4>2, <4>3
    <3> QED BY <3>1, <3>2
  <2>7. Settled'
    BY <2>1, <2>2 DEF Settled, Pending, PushesOf, TypeOK
  <2> QED BY <2>3, <2>4, <2>5, <2>6, <2>7
<1>2. CASE ~HasRegistry
  <2>1. /\ mem' = [mem EXCEPT ![b][i] = e]
        /\ errors' = [errors EXCEPT ![b] = TRUE]
        /\ UNCHANGED <<kv, registry, disk, mutex, push, pc, id, entry, waited>>
    BY <1>2
  <2>2. TypeOK'
    BY <2>1 DEF TypeOK
  <2>3. MappedLayersArePushed' /\ Uploaded'
    BY <2>1 DEF MappedLayersArePushed, Uploaded
  <2>4. Blamed'
    BY <2>1 DEF Blamed, TypeOK
  <2>5. Tracked'
    BY <2>1 DEF Tracked, TypeOK
  <2>6. Settled'
    BY <2>1 DEF Settled, Pending, PushesOf, TypeOK
  <2> QED BY <2>2, <2>3, <2>4, <2>5, <2>6
<1> QED BY <1>1, <1>2

Stages == {"upload", "lock", "store", "done", "failed"}

(* A push goroutine that goes on to another stage keeps the types. *)
LEMMA StageKeepsType ==
    ASSUME TypeOK, NEW k \in Push, push[k].stage # "unused",
           NEW s \in Stages, Stage(k, s)
    PROVE  /\ push' \in [Push -> PushRecord]
           /\ \A m \in Push : push'[m].stage # "unused" =>
                 /\ push'[m].builder \in Builder
                 /\ push'[m].id \in CacheID
                 /\ push'[m].entry \in Entry
<1> DEFINE r == [push[k] EXCEPT !.stage = s]
<1>1. push[k] \in PushRecord /\ push' = [push EXCEPT ![k] = r]
  BY DEF TypeOK, Stage
<1>2. r \in PushRecord /\ r.builder = push[k].builder /\ r.id = push[k].id
      /\ r.entry = push[k].entry
  BY <1>1 DEF PushRecord, Stages
<1>3. \A m \in Push : push'[m] = IF m = k THEN r ELSE push[m]
  BY <1>1 DEF TypeOK
<1> HIDE DEF r
<1>4. push' \in [Push -> PushRecord]
  BY <1>1, <1>2 DEF TypeOK
<1> QED BY <1>2, <1>3, <1>4 DEF TypeOK

(* A push goroutine goes on to stage s; only the last stages are failures. *)
LEMMA PushStep ==
    ASSUME IInv, TypeOK', NEW k \in Push, NEW s,
           push[k].stage \in {"upload", "lock", "store"},
           Stage(k, s), s # "unused",
           s \in {"lock", "store"} /\ push[k].entry \in Layer => push[k].entry \in registry',
           s = "failed" => errors'[push[k].builder],
           \A b \in Builder : errors'[b] # errors[b] => errors'[b] /\ b = push[k].builder,
           registry \subseteq registry',
           \A i \in CacheID : kv'[i] \in Layer => kv'[i] \in registry',
           UNCHANGED <<mem, pc, waited>>
    PROVE  IInv'
<1> USE DEF IInv, Stage
<1>0. /\ push[k].builder \in Builder
      /\ push' = [push EXCEPT ![k].stage = s]
      /\ \A m \in Push : /\ push'[m].builder = push[m].builder
                         /\ push'[m].id = push[m].id
                         /\ push'[m].entry = push[m].entry
                         /\ push'[m].stage = IF m = k THEN s ELSE push[m].stage
  BY DEF TypeOK, PushRecord
<1>1. MappedLayersArePushed'
  BY DEF MappedLayersArePushed
<1>2. Uploaded'
  BY <1>0 DEF Uploaded
<1>3. \A b \in Builder : errors[b] => errors'[b]
  BY DEF TypeOK
<1>4. Blamed'
  <2> SUFFICES ASSUME NEW m \in Push, push'[m].stage = "failed"
               PROVE  errors'[push'[m].builder]
    BY DEF Blamed
  <2>1. CASE m = k
    BY <1>0, <2>1
  <2>2. CASE m # k
    <3>1. push[m].stage = "failed" /\ push[m].builder \in Builder
      BY <1>0, <2>2 DEF TypeOK
    <3> QED BY <1>0, <1>3, <3>1 DEF Blamed
  <2> QED BY <2>1, <2>2
<1>5. Tracked'
  <2> SUFFICES ASSUME NEW c \in Builder, NEW j \in CacheID,
                      mem[c][j] # None, ~errors'[c]
               PROVE  \E m \in Push : /\ push'[m].stage # "unused"
                                      /\ push'[m].builder = c
                                      /\ push'[m].id = j
                                      /\ push'[m].entry = mem[c][j]
    BY DEF Tracked
  <2>1. PICK m \in Push : /\ push[m].stage # "unused"
                          /\ push[m].builder = c
                          /\ push[m].id = j
                          /\ push[m].entry = mem[c][j]
    BY <1>3 DEF Tracked
  <2> QED BY <1>0, <2>1
<1>6. Settled'
  <2> SUFFICES ASSUME NEW c \in Builder
               PROVE  /\ waited[c] # "no" => pc[c] = "exit"
                      /\ waited[c] = "clean" => ~errors'[c] /\ Pending(c)' = {}
    BY DEF Settled
  <2>1. CASE waited[c] = "clean"
    <3>1. ~errors[c] /\ Pending(c) = {}
      BY <2>1 DEF Settled
    <3>2. c # push[k].builder
      BY <3>1 DEF Pending, PushesOf
    <3>3. ~errors'[c]
      BY <3>1, <3>2
    <3>4. Pending(c)' = {}
      BY <1>0, <3>1, <3>2 DEF Pending, PushesOf
    <3> QED BY <2>1, <3>3, <3>4 DEF Settled
  <2>2. CASE waited[c] # "clean"
    BY <2>2 DEF Settled
  <2> QED BY <2>1, <2>2
<1> QED BY <1>1, <1>2, <1>4, <1>5, <1>6

(* Every step keeps the invariant. *)
LEMMA NextIInv == IInv /\ [Next]_vars => IInv'
<1> SUFFICES ASSUME IInv, [Next]_vars PROVE IInv'
  OBVIOUS
<1> USE EntryAssumption DEF IInv, mainVars
<1>1. CASE UNCHANGED vars
  <2>1. TypeOK'
    BY <1>1 DEF vars, TypeOK
  <2> QED BY <1>1, <2>1, MainStep DEF vars
<1>2. ASSUME NEW b \in Builder, NEW l \in Layer,
             CommitLayer(b, l) \/ EvictLayer(b, l)
      PROVE  IInv'
  <2>1. TypeOK'
    <3>1. PICK S \in SUBSET Layer : disk' = [disk EXCEPT ![b] = S]
      BY <1>2 DEF CommitLayer, EvictLayer, TypeOK
    <3>2. UNCHANGED <<kv, registry, mem, errors, mutex, mainVars, push>>
      BY <1>2 DEF CommitLayer, EvictLayer
    <3> QED BY <3>1, <3>2 DEF TypeOK
  <2> QED BY <1>2, <2>1, MainStep DEF CommitLayer, EvictLayer
<1>3. ASSUME NEW b \in Builder, NEW i \in CacheID, PullCache(b, i)
      PROVE  IInv'
  <2>1. mem[b][i] \in Entry \cup {None}
    BY <1>3 DEF TypeOK
  <2>2. TypeOK'
    <3>1. CASE mem[b][i] # None
      BY <1>3, <2>1, <3>1 DEF PullCache, TypeOK
    <3>2. CASE mem[b][i] = None
      BY <1>3, <3>2 DEF PullCache, TypeOK
    <3> QED BY <3>1, <3>2
  <2> QED BY <1>3, <2>2, MainStep DEF PullCache, TypeOK
<1>4. ASSUME NEW b \in Builder, PullSteps(b)
      PROVE  IInv'
  <2>1. TypeOK'
    <3>1. CASE QueryFinds(b)
      <4>1. id[b] \in CacheID
        BY <3>1 DEF QueryFinds, TypeOK
      <4>2. kv[id[b]] \in Entry
        BY <3>1, <4>1 DEF QueryFinds, TypeOK
      <4>3. /\ entry' = [entry EXCEPT ![b] = kv[id[b]]]
            /\ pc' = [pc EXCEPT ![b] = "found"]
            /\ UNCHANGED <<kv, registry, disk, mem, errors, mutex, id, waited, push>>
        BY <3>1 DEF QueryFinds
      <4>4. /\ entry' \in [Builder -> Entry \cup {None}]
            /\ pc' \in [Builder -> {"idle", "query", "found", "fetch", "waiting", "exit"}]
        BY <4>2, <4>3 DEF TypeOK
      <4>5. \A c \in Builder \ {b} : pc'[c] = pc[c] /\ entry'[c] = entry[c]
        BY <4>3 DEF TypeOK
      <4>6. entry'[b] \in Entry /\ id'[b] \in CacheID
        BY <4>1, <4>2, <4>3 DEF TypeOK
      <4> QED BY <4>3, <4>4, <4>5, <4>6 DEF TypeOK
    <3>2. CASE QueryMisses(b) \/ QueryFails(b)
      <4>1. /\ EndPull(b)
            /\ UNCHANGED <<kv, registry, disk, mem, errors, waited, push>>
        BY <3>2 DEF QueryMisses, QueryFails
      <4> QED BY <4>1 DEF EndPull, TypeOK
    <3>3. CASE StatLayer(b)
      <4>1. CASE EndPull(b)
        BY <3>3, <4>1 DEF StatLayer, EndPull, TypeOK
      <4>2. CASE pc' = [pc EXCEPT ![b] = "fetch"] /\ UNCHANGED <<id, entry, mutex>>
        BY <3>3, <4>2 DEF StatLayer, TypeOK
      <4> QED BY <3>3, <4>1, <4>2 DEF StatLayer
    <3>4. CASE PullLayer(b)
      <4>1. disk' \in [Builder -> SUBSET Layer]
        BY <3>4 DEF PullLayer, TypeOK
      <4> QED BY <3>4, <4>1 DEF PullLayer, EndPull, TypeOK
    <3> QED BY <1>4, <3>1, <3>2, <3>3, <3>4 DEF PullSteps
  <2> QED BY <1>4, <2>1, MainStep
          DEF PullSteps, QueryFinds, QueryMisses, QueryFails, StatLayer, PullLayer,
              EndPull, TypeOK
<1>5. ASSUME NEW b \in Builder, WaitForPush(b) \/ Waited(b) \/ Timeout(b)
      PROVE  IInv'
  <2>1. TypeOK'
    <3>1. CASE WaitForPush(b)
      BY <3>1 DEF WaitForPush, TypeOK
    <3>2. ASSUME NEW s \in {"clean", "errors", "timeout"}, EndWait(b, s)
          PROVE  TypeOK'
      BY <3>2 DEF EndWait, TypeOK
    <3>3. CASE Waited(b) \/ Timeout(b)
      BY <3>2, <3>3 DEF Waited, Timeout
    <3> QED BY <1>5, <3>1, <3>3
  <2> QED BY <1>5, <2>1, MainStep DEF WaitForPush, Waited, Timeout, EndWait, TypeOK
<1>6. ASSUME NEW i \in CacheID, Expire(i)
      PROVE  IInv'
  <2>1. TypeOK'
    BY <1>6 DEF Expire, TypeOK
  <2> QED BY <1>6, <2>1, MainStep DEF Expire, TypeOK
<1>7. ASSUME NEW k \in Push, Upload(k) \/ UploadFails(k) \/ UploadAnswerLost(k)
      PROVE  IInv'
  <2>1. push[k].stage = "upload" /\ push[k].builder \in Builder /\ push[k].entry \in Entry
    BY <1>7 DEF Upload, UploadFails, UploadAnswerLost, TypeOK
  <2>2. CASE Upload(k)
    <3>1. push[k].entry \in Layer
      BY <2>1, <2>2 DEF Upload, TypeOK
    <3>2. TypeOK'
      <4>1. Stage(k, "lock") /\ "lock" \in Stages
        BY <2>2 DEF Upload, Stages
      <4> QED BY <2>1, <2>2, <3>1, <4>1, StageKeepsType DEF Upload, TypeOK
    <3>3. /\ Stage(k, "lock")
          /\ registry' = registry \cup {push[k].entry}
          /\ UNCHANGED <<kv, mem, errors, pc, waited>>
      BY <2>2 DEF Upload
    <3>4. \A i \in CacheID : kv'[i] \in Layer => kv'[i] \in registry'
      BY <3>3 DEF MappedLayersArePushed
    <3>5. \A b \in Builder : errors'[b] # errors[b] => errors'[b] /\ b = push[k].builder
      BY <3>3
    <3> QED BY <2>1, <3>2, <3>3, <3>4, <3>5, PushStep
  <2>3. CASE UploadFails(k) \/ UploadAnswerLost(k)
    <3>1. /\ Stage(k, "failed") /\ "failed" \in Stages
          /\ errors' = [errors EXCEPT ![push[k].builder] = TRUE]
          /\ registry \subseteq registry' /\ registry' \subseteq Layer
          /\ UNCHANGED <<kv, disk, mem, mutex, pc, id, entry, waited>>
      BY <2>1, <2>3 DEF UploadFails, UploadAnswerLost, Blame, Stages, TypeOK
    <3>2. TypeOK'
      BY <2>1, <3>1, StageKeepsType DEF TypeOK
    <3>3. /\ errors'[push[k].builder]
          /\ \A b \in Builder : errors'[b] # errors[b] => errors'[b] /\ b = push[k].builder
      BY <2>1, <3>1 DEF TypeOK
    <3>4. \A i \in CacheID : kv'[i] \in Layer => kv'[i] \in registry'
      BY <3>1 DEF MappedLayersArePushed
    <3>5. /\ push[k].stage \in {"upload", "lock", "store"} /\ Stage(k, "failed")
          /\ UNCHANGED <<mem, pc, waited>>
          /\ registry \subseteq registry'
      BY <2>1, <3>1
    <3> QED BY <3>2, <3>3, <3>4, <3>5, PushStep
  <2> QED BY <1>7, <2>2, <2>3
<1>8. ASSUME NEW k \in Push, LockToStore(k)
      PROVE  IInv'
  <2>1. TypeOK'
    <3>1. push[k].stage # "unused" /\ push[k].builder \in Builder
      BY <1>8 DEF LockToStore, TypeOK
    <3>2. Stage(k, "store") /\ "store" \in Stages
      BY <1>8 DEF LockToStore, Stages
    <3>3. mutex' \in [Builder -> {"free", "pull", "push"}]
      BY <1>8, <3>1 DEF LockToStore, TypeOK
    <3> QED BY <1>8, <3>1, <3>2, <3>3, StageKeepsType DEF LockToStore, TypeOK
  <2> QED BY <1>8, <2>1, PushStep
          DEF LockToStore, TypeOK, Uploaded, MappedLayersArePushed
<1>9. ASSUME NEW k \in Push, StoreMapping(k) \/ StoreFails(k)
      PROVE  IInv'
  <2>1. /\ push[k].stage = "store" /\ push[k].id \in CacheID
        /\ push[k].entry \in Entry /\ push[k].builder \in Builder
    BY <1>9 DEF StoreMapping, StoreFails, TypeOK
  <2>2. /\ kv' \in {kv, [kv EXCEPT ![push[k].id] = push[k].entry]}
        /\ mutex' = [mutex EXCEPT ![push[k].builder] = "free"]
        /\ UNCHANGED <<registry, disk, mem, pc, id, entry, waited>>
    BY <1>9 DEF StoreMapping, StoreFails
  <2>3. kv' \in [CacheID -> Entry \cup {None}]
    BY <2>1, <2>2 DEF TypeOK
  <2>4. \A i \in CacheID : kv'[i] \in Layer => kv'[i] \in registry
    BY <2>1, <2>2 DEF Uploaded, MappedLayersArePushed, TypeOK
  <2>5. CASE StoreMapping(k)
    <3>1. Stage(k, "done") /\ "done" \in Stages /\ UNCHANGED errors
      BY <2>5 DEF StoreMapping, Stages
    <3>2. TypeOK'
      BY <2>1, <2>2, <2>3, <3>1, StageKeepsType DEF TypeOK
    <3>3. UNCHANGED <<mem, pc, waited, registry, errors>>
      BY <2>2, <3>1
    <3>4. \A b \in Builder : errors'[b] # errors[b] => errors'[b] /\ b = push[k].builder
      BY <3>3
    <3> QED BY <2>1, <2>4, <3>1, <3>2, <3>3, <3>4, PushStep
  <2>6. CASE StoreFails(k)
    <3>1. /\ Stage(k, "failed") /\ "failed" \in Stages
          /\ errors' = [errors EXCEPT ![push[k].builder] = TRUE]
      BY <2>6 DEF StoreFails, Stages, Blame
    <3>2. TypeOK'
      BY <2>1, <2>2, <2>3, <3>1, StageKeepsType DEF TypeOK
    <3>3. /\ errors'[push[k].builder]
          /\ \A b \in Builder : errors'[b] # errors[b] => errors'[b] /\ b = push[k].builder
      BY <2>1, <3>1 DEF TypeOK
    <3>4. /\ push[k].stage \in {"upload", "lock", "store"} /\ Stage(k, "failed")
          /\ UNCHANGED <<mem, pc, waited, registry>>
      BY <2>1, <2>2, <3>1
    <3> QED BY <2>4, <3>2, <3>3, <3>4, PushStep
  <2> QED BY <1>9, <2>5, <2>6
<1> QED BY <1>1, <1>2, <1>3, <1>4, <1>5, <1>6, <1>7, <1>8, <1>9,
           RestartStep, PushCacheStep DEF Next, PushSteps

(* The invariant holds throughout. *)
LEMMA Invariance == Spec => []IInv
<1> QED BY InitIInv, NextIInv, PTL DEF Spec

-----------------------------------------------------------------------------
(* Type correctness. *)
THEOREM TypeCorrect == Spec => []TypeOK
<1>1. IInv => TypeOK
  BY DEF IInv
<1> QED BY <1>1, Invariance, PTL

(* No mapping in the key-value store names a layer the registry lacks,     *)
(* through crashes, failed requests and lost answers of any builders.      *)
THEOREM MappingsAreSound == Spec => []MappedLayersArePushed
<1>1. IInv => MappedLayersArePushed
  BY DEF IInv
<1> QED BY <1>1, Invariance, PTL

(* WaitForPush returns no error only if every mapping was stored.          *)
THEOREM CleanWaitIsComplete == Spec => []CleanWaitMeansStored
<1>1. IInv => CleanWaitMeansStored
  <2> SUFFICES ASSUME IInv, NEW b \in Builder, waited[b] = "clean",
                      NEW i \in CacheID, mem[b][i] # None
               PROVE  \E k \in PushesOf(b) : /\ push[k].id = i
                                              /\ push[k].entry = mem[b][i]
                                              /\ push[k].stage = "done"
    BY DEF CleanWaitMeansStored
  <2>1. ~errors[b] /\ Pending(b) = {}
    BY DEF IInv, Settled
  <2>2. PICK k \in Push : /\ push[k].stage # "unused"
                          /\ push[k].builder = b
                          /\ push[k].id = i
                          /\ push[k].entry = mem[b][i]
    BY <2>1 DEF IInv, Tracked
  <2>3. push[k].stage \notin {"upload", "lock", "store", "failed"}
    BY <2>1, <2>2 DEF IInv, Blamed, Pending, PushesOf
  <2>4. push[k].stage = "done"
    BY <2>2, <2>3 DEF IInv, TypeOK, PushRecord
  <2> QED BY <2>2, <2>4 DEF PushesOf
<1> QED BY <1>1, Invariance, PTL

=============================================================================
