----------------------------- MODULE FileStore -----------------------------
(***************************************************************************)
(* lib/storage/base/file_op.go and file_entry.go over the file map: the    *)
(* files of LayerTarStore and ManifestStore in a download and a cache      *)
(* directory, with the access time beside each, and what pullLayerHelper,  *)
(* commitLayer and cleanup do with them.                                   *)
(*                                                                         *)
(* The map is what FileMapContract says of it, which FileMap is proved to  *)
(* implement.  What is added is the disk: it is changed by the function    *)
(* that runs under the lock of a name and, without that lock, by the       *)
(* access times that the map writes, and it is looked at without any lock  *)
(* before a file is reloaded.  An operation whose function only looks is   *)
(* one step; the steps of one that changes the disk are kept apart.        *)
(***************************************************************************)
EXTENDS Integers, FiniteSets

CONSTANTS
    Goroutine, Name, None,  \* as in FileMapContract
    RepeatedLayers          \* may an image list a layer twice, so that two tasks pull it?

ASSUME RepeatedAssumption == RepeatedLayers \in BOOLEAN
ASSUME NoneAssumption == None \notin Name

VARIABLES
    stored, holding, exclusive,     \* the map
    data,       \* per directory and name: whether the file is there, and complete
    lat,        \* per directory: the names with a _last_access_time file
    hand,       \* per goroutine: where the file it has open for writing is linked
    state,      \* localFileEntry.state of the entry stored under each name
    meta,       \* the names whose entry lists the access time in its metadata
    task,       \* per goroutine: what it does for makisu, and for which name
    call        \* per goroutine: its FileOp call

mapVars == <<stored, holding, exclusive>>
diskVars == <<data, lat, hand>>
entryVars == <<state, meta>>
vars == <<mapVars, diskVars, entryVars, task, call>>

FM == INSTANCE FileMapContract

Dir == {"download", "cache"}

(* The calls of the two stores, and the states each accepts. *)
FileOps == {"stat", "create", "write", "verify", "move", "link", "delete"}
Accept(o) == CASE o = "stat" -> Dir
               [] o \in {"create", "write", "verify", "move"} -> {"download"}
               [] OTHER -> {"cache"}
Target(o) == IF o = "create" THEN "download" ELSE "cache"

NoTask == [do |-> "nothing", name |-> None]
NoCall == [op |-> "stat", at |-> "none", then |-> "none", left |-> {}, dir |-> "cache",
           again |-> FALSE, out |-> "ok"]

Init ==
    /\ FM!Init
    /\ data = [d \in Dir |-> [n \in Name |-> "none"]]
    /\ lat = [d \in Dir |-> {}]
    /\ hand = [p \in Goroutine |-> "closed"]
    /\ state = [n \in Name |-> "none"]
    /\ meta = {}
    /\ task = [p \in Goroutine |-> NoTask]
    /\ call = [p \in Goroutine |-> NoCall]

-----------------------------------------------------------------------------
(* The disk. *)

File(p) == task[p].name
OnDisk(d, n) == data[d][n] # "none"
Put(d, n, content) == data' = [data EXCEPT ![d][n] = content]

(* An open file that is renamed or removed stays open. *)
Relink(d, n, to) ==
    hand' = [p \in Goroutine |-> IF hand[p] = d /\ File(p) = n THEN to ELSE hand[p]]

(* os.RemoveAll of the directory of a file. *)
RemoveDir(d, n) == /\ Put(d, n, "none")
                   /\ lat' = [lat EXCEPT ![d] = @ \ {n}]
                   /\ Relink(d, n, "unlinked")

-----------------------------------------------------------------------------
(* The calls: where they are, and what they return. *)

(* A step that reads and writes the goroutine's own variables only is taken *)
(* at once: no other goroutine can tell when it is.                         *)
LocalStep(p) == \/ call[p].at = "search" /\ call[p].left = {}
                \/ call[p].at = "none" /\ task[p].do # "nothing"
                                       /\ ~(call[p].op = "write" /\ call[p].out = "ok")
Settled == \A p \in Goroutine : ~LocalStep(p)

At(p, label) == call[p].at = label /\ (Settled \/ LocalStep(p))
GoOn(p, label) == call' = [call EXCEPT ![p].at = label]

(* From here on the loop over the directories is forgotten. *)
Found(p, label) == call' = [call EXCEPT ![p] = [NoCall EXCEPT !.op = call[p].op, !.at = label,
                                                !.again = call[p].again]]
Return(p, out) == call' = [call EXCEPT ![p] = [NoCall EXCEPT !.op = call[p].op, !.out = out]]
Begin(p, o) ==
    call' = [call EXCEPT ![p] =
                [NoCall EXCEPT !.op = o, !.left = Accept(o),
                    !.at = IF o \in {"create", "link"} THEN "precheck" ELSE "contains"]]

Creates(p) == call[p].op \in {"create", "link"} /\ ~call[p].again
Accepted(p) == state[File(p)] \in Accept(call[p].op)

Present(p) == File(p) \in stored
Unlocked(n) == FM!Holders(n) = {}

(* A goroutine that waits for an entry which is gone when it has the lock  *)
(* is told that there is none, whatever is stored by then.                 *)
Lost(p) == \E q \in Goroutine \ {p} : File(p) \in {File(q), holding[q]}
Finds(p) == Present(p) /\ Unlocked(File(p))
Misses(p) == ~Present(p) \/ Lost(p)

-----------------------------------------------------------------------------
(* Mutants: the form a definition below would take with a plausible bug. *)

(* The file is taken for found by the look before the lock. *)
KeepUnchecked(p) == TRUE

(* saveLayer moves without comparing the digest. *)
VerifyAnything(p) == OnDisk("download", File(p))

(* The access time is written to the directory of another state. *)
WriteLATAside(d, n) == lat' = [lat EXCEPT !["cache"] = @ \cup {n}] /\ meta' = meta \cup {n}

-----------------------------------------------------------------------------
(* reloadFileEntryHelper. *)

(* f has removed the files, or refused: the entry goes. *)
Forget(p) == /\ FM!LeaveAndRemove(p)
             /\ state' = [state EXCEPT ![holding[p]] = "none"]
             /\ meta' = meta \ {holding[p]}

(* createFileHelper looks into the map first. *)
Precheck(p) ==
    /\ At(p, "precheck")
    /\ \/ Finds(p) /\ Return(p, IF Accepted(p) THEN "exists" ELSE "state")
       \/ Misses(p) /\ GoOn(p, "contains")
    /\ UNCHANGED <<mapVars, diskVars, entryVars, task>>

(* Contains asks for no lock. *)
InMap(p) ==
    /\ At(p, "contains")
    /\ IF Present(p) THEN Found(p, IF Creates(p) THEN "store" ELSE "load") ELSE GoOn(p, "search")
    /\ UNCHANGED <<mapVars, diskVars, entryVars, task>>

(* The disk is searched in the order of a Go map, with no lock. *)
Search(p) ==
    /\ At(p, "search")
    /\ \E d \in call[p].left :
        call' = [call EXCEPT ![p].left = @ \ {d}, ![p].dir = d,
                             ![p].at = IF OnDisk(d, File(p)) THEN "found" ELSE @]
    /\ UNCHANGED <<mapVars, diskVars, entryVars, task>>

SearchEnds(p) ==
    /\ At(p, "search") /\ call[p].left = {}
    /\ IF Creates(p) THEN Found(p, "store") ELSE Return(p, "missing")
    /\ UNCHANGED <<mapVars, diskVars, entryVars, task>>

(* SetMetadata: the file goes to the entry's directory, made if need be. *)
WriteLAT(d, n) == lat' = [lat EXCEPT ![d] = @ \cup {n}] /\ meta' = meta \cup {n}

(* TryStore.  Where the name is taken, the access time is written through  *)
(* the entry that is not stored, and lands in the directory of that one.   *)
StoreEntry(p, d) ==
    \/ /\ FM!Store(p, File(p))
       /\ state' = [state EXCEPT ![File(p)] = d]
       /\ IF File(p) \in lat[d] THEN UNCHANGED <<lat, meta>>
          ELSE WriteLAT(d, File(p))
    \/ /\ Present(p)
       /\ lat' = [lat EXCEPT ![d] = @ \cup {File(p)}]
       /\ UNCHANGED <<mapVars, entryVars>>

AfterReload(p) == IF Creates(p) THEN "exists" ELSE "load"

StoreFound(p) ==
    /\ At(p, "found")
    /\ StoreEntry(p, call[p].dir)
    /\ call' = [call EXCEPT ![p].at = IF Present(p) THEN "evict" ELSE "reloading",
                            ![p].then = AfterReload(p)]
    /\ UNCHANGED <<data, hand, task>>

(* "Verify the file is still on disk." *)
KeepIfThere(p) == OnDisk(call[p].dir, File(p))
MetaFound(d, n) == n \in lat[d]

ReloadFile(p) ==
    /\ At(p, "reloading")
    /\ IF KeepIfThere(p)
       THEN /\ FM!Leave(p)
            /\ meta' = IF MetaFound(call[p].dir, File(p)) THEN meta \cup {File(p)} ELSE meta
            /\ GoOn(p, "evict")
            /\ UNCHANGED state
       ELSE /\ Forget(p)
            /\ call' = [call EXCEPT ![p].at = "evict", ![p].then = "search"]
    /\ UNCHANGED <<diskVars, task>>

-----------------------------------------------------------------------------
(* createFileHelper: Create and MoveFrom, an empty file or a complete one. *)

Store(p) ==
    /\ At(p, "store")
    /\ StoreEntry(p, Target(call[p].op))
    /\ call' = [call EXCEPT ![p].dir = Target(call[p].op), ![p].again = Present(p),
                            ![p].left = Accept(call[p].op),
                            ![p].at = IF Present(p) THEN "evict" ELSE "creating",
                            ![p].then = "contains"]
    /\ UNCHANGED <<data, hand, task>>

CreateFile(p) ==
    /\ At(p, "creating")
    /\ \/ /\ ~OnDisk(call[p].dir, File(p))
          /\ Put(call[p].dir, File(p), IF call[p].op = "link" THEN "whole" ELSE "part")
          /\ FM!Leave(p)
          /\ call' = [call EXCEPT ![p].at = "evict", ![p].then = "ok"]
          /\ UNCHANGED entryVars
       \/ \E out \in IF OnDisk(call[p].dir, File(p)) THEN {"exists"}
                     ELSE {"error"} :                       \* no space, no source
          /\ Forget(p)
          /\ call' = [call EXCEPT ![p].at = "evict", ![p].then = out]
          /\ UNCHANGED data
    /\ UNCHANGED <<lat, hand, task>>

-----------------------------------------------------------------------------
(* The deferred syncRemoveOldestIfNeeded; which name is the oldest one, and *)
(* whether there are too many, is the map's affair.                         *)

Resume(p) ==
    CASE call[p].then \in {"contains", "search"} ->
            call' = [call EXCEPT ![p].at = call[p].then, ![p].then = "none", ![p].dir = "cache"]
      [] call[p].then = "load" -> Found(p, "load")
      [] OTHER -> Return(p, call[p].then)

EvictNothing(p) ==
    /\ At(p, "evict")
    /\ Resume(p)
    /\ UNCHANGED <<mapVars, diskVars, entryVars, task>>

EvictOldest(p) ==
    /\ At(p, "evict")
    /\ \E n \in Name : FM!EnterAlone(p, n)
    /\ GoOn(p, "evicting")
    /\ UNCHANGED <<diskVars, entryVars, task>>

EvictFile(p) ==
    /\ At(p, "evicting")
    /\ RemoveDir(state[holding[p]], holding[p])
    /\ GoOn(p, "evicted")
    /\ UNCHANGED <<mapVars, entryVars, task>>

EvictEnds(p) ==
    /\ At(p, "evicted")
    /\ Forget(p)
    /\ Resume(p)
    /\ UNCHANGED <<diskVars, task>>

-----------------------------------------------------------------------------
(* lockHelper, MoveFile and deleteHelper. *)

Verified(p) == data["download"][File(p)] = "whole"

(* A Delete that finds nothing is no error. *)
NotLoaded(p) ==
    /\ At(p, "load")
    /\ Misses(p)
    /\ Return(p, IF call[p].op = "delete" THEN "ok" ELSE "missing")
    /\ UNCHANGED <<mapVars, diskVars, entryVars, task>>

(* Functions that look at the file or open it.  saveLayer's comparison of  *)
(* the digest is taken with the opening.                                   *)
UseFile(p) ==
    /\ At(p, "load") /\ call[p].op \notin {"move", "delete"}
    /\ Finds(p)
    /\ LET there == OnDisk(state[File(p)], File(p))
           out == CASE ~Accepted(p) -> "state"
                    [] call[p].again -> "exists"
                    [] ~there -> "missing"
                    [] call[p].op = "verify" /\ ~Verified(p) -> "error"
                    [] OTHER -> "ok"
       IN  /\ Return(p, out)
           /\ hand' = [hand EXCEPT ![p] = IF call[p].op = "write" /\ out = "ok"
                                          THEN "download" ELSE @]
    /\ UNCHANGED <<mapVars, data, lat, entryVars, task>>

LockFile(p) ==
    /\ At(p, "load") /\ call[p].op \in {"move", "delete"}
    /\ FM!EnterAlone(p, File(p))
    /\ GoOn(p, IF Accepted(p) THEN call[p].op ELSE "refused")
    /\ UNCHANGED <<diskVars, entryVars, task>>

Refused(p) ==
    /\ At(p, "refused")
    /\ FM!Leave(p)
    /\ Return(p, IF call[p].op = "move" THEN "exists" ELSE "state")
    /\ UNCHANGED <<diskVars, entryVars, task>>

(* Move, one file after the other: the access time is copied, ... *)
MoveLAT(p) ==
    /\ At(p, "move")
    /\ IF OnDisk("download", File(p)) /\ (File(p) \in meta => File(p) \in lat["download"])
       THEN /\ lat' = [lat EXCEPT !["cache"] = IF File(p) \in meta THEN @ \cup {File(p)} ELSE @]
            /\ GoOn(p, "rename")
            /\ UNCHANGED mapVars
       ELSE /\ FM!Leave(p)
            /\ Return(p, "missing")
            /\ UNCHANGED lat
    /\ UNCHANGED <<data, hand, entryVars, task>>

(* ... the file is renamed, whatever is there, ... *)
Rename(p) ==
    /\ At(p, "rename")
    /\ data' = [data EXCEPT !["cache"][File(p)] = data["download"][File(p)],
                            !["download"][File(p)] = "none"]
    /\ state' = [state EXCEPT ![File(p)] = "cache"]
    /\ Relink("download", File(p), "cache")
    /\ GoOn(p, "clean")
    /\ UNCHANGED <<mapVars, lat, meta, task>>

(* ... and the old directory goes. *)
CleanSource(p) ==
    /\ At(p, "clean")
    /\ RemoveDir("download", File(p))
    /\ FM!Leave(p)
    /\ Return(p, "ok")
    /\ UNCHANGED <<entryVars, task>>

DeleteFile(p) ==
    /\ At(p, "delete")
    /\ RemoveDir(state[File(p)], File(p))
    /\ GoOn(p, "deleted")
    /\ UNCHANGED <<mapVars, entryVars, task>>

DeleteEnds(p) ==
    /\ At(p, "deleted")
    /\ Forget(p)
    /\ Return(p, "ok")
    /\ UNCHANGED <<diskVars, task>>

(* syncGetAndTouch, every five minutes, in the look before a creation and  *)
(* in every later one: under the mutex of the map, but without the lock of *)
(* the entry when it has replaced the one waited for.                      *)
Touch(p) ==
    /\ At(p, "precheck") \/ At(p, "load")
    /\ Present(p)
    /\ Unlocked(File(p)) \/ Lost(p)
    /\ WriteLAT(state[File(p)], File(p))
    /\ UNCHANGED <<mapVars, data, hand, state, task, call>>

CallSteps(p) ==
    \/ Precheck(p) \/ InMap(p) \/ Search(p) \/ SearchEnds(p) \/ StoreFound(p) \/ ReloadFile(p)
    \/ Store(p) \/ CreateFile(p)
    \/ EvictNothing(p) \/ EvictOldest(p) \/ EvictFile(p) \/ EvictEnds(p)
    \/ NotLoaded(p) \/ UseFile(p) \/ LockFile(p) \/ Refused(p)
    \/ MoveLAT(p) \/ Rename(p) \/ CleanSource(p) \/ DeleteFile(p) \/ DeleteEnds(p)
    \/ Touch(p)

-----------------------------------------------------------------------------
(* What makisu does with the files. *)

Doing(p, what) == At(p, "none") /\ task[p].do = what
Did(p, o) == call[p].op = o
Calm == UNCHANGED <<mapVars, diskVars, entryVars>>

StartTask(p, n) ==
    /\ Doing(p, "nothing")
    /\ \E what \in {"pull", "link", "delete"} :
        /\ \A q \in Goroutine : "delete" \in {what, task[q].do} => task[q].do = "nothing"
        /\ what = "pull" => RepeatedLayers \/
               \A q \in Goroutine : task[q].name = n => task[q].do # "pull"
        /\ task' = [task EXCEPT ![p] = [do |-> what, name |-> n]]
        /\ Begin(p, IF what = "pull" THEN "stat" ELSE what)
    /\ Calm

EndTask(p) ==
    /\ At(p, "none") /\ task[p].do # "nothing"
    /\ task[p].do = "pull" => call[p].out # "ok" \/ Did(p, "stat") \/ Did(p, "write") \/ Did(p, "move")
    /\ task' = [task EXCEPT ![p] = NoTask]
    /\ call' = [call EXCEPT ![p] = NoCall]
    /\ hand' = [hand EXCEPT ![p] = "closed"]
    /\ UNCHANGED <<mapVars, data, lat, entryVars>>

(* pullLayerHelper creates, opens, verifies and moves the file ... *)
PullGoesOn(p) ==
    /\ Doing(p, "pull")
    /\ \/ Did(p, "stat") /\ call[p].out # "ok" /\ Begin(p, "create")
       \/ Did(p, "create") /\ call[p].out = "ok" /\ Begin(p, "write")
       \/ Did(p, "verify") /\ call[p].out = "ok" /\ Begin(p, "move")
    /\ UNCHANGED task /\ Calm

(* ... and copies a body that may be cut off or wrong. *)
CopyBody(p) ==
    /\ Doing(p, "pull") /\ Did(p, "write") /\ call[p].out = "ok"
    /\ IF hand[p] \in Dir
       THEN \E content \in {data[hand[p]][File(p)], "whole"} : Put(hand[p], File(p), content)
       ELSE UNCHANGED data
    /\ hand' = [hand EXCEPT ![p] = "closed"]
    /\ Begin(p, "verify")
    /\ UNCHANGED <<mapVars, lat, entryVars, task>>

(* NewLayerTarStore: downloads are dropped, the files of the cache loaded  *)
(* one by one, and those beyond the capacity evicted.                      *)
DownloadsLeft == [n \in Name |-> "none"]

Restart ==
    LET found == {n \in Name : OnDisk("cache", n)}
    IN  Settled /\ \E kept \in SUBSET found :
        /\ stored' = kept
        /\ data' = [download |-> DownloadsLeft,
                    cache |-> [n \in Name |-> IF n \in kept THEN data["cache"][n] ELSE "none"]]
        /\ lat' = [download |-> {}, cache |-> (lat["cache"] \ found) \cup kept]
        /\ state' = [n \in Name |-> IF n \in kept THEN "cache" ELSE "none"]
        /\ meta' = kept
        /\ holding' = [p \in Goroutine |-> None] /\ exclusive' = {}
        /\ task' = [p \in Goroutine |-> NoTask]
        /\ call' = [p \in Goroutine |-> NoCall]
        /\ hand' = [p \in Goroutine |-> "closed"]

Next == \/ \E p \in Goroutine : \/ \E n \in Name : StartTask(p, n)
                                \/ EndTask(p) \/ PullGoesOn(p) \/ CopyBody(p)
                                \/ CallSteps(p)
        \/ Restart

Spec == Init /\ [][Next]_vars

-----------------------------------------------------------------------------
(* Properties. *)

(* Every variable has its type; an entry has a state while it is stored. *)
TypeOK ==
    /\ stored \subseteq Name /\ exclusive \subseteq Goroutine
    /\ holding \in [Goroutine -> Name \cup {None}]
    /\ data \in [Dir -> [Name -> {"none", "part", "whole"}]]
    /\ lat \in [Dir -> SUBSET Name]
    /\ hand \in [Goroutine -> Dir \cup {"unlinked", "closed"}]
    /\ state \in [Name -> Dir \cup {"none"}]
    /\ \A n \in Name : n \in stored <=> state[n] # "none"
    /\ meta \subseteq stored
    /\ \A p \in Goroutine : /\ task[p].do \in {"nothing", "pull", "link", "delete"}
                            /\ call[p].op \in FileOps
                            /\ call[p].left \subseteq Dir /\ call[p].dir \in Dir

(* The map knows every file on disk, so that its capacity bounds the disk  *)
(* ("Reload all existing data", layer_tar_store.go:61), and what it knows  *)
(* is on disk, in the directory of its state, unless a function is at work *)
(* on it.                                                                  *)
MapMatchesDisk ==
    \A n \in Name :
        /\ \A d \in Dir : OnDisk(d, n) =>
                /\ n \in stored
                /\ Unlocked(n) => state[n] = d
        /\ n \in stored /\ Unlocked(n) => OnDisk(state[n], n)

(* "A file can only be in one state at any given time."                    *)
(* (file_entry.go:36), also while it is moved, and after a crash.          *)
OneState == \A n \in Name : ~(OnDisk("download", n) /\ OnDisk("cache", n))

(* "Verify that the layers downloaded were correct." (client.go:617): what *)
(* is in the store is the content that was verified, although the file is  *)
(* verified by handle and moved by name.                                   *)
CachedFilesAreComplete == \A n \in Name : data["cache"][n] # "part"

(* What holds of map and disk together in every state, also between the    *)
(* system calls of an operation and after a crash (MapMatchesDisk and      *)
(* OneState above).                                                        *)
StoreInvariant == TypeOK /\ MapMatchesDisk /\ OneState

(* The access time that a download remembers is on disk: Move reads it, and *)
(* fails with os.ErrNotExist for a verified layer if it is not there       *)
(* (file_entry.go:294-305), although failed creations, evictions and       *)
(* access times written without the lock come in between.                  *)
MoveFindsAccessTime ==
    \A n \in Name : Unlocked(n) /\ state[n] = "download" /\ n \in meta
                        => n \in lat["download"]

Contract == INSTANCE LayerStoreContract WITH
    where <- [n \in Name |-> IF OnDisk("cache", n) THEN "cache"
                             ELSE IF OnDisk("download", n) THEN "download" ELSE "absent"],
    complete <- {n \in Name : \E d \in Dir : data[d][n] = "whole"}

(* The two directories implement a store of complete files. *)
ImplementsContract == Contract!Spec

=============================================================================
