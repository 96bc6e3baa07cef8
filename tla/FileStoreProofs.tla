-------------------------- MODULE FileStoreProofs --------------------------
(***************************************************************************)
(* Proofs about FileStore, for any goroutines and names.                   *)
(***************************************************************************)
EXTENDS FileStore, TLAPS

-----------------------------------------------------------------------------
(* The inductive invariant. *)

(* Where a call is: it holds the lock of its own file, that of a file it   *)
(* evicts, or none.                                                        *)
OwnLabels   == {"reloading", "creating", "refused", "move", "rename", "clean", "delete", "deleted"}
EvictLabels == {"evicting", "evicted"}
FreeLabels  == {"none", "precheck", "contains", "search", "found", "store", "evict", "load"}
Labels      == OwnLabels \cup EvictLabels \cup FreeLabels

(* What EvictNothing and EvictEnds go on with. *)
Outs == {"ok", "exists", "state", "missing", "error"}
Thens == {"contains", "search", "load", "none"} \cup Outs

Content == {"none", "part", "whole"}

CallType == [op : FileOps, at : Labels, then : Thens, left : SUBSET Dir, dir : Dir,
             again : BOOLEAN, out : Outs]
TaskType == [do : {"nothing", "pull", "link", "delete"}, name : Name \cup {None}]

Types ==
    /\ stored \subseteq Name /\ exclusive \subseteq Goroutine
    /\ holding \in [Goroutine -> Name \cup {None}]
    /\ data \in [Dir -> [Name -> Content]]
    /\ lat \in [Dir -> SUBSET Name]
    /\ hand \in [Goroutine -> Dir \cup {"unlinked", "closed"}]
    /\ state \in [Name -> Dir \cup {"none"}]
    /\ \A n \in Name : n \in stored <=> state[n] # "none"
    /\ meta \subseteq stored
    /\ task \in [Goroutine -> TaskType]
    /\ call \in [Goroutine -> CallType]

OpsOf(what) == CASE what = "nothing" -> {"stat"}
                 [] what = "pull" -> {"stat", "create", "write", "verify", "move"}
                 [] OTHER -> {what}

(* A call is one of its task; only a download is open for writing, between *)
(* two calls; and an entry that is made has the state of its directory.    *)
Calling(p) ==
    /\ task[p].do = "nothing" => call[p].at = "none"
    /\ task[p].do # "nothing" => File(p) \in Name
    /\ call[p].op \in OpsOf(task[p].do)
    /\ hand[p] # "closed" => call[p].op = "write" /\ call[p].at = "none" /\ task[p].do = "pull"
    /\ call[p].at \in {"store", "creating"} => call[p].op \in {"create", "link"}
    /\ call[p].at = "creating" => call[p].dir = Target(call[p].op)
    /\ call[p].at \in {"move", "rename", "clean"} => call[p].op = "move"
    /\ call[p].at \in {"reloading", "evict", "evicting", "evicted"} => call[p].then # "none"

(* The lock a call has, and the state of the file while it has it. *)
Locking(p) ==
    /\ call[p].at \in OwnLabels => holding[p] = File(p)
    /\ call[p].at \in FreeLabels => holding[p] = None
    /\ call[p].at \notin FreeLabels => holding[p] \in stored /\ p \in exclusive
    /\ call[p].at \in {"move", "rename"} => state[File(p)] = "download"
    /\ call[p].at \in {"clean", "delete", "deleted"} => state[File(p)] = "cache"
    /\ call[p].at \in {"reloading", "creating"} => state[File(p)] = call[p].dir

Alone == \A p, q \in Goroutine : p # q /\ holding[p] = holding[q] => holding[p] = None

HolderAt(n, labels) == \E p \in Goroutine : holding[p] = n /\ call[p].at \in labels

(* A file is where the state of its entry says, except while a function    *)
(* under its lock has not made it yet, or has removed it.                  *)
Gone == {"reloading", "creating", "evicted", "deleted"}
Placed(n) == \A d \in Dir : OnDisk(d, n) <=> d = state[n] /\ ~HolderAt(n, Gone)

(* A file that is open and has a name is there. *)
Linked(p) == hand[p] \in Dir => OnDisk(hand[p], File(p))

(* The access time a download remembers is there until it is evicted. *)
Remembered(n) ==
    state[n] = "download" /\ n \in meta => n \in lat["download"] \/ HolderAt(n, {"evicted"})

Inv == /\ Types
       /\ \A p \in Goroutine : Calling(p) /\ Locking(p) /\ Linked(p)
       /\ Alone
       /\ \A n \in Name : Placed(n) /\ Remembered(n)

(* When no two tasks pull a layer, what one of them has verified stays     *)
(* verified: it can only be taken away.                                    *)
OnePull == \A p, q \in Goroutine :
    p # q /\ task[p].do = "pull" /\ task[q].do = "pull" => File(p) # File(q)

Verifying(p) ==
    \/ call[p].op = "verify" /\ call[p].at = "none" /\ call[p].out = "ok"
    \/ call[p].op = "move"
Checked(p) == Verifying(p) => data["download"][File(p)] # "part"

(* Only the creation of a file ends well after an eviction. *)
Ending(p) == call[p].then = "ok" => call[p].op \in {"create", "link"}

PullInv == /\ OnePull
           /\ \A p \in Goroutine : Checked(p) /\ Ending(p)
           /\ CachedFilesAreComplete

-----------------------------------------------------------------------------
(* What the assignments to call leave of it. *)

SameCalls(p) == \A q \in Goroutine \ {p} : call'[q] = call[q]

LEMMA CallFacts ==
    ASSUME Types, NEW p \in Goroutine, NEW c \in CallType, call' = [call EXCEPT ![p] = c]
    PROVE  call' \in [Goroutine -> CallType] /\ call'[p] = c /\ SameCalls(p)
BY DEF Types, SameCalls

LEMMA CallFields ==
    ASSUME NEW c \in CallType
    PROVE  /\ c.op \in FileOps /\ c.at \in Labels /\ c.then \in Thens /\ c.left \subseteq Dir
           /\ c.dir \in Dir /\ c.again \in BOOLEAN /\ c.out \in Outs
BY DEF CallType

LEMMA GoOnFacts ==
    ASSUME Types, NEW p \in Goroutine, NEW label \in Labels, GoOn(p, label)
    PROVE  /\ call' \in [Goroutine -> CallType] /\ SameCalls(p)
           /\ call'[p].at = label
           /\ call'[p].op = call[p].op /\ call'[p].dir = call[p].dir
           /\ call'[p].out = call[p].out /\ call'[p].then = call[p].then
<1> DEFINE c == [call[p] EXCEPT !.at = label]
<1>1. call[p] \in CallType
  BY DEF Types
<1>2. /\ c \in CallType /\ c.at = label
      /\ c.op = call[p].op /\ c.dir = call[p].dir /\ c.out = call[p].out /\ c.then = call[p].then
  BY <1>1 DEF CallType
<1>3. call' = [call EXCEPT ![p] = c]
  BY DEF GoOn
<1> HIDE DEF c
<1> QED BY <1>2, <1>3, CallFacts

LEMMA FoundFacts ==
    ASSUME Types, NEW p \in Goroutine, NEW label \in Labels, Found(p, label)
    PROVE  /\ call' \in [Goroutine -> CallType] /\ SameCalls(p)
           /\ call'[p].at = label /\ call'[p].op = call[p].op /\ call'[p].out = "ok"
           /\ call'[p].then = "none"
<1> DEFINE c == [NoCall EXCEPT !.op = call[p].op, !.at = label, !.again = call[p].again]
<1>1. call[p].op \in FileOps /\ call[p].again \in BOOLEAN
  BY CallFields DEF Types
<1>2. c \in CallType /\ c.at = label /\ c.op = call[p].op /\ c.out = "ok" /\ c.then = "none"
  BY <1>1 DEF CallType, NoCall, Thens, Outs, Dir
<1>3. call' = [call EXCEPT ![p] = c]
  BY DEF Found
<1> HIDE DEF c
<1> QED BY <1>2, <1>3, CallFacts

LEMMA ReturnFacts ==
    ASSUME Types, NEW p \in Goroutine, NEW out \in Outs, Return(p, out)
    PROVE  /\ call' \in [Goroutine -> CallType] /\ SameCalls(p)
           /\ call'[p].at = "none" /\ call'[p].op = call[p].op /\ call'[p].out = out
           /\ call'[p].then = "none"
<1> DEFINE c == [NoCall EXCEPT !.op = call[p].op, !.out = out]
<1>1. call[p].op \in FileOps
  BY CallFields DEF Types
<1>2. c \in CallType /\ c.at = "none" /\ c.op = call[p].op /\ c.out = out /\ c.then = "none"
  BY <1>1 DEF CallType, NoCall, Thens, Dir, Labels, FreeLabels
<1>3. call' = [call EXCEPT ![p] = c]
  BY DEF Return
<1> HIDE DEF c
<1> QED BY <1>2, <1>3, CallFacts

LEMMA BeginFacts ==
    ASSUME Types, NEW p \in Goroutine, NEW o \in FileOps, Begin(p, o)
    PROVE  /\ call' \in [Goroutine -> CallType] /\ SameCalls(p)
           /\ call'[p].at \in {"precheck", "contains"} /\ call'[p].op = o /\ call'[p].out = "ok"
           /\ call'[p].then = "none"
<1> DEFINE at == IF o \in {"create", "link"} THEN "precheck" ELSE "contains"
           c  == [NoCall EXCEPT !.op = o, !.left = Accept(o), !.at = at]
<1>1. Accept(o) \subseteq Dir
  BY DEF Accept, Dir
<1>2. at \in {"precheck", "contains"}
  OBVIOUS
<1>3. call' = [call EXCEPT ![p] = c]
  BY DEF Begin
<1> HIDE DEF at
<1>4. c \in CallType /\ c.at = at /\ c.op = o /\ c.out = "ok" /\ c.then = "none"
  BY <1>1, <1>2 DEF CallType, NoCall, Thens, Outs, Dir, Labels, FreeLabels
<1> HIDE DEF c
<1> QED BY <1>2, <1>3, <1>4, CallFacts

LEMMA ResumeFacts ==
    ASSUME Types, NEW p \in Goroutine, Resume(p), call[p].then # "none"
    PROVE  /\ call' \in [Goroutine -> CallType] /\ SameCalls(p)
           /\ call'[p].at \in {"contains", "search", "load", "none"} /\ call'[p].op = call[p].op
           /\ call'[p].at = "none" => call'[p].out = call[p].then
           /\ call'[p].then = "none"
<1>1. call[p] \in CallType /\ call[p].then \in Thens
  BY CallFields DEF Types
<1>2. CASE call[p].then \in {"contains", "search"}
  <2> DEFINE c == [call[p] EXCEPT !.at = call[p].then, !.then = "none", !.dir = "cache"]
  <2>1. call' = [call EXCEPT ![p] = c]
    BY <1>2 DEF Resume
  <2>2. c \in CallType /\ c.at = call[p].then /\ c.op = call[p].op /\ c.then = "none"
    BY <1>1, <1>2 DEF CallType, Dir, Labels, FreeLabels, Thens
  <2> HIDE DEF c
  <2> QED BY <1>2, <2>1, <2>2, CallFacts
<1>3. CASE call[p].then = "load"
  <2>1. Found(p, "load")
    BY <1>3 DEF Resume
  <2> QED BY <2>1, FoundFacts DEF Labels, FreeLabels
<1>4. CASE call[p].then \in Outs
  <2>1. Return(p, call[p].then)
    BY <1>4 DEF Resume, Outs
  <2> QED BY <1>4, <2>1, ReturnFacts
<1> QED BY <1>1, <1>2, <1>3, <1>4 DEF Thens

-----------------------------------------------------------------------------
(* A step of p leaves the others as they are, and touches the file and the *)
(* entry of at most one name.                                              *)

Others(p) ==
    /\ SameCalls(p)
    /\ \A q \in Goroutine \ {p} : /\ task'[q] = task[q] /\ holding'[q] = holding[q]
                                  /\ q \in exclusive <=> q \in exclusive'

Untouched(m) ==
    /\ \A d \in Dir : OnDisk(d, m)' <=> OnDisk(d, m)
    /\ state'[m] = state[m]
    /\ m \in stored' <=> m \in stored

LEMMA HolderUnchanged ==
    ASSUME NEW p \in Goroutine, Others(p), NEW n, NEW L,
           (holding'[p] = n /\ call'[p].at \in L) <=> (holding[p] = n /\ call[p].at \in L)
    PROVE  HolderAt(n, L)' <=> HolderAt(n, L)
BY DEF HolderAt, Others, SameCalls

LEMMA HolderIs ==
    ASSUME Alone, NEW p \in Goroutine, NEW n \in Name, holding[p] = n, NEW L
    PROVE  HolderAt(n, L) <=> call[p].at \in L
BY NoneAssumption DEF HolderAt, Alone

LEMMA HolderIsNext ==
    ASSUME Alone', NEW p \in Goroutine, NEW n \in Name, holding'[p] = n, NEW L
    PROVE  HolderAt(n, L)' <=> call'[p].at \in L
BY NoneAssumption DEF HolderAt, Alone

LEMMA NoHolderNext ==
    ASSUME Alone, NEW p \in Goroutine, Others(p), NEW n \in Name, holding[p] = n, holding'[p] = None, NEW L
    PROVE  ~HolderAt(n, L)'
BY NoneAssumption DEF HolderAt, Alone, Others

LEMMA AloneNext ==
    ASSUME Inv, NEW p \in Goroutine, Others(p),
           holding'[p] \in {None, holding[p]} \/ Unlocked(holding'[p])
    PROVE  Alone'
BY DEF Inv, Alone, Others, Unlocked, FM!Holders

LEMMA LockingOthers ==
    ASSUME Inv, NEW p \in Goroutine, Others(p),
           \A n \in stored : n # holding[p] => Untouched(n),
           NEW q \in Goroutine, q # p
    PROVE  Locking(q)'
<1>1. Locking(q) /\ holding[q] \in Name \cup {None} /\ stored \subseteq Name
  BY DEF Inv, Types
<1>2. call'[q] = call[q] /\ task'[q] = task[q] /\ holding'[q] = holding[q] /\ (q \in exclusive <=> q \in exclusive')
  BY DEF Others, SameCalls
<1>3. CASE call[q].at \in FreeLabels
  BY <1>1, <1>2, <1>3 DEF Locking, OwnLabels, FreeLabels, File
<1>4. CASE call[q].at \notin FreeLabels
  <2>1. holding[q] \in stored /\ q \in exclusive
    BY <1>1, <1>4 DEF Locking
  <2>2. holding[q] # holding[p]
    BY <1>1, <2>1, NoneAssumption DEF Inv, Alone
  <2>3. holding[q] \in stored' /\ state'[holding[q]] = state[holding[q]]
    BY <2>1, <2>2 DEF Untouched, OnDisk
  <2> QED BY <1>1, <1>2, <1>4, <2>1, <2>3 DEF Locking, OwnLabels, File
<1> QED BY <1>3, <1>4

LEMMA CallingOthers ==
    ASSUME Inv, NEW p \in Goroutine, Others(p), NEW q \in Goroutine, q # p,
           hand'[q] # "closed" => hand[q] # "closed"
    PROVE  Calling(q)'
<1>1. Calling(q)
  BY DEF Inv
<1>2. call'[q] = call[q] /\ task'[q] = task[q]
  BY DEF Others, SameCalls
<1> QED BY <1>1, <1>2 DEF Calling, File

LEMMA PlacedOthers ==
    ASSUME Inv, NEW p \in Goroutine, Others(p), NEW m \in Name,
           holding[p] # m, holding'[p] # m, Untouched(m)
    PROVE  Placed(m)'
<1>1. Placed(m)
  BY DEF Inv
<1>2. HolderAt(m, Gone)' <=> HolderAt(m, Gone)
  BY HolderUnchanged
<1> QED BY <1>1, <1>2 DEF Placed, OnDisk, Untouched

LEMMA RememberedOthers ==
    ASSUME Inv, NEW p \in Goroutine, Others(p), NEW m \in Name,
           holding[p] # m, holding'[p] # m, Untouched(m),
           m \in meta' => m \in meta \/ m \in lat'[state[m]],
           m \in lat["download"] => m \in lat'["download"]
    PROVE  Remembered(m)'
<1>1. Remembered(m)
  BY DEF Inv
<1>2. HolderAt(m, {"evicted"})' <=> HolderAt(m, {"evicted"})
  BY HolderUnchanged
<1> QED BY <1>1, <1>2 DEF Remembered, Untouched

(* A step that takes and gives back no lock, and makes and removes no file. *)
LEMMA WriteStep ==
    ASSUME Inv, NEW p \in Goroutine, Others(p), UNCHANGED <<mapVars, state>>,
           data' \in [Dir -> [Name -> Content]],
           \A d \in Dir, m \in Name : data'[d][m] = "none" <=> data[d][m] = "none",
           call[p].at \in FreeLabels, call'[p].at \in FreeLabels,
           call' \in [Goroutine -> CallType], task' \in [Goroutine -> TaskType],
           hand' \in [Goroutine -> Dir \cup {"unlinked", "closed"}],
           \A q \in Goroutine \ {p} : hand'[q] = hand[q],
           lat' \in [Dir -> SUBSET Name], \A d \in Dir : lat[d] \subseteq lat'[d],
           meta' \subseteq stored, \A m \in meta' : m \in meta \/ m \in lat'[state[m]],
           Calling(p)', Linked(p)'
    PROVE  Inv'
<1>1. Types'
  BY DEF Inv, Types, mapVars
<1>2. holding[p] = None /\ holding'[p] = None
  BY DEF Inv, Locking, mapVars
<1>3. Alone'
  BY DEF Inv, Alone, mapVars
<1>4. \A n \in Name : Untouched(n)
  BY DEF Untouched, OnDisk, mapVars
<1>5. Locking(p)'
  BY <1>2 DEF Locking, FreeLabels, OwnLabels
<1>6. ASSUME NEW q \in Goroutine, q # p
      PROVE  Calling(q)' /\ Locking(q)' /\ Linked(q)'
  <2>1. Linked(q) /\ Calling(q)
    BY DEF Inv
  <2>2. Linked(q)'
    <3> SUFFICES ASSUME hand'[q] \in Dir
                 PROVE  data'[hand'[q]][task'[q].name] # "none"
      BY DEF Linked, OnDisk, File
    <3>1. hand'[q] = hand[q] /\ task'[q] = task[q] /\ hand[q] \in Dir
      BY <1>6 DEF Others
    <3>2. File(q) \in Name /\ OnDisk(hand[q], File(q))
      BY <2>1, <3>1 DEF Linked, Calling, Dir
    <3>3. data'[hand[q]][File(q)] # "none"
      BY <3>1, <3>2 DEF OnDisk
    <3> QED BY <3>1, <3>3 DEF File
  <2>3. Locking(q)'
    BY <1>4, <1>6, LockingOthers DEF Inv, Types
  <2> QED BY <1>6, <2>2, <2>3, CallingOthers
<1>7. ASSUME NEW n \in Name
      PROVE  Placed(n)' /\ Remembered(n)'
  <2>1. holding[p] # n /\ holding'[p] # n
    BY <1>2, NoneAssumption
  <2>2. "download" \in Dir
    BY DEF Dir
  <2> QED BY <1>4, <2>1, <2>2, PlacedOthers, RememberedOthers
<1> QED BY <1>1, <1>3, <1>5, <1>6, <1>7 DEF Inv

(* One that changes no file at all. *)
LEMMA FreeStep ==
    ASSUME Inv, NEW p \in Goroutine, Others(p), UNCHANGED <<mapVars, data, state>>,
           call[p].at \in FreeLabels, call'[p].at \in FreeLabels,
           call' \in [Goroutine -> CallType], task' \in [Goroutine -> TaskType],
           hand' \in [Goroutine -> Dir \cup {"unlinked", "closed"}],
           \A q \in Goroutine \ {p} : hand'[q] = hand[q],
           lat' \in [Dir -> SUBSET Name], \A d \in Dir : lat[d] \subseteq lat'[d],
           meta' \subseteq stored, \A m \in meta' : m \in meta \/ m \in lat'[state[m]],
           Calling(p)', Linked(p)'
    PROVE  Inv'
<1>1. data' \in [Dir -> [Name -> Content]]
  BY DEF Inv, Types
<1> QED BY <1>1, WriteStep

(* A step under the lock of n, or one that takes it or gives it back. *)
LEMMA EntryStep ==
    ASSUME Inv, NEW p \in Goroutine, Others(p), NEW n \in Name,
           holding[p] \in {None, n}, holding'[p] \in {None, n}, holding[p] = None => Unlocked(n),
           \A m \in Name \ {n} : /\ Untouched(m)
                                 /\ m \in meta' => m \in meta
                                 /\ m \in lat["download"] => m \in lat'["download"],
           Types', Calling(p)', Locking(p)', Placed(n)', Remembered(n)',
           \A q \in Goroutine : /\ Linked(q)'
                                /\ q # p /\ hand'[q] # "closed" => hand[q] # "closed"
    PROVE  Inv'
<1>1. Alone'
  BY AloneNext
<1>2. ASSUME NEW q \in Goroutine, q # p
      PROVE  Locking(q)'
  <2>1. CASE holding[p] = n
    BY <1>2, <2>1, LockingOthers DEF Inv, Types
  <2>2. CASE holding[p] = None
    <3>1. Locking(q) /\ holding[q] \in Name \cup {None} /\ stored \subseteq Name
      BY DEF Inv, Types
    <3>2. /\ call'[q] = call[q] /\ task'[q] = task[q] /\ holding'[q] = holding[q]
          /\ q \in exclusive <=> q \in exclusive'
      BY <1>2 DEF Others, SameCalls
    <3>3. CASE call[q].at \in FreeLabels
      BY <3>1, <3>2, <3>3 DEF Locking, OwnLabels, FreeLabels, File
    <3>4. CASE call[q].at \notin FreeLabels
      <4>1. holding[q] \in stored /\ q \in exclusive
        BY <3>1, <3>4 DEF Locking
      <4>2. holding[q] # n
        BY <2>2 DEF Unlocked, FM!Holders
      <4>3. holding[q] \in stored' /\ state'[holding[q]] = state[holding[q]]
        BY <3>1, <4>1, <4>2 DEF Untouched, OnDisk
      <4> QED BY <3>1, <3>2, <3>4, <4>1, <4>3 DEF Locking, OwnLabels, File
    <3> QED BY <3>3, <3>4
  <2> QED BY <2>1, <2>2
<1>3. ASSUME NEW m \in Name, m # n
      PROVE  Placed(m)' /\ Remembered(m)'
  <2>1. holding[p] # m /\ holding'[p] # m
    BY <1>3, NoneAssumption
  <2> QED BY <1>3, <2>1, PlacedOthers, RememberedOthers
<1> QED BY <1>1, <1>2, <1>3, CallingOthers DEF Inv

-----------------------------------------------------------------------------
(* The steps that take no lock and change no file. *)

LEMMA CallOnly ==
    ASSUME Inv, NEW p \in Goroutine, SameCalls(p), UNCHANGED <<mapVars, data, hand, state, task>>,
           call[p].at \in FreeLabels \ {"none"}, call'[p].at \in FreeLabels,
           call' \in [Goroutine -> CallType],
           call'[p].op = call[p].op,
           call'[p].at = "store" => call[p].op \in {"create", "link"},
           call'[p].at = "evict" => call'[p].then # "none",
           lat' \in [Dir -> SUBSET Name], \A d \in Dir : lat[d] \subseteq lat'[d],
           meta' \subseteq stored, \A m \in meta' : m \in meta \/ m \in lat'[state[m]]
    PROVE  Inv'
<1>1. Others(p)
  BY DEF Others, mapVars
<1>2. Calling(p) /\ Linked(p)
  BY DEF Inv
<1>3. Calling(p)'
  BY <1>2 DEF Calling, File, FreeLabels
<1>4. Linked(p)'
  BY <1>2 DEF Linked, OnDisk, File
<1>5. /\ task' \in [Goroutine -> TaskType]
      /\ hand' \in [Goroutine -> Dir \cup {"unlinked", "closed"}]
      /\ \A q \in Goroutine \ {p} : hand'[q] = hand[q]
  BY DEF Inv, Types
<1> QED BY <1>1, <1>3, <1>4, <1>5, FreeStep

LEMMA DiskKept ==
    ASSUME Inv, UNCHANGED <<diskVars, entryVars>>
    PROVE  /\ UNCHANGED <<data, hand, state>>
           /\ lat' \in [Dir -> SUBSET Name] /\ \A d \in Dir : lat[d] \subseteq lat'[d]
           /\ meta' \subseteq stored /\ \A m \in meta' : m \in meta \/ m \in lat'[state[m]]
BY DEF Inv, Types, diskVars, entryVars

LEMMA LookStep ==
    ASSUME Inv, NEW p \in Goroutine,
           Precheck(p) \/ InMap(p) \/ Search(p) \/ SearchEnds(p) \/ EvictNothing(p) \/ NotLoaded(p)
    PROVE  Inv'
<1> SUFFICES /\ SameCalls(p) /\ UNCHANGED <<mapVars, diskVars, entryVars, task>>
             /\ call[p].at \in FreeLabels \ {"none"} /\ call'[p].at \in FreeLabels
             /\ call' \in [Goroutine -> CallType]
             /\ call'[p].op = call[p].op
             /\ call'[p].at = "store" => call[p].op \in {"create", "link"}
             /\ call'[p].at = "evict" => call'[p].then # "none"
  BY CallOnly, DiskKept
<1> USE DEF At, FreeLabels
<1>0. Types /\ Calling(p) /\ UNCHANGED <<mapVars, diskVars, entryVars, task>>
  BY DEF Inv, Precheck, InMap, Search, SearchEnds, EvictNothing, NotLoaded
<1>1. CASE Precheck(p)
  <2>1. call[p].at = "precheck"
    BY <1>1 DEF Precheck
  <2>2. (\E out \in {"exists", "state"} : Return(p, out)) \/ GoOn(p, "contains")
    BY <1>1 DEF Precheck
  <2>3. ASSUME NEW out \in {"exists", "state"}, Return(p, out)
        PROVE  call'[p].at = "none" /\ call'[p].op = call[p].op /\ call' \in [Goroutine -> CallType] /\ SameCalls(p)
    BY <1>0, <2>3, ReturnFacts DEF Outs
  <2> QED BY <1>0, <2>1, <2>2, <2>3, GoOnFacts DEF Labels
<1>2. CASE InMap(p)
  <2>1. call[p].at = "contains"
    BY <1>2 DEF InMap
  <2>2. (Found(p, "store") /\ Creates(p)) \/ Found(p, "load") \/ GoOn(p, "search")
    BY <1>2 DEF InMap
  <2> QED BY <1>0, <2>1, <2>2, FoundFacts, GoOnFacts DEF Labels, Creates
<1>3. CASE Search(p)
  <2>1. PICK d \in call[p].left :
          call' = [call EXCEPT ![p].left = @ \ {d}, ![p].dir = d,
                               ![p].at = IF OnDisk(d, File(p)) THEN "found" ELSE @]
    BY <1>3 DEF Search
  <2>2. call[p].at = "search" /\ call[p] \in CallType /\ d \in Dir
    BY <1>0, <1>3, CallFields DEF Search, Types
  <2> DEFINE at == IF OnDisk(d, File(p)) THEN "found" ELSE "search"
             c  == [call[p] EXCEPT !.left = @ \ {d}, !.dir = d, !.at = at]
  <2>3. call' = [call EXCEPT ![p] = c]
    BY <2>1, <2>2
  <2>4. at \in {"found", "search"}
    OBVIOUS
  <2> HIDE DEF at
  <2>5. c \in CallType /\ c.at = at /\ c.op = call[p].op
    BY <2>2, <2>4 DEF CallType, Labels
  <2> HIDE DEF c
  <2> QED BY <1>0, <2>2, <2>3, <2>4, <2>5, CallFacts
<1>4. CASE SearchEnds(p)
  <2>1. call[p].at = "search"
    BY <1>4 DEF SearchEnds
  <2>2. (Found(p, "store") /\ Creates(p)) \/ Return(p, "missing")
    BY <1>4 DEF SearchEnds
  <2> QED BY <1>0, <2>1, <2>2, FoundFacts, ReturnFacts DEF Labels, Outs, Creates
<1>5. CASE EvictNothing(p)
  <2>1. call[p].at = "evict" /\ Resume(p)
    BY <1>5 DEF EvictNothing
  <2> QED BY <1>0, <2>1, ResumeFacts DEF Calling
<1>6. CASE NotLoaded(p)
  <2>1. call[p].at = "load"
    BY <1>6 DEF NotLoaded
  <2>2. Return(p, "ok") \/ Return(p, "missing")
    BY <1>6 DEF NotLoaded
  <2> QED BY <1>0, <2>1, <2>2, ReturnFacts DEF Outs
<1> QED BY <1>1, <1>2, <1>3, <1>4, <1>5, <1>6

LEMMA OpFacts ==
    ASSUME Types, NEW p \in Goroutine, Calling(p)
    PROVE  /\ call[p].op \in {"create", "write", "verify", "move"} => task[p].do = "pull"
           /\ call[p].op \in {"link", "delete"} => task[p].do = call[p].op
<1>1. task[p].do \in {"nothing", "pull", "link", "delete"}
  BY DEF Types, TaskType
<1> QED BY <1>1 DEF Calling, OpsOf

LEMMA UseFileStep ==
    ASSUME Inv, NEW p \in Goroutine, UseFile(p) PROVE Inv'
<1> DEFINE there == OnDisk(state[File(p)], File(p))
           out == CASE ~Accepted(p) -> "state"
                    [] call[p].again -> "exists"
                    [] ~there -> "missing"
                    [] call[p].op = "verify" /\ ~Verified(p) -> "error"
                    [] OTHER -> "ok"
<1>1. /\ UNCHANGED <<mapVars, data, lat, entryVars, task>>
      /\ call[p].at = "load" /\ Return(p, out)
      /\ hand' = [hand EXCEPT ![p] = IF call[p].op = "write" /\ out = "ok" THEN "download" ELSE @]
  BY DEF UseFile, At
<1>2. Types /\ Calling(p) /\ Linked(p)
  BY DEF Inv
<1>3. out \in Outs
  BY DEF Outs
<1>4. out = "ok" => Accepted(p) /\ there
  OBVIOUS
<1> HIDE DEF out
<1>5. /\ call' \in [Goroutine -> CallType] /\ SameCalls(p)
      /\ call'[p].at = "none" /\ call'[p].op = call[p].op
  BY <1>1, <1>2, <1>3, ReturnFacts
<1>6. /\ hand' \in [Goroutine -> Dir \cup {"unlinked", "closed"}]
      /\ \A q \in Goroutine \ {p} : hand'[q] = hand[q]
      /\ hand'[p] = IF call[p].op = "write" /\ out = "ok" THEN "download" ELSE hand[p]
  BY <1>1, <1>2 DEF Types, Dir
<1>7. hand[p] = "closed"
  BY <1>1, <1>2 DEF Calling
<1>8. Calling(p)'
  <2>1. call[p].op = "write" => task[p].do = "pull"
    BY <1>2, OpFacts
  <2>2. hand'[p] # "closed" => call[p].op = "write"
    BY <1>6, <1>7
  <2>3. task' = task
    BY <1>1
  <2>4. task[p].do # "nothing"
    BY <1>1, <1>2 DEF Calling
  <2> QED BY <1>2, <1>5, <2>1, <2>2, <2>3, <2>4 DEF Calling, File
<1>9. Linked(p)'
  <2> SUFFICES ASSUME hand'[p] \in Dir
               PROVE  data'[hand'[p]][task'[p].name] # "none"
    BY DEF Linked, OnDisk, File
  <2>1. call[p].op = "write" /\ out = "ok" /\ hand'[p] = "download"
    BY <1>6, <1>7 DEF Dir
  <2>2. state[File(p)] = "download" /\ there
    BY <1>4, <2>1 DEF Accepted, Accept
  <2> QED BY <1>1, <2>1, <2>2 DEF OnDisk, File
<1>10. Others(p) /\ UNCHANGED <<mapVars, data, lat, state, meta, task>>
  BY <1>1, <1>5 DEF Others, mapVars, entryVars
<1>11. call[p].at \in FreeLabels /\ call'[p].at \in FreeLabels
  BY <1>1, <1>5 DEF FreeLabels
<1>12. /\ lat' \in [Dir -> SUBSET Name] /\ \A d \in Dir : lat[d] \subseteq lat'[d]
       /\ meta' \subseteq stored /\ \A m \in meta' : m \in meta \/ m \in lat'[state[m]]
       /\ task' \in [Goroutine -> TaskType]
  BY <1>10 DEF Inv, Types
<1> QED BY <1>5, <1>6, <1>8, <1>9, <1>10, <1>11, <1>12, FreeStep

(* An access time is added to the entry's directory. *)
LEMMA LATAdded ==
    ASSUME Types, NEW d \in Dir, NEW n \in Name, lat' = [lat EXCEPT ![d] = @ \cup {n}]
    PROVE  /\ lat' \in [Dir -> SUBSET Name] /\ n \in lat'[d]
           /\ \A e \in Dir : lat[e] \subseteq lat'[e]
           /\ \A e \in Dir, m \in Name : m # n => (m \in lat'[e] <=> m \in lat[e])
BY DEF Types

LEMMA TouchStep ==
    ASSUME Inv, NEW p \in Goroutine, Touch(p) PROVE Inv'
<1>1. /\ UNCHANGED <<mapVars, data, hand, state, task, call>>
      /\ call[p].at \in {"precheck", "load"} /\ File(p) \in stored
      /\ lat' = [lat EXCEPT ![state[File(p)]] = @ \cup {File(p)}] /\ meta' = meta \cup {File(p)}
  BY DEF Touch, At, Present, WriteLAT
<1>2. Types /\ Calling(p)
  BY DEF Inv
<1>3. File(p) \in Name /\ state[File(p)] \in Dir
  BY <1>1, <1>2 DEF Types
<1>4. /\ lat' \in [Dir -> SUBSET Name] /\ \A d \in Dir : lat[d] \subseteq lat'[d]
      /\ File(p) \in lat'[state[File(p)]]
  BY <1>1, <1>2, <1>3, LATAdded
<1>5. meta' \subseteq stored /\ \A m \in meta' : m \in meta \/ m \in lat'[state[m]]
  BY <1>1, <1>2, <1>4 DEF Types
<1>6. call' \in [Goroutine -> CallType] /\ SameCalls(p) /\ call'[p] = call[p]
  BY <1>1, <1>2 DEF Types, SameCalls
<1> QED BY <1>1, <1>4, <1>5, <1>6, CallOnly DEF FreeLabels

(* A task begins, ends or goes on. *)
LEMMA StartTaskStep ==
    ASSUME Inv, NEW p \in Goroutine, NEW n \in Name, StartTask(p, n) PROVE Inv'
<1>1. PICK what \in {"pull", "link", "delete"} :
        /\ task' = [task EXCEPT ![p] = [do |-> what, name |-> n]]
        /\ Begin(p, IF what = "pull" THEN "stat" ELSE what)
  BY DEF StartTask
<1>2. /\ UNCHANGED <<mapVars, diskVars, entryVars>>
      /\ call[p].at = "none" /\ task[p].do = "nothing"
  BY DEF StartTask, Doing, At, Calm
<1>3. Types /\ Calling(p) /\ Linked(p)
  BY DEF Inv
<1> DEFINE o == IF what = "pull" THEN "stat" ELSE what
<1>4. o \in FileOps /\ o \in OpsOf(what)
  BY DEF FileOps, OpsOf
<1>5. /\ call' \in [Goroutine -> CallType] /\ SameCalls(p)
      /\ call'[p].at \in {"precheck", "contains"} /\ call'[p].op = o
  <2> HIDE DEF o
  <2> QED BY <1>1, <1>3, <1>4, BeginFacts DEF o
<1>6. /\ task' \in [Goroutine -> TaskType] /\ task'[p].do = what /\ task'[p].name = n
      /\ \A q \in Goroutine \ {p} : task'[q] = task[q]
  BY <1>1, <1>3 DEF Types, TaskType
<1>7. hand[p] = "closed"
  BY <1>2, <1>3 DEF Calling
<1>8. Calling(p)' /\ Linked(p)'
  BY <1>2, <1>3, <1>4, <1>5, <1>6, <1>7 DEF Calling, Linked, File, Dir, diskVars
<1>9. Others(p) /\ UNCHANGED <<mapVars, data, hand, state>>
  BY <1>2, <1>5, <1>6 DEF Others, mapVars, diskVars, entryVars
<1> QED BY <1>2, <1>3, <1>5, <1>6, <1>8, <1>9, DiskKept, FreeStep DEF FreeLabels, Types

LEMMA EndTaskStep ==
    ASSUME Inv, NEW p \in Goroutine, EndTask(p) PROVE Inv'
<1>1. /\ UNCHANGED <<mapVars, data, lat, entryVars>> /\ call[p].at = "none"
      /\ task' = [task EXCEPT ![p] = NoTask]
      /\ call' = [call EXCEPT ![p] = NoCall]
      /\ hand' = [hand EXCEPT ![p] = "closed"]
  BY DEF EndTask, At
<1>2. Types
  BY DEF Inv
<1>3. NoCall \in CallType /\ NoCall.at = "none" /\ NoCall.op = "stat"
  BY DEF NoCall, CallType, FileOps, Labels, FreeLabels, Thens, Outs, Dir
<1>4. call' \in [Goroutine -> CallType] /\ call'[p] = NoCall /\ SameCalls(p)
  BY <1>1, <1>2, <1>3, CallFacts
<1>5. /\ task' \in [Goroutine -> TaskType] /\ task'[p].do = "nothing"
      /\ \A q \in Goroutine \ {p} : task'[q] = task[q]
  BY <1>1, <1>2 DEF Types, TaskType, NoTask
<1>6. /\ hand' \in [Goroutine -> Dir \cup {"unlinked", "closed"}] /\ hand'[p] = "closed"
      /\ \A q \in Goroutine \ {p} : hand'[q] = hand[q]
  BY <1>1, <1>2 DEF Types
<1>7. Calling(p)' /\ Linked(p)'
  BY <1>3, <1>4, <1>5, <1>6 DEF Calling, Linked, OpsOf, Dir
<1>8. Others(p) /\ UNCHANGED <<mapVars, data, state, lat, meta>>
  BY <1>1, <1>4, <1>5 DEF Others, mapVars, entryVars
<1>9. /\ lat' \in [Dir -> SUBSET Name] /\ \A d \in Dir : lat[d] \subseteq lat'[d]
      /\ meta' \subseteq stored /\ \A m \in meta' : m \in meta \/ m \in lat'[state[m]]
  BY <1>2, <1>8 DEF Types
<1> QED BY <1>1, <1>3, <1>4, <1>5, <1>6, <1>7, <1>8, <1>9, FreeStep DEF FreeLabels

LEMMA PullGoesOnStep ==
    ASSUME Inv, NEW p \in Goroutine, PullGoesOn(p) PROVE Inv'
<1>1. /\ UNCHANGED <<mapVars, diskVars, entryVars, task>>
      /\ call[p].at = "none" /\ task[p].do = "pull"
  BY DEF PullGoesOn, Doing, At, Calm
<1>2. PICK o \in {"create", "write", "move"} : Begin(p, o) /\ call[p].op # "write"
  BY DEF PullGoesOn, Did
<1>3. Types /\ Calling(p) /\ Linked(p)
  BY DEF Inv
<1>4. /\ call' \in [Goroutine -> CallType] /\ SameCalls(p)
      /\ call'[p].at \in {"precheck", "contains"} /\ call'[p].op = o
  BY <1>2, <1>3, BeginFacts DEF FileOps
<1>5. hand[p] = "closed"
  BY <1>2, <1>3 DEF Calling
<1>6. Calling(p)' /\ Linked(p)'
  BY <1>1, <1>3, <1>4, <1>5 DEF Calling, Linked, OpsOf, File, Dir, diskVars
<1>7. Others(p) /\ UNCHANGED <<mapVars, data, hand, state>>
  BY <1>1, <1>4 DEF Others, mapVars, diskVars, entryVars
<1> QED BY <1>1, <1>3, <1>4, <1>6, <1>7, DiskKept, FreeStep DEF FreeLabels, Types

-----------------------------------------------------------------------------
(* An entry is stored: the file it is for is nowhere on disk.              *)

LEMMA HoldersAreStored ==
    ASSUME Inv, NEW q \in Goroutine, holding[q] # None
    PROVE  holding[q] \in stored /\ call[q].at \notin FreeLabels /\ q \in exclusive
BY DEF Inv, Locking

LEMMA StoreNew ==
    ASSUME Inv, NEW p \in Goroutine, NEW d \in Dir, call[p].at \in {"found", "store"},
           FM!Store(p, File(p)), state' = [state EXCEPT ![File(p)] = d],
           IF File(p) \in lat[d] THEN UNCHANGED <<lat, meta>> ELSE WriteLAT(d, File(p)),
           UNCHANGED <<data, hand, task>>,
           SameCalls(p), call' \in [Goroutine -> CallType],
           call'[p].op = call[p].op, call'[p].then # "none", call'[p].dir = d,
           call'[p].at \in {"reloading", "creating"},
           call'[p].at = "creating" => call[p].op \in {"create", "link"} /\ d = Target(call[p].op)
    PROVE  Inv'
<1>1. Types /\ Calling(p) /\ Linked(p) /\ Locking(p)
  BY DEF Inv
<1>0. PICK n \in Name : n = File(p)
  BY <1>1 DEF Calling
<1>2. File(p) = n /\ File(p)' = n
  BY <1>0 DEF File
<1>3. /\ holding[p] = None /\ n \notin stored
      /\ stored' = stored \cup {n}
      /\ holding' = [holding EXCEPT ![p] = n]
      /\ exclusive' = exclusive \cup {p}
  BY <1>2 DEF FM!Store
<1>4. /\ holding' \in [Goroutine -> Name \cup {None}] /\ holding'[p] = n
      /\ \A q \in Goroutine \ {p} : holding'[q] = holding[q]
  BY <1>1, <1>2, <1>3 DEF Types
<1>5. Others(p)
  BY <1>3, <1>4 DEF Others
<1>6. state[n] = "none" /\ n \notin meta
  BY <1>1, <1>2, <1>3 DEF Types
<1>7. /\ state' \in [Name -> Dir \cup {"none"}] /\ state'[n] = d
      /\ \A m \in Name \ {n} : state'[m] = state[m]
  BY <1>1, <1>2 DEF Types
<1>8. /\ lat' \in [Dir -> SUBSET Name] /\ meta' \subseteq meta \cup {n}
      /\ \A e \in Dir, m \in Name : m \in lat[e] => m \in lat'[e]
      /\ n \in meta' => n \in lat'[d]
  <2>1. CASE n \in lat[d]
    BY <1>1, <1>2, <1>6, <2>1 DEF Types
  <2>2. CASE n \notin lat[d]
    <3>1. lat' = [lat EXCEPT ![d] = @ \cup {n}] /\ meta' = meta \cup {n}
      BY <1>2, <2>2 DEF WriteLAT
    <3> QED BY <1>1, <1>2, <3>1, LATAdded
  <2> QED BY <2>1, <2>2
<1>9. Types'
  <2>1. \A m \in Name : m \in stored' <=> state'[m] # "none"
    BY <1>1, <1>2, <1>3, <1>7 DEF Types, Dir
  <2>2. stored' \subseteq Name /\ exclusive' \subseteq Goroutine /\ meta' \subseteq stored'
    BY <1>1, <1>2, <1>3, <1>8 DEF Types
  <2> QED BY <1>1, <1>4, <1>7, <1>8, <2>1, <2>2 DEF Types
<1>10. Calling(p)'
  BY <1>1, <1>2 DEF Calling, File
<1>11. Locking(p)'
  BY <1>2, <1>3, <1>4, <1>7 DEF Locking, OwnLabels, FreeLabels
<1>12. Unlocked(n)
  BY <1>2, <1>3, NoneAssumption, HoldersAreStored DEF Unlocked, FM!Holders
<1>13. Alone'
  BY <1>4, <1>5, <1>12, AloneNext
<1>14. Placed(n)'
  <2>1. HolderAt(n, Gone)'
    BY <1>4 DEF HolderAt, Gone
  <2>2. \A e \in Dir : ~OnDisk(e, n)
    BY <1>2, <1>6 DEF Inv, Placed, Dir
  <2> QED BY <2>1, <2>2 DEF Placed, OnDisk
<1>15. Remembered(n)'
  BY <1>7, <1>8 DEF Remembered
<1>16. \A m \in Name \ {n} : /\ Untouched(m)
                             /\ m \in meta' => m \in meta
                             /\ m \in lat["download"] => m \in lat'["download"]
  BY <1>3, <1>7, <1>8 DEF Untouched, OnDisk, Dir
<1>17. \A q \in Goroutine : Linked(q)' /\ hand'[q] = hand[q]
  BY DEF Inv, Linked, OnDisk, File
<1> QED BY <1>2, <1>3, <1>4, <1>5, <1>9, <1>10, <1>11, <1>12, <1>14, <1>15, <1>16, <1>17, EntryStep

LEMMA StoreEntryStep ==
    ASSUME Inv, NEW p \in Goroutine, NEW d \in Dir, call[p].at \in {"found", "store"},
           StoreEntry(p, d), UNCHANGED <<data, hand, task>>,
           SameCalls(p), call' \in [Goroutine -> CallType],
           call'[p].op = call[p].op, call'[p].then # "none", call'[p].dir = d,
           IF Present(p) THEN call'[p].at = "evict" ELSE call'[p].at \in {"reloading", "creating"},
           call'[p].at = "creating" => call[p].op \in {"create", "link"} /\ d = Target(call[p].op)
    PROVE  Inv'
<1>1. CASE Present(p)
  <2>1. lat' = [lat EXCEPT ![d] = @ \cup {File(p)}] /\ UNCHANGED <<mapVars, entryVars>>
    BY <1>1 DEF StoreEntry, FM!Store, Present
  <2>2. File(p) \in Name /\ Types
    BY DEF Inv, Calling
  <2>3. /\ lat' \in [Dir -> SUBSET Name] /\ \A e \in Dir : lat[e] \subseteq lat'[e]
        /\ UNCHANGED <<mapVars, state, meta>> /\ meta' \subseteq stored
    BY <2>1, <2>2, LATAdded DEF entryVars, Types
  <2> QED BY <1>1, <2>3, CallOnly DEF FreeLabels
<1>2. CASE ~Present(p)
  BY <1>2, StoreNew DEF StoreEntry
<1> QED BY <1>1, <1>2

LEMMA StoreFoundStep ==
    ASSUME Inv, NEW p \in Goroutine, StoreFound(p) PROVE Inv'
<1>1. /\ call[p].at = "found" /\ StoreEntry(p, call[p].dir) /\ UNCHANGED <<data, hand, task>>
      /\ call' = [call EXCEPT ![p].at = IF Present(p) THEN "evict" ELSE "reloading",
                              ![p].then = AfterReload(p)]
  BY DEF StoreFound, At
<1> DEFINE at == IF Present(p) THEN "evict" ELSE "reloading"
           c  == [call[p] EXCEPT !.at = at, !.then = AfterReload(p)]
<1>2. AfterReload(p) \in {"exists", "load"}
  BY DEF AfterReload
<1>3. at \in {"evict", "reloading"} /\ (Present(p) <=> at = "evict")
  OBVIOUS
<1>4. call' = [call EXCEPT ![p] = c]
  BY <1>1
<1> HIDE DEF at
<1>5. Types /\ call[p] \in CallType /\ call[p].dir \in Dir
  BY CallFields DEF Inv, Types
<1>6. /\ c \in CallType /\ c.at = at /\ c.op = call[p].op /\ c.then # "none" /\ c.dir = call[p].dir
  BY <1>2, <1>3, <1>5 DEF CallType, Labels, OwnLabels, FreeLabels, Thens, Outs
<1> HIDE DEF c
<1>7. call' \in [Goroutine -> CallType] /\ call'[p] = c /\ SameCalls(p)
  BY <1>4, <1>5, <1>6, CallFacts
<1> QED BY <1>1, <1>3, <1>5, <1>6, <1>7, StoreEntryStep

LEMMA StoreStep ==
    ASSUME Inv, NEW p \in Goroutine, Store(p) PROVE Inv'
<1> DEFINE d  == Target(call[p].op)
           at == IF Present(p) THEN "evict" ELSE "creating"
           c  == [call[p] EXCEPT !.dir = d, !.again = Present(p), !.left = Accept(call[p].op),
                                 !.at = at, !.then = "contains"]
<1>1. /\ call[p].at = "store" /\ StoreEntry(p, d) /\ UNCHANGED <<data, hand, task>>
      /\ call' = [call EXCEPT ![p] = c]
  BY DEF Store, At
<1>2. d \in Dir /\ Accept(call[p].op) \subseteq Dir /\ Present(p) \in BOOLEAN
  BY DEF Target, Accept, Dir, Present
<1>3. at \in {"evict", "creating"} /\ (Present(p) <=> at = "evict")
  OBVIOUS
<1>4. Types /\ call[p] \in CallType /\ Calling(p)
  BY DEF Inv, Types
<1>5. call[p].op \in {"create", "link"}
  BY <1>1, <1>4 DEF Calling
<1> HIDE DEF at
<1>6. /\ c \in CallType /\ c.at = at /\ c.op = call[p].op /\ c.then = "contains" /\ c.dir = d
  <2> DEFINE left == Accept(call[p].op)
             again == Present(p)
  <2>1. left \subseteq Dir /\ again \in BOOLEAN /\ d \in Dir
    BY <1>2
  <2> HIDE DEF left, again, d
  <2>2. [call[p] EXCEPT !.dir = d, !.again = again, !.left = left, !.at = at, !.then = "contains"]
           \in CallType
    BY <1>3, <1>4, <2>1 DEF CallType, Labels, OwnLabels, FreeLabels, Thens
  <2> QED BY <1>4, <2>2 DEF left, again, CallType
<1> HIDE DEF c
<1>7. call' \in [Goroutine -> CallType] /\ call'[p] = c /\ SameCalls(p)
  BY <1>1, <1>4, <1>6, CallFacts
<1> QED BY <1>1, <1>2, <1>3, <1>5, <1>6, <1>7, StoreEntryStep

-----------------------------------------------------------------------------
(* The lock of an entry is taken, and given back.                          *)

LEMMA TakeLock ==
    ASSUME Inv, NEW p \in Goroutine, NEW n \in Name, call[p].at \in {"evict", "load"},
           FM!EnterAlone(p, n), UNCHANGED <<diskVars, entryVars, task>>,
           SameCalls(p), call' \in [Goroutine -> CallType],
           call'[p].op = call[p].op, call'[p].then = call[p].then,
           \/ call'[p].at = "evicting" /\ call[p].at = "evict"
           \/ call'[p].at = "refused" /\ n = File(p)
           \/ call'[p].at = "move" /\ n = File(p) /\ state[n] = "download" /\ call[p].op = "move"
           \/ call'[p].at = "delete" /\ n = File(p) /\ state[n] = "cache"
    PROVE  Inv'
<1>1. Types /\ Calling(p) /\ Linked(p)
  BY DEF Inv
<1>2. /\ holding[p] = None /\ n \in stored /\ Unlocked(n)
      /\ holding' = [holding EXCEPT ![p] = n]
      /\ exclusive' = exclusive \cup {p} /\ UNCHANGED stored
  BY DEF FM!EnterAlone, Unlocked
<1>3. UNCHANGED <<data, lat, hand, state, meta, task>>
  BY DEF diskVars, entryVars
<1>4. /\ holding' \in [Goroutine -> Name \cup {None}] /\ holding'[p] = n
      /\ \A q \in Goroutine \ {p} : holding'[q] = holding[q]
  BY <1>1, <1>2 DEF Types
<1>5. Others(p)
  BY <1>2, <1>3, <1>4 DEF Others
<1>6. Types'
  BY <1>1, <1>2, <1>3, <1>4 DEF Types
<1>7. Calling(p)'
  BY <1>1, <1>3 DEF Calling, File
<1>8. Locking(p)'
  BY <1>2, <1>3, <1>4 DEF Locking, OwnLabels, FreeLabels, File
<1>9. Alone'
  BY <1>2, <1>4, <1>5, AloneNext
<1>10. /\ ~HolderAt(n, Gone) /\ ~HolderAt(n, Gone)'
       /\ ~HolderAt(n, {"evicted"}) /\ ~HolderAt(n, {"evicted"})'
  <2>1. /\ ~HolderAt(n, Gone) /\ ~HolderAt(n, {"evicted"})
    BY <1>2 DEF HolderAt, Unlocked, FM!Holders
  <2>2. HolderAt(n, Gone)' <=> call'[p].at \in Gone
    BY <1>4, <1>9, HolderIsNext
  <2>3. HolderAt(n, {"evicted"})' <=> call'[p].at \in {"evicted"}
    BY <1>4, <1>9, HolderIsNext
  <2> QED BY <2>1, <2>2, <2>3 DEF Gone
<1>11. Placed(n)' /\ Remembered(n)'
  BY <1>3, <1>10 DEF Inv, Placed, Remembered, OnDisk
<1>12. \A m \in Name \ {n} : /\ Untouched(m)
                             /\ m \in meta' => m \in meta
                             /\ m \in lat["download"] => m \in lat'["download"]
  BY <1>2, <1>3 DEF Untouched, OnDisk
<1>13. \A q \in Goroutine : Linked(q)' /\ hand'[q] = hand[q]
  BY <1>3 DEF Inv, Linked, OnDisk, File
<1> QED BY <1>2, <1>4, <1>5, <1>6, <1>7, <1>8, <1>11, <1>12, <1>13, EntryStep

LEMMA EvictOldestStep ==
    ASSUME Inv, NEW p \in Goroutine, EvictOldest(p) PROVE Inv'
<1>1. PICK n \in Name : FM!EnterAlone(p, n)
  BY DEF EvictOldest
<1>2. call[p].at = "evict" /\ GoOn(p, "evicting") /\ UNCHANGED <<diskVars, entryVars, task>>
  BY DEF EvictOldest, At
<1>3. /\ call' \in [Goroutine -> CallType] /\ SameCalls(p) /\ call'[p].at = "evicting"
      /\ call'[p].op = call[p].op /\ call'[p].then = call[p].then
  BY <1>2, GoOnFacts DEF Inv, Labels, EvictLabels
<1> QED BY <1>1, <1>2, <1>3, TakeLock

LEMMA LockFileStep ==
    ASSUME Inv, NEW p \in Goroutine, LockFile(p) PROVE Inv'
<1>1. Types /\ Calling(p)
  BY DEF Inv
<1>2. /\ call[p].at = "load" /\ call[p].op \in {"move", "delete"}
      /\ FM!EnterAlone(p, File(p))
      /\ GoOn(p, IF Accepted(p) THEN call[p].op ELSE "refused")
      /\ UNCHANGED <<diskVars, entryVars, task>>
  BY DEF LockFile, At
<1>3. PICK n \in Name : n = File(p)
  BY <1>1, <1>2 DEF Calling
<1> DEFINE label == IF Accepted(p) THEN call[p].op ELSE "refused"
<1>4. /\ label \in {"move", "delete", "refused"}
      /\ label # "refused" => label = call[p].op /\ state[File(p)] \in Accept(call[p].op)
  BY <1>2 DEF Accepted
<1>5. GoOn(p, label)
  BY <1>2
<1> HIDE DEF label
<1>6. /\ call' \in [Goroutine -> CallType] /\ SameCalls(p) /\ call'[p].at = label
      /\ call'[p].op = call[p].op /\ call'[p].then = call[p].then
  BY <1>1, <1>4, <1>5, GoOnFacts DEF Labels, OwnLabels
<1>7. /\ label = "move" => state[n] = "download" /\ call[p].op = "move"
      /\ label = "delete" => state[n] = "cache"
  BY <1>3, <1>4 DEF Accept
<1> QED BY <1>2, <1>3, <1>4, <1>6, <1>7, TakeLock

LEMMA Released ==
    ASSUME Inv, NEW p \in Goroutine, NEW n \in Name, holding[p] = n, FM!Release(p),
           SameCalls(p), task' = task
    PROVE  /\ Others(p) /\ holding' \in [Goroutine -> Name \cup {None}] /\ holding'[p] = None
           /\ exclusive' \subseteq Goroutine
           /\ ~HolderAt(n, Gone)' /\ ~HolderAt(n, {"evicted"})'
<1>1. holding' = [holding EXCEPT ![p] = None] /\ exclusive' = exclusive \ {p}
  BY DEF FM!Release
<1>2. /\ holding' \in [Goroutine -> Name \cup {None}] /\ holding'[p] = None
      /\ \A q \in Goroutine \ {p} : holding'[q] = holding[q]
  BY <1>1 DEF Inv, Types
<1>3. Others(p) /\ exclusive' \subseteq Goroutine
  BY <1>1, <1>2 DEF Others, Inv, Types
<1> QED BY <1>2, <1>3, NoHolderNext DEF Inv

(* The function that runs under the lock fails, or has removed the file.   *)
LEMMA ForgetStep ==
    ASSUME Inv, NEW p \in Goroutine, call[p].at \in Gone,
           Forget(p), UNCHANGED <<data, hand, lat, task>>,
           SameCalls(p), call' \in [Goroutine -> CallType],
           call'[p].at \in FreeLabels \ {"store"}, call'[p].op = call[p].op,
           call'[p].at = "evict" => call'[p].then # "none"
    PROVE  Inv'
<1>1. Types /\ Calling(p) /\ Locking(p) /\ Linked(p)
  BY DEF Inv
<1>2. holding[p] \in stored /\ call[p].at # "none"
  BY <1>1 DEF Locking, Gone, FreeLabels
<1>3. PICK n \in Name : n = holding[p]
  BY <1>1, <1>2 DEF Types
<1>4. /\ FM!Release(p) /\ stored' = stored \ {n}
      /\ state' = [state EXCEPT ![n] = "none"] /\ meta' = meta \ {n}
  BY <1>3 DEF Forget, FM!LeaveAndRemove
<1>5. /\ Others(p) /\ holding' \in [Goroutine -> Name \cup {None}] /\ holding'[p] = None
      /\ exclusive' \subseteq Goroutine
  BY <1>3, <1>4, Released
<1>6. /\ state' \in [Name -> Dir \cup {"none"}] /\ state'[n] = "none"
      /\ \A m \in Name \ {n} : state'[m] = state[m]
  BY <1>1, <1>4 DEF Types
<1>7. Types'
  BY <1>1, <1>4, <1>5, <1>6 DEF Types
<1>8. Calling(p)'
  BY <1>1, <1>2 DEF Calling, File, FreeLabels
<1>9. Locking(p)'
  BY <1>5 DEF Locking, OwnLabels, FreeLabels
<1>10. Placed(n)'
  <2>1. HolderAt(n, Gone)
    BY <1>3 DEF HolderAt
  <2> QED BY <1>6, <2>1 DEF Inv, Placed, OnDisk, Dir
<1>11. Remembered(n)'
  BY <1>6 DEF Remembered
<1>12. \A m \in Name \ {n} : /\ Untouched(m)
                             /\ m \in meta' => m \in meta
                             /\ m \in lat["download"] => m \in lat'["download"]
  BY <1>4, <1>6 DEF Untouched, OnDisk
<1>13. \A q \in Goroutine : Linked(q)' /\ hand'[q] = hand[q]
  BY DEF Inv, Linked, OnDisk, File
<1>14. holding[p] # None
  BY <1>3, NoneAssumption
<1> QED BY <1>3, <1>5, <1>7, <1>8, <1>9, <1>10, <1>11, <1>12, <1>13, <1>14, EntryStep

(* A file that is being reloaded is gone: it is looked for without a lock, *)
(* and every file on disk is in the map when it can be found.              *)
LEMMA NotThere ==
    ASSUME Inv, NEW p \in Goroutine, call[p].at \in {"reloading", "creating"}
    PROVE  File(p) \in Name /\ holding[p] = File(p) /\ \A d \in Dir : ~OnDisk(d, File(p))
<1>1. Calling(p) /\ Locking(p)
  BY DEF Inv
<1>2. File(p) \in Name /\ holding[p] = File(p)
  BY <1>1 DEF Calling, Locking, OwnLabels
<1>3. HolderAt(File(p), Gone)
  BY <1>2 DEF HolderAt, Gone
<1> QED BY <1>2, <1>3 DEF Inv, Placed

LEMMA ReloadFileStep ==
    ASSUME Inv, NEW p \in Goroutine, ReloadFile(p) PROVE Inv'
<1>1. Types /\ call[p].at = "reloading" /\ call[p] \in CallType
  BY DEF ReloadFile, At, Inv, Types
<1>2. ~KeepIfThere(p)
  BY <1>1, NotThere, CallFields DEF KeepIfThere
<1>3. /\ Forget(p) /\ UNCHANGED <<diskVars, task>>
      /\ call' = [call EXCEPT ![p].at = "evict", ![p].then = "search"]
  BY <1>2 DEF ReloadFile
<1> DEFINE c == [call[p] EXCEPT !.at = "evict", !.then = "search"]
<1>4. c \in CallType /\ c.at = "evict" /\ c.then = "search" /\ c.op = call[p].op
  BY <1>1 DEF CallType, Labels, FreeLabels, Thens
<1>5. call' = [call EXCEPT ![p] = c]
  BY <1>3
<1> HIDE DEF c
<1>6. call' \in [Goroutine -> CallType] /\ call'[p] = c /\ SameCalls(p)
  BY <1>1, <1>4, <1>5, CallFacts
<1> QED BY <1>1, <1>3, <1>4, <1>6, ForgetStep DEF Gone, FreeLabels, diskVars

LEMMA EvictEndsStep ==
    ASSUME Inv, NEW p \in Goroutine, EvictEnds(p) PROVE Inv'
<1>1. /\ call[p].at = "evicted" /\ Forget(p) /\ Resume(p) /\ UNCHANGED <<diskVars, task>>
  BY DEF EvictEnds, At
<1>2. Types /\ call[p].then # "none"
  BY <1>1 DEF Inv, Calling
<1>3. /\ call' \in [Goroutine -> CallType] /\ SameCalls(p)
      /\ call'[p].at \in {"contains", "search", "load", "none"} /\ call'[p].op = call[p].op
  BY <1>1, <1>2, ResumeFacts
<1> QED BY <1>1, <1>3, ForgetStep DEF Gone, FreeLabels, diskVars

LEMMA DeleteEndsStep ==
    ASSUME Inv, NEW p \in Goroutine, DeleteEnds(p) PROVE Inv'
<1>1. /\ call[p].at = "deleted" /\ Forget(p) /\ Return(p, "ok") /\ UNCHANGED <<diskVars, task>>
  BY DEF DeleteEnds, At
<1>2. /\ call' \in [Goroutine -> CallType] /\ SameCalls(p)
      /\ call'[p].at = "none" /\ call'[p].op = call[p].op
  BY <1>1, ReturnFacts DEF Inv, Outs
<1> QED BY <1>1, <1>2, ForgetStep DEF Gone, FreeLabels, diskVars

LEMMA DataFacts ==
    ASSUME Types, NEW d \in Dir, NEW n \in Name, NEW content \in Content, Put(d, n, content)
    PROVE  /\ data' \in [Dir -> [Name -> Content]] /\ data'[d][n] = content
           /\ \A e \in Dir, m \in Name : e # d \/ m # n => data'[e][m] = data[e][m]
BY DEF Types, Put

(* The lock is given back, and the entry stays. *)
LEMMA LeaveStep ==
    ASSUME Inv, NEW p \in Goroutine, NEW n \in Name, holding[p] = n, call[p].at # "evicted",
           FM!Leave(p), UNCHANGED <<state, meta, task>>,
           SameCalls(p), call' \in [Goroutine -> CallType],
           call'[p].at \in FreeLabels \ {"store"}, call'[p].op = call[p].op,
           call'[p].at = "evict" => call'[p].then # "none",
           data' \in [Dir -> [Name -> Content]], lat' \in [Dir -> SUBSET Name],
           hand' \in [Goroutine -> Dir \cup {"unlinked", "closed"}],
           \A d \in Dir, m \in Name : m # n => /\ data'[d][m] = data[d][m]
                                               /\ m \in lat[d] => m \in lat'[d],
           state[n] = "download" /\ n \in lat["download"] => n \in lat'["download"],
           \A d \in Dir : data'[d][n] # "none" <=> d = state[n],
           \A q \in Goroutine : Linked(q)' /\ (hand'[q] # "closed" => hand[q] # "closed")
    PROVE  Inv'
<1>1. Types /\ Calling(p) /\ Locking(p) /\ Alone
  BY DEF Inv
<1>2. holding[p] # None /\ FM!Release(p) /\ UNCHANGED stored
  BY DEF FM!Leave
<1>3. call[p].at # "none"
  BY <1>1, <1>2 DEF Locking, FreeLabels
<1>4. /\ Others(p) /\ holding' \in [Goroutine -> Name \cup {None}] /\ holding'[p] = None
      /\ exclusive' \subseteq Goroutine /\ ~HolderAt(n, Gone)' /\ ~HolderAt(n, {"evicted"})'
  BY <1>2, Released
<1>5. Types'
  BY <1>1, <1>2, <1>4 DEF Types
<1>6. Calling(p)'
  BY <1>1, <1>3 DEF Calling, File, FreeLabels
<1>7. Locking(p)'
  BY <1>4 DEF Locking, OwnLabels, FreeLabels
<1>8. Placed(n)'
  BY <1>4 DEF Placed, OnDisk
<1>9. Remembered(n)'
  <2>1. ~HolderAt(n, {"evicted"})
    BY <1>1, HolderIs
  <2> QED BY <2>1 DEF Inv, Remembered
<1>10. \A m \in Name \ {n} : /\ Untouched(m)
                             /\ m \in meta' => m \in meta
                             /\ m \in lat["download"] => m \in lat'["download"]
  BY <1>2 DEF Untouched, OnDisk, Dir
<1> QED BY <1>2, <1>4, <1>5, <1>6, <1>7, <1>8, <1>9, <1>10, EntryStep

LEMMA CreateFileStep ==
    ASSUME Inv, NEW p \in Goroutine, CreateFile(p) PROVE Inv'
<1>1. Types /\ call[p].at = "creating" /\ call[p] \in CallType /\ Calling(p) /\ Locking(p)
  BY DEF CreateFile, At, Inv, Types
<1>2. UNCHANGED <<lat, hand, task>>
  BY DEF CreateFile
<1>3. PICK n \in Name : n = File(p) /\ holding[p] = n /\ \A d \in Dir : ~OnDisk(d, n)
  BY <1>1, NotThere
<1>4. ASSUME NEW out \in Outs, call' = [call EXCEPT ![p].at = "evict", ![p].then = out]
      PROVE  /\ call' \in [Goroutine -> CallType] /\ SameCalls(p)
             /\ call'[p].at = "evict" /\ call'[p].then # "none" /\ call'[p].op = call[p].op
  <2> DEFINE c == [call[p] EXCEPT !.at = "evict", !.then = out]
  <2>1. c \in CallType /\ c.at = "evict" /\ c.then = out /\ c.op = call[p].op
    BY <1>1 DEF CallType, Labels, FreeLabels, Thens
  <2>2. call' = [call EXCEPT ![p] = c]
    BY <1>4
  <2> HIDE DEF c
  <2>3. call' \in [Goroutine -> CallType] /\ call'[p] = c /\ SameCalls(p)
    BY <1>1, <2>1, <2>2, CallFacts
  <2> QED BY <2>1, <2>3 DEF Outs
<1> DEFINE content == IF call[p].op = "link" THEN "whole" ELSE "part"
<1>5. CASE Put(call[p].dir, File(p), content) /\ FM!Leave(p) /\ UNCHANGED entryVars
           /\ call' = [call EXCEPT ![p].at = "evict", ![p].then = "ok"]
  <2>1. content \in Content /\ content # "none"
    BY DEF Content
  <2>2. Put(call[p].dir, n, content)
    BY <1>3, <1>5
  <2> HIDE DEF content
  <2>3. call[p].dir \in Dir /\ state[n] = call[p].dir
    BY <1>1, <1>3, CallFields DEF Locking
  <2>4. /\ data' \in [Dir -> [Name -> Content]] /\ data'[call[p].dir][n] = content
        /\ \A e \in Dir, m \in Name : e # call[p].dir \/ m # n => data'[e][m] = data[e][m]
    BY <1>1, <2>1, <2>2, <2>3, DataFacts
  <2>5. \A d \in Dir : data'[d][n] # "none" <=> d = state[n]
    BY <1>3, <2>1, <2>3, <2>4 DEF OnDisk
  <2>6. ASSUME NEW q \in Goroutine
        PROVE  Linked(q)' /\ (hand'[q] # "closed" => hand[q] # "closed")
    <3>1. Linked(q) /\ Calling(q) /\ hand'[q] = hand[q] /\ task' = task
      BY <1>2 DEF Inv
    <3>2. hand[q] \in Dir => File(q) \in Name /\ hand[q] # "closed"
      BY <3>1, OpFacts DEF Calling, Dir
    <3>3. Linked(q)'
      BY <2>1, <2>4, <3>1, <3>2 DEF Linked, OnDisk, File
    <3> QED BY <3>1, <3>3
  <2>7. /\ call' \in [Goroutine -> CallType] /\ SameCalls(p)
        /\ call'[p].at = "evict" /\ call'[p].then # "none" /\ call'[p].op = call[p].op
    BY <1>4, <1>5 DEF Outs
  <2>8. UNCHANGED <<state, meta>> /\ FM!Leave(p)
    BY <1>5 DEF entryVars
  <2>9. lat' \in [Dir -> SUBSET Name] /\ hand' \in [Goroutine -> Dir \cup {"unlinked", "closed"}]
    BY <1>1, <1>2 DEF Types
  <2> QED BY <1>1, <1>2, <1>3, <2>4, <2>5, <2>6, <2>7, <2>8, <2>9, LeaveStep DEF FreeLabels
<1>6. ASSUME NEW out \in {"exists", "error"}, Forget(p), UNCHANGED data,
             call' = [call EXCEPT ![p].at = "evict", ![p].then = out]
      PROVE  Inv'
  <2>1. /\ call' \in [Goroutine -> CallType] /\ SameCalls(p)
        /\ call'[p].at = "evict" /\ call'[p].then # "none" /\ call'[p].op = call[p].op
    BY <1>4, <1>6 DEF Outs
  <2> QED BY <1>1, <1>2, <1>6, <2>1, ForgetStep DEF Gone, FreeLabels
<1> QED BY <1>5, <1>6 DEF CreateFile

LEMMA RefusedStep ==
    ASSUME Inv, NEW p \in Goroutine, Refused(p) PROVE Inv'
<1>1. /\ call[p].at = "refused" /\ FM!Leave(p) /\ UNCHANGED <<diskVars, entryVars, task>>
      /\ \E out \in {"exists", "state"} : Return(p, out)
  BY DEF Refused, At
<1>2. Types /\ Calling(p) /\ Locking(p)
  BY DEF Inv
<1>3. PICK n \in Name : n = File(p) /\ holding[p] = n
  BY <1>1, <1>2 DEF Calling, Locking, OwnLabels
<1>4. /\ call' \in [Goroutine -> CallType] /\ SameCalls(p)
      /\ call'[p].at = "none" /\ call'[p].op = call[p].op
  BY <1>1, <1>2, ReturnFacts DEF Outs
<1>5. ~HolderAt(n, Gone)
  BY <1>1, <1>3, HolderIs DEF Inv, Gone
<1>6. \A d \in Dir : data'[d][n] # "none" <=> d = state[n]
  BY <1>1, <1>5 DEF Inv, Placed, OnDisk, diskVars
<1>7. \A q \in Goroutine : Linked(q)' /\ (hand'[q] # "closed" => hand[q] # "closed")
  BY <1>1 DEF Inv, Linked, OnDisk, File, diskVars
<1>8. UNCHANGED <<data, lat, hand, state, meta, task>>
  BY <1>1 DEF diskVars, entryVars
<1>9. /\ data' \in [Dir -> [Name -> Content]] /\ lat' \in [Dir -> SUBSET Name]
      /\ hand' \in [Goroutine -> Dir \cup {"unlinked", "closed"}]
  BY <1>2, <1>8 DEF Types
<1> QED BY <1>1, <1>3, <1>4, <1>6, <1>7, <1>8, <1>9, LeaveStep DEF FreeLabels

-----------------------------------------------------------------------------
(* Files are removed and moved under the lock of their entry. *)

LEMMA RemoveDirFacts ==
    ASSUME Inv, NEW d \in Dir, NEW n \in Name, RemoveDir(d, n), task' = task
    PROVE  /\ data' \in [Dir -> [Name -> Content]] /\ data'[d][n] = "none"
           /\ \A e \in Dir, m \in Name : e # d \/ m # n => data'[e][m] = data[e][m]
           /\ lat' \in [Dir -> SUBSET Name]
           /\ \A e \in Dir, m \in Name : m # n \/ e # d => (m \in lat'[e] <=> m \in lat[e])
           /\ hand' \in [Goroutine -> Dir \cup {"unlinked", "closed"}]
           /\ \A q \in Goroutine : Linked(q)' /\ (hand'[q] # "closed" => hand[q] # "closed")
<1>1. Types
  BY DEF Inv
<1>2. /\ Put(d, n, "none") /\ lat' = [lat EXCEPT ![d] = @ \ {n}]
      /\ hand' = [q \in Goroutine |-> IF hand[q] = d /\ File(q) = n THEN "unlinked" ELSE hand[q]]
  BY DEF RemoveDir, Relink
<1>3. /\ data' \in [Dir -> [Name -> Content]] /\ data'[d][n] = "none"
      /\ \A e \in Dir, m \in Name : e # d \/ m # n => data'[e][m] = data[e][m]
  BY <1>1, <1>2, DataFacts DEF Content
<1>4. /\ lat' \in [Dir -> SUBSET Name]
      /\ \A e \in Dir, m \in Name : m # n \/ e # d => (m \in lat'[e] <=> m \in lat[e])
  BY <1>1, <1>2 DEF Types
<1>5. hand' \in [Goroutine -> Dir \cup {"unlinked", "closed"}]
  BY <1>1, <1>2 DEF Types
<1>6. ASSUME NEW q \in Goroutine
      PROVE  Linked(q)' /\ (hand'[q] # "closed" => hand[q] # "closed")
  <2>1. Linked(q) /\ Calling(q)
    BY DEF Inv
  <2>2. hand'[q] = IF hand[q] = d /\ File(q) = n THEN "unlinked" ELSE hand[q]
    BY <1>2
  <2>3. hand'[q] # "closed" => hand[q] # "closed"
    BY <2>2 DEF Dir
  <2>4. ASSUME hand'[q] \in Dir
        PROVE  data'[hand'[q]][task'[q].name] # "none"
    <3>1. hand'[q] = hand[q] /\ hand[q] \in Dir /\ ~(hand[q] = d /\ File(q) = n)
      BY <2>2, <2>4 DEF Dir
    <3>2. File(q) \in Name /\ OnDisk(hand[q], File(q))
      BY <2>1, <3>1 DEF Linked, Calling, Dir
    <3> QED BY <1>3, <3>1, <3>2 DEF OnDisk, File
  <2> QED BY <2>3, <2>4 DEF Linked, OnDisk, File
<1> QED BY <1>3, <1>4, <1>5, <1>6

(* The lock is kept, and the file is gone or has moved. *)
LEMMA KeepStep ==
    ASSUME Inv, NEW p \in Goroutine, NEW n \in Name, holding[p] = n,
           call[p].at \notin FreeLabels, UNCHANGED <<mapVars, meta, task>>,
           SameCalls(p), call' \in [Goroutine -> CallType],
           call'[p].op = call[p].op, call'[p].then = call[p].then,
           \/ call'[p].at = "evicted" /\ call[p].at = "evicting"
           \/ call'[p].at = "rename" /\ n = File(p) /\ state'[n] = "download" /\ call[p].op = "move"
           \/ call'[p].at = "clean" /\ n = File(p) /\ state'[n] = "cache" /\ call[p].op = "move"
           \/ call'[p].at = "deleted" /\ n = File(p) /\ state'[n] = "cache",
           data' \in [Dir -> [Name -> Content]], lat' \in [Dir -> SUBSET Name],
           hand' \in [Goroutine -> Dir \cup {"unlinked", "closed"}],
           state' \in [Name -> Dir \cup {"none"}], state'[n] # "none",
           \A m \in Name \ {n} : /\ state'[m] = state[m]
                                 /\ \A d \in Dir : /\ data'[d][m] = data[d][m]
                                                   /\ m \in lat[d] => m \in lat'[d],
           \A d \in Dir : data'[d][n] # "none" <=> d = state'[n] /\ call'[p].at \notin Gone,
           \/ state'[n] = "cache" \/ call'[p].at = "evicted"
           \/ n \in lat["download"] /\ state[n] = "download" => n \in lat'["download"],
           call'[p].at \in {"evicted", "clean", "deleted"} \/ state[n] = "download",
           call[p].at # "evicted",
           \A q \in Goroutine : Linked(q)' /\ (hand'[q] # "closed" => hand[q] # "closed")
    PROVE  Inv'
<1>1. Types /\ Calling(p) /\ Locking(p) /\ Alone /\ Remembered(n)
  BY DEF Inv
<1>2. Others(p) /\ UNCHANGED <<stored, holding, exclusive>>
  BY DEF Others, mapVars
<1>3. n \in stored /\ p \in exclusive
  BY <1>1 DEF Locking
<1>4. Types'
  BY <1>1, <1>2, <1>3 DEF Types
<1>5. Calling(p)'
  BY <1>1 DEF Calling, File, FreeLabels
<1>6. Locking(p)'
  BY <1>2, <1>3 DEF Locking, OwnLabels, FreeLabels, File
<1>7. Alone'
  BY <1>1, <1>2 DEF Alone
<1>8. Placed(n)'
  <2>1. HolderAt(n, Gone)' <=> call'[p].at \in Gone
    BY <1>2, <1>7, HolderIsNext
  <2> QED BY <2>1 DEF Placed, OnDisk
<1>9. Remembered(n)'
  <2>1. HolderAt(n, {"evicted"})' <=> call'[p].at \in {"evicted"}
    BY <1>2, <1>7, HolderIsNext
  <2>2. HolderAt(n, {"evicted"}) <=> call[p].at \in {"evicted"}
    BY <1>1, HolderIs
  <2> QED BY <1>1, <2>1, <2>2 DEF Remembered
<1>10. \A m \in Name \ {n} : /\ Untouched(m)
                             /\ m \in meta' => m \in meta
                             /\ m \in lat["download"] => m \in lat'["download"]
  BY <1>2 DEF Untouched, OnDisk, Dir
<1>11. holding[p] # None /\ holding'[p] = n
  BY <1>2, NoneAssumption
<1> QED BY <1>2, <1>4, <1>5, <1>6, <1>8, <1>9, <1>10, <1>11, EntryStep

(* Under the lock of an entry whose file has not been removed the file is  *)
(* where its state says.                                                   *)
LEMMA UnderLock ==
    ASSUME Inv, NEW p \in Goroutine, NEW n \in Name, holding[p] = n, call[p].at \notin Gone
    PROVE  /\ state[n] \in Dir /\ n \in stored
           /\ \A d \in Dir : data[d][n] # "none" <=> d = state[n]
<1>1. ~HolderAt(n, Gone)
  BY HolderIs DEF Inv
<1>2. n \in stored
  BY NoneAssumption, HoldersAreStored
<1> QED BY <1>1, <1>2 DEF Inv, Types, Placed, OnDisk

LEMMA EvictFileStep ==
    ASSUME Inv, NEW p \in Goroutine, EvictFile(p) PROVE Inv'
<1>1. /\ call[p].at = "evicting" /\ RemoveDir(state[holding[p]], holding[p])
      /\ GoOn(p, "evicted") /\ UNCHANGED <<mapVars, entryVars, task>>
  BY DEF EvictFile, At
<1>2. Types /\ Locking(p)
  BY DEF Inv
<1>3. PICK n \in Name : n = holding[p]
  BY <1>1, <1>2 DEF Locking, FreeLabels, Types
<1>4. /\ state[n] \in Dir /\ n \in stored
      /\ \A d \in Dir : data[d][n] # "none" <=> d = state[n]
  BY <1>1, <1>3, UnderLock DEF Gone
<1>5. /\ call' \in [Goroutine -> CallType] /\ SameCalls(p) /\ call'[p].at = "evicted"
      /\ call'[p].op = call[p].op /\ call'[p].then = call[p].then
  BY <1>1, <1>2, GoOnFacts DEF Labels, EvictLabels
<1>6. UNCHANGED <<state, meta, task>> /\ RemoveDir(state[n], n)
  BY <1>1, <1>3 DEF entryVars
<1>7. /\ data' \in [Dir -> [Name -> Content]] /\ data'[state[n]][n] = "none"
      /\ \A e \in Dir, m \in Name : e # state[n] \/ m # n => data'[e][m] = data[e][m]
      /\ lat' \in [Dir -> SUBSET Name]
      /\ \A e \in Dir, m \in Name : m # n \/ e # state[n] => (m \in lat'[e] <=> m \in lat[e])
      /\ hand' \in [Goroutine -> Dir \cup {"unlinked", "closed"}]
      /\ \A q \in Goroutine : Linked(q)' /\ (hand'[q] # "closed" => hand[q] # "closed")
  BY <1>4, <1>6, RemoveDirFacts
<1>8. \A d \in Dir : data'[d][n] # "none" <=> d = state'[n] /\ call'[p].at \notin Gone
  BY <1>4, <1>5, <1>7 DEF Gone
<1>9. state' \in [Name -> Dir \cup {"none"}] /\ state'[n] # "none"
  BY <1>2, <1>4, <1>6 DEF Types, Dir
<1> QED BY <1>1, <1>3, <1>4, <1>5, <1>6, <1>7, <1>8, <1>9, KeepStep DEF FreeLabels

LEMMA DeleteFileStep ==
    ASSUME Inv, NEW p \in Goroutine, DeleteFile(p) PROVE Inv'
<1>1. /\ call[p].at = "delete" /\ RemoveDir(state[File(p)], File(p))
      /\ GoOn(p, "deleted") /\ UNCHANGED <<mapVars, entryVars, task>>
  BY DEF DeleteFile, At
<1>2. Types /\ Locking(p) /\ Calling(p)
  BY DEF Inv
<1>3. PICK n \in Name : n = File(p) /\ n = holding[p] /\ state[n] = "cache"
  BY <1>1, <1>2 DEF Locking, Calling, OwnLabels
<1>4. /\ state[n] \in Dir /\ n \in stored
      /\ \A d \in Dir : data[d][n] # "none" <=> d = state[n]
  BY <1>1, <1>3, UnderLock DEF Gone
<1>5. /\ call' \in [Goroutine -> CallType] /\ SameCalls(p) /\ call'[p].at = "deleted"
      /\ call'[p].op = call[p].op /\ call'[p].then = call[p].then
  BY <1>1, <1>2, GoOnFacts DEF Labels, OwnLabels
<1>6. UNCHANGED <<state, meta, task>> /\ RemoveDir(state[n], n)
  BY <1>1, <1>3 DEF entryVars
<1>7. /\ data' \in [Dir -> [Name -> Content]] /\ data'[state[n]][n] = "none"
      /\ \A e \in Dir, m \in Name : e # state[n] \/ m # n => data'[e][m] = data[e][m]
      /\ lat' \in [Dir -> SUBSET Name]
      /\ \A e \in Dir, m \in Name : m # n \/ e # state[n] => (m \in lat'[e] <=> m \in lat[e])
      /\ hand' \in [Goroutine -> Dir \cup {"unlinked", "closed"}]
      /\ \A q \in Goroutine : Linked(q)' /\ (hand'[q] # "closed" => hand[q] # "closed")
  BY <1>4, <1>6, RemoveDirFacts
<1>8. \A d \in Dir : data'[d][n] # "none" <=> d = state'[n] /\ call'[p].at \notin Gone
  BY <1>4, <1>5, <1>7 DEF Gone
<1>9. state' \in [Name -> Dir \cup {"none"}] /\ state'[n] = "cache"
  BY <1>2, <1>3, <1>6 DEF Types
<1> QED BY <1>1, <1>3, <1>5, <1>6, <1>7, <1>8, <1>9, KeepStep DEF FreeLabels

LEMMA MoveLATStep ==
    ASSUME Inv, NEW p \in Goroutine, MoveLAT(p) PROVE Inv'
<1>1. /\ call[p].at = "move" /\ UNCHANGED <<data, hand, entryVars, task>>
  BY DEF MoveLAT, At
<1>2. Types /\ Locking(p) /\ Calling(p)
  BY DEF Inv
<1>3. PICK n \in Name : n = File(p) /\ n = holding[p] /\ state[n] = "download"
  BY <1>1, <1>2 DEF Locking, Calling, OwnLabels
<1>4. /\ n \in stored /\ \A d \in Dir : data[d][n] # "none" <=> d = state[n]
  BY <1>1, <1>3, UnderLock DEF Gone
<1>5. UNCHANGED <<state, meta>>
  BY <1>1 DEF entryVars
<1>6. /\ data' \in [Dir -> [Name -> Content]]
      /\ hand' \in [Goroutine -> Dir \cup {"unlinked", "closed"}]
      /\ \A q \in Goroutine : Linked(q)' /\ (hand'[q] # "closed" => hand[q] # "closed")
  BY <1>1 DEF Inv, Types, Linked, OnDisk, File
<1>7. CASE /\ lat' = [lat EXCEPT !["cache"] = IF File(p) \in meta THEN @ \cup {File(p)} ELSE @]
           /\ GoOn(p, "rename") /\ UNCHANGED mapVars
  <2>1. /\ call' \in [Goroutine -> CallType] /\ SameCalls(p) /\ call'[p].at = "rename"
        /\ call'[p].op = call[p].op /\ call'[p].then = call[p].then
    BY <1>2, <1>7, GoOnFacts DEF Labels, OwnLabels
  <2>2. /\ lat' \in [Dir -> SUBSET Name]
        /\ \A d \in Dir, m \in Name : m \in lat[d] => m \in lat'[d]
    BY <1>2, <1>3, <1>7 DEF Types, Dir
  <2>3. call[p].op = "move"
    BY <1>1, <1>2 DEF Calling
  <2>4. \A d \in Dir : data'[d][n] # "none" <=> d = state'[n] /\ call'[p].at \notin Gone
    BY <1>1, <1>4, <1>5, <2>1 DEF Gone
  <2>5. state' \in [Name -> Dir \cup {"none"}] /\ state'[n] = "download" /\ "download" \in Dir
    BY <1>2, <1>3, <1>5 DEF Types, Dir
  <2> QED BY <1>1, <1>3, <1>5, <1>6, <1>7, <2>1, <2>2, <2>3, <2>4, <2>5, KeepStep DEF FreeLabels
<1>8. CASE FM!Leave(p) /\ Return(p, "missing") /\ UNCHANGED lat
  <2>1. /\ call' \in [Goroutine -> CallType] /\ SameCalls(p)
        /\ call'[p].at = "none" /\ call'[p].op = call[p].op
    BY <1>2, <1>8, ReturnFacts DEF Outs
  <2>2. lat' \in [Dir -> SUBSET Name] /\ \A d \in Dir : data'[d][n] # "none" <=> d = state[n]
    BY <1>1, <1>2, <1>4, <1>8 DEF Types
  <2> QED BY <1>1, <1>3, <1>5, <1>6, <1>8, <2>1, <2>2, LeaveStep DEF FreeLabels
<1> QED BY <1>7, <1>8 DEF MoveLAT

LEMMA RenameFacts ==
    ASSUME Types, NEW n \in Name,
           data' = [data EXCEPT !["cache"][n] = data["download"][n], !["download"][n] = "none"]
    PROVE  /\ data' \in [Dir -> [Name -> Content]]
           /\ data'["cache"][n] = data["download"][n] /\ data'["download"][n] = "none"
           /\ \A d \in Dir, m \in Name : m # n => data'[d][m] = data[d][m]
BY DEF Types, Dir, Content

LEMMA RenameStep ==
    ASSUME Inv, NEW p \in Goroutine, Rename(p) PROVE Inv'
<1>1. /\ call[p].at = "rename" /\ GoOn(p, "clean") /\ UNCHANGED <<mapVars, lat, meta, task>>
      /\ Relink("download", File(p), "cache")
  BY DEF Rename, At
<1>2. Types /\ Locking(p) /\ Calling(p)
  BY DEF Inv
<1>3. PICK n \in Name : n = File(p) /\ n = holding[p] /\ state[n] = "download"
  BY <1>1, <1>2 DEF Locking, Calling, OwnLabels
<1>4. n \in stored /\ \A d \in Dir : data[d][n] # "none" <=> d = state[n]
  BY <1>1, <1>3, UnderLock DEF Gone
<1>5. /\ call' \in [Goroutine -> CallType] /\ SameCalls(p) /\ call'[p].at = "clean"
      /\ call'[p].op = call[p].op /\ call'[p].then = call[p].then
  BY <1>1, <1>2, GoOnFacts DEF Labels, OwnLabels
<1>6. /\ data' \in [Dir -> [Name -> Content]]
      /\ data'["cache"][n] = data["download"][n] /\ data'["download"][n] = "none"
      /\ \A d \in Dir, m \in Name : m # n => data'[d][m] = data[d][m]
  BY <1>2, <1>3, RenameFacts DEF Rename
<1>7. /\ state' \in [Name -> Dir \cup {"none"}] /\ state'[n] = "cache"
      /\ \A m \in Name \ {n} : state'[m] = state[m]
  BY <1>2, <1>3 DEF Rename, Types, Dir
<1>8. data'["cache"][n] # "none"
  BY <1>3, <1>4, <1>6 DEF Dir
<1>9. \A d \in Dir : data'[d][n] # "none" <=> d = state'[n] /\ call'[p].at \notin Gone
  BY <1>5, <1>6, <1>7, <1>8 DEF Gone, Dir
<1>10. hand' = [q \in Goroutine |-> IF hand[q] = "download" /\ File(q) = n THEN "cache" ELSE hand[q]]
  BY <1>1, <1>3 DEF Relink
<1>11. hand' \in [Goroutine -> Dir \cup {"unlinked", "closed"}]
  BY <1>2, <1>10 DEF Types, Dir
<1>12. ASSUME NEW q \in Goroutine
       PROVE  Linked(q)' /\ (hand'[q] # "closed" => hand[q] # "closed")
  <2>1. Linked(q) /\ Calling(q)
    BY DEF Inv
  <2>2. hand'[q] = IF hand[q] = "download" /\ File(q) = n THEN "cache" ELSE hand[q]
    BY <1>10
  <2>3. hand'[q] # "closed" => hand[q] # "closed"
    BY <2>2 DEF Dir
  <2>4. ASSUME hand'[q] \in Dir
        PROVE  data'[hand'[q]][task'[q].name] # "none"
    <3>1. CASE File(q) = n
      <4>1. hand[q] \in Dir /\ hand'[q] = "cache"
        BY <2>2, <2>4, <3>1 DEF Dir
      <4> QED BY <1>1, <1>8, <3>1, <4>1 DEF File
    <3>2. CASE File(q) # n
      <4>1. hand'[q] = hand[q] /\ hand[q] \in Dir
        BY <2>2, <2>4, <3>2
      <4>2. File(q) \in Name /\ OnDisk(hand[q], File(q))
        BY <2>1, <4>1 DEF Linked, Calling, Dir
      <4> QED BY <1>1, <1>6, <3>2, <4>1, <4>2 DEF OnDisk, File
    <3> QED BY <3>1, <3>2
  <2> QED BY <2>3, <2>4 DEF Linked, OnDisk, File
<1>13. call[p].op = "move" /\ lat' \in [Dir -> SUBSET Name]
  BY <1>1, <1>2 DEF Calling, Types
<1> QED BY <1>1, <1>3, <1>5, <1>6, <1>7, <1>9, <1>11, <1>12, <1>13, KeepStep DEF FreeLabels

LEMMA CleanSourceStep ==
    ASSUME Inv, NEW p \in Goroutine, CleanSource(p) PROVE Inv'
<1>1. /\ call[p].at = "clean" /\ RemoveDir("download", File(p)) /\ FM!Leave(p)
      /\ Return(p, "ok") /\ UNCHANGED <<entryVars, task>>
  BY DEF CleanSource, At
<1>2. Types /\ Locking(p) /\ Calling(p)
  BY DEF Inv
<1>3. PICK n \in Name : n = File(p) /\ n = holding[p] /\ state[n] = "cache"
  BY <1>1, <1>2 DEF Locking, Calling, OwnLabels
<1>4. n \in stored /\ \A d \in Dir : data[d][n] # "none" <=> d = state[n]
  BY <1>1, <1>3, UnderLock DEF Gone
<1>5. /\ call' \in [Goroutine -> CallType] /\ SameCalls(p)
      /\ call'[p].at = "none" /\ call'[p].op = call[p].op
  BY <1>1, <1>2, ReturnFacts DEF Outs
<1>6. UNCHANGED <<state, meta, task>> /\ RemoveDir("download", n) /\ "download" \in Dir
  BY <1>1, <1>3 DEF entryVars, Dir
<1>7. /\ data' \in [Dir -> [Name -> Content]] /\ data'["download"][n] = "none"
      /\ \A e \in Dir, m \in Name : e # "download" \/ m # n => data'[e][m] = data[e][m]
      /\ lat' \in [Dir -> SUBSET Name]
      /\ \A e \in Dir, m \in Name : m # n \/ e # "download" => (m \in lat'[e] <=> m \in lat[e])
      /\ hand' \in [Goroutine -> Dir \cup {"unlinked", "closed"}]
      /\ \A q \in Goroutine : Linked(q)' /\ (hand'[q] # "closed" => hand[q] # "closed")
  BY <1>6, RemoveDirFacts
<1>8. \A d \in Dir : data'[d][n] # "none" <=> d = state[n]
  BY <1>3, <1>4, <1>7 DEF Dir
<1> QED BY <1>1, <1>3, <1>5, <1>6, <1>7, <1>8, LeaveStep DEF FreeLabels

(* A body is written to the file that is open, wherever it is linked. *)
LEMMA CopyBodyStep ==
    ASSUME Inv, NEW p \in Goroutine, CopyBody(p) PROVE Inv'
<1>1. /\ call[p].at = "none" /\ task[p].do = "pull" /\ call[p].op = "write"
      /\ hand' = [hand EXCEPT ![p] = "closed"] /\ Begin(p, "verify")
      /\ UNCHANGED <<mapVars, lat, entryVars, task>>
      /\ IF hand[p] \in Dir
         THEN \E content \in {data[hand[p]][File(p)], "whole"} : Put(hand[p], File(p), content)
         ELSE UNCHANGED data
  BY DEF CopyBody, Doing, Did, At
<1>2. Types /\ Calling(p) /\ Linked(p)
  BY DEF Inv
<1>3. PICK n \in Name : n = File(p)
  BY <1>1, <1>2 DEF Calling
<1>4. /\ data' \in [Dir -> [Name -> Content]]
      /\ \A d \in Dir, m \in Name : data'[d][m] = "none" <=> data[d][m] = "none"
  <2>1. CASE hand[p] \in Dir
    <3>1. PICK content \in {data[hand[p]][n], "whole"} : Put(hand[p], n, content)
      BY <1>1, <1>3, <2>1
    <3>2. data[hand[p]][n] # "none" /\ content \in Content
      BY <1>2, <1>3, <2>1 DEF Linked, OnDisk, Types, Content
    <3>3. PICK d \in Dir : d = hand[p]
      BY <2>1
    <3>4. /\ data' \in [Dir -> [Name -> Content]] /\ data'[d][n] = content
          /\ \A e \in Dir, m \in Name : e # d \/ m # n => data'[e][m] = data[e][m]
      BY <1>2, <3>1, <3>2, <3>3, DataFacts
    <3>5. content # "none"
      BY <3>2
    <3> QED BY <3>2, <3>3, <3>4, <3>5
  <2>2. CASE hand[p] \notin Dir
    BY <1>1, <1>2, <2>2 DEF Types
  <2> QED BY <2>1, <2>2
<1>5. /\ call' \in [Goroutine -> CallType] /\ SameCalls(p)
      /\ call'[p].at \in {"precheck", "contains"} /\ call'[p].op = "verify"
  BY <1>1, <1>2, BeginFacts DEF FileOps
<1>6. /\ hand' \in [Goroutine -> Dir \cup {"unlinked", "closed"}] /\ hand'[p] = "closed"
      /\ \A q \in Goroutine \ {p} : hand'[q] = hand[q]
  BY <1>1, <1>2 DEF Types
<1>7. Calling(p)' /\ Linked(p)'
  BY <1>1, <1>2, <1>5, <1>6 DEF Calling, Linked, OpsOf, File, Dir
<1>8. Others(p) /\ UNCHANGED <<mapVars, state, lat, meta, task>>
  BY <1>1, <1>5 DEF Others, mapVars, entryVars
<1>9. /\ lat' \in [Dir -> SUBSET Name] /\ \A d \in Dir : lat[d] \subseteq lat'[d]
      /\ meta' \subseteq stored /\ \A m \in meta' : m \in meta \/ m \in lat'[state[m]]
      /\ task' \in [Goroutine -> TaskType]
  BY <1>2, <1>8 DEF Types
<1> QED BY <1>1, <1>4, <1>5, <1>6, <1>7, <1>8, <1>9, WriteStep DEF FreeLabels

-----------------------------------------------------------------------------
(* The beginning, a restart, and every step. *)

LEMMA NoCallFacts ==
    /\ NoCall \in CallType /\ NoCall.at = "none" /\ NoCall.op = "stat"
    /\ NoTask \in TaskType /\ NoTask.do = "nothing"
BY DEF NoCall, CallType, FileOps, Labels, FreeLabels, Thens, Outs, Dir, NoTask, TaskType

(* Nobody does anything, and no download is there. *)
Quiet ==
    /\ data \in [Dir -> [Name -> Content]] /\ lat \in [Dir -> SUBSET Name]
    /\ state \in [Name -> {"cache", "none"}] /\ stored = {n \in Name : state[n] # "none"}
    /\ meta \subseteq stored /\ exclusive = {}
    /\ holding = [p \in Goroutine |-> None] /\ hand = [p \in Goroutine |-> "closed"]
    /\ task = [p \in Goroutine |-> NoTask] /\ call = [p \in Goroutine |-> NoCall]
    /\ \A n \in Name, d \in Dir : data[d][n] # "none" <=> d = state[n]

LEMMA QuietInv == Quiet => Inv
<1> SUFFICES ASSUME Quiet PROVE Inv
  OBVIOUS
<1> USE DEF Quiet
<1>1. /\ holding \in [Goroutine -> Name \cup {None}]
      /\ hand \in [Goroutine -> Dir \cup {"unlinked", "closed"}]
      /\ task \in [Goroutine -> TaskType] /\ call \in [Goroutine -> CallType]
  BY NoCallFacts
<1>2. Types
  BY <1>1 DEF Types, Dir
<1>3. ASSUME NEW p \in Goroutine
      PROVE  Calling(p) /\ Locking(p) /\ Linked(p)
  <2>1. /\ holding[p] = None /\ hand[p] = "closed"
        /\ task[p].do = "nothing" /\ call[p].at = "none" /\ call[p].op = "stat"
    BY NoCallFacts
  <2> QED BY <2>1 DEF Calling, Locking, Linked, OpsOf, OwnLabels, FreeLabels, Dir
<1>4. Alone
  BY DEF Alone
<1>5. ASSUME NEW n \in Name
      PROVE  Placed(n) /\ Remembered(n)
  <2>1. ~HolderAt(n, Gone)
    BY NoneAssumption DEF HolderAt
  <2>2. state[n] # "download"
    OBVIOUS
  <2> QED BY <2>1, <2>2 DEF Placed, Remembered, OnDisk
<1> QED BY <1>2, <1>3, <1>4, <1>5 DEF Inv

LEMMA InitInv == Init => Inv
<1> SUFFICES ASSUME Init PROVE Inv
  OBVIOUS
<1>1. /\ data = [d \in Dir |-> [n \in Name |-> "none"]] /\ lat = [d \in Dir |-> {}]
      /\ state = [n \in Name |-> "none"] /\ meta = {}
      /\ stored = {} /\ exclusive = {} /\ holding = [p \in Goroutine |-> None]
      /\ hand = [p \in Goroutine |-> "closed"]
      /\ task = [p \in Goroutine |-> NoTask] /\ call = [p \in Goroutine |-> NoCall]
  BY DEF Init, FM!Init
<1>2. /\ data \in [Dir -> [Name -> Content]] /\ lat \in [Dir -> SUBSET Name]
      /\ state \in [Name -> {"cache", "none"}]
      /\ stored = {n \in Name : state[n] # "none"} /\ meta \subseteq stored
  BY <1>1 DEF Content
<1>3. \A n \in Name, d \in Dir : data[d][n] # "none" <=> d = state[n]
  BY <1>1 DEF Dir
<1> QED BY <1>1, <1>2, <1>3, QuietInv DEF Quiet

LEMMA RestartFacts ==
    ASSUME Inv, Restart
    PROVE  /\ data' \in [Dir -> [Name -> Content]] /\ lat' \in [Dir -> SUBSET Name]
           /\ \E kept \in SUBSET {n \in Name : OnDisk("cache", n)} :
                /\ stored' = kept /\ meta' = kept
                /\ state' = [n \in Name |-> IF n \in kept THEN "cache" ELSE "none"]
                /\ data'["download"] = [n \in Name |-> "none"]
                /\ data'["cache"] = [n \in Name |-> IF n \in kept THEN data["cache"][n] ELSE "none"]
           /\ holding' = [p \in Goroutine |-> None] /\ exclusive' = {}
           /\ hand' = [p \in Goroutine |-> "closed"]
           /\ task' = [p \in Goroutine |-> NoTask] /\ call' = [p \in Goroutine |-> NoCall]
<1> DEFINE found == {n \in Name : OnDisk("cache", n)}
<1>1. PICK kept \in SUBSET found :
        /\ stored' = kept /\ meta' = kept
        /\ data' = [download |-> DownloadsLeft,
                    cache |-> [n \in Name |-> IF n \in kept THEN data["cache"][n] ELSE "none"]]
        /\ lat' = [download |-> {}, cache |-> (lat["cache"] \ found) \cup kept]
        /\ state' = [n \in Name |-> IF n \in kept THEN "cache" ELSE "none"]
        /\ holding' = [p \in Goroutine |-> None] /\ exclusive' = {}
        /\ task' = [p \in Goroutine |-> NoTask]
        /\ call' = [p \in Goroutine |-> NoCall]
        /\ hand' = [p \in Goroutine |-> "closed"]
  BY DEF Restart
<1>2. Types
  BY DEF Inv
<1> DEFINE inCache == [n \in Name |-> IF n \in kept THEN data["cache"][n] ELSE "none"]
           times   == (lat["cache"] \ found) \cup kept
<1>3. /\ inCache \in [Name -> Content] /\ DownloadsLeft \in [Name -> Content]
      /\ times \in SUBSET Name
  BY <1>2 DEF Types, Dir, Content, DownloadsLeft
<1>4. data' = [download |-> DownloadsLeft, cache |-> inCache] /\ lat' = [download |-> {}, cache |-> times]
  BY <1>1
<1>5. data'["download"] = DownloadsLeft /\ data'["cache"] = inCache
  BY <1>4
<1> HIDE DEF inCache, times
<1>6. /\ data' \in [Dir -> [Name -> Content]] /\ lat' \in [Dir -> SUBSET Name]
  BY <1>3, <1>4 DEF Dir
<1> QED BY <1>1, <1>5, <1>6 DEF inCache, DownloadsLeft

LEMMA QuietInvNext == Quiet' => Inv'
BY QuietInv, PTL

LEMMA RestartStep ==
    ASSUME Inv, Restart PROVE Inv'
<1>1. PICK kept \in SUBSET {n \in Name : OnDisk("cache", n)} :
        /\ stored' = kept /\ meta' = kept
        /\ state' = [n \in Name |-> IF n \in kept THEN "cache" ELSE "none"]
        /\ data'["download"] = [n \in Name |-> "none"]
        /\ data'["cache"] = [n \in Name |-> IF n \in kept THEN data["cache"][n] ELSE "none"]
  BY RestartFacts
<1>2. /\ state' \in [Name -> {"cache", "none"}]
      /\ stored' = {n \in Name : state'[n] # "none"} /\ meta' \subseteq stored'
  BY <1>1
<1>3. \A n \in Name, d \in Dir : data'[d][n] # "none" <=> d = state'[n]
  BY <1>1 DEF Dir, OnDisk
<1>4. Quiet'
  BY <1>2, <1>3, RestartFacts DEF Quiet
<1> QED BY <1>4, QuietInvNext

LEMMA NextInv ==
    ASSUME Inv, [Next]_vars PROVE Inv'
<1>1. CASE UNCHANGED vars
  <2>1. UNCHANGED <<stored, holding, exclusive, data, lat, hand, state, meta, task, call>>
    BY <1>1 DEF vars, mapVars, diskVars, entryVars
  <2>2. Types'
    BY <2>1 DEF Inv, Types
  <2>3. Alone' /\ \A p \in Goroutine : Calling(p)' /\ Locking(p)' /\ Linked(p)'
    BY <2>1 DEF Inv, Alone, Calling, Locking, Linked, OnDisk, File
  <2>4. \A n \in Name : Placed(n)' /\ Remembered(n)'
    BY <2>1 DEF Inv, Placed, Remembered, HolderAt, OnDisk
  <2> QED BY <2>2, <2>3, <2>4 DEF Inv
<1>2. ASSUME NEW p \in Goroutine, CallSteps(p) PROVE Inv'
  BY <1>2, LookStep, StoreFoundStep, ReloadFileStep, StoreStep, CreateFileStep, EvictOldestStep,
     EvictFileStep, EvictEndsStep, UseFileStep, LockFileStep, RefusedStep, MoveLATStep, RenameStep,
     CleanSourceStep, DeleteFileStep, DeleteEndsStep, TouchStep DEF CallSteps
<1> QED BY <1>1, <1>2, StartTaskStep, EndTaskStep, PullGoesOnStep, CopyBodyStep, RestartStep DEF Next

(* In every state a call has the lock its position asks for, and a file is *)
(* where the state of its entry says (file_entry.go, file_op.go).          *)
THEOREM Invariance == Spec => []Inv
<1>1. Init => Inv
  BY InitInv
<1>2. Inv /\ [Next]_vars => Inv'
  BY NextInv
<1> QED BY <1>1, <1>2, PTL DEF Spec

-----------------------------------------------------------------------------
(* What holds of map and disk together in every state, between the system  *)
(* calls of an operation and after a crash: the map knows every file on    *)
(* disk, what it knows is on disk in the directory of its state, and no    *)
(* file is in two states (file_entry.go:36, layer_tar_store.go:61).        *)
THEOREM StoreIsConsistent == Spec => []StoreInvariant
<1>1. Inv => StoreInvariant
  <2> SUFFICES ASSUME Inv PROVE StoreInvariant
    OBVIOUS
  <2>1. TypeOK
    <3>1. ASSUME NEW p \in Goroutine
          PROVE  /\ task[p].do \in {"nothing", "pull", "link", "delete"}
                 /\ call[p].op \in FileOps /\ call[p].left \subseteq Dir /\ call[p].dir \in Dir
      <4>1. task[p] \in TaskType /\ call[p] \in CallType
        BY DEF Inv, Types
      <4> QED BY <4>1, CallFields DEF TaskType
    <3> QED BY <3>1 DEF Inv, Types, TypeOK, Content
  <2>2. \A n \in Name, d \in Dir : OnDisk(d, n) => d = state[n] /\ n \in stored
    BY DEF Inv, Types, Placed, Dir
  <2>3. ASSUME NEW n \in Name, Unlocked(n), n \in stored
        PROVE  OnDisk(state[n], n)
    <3>1. ~HolderAt(n, Gone)
      BY <2>3 DEF HolderAt, Unlocked, FM!Holders
    <3>2. state[n] \in Dir
      BY <2>3 DEF Inv, Types
    <3> QED BY <3>1, <3>2 DEF Inv, Placed
  <2>4. MapMatchesDisk
    BY <2>2, <2>3 DEF MapMatchesDisk
  <2>5. OneState
    BY <2>2 DEF OneState, Dir
  <2> QED BY <2>1, <2>4, <2>5 DEF StoreInvariant
<1> QED BY <1>1, Invariance, PTL

(* The access time that a download remembers is on disk whenever the entry *)
(* can be locked, so Move finds it (file_entry.go:294).                    *)
THEOREM AccessTimesAreFound == Spec => []MoveFindsAccessTime
<1>1. Inv => MoveFindsAccessTime
  <2> SUFFICES ASSUME Inv, NEW n \in Name, Unlocked(n), state[n] = "download", n \in meta
               PROVE  n \in lat["download"]
    BY DEF MoveFindsAccessTime
  <2>1. ~HolderAt(n, {"evicted"})
    BY DEF HolderAt, Unlocked, FM!Holders
  <2> QED BY <2>1 DEF Inv, Remembered
<1> QED BY <1>1, Invariance, PTL

-----------------------------------------------------------------------------
(* What a step of a call does to the files: nothing, or one thing to one   *)
(* of them.                                                                *)

Same(n) == \A d \in Dir : data'[d][n] = data[d][n]
Removed(n) == \A d \in Dir : data'[d][n] = "none"
Made(n, where, content) ==
    /\ \A d \in Dir : data[d][n] = "none"
    /\ \A d \in Dir : data'[d][n] = IF d = where THEN content ELSE "none"
Moved(n) ==
    /\ data["download"][n] # "none" /\ data["cache"][n] = "none"
    /\ data'["download"][n] = "none" /\ data'["cache"][n] = data["download"][n]

Effect(p, n) ==
    /\ \A m \in Name \ {n} : Same(m)
    /\ \/ Same(n)
       \/ Removed(n) /\ \E d \in Dir : data[d][n] # "none"
       \/ Made(n, "download", "part") /\ n = File(p) /\ call[p].op = "create"
       \/ Made(n, "cache", "whole") /\ n = File(p) /\ call[p].op = "link"
       \/ Moved(n) /\ n = File(p) /\ call[p].op = "move"

LEMMA RemoveEffect ==
    ASSUME Inv, NEW p \in Goroutine, NEW n \in Name, holding[p] = n, call[p].at \notin Gone,
           RemoveDir(state[n], n), task' = task
    PROVE  Effect(p, n)
<1>1. state[n] \in Dir /\ \A d \in Dir : data[d][n] # "none" <=> d = state[n]
  BY UnderLock
<1>2. PICK d \in Dir : d = state[n]
  BY <1>1
<1>3. /\ data'[d][n] = "none"
      /\ \A e \in Dir, m \in Name : e # d \/ m # n => data'[e][m] = data[e][m]
  BY <1>2, RemoveDirFacts
<1>4. Removed(n) /\ data[d][n] # "none"
  BY <1>1, <1>2, <1>3 DEF Removed
<1>5. \A m \in Name \ {n} : Same(m)
  BY <1>3 DEF Same
<1> QED BY <1>4, <1>5 DEF Effect

LEMMA CreateEffect ==
    ASSUME Inv, NEW p \in Goroutine, CreateFile(p)
    PROVE  UNCHANGED data \/ \E n \in Name : Effect(p, n)
<1>1. /\ call[p].at = "creating"
      /\ \/ Put(call[p].dir, File(p), IF call[p].op = "link" THEN "whole" ELSE "part")
         \/ UNCHANGED data
  BY DEF CreateFile, At
<1>2. SUFFICES ASSUME Put(call[p].dir, File(p), IF call[p].op = "link" THEN "whole" ELSE "part")
               PROVE  \E n \in Name : Effect(p, n)
  BY <1>1
<1>3. Calling(p) /\ Types
  BY DEF Inv
<1>4. call[p].op \in {"create", "link"} /\ call[p].dir = Target(call[p].op)
  BY <1>1, <1>3 DEF Calling
<1>5. PICK n \in Name : n = File(p) /\ \A d \in Dir : ~OnDisk(d, n)
  BY <1>1, NotThere
<1> DEFINE d == Target(call[p].op)
           content == IF call[p].op = "link" THEN "whole" ELSE "part"
<1>6. d \in Dir /\ content \in Content /\ Put(d, n, content)
  BY <1>2, <1>4, <1>5 DEF Target, Dir, Content
<1> HIDE DEF d, content
<1>7. /\ data'[d][n] = content
      /\ \A e \in Dir, m \in Name : e # d \/ m # n => data'[e][m] = data[e][m]
  BY <1>3, <1>6, DataFacts
<1>8. Made(n, d, content) /\ \A m \in Name \ {n} : Same(m)
  BY <1>5, <1>7 DEF Made, Same, OnDisk
<1>9. \/ call[p].op = "create" /\ d = "download" /\ content = "part"
      \/ call[p].op = "link" /\ d = "cache" /\ content = "whole"
  BY <1>4 DEF d, content, Target
<1>10. Effect(p, n)
  BY <1>5, <1>8, <1>9 DEF Effect
<1> QED BY <1>10

LEMMA CallEffect ==
    ASSUME Inv, NEW p \in Goroutine, CallSteps(p)
    PROVE  UNCHANGED data \/ \E n \in Name : Effect(p, n)
<1>1. ASSUME EvictFile(p) PROVE \E n \in Name : Effect(p, n)
  <2>1. call[p].at = "evicting" /\ Locking(p) /\ Types
    BY <1>1 DEF EvictFile, At, Inv
  <2>2. PICK n \in Name : n = holding[p]
    BY <2>1 DEF Locking, FreeLabels, Types
  <2>3. RemoveDir(state[n], n) /\ task' = task
    BY <1>1, <2>2 DEF EvictFile
  <2> QED BY <2>1, <2>2, <2>3, RemoveEffect DEF Gone
<1>2. ASSUME DeleteFile(p) PROVE \E n \in Name : Effect(p, n)
  <2>1. call[p].at = "delete" /\ Locking(p) /\ Types
    BY <1>2 DEF DeleteFile, At, Inv
  <2>2. PICK n \in Name : n = holding[p] /\ n = File(p)
    BY <2>1 DEF Locking, FreeLabels, OwnLabels, Types
  <2>3. RemoveDir(state[n], n) /\ task' = task
    BY <1>2, <2>2 DEF DeleteFile
  <2> QED BY <2>1, <2>2, <2>3, RemoveEffect DEF Gone
<1>3. ASSUME Rename(p) PROVE \E n \in Name : Effect(p, n)
  <2>1. call[p].at = "rename" /\ Locking(p) /\ Types /\ Calling(p)
    BY <1>3 DEF Rename, At, Inv
  <2>2. PICK n \in Name : n = holding[p] /\ n = File(p) /\ state[n] = "download"
    BY <2>1 DEF Locking, FreeLabels, OwnLabels, Types
  <2>3. \A d \in Dir : data[d][n] # "none" <=> d = "download"
    BY <2>1, <2>2, UnderLock DEF Gone
  <2>4. /\ data'["cache"][n] = data["download"][n] /\ data'["download"][n] = "none"
        /\ \A d \in Dir, m \in Name : m # n => data'[d][m] = data[d][m]
    BY <1>3, <2>1, <2>2, RenameFacts DEF Rename
  <2>5. Moved(n) /\ call[p].op = "move" /\ \A m \in Name \ {n} : Same(m)
    BY <2>1, <2>3, <2>4 DEF Moved, Same, Calling, Dir
  <2> QED BY <2>2, <2>5 DEF Effect
<1>4. ASSUME CleanSource(p) PROVE \E n \in Name : Effect(p, n)
  <2>1. /\ call[p].at = "clean" /\ Locking(p) /\ Types
        /\ RemoveDir("download", File(p)) /\ task' = task
    BY <1>4 DEF CleanSource, At, Inv
  <2>2. PICK n \in Name : n = holding[p] /\ n = File(p) /\ state[n] = "cache"
    BY <2>1 DEF Locking, FreeLabels, OwnLabels, Types
  <2>3. data["download"][n] = "none"
    BY <2>1, <2>2, UnderLock DEF Gone, Dir
  <2>4. /\ data'["download"][n] = "none"
        /\ \A e \in Dir, m \in Name : e # "download" \/ m # n => data'[e][m] = data[e][m]
    BY <2>1, <2>2, RemoveDirFacts DEF Dir
  <2>5. \A m \in Name : Same(m)
    BY <2>3, <2>4 DEF Same
  <2> QED BY <2>5 DEF Effect
<1>5. ASSUME \/ Precheck(p) \/ InMap(p) \/ Search(p) \/ SearchEnds(p) \/ EvictNothing(p)
             \/ EvictOldest(p) \/ EvictEnds(p) \/ NotLoaded(p) \/ LockFile(p)
             \/ Refused(p) \/ DeleteEnds(p) \/ ReloadFile(p)
      PROVE  UNCHANGED data
  BY <1>5 DEF Precheck, InMap, Search, SearchEnds, EvictNothing, EvictOldest, EvictEnds,
              NotLoaded, LockFile, Refused, DeleteEnds, ReloadFile, diskVars
<1>6. ASSUME StoreFound(p) \/ Store(p) \/ UseFile(p) \/ MoveLAT(p) \/ Touch(p)
      PROVE  UNCHANGED data
  BY <1>6 DEF StoreFound, Store, UseFile, MoveLAT, Touch
<1> QED BY <1>1, <1>2, <1>3, <1>4, <1>5, <1>6, CreateEffect DEF CallSteps

(* What a step of a call says: it stays a call of its kind, and only what  *)
(* is verified is said to be.                                              *)
Tells(p) ==
    /\ SameCalls(p) /\ UNCHANGED task /\ call'[p].op = call[p].op
    /\ call'[p].then = "ok" => call[p].op \in {"create", "link"}
    /\ call[p].op = "verify" /\ call'[p].at = "none" /\ call'[p].out = "ok"
            => data'["download"][File(p)] # "part"

LEMMA LookTells ==
    ASSUME Inv, NEW p \in Goroutine, Ending(p),
           \/ Precheck(p) \/ InMap(p) \/ Search(p) \/ SearchEnds(p)
           \/ NotLoaded(p) \/ LockFile(p) \/ Refused(p) \/ MoveLAT(p)
    PROVE  Tells(p)
<1>1. Types /\ call[p] \in CallType
  BY DEF Inv, Types
<1>2. ASSUME NEW label \in Labels \ {"none"}, GoOn(p, label), UNCHANGED task PROVE Tells(p)
  BY <1>1, <1>2, GoOnFacts DEF Tells, Ending
<1>3. ASSUME NEW label \in Labels \ {"none"}, Found(p, label), UNCHANGED task PROVE Tells(p)
  BY <1>1, <1>3, FoundFacts DEF Tells
<1>4. ASSUME NEW out \in Outs, call[p].op = "verify" => out # "ok",
             Return(p, out), UNCHANGED task
      PROVE  Tells(p)
  BY <1>1, <1>4, ReturnFacts DEF Tells
<1>5. CASE Precheck(p)
  BY <1>2, <1>4, <1>5 DEF Precheck, Labels, FreeLabels, Outs
<1>6. CASE InMap(p)
  BY <1>2, <1>3, <1>6 DEF InMap, Labels, FreeLabels
<1>7. CASE Search(p)
  <2>1. PICK d \in call[p].left :
            call' = [call EXCEPT ![p].left = @ \ {d}, ![p].dir = d,
                                 ![p].at = IF OnDisk(d, File(p)) THEN "found" ELSE @]
    BY <1>7 DEF Search
  <2> DEFINE at == IF OnDisk(d, File(p)) THEN "found" ELSE call[p].at
             rest == call[p].left \ {d}
             c  == [call[p] EXCEPT !.left = rest, !.dir = d, !.at = at]
  <2>2. call' = [call EXCEPT ![p] = c]
    BY <2>1
  <2>3. at \in {"found", "search"} /\ rest \subseteq Dir /\ d \in Dir
    BY <1>1, <1>7, CallFields DEF Search, At
  <2> HIDE DEF at, rest
  <2>4. c \in CallType /\ c.at = at /\ c.op = call[p].op /\ c.then = call[p].then
    BY <1>1, <2>3 DEF CallType, Labels, FreeLabels
  <2> HIDE DEF c
  <2>5. SameCalls(p) /\ call'[p] = c
    BY <1>1, <2>2, <2>4, CallFacts
  <2>6. call'[p].at = at /\ call'[p].op = call[p].op /\ call'[p].then = call[p].then
    BY <2>4, <2>5
  <2>7. UNCHANGED task
    BY <1>7 DEF Search
  <2> QED BY <2>3, <2>5, <2>6, <2>7 DEF Tells, Ending
<1>8. CASE SearchEnds(p)
  BY <1>3, <1>4, <1>8 DEF SearchEnds, Labels, FreeLabels, Outs
<1>9. CASE NotLoaded(p)
  BY <1>4, <1>9 DEF NotLoaded, Outs
<1>10. CASE LockFile(p)
  <2>1. call[p].op \in {"move", "delete"} /\ GoOn(p, IF Accepted(p) THEN call[p].op ELSE "refused")
        /\ UNCHANGED task
    BY <1>10 DEF LockFile
  <2> QED BY <1>2, <2>1 DEF Labels, OwnLabels
<1>11. CASE Refused(p)
  BY <1>4, <1>11 DEF Refused, Outs
<1>12. CASE MoveLAT(p)
  BY <1>2, <1>4, <1>12 DEF MoveLAT, Labels, OwnLabels, Outs
<1> QED BY <1>5, <1>6, <1>7, <1>8, <1>9, <1>10, <1>11, <1>12

LEMMA ResumeTells ==
    ASSUME Inv, NEW p \in Goroutine, Ending(p), EvictNothing(p) \/ EvictEnds(p)
    PROVE  Tells(p)
<1>1. Types /\ Calling(p)
  BY DEF Inv
<1>2. call[p].at \in {"evict", "evicted"} /\ Resume(p) /\ UNCHANGED task
  BY DEF EvictNothing, EvictEnds, At
<1>3. call[p].then # "none"
  BY <1>1, <1>2 DEF Calling
<1>4. /\ SameCalls(p) /\ call'[p].op = call[p].op /\ call'[p].then = "none"
      /\ call'[p].at = "none" => call'[p].out = call[p].then
  BY <1>1, <1>2, <1>3, ResumeFacts
<1> QED BY <1>2, <1>4 DEF Tells, Ending

LEMMA FileTells ==
    ASSUME Inv, NEW p \in Goroutine, Ending(p),
           \/ EvictOldest(p) \/ EvictFile(p) \/ Rename(p) \/ CleanSource(p) \/ DeleteFile(p)
           \/ DeleteEnds(p) \/ UseFile(p) \/ Touch(p)
    PROVE  Tells(p)
<1>1. Types /\ Calling(p) /\ Locking(p) /\ call[p] \in CallType
  BY DEF Inv, Types
<1>2. ASSUME NEW label \in Labels \ {"none"}, GoOn(p, label), UNCHANGED task PROVE Tells(p)
  BY <1>1, <1>2, GoOnFacts DEF Tells, Ending
<1>3. CASE EvictOldest(p) \/ EvictFile(p) \/ Rename(p) \/ DeleteFile(p)
  BY <1>2, <1>3 DEF EvictOldest, EvictFile, Rename, DeleteFile, Labels, EvictLabels, OwnLabels
<1>4. CASE CleanSource(p)
  <2>1. call[p].at = "clean" /\ Return(p, "ok") /\ UNCHANGED task
    BY <1>4 DEF CleanSource, At
  <2>2. call[p].op = "move"
    BY <1>1, <2>1 DEF Calling
  <2> QED BY <1>1, <2>1, <2>2, ReturnFacts DEF Tells, Outs
<1>5. CASE DeleteEnds(p)
  <2>1. call[p].at = "deleted" /\ Return(p, "ok") /\ UNCHANGED <<data, task>>
    BY <1>5 DEF DeleteEnds, At, diskVars
  <2>2. holding[p] = File(p) /\ File(p) \in Name
    BY <1>1, <2>1 DEF Locking, OwnLabels, FreeLabels, Types
  <2>3. HolderAt(File(p), Gone)
    BY <2>1, <2>2 DEF HolderAt, Gone
  <2>4. data'["download"][File(p)] = "none"
    BY <2>1, <2>2, <2>3 DEF Inv, Placed, OnDisk, Dir
  <2> QED BY <1>1, <2>1, <2>4, ReturnFacts DEF Tells, Outs
<1>6. CASE UseFile(p)
  <2> DEFINE there == OnDisk(state[File(p)], File(p))
             out == CASE ~Accepted(p) -> "state"
                      [] call[p].again -> "exists"
                      [] ~there -> "missing"
                      [] call[p].op = "verify" /\ ~Verified(p) -> "error"
                      [] OTHER -> "ok"
  <2>1. Return(p, out) /\ UNCHANGED <<data, task>>
    BY <1>6 DEF UseFile
  <2>2. out \in Outs /\ (call[p].op = "verify" /\ out = "ok" => Verified(p))
    BY DEF Outs
  <2> HIDE DEF out
  <2>3. /\ SameCalls(p) /\ call'[p].op = call[p].op /\ call'[p].then = "none"
        /\ call'[p].out = out
    BY <1>1, <2>1, <2>2, ReturnFacts
  <2> QED BY <2>1, <2>2, <2>3 DEF Tells, Verified
<1>7. CASE Touch(p)
  <2>1. call[p].at \in {"precheck", "load"} /\ UNCHANGED <<task, call>>
    BY <1>7 DEF Touch, At
  <2> QED BY <2>1 DEF Tells, SameCalls, Ending
<1> QED BY <1>3, <1>4, <1>5, <1>6, <1>7

LEMMA StoreTells ==
    ASSUME Inv, NEW p \in Goroutine, Ending(p),
           StoreFound(p) \/ ReloadFile(p) \/ Store(p) \/ CreateFile(p)
    PROVE  Tells(p)
<1>1. Types /\ Calling(p) /\ call[p] \in CallType
  BY DEF Inv, Types
<1>2. CASE StoreFound(p)
  <2> DEFINE at == IF Present(p) THEN "evict" ELSE "reloading"
             c  == [call[p] EXCEPT !.at = at, !.then = AfterReload(p)]
  <2>1. call' = [call EXCEPT ![p] = c] /\ UNCHANGED task
    BY <1>2 DEF StoreFound
  <2>2. at \in Labels \ {"none"} /\ AfterReload(p) \in Thens \ {"ok"}
    BY DEF Labels, FreeLabels, OwnLabels, AfterReload, Thens, Outs
  <2> HIDE DEF at
  <2>3. c \in CallType /\ c.at = at /\ c.op = call[p].op /\ c.then = AfterReload(p)
    BY <1>1, <2>2 DEF CallType
  <2> HIDE DEF c
  <2> QED BY <1>1, <2>1, <2>2, <2>3, CallFacts DEF Tells
<1>3. CASE ReloadFile(p)
  <2>1. CASE GoOn(p, "evict")
    BY <1>1, <1>3, <2>1, GoOnFacts DEF Tells, Ending, ReloadFile, Labels, FreeLabels
  <2>2. CASE call' = [call EXCEPT ![p].at = "evict", ![p].then = "search"]
    <3> DEFINE c == [call[p] EXCEPT !.at = "evict", !.then = "search"]
    <3>1. call' = [call EXCEPT ![p] = c] /\ UNCHANGED task
      BY <1>3, <2>2 DEF ReloadFile
    <3>2. c \in CallType /\ c.at = "evict" /\ c.op = call[p].op /\ c.then = "search"
      BY <1>1 DEF CallType, Labels, FreeLabels, Thens
    <3> HIDE DEF c
    <3> QED BY <1>1, <3>1, <3>2, CallFacts DEF Tells
  <2> QED BY <1>3, <2>1, <2>2 DEF ReloadFile
<1>4. CASE Store(p)
  <2> DEFINE at == IF Present(p) THEN "evict" ELSE "creating"
             dir == Target(call[p].op)
             again == Present(p)
             left == Accept(call[p].op)
             c  == [call[p] EXCEPT !.dir = dir, !.again = again, !.left = left,
                                   !.at = at, !.then = "contains"]
  <2>1. call' = [call EXCEPT ![p] = c] /\ UNCHANGED task
    BY <1>4 DEF Store
  <2>2. at \in Labels \ {"none"} /\ dir \in Dir /\ again \in BOOLEAN /\ left \subseteq Dir
    BY DEF Labels, FreeLabels, OwnLabels, Target, Dir, Present, Accept
  <2> HIDE DEF at, dir, again, left
  <2>3. c \in CallType /\ c.at = at /\ c.op = call[p].op /\ c.then = "contains"
    BY <1>1, <2>2 DEF CallType, Thens
  <2> HIDE DEF c
  <2> QED BY <1>1, <2>1, <2>2, <2>3, CallFacts DEF Tells
<1>5. CASE CreateFile(p)
  <2>1. call[p].op \in {"create", "link"} /\ UNCHANGED task
    BY <1>1, <1>5 DEF Calling, CreateFile, At
  <2>2. PICK out \in Outs : call' = [call EXCEPT ![p].at = "evict", ![p].then = out]
    BY <1>5 DEF CreateFile, Outs
  <2> DEFINE c == [call[p] EXCEPT !.at = "evict", !.then = out]
  <2>3. call' = [call EXCEPT ![p] = c]
    BY <2>2
  <2>4. c \in CallType /\ c.at = "evict" /\ c.op = call[p].op
    BY <1>1 DEF CallType, Labels, FreeLabels, Thens
  <2> HIDE DEF c
  <2> QED BY <1>1, <2>1, <2>3, <2>4, CallFacts DEF Tells
<1> QED BY <1>2, <1>3, <1>4, <1>5

LEMMA CallTells ==
    ASSUME Inv, NEW p \in Goroutine, Ending(p), CallSteps(p)
    PROVE  Tells(p)
BY LookTells, ResumeTells, FileTells, StoreTells DEF CallSteps

-----------------------------------------------------------------------------
(* Where no two tasks pull a layer, what is moved into the cache is what   *)
(* was verified.                                                           *)

LEMMA PullsOf ==
    ASSUME Inv, NEW p \in Goroutine, call[p].op \in {"create", "write", "verify", "move"}
    PROVE  task[p].do = "pull" /\ File(p) \in Name
<1>1. Calling(p) /\ task[p] \in TaskType
  BY DEF Inv, Types
<1>2. task[p].do \in {"nothing", "pull", "link", "delete"}
  BY <1>1 DEF TaskType
<1> QED BY <1>1, <1>2 DEF Calling, OpsOf

(* An effect brings nothing unfinished where it is not looked for again. *)
LEMMA EffectIsSafe ==
    ASSUME Inv, PullInv, NEW p \in Goroutine, NEW n \in Name, Effect(p, n)
    PROVE  /\ CachedFilesAreComplete'
           /\ \A q \in Goroutine : Verifying(q) => data'["download"][File(q)] # "part"
<1>1. "download" \in Dir /\ "cache" \in Dir
  BY DEF Dir
<1>2. ASSUME NEW m \in Name
      PROVE  data'["cache"][m] # "part"
  <2>1. data["cache"][m] # "part"
    BY DEF PullInv, CachedFilesAreComplete
  <2>2. CASE Moved(n) /\ n = File(p) /\ call[p].op = "move" /\ m = n
    <3>1. data["download"][n] # "part"
      BY <2>2 DEF PullInv, Checked, Verifying
    <3> QED BY <2>2, <3>1 DEF Moved
  <2> QED BY <1>1, <2>1, <2>2 DEF Effect, Same, Removed, Made
<1>3. ASSUME NEW q \in Goroutine, Verifying(q)
      PROVE  data'["download"][File(q)] # "part"
  <2>1. data["download"][File(q)] # "part"
    BY <1>3 DEF PullInv, Checked
  <2>2. task[q].do = "pull" /\ File(q) \in Name /\ call[q].op \in {"verify", "move"}
    BY <1>3, PullsOf DEF Verifying
  <2>3. ~(n = File(q) /\ n = File(p) /\ call[p].op = "create")
    <3> SUFFICES ASSUME n = File(q), n = File(p), call[p].op = "create" PROVE FALSE
      OBVIOUS
    <3>1. p # q /\ task[p].do = "pull"
      BY <2>2, PullsOf
    <3> QED BY <2>2, <3>1 DEF PullInv, OnePull
  <2> QED BY <1>1, <2>1, <2>2, <2>3 DEF Effect, Same, Removed, Made, Moved
<1> QED BY <1>2, <1>3 DEF CachedFilesAreComplete

LEMMA CallPull ==
    ASSUME Inv, PullInv, NEW p \in Goroutine, CallSteps(p)
    PROVE  PullInv'
<1>1. Tells(p)
  BY CallTells DEF PullInv
<1>2. /\ CachedFilesAreComplete'
      /\ \A q \in Goroutine : Verifying(q) => data'["download"][File(q)] # "part"
  <2>1. CASE UNCHANGED data
    BY <2>1 DEF PullInv, CachedFilesAreComplete, Checked
  <2>2. CASE \E n \in Name : Effect(p, n)
    BY <2>2, EffectIsSafe
  <2> QED BY <2>1, <2>2, CallEffect
<1>3. OnePull'
  BY <1>1 DEF Tells, PullInv, OnePull, File
<1>4. ASSUME NEW q \in Goroutine
      PROVE  Checked(q)' /\ Ending(q)'
  <2>1. task' = task
    BY <1>1 DEF Tells
  <2>2. CASE q = p
    BY <1>1, <1>2, <2>1, <2>2 DEF Tells, Checked, Verifying, Ending, File
  <2>3. CASE q # p
    <3>1. call'[q] = call[q] /\ Ending(q)
      BY <1>1, <2>3 DEF Tells, SameCalls, PullInv
    <3> QED BY <1>2, <2>1, <3>1 DEF Checked, Verifying, Ending, File
  <2> QED BY <2>2, <2>3
<1> QED BY <1>2, <1>3, <1>4 DEF PullInv

(* A step between two calls leaves the other goroutines alone. *)
LEMMA BetweenCalls ==
    ASSUME PullInv, NEW p \in Goroutine, UNCHANGED data, SameCalls(p),
           \A q \in Goroutine \ {p} : task'[q] = task[q],
           \A q \in Goroutine \ {p} :
               task'[p].do = "pull" /\ task[q].do = "pull" => task'[p].name # File(q),
           Checked(p)', Ending(p)'
    PROVE  PullInv'
<1>1. OnePull'
  BY DEF PullInv, OnePull, File
<1>2. ASSUME NEW q \in Goroutine, q # p
      PROVE  Checked(q)' /\ Ending(q)'
  BY <1>2 DEF PullInv, SameCalls, Checked, Ending, Verifying, File
<1> QED BY <1>1, <1>2 DEF PullInv, CachedFilesAreComplete

LEMMA StartTaskPull ==
    ASSUME ~RepeatedLayers, Inv, PullInv, NEW p \in Goroutine, NEW n \in Name, StartTask(p, n)
    PROVE  PullInv'
<1>1. PICK what \in {"pull", "link", "delete"} :
        /\ what = "pull" => \A q \in Goroutine : task[q].name = n => task[q].do # "pull"
        /\ task' = [task EXCEPT ![p] = [do |-> what, name |-> n]]
        /\ Begin(p, IF what = "pull" THEN "stat" ELSE what)
  BY DEF StartTask
<1>2. Types /\ UNCHANGED data
  BY DEF Inv, StartTask, Calm, diskVars
<1> DEFINE o == IF what = "pull" THEN "stat" ELSE what
<1>3. o \in {"stat", "link", "delete"} /\ Begin(p, o)
  BY <1>1
<1> HIDE DEF o
<1>4. SameCalls(p) /\ call'[p].op = o /\ call'[p].then = "none"
  BY <1>2, <1>3, BeginFacts DEF FileOps
<1>5. Checked(p)' /\ Ending(p)'
  BY <1>3, <1>4 DEF Checked, Verifying, Ending
<1>6. /\ \A q \in Goroutine \ {p} : task'[q] = task[q]
      /\ task'[p].do = what /\ task'[p].name = n
  BY <1>1, <1>2 DEF Types
<1> QED BY <1>1, <1>2, <1>4, <1>5, <1>6, BetweenCalls DEF File

LEMMA EndTaskPull ==
    ASSUME Inv, PullInv, NEW p \in Goroutine, EndTask(p)
    PROVE  PullInv'
<1>1. /\ task' = [task EXCEPT ![p] = NoTask] /\ call' = [call EXCEPT ![p] = NoCall]
      /\ UNCHANGED data
  BY DEF EndTask
<1>2. Types
  BY DEF Inv
<1>3. SameCalls(p) /\ call'[p] = NoCall
  BY <1>1, <1>2, CallFacts, NoCallFacts
<1>4. Checked(p)' /\ Ending(p)'
  BY <1>3 DEF Checked, Verifying, Ending, NoCall
<1>5. /\ \A q \in Goroutine \ {p} : task'[q] = task[q]
      /\ task'[p].do = "nothing"
  BY <1>1, <1>2 DEF Types, NoTask
<1> QED BY <1>1, <1>3, <1>4, <1>5, BetweenCalls

LEMMA PullGoesOnPull ==
    ASSUME Inv, PullInv, NEW p \in Goroutine, PullGoesOn(p)
    PROVE  PullInv'
<1>1. /\ task[p].do = "pull" /\ call[p].at = "none" /\ UNCHANGED <<task, data>>
  BY DEF PullGoesOn, Doing, At, Calm, diskVars
<1>2. PICK o \in {"create", "write", "move"} :
        Begin(p, o) /\ (o = "move" => call[p].op = "verify" /\ call[p].out = "ok")
  BY DEF PullGoesOn, Did
<1>3. Types /\ Checked(p)
  BY DEF Inv, PullInv
<1>4. SameCalls(p) /\ call'[p].op = o /\ call'[p].then = "none"
  BY <1>2, <1>3, BeginFacts DEF FileOps
<1>5. Checked(p)' /\ Ending(p)'
  BY <1>1, <1>2, <1>3, <1>4 DEF Checked, Verifying, Ending, File
<1>6. \A q \in Goroutine \ {p} : task[q].do = "pull" => File(p) # File(q)
  BY <1>1 DEF PullInv, OnePull
<1> QED BY <1>1, <1>4, <1>5, <1>6, BetweenCalls DEF File

(* The body goes to a file of which some is there: no cached file is. *)
LEMMA CopyBodyPull ==
    ASSUME Inv, PullInv, NEW p \in Goroutine, CopyBody(p)
    PROVE  PullInv'
<1>1. /\ task' = task /\ Begin(p, "verify")
      /\ IF hand[p] \in Dir
         THEN \E content \in {data[hand[p]][File(p)], "whole"} : Put(hand[p], File(p), content)
         ELSE UNCHANGED data
  BY DEF CopyBody
<1>2. Types
  BY DEF Inv
<1>3. \A d \in Dir, m \in Name : data'[d][m] = "part" => data[d][m] = "part"
  BY <1>1, <1>2 DEF Put, Types
<1>4. SameCalls(p) /\ call'[p].at # "none" /\ call'[p].op = "verify" /\ call'[p].then = "none"
  BY <1>1, <1>2, BeginFacts DEF FileOps
<1>5. ASSUME NEW q \in Goroutine
      PROVE  Checked(q)' /\ Ending(q)'
  <2>1. CASE q = p
    BY <1>4, <2>1 DEF Checked, Verifying, Ending
  <2>2. CASE q # p
    <3>1. call'[q] = call[q] /\ Checked(q) /\ Ending(q)
      BY <1>4, <2>2 DEF SameCalls, PullInv
    <3> SUFFICES ASSUME Verifying(q) PROVE data'["download"][File(q)] # "part"
      BY <1>1, <3>1 DEF Checked, Verifying, Ending, File
    <3>2. File(q) \in Name
      BY PullsOf DEF Verifying
    <3> QED BY <1>3, <3>1, <3>2 DEF Checked, Dir
  <2> QED BY <2>1, <2>2
<1>6. CachedFilesAreComplete'
  BY <1>3 DEF PullInv, CachedFilesAreComplete, Dir
<1> QED BY <1>1, <1>5, <1>6 DEF PullInv, OnePull, File

LEMMA RestartPull ==
    ASSUME Inv, PullInv, Restart
    PROVE  PullInv'
<1>1. /\ task' = [p \in Goroutine |-> NoTask] /\ call' = [p \in Goroutine |-> NoCall]
      /\ \E kept \in SUBSET {n \in Name : OnDisk("cache", n)} :
            data'["cache"] = [n \in Name |-> IF n \in kept THEN data["cache"][n] ELSE "none"]
  BY RestartFacts
<1>2. CachedFilesAreComplete'
  BY <1>1 DEF PullInv, CachedFilesAreComplete
<1>3. OnePull'
  BY <1>1 DEF OnePull, NoTask
<1>4. \A p \in Goroutine : Checked(p)' /\ Ending(p)'
  BY <1>1 DEF Checked, Verifying, Ending, NoCall
<1> QED BY <1>2, <1>3, <1>4 DEF PullInv

LEMMA InitPull == Init => PullInv
<1> SUFFICES ASSUME Init PROVE PullInv
  OBVIOUS
<1>1. /\ data = [d \in Dir |-> [n \in Name |-> "none"]]
      /\ task = [p \in Goroutine |-> NoTask] /\ call = [p \in Goroutine |-> NoCall]
  BY DEF Init
<1> QED BY <1>1 DEF PullInv, OnePull, Checked, Verifying, Ending, CachedFilesAreComplete,
                    NoTask, NoCall, Dir

LEMMA NextPull ==
    ASSUME ~RepeatedLayers, Inv, PullInv, [Next]_vars
    PROVE  PullInv'
<1>1. CASE UNCHANGED vars
  <2>1. UNCHANGED <<data, task, call>>
    BY <1>1 DEF vars, diskVars
  <2> QED BY <2>1 DEF PullInv, OnePull, Checked, Verifying, Ending, CachedFilesAreComplete, File
<1> QED BY <1>1, CallPull, StartTaskPull, EndTaskPull, PullGoesOnPull, CopyBodyPull, RestartPull
        DEF Next

LEMMA PullInvariance == ~RepeatedLayers => (Spec => [](Inv /\ PullInv))
<1> SUFFICES ASSUME ~RepeatedLayers PROVE Spec => [](Inv /\ PullInv)
  OBVIOUS
<1>1. Init => Inv /\ PullInv
  BY InitInv, InitPull
<1>2. Inv /\ PullInv /\ [Next]_vars => Inv' /\ PullInv'
  BY NextInv, NextPull
<1> QED BY <1>1, <1>2, PTL DEF Spec

(* Where no image lists a layer twice, a layer in the store is one that    *)
(* was verified whole (client.go:617), although it is verified through its *)
(* handle and moved by its name, with evictions in between.                *)
THEOREM VerifiedIsStored == ~RepeatedLayers => (Spec => []CachedFilesAreComplete)
<1>1. PullInv => CachedFilesAreComplete
  BY DEF PullInv
<1> QED BY <1>1, PullInvariance, PTL

-----------------------------------------------------------------------------
(* The two directories implement the store of complete files.              *)

Where == [n \in Name |-> IF OnDisk("cache", n) THEN "cache"
                         ELSE IF OnDisk("download", n) THEN "download" ELSE "absent"]
Complete == {n \in Name : \E d \in Dir : data[d][n] = "whole"}

LEMMA InitRefines == Init => Contract!Init
<1> SUFFICES ASSUME Init PROVE Contract!Init
  OBVIOUS
<1>1. data = [d \in Dir |-> [n \in Name |-> "none"]]
  BY DEF Init
<1>2. Where = [n \in Name |-> "absent"] /\ Complete = {}
  BY <1>1 DEF Where, Complete, OnDisk, Dir
<1> QED BY <1>2 DEF Contract!Init, Where, Complete

LEMMA StutterRefines ==
    ASSUME UNCHANGED data
    PROVE  UNCHANGED Contract!vars
BY DEF Contract!vars, OnDisk

(* Each effect on the files is an operation of the store. *)
LEMMA EffectRefines ==
    ASSUME Inv, PullInv, Inv', NEW p \in Goroutine, NEW n \in Name, Effect(p, n)
    PROVE  [Contract!Next]_Contract!vars
<1>1. Types /\ Types'
  BY DEF Inv
<1>2. \A m \in Name \ {n} : /\ Where'[m] = Where[m]
                            /\ m \in Complete' <=> m \in Complete
  BY DEF Effect, Same, Where, Complete, OnDisk, Dir
<1>3. \A w : Where'[n] = w => Where' = [Where EXCEPT ![n] = w]
  BY <1>2 DEF Where
<1>4. CASE Same(n)
  <2>1. \A d \in Dir, m \in Name : data'[d][m] = data[d][m]
    BY <1>4 DEF Effect, Same
  <2>2. data' = data
    BY <1>1, <2>1 DEF Types
  <2> QED BY <2>2, StutterRefines
<1>5. CASE Removed(n) /\ \E d \in Dir : data[d][n] # "none"
  <2>1. Where[n] # "absent" /\ Where'[n] = "absent" /\ n \notin Complete'
    BY <1>5 DEF Removed, Where, Complete, OnDisk, Dir
  <2>2. Complete' = Complete \ {n}
    BY <1>2, <2>1 DEF Complete
  <2>3. Contract!Remove(n)
    BY <1>3, <2>1, <2>2 DEF Contract!Remove, Where, Complete
  <2> QED BY <2>3 DEF Contract!Next
<1>6. CASE Made(n, "download", "part")
  <2>1. Where[n] = "absent" /\ Where'[n] = "download" /\ n \notin Complete /\ n \notin Complete'
    BY <1>6 DEF Made, Where, Complete, OnDisk, Dir
  <2>2. Complete' = Complete
    BY <1>2, <2>1 DEF Complete
  <2>3. Contract!CreateDownload(n)
    BY <1>3, <2>1, <2>2 DEF Contract!CreateDownload, Where, Complete
  <2> QED BY <2>3 DEF Contract!Next
<1>7. CASE Made(n, "cache", "whole")
  <2>1. Where[n] = "absent" /\ Where'[n] = "cache" /\ n \in Complete'
    BY <1>7 DEF Made, Where, Complete, OnDisk, Dir
  <2>2. Complete' = Complete \cup {n}
    BY <1>2, <2>1 DEF Complete
  <2>3. Contract!Link(n)
    BY <1>3, <2>1, <2>2 DEF Contract!Link, Where, Complete
  <2> QED BY <2>3 DEF Contract!Next
<1>8. CASE Moved(n) /\ n = File(p) /\ call[p].op = "move"
  <2>1. data["download"][n] # "part"
    BY <1>8 DEF PullInv, Checked, Verifying
  <2>2. data["download"][n] = "whole"
    BY <1>1, <1>8, <2>1 DEF Moved, Types, Dir, Content
  <2>3. Where[n] = "download" /\ Where'[n] = "cache" /\ n \in Complete /\ n \in Complete'
    BY <1>8, <2>2 DEF Moved, Where, Complete, OnDisk, Dir
  <2>4. Complete' = Complete
    BY <1>2, <2>3 DEF Complete
  <2>5. Contract!Store(n)
    BY <1>3, <2>3, <2>4 DEF Contract!Store, Where, Complete
  <2> QED BY <2>5 DEF Contract!Next
<1> QED BY <1>4, <1>5, <1>6, <1>7, <1>8 DEF Effect

(* A body that is whole in a download finishes it; anything else that is   *)
(* written leaves the files as whole as they were.                         *)
LEMMA CopyBodyRefines ==
    ASSUME Inv, PullInv, Inv', NEW p \in Goroutine, CopyBody(p)
    PROVE  [Contract!Next]_Contract!vars
<1>1. Types /\ Types' /\ Calling(p) /\ Linked(p)
  BY DEF Inv
<1>2. IF hand[p] \in Dir
      THEN \E content \in {data[hand[p]][File(p)], "whole"} : Put(hand[p], File(p), content)
      ELSE UNCHANGED data
  BY DEF CopyBody
<1>3. CASE UNCHANGED data
  BY <1>3, StutterRefines
<1>4. CASE hand[p] \in Dir /\ Put(hand[p], File(p), "whole")
  <2>1. PICK n \in Name : n = File(p)
    BY <1>1 DEF CopyBody, Doing, Calling
  <2>2. PICK d \in Dir : d = hand[p]
    BY <1>4
  <2>3. data[d][n] # "none" /\ Put(d, n, "whole")
    BY <1>1, <1>4, <2>1, <2>2 DEF Linked, OnDisk
  <2>4. /\ data'[d][n] = "whole"
        /\ \A e \in Dir, m \in Name : e # d \/ m # n => data'[e][m] = data[e][m]
    BY <1>1, <2>3, DataFacts DEF Content
  <2>5. \A e \in Dir, m \in Name : data'[e][m] # "none" <=> data[e][m] # "none"
    BY <2>3, <2>4
  <2>6. Where' = Where
    BY <2>5 DEF Where, OnDisk, Dir
  <2>7. n \in Complete' /\ \A m \in Name \ {n} : m \in Complete' <=> m \in Complete
    BY <2>4 DEF Complete
  <2>8. CASE d = "download"
    <3>1. data["cache"][n] = "none"
      BY <2>3, <2>8 DEF Inv, Placed, OnDisk, Dir
    <3>2. Where[n] = "download"
      BY <2>3, <2>8, <3>1 DEF Where, OnDisk
    <3>3. Complete' = Complete \cup {n}
      BY <2>7 DEF Complete
    <3>4. Contract!FinishDownload(n)
      BY <2>6, <3>2, <3>3 DEF Contract!FinishDownload, Where, Complete
    <3> QED BY <3>4 DEF Contract!Next
  <2>9. CASE d = "cache"
    <3>1. data["cache"][n] = "whole"
      BY <1>1, <2>3, <2>9 DEF PullInv, CachedFilesAreComplete, Types, Dir, Content
    <3>2. Complete' = Complete
      BY <2>7, <3>1 DEF Complete, Dir
    <3> QED BY <2>6, <3>2 DEF Contract!vars, Where, Complete
  <2> QED BY <2>8, <2>9 DEF Dir
<1>5. CASE hand[p] \in Dir /\ Put(hand[p], File(p), data[hand[p]][File(p)])
  <2>1. data' = data
    BY <1>1, <1>5 DEF Put, Types
  <2> QED BY <2>1, StutterRefines
<1> QED BY <1>2, <1>3, <1>4, <1>5

LEMMA RestartRefines ==
    ASSUME Inv, Restart
    PROVE  Contract!Restart
<1>1. PICK kept \in SUBSET {n \in Name : OnDisk("cache", n)} :
        /\ data'["download"] = [n \in Name |-> "none"]
        /\ data'["cache"] = [n \in Name |-> IF n \in kept THEN data["cache"][n] ELSE "none"]
  BY RestartFacts
<1>2. kept \in SUBSET {n \in Name : Where[n] = "cache"}
  BY <1>1 DEF Where
<1>3. Where' = [n \in Name |-> IF n \in kept THEN "cache" ELSE "absent"]
  BY <1>1 DEF Where, OnDisk
<1>4. \A n \in kept : data["download"][n] = "none"
  BY <1>1 DEF Inv, Placed, OnDisk, Dir
<1>5. Complete' = Complete \cap kept
  BY <1>1, <1>4 DEF Complete, Dir
<1> QED BY <1>2, <1>3, <1>5 DEF Contract!Restart, Where, Complete

LEMMA StepRefines ==
    ASSUME Inv, PullInv, Inv', [Next]_vars
    PROVE  [Contract!Next]_Contract!vars
<1>1. CASE UNCHANGED vars
  BY <1>1, StutterRefines DEF vars, diskVars
<1>2. ASSUME NEW p \in Goroutine, CallSteps(p)
      PROVE  [Contract!Next]_Contract!vars
  BY <1>2, CallEffect, EffectRefines, StutterRefines
<1>3. ASSUME NEW p \in Goroutine,
             (\E n \in Name : StartTask(p, n)) \/ EndTask(p) \/ PullGoesOn(p)
      PROVE  [Contract!Next]_Contract!vars
  <2>1. UNCHANGED data
    BY <1>3 DEF StartTask, EndTask, PullGoesOn, Calm, diskVars
  <2> QED BY <2>1, StutterRefines
<1>4. CASE Restart
  BY <1>4, RestartRefines DEF Contract!Next
<1> QED BY <1>1, <1>2, <1>3, <1>4, CopyBodyRefines DEF Next

(* Where no image lists a layer twice, map, disk and access times together *)
(* are a store of complete files: what is in it was downloaded whole or    *)
(* linked, and is not written again (lib/storage/layer_tar_store.go).      *)
THEOREM Refines == ~RepeatedLayers => (Spec => ImplementsContract)
<1> SUFFICES ASSUME ~RepeatedLayers PROVE Spec => ImplementsContract
  OBVIOUS
<1>1. Spec => [](Inv /\ PullInv)
  BY PullInvariance
<1>2. Inv /\ PullInv /\ Inv' /\ [Next]_vars => [Contract!Next]_Contract!vars
  BY StepRefines
<1>3. Init => Contract!Init
  BY InitRefines
<1> QED BY <1>1, <1>2, <1>3, PTL DEF Spec, ImplementsContract, Contract!Spec

=============================================================================
