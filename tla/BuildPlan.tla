----------------------------- MODULE BuildPlan -----------------------------
(***************************************************************************)
(* lib/builder/build_plan.go and the makisu build command around it        *)
(* (bin/makisu/cmd/build.go): processes that, one after the other, build   *)
(* an image from a Dockerfile of several stages in the same root and the   *)
(* same storage directory.                                                 *)
(*                                                                         *)
(* A process may save the root aside and clears it; it turns the           *)
(* Dockerfile into a plan, in which a stage is added for every image that  *)
(* a COPY --from names, and builds the stages of the plan in order, each   *)
(* in a root the one before it was removed from, until the target stage is *)
(* built.  What later stages copy is put aside after each stage.  In the   *)
(* end the manifest is saved under the name of the target and of every     *)
(* replica.  A process may fail or be killed anywhere; the cache, the      *)
(* manifests, the root and its copy outlive it.                            *)
(*                                                                         *)
(* Images in registries keep their content, and IDs are taken to be        *)
(* injective.  Pushing and exporting what was saved is not repeated here.  *)
(***************************************************************************)
EXTENDS BuildSteps

CONSTANTS
    Scratch,     \* the name of the empty image
    Registry,    \* image name -> layers: what can be pulled
    RepoTag,     \* image name -> the name a manifest is saved under, which
                 \* leaves the registry out (encodeRepoTag)
    InvalidName, \* what is no name of an image
    WorkingDir,  \* image name -> the working directory of its configuration
    Requests,    \* command lines with their Dockerfiles
    RootFiles,   \* the root before the first build
    MaxBuilds    \* bound: builds in one behaviour

(* A Dockerfile is a sequence of stages with an alias, or "", and steps of *)
(* which the first is FROM.  A COPY --from has a stage or an image in from.*)
FromStep == [kind : {"FROM"}, image : STRING, commit : BOOLEAN]
CopyStep == [kind : {"COPY"}, src : Content, dst : File, chown : BOOLEAN, commit : BOOLEAN]
RunStep == [kind : {"RUN"}, src : File, dst : File, commit : BOOLEAN]
CopyFromStep ==
    [kind : {"COPYFROM"}, from : STRING \ {""}, src : File, dst : File, commit : BOOLEAN]
Step == FromStep \cup CopyStep \cup RunStep \cup CopyFromStep

ASSUME BuildsAssumption == MaxBuilds \in Nat
ASSUME RequestAssumption ==
    \A r \in Requests : /\ {r.force, r.modify, r.preserve} \subseteq BOOLEAN
                        /\ r.file \in Seq(Range(r.file)) /\ Len(r.file) > 0
                        /\ r.replicas \in Seq(Range(r.replicas))
ASSUME StepAssumption ==
    \A r \in Requests : \A i \in DOMAIN r.file :
        LET steps == r.file[i].steps
        IN /\ steps \in Seq(Step) /\ Len(steps) > 0
           /\ \A n \in DOMAIN steps : steps[n].kind = "FROM" <=> n = 1
ASSUME RegistryAssumption == \A i \in DOMAIN Registry : Registry[i] \in Seq(Layer)
ASSUME NameAssumption == InvalidName \cap (DOMAIN Registry \cup {Scratch}) = {}
ASSUME RootAssumption == RootFiles \in FileSystem

VARIABLES
    request,    \* what this process was asked for
    builds,     \* processes started
    phase,      \* idle, process, build, save, done or failed
    cause,      \* of a failure: the program, or something outside
    plan,       \* [stages, aliases, dirs]: the plan so far, the aliases that
                \* exist, the paths to put aside by alias
    at,         \* the stage that is processed or built, the name to save
    stagesDir,  \* alias -> the files put aside for COPY --from
    root,       \* the local file system
    backup,     \* its copy in the storage directory, or <<>>
    rootBefore, \* history: the root when this process started
    workDirs,   \* directories that WORKDIR made in root, backup, rootBefore
    cache,      \* cache ID -> layers, for steps of all builds so far
    manifests,  \* name -> layers: the manifest store
    image       \* layers of the last stage that was built

storageVars == <<root, backup, workDirs, cache, manifests>>
vars == <<request, builds, phase, cause, plan, at, stagesDir, rootBefore, image,
          storageVars>>

Names(r) == <<r.name>> \o r.replicas

(* What a map has, and over it what another one has. *)
Updated(map, new) ==
    [k \in DOMAIN map \cup DOMAIN new |-> IF k \in DOMAIN new THEN new[k] ELSE map[k]]
One(key, value) == [k \in {key} |-> value]

NoPlan == [stages |-> <<>>, aliases |-> {}, dirs |-> <<>>]

Init ==
    /\ request \in Requests
    /\ builds = 0
    /\ phase = "idle"
    /\ cause = "none"
    /\ plan = NoPlan
    /\ at = 1
    /\ stagesDir = <<>>
    /\ root = RootFiles /\ rootBefore = RootFiles
    /\ backup = <<>>
    /\ workDirs = [root |-> {}, backup |-> {}, before |-> {}]
    /\ cache = <<>>
    /\ manifests = <<>>
    /\ image = <<>>

-----------------------------------------------------------------------------
(* What a Dockerfile says. *)

AliasOf(file, i) == IF file[i].alias = "" THEN ToString(i - 1) ELSE file[i].alias
IsNumber(alias) == alias \in {ToString(n) : n \in 0..9}

(* A bound: at most ten stages, so that their numbers are these. *)
ASSUME NumbersAssumption ==
    \A r \in Requests : \A i, k \in DOMAIN r.file :
        /\ IsNumber(ToString(i - 1)) /\ ToString(i - 1) # ""
        /\ i # k => ToString(i - 1) # ToString(k - 1)

CopiesOf(stage) == {s \in Range(stage.steps) : s.kind = "COPYFROM"}
CopiedFrom(stage) == {s.from : s \in CopiesOf(stage)}
DirsFrom(stage, alias) == {s.src : s \in {t \in CopiesOf(stage) : t.from = alias}}

-----------------------------------------------------------------------------
(* Mutants: the form a definition below would take with a plausible bug. *)

(* What several stages copy from the same one is not put together. *)
DirsOfLastStage(dirs, stage) ==
    Updated(dirs, [a \in CopiedFrom(stage) |-> DirsFrom(stage, a)])

(* The IDs of each stage start from the options alone. *)
SeedOfOptions(p, r) == <<<<r.force, r.modify>>>>

(* The files of a stage stay in the root. *)
NotCleaned(r, fs) == fs

(* The root is copied back before it is cleared. *)
RestoredTooEarly(r, fs, saved) == IF r.modify THEN EmptyFS ELSE fs

-----------------------------------------------------------------------------
(* The plan: NewBuildPlan and processStagesAndAliases. *)

(* The directive and the arguments, and what is copied from the context.   *)
(* COPY --from relies on the chain for the rest.  COPY and FROM leave their*)
(* annotation out.                                                         *)
Hashed(s) == CASE s.kind = "FROM" -> <<"FROM", s.image>>
               [] s.kind = "COPY" -> <<"COPY", s.src, s.dst, s.chown>>
               [] s.kind = "RUN" -> <<"RUN", s.src, s.dst, s.commit>>
               [] s.kind = "COPYFROM" -> <<"COPYFROM", s.from, s.src, s.dst>>

PlanStage(alias, steps, seed, force) ==
    [alias |-> alias, steps |-> steps, force |-> force,
     ids |-> [n \in DOMAIN steps |-> seed \o [k \in 1..n |-> Hashed(steps[k])]]]

(* A stage that only pulls the image that a COPY --from names. *)
PullOf(name) == [kind |-> "FROM", image |-> name, commit |-> FALSE]
RemoteImageStage(name, seed) == PlanStage(name, <<PullOf(name)>>, seed, FALSE)

(* The ID that a stage chains to is that of the stage before it. *)
SeedFor(p, r) == IF p.stages = <<>> THEN <<<<r.force, r.modify>>>>
                 ELSE Last(Last(p.stages).ids)

AddStage(p, st) == [p EXCEPT !.stages = Append(@, st)]
AddRemoteStages(p, r, names) ==
    LET SeedBefore(k) == SeedFor(p, r) \o [j \in 1..(k - 1) |-> Hashed(PullOf(names[j]))]
    IN [p EXCEPT !.stages = @ \o [k \in DOMAIN names |-> RemoteImageStage(names[k], SeedBefore(k))]]

MergeDirs(dirs, stage) ==
    LET Old(a) == IF a \in DOMAIN dirs THEN dirs[a] ELSE {}
    IN Updated(dirs, [a \in CopiedFrom(stage) |-> Old(a) \cup DirsFrom(stage, a)])

Fail(why) == /\ phase' = "failed"
             /\ cause' = why

(* The process starts: the root is put aside and cleared, manifests of the *)
(* names it is asked for are removed, the Dockerfile is read.  As a bound, *)
(* the next command line differs in one stage from the one before.         *)
StartBuild(r) ==
    /\ phase = "idle" /\ builds < MaxBuilds
    /\ [r EXCEPT !.file = <<>>] = [request EXCEPT !.file = <<>>]
    /\ Len(r.file) = Len(request.file)
    /\ Cardinality({i \in DOMAIN r.file : r.file[i] # request.file[i]}) <= 1
    /\ builds = 0 => r = request
    /\ request' = r
    /\ builds' = builds + 1
    /\ phase' = "process"
    /\ cause' = "none"
    /\ plan' = NoPlan
    /\ at' = 1
    /\ stagesDir' = <<>>
    /\ rootBefore' = root
    /\ backup' = IF r.modify /\ r.preserve THEN root ELSE backup
    /\ root' = IF r.modify THEN EmptyFS ELSE root
    /\ workDirs' = [root |-> IF r.modify THEN {} ELSE workDirs.root,
                    backup |-> IF r.modify /\ r.preserve THEN workDirs.root ELSE workDirs.backup,
                    before |-> workDirs.root]
    /\ manifests' = [n \in DOMAIN manifests \ {RepoTag[m] : m \in Range(Names(r))} |->
                        manifests[n]]
    /\ image' = <<>>
    /\ UNCHANGED cache

(* An alias is new and not a number; a stage is added before this one for  *)
(* every name it copies from that is no alias so far, in any order (that   *)
(* of a Go map).  These, and what it is built from, have names of images.  *)
AliasesAt(i) == plan.aliases \cup {AliasOf(request.file, i)}
ImagesAt(i) == CopiedFrom(request.file[i]) \ AliasesAt(i)
StageIsValid(i) ==
    LET parsed == request.file[i]
    IN /\ parsed.alias # "" => parsed.alias \notin plan.aliases /\ ~IsNumber(parsed.alias)
       /\ ({parsed.steps[1].image} \cup ImagesAt(i)) \cap InvalidName = {}
       /\ CopiesOf(parsed) # {} => request.modify

ProcessStage ==
    /\ phase = "process" /\ at <= Len(request.file)
    /\ LET parsed == request.file[at]
           alias == AliasOf(request.file, at)
           stage == PlanStage(alias, parsed.steps, SeedFor(plan, request), request.force)
           withDirs == [plan EXCEPT !.aliases = AliasesAt(at), !.dirs = MergeDirs(@, parsed)]
       IN /\ StageIsValid(at)
          /\ \E names \in SetToSeqs(ImagesAt(at)) :
                plan' = AddStage(AddRemoteStages(withDirs, request, names), stage)
    /\ at' = at + 1
    /\ UNCHANGED <<request, builds, phase, cause, stagesDir, rootBefore, image, storageVars>>

StageIsRejected ==
    /\ phase = "process" /\ at <= Len(request.file)
    /\ ~StageIsValid(at)
    /\ Fail("program")
    /\ UNCHANGED <<request, builds, plan, at, stagesDir, rootBefore, image, storageVars>>

EndPlan ==
    /\ phase = "process" /\ at > Len(request.file)
    /\ IF request.target # "" /\ request.target \notin plan.aliases
       THEN Fail("program")
       ELSE phase' = "build" /\ UNCHANGED cause
    /\ at' = 1
    /\ UNCHANGED <<request, builds, plan, stagesDir, rootBefore, image, storageVars>>

-----------------------------------------------------------------------------
(* A stage of the plan: executeStage. *)

ModifyFS(p, st) == \/ st.alias \in DOMAIN p.dirs
                   \/ \E n \in DOMAIN st.steps : RequireOnDisk(st.steps[n])

(* What a step finds when it is executed: an image, or files put aside. *)
Finds(s) == CASE s.kind = "FROM" -> s.image \in DOMAIN Registry \cup {Scratch}
              [] s.kind = "COPYFROM" -> /\ s.from \in DOMAIN stagesDir
                                        /\ s.src \in DOMAIN stagesDir[s.from]
              [] OTHER -> TRUE
LayersOf(name) == IF name \in DOMAIN Registry THEN Registry[name] ELSE <<>>
Resolved(s) ==
    CASE s.kind = "FROM" -> [kind |-> "FROM", layers |-> LayersOf(s.image)]
      [] s.kind = "COPYFROM" -> [kind |-> "COPY", dst |-> s.dst,
                                 src |-> IF Finds(s) THEN stagesDir[s.from][s.src] ELSE NoFile]
      [] OTHER -> s

(* The layers that pullCacheLayers can get of the nodes up to the j-th. *)
Fetches(st, n) == n > 1 /\ (st.steps[n].commit \/ st.force)
Fetched(st, j) ==
    [n \in DOMAIN st.steps |-> IF n <= j /\ Fetches(st, n) THEN cache[st.ids[n]] ELSE <<>>]
CanFetch(st, j) == \A n \in 1..j : Fetches(st, n) => st.ids[n] \in DOMAIN cache

(* b has the context, the layers of the nodes and the cache while a stage  *)
(* is built.                                                               *)
Runs(st, b, n) ==
    /\ b.pairs[n] = <<>>
    /\ n = 1 \/ n >= LatestFetched(st.steps, b.pairs)
(* The cache takes one layer per ID. *)
Pushed(b, id, layers) == IF Len(layers) > 1 THEN b.cache ELSE Updated(b.cache, One(id, layers))
BuildNode(st, b, n) ==
    LET onDisk == ModifyFS(plan, st)
        step == Resolved(st.steps[n])
        executed == Execute(b.ctx, step, onDisk)
        layers == NewLayers(executed, step)
        last == at = Len(plan.stages)
    IN CASE b.pairs[n] # <<>> -> [b EXCEPT !.ctx = ApplyCached(@, b.pairs[n], onDisk)]
         [] ~Runs(st, b, n) /\ b.pairs[n] = <<>> -> b
         [] Runs(st, b, n) /\ ~MustCommit(st.steps, n, last, st.force) ->
              [b EXCEPT !.ctx = executed]
         [] OTHER -> [ctx |-> Committed(executed, step),
                      pairs |-> [b.pairs EXCEPT ![n] = layers],
                      cache |-> Pushed(b, st.ids[n], layers)]
NoNodeBuilt(st, j) == [ctx |-> NewContext(root), pairs |-> Fetched(st, j), cache |-> cache]
BuildNodes(st, j, n) ==
    LET built[k \in 0..Len(st.steps)] ==
            IF k = 0 THEN NoNodeBuilt(st, j) ELSE BuildNode(st, built[k - 1], k)
    IN  built[n]

(* What a node does not find.  A missing file is noticed by the copy that  *)
(* is made on disk, or else by the commit.                                 *)
Misses(st, b, n) ==
    LET s == st.steps[n]
        onDisk == ModifyFS(plan, st)
    IN /\ Runs(st, b, n)
       /\ \/ ~Finds(s) /\ (s.kind = "FROM" \/ onDisk)
          \/ /\ MustCommit(st.steps, n, at = Len(plan.stages), st.force)
             /\ \E op \in Range(Execute(b.ctx, Resolved(s), onDisk).copyOps) : op.src = NoFile

(* What the program itself fails at when n nodes are built. *)
ProgramFailsAfter(st, j, n) ==
    LET built == BuildNodes(st, j, n)
    IN IF n < Len(st.steps)
       THEN (ModifyFS(plan, st) /\ ~request.modify) \/ Misses(st, built, n + 1)
       ELSE st.alias \in DOMAIN plan.dirs /\ \E p \in plan.dirs[st.alias] : built.ctx.disk[p] = NoFile
ReachesNode(st, j, n) == \A m \in 0..(n - 1) : ~ProgramFailsAfter(st, j, m)

(* FROM saves the manifest of what it pulls unless there is one. *)
WithManifestOf(name) == IF name \notin DOMAIN Registry THEN manifests
                        ELSE Updated(One(RepoTag[name], LayersOf(name)), manifests)

(* Every node but the first makes the working directory of the image, on   *)
(* disk and also without leave to (ApplyCtxAndConfig); errors are ignored. *)
DirsOf(name) == IF name \in DOMAIN WorkingDir THEN {WorkingDir[name]} ELSE {}
MadeBy(steps) == IF Len(steps) > 1 THEN DirsOf(steps[1].image) ELSE {}

(* cleanup, after what is copied from the stage was put aside. *)
CleanRoot(r, fs) == IF r.modify THEN EmptyFS ELSE fs
Checkpoint(st, fs) ==
    IF st.alias \notin DOMAIN plan.dirs THEN stagesDir
    ELSE LET Old == IF st.alias \in DOMAIN stagesDir THEN stagesDir[st.alias] ELSE <<>>
         IN Updated(stagesDir, One(st.alias, Updated(Old, [p \in plan.dirs[st.alias] |-> fs[p]])))

BuildStage ==
    /\ phase = "build"
    /\ LET st == plan.stages[at]
           N == Len(st.steps)
       IN \E j \in 1..N :
            /\ CanFetch(st, j)
            /\ ReachesNode(st, j, N + 1)
            /\ LET built == BuildNodes(st, j, N)
               IN /\ cache' = built.cache
                  /\ image' = FlattenSeq(built.pairs)
                  /\ stagesDir' = Checkpoint(st, built.ctx.disk)
                  /\ root' = CleanRoot(request, built.ctx.disk)
                  /\ workDirs' = [workDirs EXCEPT
                        !.root = IF request.modify THEN {} ELSE @ \cup MadeBy(st.steps)]
            /\ manifests' = WithManifestOf(st.steps[1].image)
            /\ IF at = Len(plan.stages) \/ st.alias = request.target
               THEN phase' = "save" /\ at' = 1
               ELSE at' = at + 1 /\ UNCHANGED phase
    /\ UNCHANGED <<request, builds, cause, plan, rootBefore, backup>>

(* After some nodes the stage fails: the program finds something missing,  *)
(* or a command, a pull or the disk fails.                                 *)
StageFails ==
    /\ phase = "build"
    /\ LET st == plan.stages[at]
       IN \E n \in 0..Len(st.steps), j \in 1..Len(st.steps) :
            /\ CanFetch(st, j)
            /\ ReachesNode(st, j, n)
            /\ LET built == BuildNodes(st, j, n)
               IN cache' = built.cache /\ root' = built.ctx.disk
            /\ workDirs' = [workDirs EXCEPT !.root = IF n = 0 THEN @ ELSE @ \cup MadeBy(st.steps)]
            /\ Fail(IF ProgramFailsAfter(st, j, n) THEN "program" ELSE "outside")
            /\ manifests' = IF n = 0 THEN manifests ELSE WithManifestOf(st.steps[1].image)
    /\ UNCHANGED <<request, builds, plan, at, stagesDir, rootBefore, backup, image>>

-----------------------------------------------------------------------------
(* The end of the process. *)

(* LinkStoreFileFrom does not replace a manifest that is there. *)
SaveManifest ==
    /\ phase = "save"
    /\ LET name == RepoTag[Names(request)[at]]
       IN IF name \in DOMAIN manifests
          THEN Fail("program") /\ UNCHANGED <<manifests, at>>
          ELSE /\ manifests' = Updated(manifests, One(name, image))
               /\ at' = at + 1
               /\ phase' = IF at = Len(Names(request)) THEN "done" ELSE "save"
               /\ UNCHANGED cause
    /\ UNCHANGED <<request, builds, plan, stagesDir, rootBefore, image, root, backup, workDirs, cache>>

(* The deferred calls: what is in the root goes, then the old root is      *)
(* copied back; the sandbox is removed.                                    *)
RestoreRoot(r, fs, saved) == IF ~r.modify THEN fs
                             ELSE IF r.preserve THEN saved ELSE EmptyFS
EndBuild ==
    /\ phase \in {"done", "failed"}
    /\ phase' = "idle"
    /\ root' = RestoreRoot(request, root, backup)
    /\ backup' = IF request.modify /\ request.preserve THEN <<>> ELSE backup
    /\ workDirs' = IF ~request.modify THEN workDirs
                   ELSE IF request.preserve THEN [workDirs EXCEPT !.root = workDirs.backup, !.backup = {}]
                   ELSE [workDirs EXCEPT !.root = {}]
    /\ stagesDir' = <<>>
    /\ plan' = NoPlan
    /\ at' = 1
    /\ image' = <<>>
    /\ UNCHANGED <<request, builds, cause, rootBefore, cache, manifests>>

(* The process is killed: no deferred call runs.  The next one has a       *)
(* sandbox of its own.                                                     *)
Crash ==
    /\ phase # "idle"
    /\ phase' = "idle"
    /\ cause' = "killed"
    /\ stagesDir' = <<>>
    /\ plan' = NoPlan
    /\ at' = 1
    /\ image' = <<>>
    /\ UNCHANGED <<request, builds, rootBefore, storageVars>>

Next ==
    \/ \E r \in Requests : StartBuild(r)
    \/ ProcessStage \/ StageIsRejected \/ EndPlan
    \/ BuildStage \/ StageFails
    \/ SaveManifest \/ EndBuild \/ Crash

Spec == Init /\ [][Next]_vars

-----------------------------------------------------------------------------
(* Properties. *)

TypeOK ==
    /\ request \in Requests
    /\ builds \in 0..MaxBuilds
    /\ phase \in {"idle", "process", "build", "save", "done", "failed"}
    /\ cause \in {"none", "program", "outside", "killed"}
    /\ Len(plan.stages) >= Cardinality(plan.aliases)
    /\ at \in 1..(Max({Len(plan.stages), Len(request.file), Len(Names(request))}) + 1)
    /\ {root, rootBefore} \subseteq FileSystem
    /\ backup \in FileSystem \cup {<<>>}
    /\ \A a \in DOMAIN stagesDir : stagesDir[a] \in Layer /\ NoFile \notin Range(stagesDir[a])
    /\ \A id \in DOMAIN cache : Len(cache[id]) <= 1 /\ Range(cache[id]) \subseteq Layer
    /\ \A n \in DOMAIN manifests : Range(manifests[n]) \subseteq Layer

(* The reference: the file systems the stages of a Dockerfile describe.    *)
(* COPY --from takes its file from the earlier stage of that name or       *)
(* number, or else from the image.                                         *)
EarlierStages(file, i, name) == {k \in 1..(i - 1) : AliasOf(file, k) = name}
SourceOf(file, fss, i, name) ==
    IF EarlierStages(file, i, name) # {}
    THEN fss[CHOOSE k \in EarlierStages(file, i, name) : TRUE]
    ELSE ApplyLayers(EmptyFS, LayersOf(name))
Meaning(file, fss, i, s) ==
    CASE s.kind = "FROM" -> [kind |-> "FROM", layers |-> LayersOf(s.image)]
      [] s.kind = "COPYFROM" ->
           [kind |-> "COPY", dst |-> s.dst, src |-> SourceOf(file, fss, i, s.from)[s.src]]
      [] OTHER -> s
After(steps) ==
    LET after[n \in 0..Len(steps)] ==
            IF n = 0 THEN EmptyFS ELSE Effect(after[n - 1], steps[n])
    IN after
Described(file) ==
    LET fs[i \in DOMAIN file] ==
            LET steps == file[i].steps
            IN After([n \in DOMAIN steps |-> Meaning(file, fs, i, steps[n])])[Len(steps)]
    IN fs

(* No image that is copied from has the name of the same or a later stage: *)
(* its stage in the plan would be taken for that one (by the target, and   *)
(* for what is put aside).                                                 *)
AliasesAreClear(file) ==
    \A i \in DOMAIN file : \A name \in CopiedFrom(file[i]) :
        \A k \in i..Len(file) : AliasOf(file, k) # name

(* A name that two Dockerfiles copy from is the same stage of both, or the *)
(* image (0) in both.  IDs have the name and not what it stands for: once  *)
(* it moves, the layer that was cached for its old meaning is taken.       *)
Sources(file, i, name) ==
    IF EarlierStages(file, i, name) = {} /\ name \in DOMAIN Registry THEN {0}
    ELSE EarlierStages(file, i, name)
SourcesAreClear ==
    \A r, t \in Requests : \A i \in DOMAIN r.file \cap DOMAIN t.file :
        \A name \in CopiedFrom(r.file[i]) \cap CopiedFrom(t.file[i]) :
            \/ {} \in {Sources(r.file, i, name), Sources(t.file, i, name)}
            \/ Sources(r.file, i, name) = Sources(t.file, i, name)

(* What the IDs rely on besides: a copy is annotated wherever it occurs or *)
(* nowhere, since its annotation is in no ID and yet decides what its      *)
(* layer and those after it hold; and no stage copies from itself, since   *)
(* the plan has no stage for that, and a layer that was cached for another *)
(* meaning of the name can hide it.                                        *)
SameAnnotations ==
    \A r, t \in Requests : \A i \in DOMAIN r.file, k \in DOMAIN t.file :
        \A s \in Range(r.file[i].steps), u \in Range(t.file[k].steps) :
            s.kind \in {"COPY", "COPYFROM"} /\ Hashed(s) = Hashed(u) => s.commit = u.commit
NoSelfCopies ==
    \A r \in Requests : r.modify =>
        \A i \in DOMAIN r.file : AliasOf(r.file, i) \notin CopiedFrom(r.file[i])

(* No command removes a file that its stage copied before.  The layer by   *)
(* scan has no whiteout for it, unless the copy came from the cache: the   *)
(* image keeps the file, and one ID stands for two layers.                 *)
CopiesStay ==
    \A r \in Requests : \A i \in DOMAIN r.file :
        LET fss == Described(r.file)
            steps == [n \in DOMAIN r.file[i].steps |-> Meaning(r.file, fss, i, r.file[i].steps[n])]
            after == After(steps)
        IN \A n \in DOMAIN steps : \A m \in 1..n :
              steps[m].kind = "COPY" /\ steps[m].src # NoFile => after[n][steps[m].dst] # NoFile

(* The names to save, and the images that are pulled, are different        *)
(* without their registries too.                                           *)
ImagesOf(file) == ((UNION {CopiedFrom(file[i]) : i \in DOMAIN file})
                   \cup {file[i].steps[1].image : i \in DOMAIN file}) \cap DOMAIN Registry
ManifestNamesAreClear(r) ==
    /\ Cardinality({RepoTag[n] : n \in Range(Names(r))}) = Len(Names(r))
    /\ \A n \in Range(Names(r)), m \in ImagesOf(r.file) : RepoTag[n] # RepoTag[m]

(* A Dockerfile without mistakes: aliases that can be told apart, a target *)
(* that exists, images that exist, copies of files that are there; and     *)
(* leave to touch the root where that is needed.                           *)
IsValid(r) ==
    LET file == r.file
    IN /\ \A i, k \in DOMAIN file : i # k => AliasOf(file, i) # AliasOf(file, k)
       /\ \A i \in DOMAIN file : ~IsNumber(file[i].alias)
       /\ r.target # "" => \E i \in DOMAIN file : AliasOf(file, i) = r.target
       /\ \A i \in DOMAIN file :
            /\ file[i].steps[1].image \in DOMAIN Registry \cup {Scratch}
            /\ \A s \in CopiesOf(file[i]) :
                 IF EarlierStages(file, i, s.from) = {}
                 THEN /\ s.from \in DOMAIN Registry
                      /\ ApplyLayers(EmptyFS, Registry[s.from])[s.src] # NoFile
                 ELSE \A k \in EarlierStages(file, i, s.from) :
                        Described(file)[k][s.src] # NoFile
            /\ \A s \in Range(file[i].steps) :
                 s.kind = "COPYFROM" \/ RequireOnDisk(s) => r.modify

Target(r) == IF r.target = "" THEN Len(r.file)
             ELSE CHOOSE i \in DOMAIN r.file : AliasOf(r.file, i) = r.target

(* Everything the target stage does is committed: always by default, and   *)
(* with --commit=explicit at the end of the Dockerfile or where annotated. *)
TargetIsCommitted(r) ==
    r.force \/ Target(r) = Len(r.file) \/ Last(r.file[Target(r)].steps).commit

(* When a build ends well, the manifest of its target, and of every        *)
(* replica, has the files that the Dockerfile describes for the target     *)
(* stage: whatever its stages copied from each other and from images, and  *)
(* whatever earlier builds left in the root, the sandbox, the manifest     *)
(* store and the cache.                                                    *)
ImageIsTargetStage ==
    /\ phase = "done" /\ AliasesAreClear(request.file) /\ TargetIsCommitted(request)
    /\ SourcesAreClear
    =>
        \A name \in Range(Names(request)) :
            ApplyLayers(EmptyFS, manifests[RepoTag[name]]) = Described(request.file)[Target(request)]

(* A build fails only because of a mistake in the Dockerfile or something  *)
(* outside: nothing the program left out, cleaned up too early or left     *)
(* behind makes it miss a file.                                            *)
FailsOnlyIfWrong ==
    /\ cause = "program"
    /\ AliasesAreClear(request.file) /\ ManifestNamesAreClear(request) /\ SourcesAreClear
    => ~IsValid(request)

(* --preserve-root: while a build runs the old root is in the backup, and  *)
(* when it has ended, well or not, it is back.  Without --modifyfs its     *)
(* files are not touched, and what a build leaves there are the working    *)
(* directories of its images.  (The defers of Build; a killed process runs *)
(* none.)                                                                  *)
DirsMadeFor(file) == UNION {MadeBy(file[i].steps) : i \in DOMAIN file}
RootIsKept ==
    /\ phase # "idle" /\ request.modify /\ request.preserve =>
          backup = rootBefore /\ workDirs.backup = workDirs.before
    /\ /\ phase = "idle" /\ builds > 0 /\ cause # "killed"
       /\ request.modify => request.preserve
       => /\ root = rootBefore /\ workDirs.before \subseteq workDirs.root
          /\ workDirs.root \ workDirs.before \subseteq (IF request.modify THEN {} ELSE DirsMadeFor(request.file))

(* The state of a process and of the host, and the root that the host had  *)
(* before a build (the two above).                                         *)
PlanInvariant == TypeOK /\ RootIsKept

(* An ID never changes its meaning: whichever layers a build fetched and   *)
(* whichever nodes it skipped, it pushes the same layer for it (PushCache  *)
(* overwrites).                                                            *)
IdsKeepTheirLayers ==
    [][SourcesAreClear => \A id \in DOMAIN cache : cache'[id] = cache[id]]_vars

(* docs/COMMAND.md: replicas are "push targets with alternative full image *)
(* names "<registry>/<repo>:<tag>"".  The build of a valid Dockerfile      *)
(* gives its manifest to all of them.                                      *)
ReplicasAreSaved ==
    cause = "program" /\ ImagesOf(request.file) \cap Range(Names(request)) = {} =>
        ~(IsValid(request) /\ AliasesAreClear(request.file))

=============================================================================
