----------------------------- MODULE BuildStage -----------------------------
(***************************************************************************)
(* lib/builder/build_stage.go, build_node.go and the steps of              *)
(* lib/builder/step: one stage of a Dockerfile, built again and again over *)
(* a cache that outlives the builds.                                       *)
(*                                                                         *)
(* A build first pulls the layers of its committing steps, in order, until *)
(* one is missing; then every node applies the layer it pulled, is skipped *)
(* because a later layer was pulled, or is executed and, where it has to,  *)
(* committed and pushed to the cache.  Copies wait as operations, commands *)
(* change the disk at once; a commit turns either into a layer.            *)
(*                                                                         *)
(* The checksums that make up a cache ID are taken to be injective, and a  *)
(* base image to keep its content; steps are deterministic.  BuildSteps    *)
(* has what the steps do.                                                  *)
(***************************************************************************)
EXTENDS BuildSteps

CONSTANTS
    Dockerfiles,  \* the stages that may be built: sequences of steps
    MaxBuilds     \* bound: builds in one behaviour

(* The steps of a stage: ENV stands for all that change the config only.   *)
FromStep == [kind : {"FROM"}, commit : {FALSE}, layers : Seq(Layer)]
CopyStep == [kind : {"COPY"}, src : Content, dst : File, chown : BOOLEAN, commit : BOOLEAN]
RunStep == [kind : {"RUN"}, src : File, dst : File, commit : BOOLEAN]
EnvStep == [kind : {"ENV"}, commit : BOOLEAN]
Step == FromStep \cup CopyStep \cup RunStep \cup EnvStep

ASSUME StageAssumption ==
    /\ MaxBuilds \in Nat
    /\ \A s \in Dockerfiles : /\ s \in Seq(Step) /\ Len(s) > 0
                              /\ \A n \in DOMAIN s : s[n].kind = "FROM" <=> n = 1

VARIABLES
    cache,        \* mappings of all builds so far: cache ID -> <<layer>>, or
                  \* <<>> for a step that committed nothing
    builds,       \* builds started
    steps,        \* the Dockerfile stage that is being built
    forceCommit,  \* --commit=implicit
    lastStage, copiedFrom,
    phase, node,  \* what the build does, at which node
    digestPairs,  \* the layers fetched or committed by each node
    ctx,          \* the build context: MemFS, what waits to be committed, and
                  \* the local file system
    diffIDs,      \* the layers listed in the image config
    image         \* the layers listed in the manifest

planVars == <<steps, forceCommit, lastStage, copiedFrom>>
vars == <<cache, builds, planVars, phase, node, digestPairs, ctx, diffIDs, image>>

Init ==
    /\ cache = <<>>
    /\ builds = 0
    /\ steps \in Dockerfiles
    /\ forceCommit \in BOOLEAN
    /\ lastStage = TRUE
    /\ copiedFrom \in BOOLEAN
    /\ phase = "idle"
    /\ node = 1
    /\ digestPairs = [n \in DOMAIN steps |-> <<>>]
    /\ ctx = NewContext(EmptyFS)
    /\ diffIDs = <<>>
    /\ image = <<>>

-----------------------------------------------------------------------------
(* Mutants: the form a definition below would take with a plausible bug. *)

(* The seed is left out of the hash: the ID of a step says nothing about   *)
(* the steps before it.                                                    *)
IdWithoutSeed(s, n, force) == <<force, s[n]>>

(* A layer that came from the cache stays out of the config. *)
OnlyNewLayersOf(n, layers) ==
    IF digestPairs[n] = <<>> THEN diffIDs \o layers ELSE diffIDs

-----------------------------------------------------------------------------
ModifyFS == copiedFrom \/ \E n \in DOMAIN steps : RequireOnDisk(steps[n])

(* COPY and ADD hash what they copy but not their #!COMMIT annotation; the *)
(* ID of a step chains the IDs of the steps before it.                     *)
Hashed(s) == IF s.kind = "COPY" THEN <<s.src, s.dst, s.chown>> ELSE <<s>>
CacheID(s, n, force) == <<force, [k \in 1..n |-> Hashed(s[k])]>>

-----------------------------------------------------------------------------
(* The stage. *)

(* A build starts in an empty root, on a Dockerfile of which at most one   *)
(* line was edited (a bound: unrelated stages share no cache IDs).         *)
StartBuild(s, last) ==
    /\ phase \in {"idle", "built", "failed"}
    /\ builds < MaxBuilds
    /\ Len(s) = Len(steps) /\ Cardinality({n \in DOMAIN s : s[n] # steps[n]}) <= 1
    /\ builds' = builds + 1
    /\ steps' = s
    /\ lastStage' = last
    /\ phase' = IF Len(s) > 1 THEN "pull" ELSE "build"
    /\ node' = IF Len(s) > 1 THEN 2 ELSE 1
    /\ digestPairs' = [n \in DOMAIN s |-> <<>>]
    /\ ctx' = NewContext(EmptyFS)
    /\ diffIDs' = <<>>
    /\ image' = <<>>
    /\ UNCHANGED <<cache, forceCommit, copiedFrom>>

ID == CacheID(steps, node, forceCommit)
Pulls == steps[node].commit \/ forceCommit

NextPull == IF node < Len(steps) THEN /\ node' = node + 1
                                      /\ UNCHANGED phase
                                 ELSE /\ node' = 1
                                      /\ phase' = "build"

(* Nothing to pull, or a mapping was found: the chain goes on. *)
PullCacheLayer ==
    /\ phase = "pull"
    /\ Pulls => ID \in DOMAIN cache
    /\ digestPairs' = IF Pulls THEN [digestPairs EXCEPT ![node] = cache[ID]]
                               ELSE digestPairs
    /\ NextPull
    /\ UNCHANGED <<cache, builds, planVars, ctx, diffIDs, image>>

(* The mapping was never made, has expired, or the pull failed. *)
PullMisses ==
    /\ phase = "pull" /\ Pulls
    /\ phase' = "build"
    /\ node' = 1
    /\ UNCHANGED <<cache, builds, planVars, digestPairs, ctx, diffIDs, image>>

Skipped == 1 < node /\ node < LatestFetched(steps, digestPairs)
Cached == digestPairs[node] # <<>>
Commits == MustCommit(steps, node, lastStage, forceCommit)

(* The layers of a node are listed in the config when it is done. *)
WithLayersOf(n, layers) == diffIDs \o layers

EndNode(layers) ==
    /\ phase = "build"
    /\ node <= Len(steps)
    /\ node' = node + 1
    /\ diffIDs' = WithLayersOf(node, layers)
    /\ UNCHANGED <<builds, planVars, phase, image>>

UseCachedNode ==
    /\ EndNode(digestPairs[node])
    /\ Cached
    /\ ctx' = ApplyCached(ctx, digestPairs[node], ModifyFS)
    /\ UNCHANGED <<cache, digestPairs>>

SkipNode ==
    /\ EndNode(<<>>)
    /\ ~Cached /\ Skipped
    /\ UNCHANGED <<cache, digestPairs, ctx>>

ExecuteNode ==
    /\ EndNode(<<>>)
    /\ ~Cached /\ ~Skipped /\ ~Commits
    /\ ctx' = Execute(ctx, steps[node], ModifyFS)
    /\ UNCHANGED <<cache, digestPairs>>

(* The cache takes one layer per ID, so a base image of several layers has *)
(* no mapping.                                                             *)
Pushed(id, layers) ==
    IF Len(layers) > 1 THEN cache
    ELSE [i \in DOMAIN cache \cup {id} |-> IF i = id THEN layers ELSE cache[i]]

CommitNode ==
    LET executed == Execute(ctx, steps[node], ModifyFS)
        layers == NewLayers(executed, steps[node])
    IN /\ EndNode(layers)
       /\ ~Cached /\ ~Skipped /\ Commits
       /\ digestPairs' = [digestPairs EXCEPT ![node] = layers]
       /\ ctx' = Committed(executed, steps[node])
       /\ cache' = Pushed(ID, layers)

(* A command fails, a file to copy or the file of a layer is gone: the     *)
(* process ends, and what it pushed stays.                                 *)
BuildFails ==
    /\ phase = "build"
    /\ phase' = "failed"
    /\ node' = 1
    /\ digestPairs' = [n \in DOMAIN steps |-> <<>>]
    /\ ctx' = NewContext(EmptyFS)
    /\ diffIDs' = <<>>
    /\ UNCHANGED <<cache, builds, planVars, image>>

(* GetDistributionManifest collects the layers of all nodes. *)
FinishBuild ==
    /\ phase = "build" /\ node = Len(steps) + 1
    /\ phase' = "built"
    /\ image' = FlattenSeq(digestPairs)
    /\ UNCHANGED <<cache, builds, planVars, node, digestPairs, ctx, diffIDs>>

Next ==
    \/ \E s \in Dockerfiles, last \in BOOLEAN : StartBuild(s, last)
    \/ PullCacheLayer \/ PullMisses
    \/ UseCachedNode \/ SkipNode \/ ExecuteNode \/ CommitNode
    \/ BuildFails \/ FinishBuild

Spec == Init /\ [][Next]_vars

-----------------------------------------------------------------------------
(* Properties. *)

(* The reference: the file system a stage describes after n steps, without *)
(* any layers, caches or copies that wait.                                 *)
Described(s, n) ==
    LET after[k \in 0..Len(s)] == IF k = 0 THEN EmptyFS ELSE Effect(after[k - 1], s[k])
    IN  after[n]

(* Every variable has its type, and only a stage that is on disk has       *)
(* changes to scan for.                                                    *)
TypeOK ==
    /\ builds \in 0..MaxBuilds
    /\ steps \in Dockerfiles
    /\ phase \in {"idle", "pull", "build", "built", "failed"}
    /\ node \in 1..(Len(steps) + 1)
    /\ DOMAIN digestPairs = DOMAIN steps
    /\ \A n \in DOMAIN steps : Range(digestPairs[n]) \subseteq Layer
    /\ {ctx.mem, ctx.disk} \subseteq FileSystem
    /\ ctx.copied \subseteq File
    /\ Range(ctx.copyOps) \subseteq Range(steps)
    /\ ctx.mustScan \in BOOLEAN
    /\ ctx.mustScan => ModifyFS

(* Every annotated step has copies or commands to commit.  A commit of     *)
(* nothing is cached, but latestFetched takes it for a break of the chain: *)
(* steps before a later cached layer run again and their copies, still     *)
(* pending, are committed on top of it.                                    *)
EveryCommitHasContent ==
    \A n \in 2..Len(steps) : steps[n].commit =>
        \E k \in 2..n : /\ steps[k].kind \in {"COPY", "RUN"}
                        /\ \A j \in k..(n - 1) : ~steps[j].commit

(* No command removes a file that the stage copied before.  The layer by   *)
(* scan has no whiteout for it, unless the copy came from the cache: the   *)
(* image keeps the file, and one ID stands for two layers.                 *)
CopiesStay ==
    \A n \in DOMAIN steps : \A m \in 1..n :
        steps[m].kind = "COPY" => Described(steps, n)[steps[m].dst] # NoFile

(* An image has the files its Dockerfile describes, whatever earlier       *)
(* builds of it, of an edited form of it, or builds that failed half-way   *)
(* left in the cache (docs/CACHE.md: a layer is committed and cached "on   *)
(* top of base image").                                                    *)
ImageIsWhatIsDescribed ==
    /\ phase = "built" /\ lastStage
    /\ forceCommit \/ EveryCommitHasContent
    /\ CopiesStay
    =>
        ApplyLayers(EmptyFS, image) = Described(steps, Len(steps))

(* A step that is executed on disk finds there what all steps before it    *)
(* left, though some of those were skipped and others came from the cache. *)
(* (Where the chain is broken, a cached layer is unpacked over steps that  *)
(* ran again, and what they changed and the layer does not have stays.)    *)
StepsSeeWhatIsDescribed ==
    /\ phase = "build" /\ node <= Len(steps) /\ ModifyFS
    /\ forceCommit \/ EveryCommitHasContent
    /\ CopiesStay
    /\ ~Cached /\ ~Skipped
    => ctx.disk = Described(steps, node - 1)

(* build lists the layers of each node in the config when the node is      *)
(* done, the manifest takes them from the nodes at the end: they agree.    *)
ConfigMatchesManifest == phase = "built" => diffIDs = image

=============================================================================
