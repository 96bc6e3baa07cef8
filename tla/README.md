# A TLA+ model of makisu

makisu builds container images without a docker daemon. It parses a Dockerfile,
executes its steps on a file system it owns (or only in memory), turns the
changes into layers, shares layers with other builders through a registry and a
key-value store, and pushes the image. This directory holds TLA+ modules of its
core, the TLC runs that check them on small instances, and TLAPS proofs of the
safety properties of eight of them for all instances. Paths below are relative to `src/`.

- [The system](#the-system): components, state, operations, hard behaviours
- [Modules](#modules): what models what, with the bounds, the fairness and the runs
- [Proofs](#proofs)
- [What the code does differently](#what-the-code-does-differently): a
  counterexample, and observations
- [Not modelled](#not-modelled)
- [Plan](#plan)
- [Running the checks](#running-the-checks)

## The system

    bin/makisu/cmd ──> builder.BuildPlan ──> buildStage ──> buildNode ──> step.*
                            │                   │              │            │
                            │                   │ PullCache    │ PushCache  │ Execute/Commit
                            │                   └──> cache.Manager <──┘     v
                            │                          │        │      snapshot.MemFS
                            │            keyvalue.Store┘        │           │
                            v                                   v           v
                    storage.ImageStore <───────────── registry.Client    tario, fileio
                            │                                   │
                    base.FileMap (LRU)                 concurrency.WorkerPool

| Component | State it keeps | Operations | What is hard | What makes it correct |
|---|---|---|---|---|
| **File map** `lib/storage/base/file_map.go` | map name → entry, LRU list, one read-write lock per entry | `TryStore`, `LoadForRead/Write/Peek`, `Delete`, eviction | a mutex for the map, locks per entry, looked up before they are awaited; eviction inside a store | a function runs on an entry that is and stays the name's; functions on one name exclude each other; list and map agree; no deadlock |
| **File operations and stores** `lib/storage` | files in a download and a cache directory, metadata beside them; layers by digest, manifests by tag | create, move, link, delete, read, reload from disk | a file that appears or goes behind the map; a crash between data and metadata; start-up clean-up | a cached file is complete and has the content of its name |
| **Registry client** `lib/registry` | nothing but the configuration; works on store and registry | `Pull`, `Push`, `PullLayer`, `PushLayer`, chunked upload, retries | parallel tasks, a failing one stops the others; lost answers; evictions and other clients at the same time | a tag never names an image with a missing blob; a failure is not overlooked |
| **Worker pool** `lib/concurrency` | task channel, stop and done channels | `Do`, `Wait`, `Stop` | `Stop` from inside a task, workers leaving while `Do` blocks | `Wait` is a barrier; only a stop loses tasks; nobody waits for ever |
| **Cache manager** `lib/cache` | mappings in memory, errors of pushes, a wait group, a mutex | `PullCache`, `PushCache`, `WaitForPush` | pushes run beside the build; other builders share the store; uploads fail or lose their answer; time-outs; restarts | a mapping never precedes its layer; a clean wait means stored |
| **Key-value stores** `lib/cache/keyvalue` | a file, redis or an HTTP server | `Get`, `Put`, `Cleanup` | several processes on one file, entries with a time to live | an entry is not lost to another process |
| **Build plan** `lib/builder/build_plan.go` | stages, aliases, directories to keep for `COPY --from` | `processStagesAndAliases`, `Execute` | remote images as stages, target stage, names already in the store | the last or the target stage is what is saved |
| **Stages and nodes** `lib/builder/build_stage.go`, `build_node.go` | layers fetched or committed per node, last config | `pullCacheLayers`, `build`, `GetDistributionManifest` | which steps to skip, execute, commit when part of the chain is cached; what earlier builds left in the cache | the image is the one a build without cache would make |
| **Steps** `lib/builder/step`, `lib/context` | cache ID; pending copies, `MustScan`, environment | `SetCacheID`, `Execute`, `Commit`, `UpdateCtxAndConfig` | copies wait in memory, commands change the disk at once | an ID tells apart what decides its layer |
| **In-memory file system** `lib/snapshot` | a tree of headers, the layers merged so far | apply a tar, layer by scan, layer by copies, checkpoint | deletions as whiteouts, links, mounted and blacklisted paths | replaying its layers gives the scanned tree |
| **Copier, archives** `lib/fileio`, `lib/tario` | none | copy trees, write and apply tar entries | owners, times, special files | what is copied is what the layer says was copied |
| **HTTP client** `lib/utils/httputil` | none | `Send` with retries | a body that can be read once, fallback to http | a retry never sends a byte twice, and success means stored |
| **Registry configuration** `lib/registry/config.go`, `security` | parsed configuration | defaults, credentials | zero and negative values | — |
| **Dockerfile parser** `lib/parser` | global and stage variables, stages so far | text to directives | quoting, escapes, nested substitution; a scope that starts anew with each stage | a text means what the documentation says; a line sees the variables of its stage |
| **Root preserver** `lib/storage/root_preserver.go` | a copy of the root | save, restore | failure half-way | the old root comes back |
| **Docker client, worker client, shell, mounts, paths, streams, logging, names** | little or none | calls of the outside | — | — |

The components meet at shared state more than at calls: the layer store is
written by the registry client, the cache manager's downloads and the commits
of steps, and read by all; the key-value store and the registry are shared with
other builders; the build context is shared by the nodes of a stage.
`PROJECT.json` lists the hazards of the code, each at its line, with the
property that would catch it.

## Modules

| Module | Models | Checked by run |
|---|---|---|
| `FileMapContract` | what the interface of `FileMap` promises: a lock per name | (abstract side of `FileMap`) |
| `FileMap` | `file_map.go`, lock by lock | `FileMap` |
| `LayerStoreContract` | what a layer or manifest store promises: complete files | (abstract side of `FileStore`) |
| `FileStore` | `file_op.go`, `file_entry.go`: files and access times on disk, over an instance of `FileMapContract` | `FileStore` |
| `CacheManager` | `cache_manager.go`, several builders, registry and key-value store | `CacheManager` |
| `WorkerPool` | `worker_pool.go` | `WorkerPool` |
| `ImageTransfer` | `Pull` and `Push` over an instance of `WorkerPool`, the stores, the registry | `ImageTransfer` |
| `BlobUpload` | the requests, chunks and retries of the push of one blob (a step of `ImageTransfer`) | `BlobUpload` |
| `BuildSteps` | what steps do to a build context and what they commit; no state of its own | (used by the next two) |
| `BuildStage` | one stage over a cache that outlives the builds | `BuildStage`, `BuildStageCopies` |
| `BuildPlan` | the stages of a Dockerfile, the root, the sandbox, the manifests | `BuildPlan` |
| `MemFS` | the tree in memory, the layers made from it and from copies, against a disk | `MemFS` |
| `DockerfileText` | the three automata that read text rune by rune | `DockerfileText` |
| `Dockerfile` | the directives: parsing state, environment, image config | `Dockerfile` |
| `MC*` | model values, symmetry and the data of the runs | |
| `*Proofs` | the theorems | |

How they build on each other: `FileStore` takes a map for what
`FileMapContract` says, which `FileMap` implements; `ImageTransfer` takes the
store for what `LayerStoreContract` says, a pool for `WorkerPool`, and the push
of a blob for one step, which `BlobUpload` takes apart; `BuildStage` takes a
push of the cache for a step that may come late, which is `CacheManager`;
`BuildPlan` takes a stage for its nodes in order, which is `BuildStage`, both over
`BuildSteps`; `BuildSteps` takes a layer for a function on paths, which `MemFS`
takes apart; and `Dockerfile` has what a stage does apart from files, with the
text of its lines in `DockerfileText`.

Each component module has *mutants*: a definition as a plausible bug would make
it. Put in place of the definition it belongs to, each makes TLC find the
property of its entry in `PROJECT.json` violated. Some type invariants are
checked together with invariants of the same state (`StoreInvariant`,
`UploadInvariant`, `PlanInvariant`, `MemFSInvariant`).

### FileMap

`elements` and `queue` are the two fields of `lruFileMap`; an element of the
list is represented by its name. `writer` and `readers` are the locks of the
entries, `Entry` their addresses, reused when nothing refers to them any more.
An operation of a goroutine is a walk of `pc`: `Lookup` (under the mutex),
`Acquire` (of the entry's lock), `Recheck` (under the mutex: is it still this
entry?), `Callback` (the caller's `f`), `SyncRemove` for `Delete` and eviction,
`Unlock`, and after a store `PickOldest`. One critical section of the mutex is
one action, because neither `elements` nor `queue` is touched outside of it.
`f` may succeed or fail at will. `Contains` reads only and is left out, as are
the access times written to disk, which the map does not read back.

`FileMapContract` is the promise: a set of stored names, each with a lock that
one writer or many readers hold, where a name leaves only by its exclusive
holder. `ImplementsContract` maps `Held` goroutines to holders and present names
to stored names.

- Run `FileMap`: 2 goroutines, 2 names, 4 entries, size 1, every interleaving.
  Two names and size 1 make eviction meet every other operation; two entries per
  goroutine let an address be reused while another goroutine still waits for it.
  That a third goroutine stores anew what a second deleted and a first waits for
  is covered by the proofs, which hold for any number. Checked:
  `HeldStaysStored`, `ExclusiveByName`, `QueueMatchesMap`, the contract, and that
  `OperationsReturn`. Fairness: weak for every step of a goroutine that is inside
  an operation, strong where it acquires a lock (Go's `sync.RWMutex` and
  `sync.Mutex` do not starve a waiter); nothing obliges a goroutine to start one.

### FileStore

`data` and `lat` are the files and their `_last_access_time` in the download and the
cache directory; `state` and `meta` the fields of the entries; `hand` an open file,
which stays open when it is renamed or removed. `call` is where each goroutine is in
a `FileOp` call: look in the map, search the directories without a lock
(`reloadFileEntryHelper`), store what was found, lock, run, delete. `task` is what
makisu does with the calls: pull a layer (stat, create, write, verify, move), link a
committed one, delete one. The map evicts whenever it is over its size, with the
steps of `file_map.go:162-196` apart; every look-up may write the access time anew
(`Touch`); `Restart` may come at any moment, drops the downloads and loads the rest.
Steps that only read a goroutine's own variables are taken at once (`Settled`).

- Run `FileStore`: 2 goroutines, 2 names: two calls on one name, and one that is
  evicted by the other. `StoreInvariant`: what is on disk is in the map and the
  other way round, and a file is in one directory at a time; `MoveFindsAccessTime`;
  `ImplementsContract`: `where` is the directory a file is in, `complete` the files
  whose content is whole; every step of the store is a step of
  `LayerStoreContract` or none. Deadlock is not checked: a goroutine that is told
  that a file exists stops.

`RepeatedLayers` is FALSE: no two tasks pull one digest at once (see below).

### CacheManager

A builder is a process with a main goroutine (`pc`, `id`, `entry`) and push
goroutines (`push`); `mem` is its memory store, `disk` its layer store, `mutex` its
mutex; `kv` and `registry` are shared. `PullCache` is split at its requests (the
query, the look at the layer store, the download) and holds the mutex from the first
to the last. A push goroutine uploads, locks, stores the mapping. Any request may
fail; an upload or a store may also take effect and report an error
(`UploadAnswerLost`, `StoreFails`). A mapping expires, a layer is evicted from the
local store, and a builder restarts at any time. Cache ID and layer are independent,
so two builders may commit different layers for one ID, as builds that are not
reproducible do.

- Run `CacheManager`: 2 builders, 1 cache ID, 1 layer, 2 pushes.
  `MappedLayersArePushed` relates two shared stores that no transaction joins;
  two pushes of one ID by one or two builders are enough for every order of
  their steps, and a third would only repeat one. `CleanWaitMeansStored` relates
  the answer of `WaitForPush` to the stores. `PushesEnd`: pulls and pushes compete
  for the mutex, and every push ends. Fairness: requests end, because the clients
  have time-outs (weak); `sync.Mutex` does not pass over a waiting goroutine for
  ever (strong for `LockToStore`).

`HasRegistry` is TRUE in the run: without a registry client `PushCache` returns
before it starts anything; the proofs cover both values.

### WorkerPool

`offered` is the task that the goroutine of `Do` is sending, `working` what each
worker runs, `exited`, `stopped`, `closed` and `done` the workers and channels.
A worker's `select` may take a task although the pool was stopped, or leave
although a task is on offer: both are enabled, as in Go. `ended` is history.
`Reset` lets a pool follow another, which `ImageTransfer` uses.

- Run `WorkerPool`: 3 workers, 4 tasks (one more than there are workers, so a
  task has to wait for one), stops inside any task. `NothingRunsAfterWait`,
  `TasksAreLostOnlyToStop`, and `CallerReturns` under weak fairness of workers
  and of the caller's waits: tasks end, goroutines are scheduled.

### ImageTransfer

One process pulls and pushes images of one repository under one tag. `job` is the
main goroutine (`Start…`, `GiveTask`, `WaitForTasks`, `Collect`, `SaveManifest` or
`PushManifest`, `EndJob`), `step` the task of each worker: a pull skips a blob that
is there, or opens a download, copies the body, verifies and saves; a push asks,
uploads and may retry. A failing task adds its error and then stops the pool. Around
it, other clients push images, `PushCache` pushes a layer, the process restarts with
what is on disk, and `makisu push` imports a tar. The LRU store evicts at any time,
in the middle of a transfer too: a download may lose its file under the hands of its
task, and then fails. `layer` says for each blob whether its file is absent, in the
download or in the cache directory; `verified` which files have the content of their
digest.

- Run `ImageTransfer`: 2 workers, an image of two blobs, one retry of a blob. Two
  workers are what a stop beside a running task needs, two blobs what a task
  that is dropped needs. `TaggedImageIsComplete`, `NoTaskIsDropped`,
  `StoredBlobsAreVerified`; every job ends (`JobsEnd`) under weak fairness of the
  main goroutine and of the workers: requests end by their time-outs, retries are
  limited by the configuration. Several images that share layers, as a moved tag
  needs them, are covered by the proofs.

The upload of a blob is one step that takes effect or not. The registry is taken
to keep what it has.

### BlobUpload

`step` is the request `pushLayerHelper` is at (HEAD, POST, a PATCH per chunk,
PUT), `net` what became of it, `sends` and `pushes` the retries that `Send` and
`pushLayerWithBackoff` have left. A chunk's body is a reader that all attempts
share: `read` counts what any of them has taken (`Deliver`, `Lose` and
`ServerFails` take all or part of it). `FirstChunk` and `NextChunk` are the
arithmetic of `pushLayerContent`. `config` chooses size, `push_chunk`, the
security option (`plain`, TLS, TLS with a fallback) and the registry: one that
looks at `Content-Range` or not, with or without something on its plain port.
The registry is external: it keeps the bytes of a session in the order they
come, and a commit succeeds if they are the blob.

- Run `BlobUpload`: blobs of 0, 1 and 3 bytes, `push_chunk` of -1, 1 and 2, one
  retry of each kind, up to three requests that go wrong. Three bytes and chunks
  of one and two give an even and an odd number of chunks and a short one; three
  faults exhaust both kinds of retries. `UploadInvariant`: no byte twice;
  `PushedIsStored`: no error means that the registry has the blob;
  `SmoothPushSucceeds`: no fault means no error; `PushEnds`. Fairness: every
  request has a time-out, so it is answered or lost, and the goroutine goes on.
  Deadlock is not checked: a push ends.

### BuildStage

`steps` is the stage; `digestPairs`, `ctx` and `diffIDs` are the fields of the
stage, its build context and the layers of its config, `cache` the mappings of
all builds. `StartBuild` begins a build of the same stage or of one with a line
edited; `PullCacheLayer`/`PullMisses` are the iterations of `pullCacheLayers`;
`UseCachedNode`, `SkipNode`, `ExecuteNode` and `CommitNode` are the ways through
`buildNode.Build`; `BuildFails` ends a build anywhere and leaves its pushes.
`LatestFetched` is evaluated at each node, over layers that were pulled and
layers that were committed since, as the code does. A push of the cache is one
step here: that it may come late or not at all is `PullMisses`, and what it
takes to be correct is `CacheManager`.

The file system is a function from paths to contents, a layer a function on some
paths, whiteouts included. `LayerByScan` is the difference of disk and `MemFS`, but
for deletions of files that a copy put into `MemFS` (`copied`: the node's source is
the file it was copied from, which is still there, `mem_fs.go:48-57`);
`LayerByCopyOps` has what the last copy to a path brings, if one of the copies to it
changes `MemFS`. A command makes one file a copy of another, so that it depends on
what it finds. The reference is `Described`: the steps applied one after the other,
without layers, caches or pending copies.

- Run `BuildStage`: all stages of four lines over five steps and of five lines
  over three (copies with and without annotation or `--chown`, commands with and
  without, an annotated `ENV`), two builds, committing explicitly and
  implicitly, last stage or not, copied from or not. Two builds are what it
  takes for a cache to be used; five lines are the shortest stage in which an
  empty commit, an uncommitted step, a cached layer and a later commit meet.
  The two files are one to be overwritten and one to depend on it.
  `ImageIsWhatIsDescribed` compares the image with the reference,
  `StepsSeeWhatIsDescribed` the disk before every executed step,
  `ConfigMatchesManifest` the config with the manifest. Deadlock is not checked:
  builds end.
- Run `BuildStageCopies` (violation): see below.

Assumed: cache IDs are injective in what is hashed (they are 32-bit checksums),
a name of a base image keeps its content, files with equal headers are equal,
steps are deterministic.

`ImageIsWhatIsDescribed` and `StepsSeeWhatIsDescribed` are stated for implicit
commits and for stages in which every annotated step has something to commit
(`EveryCommitHasContent`), and for stages in which no command removes a file that
was copied before (`CopiesStay`); the run has stages of both kinds, and the
observations on stages below say what happens in the others.

### BuildPlan

A behaviour is a series of makisu processes on one host: `root` is the file system,
`backup` the copy of the root preserver, `stagesDir` the sandbox, `manifests` the
manifest store, `cache` what the registry caches for others. `StartBuild` is `Build`
of `cmd/build.go` up to the plan; `ProcessStage` the loop of
`processStagesAndAliases`, one stage of the Dockerfile at a time, with the remote
images it adds in any order; `BuildStage` a stage with its checkpoint and its
cleanup; `SaveManifest` one name; `EndBuild` the deferred calls. `StageFails` is a
failure from outside (network, command), `Crash` a killed process, which runs no
deferred call. `workDirs` has the directories that the nodes make on disk, whether
they may modify it or not (`ApplyCtxAndConfig`; in the model those of the base
images, in the code also those of WORKDIR lines). A stage that copies from what is
no name of an image is refused by the plan; a copied file that is missing is noticed
by the copy on disk, or else by the commit (`Misses`). The reference `Described`
gives the file system of every stage straight from the Dockerfile.

- Run `BuildPlan`: Dockerfiles of one to three stages that copy from a stage by
  name and by number, from images, from `scratch`, with names that clash
  (`"7"`, `"x"` twice), a target stage or none, a replica, with and without
  `--modifyfs` and `--preserve-root`; two builds. Two builds are what a dirty
  root, a used cache and a known manifest need, three stages what a middle stage
  needs that copies and is copied from. `PlanInvariant` has `RootIsKept`: a preserved
  root comes back, and without `--modifyfs` the files of the root stay as they are and
  nothing is added but working directories;
  `ImageIsTargetStage` and `FailsOnlyIfWrong` say that what is saved, and whether,
  depends on the Dockerfile alone; `IdsKeepTheirLayers` is about any two builds.
  Deadlock is not checked: the last build ends.

`ImageIsTargetStage` leaves out Dockerfiles in which an image that is copied from
has the name of a later stage (`AliasesAreClear`) and, with `--commit=explicit`,
target stages that do not end in an annotated step. All but `PlanInvariant` leave
out command lines between which a name that both copy from moves from a stage to
another, or to an image (`SourcesAreClear`); `FailsOnlyIfWrong` leaves out names that
differ in their registries only (`ManifestNamesAreClear`). All four are listed below.
The Dockerfiles of the run keep what they copy (`CopiesStay`, as above).

What a command line, a Dockerfile, a registry and a root are is said by the
assumptions of the module (`RequestAssumption`, `StepAssumption`,
`NumbersAssumption`, `RegistryAssumption`, `RootAssumption`): a file has stages, at
most ten, a stage begins with its only FROM, images are sequences of layers.

### MemFS

`disk` is the tree that commands and copies change, `tree` the nodes of `MemFS`
(`own` tells a node whose source is its own path), `copyOps` and `mustScan` what
waits, `layer` the last layer, `image` all of them untarred in turn.
`LayerByScan` walks the disk and then the nodes, `LayerByCopyOps` the sources of
the copies, both with the ancestors they add; `UntarOneItem` untars an entry as
`mem_fs.go` does, whiteouts, links and types that change included. On disk and in
the image the names of a hard link have one inode: what is written to one of them
(`Rewrite`) is in all. Time is in
seconds, and `Sync` is why a commit begins a new one. `CopyFile` and `CopyDir` are
what a copy does on disk.

- Run `MemFS`: two names at the root and one below the first, base images with a
  directory, a hard link, a symlink and a whiteout, commands that write, make,
  link and remove, copies of a file and of two directories; three seconds, that
  is two commits after the first layer. This is the least in which a file
  replaces a directory, a directory a symlink, and a whiteout meets what a later
  layer brings back. `ImageIsDisk`, `MemFSInvariant` (`TreeIsImage`: the nodes are
  the files of the image), `LayerStandsAlone`. Deadlock is not checked: time ends.

`RemovesCopies`, `CopiesToLinks` and `CopiesToHardLinks` are FALSE; all are listed below.

### DockerfileText

A state is the state object of `replaceVariables`, `parseKeyVals` or `splitArgs`;
`mode` is its Go type, and there is one operator for each `nextRune`. The texts are
put together from pieces that carry their meaning: `Piece(runes, meaning)`. The
meaning is that of `docs/PARSER.md`, but for three things that the code does in all
cases and that the property takes from the code: `:-` and `:+` are not swapped; where
a variable is not set, the variables in its name are replaced all the same; and a
text is read byte by byte, so that each byte of a character that is not ASCII
(`Bytes`) is a rune of its own. What goes wrong in some cases only is left out of
`Texts`. All are listed below.

- Run `DockerfileText`: all texts of up to three pieces, variables nested up to
  three deep with and without defaults, two keys with quoted, escaped and plain
  values, up to three arguments, shell operators with and without spaces, and the
  malformed texts that the documentation excludes; two characters of two bytes each, one
  of them with a byte that is a space as a rune. An automaton remembers a
  word, an escape and the variables around; a text of one piece before and one
  behind takes it through every pair of neighbouring modes. `ReadAsMeant`.
  Deadlock is not checked: a text ends.

### Dockerfile

A line is a directive, a name and a value of atoms, which are references or
literals. `globalArgs` and `stageVars` are the parsing state; there is one
`Parse…` action for each `new…Directive` with its `update`, and one `Build…`
action for each step, with `ApplyCtxAndConfig` before it: `SetEnvFromContext`
sets the variables in the order of a map, each expanded from the environment as
it is by then, with the quotes around a value taken off. `env` is the environment of the
process, restored after a stage; a command gets it with the `HOME` of its user
(`WithHome`).
`ENV`, `LABEL` and `ARG` lines have one key.

- Run `Dockerfile`: all files of two stages with two lines and a command in the
  first and one line and a command in the second, with and without global ARGs, on
  an image, on `scratch` and on an image named by an ARG; files of one stage with
  three lines; and files that are malformed, or have no FROM. Two variables that can
  refer to each other, one of the image, one of the environment of makisu, `HOME`,
  two given by `--build-arg`, one of them empty; a user with a group. Two lines
  before a command are what an indirect reference needs, a second stage what a leak
  needs. `ImagesAreDescribed`, `CommandsSeeTheirStage`. Deadlock is not checked: a
  build ends.

A line is read twice, by the parser and by its step. `ReadAlike` says for which
files both readings agree; the run checks these and the malformed ones. With
`EveryFile` TRUE both properties are violated, see below.

## Proofs

| Module | Theorems | Hold for |
|---|---|---|
| `FileMapProofs` | `TypeCorrect`, `HeldEntriesStayStored`, `NamesAreExclusive`, `QueueAndMapAgree`, `MapImplementsContract` | any goroutines, names and entries, any size |
| `CacheManagerProofs` | `TypeCorrect`, `MappingsAreSound`, `CleanWaitIsComplete` | any builders, cache IDs, layers, pushes, with or without a registry |
| `WorkerPoolProofs` | `TypeCorrect`, `WaitIsABarrier`, `UnstoppedPoolRunsAll` | any non-empty set of workers and any tasks |
| `ImageTransferProofs` | `TypeCorrect`, `TagsAreComplete`, `TransfersAreWhole`, `StoreIsVerified` | any workers, images and blobs |
| `BlobUploadProofs` | `SessionsAscend`, `PushesAreStored` | any sizes, chunks, retries and faults |
| | `UploadsAreSafe`, `SmoothPushesSucceed` | the same, if `push_chunk` is -1 or positive |
| `FileStoreProofs` | `StoreIsConsistent`, `AccessTimesAreFound` | any goroutines and names, any size |
| | `VerifiedIsStored`, `Refines` | the same, if no two tasks pull one digest at once |
| `BuildStageProofs` | `TypeCorrect`, `ConfigsMatchManifests` | any stages, files, contents and number of builds |
| | `ImagesAreDescribed`, `StepsSeeTheirFiles` | the same, if copies that are hashed alike are annotated alike; for stages whose commands remove nothing that was copied |
| `BuildPlanProofs` | `PlanIsConsistent`, `RootFilesAreLeftAlone` | any command lines, Dockerfiles, images and number of builds |
| | `ImageIsRightInTheEnd`, `ProgramIsNotToBlame`, `IdsAreKept` | the same, if copies that are hashed alike are annotated alike, no stage copies from itself and no command removes what its stage copied |

Each follows the same argument: an inductive invariant (`Inv` or `IInv`) with
lemmas for the initial states and for each action, and one temporal step per
theorem. The assumptions are the named ones of the modules: `None` is no other
value, a size is a natural number, a pool has a worker, an image has one config
that is not a layer, a step has the fields of its kind, the numbers of stages
differ as text. Five hypotheses are stated in the theorems themselves, because the
code does not see to them: `ChunksAreMeaningful` (another negative `push_chunk` never
ends), `~RepeatedLayers` (an incomplete file is stored), `SameAnnotations` (the
counterexample of `BuildStageCopies`), `NoSelfCopies` (see *BuildPlan* below), and
`CopiesStay` (a file that a command removes stays in the image if it was copied; in
`BuildStage` it is part of the properties, about the stage that is built). The command
lines of `MCBuildPlan` satisfy the last three, and TLC evaluates that.

Recursive functions (`Described`, `BuildNodes`, the `FlattenSeq` of the community
modules) are unfolded by one lemma each, and what they compute is bounded by
induction over a set of numbers (the lemma `Induction`, from the well-foundedness of
`<`), since the library's induction theorems take an operator.

- **FileMap.** The properties alone are not inductive. `ControlInv` says what
  the locals of a goroutine are at each point of its operation, `LockInv` that a
  goroutine past `Acquire` holds the lock of its entry, `FreshInv` that the new
  entry of a store is under no name until it is inserted. That a held entry stays
  stored follows because it is removed only by a goroutine that has its lock for
  writing. `NamesAreExclusive` follows from `HeldStaysStored` and the locks: two
  goroutines that hold one name hold one entry. The refinement maps every action
  to a step of the contract or to a stutter.
- **CacheManager.** `Uploaded` says that a push past its upload has its layer in
  the registry, `Blamed` that a failed push of a live process has left its
  error, `Tracked` that a mapping in memory has its push as long as there is no error,
  `Settled` that after a clean wait nothing is pending and no error was added.
- **WorkerPool.** `Leaving`: a worker leaves only a stopped or closed pool, and
  with no task, and `done` is closed only when all have left; `Closing`: the
  task channel is closed by `Wait`, which returns only after `done`;
  `Accounted`: as long as nobody stopped the pool, what was given is offered,
  run or ended.
- **ImageTransfer.** The pool's invariant is reused through the instance.
  `Honest`: whoever stops the pool has added an error before; `Given`: a pool
  that `Wait` was called on was given every blob of the image; `Reached`: as long
  as a push has no error, the blob of every task that ended is in the registry. Together:
  no error after `Wait` means nobody stopped the pool, so every task ran
  (`TasksAreLostOnlyToStop`), so every blob is in the registry before the tag.

- **BlobUpload.** `AnswersMean`: an answer, however late it is read, says what it
  said of the registry; `SessionIsRead`: what the session has was read from the
  file, and the reader only goes on. Together no byte comes twice, and a commit
  that succeeds has the blob. For a push without faults the session has to be
  known exactly: `ChunkIsRead` relates chunk and reader, `SmoothPush` says that the
  session is the prefix of the file that was read.
- **FileStore.** `Calling` and `Locking` say at each position of a call which task it
  belongs to and which lock it has, `Alone` that no two calls have one lock.
  `Placed` is the heart: a file is on disk in the directory that the state of its
  entry names, and in no other, except while the holder of its lock is at a label
  of `Gone`. `Remembered` is the same for access times. For the refinement,
  `Checked` says that a file stays whole from its verification to its move, which
  is where `OnePull` is needed; then each step of the store is one of
  `LayerStoreContract` or a stutter (`EffectRefines`, `CopyBodyRefines`,
  `RestartRefines`).
- **BuildStage.** `CacheIsRight`: the layer under an ID makes the files after its
  step out of those after the commit before, whichever build made it; there is
  none only if there was nothing to commit. `Chain`: no node is without a layer that has one
  to commit, if a later one was fetched. With these `ContextIsRight` holds at each node:
  as long as a complete layer is ahead (`Ahead`) memory and disk stand at the last
  commit (`WaitingContext`), afterwards disk is where the steps are, memory at the
  last commit, and what waits makes up the difference (`RunningContext`); of a copied
  file that is gone from disk this can not be said, hence `CopiesStay`. A layer
  that is committed is then right again, which closes the circle through the
  cache and over any number of builds. `Listed` relates `diffIDs`, layers and memory.
- **BuildPlan.** `PlanType` and `Progress`: the stage that is built and the name that is
  saved next are there. A plan has a stage for every alias because each stage of
  the Dockerfile adds itself and one alias. `RootUntouched`: without leave
  `ModifyFS` is false for every stage whose first node is reached, and then no node
  changes the files on disk (`NodesType`, along the nodes); the directories that it does
  make are working directories of images in the Dockerfile (`DirsMadeFor`).
- **BuildPlan: image, failures, IDs.** `Whole` is inductive, and has a part for each
  thing that one action leaves to a later one:
  - `CacheIsRight`: the layer under an ID is the one that the node of that ID is
    meant to have (`LayersAt`), in every Dockerfile that has the ID. This is about
    builds to come as well, which is what makes the rest inductive.
  - `PlanIsRight`: after `c` stages of the Dockerfile the plan has these in order
    (`Ordered`: `done[q]` of the first `q` stages of the plan are the Dockerfile's, the
    others pull the images that the next one copies from), with the IDs, the
    aliases and the paths to put aside that they should have.
  - `StagesAreRight`: what the stages built so far put aside is what the stages
    copied from are described to have, and the target has not been built yet.
  - `RootIsClean`, `ImageIsRight`, `NamesAreFree`, `Saved`, `NotToBlame`: the root is empty
    where a stage may change it, the image is the target stage, the names to save
    are free, the manifests saved are the image, and a build that failed of itself
    had a mistake in its Dockerfile.

  The argument goes in four steps. (1) *Nodes.* `NodesRight`: wherever the chain of
  fetched layers breaks, memory stands at the last commit, disk (if it is used) at
  the last step, and what waits makes up the difference, so that the layers of the
  nodes make the files that the steps mean, and each layer that is pushed is the
  one `LayersAt` gives (`FetchedNode`, `SkippedNode`, `FirstNode`, `NodesAreRight`,
  `StageIsRight`). (2) *IDs.* Two IDs that are the same were made of the same
  directives, back to the first stage of both (`IDsTell`, by induction on their
  length from the end), and the same directives mean the same files (`SameFiles`, by
  induction on the stages), so that two nodes of one ID have one layer (`SameID`).
  Hence what (1) pushes keeps `CacheIsRight` for all command lines (`OwnGrows`,
  `PullGrows`). (3) *Plan.* `PlannedNext`, over any order of the images that a stage
  pulls. (4) *Stages.* The stage whose turn it is finds what it copies (`OwnGoesWell`),
  leaves what it is described to have (`OwnLeaves`, `PullLeaves`), and the next one's
  turn comes.

  `SourcesAreClear`, `AliasesAreClear` and `TargetIsCommitted` are part of the
  properties, as in the run. Three hypotheses are of the theorems. `SameAnnotations`
  and `CopiesStay`, as for `BuildStage`. `NoSelfCopies`: no stage has a COPY from
  its own alias. The plan accepts one and makes no stage for its source, so the copy
  fails when it is run, but not when its layer was cached by a Dockerfile in which
  the name was another stage's; then the stage goes on with files that its own
  Dockerfile gives no meaning. `CacheIsRight` says nothing of such stages, and the
  induction could not pass through them. A Dockerfile has at most ten stages
  (`NumbersAssumption`; the model knows the numbers up to 9 as aliases).

Only model-checked:

- everything about liveness, which is out of the prover's reach;
- `ImageIsDisk`, `LayerStandsAlone` and `MemFSInvariant` of `MemFS`: a walk over the disk,
  a walk over the nodes and the untarring of the layers in turn, each a fold over
  the entries of a tree, have to come to the same tree; that needs an induction
  over trees for each pair of them, which has not been done;
- `ReadAsMeant` of `DockerfileText`, `ImagesAreDescribed` and `CommandsSeeTheirStage` of
  `Dockerfile`: what one recursion over a text or a file computes against what
  another one does, which is induction over data;
- the violation, which is a counterexample.

## What the code does differently

One run ends in a counterexample, with the line it contradicts in `PROJECT.json`:

- `BuildStageCopies`: COPY and ADD do not hash their `#!COMMIT`. A build in which
  `COPY a f #!COMMIT` was edited to `COPY a f` takes for the next annotated COPY
  the layer that was cached on top of the first, and has no `f`.

The following were met while modelling. Where a property or a constant is named,
TLC finds a counterexample once it is put into the cfg of the component's run.

**File map and store.** Two stores that overlap may evict one entry between them,
and the map stays over its size (`WithinCapacity` against `file_map.go:216`).
Recency is refreshed by every look-up, not by reads and writes only
(`file_map.go:50-52`). The start-up clean-up asks `DeleteFile`, which fails before
it deletes, so directories without data stay (`layer_tar_store.go:74`); a creation
that fails leaves its access time; an access time written without the lock may
appear in a directory that was just removed. Two tasks that pull one digest, with
an eviction between verification and move, store an incomplete file
(`RepeatedLayers = TRUE`, `CachedFilesAreComplete`).

**Cache manager.** Without `--push` no mapping reaches the key-value store, so
nothing is found by the next build (`cache_manager.go:193`, `docs/CACHE.md:4`). A
failed query is taken for a miss before its error is looked at, and never retried
(`cache_manager.go:131-142`).

**Image transfer.** A download that failed leaves its file in the download
directory; the next pull in the same process takes it for the layer and succeeds
without it (`PulledImageIsStored`, with a second image, against `client.go:109`).
`makisu push` of a tar under a tag the store already knows sends the image of the
store, not that of the tar (`PushedImageIsWanted`). `saveManifest` keeps the
manifest it finds when the tag has moved (`client.go:637`). With a negative
`concurrency` a pool has no worker, every task is dropped, and no error says so
(`worker_pool.go:46`).

**Upload.** `pushLayerWithBackoff` returns the errors of earlier attempts also when
the last one succeeds (`RetriedPushSucceeds` against `client.go:388-391`). The end of
a chunk is computed from the start of the one before it (`client.go:543`), so that
every second chunk is empty; a registry that checks ranges refuses them. When the
answer to the commit is lost, the repeated PUT finds no session, and the push
fails although the blob is stored. A transient failure over https followed by a
plain port that answers 400 ends the retries. The ping for credentials is not
retried. Codes 500 and 501 are not retried by `Send`. A negative `push_chunk`
other than -1 never ends.

**Stages.** A step that is annotated but has nothing to commit is cached as empty.
`latestFetched` takes it for a break of the chain while `pullCacheLayers` goes
on: steps before a later cached layer are executed again, and their copies,
still pending, are committed on top of it. `ImageIsWhatIsDescribed` without
`EveryCommitHasContent` fails: `ENV #!COMMIT`, `COPY a f`, `COPY b f #!COMMIT`,
`ENV #!COMMIT`, built twice, has `a` in `f`. Nor do its steps see what they should:
after `FROM`, `ENV #!COMMIT`, a `RUN` that changes `f` and a `COPY #!COMMIT` that puts the
`f` of the image back, the layer of the copy has no `f`; built again it is unpacked
over the `RUN`, which runs anew, and the next command finds the changed `f`
(`StepsSeeWhatIsDescribed` without its second condition).

A command that removes a file which an earlier COPY of its stage brought leaves it
in the image: the node of the copy is looked for at its source (`mem_fs.go:48-57`),
so the scan makes no whiteout. After `FROM`, `COPY b f #!COMMIT`, `RUN rm f
#!COMMIT`, the image has `f`. If the copy came from the cache its node is one of its
own, and the scan does make the whiteout: one cache ID stands for two layers, and a
build that takes the one without it has `f` on its disk again
(`ImageIsWhatIsDescribed`, `StepsSeeWhatIsDescribed` without `CopiesStay`, and the
properties of `BuildPlan` with such a Dockerfile).

**Plan.** Manifests are saved under names without registries: a replica that differs
from the target in its registry only makes the build fail at its end
(`ReplicasAreSaved` with `Requests <- Replicas`, against `docs/COMMAND.md:15`), and
so does a FROM of the target's own repository and tag. A `COPY --from` of the name
of a later stage is taken for an image, and a `--target` of that name stops at the
image (`ImageIsTargetStage` without `AliasesAreClear`). The ID of a `COPY --from`
has the name it copies from and not what that stands for, and an image that is
copied from is no part of the chain of the stage that copies
(`add_copy_step.go:109-112`): when `AS tool` is renamed, so that `COPY --from=tool`
means the image, or two stages swap their aliases, the layer that was cached for the
old meaning is taken (`IdsKeepTheirLayers` and `ImageIsTargetStage` without
`SourcesAreClear`, with `Requests <- Renamed`). `COPY --from=1` of a stage that has
a name is taken for an image. With `--commit=explicit` the last step of a target
stage is committed only if it is annotated or the target is the last stage
(`README.md:90`). After a killed build with `--preserve-root`, the next one copies
the dirty root over the backup (`root_preserver.go:55`). Without `--modifyfs` a
build still makes the working directories of its images on the host, whatever comes
of it (`base_step.go:80-89`, `:115`, called from `build_node.go:67`), and those of
its WORKDIR lines (`workdir_step.go:57-66`). A `COPY --from` of a path that is not
there is noticed at the next commit only, where the stage is not on disk
(`add_copy_step.go:145-149`). A Dockerfile without FROM is parsed without an error,
and its empty plan is executed up to a nil stage (`build_plan.go:178-215`; `NoStage`
of `Dockerfile`). A process that starts removes the sandbox and the downloads of
another one with the same storage directory.

**Layers.** `isOnDisk` asks for the source of a node: a command that removes what a
copy brought in gets no whiteout, and the file stays in the image
(`RemovesCopies = TRUE`, `ImageIsDisk`, against `mem_fs.go:48`). A copy through a
symlink stores its node under the link (`CopiesToLinks = TRUE`). A copy onto one name of
a hard link truncates and writes the file that all its names have
(`fileio/copy.go:201-206`, after `mem_fs.go:690-700`): they all change on disk, the layer
has the one that was copied to (`CopiesToHardLinks = TRUE`, `ImageIsDisk`). Opaque whiteouts
are ignored; a change that keeps size and time is not seen. A file copied onto a
directory fails on disk but replaces the directory in a layer by copies; a
directory copied onto a file gives a layer that cannot be untarred; a copy into a
dangling symlink fails on disk only. Hard links are stored again as files.

**Parser: text.** Read otherwise than written in `docs/PARSER.md`, and left out of
`Texts`: `${a${b$c}}` needs one more bracket (`replace_variables.go:189`);
`${x${A:-d}}` loses the outer name (`:322`); in `${$A$B}` and `${$A/x}` the rune
behind the inner variable is dropped (`:217-221`); a backslash at the end of a
text is dropped; `${A:-}` is refused; `CMD a;b` loses `b`, and `a;b c` becomes
`a ; bc` (`split_args.go:192-194`); an operator at the end is lost (`:202`);
`\ ` does not join words outside of quotes (`split_args.go:94-113`); `k= v` takes
` v` for the value.

Read otherwise than written there in all cases, and so in `ReadAsMeant`: `:+` and `:-`
(`docs/PARSER.md:16-19` has them the wrong way round); a variable that is not set is not
passed through exactly as it appears (`docs/PARSER.md:21`) where there are variables in its
name, as `${c$a}` comes out with `$a` replaced (`replace_variables.go:146-155`); and
characters that are not ASCII. The readers take bytes for runes and write each as a
character (`replace_variables.go:29-34`, `split_args.go:30-31`,
`parse_key_values.go:36-37`): an `é` becomes two characters, four after a second reader,
and the second byte of an `à` is a space, at which `splitArgs` ends the word.

**Parser and environment** (`EveryFile = TRUE`). `ENV P=$P:x` over a `P` of the image
keeps `$P` in the variables of the stage and expands it again before every step,
so that `P` grows with each (`base_step.go:102`, `env_step.go:59`). A variable that the
parser does not know is expanded from the environment of makisu, where
`docs/PARSER.md:21` has it passed through; in LABEL, EXPOSE, USER, VOLUME and CMD a
variable of the image stays as it is written. `ENV h=$a` before `ENV a=y` becomes
`y` for later commands. Where two variables refer to each other, the order of a
Go map decides. A global ARG overrides the default of an ARG of the stage
(`arg.go:79-84`, `docs/PARSER.md:183`), and an ARG the ENV of its name before it. A
relative WORKDIR without one before it stays relative. `scratch` has a `PATH` in
its config that commands do not get (`from_step.go:176-179`). A command of a user has
`HOME=/home/<user>`, whatever the image or an ENV say (`shell/cmd.go:44-51`); the parser
has already written the `HOME` of an ENV into its text. Quotes that the parser leaves
around the value of an ENV are in the config and not in the environment of the
commands of its stage (`base_step.go:98-101`). An ARG whose default is empty once its
variables are replaced has `name=` for its name, and the variable is not set
(`arg.go:30-51`). `ENTRYPOINT` does not
reset the `CMD` of the image.

## Not modelled

- Key-value stores as programs: the file that several processes read at their
  start and write as a whole (`fs_store.go:100`), the clients of redis and HTTP.
  `CacheManager` takes a store for an atomic map whose calls may fail.
- The checksum over the files of a build context and its path arithmetic, archives
  that ADD extracts, the flags of HEALTHCHECK, JSON forms, comments and
  continuation lines of a Dockerfile, image names: sequential functions on text
  or files; a model would transcribe them.
- Blacklisted and mounted paths, owners and modes, special files, the bytes of an
  archive: calls of the operating system in sequence.
- The directories that WORKDIR lines make on disk at once, in every mode, apart from
  those of base images (`workDirs` of `BuildPlan`).
- Credentials, certificates and their helpers; metadata of files that makisu never
  sets; the layout of the store's directories.
- Docker and worker clients, flags, logging, tools: no state or decision of their
  own, or outside of the program.

## Plan

Modelled in this order: `FileMap` with its contract, `CacheManager`, `WorkerPool`,
`ImageTransfer` over `WorkerPool`, `BuildStage`; then `FileStore` over the
contract of the map, `BuildPlan` and `BuildStage` over `BuildSteps`, `BlobUpload`,
`MemFS`, `DockerfileText` and `Dockerfile`. Every safety property that a run of
the modules before the last three checks is a theorem, stages and plan last.
Left: a module for the file-backed key-value store.

Bounds as above: two or three actors, two names, the shortest history in which
the hazard can happen. There is one run per component, and one violation.

## Running the checks

    tlc -workers 2 -config FileMap.cfg MCFileMap        # each run: its cfg, its MC module
    tlapm FileMapProofs.tla                             # each module of theorems

The runs take from a few seconds (`WorkerPool`, `DockerfileText`) to a few minutes,
the proofs as long, but for `BuildPlanProofs`, which takes about ten.
