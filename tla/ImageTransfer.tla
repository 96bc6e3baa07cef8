---------------------------- MODULE ImageTransfer ----------------------------
(***************************************************************************)
(* lib/registry/client.go: Pull and Push of an image by one makisu         *)
(* process, over the process's image store (lib/storage) and a registry    *)
(* that other processes push to as well.  The image is repo:tag: one name  *)
(* in the registry, one file name in the manifest store.                   *)
(*                                                                         *)
(* The blobs of an image, its layers and its config, travel in the tasks   *)
(* of a WorkerPool; the manifest follows when all of them are through.     *)
(* Blobs live under layer_tar/download while they are fetched and under    *)
(* layer_tar/cache once their digest was verified.                         *)
(***************************************************************************)
CONSTANTS
    Worker,       \* the goroutines of a pool (Config.Concurrency)
    Blob,         \* layers and configs, by digest
    Image,        \* manifests
    LayersOf,     \* GetLayerDigests of a manifest
    ConfigOf,     \* GetConfigDigest of a manifest
    None

ASSUME ImageAssumption == /\ LayersOf \in [Image -> SUBSET Blob]
                          /\ ConfigOf \in [Image -> Blob]
                          /\ \A i \in Image : ConfigOf[i] \notin LayersOf[i]
ASSUME BlobAssumption == Worker # {} /\ None \notin Blob \cup Image

VARIABLES
    tagged, blobs,        \* the registry: the image the tag names, the blobs
    layer,                \* layer store: where each blob's file is
    verified,             \* the blobs whose file has the content of their digest
    manifest,             \* manifest store: the image saved under the name
    job, image, wanted,   \* what the process does, with which image; and the
                          \* image makisu push was given
    errors,               \* multiError is not empty
    step, retried,        \* the task of each worker
    caller, offered, given, working, exited, stopped, closed, done, ended

Pool == INSTANCE WorkerPool WITH Task <- Blob

remoteVars == <<tagged, blobs>>
storeVars == <<layer, verified, manifest>>
jobVars == <<job, image, wanted>>
poolVars == <<caller, offered, given, working, exited, stopped, closed, done, ended>>
taskVars == <<errors, step, retried>>
vars == <<remoteVars, storeVars, jobVars, taskVars, poolVars>>

BlobsOf(i) == LayersOf[i] \cup {ConfigOf[i]}
ForgetTasks == /\ errors' = FALSE
               /\ step' = [w \in Worker |-> "begin"]
               /\ retried' = [w \in Worker |-> FALSE]
               /\ Pool!Reset

Init ==
    /\ tagged = None
    /\ blobs = {}
    /\ layer = [b \in Blob |-> "absent"]
    /\ verified = {}
    /\ manifest = None
    /\ job = "none"
    /\ image = None
    /\ wanted = None
    /\ errors = FALSE
    /\ step = [w \in Worker |-> "begin"]
    /\ retried = [w \in Worker |-> FALSE]
    /\ Pool!Init

-----------------------------------------------------------------------------
(* What happens around a transfer. *)

(* Another process pushes an image. *)
OthersPush(i) ==
    /\ blobs' = blobs \cup BlobsOf(i)
    /\ tagged' = i
    /\ UNCHANGED <<storeVars, jobVars, taskVars, poolVars>>

(* PushCache's goroutine: it may run beside any job. *)
PushAside(b) ==
    /\ layer[b] = "cache"
    /\ blobs' = blobs \cup {b}
    /\ UNCHANGED <<tagged, storeVars, jobVars, taskVars, poolVars>>

(* PullCache asks PullLayer for a layer that is not in the store; whatever *)
(* comes of it, the build goes on.                                         *)
FetchLayer(b) ==
    /\ job = "none"
    /\ layer[b] = "absent"
    /\ \/ /\ b \in blobs
          /\ layer' = [layer EXCEPT ![b] = "cache"]
          /\ verified' = verified \cup {b}
       \/ /\ layer' = [layer EXCEPT ![b] = "download"]
          /\ UNCHANGED verified
    /\ UNCHANGED <<remoteVars, manifest, jobVars, taskVars, poolVars>>

(* The layer store evicts its oldest file, finished or not, when one more  *)
(* is stored, by a job too; which of a few blobs that is is left open.     *)
EvictLayer(b) ==
    /\ layer[b] # "absent"
    /\ layer' = [layer EXCEPT ![b] = "absent"]
    /\ verified' = verified \ {b}
    /\ UNCHANGED <<remoteVars, manifest, jobVars, taskVars, poolVars>>

(* importTar, makisu push: every blob, then the manifest, unless a         *)
(* manifest of that name is stored.                                        *)
ImportTar(i) ==
    /\ job = "none"
    /\ wanted = None
    /\ \A b \in BlobsOf(i) : layer[b] # "download"
    /\ layer' = [b \in Blob |-> IF b \in BlobsOf(i) THEN "cache" ELSE layer[b]]
    /\ verified' = verified \cup {b \in BlobsOf(i) : layer[b] = "absent"}
    /\ manifest' = IF manifest = None THEN i ELSE manifest
    /\ wanted' = i
    /\ UNCHANGED <<remoteVars, job, image, taskVars, poolVars>>

(* The process ends or dies.  The next one empties the download directory  *)
(* of the layer store (NewLayerTarStore).                                  *)
Restart ==
    /\ layer' = [b \in Blob |-> IF layer[b] = "cache" THEN "cache" ELSE "absent"]
    /\ verified' = {b \in verified : layer[b] = "cache"}
    /\ job' = "none"
    /\ image' = None
    /\ wanted' = None
    /\ ForgetTasks
    /\ UNCHANGED <<remoteVars, manifest>>

-----------------------------------------------------------------------------
(* Steps of a task. *)

Running(w, kind, s) == job = kind /\ working[w] # None /\ step[w] = s

Goto(w, s) == /\ step' = [step EXCEPT ![w] = s]
              /\ UNCHANGED <<errors, retried, poolVars>>

Succeed(w) == Pool!Finish(w) /\ UNCHANGED taskVars

-----------------------------------------------------------------------------
(* Mutants: the form a definition below would take with a plausible bug. *)

(* The digest of a download is not looked at. *)
SaveUnverified(w) ==
    /\ Running(w, "pull", "save")
    /\ IF layer[working[w]] = "download"
       THEN layer' = [layer EXCEPT ![working[w]] = "cache"] /\ Succeed(w)
       ELSE Goto(w, "failed") /\ UNCHANGED layer
    /\ UNCHANGED <<remoteVars, verified, manifest, jobVars>>

(* What workers.Wait left in multiError is not looked at. *)
CollectNothing ==
    /\ job \in {"pull", "push"}
    /\ caller = "returned"
    /\ job' = IF job = "pull" THEN "save" ELSE "tag"
    /\ UNCHANGED <<remoteVars, storeVars, image, wanted, taskVars, poolVars>>

(* A task that fails stops the pool without multiError.Add. *)
AddNoError(w) ==
    /\ working[w] # None
    /\ step[w] = "failed"
    /\ Goto(w, "stop")
    /\ UNCHANGED <<remoteVars, storeVars, jobVars>>

(* Do does not watch pool.done. *)
PoolStepsWithoutDrop ==
    /\ Pool!Waited \/ Pool!CloseDone \/ \E w \in Worker : Pool!Exit(w)
    /\ UNCHANGED <<remoteVars, storeVars, jobVars, taskVars>>

(* One pool serves all the transfers of a client. *)
EndJobKeepsPool ==
    /\ job \in {"pulled", "pushed"}
    /\ job' = "none"
    /\ image' = None
    /\ UNCHANGED <<remoteVars, storeVars, wanted, taskVars, poolVars>>

-----------------------------------------------------------------------------
(* Pull and Push, in the goroutine of the caller. *)

Start(kind, i) ==
    /\ job = "none"
    /\ job' = kind
    /\ image' = i
    /\ UNCHANGED <<remoteVars, storeVars, wanted, taskVars, poolVars>>

StartPull == tagged # None /\ Start("pull", tagged)

(* manifestExists has no say: an image that exists is overwritten. *)
StartPush == manifest # None /\ Start("push", manifest)

(* No such image, or the registry gives no answer. *)
StartFails == Start("failed", None)

(* One task per distinct layer, and the config last. *)
GiveTask ==
    /\ job \in {"pull", "push"}
    /\ \/ \E b \in LayersOf[image] \ given : Pool!Do(b)
       \/ /\ LayersOf[image] \subseteq given
          /\ ConfigOf[image] \notin given
          /\ Pool!Do(ConfigOf[image])
    /\ UNCHANGED <<remoteVars, storeVars, jobVars, taskVars>>

WaitForTasks ==
    /\ job \in {"pull", "push"}
    /\ BlobsOf(image) \subseteq given
    /\ Pool!Wait
    /\ UNCHANGED <<remoteVars, storeVars, jobVars, taskVars>>

PoolSteps ==
    /\ Pool!Drop \/ Pool!Waited \/ Pool!CloseDone \/ \E w \in Worker : Pool!Exit(w)
    /\ UNCHANGED <<remoteVars, storeVars, jobVars, taskVars>>

(* multiError.Collect. *)
Collect ==
    /\ job \in {"pull", "push"}
    /\ caller = "returned"
    /\ job' = CASE errors -> "failed"
                [] ~errors /\ job = "pull" -> "save"
                [] ~errors /\ job = "push" -> "tag"
    /\ UNCHANGED <<remoteVars, storeVars, image, wanted, taskVars, poolVars>>

(* saveManifest: a manifest that is there already is left as it is. *)
SaveManifest ==
    /\ job = "save"
    /\ \/ /\ manifest' = IF manifest = None THEN image ELSE manifest
          /\ job' = "pulled"
       \/ /\ manifest = None
          /\ job' = "failed"
          /\ UNCHANGED manifest
    /\ UNCHANGED <<remoteVars, layer, verified, image, wanted, taskVars, poolVars>>

(* PushManifest; a failure may be the answer that was lost. *)
PushManifest ==
    /\ job = "tag"
    /\ \/ tagged' = image /\ job' = "pushed"
       \/ tagged' \in {tagged, image} /\ job' = "failed"
    /\ UNCHANGED <<blobs, storeVars, image, wanted, taskVars, poolVars>>

(* The process goes on to its next transfer; after an error it does not. *)
EndJob ==
    /\ job \in {"pulled", "pushed"}
    /\ job' = "none"
    /\ image' = None
    /\ ForgetTasks
    /\ UNCHANGED <<remoteVars, storeVars, wanted>>

-----------------------------------------------------------------------------
(* The tasks, in the goroutines of the workers. *)

TakeTask(w) ==
    /\ Pool!Take(w)
    /\ step' = [step EXCEPT ![w] = "begin"]
    /\ retried' = [retried EXCEPT ![w] = FALSE]
    /\ UNCHANGED <<remoteVars, storeVars, jobVars, errors>>

(* multiError.Add, then workers.Stop. *)
AddError(w) ==
    /\ working[w] # None
    /\ step[w] = "failed"
    /\ errors' = TRUE
    /\ step' = [step EXCEPT ![w] = "stop"]
    /\ UNCHANGED <<remoteVars, storeVars, jobVars, retried, poolVars>>

StopPool(w) ==
    /\ working[w] # None
    /\ step[w] = "stop"
    /\ Pool!Stop(w)
    /\ step' = [step EXCEPT ![w] = "end"]
    /\ UNCHANGED <<remoteVars, storeVars, jobVars, errors, retried>>

EndFailed(w) ==
    /\ working[w] # None
    /\ step[w] = "end"
    /\ Succeed(w)
    /\ UNCHANGED <<remoteVars, storeVars, jobVars>>

(* PullLayer of a blob that GetDownloadOrCacheFileStat finds. *)
SkipPull(w) ==
    /\ Running(w, "pull", "begin")
    /\ layer[working[w]] # "absent"
    /\ Succeed(w)
    /\ UNCHANGED <<remoteVars, storeVars, jobVars>>

(* The registry sends the blob, and the file to write it to is made. *)
StartDownload(w) ==
    /\ Running(w, "pull", "begin")
    /\ layer[working[w]] = "absent"
    /\ working[w] \in blobs
    /\ layer' = [layer EXCEPT ![working[w]] = "download"]
    /\ Goto(w, "copy")
    /\ UNCHANGED <<remoteVars, verified, manifest, jobVars>>

DownloadFails(w) ==
    /\ \/ Running(w, "pull", "begin") /\ layer[working[w]] = "absent"
       \/ Running(w, "pull", "copy")
    /\ Goto(w, "failed")
    /\ UNCHANGED <<remoteVars, storeVars, jobVars>>

(* io.Copy ends; what arrived may be something else, and the file it was   *)
(* written to may be gone.                                                 *)
CopyBody(w) ==
    /\ Running(w, "pull", "copy")
    /\ \/ UNCHANGED verified
       \/ layer[working[w]] = "download" /\ verified' = verified \cup {working[w]}
    /\ Goto(w, "save")
    /\ UNCHANGED <<remoteVars, layer, manifest, jobVars>>

(* saveLayer moves the file when its digest is right; the move may fail,   *)
(* and so may the look at the file behind it.                              *)
SaveLayer(w) ==
    /\ Running(w, "pull", "save")
    /\ \/ /\ working[w] \in verified /\ layer[working[w]] = "download"
          /\ layer' = [layer EXCEPT ![working[w]] = "cache"]
          /\ Succeed(w) \/ Goto(w, "failed")
       \/ Goto(w, "failed") /\ UNCHANGED layer
    /\ UNCHANGED <<remoteVars, verified, manifest, jobVars>>

(* An attempt of pushLayerHelper that returns nil: the registry has the    *)
(* blob, or takes it from the store.  pushLayerWithBackoff returns what    *)
(* its multiError collected, so an earlier attempt's error comes back.     *)
PushAttempt(w) ==
    /\ Running(w, "push", "begin")
    /\ working[w] \in blobs \/ layer[working[w]] = "cache"
    /\ blobs' = blobs \cup {working[w]}
    /\ IF retried[w] THEN Goto(w, "failed") ELSE Succeed(w)
    /\ UNCHANGED <<tagged, storeVars, jobVars>>

(* An attempt that returns an error, although the registry may have taken  *)
(* the blob.  It is made again, here at most once, or not.                 *)
PushAttemptFails(w) ==
    /\ Running(w, "push", "begin")
    /\ \/ UNCHANGED blobs
       \/ layer[working[w]] = "cache" /\ blobs' = blobs \cup {working[w]}
    /\ \/ /\ ~retried[w]
          /\ retried' = [retried EXCEPT ![w] = TRUE]
          /\ UNCHANGED <<errors, step, poolVars>>
       \/ Goto(w, "failed")
    /\ UNCHANGED <<tagged, storeVars, jobVars>>

-----------------------------------------------------------------------------
Around ==
    \/ \E i \in Image : OthersPush(i) \/ ImportTar(i)
    \/ \E b \in Blob : PushAside(b) \/ FetchLayer(b) \/ EvictLayer(b)
    \/ StartPull \/ StartPush \/ StartFails
    \/ Restart

Caller ==
    \/ GiveTask \/ WaitForTasks \/ PoolSteps
    \/ Collect \/ SaveManifest \/ PushManifest \/ EndJob

TaskSteps(w) ==
    \/ TakeTask(w) \/ AddError(w) \/ StopPool(w) \/ EndFailed(w)
    \/ SkipPull(w) \/ StartDownload(w) \/ DownloadFails(w) \/ CopyBody(w) \/ SaveLayer(w)
    \/ PushAttempt(w) \/ PushAttemptFails(w)

Next == Around \/ Caller \/ \E w \in Worker : TaskSteps(w)

Spec == Init /\ [][Next]_vars

(* Goroutines are scheduled, and every request ends, if only by its        *)
(* timeout.                                                                *)
Fairness == WF_vars(Caller) /\ \A w \in Worker : WF_vars(TaskSteps(w))

FairSpec == Spec /\ Fairness

-----------------------------------------------------------------------------
(* Properties. *)

Jobs == {"none", "pull", "push", "save", "tag", "pulled", "pushed", "failed"}
Steps == {"begin", "copy", "save", "failed", "stop", "end"}

(* Every variable has its type; a job has an image; between two jobs there *)
(* is no pool, and no error left over.                                     *)
TypeOK ==
    /\ tagged \in Image \cup {None}
    /\ blobs \subseteq Blob
    /\ layer \in [Blob -> {"absent", "download", "cache"}]
    /\ verified \subseteq Blob
    /\ manifest \in Image \cup {None}
    /\ job \in Jobs
    /\ image \in Image \cup {None}
    /\ wanted \in Image \cup {None}
    /\ errors \in BOOLEAN
    /\ step \in [Worker -> Steps]
    /\ retried \in [Worker -> BOOLEAN]
    /\ Pool!TypeOK
    /\ job \notin {"none", "failed"} => image \in Image
    /\ job = "none" => caller = "free" /\ given = {} /\ ~errors

(* Push sends the manifest after the blobs (client.go:186-207): whenever   *)
(* the tag can be pulled, every blob of the image it names can be, too,    *)
(* however many tasks failed, were dropped or lost their answer.           *)
TaggedImageIsComplete == tagged # None => BlobsOf(tagged) \subseteq blobs

(* A worker that stops the pool makes Do drop tasks in silence             *)
(* (worker_pool.go:79); the error must be in multiError before: a transfer *)
(* that goes on to its manifest has run the task of every blob.            *)
NoTaskIsDropped == job \in {"save", "tag"} => ended = BlobsOf(image)

(* "verifies that the contents of that layer match the digest"             *)
(* (client.go:288-289): what is in the cache directory is what its name    *)
(* says, whoever wrote it there.                                           *)
StoredBlobsAreVerified == \A b \in Blob : layer[b] = "cache" => b \in verified

(* "If the pull succeeded, it would store the image in the ImageStore of   *)
(* the client" (client.go:109): its blobs can be read from the store.      *)
PulledImageIsStored == job = "pulled" => \A b \in BlobsOf(image) : layer[b] = "cache"

(* "Push image tar to docker registries" (push.go:93): the image makisu    *)
(* push sends off is the one in the tar it was given.                      *)
PushedImageIsWanted == job = "pushed" /\ wanted # None => image = wanted

(* A transfer ends, whichever tasks fail and stop the pool while Do and    *)
(* Wait are waiting for its workers.                                       *)
JobsEnd == job \in {"pull", "push", "save", "tag"} ~> job \in {"pulled", "pushed", "failed", "none"}

=============================================================================
