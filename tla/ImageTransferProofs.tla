------------------------- MODULE ImageTransferProofs -------------------------
(***************************************************************************)
(* Proofs about ImageTransfer, for any workers, blobs and images.          *)
(***************************************************************************)
EXTENDS ImageTransfer, TLAPS

P == INSTANCE WorkerPoolProofs WITH Task <- Blob

(* The inductive invariant.  The pool keeps its own (WorkerPoolProofs).    *)
(* Whoever stops the pool has put an error into multiError before; a pool  *)
(* that Wait has been called on was given every blob of the image; and a   *)
(* push without errors has every blob whose task ended in the registry.    *)

Honest ==
    /\ stopped => errors
    /\ \A w \in Worker : working[w] # None /\ step[w] \in {"stop", "end"} => errors

Active == {"pull", "push", "save", "tag", "pulled", "pushed"}

Given ==
    /\ job \in Active => given \subseteq BlobsOf(image)
    /\ job \in Active /\ caller \in {"waiting", "returned"} => given = BlobsOf(image)
    /\ job \in Active \ {"pull", "push"} => caller = "returned"

Reached ==
    /\ job = "push" /\ ~errors => ended \subseteq blobs
    /\ job \in {"save", "tag"} => ended = given
    /\ job = "tag" => ended \subseteq blobs

IInv ==
    /\ TypeOK
    /\ P!IInv
    /\ Honest
    /\ Given
    /\ Reached
    /\ TaggedImageIsComplete
    /\ StoredBlobsAreVerified

USE DEF poolVars, Pool!vars, Pool!channels, P!vars, P!channels

(* The steps of the pool keep the pool's invariant. *)
LEMMA PoolStep ==
    ASSUME IInv,
           \/ UNCHANGED poolVars
           \/ Pool!Reset
           \/ \E b \in Blob \ given : Pool!Do(b)
           \/ Pool!Drop \/ Pool!Wait \/ Pool!Waited \/ Pool!CloseDone
           \/ \E w \in Worker : Pool!Take(w) \/ Pool!Stop(w) \/ Pool!Finish(w) \/ Pool!Exit(w)
    PROVE  P!IInv'
<1> USE BlobAssumption DEF IInv
<1>1. CASE UNCHANGED poolVars
  BY <1>1 DEF P!IInv, P!TypeOK, P!Leaving, P!Closing, P!Accounted
<1>2. CASE Pool!Reset
  BY <1>2, P!ResetStep DEF Pool!Reset, P!Reset
<1>3. CASE \E b \in Blob \ given : Pool!Do(b)
  BY <1>3, P!DoStep DEF Pool!Do, P!Do
<1>4. CASE Pool!Drop
  BY <1>4, P!DropStep DEF Pool!Drop, P!Drop
<1>5. CASE Pool!Wait
  BY <1>5, P!WaitStep DEF Pool!Wait, P!Wait
<1>6. CASE Pool!Waited
  BY <1>6, P!WaitedStep DEF Pool!Waited, P!Waited
<1>7. CASE Pool!CloseDone
  BY <1>7, P!CloseDoneStep DEF Pool!CloseDone, P!CloseDone
<1>8. ASSUME NEW w \in Worker, Pool!Take(w) PROVE P!IInv'
  BY <1>8, P!TakeStep DEF Pool!Take, P!Take, Pool!Idle, P!Idle
<1>9. ASSUME NEW w \in Worker, Pool!Stop(w) PROVE P!IInv'
  BY <1>9, P!StopStep DEF Pool!Stop, P!Stop
<1>10. ASSUME NEW w \in Worker, Pool!Finish(w) PROVE P!IInv'
  BY <1>10, P!FinishStep DEF Pool!Finish, P!Finish
<1>11. ASSUME NEW w \in Worker, Pool!Exit(w) PROVE P!IInv'
  BY <1>11, P!ExitStep DEF Pool!Exit, P!Exit, Pool!Idle, P!Idle
<1> QED BY <1>1, <1>2, <1>3, <1>4, <1>5, <1>6, <1>7, <1>8, <1>9, <1>10, <1>11

(* What the pool's invariant says, in the terms of this module. *)
LEMMA PoolFacts ==
    ASSUME IInv
    PROVE  /\ Pool!TypeOK
           /\ caller = "returned" => offered = None /\ \A w \in Worker : working[w] = None
           /\ caller = "returned" /\ ~stopped => ended = given
           /\ \A w \in Worker : working[w] # None => working[w] \in given
           /\ offered # None => offered \in given
<1> USE BlobAssumption DEF IInv, P!IInv
<1>1. Pool!TypeOK
  BY DEF TypeOK
<1>2. \A w \in Worker : working[w] # None => working[w] \in given
  BY DEF P!Accounted
<1>3. caller = "returned" => offered = None /\ \A w \in Worker : working[w] = None
  BY DEF P!Leaving, P!Closing, P!TypeOK
<1>4. caller = "returned" /\ ~stopped => ended = given
  BY <1>3 DEF P!Accounted, P!TypeOK
<1> QED BY <1>1, <1>2, <1>3, <1>4 DEF P!Accounted

(* An empty store, an empty registry and a new pool satisfy it. *)
LEMMA InitIInv == Init => IInv
<1> SUFFICES ASSUME Init PROVE IInv
  OBVIOUS
<1> USE BlobAssumption DEF Init
<1>1. P!IInv
  BY P!InitIInv DEF Pool!Init, P!Init
<1>2. TypeOK
  BY DEF TypeOK, Pool!TypeOK, Pool!Init, Jobs, Steps
<1>3. Honest /\ Given /\ Reached /\ TaggedImageIsComplete /\ StoredBlobsAreVerified
  BY DEF Honest, Given, Reached, Active, TaggedImageIsComplete, StoredBlobsAreVerified, Pool!Init
<1> QED BY <1>1, <1>2, <1>3 DEF IInv

-----------------------------------------------------------------------------
(* What happens around a transfer leaves the job and its pool alone, or    *)
(* starts with a new pool.                                                 *)

(* Blobs are only added to the registry, those of an image with its tag.   *)
LEMMA RegistryStep ==
    ASSUME IInv, \/ \E i \in Image : OthersPush(i)
                 \/ \E b \in Blob : PushAside(b)
    PROVE  IInv'
<1> USE ImageAssumption, BlobAssumption DEF IInv, storeVars, jobVars, taskVars
<1>1. UNCHANGED <<storeVars, jobVars, taskVars, poolVars>> /\ blobs \subseteq blobs'
  BY DEF OthersPush, PushAside
<1>2. P!IInv'
  BY <1>1, PoolStep
<1>3. TypeOK'
  <2>1. tagged' \in Image \cup {None} /\ blobs' \subseteq Blob
    BY DEF TypeOK, OthersPush, PushAside, BlobsOf
  <2> QED BY <1>1, <2>1 DEF TypeOK, Pool!TypeOK
<1>4. Honest' /\ Given' /\ Reached' /\ StoredBlobsAreVerified'
  BY <1>1 DEF Honest, Given, Reached, BlobsOf, StoredBlobsAreVerified
<1>5. TaggedImageIsComplete'
  BY DEF OthersPush, PushAside, TaggedImageIsComplete, BlobsOf
<1> QED BY <1>2, <1>3, <1>4, <1>5

(* A file comes to the cache directory with its digest verified.           *)
LEMMA StoreStep ==
    ASSUME IInv, \/ \E i \in Image : ImportTar(i)
                 \/ \E b \in Blob : FetchLayer(b) \/ EvictLayer(b)
    PROVE  IInv'
<1> USE ImageAssumption, BlobAssumption DEF IInv, remoteVars, jobVars, taskVars
<1>1. /\ UNCHANGED <<remoteVars, job, image, taskVars, poolVars>>
      /\ wanted' \in Image \cup {None}
  BY DEF ImportTar, FetchLayer, EvictLayer, TypeOK
<1>2. P!IInv'
  BY <1>1, PoolStep
<1>3. TypeOK'
  <2>1. layer' \in [Blob -> {"absent", "download", "cache"}]
    BY DEF TypeOK, ImportTar, FetchLayer, EvictLayer
  <2>2. verified' \subseteq Blob /\ manifest' \in Image \cup {None}
    BY DEF TypeOK, ImportTar, FetchLayer, EvictLayer, BlobsOf
  <2> QED BY <1>1, <2>1, <2>2 DEF TypeOK, Pool!TypeOK
<1>4. Honest' /\ Given' /\ Reached' /\ TaggedImageIsComplete'
  BY <1>1 DEF Honest, Given, Reached, BlobsOf, TaggedImageIsComplete
<1>5. StoredBlobsAreVerified'
  BY DEF ImportTar, FetchLayer, EvictLayer, StoredBlobsAreVerified, TypeOK
<1> QED BY <1>2, <1>3, <1>4, <1>5

(* A job starts with the pool as it was made. *)
LEMMA StartStep == ASSUME IInv, StartPull \/ StartPush \/ StartFails PROVE IInv'
<1> USE ImageAssumption, BlobAssumption DEF IInv, remoteVars, storeVars, taskVars
<1>1. /\ job = "none" /\ job' \in {"pull", "push", "failed"}
      /\ image' \in Image \cup {None}
      /\ job' # "failed" => image' \in Image
      /\ UNCHANGED <<remoteVars, storeVars, wanted, taskVars, poolVars>>
  BY DEF StartPull, StartPush, StartFails, Start, TypeOK
<1>2. P!IInv'
  BY <1>1, PoolStep
<1>3. TypeOK'
  BY <1>1 DEF TypeOK, Pool!TypeOK, Jobs
<1>4. caller = "free" /\ given = {} /\ ended = {}
  BY <1>1 DEF TypeOK, Pool!TypeOK
<1>5. Honest' /\ TaggedImageIsComplete' /\ StoredBlobsAreVerified'
  BY <1>1 DEF Honest, TaggedImageIsComplete, StoredBlobsAreVerified, BlobsOf
<1>6. Given' /\ Reached'
  BY <1>1, <1>4 DEF Given, Active, Reached
<1> QED BY <1>2, <1>3, <1>5, <1>6

(* The process and its pool start anew; a download that was not moved is   *)
(* gone.                                                                   *)
LEMMA RestartStep == ASSUME IInv, Restart PROVE IInv'
<1> USE ImageAssumption, BlobAssumption DEF IInv, Restart, ForgetTasks, remoteVars
<1>1. P!IInv'
  BY PoolStep
<1>2. TypeOK'
  BY DEF TypeOK, Pool!TypeOK, Pool!Reset, Jobs, Steps
<1>3. Honest' /\ Given' /\ Reached'
  BY DEF Honest, Given, Active, Reached, Pool!Reset
<1>4. TaggedImageIsComplete'
  BY DEF TaggedImageIsComplete, BlobsOf
<1>5. StoredBlobsAreVerified'
  BY DEF StoredBlobsAreVerified, TypeOK
<1> QED BY <1>1, <1>2, <1>3, <1>4, <1>5

-----------------------------------------------------------------------------
(* The caller's steps. *)

(* Do is given blobs of the image only, and Wait is called after the last. *)
LEMMA GiveStep == ASSUME IInv, GiveTask \/ WaitForTasks PROVE IInv'
<1> USE ImageAssumption, BlobAssumption DEF IInv, remoteVars, storeVars, jobVars, taskVars
<1>1. /\ job \in {"pull", "push"}
      /\ image \in Image
      /\ UNCHANGED <<remoteVars, storeVars, jobVars, taskVars>>
      /\ UNCHANGED <<stopped, working, ended>>
  BY DEF GiveTask, WaitForTasks, TypeOK, Pool!Do, Pool!Wait
<1>2. \/ \E b \in BlobsOf(image) \ given : Pool!Do(b)
      \/ BlobsOf(image) \subseteq given /\ Pool!Wait
  BY DEF GiveTask, WaitForTasks, BlobsOf
<1>3. BlobsOf(image) \subseteq Blob
  BY <1>1 DEF BlobsOf
<1>4. P!IInv'
  BY <1>2, <1>3, PoolStep
<1>5. P!TypeOK'
  BY <1>4 DEF P!IInv
<1>6. TypeOK'
  BY <1>1, <1>5 DEF TypeOK, P!TypeOK, Pool!TypeOK
<1>7. Honest' /\ TaggedImageIsComplete' /\ StoredBlobsAreVerified' /\ Reached'
  BY <1>1 DEF Honest, TaggedImageIsComplete, StoredBlobsAreVerified, BlobsOf, Reached
<1>8. Given'
  <2>1. CASE \E b \in BlobsOf(image) \ given : Pool!Do(b)
    BY <1>1, <2>1 DEF Given, Active, BlobsOf, Pool!Do
  <2>2. CASE BlobsOf(image) \subseteq given /\ Pool!Wait
    BY <1>1, <2>2 DEF Given, Active, BlobsOf, Pool!Wait
  <2> QED BY <1>2, <2>1, <2>2
<1> QED BY <1>4, <1>6, <1>7, <1>8

(* The pool's own steps take no job further, and none but a job that waits *)
(* for its tasks has such a step that changes anything here.               *)
LEMMA PoolStepsStep == ASSUME IInv, PoolSteps PROVE IInv'
<1> USE ImageAssumption, BlobAssumption DEF IInv, remoteVars, storeVars, jobVars, taskVars
<1>1. /\ UNCHANGED <<remoteVars, storeVars, jobVars, taskVars>>
      /\ UNCHANGED <<given, working, stopped, ended>>
  BY DEF PoolSteps, Pool!Drop, Pool!Waited, Pool!CloseDone, Pool!Exit, Pool!channels
<1>2. P!IInv'
  BY PoolStep DEF PoolSteps
<1>3. P!TypeOK' /\ P!Accounted
  BY <1>2 DEF P!IInv
<1>4. \/ caller' = caller
      \/ caller = "offering" /\ caller' = "free"
      \/ caller = "waiting" /\ caller' = "returned"
  BY DEF PoolSteps, Pool!Drop, Pool!Waited, Pool!CloseDone, Pool!Exit, TypeOK, Pool!TypeOK
<1>5. TypeOK'
  BY <1>1, <1>3, <1>4 DEF TypeOK, P!TypeOK, Pool!TypeOK
<1>6. Honest' /\ TaggedImageIsComplete' /\ StoredBlobsAreVerified' /\ Reached'
  BY <1>1 DEF Honest, TaggedImageIsComplete, StoredBlobsAreVerified, BlobsOf, Reached
<1>7. Given'
  BY <1>1, <1>4 DEF Given, Active, BlobsOf
<1> QED BY <1>2, <1>5, <1>6, <1>7

(* A job whose tasks left no error: nobody stopped its pool, so the task   *)
(* of every blob ended.                                                    *)
LEMMA CollectStep == ASSUME IInv, Collect PROVE IInv'
<1> USE ImageAssumption, BlobAssumption DEF IInv, Collect, remoteVars, storeVars, taskVars
<1>1. P!IInv'
  BY PoolStep
<1>2. job' \in {"failed", "save", "tag"}
  BY DEF TypeOK
<1>3. TypeOK'
  BY <1>2 DEF TypeOK, Pool!TypeOK, Jobs
<1>4. Honest' /\ TaggedImageIsComplete' /\ StoredBlobsAreVerified'
  BY DEF Honest, TaggedImageIsComplete, StoredBlobsAreVerified, BlobsOf
<1>5. Given'
  BY <1>2 DEF Given, Active, BlobsOf
<1>6. ~errors => ended = given
  BY PoolFacts DEF Honest
<1>7. Reached'
  BY <1>6 DEF Reached, TypeOK
<1> QED BY <1>1, <1>3, <1>4, <1>5, <1>7

(* The manifest follows the blobs. *)
LEMMA ManifestStep == ASSUME IInv, SaveManifest \/ PushManifest PROVE IInv'
<1> USE ImageAssumption, BlobAssumption DEF IInv, remoteVars, storeVars, taskVars
<1>1. /\ job \in {"save", "tag"} /\ job' \in {"pulled", "pushed", "failed"}
      /\ image \in Image
      /\ UNCHANGED <<blobs, layer, verified, image, wanted, taskVars, poolVars>>
  BY DEF SaveManifest, PushManifest, TypeOK
<1>2. P!IInv'
  BY <1>1, PoolStep
<1>3. tagged' \in Image \cup {None} /\ manifest' \in Image \cup {None}
  BY <1>1 DEF SaveManifest, PushManifest, TypeOK
<1>4. TypeOK'
  BY <1>1, <1>3 DEF TypeOK, Pool!TypeOK, Jobs
<1>5. Honest' /\ Given' /\ Reached' /\ StoredBlobsAreVerified'
  BY <1>1 DEF Honest, Given, Active, Reached, BlobsOf, StoredBlobsAreVerified
<1>6. TaggedImageIsComplete'
  <2>1. CASE SaveManifest
    BY <2>1 DEF SaveManifest, TaggedImageIsComplete, BlobsOf
  <2>2. CASE PushManifest
    <3>1. BlobsOf(image) \subseteq blobs
      BY <2>2 DEF PushManifest, Given, Active, Reached
    <3> QED BY <2>2, <3>1 DEF PushManifest, TaggedImageIsComplete, BlobsOf
  <2> QED BY <2>1, <2>2
<1> QED BY <1>2, <1>4, <1>5, <1>6

(* The next transfer has a pool of its own. *)
LEMMA EndJobStep == ASSUME IInv, EndJob PROVE IInv'
<1> USE ImageAssumption, BlobAssumption DEF IInv, EndJob, ForgetTasks, remoteVars, storeVars
<1>1. P!IInv'
  BY PoolStep
<1>2. TypeOK'
  BY DEF TypeOK, Pool!TypeOK, Pool!Reset, Jobs, Steps
<1>3. Honest' /\ Given' /\ Reached'
  BY DEF Honest, Given, Active, Reached, Pool!Reset
<1>4. TaggedImageIsComplete' /\ StoredBlobsAreVerified'
  BY DEF TaggedImageIsComplete, BlobsOf, StoredBlobsAreVerified
<1> QED BY <1>1, <1>2, <1>3, <1>4

-----------------------------------------------------------------------------
(* The steps of a task. *)

(* A worker takes a task only while the caller is inside Do. *)
LEMMA TakeTaskStep == ASSUME IInv, NEW w \in Worker, TakeTask(w) PROVE IInv'
<1> USE ImageAssumption, BlobAssumption
    DEF IInv, TakeTask, Pool!Take, Pool!channels, remoteVars, storeVars, jobVars
<1>1. P!IInv'
  BY PoolStep
<1>2. caller = "offering" /\ working[w] = None
  BY DEF TypeOK, Pool!TypeOK, Pool!Idle
<1>3. P!TypeOK'
  BY <1>1 DEF P!IInv
<1>4. step' \in [Worker -> Steps] /\ retried' \in [Worker -> BOOLEAN]
  BY DEF TypeOK, Steps
<1>5. TypeOK'
  BY <1>2, <1>3, <1>4 DEF TypeOK, P!TypeOK, Pool!TypeOK
<1>6. Honest'
  <2>1. step'[w] = "begin" /\ \A v \in Worker \ {w} : step'[v] = step[v] /\ working'[v] = working[v]
    BY DEF TypeOK, Pool!TypeOK
  <2> QED BY <2>1 DEF Honest
<1>7. Given' /\ Reached' /\ TaggedImageIsComplete' /\ StoredBlobsAreVerified'
  BY <1>2 DEF Given, Active, Reached, TaggedImageIsComplete, StoredBlobsAreVerified, BlobsOf
<1> QED BY <1>1, <1>5, <1>6, <1>7

(* The error first, then the stop. *)
LEMMA FailStep == ASSUME IInv, NEW w \in Worker, AddError(w) \/ StopPool(w) PROVE IInv'
<1> USE ImageAssumption, BlobAssumption
    DEF IInv, AddError, StopPool, Pool!Stop, remoteVars, storeVars, jobVars
<1>1. P!IInv'
  BY PoolStep
<1>2. /\ UNCHANGED <<remoteVars, storeVars, jobVars, retried>>
      /\ UNCHANGED <<caller, offered, given, working, exited, closed, done, ended>>
  OBVIOUS
<1>3. working[w] # None /\ errors' = TRUE
  BY DEF Honest, TypeOK
<1>4. step' \in [Worker -> Steps] /\ stopped' \in BOOLEAN
  BY DEF TypeOK, Pool!TypeOK, Steps
<1>5. job # "none"
  BY <1>3, PoolFacts DEF TypeOK
<1>6. TypeOK'
  BY <1>2, <1>3, <1>4, <1>5 DEF TypeOK, Pool!TypeOK
<1>7. Honest'
  BY <1>3 DEF Honest
<1>8. job \notin {"save", "tag"}
  BY <1>3, PoolFacts DEF Given, Active
<1>9. Given' /\ Reached' /\ TaggedImageIsComplete' /\ StoredBlobsAreVerified'
  BY <1>2, <1>3, <1>8 DEF Given, Active, Reached, TaggedImageIsComplete, StoredBlobsAreVerified, BlobsOf
<1> QED BY <1>1, <1>6, <1>7, <1>9

(* A task that ends: what it leaves in the registry and in the store is    *)
(* what the rest of the job relies on.                                     *)
LEMMA EndTask ==
    ASSUME IInv, NEW w \in Worker, Succeed(w),
           job \notin {"save", "tag"},
           UNCHANGED <<tagged, manifest, jobVars>>,
           blobs \subseteq blobs', blobs' \subseteq Blob,
           job = "push" => errors \/ working[w] \in blobs',
           layer' \in [Blob -> {"absent", "download", "cache"}],
           verified' \subseteq Blob,
           StoredBlobsAreVerified'
    PROVE  IInv'
<1> USE ImageAssumption, BlobAssumption
    DEF IInv, Succeed, Pool!Finish, Pool!channels, taskVars, jobVars
<1>1. P!IInv'
  BY PoolStep
<1>2. P!TypeOK'
  BY <1>1 DEF P!IInv
<1>3. TypeOK'
  BY <1>2 DEF TypeOK, P!TypeOK, Pool!TypeOK
<1>4. \A v \in Worker : working'[v] # None => working'[v] = working[v]
  BY DEF TypeOK, Pool!TypeOK
<1>5. Honest'
  BY <1>4 DEF Honest
<1>6. Given' /\ Reached' /\ TaggedImageIsComplete'
  BY DEF Given, Active, Reached, TaggedImageIsComplete, BlobsOf
<1> QED BY <1>1, <1>3, <1>5, <1>6

(* A task that goes on. *)
LEMMA GoOn ==
    ASSUME IInv, NEW w \in Worker,
           UNCHANGED <<tagged, manifest, jobVars, errors, poolVars>>,
           blobs \subseteq blobs', blobs' \subseteq Blob,
           step' \in [Worker -> Steps],
           \A v \in Worker : step'[v] \in {"stop", "end"} => step'[v] = step[v],
           retried' \in [Worker -> BOOLEAN],
           layer' \in [Blob -> {"absent", "download", "cache"}],
           verified' \subseteq Blob,
           StoredBlobsAreVerified'
    PROVE  IInv'
<1> USE ImageAssumption, BlobAssumption DEF IInv, jobVars
<1>1. P!IInv'
  BY PoolStep
<1>2. TypeOK'
  BY DEF TypeOK, Pool!TypeOK
<1>3. Honest'
  BY DEF Honest
<1>4. Given' /\ Reached' /\ TaggedImageIsComplete'
  BY DEF Given, Active, Reached, TaggedImageIsComplete, BlobsOf
<1> QED BY <1>1, <1>2, <1>3, <1>4

(* No task runs once Wait has returned. *)
LEMMA RunningJob ==
    ASSUME IInv, NEW w \in Worker, working[w] # None
    PROVE  job \notin {"save", "tag"} /\ working[w] \in Blob
BY BlobAssumption, PoolFacts DEF IInv, Given, Active, TypeOK, Pool!TypeOK

(* The tasks of a pull. *)
LEMMA PullStep ==
    ASSUME IInv, NEW w \in Worker,
           SkipPull(w) \/ StartDownload(w) \/ DownloadFails(w) \/ CopyBody(w) \/ SaveLayer(w)
    PROVE  IInv'
<1> USE DEF Running, remoteVars, storeVars, jobVars, taskVars
<1>1. /\ job = "pull" /\ working[w] # None /\ working[w] \in Blob
      /\ UNCHANGED <<remoteVars, manifest, jobVars, errors, retried>>
      /\ blobs' \subseteq Blob
  BY RunningJob
     DEF SkipPull, StartDownload, DownloadFails, CopyBody, SaveLayer, Succeed, Goto, IInv, TypeOK
<1>2. ASSUME layer' \in [Blob -> {"absent", "download", "cache"}],
             verified' \subseteq Blob, StoredBlobsAreVerified',
             NEW s \in {"copy", "save", "failed"}, Goto(w, s)
      PROVE  IInv'
  <2>1. /\ step' \in [Worker -> Steps]
        /\ \A v \in Worker : step'[v] \in {"stop", "end"} => step'[v] = step[v]
    BY <1>2 DEF Goto, IInv, TypeOK, Steps
  <2>2. retried' \in [Worker -> BOOLEAN] /\ UNCHANGED poolVars
    BY <1>2 DEF Goto, IInv, TypeOK
  <2> QED BY <1>1, <1>2, <2>1, <2>2, GoOn
<1>3. layer' \in [Blob -> {"absent", "download", "cache"}] /\ verified' \subseteq Blob
  BY <1>1 DEF SkipPull, StartDownload, DownloadFails, CopyBody, SaveLayer, IInv, TypeOK
<1>4. StoredBlobsAreVerified'
  BY <1>1 DEF SkipPull, StartDownload, DownloadFails, CopyBody, SaveLayer,
              IInv, TypeOK, StoredBlobsAreVerified
<1>5. CASE Succeed(w)
  BY <1>1, <1>3, <1>4, <1>5, EndTask
<1>6. Succeed(w) \/ \E s \in {"copy", "save", "failed"} : Goto(w, s)
  BY DEF SkipPull, StartDownload, DownloadFails, CopyBody, SaveLayer
<1> QED BY <1>2, <1>3, <1>4, <1>5, <1>6

(* The tasks of a push: one that ends without an error leaves its blob in  *)
(* the registry.                                                           *)
LEMMA PushStep ==
    ASSUME IInv, NEW w \in Worker, PushAttempt(w) \/ PushAttemptFails(w)
    PROVE  IInv'
<1> USE DEF Running, storeVars, jobVars, taskVars
<1>1. /\ job = "push" /\ working[w] # None /\ working[w] \in Blob
      /\ UNCHANGED <<tagged, storeVars, jobVars, errors>>
      /\ blobs \subseteq blobs' /\ blobs' \subseteq Blob
  BY RunningJob DEF PushAttempt, PushAttemptFails, Succeed, Goto, IInv, TypeOK
<1>2. layer' \in [Blob -> {"absent", "download", "cache"}] /\ verified' \subseteq Blob
  BY <1>1 DEF IInv, TypeOK
<1>3. StoredBlobsAreVerified'
  BY <1>1 DEF IInv, StoredBlobsAreVerified
<1>4. CASE PushAttempt(w) /\ Succeed(w)
  <2>1. working[w] \in blobs'
    BY <1>4 DEF PushAttempt
  <2> QED BY <1>1, <1>2, <1>3, <1>4, <2>1, EndTask
<1>5. CASE Goto(w, "failed") \/ (retried' = [retried EXCEPT ![w] = TRUE]
                                /\ UNCHANGED <<errors, step, poolVars>>)
  <2>1. /\ step' \in [Worker -> Steps]
        /\ \A v \in Worker : step'[v] \in {"stop", "end"} => step'[v] = step[v]
    BY <1>5 DEF Goto, IInv, TypeOK, Steps
  <2>2. retried' \in [Worker -> BOOLEAN] /\ UNCHANGED poolVars
    BY <1>5 DEF Goto, IInv, TypeOK
  <2> QED BY <1>1, <1>2, <1>3, <2>1, <2>2, GoOn
<1> QED BY <1>4, <1>5 DEF PushAttempt, PushAttemptFails

(* A failed task ends: its error is in multiError. *)
LEMMA EndFailedStep == ASSUME IInv, NEW w \in Worker, EndFailed(w) PROVE IInv'
<1> USE DEF EndFailed, IInv, remoteVars, storeVars, jobVars
<1>1. errors /\ job \notin {"save", "tag"}
  BY RunningJob DEF Honest
<1>2. blobs' \subseteq Blob /\ verified' \subseteq Blob
      /\ layer' \in [Blob -> {"absent", "download", "cache"}]
  BY DEF TypeOK
<1>3. StoredBlobsAreVerified'
  BY DEF StoredBlobsAreVerified
<1> QED BY <1>1, <1>2, <1>3, EndTask

-----------------------------------------------------------------------------
(* Every step keeps the invariant. *)
LEMMA NextIInv == ASSUME IInv, [Next]_vars PROVE IInv'
<1>1. CASE Around
  BY <1>1, RegistryStep, StoreStep, StartStep, RestartStep DEF Around
<1>2. CASE Caller
  BY <1>2, GiveStep, PoolStepsStep, CollectStep, ManifestStep, EndJobStep DEF Caller
<1>3. ASSUME NEW w \in Worker, TaskSteps(w) PROVE IInv'
  BY <1>3, TakeTaskStep, FailStep, EndFailedStep, PullStep, PushStep DEF TaskSteps
<1>4. CASE UNCHANGED vars
  <2> USE <1>4 DEF vars, remoteVars, storeVars, jobVars, taskVars, IInv
  <2>1. P!IInv'
    BY PoolStep
  <2>2. TypeOK'
    BY DEF TypeOK, Pool!TypeOK
  <2>3. Honest' /\ Given' /\ Reached' /\ TaggedImageIsComplete' /\ StoredBlobsAreVerified'
    BY DEF Honest, Given, Reached, TaggedImageIsComplete, StoredBlobsAreVerified, BlobsOf
  <2> QED BY <2>1, <2>2, <2>3
<1> QED BY <1>1, <1>2, <1>3, <1>4 DEF Next

(* The invariant holds throughout. *)
LEMMA Invariance == Spec => []IInv
<1>1. IInv /\ [Next]_vars => IInv'
  BY NextIInv
<1> QED BY <1>1, InitIInv, PTL DEF Spec

(* Every variable has its type (client.go:98-256). *)
THEOREM TypeCorrect == Spec => []TypeOK
<1>1. IInv => TypeOK
  BY DEF IInv
<1> QED BY <1>1, Invariance, PTL

(* Whenever the tag can be pulled, the registry has every blob of the      *)
(* image it names (client.go:186-207).                                     *)
THEOREM TagsAreComplete == Spec => []TaggedImageIsComplete
<1>1. IInv => TaggedImageIsComplete
  BY DEF IInv
<1> QED BY <1>1, Invariance, PTL

(* A transfer that goes on to its manifest has run the task of every blob  *)
(* (client.go:148-151, 202-205; worker_pool.go:73-85).                     *)
THEOREM TransfersAreWhole == Spec => []NoTaskIsDropped
<1>1. IInv => NoTaskIsDropped
  BY DEF IInv, Given, Active, Reached, NoTaskIsDropped
<1> QED BY <1>1, Invariance, PTL

(* What is in the cache directory has the content of its digest            *)
(* (client.go:348-361, 616-633).                                           *)
THEOREM StoreIsVerified == Spec => []StoredBlobsAreVerified
<1>1. IInv => StoredBlobsAreVerified
  BY DEF IInv
<1> QED BY <1>1, Invariance, PTL

=============================================================================
