----------------------------- MODULE BlobUpload -----------------------------
(***************************************************************************)
(* One blob on its way to a registry: DockerRegistryClient.PushLayer with  *)
(* the requests of httputil.Send under it (lib/registry/client.go,         *)
(* lib/utils/httputil/httputil.go).  The blob's file is read once, front   *)
(* to back, by every request that carries a part of it: what an attempt    *)
(* has read is gone for the next one.  The registry is modelled by what    *)
(* the client relies on: an upload session keeps the bytes it receives, in *)
(* order, and a commit succeeds when they are the blob that the digest     *)
(* names.  ImageTransfer uses a push of this module as one step.           *)
(***************************************************************************)
EXTENDS Integers, Sequences, FiniteSetsExt

CONSTANTS Sizes,       \* sizes a blob may have, in bytes
          PushChunks,  \* values of push_chunk, after applyDefaults
          Retries,     \* Config.Retries
          MaxFaults    \* bound: requests that go wrong

ASSUME UploadAssumption ==
    /\ Sizes \subseteq Nat
    /\ PushChunks \subseteq Int \ {0}
    /\ Retries \in Nat
    /\ MaxFaults \in Nat

VARIABLES
    config,   \* what does not change: the blob's size, push_chunk, the security
              \* option, what listens on the registry's plain port, and whether
              \* the registry checks the range of a chunk
    stored,   \* the registry has the blob
    session,  \* the bytes (by their place in the file) of the upload session
    cached,   \* the blob's file is in the local store
    step,     \* the request pushLayerHelper is at
    net,      \* the state of that request, or the answer to it
    via,      \* the scheme it was last sent with
    sends,    \* retries left to Send
    pushes,   \* retries left to pushLayerWithBackoff
    errors,   \* pushLayerWithBackoff has added an error to its multiError
    chunk,    \* the bytes of the current chunk, [start, end]
    read,     \* the bytes read from the file
    faults    \* requests that went wrong so far

client   == <<step, net, via, sends, pushes, errors, chunk>>
registry == <<stored, session>>
vars     == <<config, registry, cached, client, read, faults>>

Closed == <<-1>>         \* not an upload session, or no longer one

(* With no TLS option the URL keeps the scheme it is written with, http. *)
Scheme == IF config.security = "plain" THEN "http" ELSE "https"

(* push_chunk -1 sends the file as one chunk. *)
ChunkSize == IF config.chunk = -1 THEN config.size ELSE config.chunk

(* pushLayerContent: the first chunk ... *)
FirstChunk == [start |-> 0, end |-> Min({ChunkSize - 1, config.size - 1})]

(* ... and the next one.  Its end is computed from the start of the chunk  *)
(* before it: of the chunks of a file that needs several, every second one *)
(* is empty.                                                               *)
NextChunkStandsStill(c) == [start |-> Min({c.end + 1, config.size - 1}), end |-> Min({c.start + ChunkSize - 1, config.size - 1})]
NextChunk(c) == [start |-> c.end + 1, end |-> Min({c.start + ChunkSize - 1, config.size - 1})]

(* The bytes that the LimitReader of the chunk still has: a reader that is *)
(* made once per chunk and shared by every attempt to send it.             *)
Unread == IF step = "chunk" THEN Max({0, Min({chunk.end + 1, config.size}) - read}) ELSE 0
Bytes(n) == [i \in 1 .. n |-> read + i - 1]

(* The answers after which a request is sent again, by Send and by         *)
(* pushLayerWithBackoff.                                                   *)
SendRetries == {"lost", "busy"}
PushRetries == {"lost", "busy", "broken"}

(* The codes Send accepts for the request. *)
AcceptedAnyAnswer(answer) == answer \notin SendRetries
AcceptedOnlySuccess(answer) == answer \in {"found", "done", "nowhere"}
Accepted(answer) == answer \in {"found", "missing", "done", "nowhere"}

Ask(request) ==
    /\ step' = request
    /\ net' = "option"
    /\ sends' = Retries

Init ==
    /\ config \in [size : Sizes, chunk : PushChunks, security : {"plain", "tls", "basic"},
                   plainPort : {"serves", "rejects", "refuses"}, checksRange : BOOLEAN]
    /\ config.security = "plain" => config.plainPort = "serves"
    /\ stored = FALSE
    /\ session = Closed
    /\ cached = TRUE
    /\ step = "head" /\ net = "option" /\ sends = Retries
    /\ via = Scheme
    /\ pushes = Retries
    /\ errors = FALSE
    /\ chunk = FirstChunk
    /\ read = 0
    /\ faults = 0

-----------------------------------------------------------------------------
(* pushLayerWithBackoff: an attempt of pushLayerHelper has returned. *)

Succeed ==
    /\ step' = "pushed"
    /\ UNCHANGED <<net, sends, pushes, errors>>

Fail(retryable) ==
    /\ errors' = TRUE
    /\ IF retryable /\ pushes > 0
       THEN pushes' = pushes - 1 /\ Ask("head")
       ELSE step' = "failed" /\ UNCHANGED <<net, sends, pushes>>

Going == step \notin {"pushed", "failed"}
Fault == faults < MaxFaults /\ faults' = faults + 1

-----------------------------------------------------------------------------
(* GetHTTPOption, before every request.  With basic authentication it      *)
(* pings the registry; an error of it is not one that is retried.          *)

GetOption ==
    /\ Going /\ net = "option"
    /\ net' = "sent" /\ via' = Scheme
    /\ UNCHANGED <<config, registry, cached, step, sends, pushes, errors, chunk, read, faults>>

PingFails ==
    /\ Going /\ net = "option" /\ config.security = "basic"
    /\ Fault
    /\ Fail(FALSE)
    /\ UNCHANGED <<config, registry, cached, via, chunk, read>>

-----------------------------------------------------------------------------
(* The registry, and the network in front of it. *)

Served == via = "https" \/ config.plainPort = "serves"

RangeIsRight == chunk.start <= chunk.end /\ chunk.start = Len(session)

(* What the registry does with the request, when n bytes of it arrive. *)
Handle(n, answer) ==
    CASE step = "head" ->
           /\ answer = IF stored THEN "found" ELSE "missing"
           /\ UNCHANGED registry
      [] step = "start" ->
           /\ answer = "done"
           /\ session' = <<>> /\ UNCHANGED stored
      [] step = "chunk" ->
           IF session = Closed \/ (config.checksRange /\ ~RangeIsRight)
           THEN answer = "refused" /\ UNCHANGED registry
           ELSE /\ answer = "done"
                /\ session' = session \o Bytes(n) /\ UNCHANGED stored
      [] step = "commit" ->
           /\ session' = Closed
           /\ IF session # Closed /\ session = [i \in 1 .. config.size |-> i - 1]
              THEN answer = "done" /\ stored' = TRUE
              ELSE answer = "refused" /\ UNCHANGED stored

Sent == Going /\ net = "sent"

Answers == {"found", "missing", "done", "refused"}

Deliver ==
    /\ Sent /\ Served
    /\ read' = read + Unread
    /\ \E answer \in Answers : Handle(Unread, answer) /\ net' = answer
    /\ UNCHANGED <<config, cached, step, via, sends, pushes, errors, chunk, faults>>

(* The connection breaks: the client has read n bytes of the body, m of    *)
(* them have arrived, and the registry has handled the request or not.     *)
Lose ==
    /\ Sent /\ Served
    /\ Fault
    /\ net' = "lost"
    /\ \E n \in 0 .. Unread, m \in 0 .. Unread :
         /\ m <= n
         /\ read' = read + n
         /\ UNCHANGED registry \/ \E answer \in Answers : Handle(m, answer)
    /\ UNCHANGED <<config, cached, step, via, sends, pushes, errors, chunk>>

(* An error of the server, before or after it has read the body, or an     *)
(* upload with no Location.                                                *)
ServerFails ==
    /\ Sent /\ Served
    /\ Fault
    /\ net' \in {"busy", "broken"} \cup (IF step \in {"start", "chunk"} THEN {"nowhere"} ELSE {})
    /\ \E n \in 0 .. Unread : read' = read + n
    /\ UNCHANGED <<config, registry, cached, step, via, sends, pushes, errors, chunk>>

(* A plain request to a port where nothing listens, or TLS. *)
PlainPort ==
    /\ Sent /\ ~Served
    /\ net' = IF config.plainPort = "rejects" THEN "refused" ELSE "lost"
    /\ UNCHANGED <<config, registry, cached, step, via, sends, pushes, errors, chunk, read, faults>>

-----------------------------------------------------------------------------
(* Send, when client.Do returns. *)

Answered == Going /\ net \notin {"option", "sent"}

(* An https request that failed is sent once more over http, with what is  *)
(* left of its body.                                                       *)
FallbackToHTTP ==
    /\ Answered /\ net = "lost" /\ via = "https"
    /\ via' = "http" /\ net' = "sent"
    /\ UNCHANGED <<config, registry, cached, step, sends, pushes, errors, chunk, read, faults>>

(* The same request again, over the scheme it began with. *)
SameBody == read
RewoundBody == IF step = "chunk" THEN chunk.start ELSE read
Body == SameBody

Resend ==
    /\ Answered /\ net \in SendRetries
    /\ ~(net = "lost" /\ via = "https")
    /\ sends > 0
    /\ sends' = sends - 1
    /\ net' = "sent" /\ via' = Scheme
    /\ read' = Body
    /\ UNCHANGED <<config, registry, cached, step, pushes, errors, chunk, faults>>

(* Send returns an error. *)
SendFails ==
    /\ Answered /\ ~Accepted(net)
    /\ ~(net = "lost" /\ via = "https")
    /\ net \in SendRetries => sends = 0
    /\ Fail(net \in PushRetries)
    /\ UNCHANGED <<config, registry, cached, via, chunk, read, faults>>

-----------------------------------------------------------------------------
(* pushLayerHelper, when Send returns an answer that is accepted. *)

SkipExisting ==
    /\ Answered /\ step = "head" /\ net = "found"
    /\ Succeed
    /\ UNCHANGED <<config, registry, cached, via, chunk, read, faults>>

StartUpload ==
    /\ Answered /\ step = "head" /\ Accepted(net) /\ net # "found"
    /\ Ask("start")
    /\ UNCHANGED <<config, registry, cached, via, pushes, errors, chunk, read, faults>>

(* POST and PATCH answered with no Location. *)
NowhereToGo ==
    /\ Answered /\ net = "nowhere"
    /\ Fail(FALSE)
    /\ UNCHANGED <<config, registry, cached, via, chunk, read, faults>>

(* pushLayerContent: the file is opened in the local store. *)
OpenFile ==
    /\ Answered /\ step = "start" /\ Accepted(net) /\ net # "nowhere"
    /\ IF ~cached
       THEN Fail(FALSE) /\ UNCHANGED <<chunk, read>>
       ELSE /\ chunk' = FirstChunk
            /\ read' = 0
            /\ Ask(IF config.size > 0 THEN "chunk" ELSE "commit")
            /\ UNCHANGED <<pushes, errors>>
    /\ UNCHANGED <<config, registry, cached, via, faults>>

ChunkIsSent ==
    /\ Answered /\ step = "chunk" /\ Accepted(net) /\ net # "nowhere"
    /\ chunk' = NextChunk(chunk)
    /\ Ask(IF NextChunk(chunk).start < config.size THEN "chunk" ELSE "commit")
    /\ UNCHANGED <<config, registry, cached, via, pushes, errors, read, faults>>

CommitIsDone ==
    /\ Answered /\ step = "commit" /\ Accepted(net)
    /\ Succeed
    /\ UNCHANGED <<config, registry, cached, via, chunk, read, faults>>

-----------------------------------------------------------------------------
(* Surroundings. *)

(* Another client pushes the same blob. *)
OthersPush ==
    /\ ~stored
    /\ stored' = TRUE
    /\ UNCHANGED <<config, session, cached, client, read, faults>>

(* The local store evicts the file; a reader that is open keeps it. *)
EvictLayer ==
    /\ cached
    /\ cached' = FALSE
    /\ UNCHANGED <<config, registry, client, read, faults>>

Network == Deliver \/ Lose \/ ServerFails \/ PlainPort
Send    == GetOption \/ PingFails \/ FallbackToHTTP \/ Resend \/ SendFails
Helper  == SkipExisting \/ StartUpload \/ NowhereToGo \/ OpenFile \/ ChunkIsSent \/ CommitIsDone

Next == Network \/ Send \/ Helper \/ OthersPush \/ EvictLayer

Spec == Init /\ [][Next]_vars

(* Every request has a timeout (Config.Timeout): one that is sent is       *)
(* answered or lost, and the goroutine of the push goes on.                *)
FairSpec == Spec /\ WF_vars(Network) /\ WF_vars(Send) /\ WF_vars(Helper)

-----------------------------------------------------------------------------
Steps == {"head", "start", "chunk", "commit", "pushed", "failed"}

(* The state is of the shape the code gives it. The next chunk starts      *)
(* where the reader is whenever the one before it was accepted, and no     *)
(* chunk reaches beyond the file (pushLayerContent, client.go:520).        *)
TypeOK ==
    /\ stored \in BOOLEAN /\ cached \in BOOLEAN /\ errors \in BOOLEAN
    /\ session = Closed \/ session \in Seq(0 .. config.size - 1)
    /\ step \in Steps
    /\ net \in {"option", "sent", "nowhere"} \cup Answers \cup PushRetries
    /\ via \in {"http", "https"}
    /\ sends \in 0 .. Retries /\ pushes \in 0 .. Retries
    /\ chunk.start \in 0 .. config.size /\ chunk.end \in -1 .. config.size - 1
    /\ step = "chunk" /\ net = "option" => read = chunk.start
    /\ read \in 0 .. config.size
    /\ faults \in 0 .. MaxFaults

(* However requests are lost, resent and sent over the other scheme, the   *)
(* session never has a byte twice or before an earlier one: a retry goes   *)
(* on behind what was read, it does not repeat it (httputil.go:322).       *)
NoByteTwice == \A i, j \in DOMAIN session : i < j => session[i] < session[j]

(* What a session of the registry holds, and what the client takes it to   *)
(* hold (the two above).                                                   *)
UploadInvariant == TypeOK /\ NoByteTwice

(* A push that returns no error has left the blob in the registry          *)
(* (pushLayerHelper, client.go:404).                                       *)
PushedIsStored == step = "pushed" => stored

(* With no fault a blob in the store is pushed, whatever its size and      *)
(* however it is cut into chunks (client.go:543). The exception is a       *)
(* registry that checks the ranges, which refuses the empty chunks.        *)
NeedsChunks == ChunkSize < config.size
SmoothPushSucceeds ==
    step = "failed" /\ faults = 0 /\ cached => config.checksRange /\ NeedsChunks

(* "we allow the client to be more forgiving on temporarily unexpected     *)
(* condition on registry side" (client.go:388): an attempt that succeeds   *)
(* makes the push succeed.                                                 *)
RetriedPushSucceeds == step = "pushed" => ~errors

(* A push ends, whatever the network does: the chunks and the retries run  *)
(* out (client.go:538, httputil.go:321).                                   *)
PushEnds == <>(step \in {"pushed", "failed"})
=============================================================================
