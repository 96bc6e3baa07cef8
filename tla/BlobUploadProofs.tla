-------------------------- MODULE BlobUploadProofs --------------------------
(***************************************************************************)
(* Proofs about BlobUpload, for any sizes, chunks, retries and faults.     *)
(***************************************************************************)
EXTENDS BlobUpload, TLAPS

-----------------------------------------------------------------------------
(* The inductive invariant. *)

(* A size of chunks that means something: -1 is the whole file.  The code  *)
(* checks nothing: with another negative one pushLayerContent never ends.  *)
ChunksAreMeaningful == PushChunks \subseteq Nat \cup {-1}

ConfigType == [size : Sizes, chunk : PushChunks, security : {"plain", "tls", "basic"},
               plainPort : {"serves", "rejects", "refuses"}, checksRange : BOOLEAN]

Types ==
    /\ config \in ConfigType
    /\ stored \in BOOLEAN /\ cached \in BOOLEAN /\ errors \in BOOLEAN
    /\ session = Closed \/ session \in Seq(0 .. config.size - 1)
    /\ step \in Steps
    /\ net \in {"option", "sent", "nowhere"} \cup Answers \cup PushRetries
    /\ via \in {"http", "https"}
    /\ sends \in 0 .. Retries /\ pushes \in 0 .. Retries
    /\ chunk \in [start : Int, end : Int]
    /\ read \in 0 .. config.size
    /\ faults \in 0 .. MaxFaults

(* Which request can be answered how, and what the answer says of the      *)
(* registry, however much later it is read.                                *)
AnswersMean ==
    /\ step = "head" => net \notin {"done", "nowhere"} /\ (net = "found" => stored)
    /\ step \in {"start", "chunk"} => net \notin {"found", "missing"}
    /\ step = "start" /\ net = "done" => session = <<>>
    /\ step = "commit" => net \notin {"found", "missing", "nowhere"} /\ (net = "done" => stored)
    /\ step = "pushed" => stored

(* The session of this attempt has bytes that were read only. *)
SessionIsRead ==
    step \in {"chunk", "commit"} =>
        session = Closed \/ \A i \in DOMAIN session : session[i] < read

Inv == Types /\ AnswersMean /\ SessionIsRead /\ NoByteTwice

(* A chunk is in the file, though it may be empty, and the reader is in    *)
(* the chunk: at its start before the first attempt, behind it after the   *)
(* last.                                                                   *)
ChunkIsRead ==
    /\ 0 <= chunk.start /\ chunk.start - 1 <= chunk.end
    /\ chunk.end < config.size /\ chunk.end < chunk.start + ChunkSize
    /\ step = "chunk" =>
         /\ chunk.start < config.size
         /\ ~NeedsChunks => chunk.start = 0 /\ chunk.end = config.size - 1
         /\ chunk.start <= read /\ read <= chunk.end + 1
         /\ net = "option" => read = chunk.start
         /\ net = "done" => read = chunk.end + 1

(* With no fault, the session is what the client takes it to be. *)
Prefix(n) == [i \in 1 .. n |-> i - 1]

Smooth == faults = 0 /\ cached /\ (config.checksRange => ~NeedsChunks)

SmoothPush ==
    /\ config.security = "plain" => config.plainPort = "serves"
    /\ Smooth =>
         /\ step # "failed"
         /\ net \in {"option", "sent", "found", "missing", "done"}
         /\ via = Scheme
         /\ step = "chunk" =>
              /\ net = "sent" => read = chunk.start
              /\ session = Prefix(read)
         /\ step = "commit" /\ net # "done" => session = Prefix(config.size)

IInv == Inv /\ ChunkIsRead /\ SmoothPush

-----------------------------------------------------------------------------
(* Lemmas about chunks, bytes and what is left to read. *)

LEMMA MinOfTwo ==
    ASSUME NEW a \in Int, NEW b \in Int
    PROVE  Min({a, b}) = IF a <= b THEN a ELSE b
BY DEF Min

LEMMA MaxOfTwo ==
    ASSUME NEW a \in Int, NEW b \in Int
    PROVE  Max({a, b}) = IF a >= b THEN a ELSE b
BY DEF Max

LEMMA ConfigFacts ==
    ASSUME config \in ConfigType
    PROVE  config.size \in Nat /\ config.chunk \in Int /\ config.chunk # 0 /\ ChunkSize \in Int
<1>1. config.size \in Sizes /\ config.chunk \in PushChunks
  BY DEF ConfigType
<1>2. config.size \in Nat /\ config.chunk \in Int /\ config.chunk # 0
  BY <1>1, UploadAssumption
<1> QED BY <1>2 DEF ChunkSize

(* Pushes that cut the file into chunks of at least one byte. *)
LEMMA ChunkSizeFacts ==
    ASSUME config \in ConfigType, ChunksAreMeaningful
    PROVE  ChunkSize \in Nat /\ (config.size > 0 => ChunkSize > 0)
<1>1. config.chunk \in PushChunks
  BY DEF ConfigType
<1>2. config.chunk = -1 \/ config.chunk \in Nat
  BY <1>1 DEF ChunksAreMeaningful
<1> QED BY <1>2, ConfigFacts DEF ChunkSize

(* The reader never goes beyond the file. *)
LEMMA UnreadFacts ==
    ASSUME Types
    PROVE  /\ Unread \in Nat /\ read + Unread <= config.size
           /\ step # "chunk" => Unread = 0
<1>1. config.size \in Nat /\ chunk.end + 1 \in Int /\ read \in Int /\ read <= config.size
  BY ConfigFacts DEF Types
<1> DEFINE m == Min({chunk.end + 1, config.size})
<1>2. m \in Int /\ m <= config.size
  BY <1>1, MinOfTwo
<1> HIDE DEF m
<1>3. Max({0, m - read}) = IF 0 >= m - read THEN 0 ELSE m - read
  BY <1>1, <1>2, MaxOfTwo
<1>4. Unread = IF step = "chunk" THEN Max({0, m - read}) ELSE 0
  BY DEF Unread, m
<1> QED BY <1>1, <1>2, <1>3, <1>4

(* One attempt reads the chunk to its end. *)
LEMMA UnreadOfChunk ==
    ASSUME Types, ChunkIsRead, step = "chunk"
    PROVE  read + Unread = chunk.end + 1
<1>1. config.size \in Nat /\ chunk.end \in Int /\ read \in Int
  BY ConfigFacts DEF Types
<1> DEFINE m == Min({chunk.end + 1, config.size})
<1>2. m = chunk.end + 1
  BY <1>1, MinOfTwo DEF ChunkIsRead
<1> HIDE DEF m
<1>3. Max({0, m - read}) = m - read
  BY <1>1, <1>2, MaxOfTwo DEF ChunkIsRead
<1>4. Unread = Max({0, m - read})
  BY DEF Unread, m
<1> QED BY <1>1, <1>2, <1>3, <1>4

LEMMA FirstChunkFacts ==
    ASSUME config \in ConfigType
    PROVE  /\ FirstChunk \in [start : Int, end : Int]
           /\ FirstChunk.start = 0
           /\ FirstChunk.end = IF ChunkSize <= config.size THEN ChunkSize - 1 ELSE config.size - 1
<1>1. ChunkSize - 1 \in Int /\ config.size - 1 \in Int /\ ChunkSize \in Int /\ config.size \in Int
  BY ConfigFacts
<1> QED BY <1>1, MinOfTwo DEF FirstChunk

LEMMA NextChunkFacts ==
    ASSUME Types
    PROVE  LET e == chunk.start + ChunkSize - 1
           IN  /\ NextChunk(chunk) \in [start : Int, end : Int]
               /\ NextChunk(chunk).start = chunk.end + 1
               /\ NextChunk(chunk).end = IF e <= config.size - 1 THEN e ELSE config.size - 1
<1>1. /\ ChunkSize \in Int /\ config.size \in Int
      /\ chunk.start \in Int /\ chunk.end \in Int
  BY ConfigFacts DEF Types
<1>2. chunk.start + ChunkSize - 1 \in Int /\ config.size - 1 \in Int
  BY <1>1
<1> QED BY <1>1, <1>2, MinOfTwo DEF NextChunk

(* The bytes of an attempt go on where the reader is. *)
LEMMA BytesFacts ==
    ASSUME Types, NEW n \in 0 .. Unread
    PROVE  /\ Bytes(n) \in Seq(0 .. config.size - 1)
           /\ Len(Bytes(n)) = n
           /\ \A i \in 1 .. n : Bytes(n)[i] = read + i - 1
<1>1. n \in Nat /\ read \in Nat /\ config.size \in Nat /\ read + n <= config.size
  BY UnreadFacts, ConfigFacts DEF Types
<1>2. \A i \in 1 .. n : read + i - 1 \in 0 .. config.size - 1
  BY <1>1
<1>3. Bytes(n) \in [1 .. n -> 0 .. config.size - 1]
  BY <1>2 DEF Bytes
<1> QED BY <1>1, <1>3 DEF Bytes

-----------------------------------------------------------------------------
(* The registry: what its handling of a request does to the session, and   *)
(* what its answer says.                                                   *)

LEMMA ElementsOfSequence ==
    ASSUME NEW S, NEW s \in Seq(S)
    PROVE  DOMAIN s = 1 .. Len(s) /\ \A i \in DOMAIN s : s[i] \in S
OBVIOUS

LEMMA Concatenation ==
    ASSUME NEW S, NEW s \in Seq(S), NEW t \in Seq(S)
    PROVE  /\ s \o t \in Seq(S) /\ Len(s \o t) = Len(s) + Len(t)
           /\ \A i \in 1 .. Len(s) + Len(t) :
                (s \o t)[i] = IF i <= Len(s) THEN s[i] ELSE t[i - Len(s)]
OBVIOUS

LEMMA SessionFacts ==
    ASSUME Types, session # Closed
    PROVE  DOMAIN session = 1 .. Len(session) /\ \A i \in DOMAIN session : session[i] \in Int
<1>1. config.size \in Nat /\ session \in Seq(0 .. config.size - 1)
  BY ConfigFacts DEF Types
<1> DEFINE places == 0 .. config.size - 1
<1>2. session \in Seq(places) /\ places \subseteq Int
  BY <1>1
<1> HIDE DEF places
<1> QED BY <1>2, ElementsOfSequence

LEMMA AppendIsAscending ==
    ASSUME Inv, step = "chunk", session # Closed, NEW n \in 0 .. Unread
    PROVE  LET longer == session \o Bytes(n)
           IN  /\ longer \in Seq(0 .. config.size - 1)
               /\ \A i, j \in DOMAIN longer : i < j => longer[i] < longer[j]
               /\ \A i \in DOMAIN longer : longer[i] < read + n
<1> DEFINE longer == session \o Bytes(n)
<1>1. n \in Nat /\ read \in Nat
  BY UnreadFacts, ConfigFacts DEF Inv, Types
<1>2. session \in Seq(0 .. config.size - 1) /\ Bytes(n) \in Seq(0 .. config.size - 1)
  BY BytesFacts DEF Inv, Types
<1>3. /\ Len(Bytes(n)) = n
      /\ \A i \in 1 .. n : Bytes(n)[i] = read + i - 1
  BY BytesFacts DEF Inv
<1>4. /\ \A i \in 1 .. Len(session) : session[i] \in Int /\ session[i] < read
      /\ \A i, j \in 1 .. Len(session) : i < j => session[i] < session[j]
  BY SessionFacts DEF Inv, SessionIsRead, NoByteTwice
<1>5. /\ longer \in Seq(0 .. config.size - 1)
      /\ DOMAIN longer = 1 .. Len(session) + n
      /\ \A i \in 1 .. Len(session) : longer[i] = session[i]
      /\ \A i \in Len(session) + 1 .. Len(session) + n : longer[i] = Bytes(n)[i - Len(session)]
  <2> DEFINE bytes == Bytes(n)
  <2>1. bytes \in Seq(0 .. config.size - 1) /\ Len(bytes) = n
    BY <1>2, <1>3
  <2> HIDE DEF bytes
  <2>2. /\ session \o bytes \in Seq(0 .. config.size - 1)
        /\ DOMAIN (session \o bytes) = 1 .. Len(session) + n
        /\ \A i \in 1 .. Len(session) : (session \o bytes)[i] = session[i]
        /\ \A i \in Len(session) + 1 .. Len(session) + n : (session \o bytes)[i] = bytes[i - Len(session)]
    BY <1>1, <1>2, <2>1
  <2> QED BY <2>2 DEF bytes
<1> HIDE DEF longer
<1>6. Len(session) \in Nat
  BY <1>2
<1>7. \A i \in Len(session) + 1 .. Len(session) + n : longer[i] = read + (i - Len(session)) - 1
  BY <1>1, <1>3, <1>5, <1>6
<1>8. \A i \in DOMAIN longer : longer[i] < read + n
  BY <1>1, <1>4, <1>5, <1>6, <1>7
<1>9. ASSUME NEW i \in DOMAIN longer, NEW j \in DOMAIN longer, i < j
      PROVE  longer[i] < longer[j]
  <2>1. CASE j \in 1 .. Len(session)
    BY <1>1, <1>4, <1>5, <1>6, <1>9, <2>1
  <2>2. CASE j \notin 1 .. Len(session)
    <3>1. j \in Len(session) + 1 .. Len(session) + n
      BY <1>1, <1>5, <1>6, <2>2
    <3>2. longer[j] = read + (j - Len(session)) - 1
      BY <1>7, <3>1
    <3>3. CASE i \in 1 .. Len(session)
      <4>1. longer[i] \in Int /\ longer[i] < read
        BY <1>4, <1>5, <3>3
      <4> QED BY <1>1, <1>6, <3>1, <3>2, <4>1
    <3>4. CASE i \notin 1 .. Len(session)
      <4>1. i \in Len(session) + 1 .. Len(session) + n
        BY <1>1, <1>5, <1>6, <3>4
      <4>2. longer[i] = read + (i - Len(session)) - 1
        BY <1>7, <4>1
      <4> QED BY <1>1, <1>6, <1>9, <3>1, <3>2, <4>1, <4>2
    <3> QED BY <3>3, <3>4
  <2> QED BY <2>1, <2>2
<1> QED BY <1>5, <1>8, <1>9 DEF longer

HandleResult(n, answer) ==
    /\ stored' \in BOOLEAN /\ (stored => stored')
    /\ session' = Closed \/ session' \in Seq(0 .. config.size - 1)
    /\ NoByteTwice'
    /\ step \in {"chunk", "commit"} =>
         session' = Closed \/ \A i \in DOMAIN session' : session'[i] < read + n
    /\ step = "head" => answer \in {"found", "missing"} /\ (answer = "found" => stored')
    /\ step = "start" => answer = "done" /\ session' = <<>>
    /\ step = "chunk" => answer \in {"done", "refused"}
    /\ step = "commit" => answer \in {"done", "refused"} /\ (answer = "done" => stored')

LEMMA HandleMeans ==
    ASSUME Inv, Going, NEW n \in 0 .. Unread, NEW answer \in Answers, Handle(n, answer)
    PROVE  HandleResult(n, answer)
<1> USE DEF HandleResult
<1> USE DEF Inv, Types
<1>1. n \in Nat /\ read \in Nat
  BY UnreadFacts, ConfigFacts
<1>2. CASE step = "head"
  BY <1>2 DEF Handle, registry, NoByteTwice, Answers
<1>3. CASE step = "start"
  BY <1>3 DEF Handle, registry, NoByteTwice, Answers
<1>4. CASE step = "chunk"
  <2>1. CASE session = Closed \/ (config.checksRange /\ ~RangeIsRight)
    <3>1. answer = "refused" /\ UNCHANGED <<stored, session>>
      BY <1>4, <2>1 DEF Handle, registry
    <3>2. session' = Closed \/ \A i \in DOMAIN session : session[i] < read
      BY <1>4, <3>1 DEF SessionIsRead
    <3>3. session' = Closed \/ \A i \in DOMAIN session' : session'[i] < read + n
      <4> SUFFICES ASSUME session # Closed, NEW i \in DOMAIN session
                   PROVE  session[i] < read + n
        BY <3>1
      <4>1. session[i] \in Int
        BY SessionFacts
      <4>2. session[i] < read
        BY <3>1, <3>2
      <4> QED BY <4>1, <4>2, <1>1
    <3> QED BY <1>4, <3>1, <3>3 DEF NoByteTwice
  <2>2. CASE ~(session = Closed \/ (config.checksRange /\ ~RangeIsRight))
    <3>1. answer = "done" /\ stored' = stored /\ session' = session \o Bytes(n)
      BY <1>4, <2>2 DEF Handle
    <3>2. /\ session' \in Seq(0 .. config.size - 1)
          /\ NoByteTwice'
          /\ \A i \in DOMAIN session' : session'[i] < read + n
      BY <1>4, <2>2, <3>1, AppendIsAscending DEF NoByteTwice
    <3> QED BY <1>4, <3>1, <3>2
  <2> QED BY <2>1, <2>2
<1>5. CASE step = "commit"
  <2>1. session' = Closed /\ answer \in {"done", "refused"}
    BY <1>5 DEF Handle
  <2>2. stored' \in BOOLEAN /\ (stored => stored') /\ (answer = "done" => stored')
    BY <1>5 DEF Handle
  <2>3. NoByteTwice'
    BY <2>1 DEF NoByteTwice, Closed
  <2> QED BY <1>5, <2>1, <2>2, <2>3
<1> QED BY <1>2, <1>3, <1>4, <1>5 DEF Going, Steps

-----------------------------------------------------------------------------
(* Every action preserves Inv, whatever the chunks are. *)

LEMMA InitInv == Init => Inv
<1> SUFFICES ASSUME Init PROVE Inv
  OBVIOUS
<1>1. config \in ConfigType
  BY DEF Init, ConfigType
<1>2. Types
  <2>1. chunk \in [start : Int, end : Int] /\ config.size \in Nat
    BY <1>1, FirstChunkFacts, ConfigFacts DEF Init
  <2>2. via \in {"http", "https"} /\ step \in Steps
    BY DEF Init, Scheme, Steps
  <2>3. /\ stored \in BOOLEAN /\ cached \in BOOLEAN /\ errors \in BOOLEAN
        /\ sends \in 0 .. Retries /\ pushes \in 0 .. Retries
        /\ read \in 0 .. config.size /\ faults \in 0 .. MaxFaults
    <3>1. /\ stored = FALSE /\ cached = TRUE /\ errors = FALSE
          /\ sends = Retries /\ pushes = Retries /\ read = 0 /\ faults = 0
      BY DEF Init
    <3>2. stored \in BOOLEAN /\ cached \in BOOLEAN /\ errors \in BOOLEAN
      BY <3>1, Zenon
    <3>3. /\ sends \in 0 .. Retries /\ pushes \in 0 .. Retries
          /\ read \in 0 .. config.size /\ faults \in 0 .. MaxFaults
      BY <2>1, <3>1, UploadAssumption, SMT
    <3> QED BY <3>2, <3>3
  <2>4. session = Closed /\ net = "option"
    BY DEF Init
  <2> QED BY <1>1, <2>1, <2>2, <2>3, <2>4 DEF Types
<1>3. AnswersMean /\ SessionIsRead
  BY DEF Init, AnswersMean, SessionIsRead
<1>4. NoByteTwice
  BY DEF Init, NoByteTwice, Closed
<1> QED BY <1>2, <1>3, <1>4 DEF Inv

(* What a step leaves alone when it is the client's own. *)
LEMMA ClientOnly ==
    ASSUME Inv, UNCHANGED <<config, registry, cached>>,
           step' \in Steps, net' \in {"option", "sent", "nowhere"} \cup Answers \cup PushRetries,
           via' \in {"http", "https"}, errors' \in BOOLEAN,
           sends' \in 0 .. Retries, pushes' \in 0 .. Retries,
           chunk' \in [start : Int, end : Int], read' \in 0 .. config.size,
           faults' \in 0 .. MaxFaults,
           AnswersMean', SessionIsRead'
    PROVE  Inv'
<1>1. Types'
  BY DEF Inv, Types, registry
<1>2. NoByteTwice'
  BY DEF Inv, NoByteTwice, registry
<1> QED BY <1>1, <1>2 DEF Inv

LEMMA FaultFacts ==
    ASSUME Inv, Fault
    PROVE  faults' \in 1 .. MaxFaults
BY UploadAssumption DEF Inv, Types, Fault

LEMMA AskFacts ==
    ASSUME NEW request \in Steps, Ask(request)
    PROVE  step' \in Steps /\ net' = "option" /\ sends' \in 0 .. Retries
BY UploadAssumption DEF Ask

LEMMA FailFacts ==
    ASSUME Types, NEW retryable \in BOOLEAN, Fail(retryable)
    PROVE  /\ step' \in {"head", "failed"} /\ errors' \in BOOLEAN
           /\ (net' = "option" \/ (net' = net /\ step' = "failed"))
           /\ sends' \in 0 .. Retries /\ pushes' \in 0 .. Retries
<1>1. /\ Retries \in Nat /\ pushes \in 0 .. Retries /\ sends \in 0 .. Retries
      /\ errors' = TRUE
  BY UploadAssumption DEF Types, Fail
<1>2. CASE retryable /\ pushes > 0
  <2>1. pushes' = pushes - 1 /\ step' = "head" /\ net' = "option" /\ sends' = Retries
    BY <1>2 DEF Fail, Ask
  <2> QED BY <1>1, <1>2, <2>1
<1>3. CASE ~(retryable /\ pushes > 0)
  <2>1. pushes' = pushes /\ step' = "failed" /\ net' = net /\ sends' = sends
    BY <1>3 DEF Fail
  <2> QED BY <1>1, <2>1
<1> QED BY <1>2, <1>3

(* An attempt that failed is over, and what it asked is forgotten. *)
LEMMA FailStep ==
    ASSUME Inv, NEW retryable \in BOOLEAN, Fail(retryable),
           UNCHANGED <<config, registry, cached, via, chunk, read>>,
           faults' \in 0 .. MaxFaults
    PROVE  Inv'
<1>1. /\ step' \in Steps /\ errors' \in BOOLEAN
      /\ net' \in {"option", "sent", "nowhere"} \cup Answers \cup PushRetries
      /\ sends' \in 0 .. Retries /\ pushes' \in 0 .. Retries
  BY FailFacts DEF Inv, Types, Steps
<1>2. AnswersMean' /\ SessionIsRead'
  BY FailFacts DEF Inv, AnswersMean, SessionIsRead
<1> QED BY <1>1, <1>2, ClientOnly DEF Inv, Types

LEMMA GetOptionInv ==
    ASSUME Inv, GetOption PROVE Inv'
<1>1. /\ UNCHANGED <<config, registry, cached, step, sends, pushes, errors, chunk, read, faults>>
      /\ net' = "sent" /\ via' = Scheme
  BY DEF GetOption
<1>2. via' \in {"http", "https"}
  BY <1>1 DEF Scheme
<1>3. AnswersMean' /\ SessionIsRead'
  BY <1>1 DEF Inv, AnswersMean, SessionIsRead, registry
<1> QED BY <1>1, <1>2, <1>3, ClientOnly DEF Inv, Types

LEMMA PingFailsInv ==
    ASSUME Inv, PingFails PROVE Inv'
<1>1. faults' \in 0 .. MaxFaults
  BY FaultFacts, UploadAssumption DEF PingFails
<1> QED BY <1>1, FailStep DEF PingFails

LEMMA DeliverInv ==
    ASSUME Inv, Deliver PROVE Inv'
<1> DEFINE n == Unread
<1>1. PICK answer \in Answers : Handle(n, answer) /\ net' = answer
  BY DEF Deliver
<1>2. /\ UNCHANGED <<config, cached, step, via, sends, pushes, errors, chunk, faults>>
      /\ read' = read + n /\ Going
  BY DEF Deliver, Sent
<1>3. n \in 0 .. n /\ read' \in 0 .. config.size
  BY <1>2, UnreadFacts, ConfigFacts DEF Inv, Types
<1> HIDE DEF n
<1>4. HandleResult(n, answer)
  BY <1>1, <1>2, <1>3, HandleMeans DEF n
<1>5. AnswersMean' /\ SessionIsRead' /\ NoByteTwice'
  BY <1>1, <1>2, <1>4 DEF HandleResult, AnswersMean, SessionIsRead, Inv, Going, Steps, Types, Closed
<1>6. Types'
  BY <1>1, <1>2, <1>3, <1>4 DEF Inv, Types, HandleResult
<1> QED BY <1>5, <1>6 DEF Inv

LEMMA LoseInv ==
    ASSUME Inv, Lose PROVE Inv'
<1>1. PICK n \in 0 .. Unread, m \in 0 .. Unread :
        /\ m <= n /\ read' = read + n
        /\ UNCHANGED registry \/ \E answer \in Answers : Handle(m, answer)
  BY DEF Lose
<1>2. /\ UNCHANGED <<config, cached, step, via, sends, pushes, errors, chunk>>
      /\ net' = "lost" /\ Going
  BY DEF Lose, Sent
<1>3. faults' \in 0 .. MaxFaults
  BY FaultFacts, UploadAssumption DEF Lose
<1>4. read' \in 0 .. config.size /\ read \in Nat /\ n \in Nat /\ m \in Nat
  BY <1>1, UnreadFacts, ConfigFacts DEF Inv, Types
<1>5. CASE UNCHANGED registry
  <2>1. SessionIsRead'
    BY <1>1, <1>2, <1>4, <1>5, SessionFacts DEF Inv, SessionIsRead, registry
  <2>2. AnswersMean'
    BY <1>2, <1>5 DEF Inv, AnswersMean, registry
  <2> QED BY <1>2, <1>3, <1>4, <1>5, <2>1, <2>2, ClientOnly DEF Inv, Types, PushRetries
<1>6. ASSUME NEW answer \in Answers, Handle(m, answer) PROVE Inv'
  <2>1. HandleResult(m, answer)
    BY <1>2, <1>6, HandleMeans
  <2>2. AnswersMean'
    BY <1>2, <2>1 DEF HandleResult, AnswersMean, Inv, Going
  <2>3. SessionIsRead'
    <3> SUFFICES ASSUME step \in {"chunk", "commit"}, session' # Closed, NEW i \in DOMAIN session'
                 PROVE  session'[i] < read'
      BY <1>2 DEF SessionIsRead
    <3>1. session'[i] < read + m
      BY <2>1 DEF HandleResult
    <3>2. config.size \in Nat /\ session' \in Seq(0 .. config.size - 1)
      BY <2>1, ConfigFacts DEF Inv, Types, HandleResult
    <3>3. session'[i] \in 0 .. config.size - 1
      BY <3>2, ElementsOfSequence
    <3> QED BY <1>1, <1>4, <3>1, <3>2, <3>3
  <2>4. Types' /\ NoByteTwice'
    BY <1>2, <1>3, <1>4, <2>1 DEF Inv, Types, HandleResult, PushRetries
  <2> QED BY <2>2, <2>3, <2>4 DEF Inv
<1> QED BY <1>1, <1>5, <1>6

LEMMA ServerFailsInv ==
    ASSUME Inv, ServerFails PROVE Inv'
<1>1. PICK n \in 0 .. Unread : read' = read + n
  BY DEF ServerFails
<1>2. /\ UNCHANGED <<config, registry, cached, step, via, sends, pushes, errors, chunk>>
      /\ net' \in {"busy", "broken", "nowhere"}
      /\ net' = "nowhere" => step \in {"start", "chunk"}
  BY DEF ServerFails
<1>3. faults' \in 0 .. MaxFaults
  BY FaultFacts, UploadAssumption DEF ServerFails
<1>4. read' \in 0 .. config.size /\ read \in Nat /\ n \in Nat
  BY <1>1, UnreadFacts, ConfigFacts DEF Inv, Types
<1>5. SessionIsRead'
  BY <1>1, <1>2, <1>4, SessionFacts DEF Inv, SessionIsRead, registry
<1>6. AnswersMean'
  BY <1>2 DEF Inv, AnswersMean, registry
<1> QED BY <1>2, <1>3, <1>4, <1>5, <1>6, ClientOnly DEF Inv, Types, PushRetries

LEMMA PlainPortInv ==
    ASSUME Inv, PlainPort PROVE Inv'
<1>1. /\ UNCHANGED <<config, registry, cached, step, via, sends, pushes, errors, chunk, read, faults>>
      /\ net' \in {"refused", "lost"}
  BY DEF PlainPort
<1>2. AnswersMean' /\ SessionIsRead'
  BY <1>1 DEF Inv, AnswersMean, SessionIsRead, registry
<1> QED BY <1>1, <1>2, ClientOnly DEF Inv, Types, PushRetries, Answers

LEMMA FallbackInv ==
    ASSUME Inv, FallbackToHTTP PROVE Inv'
<1>1. /\ UNCHANGED <<config, registry, cached, step, sends, pushes, errors, chunk, read, faults>>
      /\ via' = "http" /\ net' = "sent"
  BY DEF FallbackToHTTP
<1>2. AnswersMean' /\ SessionIsRead'
  BY <1>1 DEF Inv, AnswersMean, SessionIsRead, registry
<1> QED BY <1>1, <1>2, ClientOnly DEF Inv, Types

LEMMA ResendInv ==
    ASSUME Inv, Resend PROVE Inv'
<1>1. /\ UNCHANGED <<config, registry, cached, step, pushes, errors, chunk, faults>>
      /\ net' = "sent" /\ via' = Scheme /\ read' = read
      /\ sends' = sends - 1 /\ sends > 0
  BY DEF Resend, Body, SameBody
<1>2. via' \in {"http", "https"}
  BY <1>1 DEF Scheme
<1>3. sends' \in 0 .. Retries
  BY <1>1, UploadAssumption DEF Inv, Types
<1>4. AnswersMean' /\ SessionIsRead'
  BY <1>1 DEF Inv, AnswersMean, SessionIsRead, registry
<1> QED BY <1>1, <1>2, <1>3, <1>4, ClientOnly DEF Inv, Types

LEMMA SendFailsInv ==
    ASSUME Inv, SendFails PROVE Inv'
<1> DEFINE retryable == net \in PushRetries
<1>1. /\ UNCHANGED <<config, registry, cached, via, chunk, read, faults>>
      /\ retryable \in BOOLEAN /\ Fail(retryable)
  BY DEF SendFails
<1>2. faults' \in 0 .. MaxFaults
  BY <1>1 DEF Inv, Types
<1> HIDE DEF retryable
<1> QED BY <1>1, <1>2, FailStep

LEMMA SkipExistingInv ==
    ASSUME Inv, SkipExisting PROVE Inv'
<1>1. /\ UNCHANGED <<config, registry, cached, via, chunk, read, faults, net, sends, pushes, errors>>
      /\ step = "head" /\ net = "found" /\ step' = "pushed"
  BY DEF SkipExisting, Succeed
<1>2. AnswersMean' /\ SessionIsRead'
  BY <1>1 DEF Inv, AnswersMean, SessionIsRead, registry
<1> QED BY <1>1, <1>2, ClientOnly DEF Inv, Types, Steps

LEMMA StartUploadInv ==
    ASSUME Inv, StartUpload PROVE Inv'
<1>1. /\ UNCHANGED <<config, registry, cached, via, pushes, errors, chunk, read, faults>>
      /\ step' = "start" /\ net' = "option" /\ sends' \in 0 .. Retries
  BY AskFacts DEF StartUpload, Ask, Steps
<1>2. AnswersMean' /\ SessionIsRead'
  BY <1>1 DEF Inv, AnswersMean, SessionIsRead, registry
<1> QED BY <1>1, <1>2, ClientOnly DEF Inv, Types, Steps

LEMMA NowhereToGoInv ==
    ASSUME Inv, NowhereToGo PROVE Inv'
BY FailStep DEF NowhereToGo, Inv, Types

(* The session that OpenFile goes on with is the one just started. *)
LEMMA OpenFileInv ==
    ASSUME Inv, OpenFile PROVE Inv'
<1>1. CASE ~cached
  BY <1>1, FailStep DEF OpenFile, Inv, Types
<1>2. CASE cached
  <2>1. /\ UNCHANGED <<config, registry, cached, via, faults, pushes, errors>>
        /\ chunk' = FirstChunk /\ read' = 0
        /\ step = "start" /\ net = "done"
        /\ step' \in {"chunk", "commit"} /\ net' = "option" /\ sends' = Retries
    BY <1>2 DEF OpenFile, Ask, Accepted, Inv, AnswersMean
  <2>2. chunk' \in [start : Int, end : Int] /\ read' \in 0 .. config.size /\ sends' \in 0 .. Retries
    BY <2>1, FirstChunkFacts, ConfigFacts, UploadAssumption DEF Inv, Types
  <2>3. session' = <<>>
    BY <2>1 DEF Inv, AnswersMean, registry
  <2>4. AnswersMean' /\ SessionIsRead'
    BY <2>1, <2>3 DEF Inv, AnswersMean, SessionIsRead
  <2> QED BY <2>1, <2>2, <2>4, ClientOnly DEF Inv, Types, Steps
<1> QED BY <1>1, <1>2

LEMMA ChunkIsSentInv ==
    ASSUME Inv, ChunkIsSent PROVE Inv'
<1>1. /\ UNCHANGED <<config, registry, cached, via, pushes, errors, read, faults>>
      /\ chunk' = NextChunk(chunk) /\ step = "chunk"
      /\ step' \in {"chunk", "commit"} /\ net' = "option" /\ sends' = Retries
  BY DEF ChunkIsSent, Ask
<1>2. chunk' \in [start : Int, end : Int] /\ sends' \in 0 .. Retries
  BY <1>1, NextChunkFacts, UploadAssumption DEF Inv
<1>3. AnswersMean' /\ SessionIsRead'
  BY <1>1 DEF Inv, AnswersMean, SessionIsRead, registry
<1> QED BY <1>1, <1>2, <1>3, ClientOnly DEF Inv, Types, Steps

LEMMA CommitIsDoneInv ==
    ASSUME Inv, CommitIsDone PROVE Inv'
<1>1. /\ UNCHANGED <<config, registry, cached, via, chunk, read, faults, net, sends, pushes, errors>>
      /\ step = "commit" /\ net = "done" /\ step' = "pushed"
  BY DEF CommitIsDone, Succeed, Accepted, Inv, AnswersMean
<1>2. AnswersMean' /\ SessionIsRead'
  BY <1>1 DEF Inv, AnswersMean, SessionIsRead, registry
<1> QED BY <1>1, <1>2, ClientOnly DEF Inv, Types, Steps

LEMMA SurroundingsInv ==
    ASSUME Inv, OthersPush \/ EvictLayer PROVE Inv'
<1>1. UNCHANGED <<config, session, client, read, faults>>
  BY DEF OthersPush, EvictLayer, registry
<1>2. stored' \in BOOLEAN /\ cached' \in BOOLEAN /\ (stored => stored')
  BY DEF OthersPush, EvictLayer, registry, Inv, Types
<1>3. Types'
  BY <1>1, <1>2 DEF Inv, Types, client
<1>4. AnswersMean' /\ SessionIsRead' /\ NoByteTwice'
  BY <1>1, <1>2 DEF Inv, AnswersMean, SessionIsRead, NoByteTwice, client
<1> QED BY <1>3, <1>4 DEF Inv

LEMMA StutterInv ==
    ASSUME Inv, UNCHANGED vars PROVE Inv'
BY DEF Inv, Types, AnswersMean, SessionIsRead, NoByteTwice, vars, registry, client

LEMMA NextInv ==
    ASSUME Inv, [Next]_vars PROVE Inv'
BY GetOptionInv, PingFailsInv, DeliverInv, LoseInv, ServerFailsInv, PlainPortInv, FallbackInv,
   ResendInv, SendFailsInv, SkipExistingInv, StartUploadInv, NowhereToGoInv, OpenFileInv,
   ChunkIsSentInv, CommitIsDoneInv, SurroundingsInv, StutterInv
   DEF Next, Network, Send, Helper

(* In every state an answer means what the client takes it for, and the    *)
(* session has no byte that was not read (pushLayerHelper and Send).       *)
THEOREM Invariance == Spec => []Inv
<1>1. Init => Inv
  BY InitInv
<1>2. Inv /\ [Next]_vars => Inv'
  BY NextInv
<1> QED BY <1>1, <1>2, PTL DEF Spec

-----------------------------------------------------------------------------
(* Whatever is lost, resent or sent over the other scheme, and however the *)
(* file is cut into chunks, the session of the registry never has a byte   *)
(* twice or before an earlier one (Send, httputil.go:322).                 *)
THEOREM SessionsAscend == Spec => []NoByteTwice
<1>1. Inv => NoByteTwice
  BY DEF Inv
<1> QED BY <1>1, Invariance, PTL

(* A push that returns no error has left the blob in the registry          *)
(* (pushLayerHelper, client.go:404).                                       *)
THEOREM PushesAreStored == Spec => []PushedIsStored
<1>1. Inv => PushedIsStored
  BY DEF Inv, AnswersMean, PushedIsStored
<1> QED BY <1>1, Invariance, PTL

-----------------------------------------------------------------------------
(* With chunks that mean something, the chunk is in the file and the       *)
(* reader is in the chunk.                                                 *)

LEMMA InitChunk == ChunksAreMeaningful /\ Init => ChunkIsRead
<1> SUFFICES ASSUME ChunksAreMeaningful, Init PROVE ChunkIsRead
  OBVIOUS
<1>1. config \in ConfigType /\ chunk = FirstChunk /\ step = "head"
  BY DEF Init, ConfigType
<1> QED BY <1>1, FirstChunkFacts, ChunkSizeFacts, ConfigFacts DEF ChunkIsRead

(* The first chunk, as OpenFile takes it. *)
LEMMA FirstChunkIsInFile ==
    ASSUME config \in ConfigType, ChunksAreMeaningful
    PROVE  /\ FirstChunk.start = 0 /\ -1 <= FirstChunk.end
           /\ FirstChunk.end < config.size /\ FirstChunk.end < ChunkSize
           /\ ~NeedsChunks => FirstChunk.end = config.size - 1
<1>1. config.size \in Nat /\ ChunkSize \in Nat
  BY ConfigFacts, ChunkSizeFacts
<1> QED BY <1>1, FirstChunkFacts DEF NeedsChunks

(* The chunk after one that is in the file. *)
LEMMA NextChunkIsInFile ==
    ASSUME Types, ChunkIsRead, ChunksAreMeaningful
    PROVE  LET c == NextChunk(chunk)
           IN  /\ c.start = chunk.end + 1 /\ 0 <= c.start /\ c.start - 1 <= c.end
               /\ c.end < config.size /\ c.end < c.start + ChunkSize
<1> DEFINE c == NextChunk(chunk)
           s == chunk.start
           e == chunk.end
           z == config.size
           k == ChunkSize
<1>1. /\ c.start = e + 1
      /\ c.end = IF s + k - 1 <= z - 1 THEN s + k - 1 ELSE z - 1
  BY NextChunkFacts
<1>2. /\ z \in Nat /\ k \in Nat /\ s \in Int /\ e \in Int
      /\ 0 <= s /\ s - 1 <= e /\ e < z /\ e < s + k
  BY ConfigFacts, ChunkSizeFacts DEF Types, ChunkIsRead
<1> HIDE DEF c, s, e, z, k
<1>3. /\ c.start = e + 1 /\ 0 <= c.start /\ c.start - 1 <= c.end
      /\ c.end < z /\ c.end < c.start + k
  BY <1>1, <1>2
<1> QED BY <1>3 DEF c, s, e, z, k

(* A step that keeps the chunk, and reads no more than what is left of it. *)
LEMMA SameChunk ==
    ASSUME ChunkIsRead, Types, UNCHANGED <<config, chunk>>,
           step' = "chunk" =>
             /\ step = "chunk"
             /\ read <= read' /\ read' <= chunk.end + 1 /\ read' \in Int
             /\ net' = "option" => read' = chunk.start
             /\ net' = "done" => read' = chunk.end + 1
    PROVE  ChunkIsRead'
<1>1. ChunkSize' = ChunkSize /\ NeedsChunks' = NeedsChunks
  BY DEF ChunkSize, NeedsChunks
<1>2. chunk.start \in Int /\ read \in Int
  BY ConfigFacts DEF Types
<1> QED BY <1>1, <1>2 DEF ChunkIsRead

LEMMA NextChunkRead ==
    ASSUME Inv, ChunkIsRead, ChunksAreMeaningful, [Next]_vars
    PROVE  ChunkIsRead'
<1> USE DEF Inv
<1>1. CASE GetOption
  <2>1. UNCHANGED <<config, chunk, step, read>> /\ net' = "sent"
    BY <1>1 DEF GetOption
  <2> QED BY <2>1, SameChunk, ConfigFacts DEF Types, ChunkIsRead
<1>2. CASE PingFails \/ SendFails \/ NowhereToGo \/ (OpenFile /\ ~cached)
  <2>1. UNCHANGED <<config, chunk>> /\ step' \in {"head", "failed"}
    BY <1>2 DEF PingFails, SendFails, NowhereToGo, OpenFile, Fail, Ask
  <2> QED BY <2>1, SameChunk
<1>3. CASE Deliver
  <2>1. /\ UNCHANGED <<config, chunk, step>> /\ read' = read + Unread
        /\ net' \in Answers
    BY <1>3 DEF Deliver
  <2>2. Unread \in Nat /\ read \in Int
    BY UnreadFacts, ConfigFacts DEF Types
  <2>3. step = "chunk" => read + Unread = chunk.end + 1 /\ chunk.end \in Int
    BY UnreadOfChunk DEF Types
  <2> QED BY <2>1, <2>2, <2>3, SameChunk DEF Answers
<1>4. CASE Lose \/ ServerFails
  <2>1. PICK n \in 0 .. Unread : read' = read + n
    BY <1>4 DEF Lose, ServerFails
  <2>2. UNCHANGED <<config, chunk, step>> /\ net' \in {"lost", "busy", "broken", "nowhere"}
    BY <1>4 DEF Lose, ServerFails
  <2>3. Unread \in Nat /\ read \in Int /\ n \in Nat /\ n <= Unread
    BY UnreadFacts, ConfigFacts DEF Types
  <2>4. step = "chunk" => read + Unread = chunk.end + 1 /\ chunk.end \in Int
    BY UnreadOfChunk DEF Types
  <2> QED BY <2>1, <2>2, <2>3, <2>4, SameChunk
<1>5. CASE PlainPort \/ FallbackToHTTP \/ Resend
  <2>1. UNCHANGED <<config, chunk, step, read>> /\ net' \in {"refused", "lost", "sent"}
    BY <1>5 DEF PlainPort, FallbackToHTTP, Resend, Body, SameBody
  <2> QED BY <2>1, SameChunk, ConfigFacts DEF Types, ChunkIsRead
<1>6. CASE SkipExisting \/ StartUpload \/ CommitIsDone
  <2>1. UNCHANGED <<config, chunk>> /\ step' \in {"pushed", "start"}
    BY <1>6 DEF SkipExisting, StartUpload, CommitIsDone, Succeed, Ask
  <2> QED BY <2>1, SameChunk
<1>7. CASE OpenFile /\ cached
  <2>1. /\ UNCHANGED config /\ chunk' = FirstChunk /\ read' = 0
        /\ step' = IF config.size > 0 THEN "chunk" ELSE "commit"
        /\ net' = "option"
    BY <1>7 DEF OpenFile, Ask
  <2>2. ChunkSize' = ChunkSize /\ NeedsChunks' = NeedsChunks
    BY <2>1 DEF ChunkSize, NeedsChunks
  <2>3. FirstChunk.end \in Int /\ config.size \in Nat /\ ChunkSize \in Nat
    BY FirstChunkFacts, ConfigFacts, ChunkSizeFacts DEF Types
  <2> QED BY <2>1, <2>2, <2>3, FirstChunkIsInFile DEF ChunkIsRead, Types
<1>8. CASE ChunkIsSent
  <2> DEFINE c == NextChunk(chunk)
  <2>1. /\ UNCHANGED <<config, read>> /\ chunk' = c
        /\ step' = IF c.start < config.size THEN "chunk" ELSE "commit"
        /\ net' = "option"
        /\ step = "chunk" /\ net = "done"
    BY <1>8 DEF ChunkIsSent, Ask, Accepted, AnswersMean
  <2>2. ChunkSize' = ChunkSize /\ NeedsChunks' = NeedsChunks
    BY <2>1 DEF ChunkSize, NeedsChunks
  <2>3. /\ c.start = chunk.end + 1 /\ 0 <= c.start /\ c.start - 1 <= c.end
        /\ c.end < config.size /\ c.end < c.start + ChunkSize
        /\ c.end \in Int
    BY NextChunkIsInFile, NextChunkFacts
  <2>4. read = chunk.end + 1 /\ (~NeedsChunks => chunk.end = config.size - 1)
    BY <2>1 DEF ChunkIsRead
  <2>5. config.size \in Nat /\ chunk.end \in Int
    BY ConfigFacts DEF Types
  <2> HIDE DEF c
  <2> QED BY <2>1, <2>2, <2>3, <2>4, <2>5 DEF ChunkIsRead
<1>9. CASE OthersPush \/ EvictLayer \/ UNCHANGED vars
  <2>1. UNCHANGED <<config, chunk, step, net, read>>
    BY <1>9 DEF OthersPush, EvictLayer, vars, client
  <2> QED BY <2>1, SameChunk, ConfigFacts DEF Types, ChunkIsRead
<1> QED BY <1>1, <1>2, <1>3, <1>4, <1>5, <1>6, <1>7, <1>8, <1>9 DEF Next, Network, Send, Helper

-----------------------------------------------------------------------------
(* With no fault the session is the part of the file that was read, and    *)
(* every request is accepted.                                              *)

LEMMA PrefixGrows ==
    ASSUME NEW n \in Nat, read \in Nat
    PROVE  /\ Prefix(read) \o Bytes(n) = Prefix(read + n)
           /\ Len(Prefix(read)) = read
           /\ Prefix(read) # Closed
<1>1. /\ Prefix(read) \in Seq(Int) /\ Len(Prefix(read)) = read
      /\ \A i \in 1 .. read : Prefix(read)[i] = i - 1
  BY DEF Prefix
<1>2. /\ Bytes(n) \in Seq(Int) /\ Len(Bytes(n)) = n
      /\ \A i \in 1 .. n : Bytes(n)[i] = read + i - 1
  BY DEF Bytes
<1>3. /\ Prefix(read + n) \in Seq(Int) /\ Len(Prefix(read + n)) = read + n
      /\ \A i \in 1 .. read + n : Prefix(read + n)[i] = i - 1
  BY DEF Prefix
<1> DEFINE whole == Prefix(read + n)
           front == Prefix(read)
           back  == Bytes(n)
<1> HIDE DEF whole, front, back
<1>4. front \o back = whole
  <2>1. /\ front \in Seq(Int) /\ back \in Seq(Int) /\ whole \in Seq(Int)
        /\ Len(front) = read /\ Len(back) = n /\ Len(whole) = read + n
    BY <1>1, <1>2, <1>3 DEF front, back, whole
  <2>2. /\ \A i \in 1 .. read : front[i] = i - 1
        /\ \A i \in 1 .. n : back[i] = read + i - 1
        /\ \A i \in 1 .. read + n : whole[i] = i - 1
    BY <1>1, <1>2, <1>3 DEF front, back, whole
  <2>3. /\ front \o back \in Seq(Int) /\ Len(front \o back) = read + n
        /\ \A i \in 1 .. read + n : (front \o back)[i] = IF i <= read THEN front[i] ELSE back[i - read]
    BY <2>1, Concatenation
  <2> DEFINE both == front \o back
  <2>4. /\ both \in Seq(Int) /\ Len(both) = read + n
        /\ \A i \in 1 .. read + n : both[i] = IF i <= read THEN front[i] ELSE back[i - read]
    BY <2>3
  <2> HIDE DEF both
  <2>5. ASSUME NEW i \in 1 .. read + n
        PROVE  both[i] = whole[i]
    <3>1. CASE i <= read
      <4>1. i \in 1 .. read /\ both[i] = front[i]
        BY <2>4, <3>1
      <4>2. front[i] = i - 1
        BY <2>2, <4>1
      <4> QED BY <2>2, <4>1, <4>2
    <3>2. CASE ~(i <= read)
      <4>1. i - read \in 1 .. n /\ both[i] = back[i - read]
        BY <2>4, <3>2
      <4>2. back[i - read] = read + (i - read) - 1
        BY <2>2, <4>1
      <4> QED BY <2>2, <4>1, <4>2
    <3> QED BY <3>1, <3>2
  <2>6. both = whole
    BY <2>1, <2>4, <2>5
  <2> QED BY <2>6 DEF both
<1>5. front # Closed
  <2>1. Closed[1] = -1 /\ Len(Closed) = 1
    BY DEF Closed
  <2>2. Len(front) = 1 => front[1] = 0
    BY <1>1 DEF front
  <2> QED BY <2>1, <2>2
<1> QED BY <1>1, <1>4, <1>5 DEF whole, front, back

LEMMA InitSmooth == Init => SmoothPush
BY DEF Init, SmoothPush

(* The registry takes every request of a push with no fault. *)
LEMMA SmoothDeliver ==
    ASSUME IInv, ChunksAreMeaningful, Smooth, Deliver
    PROVE  /\ net' \in {"found", "missing", "done"} /\ read' = read + Unread
           /\ step \in {"chunk", "commit"} => net' = "done"
           /\ step = "chunk" => session' = Prefix(read')
<1> USE DEF IInv, Inv
<1>1. PICK answer \in Answers : Handle(Unread, answer) /\ net' = answer
  BY DEF Deliver
<1>2. Going /\ net = "sent" /\ read' = read + Unread
  BY DEF Deliver, Sent
<1>3. HandleResult(Unread, answer)
  BY <1>1, <1>2, UnreadFacts, HandleMeans
<1>4. read \in Nat /\ Unread \in Nat /\ config.size \in Nat /\ ChunkSize \in Int
  BY UnreadFacts, ConfigFacts DEF Types
<1>5. CASE step = "chunk"
  <2>1. session = Prefix(read) /\ read = chunk.start
    BY <1>2, <1>5 DEF SmoothPush
  <2>2. session # Closed /\ Len(session) = read
    BY <1>4, <2>1, PrefixGrows
  <2>3. config.checksRange => RangeIsRight
    <3> SUFFICES ASSUME config.checksRange PROVE RangeIsRight
      OBVIOUS
    <3>1. ~NeedsChunks
      BY DEF Smooth
    <3>2. chunk.start = 0 /\ chunk.end = config.size - 1 /\ chunk.start < config.size
      BY <1>5, <3>1 DEF ChunkIsRead
    <3> QED BY <1>4, <2>1, <2>2, <3>2 DEF RangeIsRight
  <2>4. answer = "done" /\ session' = session \o Bytes(Unread)
    BY <1>1, <1>5, <2>2, <2>3 DEF Handle
  <2> QED BY <1>1, <1>2, <1>4, <1>5, <2>1, <2>4, PrefixGrows
<1>6. CASE step = "commit"
  <2>1. session = Prefix(config.size)
    BY <1>2, <1>6 DEF SmoothPush
  <2>2. session # Closed
    <3>1. ASSUME session = Closed PROVE FALSE
      <4>1. Prefix(config.size) \in Seq(Int) /\ Len(Prefix(config.size)) = config.size
        BY <1>4 DEF Prefix
      <4>2. config.size = 1 => Prefix(config.size)[1] = 0
        BY DEF Prefix
      <4>3. Closed[1] = -1 /\ Len(Closed) = 1
        BY DEF Closed
      <4> QED BY <2>1, <3>1, <4>1, <4>2, <4>3
    <3> QED BY <3>1
  <2>3. answer = "done"
    BY <1>1, <1>6, <2>1, <2>2 DEF Handle, Prefix
  <2> QED BY <1>1, <1>2, <1>6, <2>3
<1>7. CASE step \notin {"chunk", "commit"}
  <2>1. step \in {"head", "start"}
    BY <1>2, <1>7 DEF Going, Types, Steps
  <2> QED BY <1>1, <1>2, <1>3, <1>7, <2>1 DEF HandleResult
<1> QED BY <1>5, <1>6, <1>7

(* A request of a push with no fault is served. *)
LEMMA SmoothIsServed ==
    ASSUME IInv, Smooth
    PROVE  Served
<1>1. /\ config.security = "plain" => config.plainPort = "serves"
      /\ via = Scheme
  BY DEF IInv, SmoothPush
<1> QED BY <1>1 DEF Served, Scheme

LEMMA NextSmooth ==
    ASSUME IInv, ChunksAreMeaningful, [Next]_vars
    PROVE  SmoothPush'
<1> USE DEF IInv, Inv
<1>1. config' = config
  BY DEF Next, Network, Send, Helper, GetOption, PingFails, Deliver, Lose, ServerFails, PlainPort,
     FallbackToHTTP, Resend, SendFails, SkipExisting, StartUpload, NowhereToGo, OpenFile,
     ChunkIsSent, CommitIsDone, OthersPush, EvictLayer, vars
<1>2. (config.security = "plain" => config.plainPort = "serves")'
  BY <1>1 DEF SmoothPush
<1> SUFFICES ASSUME Smooth'
             PROVE  /\ step' # "failed"
                    /\ net' \in {"option", "sent", "found", "missing", "done"}
                    /\ via' = Scheme
                    /\ step' = "chunk" =>
                         /\ net' = "sent" => read' = chunk'.start
                         /\ session' = Prefix(read')
                    /\ step' = "commit" /\ net' # "done" => session' = Prefix(config.size)
  <2>1. Scheme' = Scheme
    BY <1>1 DEF Scheme
  <2> QED BY <1>1, <1>2, <2>1 DEF SmoothPush, Prefix
<1>3. faults' = 0 /\ cached' /\ (config.checksRange => ~NeedsChunks)
  BY <1>1 DEF Smooth, NeedsChunks, ChunkSize
<1>4. ~Fault
  BY <1>3 DEF Fault, Types
<1>5. faults = 0 /\ cached
  BY <1>3, <1>4 DEF Next, Network, Send, Helper, GetOption, PingFails, Deliver, Lose, ServerFails,
     PlainPort, FallbackToHTTP, Resend, SendFails, SkipExisting, StartUpload, NowhereToGo, OpenFile,
     ChunkIsSent, CommitIsDone, OthersPush, EvictLayer, vars
<1>6. Smooth
  BY <1>3, <1>5 DEF Smooth
<1>7. /\ step # "failed" /\ via = Scheme
      /\ net \in {"option", "sent", "found", "missing", "done"}
      /\ step = "chunk" =>
           /\ net = "sent" => read = chunk.start
           /\ session = Prefix(read)
      /\ step = "commit" /\ net # "done" => session = Prefix(config.size)
  BY <1>6 DEF SmoothPush
<1>8. CASE GetOption
  <2>1. UNCHANGED <<registry, step, read, chunk>> /\ net = "option" /\ net' = "sent" /\ via' = Scheme
    BY <1>8 DEF GetOption
  <2>2. step = "chunk" => read = chunk.start
    BY <2>1 DEF ChunkIsRead
  <2> QED BY <1>7, <2>1, <2>2 DEF registry
<1>9. CASE Deliver
  <2>1. UNCHANGED <<step, via, chunk>>
    BY <1>9 DEF Deliver
  <2> QED BY <1>6, <1>7, <1>9, <2>1, SmoothDeliver
<1>10. ~(PingFails \/ Lose \/ ServerFails)
  BY <1>4 DEF PingFails, Lose, ServerFails
<1>11. ~PlainPort
  BY <1>6, SmoothIsServed DEF PlainPort
<1>12. ~(FallbackToHTTP \/ Resend \/ SendFails \/ NowhereToGo)
  BY <1>7 DEF FallbackToHTTP, Resend, SendFails, NowhereToGo, SendRetries, Answered, Accepted
<1>13. CASE SkipExisting \/ CommitIsDone
  <2>1. UNCHANGED <<net, via>> /\ step' = "pushed"
    BY <1>13 DEF SkipExisting, CommitIsDone, Succeed
  <2> QED BY <1>7, <2>1
<1>14. CASE StartUpload
  <2>1. UNCHANGED via /\ step' = "start" /\ net' = "option"
    BY <1>14 DEF StartUpload, Ask
  <2> QED BY <1>7, <2>1
<1>15. CASE OpenFile
  <2>1. /\ UNCHANGED <<session, via>> /\ read' = 0 /\ step = "start" /\ net = "done"
        /\ step' = IF config.size > 0 THEN "chunk" ELSE "commit"
        /\ net' = "option"
    BY <1>5, <1>15 DEF OpenFile, Ask, registry, Accepted, AnswersMean
  <2>2. session' = Prefix(0)
    BY <2>1 DEF AnswersMean, Prefix
  <2>3. step' = "commit" => config.size = 0
    BY <2>1, ConfigFacts DEF Types
  <2> QED BY <1>7, <2>1, <2>2, <2>3
<1>16. CASE ChunkIsSent
  <2>1. /\ UNCHANGED <<session, via, read>> /\ step = "chunk" /\ net = "done"
        /\ step' = IF NextChunk(chunk).start < config.size THEN "chunk" ELSE "commit"
        /\ net' = "option"
    BY <1>16 DEF ChunkIsSent, Ask, registry, Accepted, AnswersMean
  <2>2. read = chunk.end + 1 /\ chunk.end < config.size /\ NextChunk(chunk).start = chunk.end + 1
    BY <2>1, NextChunkFacts DEF ChunkIsRead
  <2>3. step' = "commit" => read = config.size
    BY <2>1, <2>2, ConfigFacts DEF Types
  <2> QED BY <1>7, <2>1, <2>3
<1>17. CASE OthersPush \/ UNCHANGED vars
  <2>1. UNCHANGED <<session, step, net, via, chunk, read>>
    BY <1>17 DEF OthersPush, vars, client, registry
  <2> QED BY <1>7, <2>1
<1>18. ~EvictLayer
  BY <1>3 DEF EvictLayer
<1> QED BY <1>8, <1>9, <1>10, <1>11, <1>12, <1>13, <1>14, <1>15, <1>16, <1>17, <1>18
        DEF Next, Network, Send, Helper

-----------------------------------------------------------------------------
(* With sizes of chunks that mean something, every chunk is in the file,   *)
(* and without faults the session is what the client takes it to be        *)
(* (pushLayerContent).                                                     *)
THEOREM ChunksInvariance == ChunksAreMeaningful => (Spec => []IInv)
<1> SUFFICES ASSUME ChunksAreMeaningful PROVE Spec => []IInv
  OBVIOUS
<1>1. Init => IInv
  BY InitInv, InitChunk, InitSmooth DEF IInv
<1>2. IInv /\ [Next]_vars => IInv'
  BY NextInv, NextChunkRead, NextSmooth DEF IInv
<1> QED BY <1>1, <1>2, PTL DEF Spec

(* No chunk reaches beyond the file, the next one starts where the reader  *)
(* is, and the session never has a byte twice (pushLayerContent,           *)
(* client.go:520).                                                         *)
THEOREM UploadsAreSafe == ChunksAreMeaningful => (Spec => []UploadInvariant)
<1> SUFFICES ASSUME ChunksAreMeaningful PROVE Spec => []UploadInvariant
  OBVIOUS
<1>1. IInv => UploadInvariant
  <2> SUFFICES ASSUME IInv PROVE UploadInvariant
    OBVIOUS
  <2>1. chunk.start \in 0 .. config.size /\ chunk.end \in -1 .. config.size - 1
    BY ConfigFacts DEF IInv, Inv, Types, ChunkIsRead
  <2>2. step = "chunk" /\ net = "option" => read = chunk.start
    BY DEF IInv, ChunkIsRead
  <2>3. TypeOK
    BY <2>1, <2>2 DEF IInv, Inv, Types, TypeOK
  <2> QED BY <2>3 DEF IInv, Inv, UploadInvariant
<1> QED BY <1>1, ChunksInvariance, PTL

(* With no fault a blob in the store is pushed, whatever its size and      *)
(* however it is cut into chunks, unless the registry checks the ranges of *)
(* several chunks (client.go:543).                                         *)
THEOREM SmoothPushesSucceed == ChunksAreMeaningful => (Spec => []SmoothPushSucceeds)
<1> SUFFICES ASSUME ChunksAreMeaningful PROVE Spec => []SmoothPushSucceeds
  OBVIOUS
<1>1. IInv => SmoothPushSucceeds
  BY DEF IInv, Inv, Types, SmoothPush, Smooth, SmoothPushSucceeds
<1> QED BY <1>1, ChunksInvariance, PTL

=============================================================================
