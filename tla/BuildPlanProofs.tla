-------------------------- MODULE BuildPlanProofs --------------------------
(***************************************************************************)
(* Proofs about BuildPlan, for any command lines, Dockerfiles, images and  *)
(* number of builds.  First the types of what one build leaves to the      *)
(* next, and the root, which a build that may touch it gives back (Inv).   *)
(* Then the image, the failures and the IDs (Whole): the nodes of a stage  *)
(* leave the files it means, whichever layers were fetched, if the cache   *)
(* has the right layers; an ID tells the directives that its layer is made *)
(* of, so that what a build adds to the cache is right for all Dockerfiles;*)
(* the plan has the stages of the Dockerfile in order, each behind the     *)
(* images it copies from; and what is put aside is what it copies.         *)
(***************************************************************************)
EXTENDS BuildPlan, TLAPS, FiniteSetTheorems, NaturalsInduction, WellFoundedInduction

-----------------------------------------------------------------------------
(* The inductive invariant. *)

(* Steps of the Dockerfiles, and the FROM of images they copy from. *)
FileSteps == UNION {UNION {Range(r.file[i].steps) : i \in DOMAIN r.file} : r \in Requests}
CopySources == {s \in FileSteps : s.kind = "COPYFROM"}
PlanStep == FileSteps \cup {PullOf(s.from) : s \in CopySources}

(* What waits in a context: copies from the build context, and of files    *)
(* that another stage put aside.                                           *)
CopyOp == {s \in FileSteps : s.kind = "COPY"}
          \cup [kind : {"COPY"}, dst : File, src : Content \cup {NoFile}]
Context == [mem : FileSystem, copied : SUBSET File, disk : FileSystem,
            copyOps : Seq(CopyOp), mustScan : BOOLEAN]

IsCache(c) == \A id \in DOMAIN c : c[id] \in Seq(Layer) /\ Len(c[id]) <= 1

(* A plan has a stage for every stage of the Dockerfile so far, with steps *)
(* of its own.                                                             *)
IsStage(st) == st.steps \in Seq(PlanStep) /\ Len(st.steps) > 0
PlanType ==
    /\ plan = [stages |-> plan.stages, aliases |-> plan.aliases, dirs |-> plan.dirs]
    /\ \E S : plan.stages \in Seq(S)
    /\ \A i \in 1..Len(plan.stages) :
          /\ IsStage(plan.stages[i])
          /\ MadeBy(plan.stages[i].steps) \subseteq DirsMadeFor(request.file)
    /\ IsFiniteSet(plan.aliases)
    /\ \A a \in DOMAIN plan.dirs : plan.dirs[a] \subseteq File

(* What is processed, built or saved next is there. *)
Progress ==
    /\ phase = "process" => at <= Len(request.file) + 1 /\ Len(plan.stages) >= at - 1
    /\ phase = "build" => at <= Len(plan.stages)
    /\ phase = "save" => at <= Len(Names(request))

Stored ==
    /\ image \in Seq(Layer)
    /\ \A n \in DOMAIN manifests : manifests[n] \in Seq(Layer)
    /\ IsCache(cache)

(* Without leave to, a build does not touch the files in the root while it *)
(* runs, and makes no other directories there than the working directories *)
(* of its images.                                                          *)
RootIsUntouched ==
    phase # "idle" /\ ~request.modify =>
        /\ root = rootBefore /\ workDirs.before \subseteq workDirs.root
        /\ workDirs.root \ workDirs.before \subseteq DirsMadeFor(request.file)

Directories == workDirs = [root |-> workDirs.root, backup |-> workDirs.backup,
                           before |-> workDirs.before]

Inv == TypeOK /\ PlanType /\ Progress /\ Stored /\ Directories /\ RootIsUntouched /\ RootIsKept

-----------------------------------------------------------------------------
(* Numbers: induction over a set, and the greatest of some numbers.        *)

LEMMA Induction ==
    ASSUME NEW S, 0 \in S, \A n \in Nat : n \in S => n + 1 \in S
    PROVE  \A n \in Nat : n \in S
<1> SUFFICES ASSUME NEW k \in Nat, k \notin S PROVE FALSE
  OBVIOUS
<1> DEFINE T == {n \in Nat : n \notin S}
<1>1. T \subseteq Nat /\ T # {}
  OBVIOUS
<1>2. PICK x \in T : \A y \in T : <<y, x>> \notin OpToRel(<, Nat)
  BY <1>1, NatLessThanWellFounded, WFMin
<1>3. x \in Nat /\ x # 0 /\ x - 1 \in Nat /\ x - 1 < x
  OBVIOUS
<1>4. <<x - 1, x>> \in OpToRel(<, Nat)
  BY <1>3 DEF OpToRel
<1>5. x - 1 \in S
  BY <1>2, <1>3, <1>4
<1> QED BY <1>3, <1>5

LEMMA MaxFromZero ==
    ASSUME NEW n \in Nat, NEW T \in SUBSET (0..n), T # {}
    PROVE  Max(T) \in T /\ \A y \in T : Max(T) >= y
<1> DEFINE S == {k \in Nat : \A U \in SUBSET (0..k) :
                                U # {} => \E x \in U : \A y \in U : x >= y}
<1>1. 0 \in S
  <2>1. 0..0 = {0}
    OBVIOUS
  <2>2. \A U \in SUBSET {0} : U # {} => U = {0}
    OBVIOUS
  <2> QED BY <2>1, <2>2
<1>2. ASSUME NEW k \in Nat, k \in S
      PROVE  k + 1 \in S
  <2> SUFFICES ASSUME NEW U \in SUBSET (0..(k + 1)), U # {}
               PROVE  \E x \in U : \A y \in U : x >= y
    OBVIOUS
  <2>1. CASE k + 1 \in U
    BY <2>1
  <2>2. CASE k + 1 \notin U
    <3>1. U \in SUBSET (0..k)
      BY <2>2
    <3> QED BY <1>2, <3>1
  <2> QED BY <2>1, <2>2
<1> HIDE DEF S
<1>3. n \in S
  BY <1>1, <1>2, Induction
<1>4. \E x \in T : \A y \in T : x >= y
  BY <1>3 DEF S
<1> QED BY <1>4 DEF Max

LEMMA MaxFacts ==
    ASSUME NEW n \in Nat, NEW T \in SUBSET (1..n), T # {}
    PROVE  Max(T) \in T /\ \A y \in T : Max(T) >= y
<1>1. 1..n \subseteq 0..n
  OBVIOUS
<1>2. T \in SUBSET (0..n)
  BY <1>1
<1> QED BY <1>2, MaxFromZero

-----------------------------------------------------------------------------
(* Layers over a file system.                                              *)

With(layers, f) == {i \in DOMAIN layers : f \in DOMAIN layers[i]}

LEMMA WithFacts ==
    ASSUME NEW layers \in Seq(Layer), NEW f
    PROVE  /\ With(layers, f) \in SUBSET (1..Len(layers))
           /\ With(layers, f) # {} => /\ Max(With(layers, f)) \in With(layers, f)
                                      /\ \A i \in With(layers, f) : Max(With(layers, f)) >= i
<1>1. With(layers, f) \in SUBSET (1..Len(layers)) /\ Len(layers) \in Nat
  BY DEF With
<1> QED BY <1>1, MaxFacts

LEMMA LayerFacts ==
    ASSUME NEW layer \in Layer
    PROVE  DOMAIN layer \subseteq File /\ \A f \in DOMAIN layer : layer[f] \in Content \cup {NoFile}
BY DEF Layer

LEMMA ApplyIs ==
    ASSUME NEW fs, NEW layers
    PROVE  ApplyLayers(fs, layers) =
              [f \in File |-> IF With(layers, f) = {} THEN fs[f]
                              ELSE layers[Max(With(layers, f))][f]]
BY DEF ApplyLayers, With

LEMMA ApplyType ==
    ASSUME NEW fs \in FileSystem, NEW layers \in Seq(Layer)
    PROVE  ApplyLayers(fs, layers) \in FileSystem
<1>1. ASSUME NEW f \in File, With(layers, f) # {}
      PROVE  layers[Max(With(layers, f))][f] \in Content \cup {NoFile}
  <2>1. Max(With(layers, f)) \in With(layers, f)
    BY <1>1, WithFacts
  <2> DEFINE i == Max(With(layers, f))
  <2> HIDE DEF i
  <2>2. i \in DOMAIN layers /\ f \in DOMAIN layers[i]
    BY <2>1 DEF With, i
  <2>3. layers[i] \in Layer
    BY <2>2
  <2> QED BY <2>2, <2>3, LayerFacts DEF i
<1> QED BY <1>1, ApplyIs DEF FileSystem

LEMMA EmptyType == EmptyFS \in FileSystem
BY DEF EmptyFS, FileSystem

-----------------------------------------------------------------------------
(* The layers of all nodes.                                                *)

Joined(flatten, seqs, i) == IF i = 1 THEN seqs[i] ELSE flatten[i - 1] \o seqs[i]
Flattened(seqs) == CHOOSE flatten : flatten = [i \in 1..Len(seqs) |-> Joined(flatten, seqs, i)]

LEMMA FlattenIs ==
    ASSUME NEW seqs
    PROVE  FlattenSeq(seqs) = IF Len(seqs) = 0 THEN seqs ELSE Flattened(seqs)[Len(seqs)]
BY DEF FlattenSeq, Flattened, Joined

LEMMA FlattenedIs ==
    ASSUME NEW T, NEW seqs \in Seq(T)
    PROVE  Flattened(seqs) = [i \in 1..Len(seqs) |-> Joined(Flattened(seqs), seqs, i)]
<1> DEFINE Recursive(g, n) == g = [i \in 1..n |-> Joined(g, seqs, i)]
           S == {n \in Nat : \E g : Recursive(g, n)}
<1>1. 0 \in S
  <2>1. Recursive([i \in 1..0 |-> {}], 0)
    OBVIOUS
  <2> HIDE DEF Recursive
  <2> QED BY <2>1
<1>2. ASSUME NEW n \in Nat, n \in S
      PROVE  n + 1 \in S
  <2>1. PICK g : g = [i \in 1..n |-> Joined(g, seqs, i)]
    BY <1>2
  <2> DEFINE h == [i \in 1..(n + 1) |-> Joined(g, seqs, i)]
  <2>2. \A i \in 1..n : h[i] = g[i]
    BY <2>1
  <2>3. ASSUME NEW i \in 1..(n + 1) PROVE Joined(g, seqs, i) = Joined(h, seqs, i)
    <3>1. i # 1 => i - 1 \in 1..n
      OBVIOUS
    <3>2. i # 1 => h[i - 1] = g[i - 1]
      BY <2>2, <3>1
    <3> HIDE DEF h
    <3> QED BY <3>2 DEF Joined
  <2>4. Recursive(h, n + 1)
    BY <2>2, <2>3
  <2> HIDE DEF Recursive
  <2> QED BY <2>4
<1> HIDE DEF S
<1>3. Len(seqs) \in S
  BY <1>1, <1>2, Induction
<1>4. \E g : Recursive(g, Len(seqs))
  BY <1>3 DEF S
<1> QED BY <1>4 DEF Flattened

LEMMA FlattenType ==
    ASSUME NEW T, NEW seqs \in Seq(Seq(T))
    PROVE  FlattenSeq(seqs) \in Seq(T)
<1> DEFINE flat == Flattened(seqs)
           S == {n \in Nat : n \in 1..Len(seqs) => flat[n] \in Seq(T)}
<1>1. flat = [i \in 1..Len(seqs) |-> Joined(flat, seqs, i)]
  BY FlattenedIs
<1>2. \A i \in 1..Len(seqs) : seqs[i] \in Seq(T)
  OBVIOUS
<1> HIDE DEF flat
<1>3. 0 \in S
  OBVIOUS
<1>4. ASSUME NEW n \in Nat, n \in S
      PROVE  n + 1 \in S
  <2> SUFFICES ASSUME n + 1 \in 1..Len(seqs) PROVE flat[n + 1] \in Seq(T)
    OBVIOUS
  <2>1. Joined(flat, seqs, n + 1) = IF n + 1 = 1 THEN seqs[n + 1] ELSE flat[n] \o seqs[n + 1]
    <3>1. (n + 1) - 1 = n
      OBVIOUS
    <3> QED BY <3>1 DEF Joined
  <2>2. flat[n + 1] = Joined(flat, seqs, n + 1)
    BY <1>1
  <2>3. n + 1 # 1 => flat[n] \in Seq(T)
    <3>1. n + 1 # 1 => n \in 1..Len(seqs)
      OBVIOUS
    <3> QED BY <1>4, <3>1
  <2>4. seqs[n + 1] \in Seq(T)
    BY <1>2
  <2>5. n + 1 # 1 => flat[n] \o seqs[n + 1] \in Seq(T)
    BY <2>3, <2>4
  <2> QED BY <2>1, <2>2, <2>4, <2>5
<1> HIDE DEF S
<1>5. \A n \in Nat : n \in S
  BY <1>3, <1>4, Induction
<1>6. Len(seqs) # 0 => flat[Len(seqs)] \in Seq(T)
  <2>1. Len(seqs) \in Nat
    OBVIOUS
  <2> QED BY <1>5, <2>1 DEF S
<1>7. Len(seqs) = 0 => FlattenSeq(seqs) \in Seq(T)
  <2>1. Len(seqs) = 0 => seqs = <<>> /\ <<>> \in Seq(T)
    OBVIOUS
  <2> QED BY <2>1, FlattenIs
<1> QED BY <1>6, <1>7, FlattenIs DEF flat

-----------------------------------------------------------------------------
(* Steps, and what they do to a context.                                   *)

LEMMA FileFacts ==
    ASSUME NEW r \in Requests
    PROVE  /\ Len(r.file) \in Nat /\ Len(r.file) > 0 /\ DOMAIN r.file = 1..Len(r.file)
           /\ \A i \in 1..Len(r.file) : /\ IsStage(r.file[i])
                                        /\ Range(r.file[i].steps) \subseteq FileSteps
<1>1. r.file \in Seq(Range(r.file)) /\ Len(r.file) > 0
  BY RequestAssumption
<1>2. ASSUME NEW i \in 1..Len(r.file)
      PROVE  IsStage(r.file[i]) /\ Range(r.file[i].steps) \subseteq FileSteps
  <2> DEFINE steps == r.file[i].steps
  <2>1. i \in DOMAIN r.file
    BY <1>1
  <2>2. steps \in Seq(Range(steps)) /\ Len(steps) > 0
    <3>1. steps \in Seq(Step) /\ Len(steps) > 0
      BY <2>1, StepAssumption
    <3> HIDE DEF steps
    <3> QED BY <3>1 DEF Range
  <2>3. Range(steps) \subseteq FileSteps
    BY <2>1 DEF FileSteps
  <2> HIDE DEF steps
  <2>4. steps \in Seq(PlanStep)
    BY <2>2, <2>3 DEF PlanStep
  <2> QED BY <2>2, <2>3, <2>4 DEF IsStage, steps
<1> QED BY <1>1, <1>2

LEMMA FileStepFacts ==
    ASSUME NEW s \in FileSteps
    PROVE  /\ s \in Step
           /\ s.kind \in {"FROM", "COPY", "RUN", "COPYFROM"}
           /\ s.kind # "FROM" => s.dst \in File
           /\ s.kind = "COPY" => s.src \in Content
           /\ s.kind \in {"RUN", "COPYFROM"} => s.src \in File
<1>1. PICK r \in Requests : \E i \in DOMAIN r.file : s \in Range(r.file[i].steps)
  BY DEF FileSteps
<1>2. PICK i \in DOMAIN r.file : \E n \in DOMAIN r.file[i].steps : s = r.file[i].steps[n]
  BY <1>1 DEF Range
<1>3. s \in Step
  <2>1. r.file[i].steps \in Seq(Step)
    BY <1>2, StepAssumption
  <2> QED BY <1>2, <2>1
<1> QED BY <1>3 DEF Step, FromStep, CopyStep, RunStep, CopyFromStep

LEMMA LayersOfType ==
    ASSUME NEW name
    PROVE  LayersOf(name) \in Seq(Layer)
<1>1. <<>> \in Seq(Layer)
  OBVIOUS
<1> QED BY <1>1, RegistryAssumption DEF LayersOf

(* A step with what it finds in it. *)
Found == [kind : {"FROM"}, layers : Seq(Layer)] \cup CopyOp \cup {s \in FileSteps : s.kind = "RUN"}

LEMMA CopyOpFacts ==
    ASSUME NEW s \in CopyOp
    PROVE  s.kind = "COPY" /\ s.dst \in File /\ s.src \in Content \cup {NoFile}
BY FileStepFacts DEF CopyOp

LEMMA ResolvedType ==
    ASSUME NEW s \in PlanStep, \A a \in DOMAIN stagesDir : stagesDir[a] \in Layer
    PROVE  Resolved(s) \in Found
<1>1. CASE s.kind = "FROM"
  BY <1>1, LayersOfType DEF Resolved, Found
<1>2. CASE s.kind = "COPYFROM"
  <2>1. s \in FileSteps
    BY <1>2 DEF PlanStep, PullOf
  <2>2. s.dst \in File /\ (Finds(s) => stagesDir[s.from][s.src] \in Content \cup {NoFile})
    BY <1>2, <2>1, FileStepFacts, LayerFacts DEF Finds
  <2>3. Resolved(s) \in [kind : {"COPY"}, dst : File, src : Content \cup {NoFile}]
    BY <1>2, <2>2 DEF Resolved
  <2> QED BY <2>3 DEF Found, CopyOp
<1>3. CASE s.kind \notin {"FROM", "COPYFROM"}
  <2>1. s \in FileSteps /\ Resolved(s) = s
    BY <1>3 DEF PlanStep, PullOf, Resolved
  <2> QED BY <1>3, <2>1, FileStepFacts DEF Found, CopyOp
<1> QED BY <1>1, <1>2, <1>3

LEMMA EffectType ==
    ASSUME NEW fs \in FileSystem, NEW s \in Found
    PROVE  Effect(fs, s) \in FileSystem
<1>1. CASE s \in [kind : {"FROM"}, layers : Seq(Layer)]
  <2>1. Effect(fs, s) = ApplyLayers(fs, s.layers) /\ s.layers \in Seq(Layer)
    BY <1>1 DEF Effect
  <2> QED BY <2>1, ApplyType
<1>2. CASE s \in CopyOp
  <2>1. Effect(fs, s) = [fs EXCEPT ![s.dst] = s.src] /\ s.src \in Content \cup {NoFile}
    BY <1>2, CopyOpFacts DEF Effect
  <2> QED BY <2>1 DEF FileSystem
<1>3. CASE s \in FileSteps /\ s.kind = "RUN"
  <2>1. Effect(fs, s) = [fs EXCEPT ![s.dst] = fs[s.src]] /\ s.src \in File
    BY <1>3, FileStepFacts DEF Effect
  <2> QED BY <2>1 DEF FileSystem
<1> QED BY <1>1, <1>2, <1>3 DEF Found

LEMMA ExecuteType ==
    ASSUME NEW c \in Context, NEW s \in Found, NEW onDisk \in BOOLEAN
    PROVE  /\ Execute(c, s, onDisk) \in Context
           /\ ~onDisk => Execute(c, s, onDisk).disk = c.disk
<1> DEFINE disk == IF onDisk THEN Effect(c.disk, s) ELSE c.disk
<1>1. /\ c.mem \in FileSystem /\ c.disk \in FileSystem
      /\ c.copyOps \in Seq(CopyOp) /\ c.mustScan \in BOOLEAN /\ c.copied \in SUBSET File
      /\ c = [mem |-> c.mem, copied |-> c.copied, disk |-> c.disk, copyOps |-> c.copyOps,
              mustScan |-> c.mustScan]
  BY DEF Context
<1>2. disk \in FileSystem /\ Effect(c.mem, s) \in FileSystem
  BY <1>1, EffectType
<1>3. CASE s.kind = "FROM"
  <2>1. Execute(c, s, onDisk) = [mem |-> Effect(c.mem, s), copied |-> c.copied, disk |-> disk,
                                 copyOps |-> c.copyOps, mustScan |-> c.mustScan]
    BY <1>1, <1>3 DEF Execute
  <2> QED BY <1>1, <1>2, <2>1 DEF Context
<1>4. CASE s.kind = "COPY"
  <2>1. Execute(c, s, onDisk) = [mem |-> c.mem, copied |-> c.copied, disk |-> disk,
                                 copyOps |-> Append(c.copyOps, s), mustScan |-> c.mustScan]
    BY <1>1, <1>4 DEF Execute
  <2>2. s \in CopyOp
    BY <1>4 DEF Found
  <2>3. Append(c.copyOps, s) \in Seq(CopyOp)
    BY <1>1, <2>2
  <2> QED BY <1>1, <1>2, <2>1, <2>3 DEF Context
<1>5. CASE s.kind = "RUN"
  <2>1. Execute(c, s, onDisk) = [mem |-> c.mem, copied |-> c.copied, disk |-> disk,
                                 copyOps |-> c.copyOps, mustScan |-> TRUE]
    BY <1>1, <1>5 DEF Execute
  <2> QED BY <1>1, <1>2, <2>1 DEF Context
<1>6. s.kind \in {"FROM", "COPY", "RUN"}
  BY CopyOpFacts DEF Found
<1> QED BY <1>3, <1>4, <1>5, <1>6

LEMMA CachedType ==
    ASSUME NEW c \in Context, NEW layers \in Seq(Layer), NEW onDisk \in BOOLEAN
    PROVE  /\ ApplyCached(c, layers, onDisk) \in Context
           /\ ~onDisk => ApplyCached(c, layers, onDisk).disk = c.disk
<1> DEFINE disk == IF onDisk THEN ApplyLayers(c.disk, layers) ELSE c.disk
           copied == {f \in c.copied : ApplyLayers(c.mem, layers)[f] = c.mem[f]}
<1>1. /\ c.mem \in FileSystem /\ c.disk \in FileSystem /\ c.copied \in SUBSET File
      /\ c = [mem |-> c.mem, copied |-> c.copied, disk |-> c.disk, copyOps |-> c.copyOps,
              mustScan |-> c.mustScan]
  BY DEF Context
<1>2. ApplyLayers(c.mem, layers) \in FileSystem /\ disk \in FileSystem
  BY <1>1, ApplyType
<1>3. copied \in SUBSET File /\ copied \subseteq c.copied
  BY <1>1
<1>4. ApplyCached(c, layers, onDisk) = [mem |-> ApplyLayers(c.mem, layers), copied |-> copied,
                                        disk |-> disk, copyOps |-> c.copyOps, mustScan |-> c.mustScan]
  <2>1. ApplyCached(c, layers, onDisk) =
           [c EXCEPT !.mem = ApplyLayers(c.mem, layers), !.copied = copied, !.disk = disk]
    BY DEF ApplyCached
  <2> HIDE DEF disk, copied
  <2> QED BY <1>1, <2>1
<1> HIDE DEF copied
<1> QED BY <1>2, <1>3, <1>4 DEF Context

LEMMA NewLayersType ==
    ASSUME NEW c \in Context, NEW s \in Found
    PROVE  NewLayers(c, s) \in Seq(Layer)
<1>1. CASE s.kind = "FROM"
  <2>1. NewLayers(c, s) = s.layers /\ s.layers \in Seq(Layer)
    BY <1>1, CopyOpFacts DEF NewLayers, Found
  <2> QED BY <2>1
<1>2. CASE s.kind # "FROM" /\ c.mustScan
  <2> DEFINE changed == {f \in File : c.disk[f] # c.mem[f] /\ (c.disk[f] = NoFile => f \notin c.copied)}
  <2>1. LayerByScan(c) \in [changed -> Content \cup {NoFile}]
    BY DEF LayerByScan, Context, FileSystem
  <2>2. LayerByScan(c) \in Layer
    BY <2>1 DEF Layer
  <2> QED BY <1>2, <2>2 DEF NewLayers
<1>3. CASE s.kind # "FROM" /\ ~c.mustScan /\ c.copyOps # <<>>
  <2> DEFINE CopiesTo(f) == {i \in DOMAIN c.copyOps : c.copyOps[i].dst = f}
             changed == {f \in File : \E i \in CopiesTo(f) : c.copyOps[i].src # c.mem[f]}
  <2>1. c.copyOps \in Seq(CopyOp)
    BY DEF Context
  <2>2. ASSUME NEW f \in changed
        PROVE  c.copyOps[Max(CopiesTo(f))].src \in Content \cup {NoFile}
    <3>1. CopiesTo(f) \in SUBSET (1..Len(c.copyOps)) /\ CopiesTo(f) # {} /\ Len(c.copyOps) \in Nat
      BY <2>1
    <3>2. Max(CopiesTo(f)) \in 1..Len(c.copyOps)
      BY <3>1, MaxFacts
    <3>3. \A i \in 1..Len(c.copyOps) : c.copyOps[i] \in CopyOp
      BY <2>1
    <3> HIDE DEF CopiesTo
    <3> QED BY <3>2, <3>3, CopyOpFacts
  <2>3. LayerByCopyOps(c) = [f \in changed |-> c.copyOps[Max(CopiesTo(f))].src]
    BY DEF LayerByCopyOps
  <2> HIDE DEF CopiesTo
  <2>4. LayerByCopyOps(c) \in [changed -> Content \cup {NoFile}]
    BY <2>2, <2>3
  <2>5. LayerByCopyOps(c) \in Layer
    BY <2>4 DEF Layer
  <2> QED BY <1>3, <2>5 DEF NewLayers
<1>4. CASE s.kind # "FROM" /\ ~c.mustScan /\ c.copyOps = <<>>
  BY <1>4 DEF NewLayers
<1>5. c.mustScan \in BOOLEAN
  BY DEF Context
<1> QED BY <1>1, <1>2, <1>3, <1>4, <1>5

LEMMA CommittedType ==
    ASSUME NEW c \in Context, NEW s \in Found
    PROVE  /\ Committed(c, s) \in Context /\ Committed(c, s).disk = c.disk
           /\ \A f \in Committed(c, s).copied :
                 f \in c.copied \/ \E i \in DOMAIN c.copyOps : c.copyOps[i].dst = f
<1> DEFINE copied == IF c.mustScan THEN c.copied \ DOMAIN LayerByScan(c)
                     ELSE c.copied \cup DOMAIN LayerByCopyOps(c)
<1>0. /\ copied \in SUBSET File
      /\ \A f \in copied : f \in c.copied \/ \E i \in DOMAIN c.copyOps : c.copyOps[i].dst = f
  <2>1. c.copied \in SUBSET File
    BY DEF Context
  <2> QED BY <2>1 DEF LayerByCopyOps
<1>1. CASE s.kind = "FROM" \/ NewLayers(c, s) = <<>>
  BY <1>1 DEF Committed
<1>2. CASE ~(s.kind = "FROM" \/ NewLayers(c, s) = <<>>)
  <2>1. c.mem \in FileSystem /\ c.disk \in FileSystem /\ <<>> \in Seq(CopyOp)
    BY DEF Context
  <2>2. ApplyLayers(c.mem, NewLayers(c, s)) \in FileSystem
    BY <2>1, NewLayersType, ApplyType
  <2>3. Committed(c, s) = [mem |-> ApplyLayers(c.mem, NewLayers(c, s)), copied |-> copied,
                           disk |-> c.disk, copyOps |-> <<>>, mustScan |-> FALSE]
    <3>1. Committed(c, s) = [c EXCEPT !.mem = ApplyLayers(c.mem, NewLayers(c, s)),
                                      !.copied = copied, !.copyOps = <<>>, !.mustScan = FALSE]
      BY <1>2 DEF Committed
    <3> HIDE DEF copied
    <3> QED BY <3>1 DEF Context
  <2> HIDE DEF copied
  <2> QED BY <1>0, <2>1, <2>2, <2>3 DEF Context
<1> QED BY <1>1, <1>2

-----------------------------------------------------------------------------
(* The nodes of a stage.                                                   *)

IsBuilt(st, b) ==
    /\ b = [ctx |-> b.ctx, pairs |-> b.pairs, cache |-> b.cache]
    /\ b.ctx \in Context
    /\ b.pairs \in [1..Len(st.steps) -> Seq(Layer)]
    /\ IsCache(b.cache)

LEMMA ModifyType ==
    ASSUME NEW st
    PROVE  ModifyFS(plan, st) \in BOOLEAN
BY DEF ModifyFS

LEMMA PushedType ==
    ASSUME NEW st, NEW b, IsBuilt(st, b), NEW id, NEW layers \in Seq(Layer)
    PROVE  IsCache(Pushed(b, id, layers))
<1>1. Len(layers) \in Nat
  OBVIOUS
<1>2. ASSUME Len(layers) <= 1
      PROVE  IsCache(Updated(b.cache, One(id, layers)))
  BY <1>2 DEF Updated, One, IsCache, IsBuilt
<1> QED BY <1>1, <1>2 DEF Pushed, IsBuilt

(* A node keeps the types, and without leave to it does not touch the disk.*)
LEMMA NodeType ==
    ASSUME NEW st, IsStage(st), NEW b, IsBuilt(st, b), NEW n \in 1..Len(st.steps),
           \A a \in DOMAIN stagesDir : stagesDir[a] \in Layer
    PROVE  /\ IsBuilt(st, BuildNode(st, b, n))
           /\ ~ModifyFS(plan, st) => BuildNode(st, b, n).ctx.disk = b.ctx.disk
<1> DEFINE onDisk == ModifyFS(plan, st)
           step == Resolved(st.steps[n])
           executed == Execute(b.ctx, step, onDisk)
           layers == NewLayers(executed, step)
           cached == ApplyCached(b.ctx, b.pairs[n], onDisk)
           last == at = Len(plan.stages)
<1>1. /\ b.ctx \in Context /\ b.pairs \in [1..Len(st.steps) -> Seq(Layer)]
      /\ b = [ctx |-> b.ctx, pairs |-> b.pairs, cache |-> b.cache] /\ IsCache(b.cache)
  BY DEF IsBuilt
<1>2. onDisk \in BOOLEAN
  BY ModifyType
<1>3. step \in Found
  <2>1. st.steps[n] \in PlanStep
    BY DEF IsStage
  <2> QED BY <2>1, ResolvedType
<1> HIDE DEF step
<1>4. executed \in Context /\ (~onDisk => executed.disk = b.ctx.disk)
  BY <1>1, <1>2, <1>3, ExecuteType
<1>5. cached \in Context /\ (~onDisk => cached.disk = b.ctx.disk)
  BY <1>1, <1>2, CachedType
<1> HIDE DEF executed
<1>6. /\ layers \in Seq(Layer) /\ Committed(executed, step) \in Context
      /\ Committed(executed, step).disk = executed.disk
  BY <1>3, <1>4, NewLayersType, CommittedType
<1>7. CASE b.pairs[n] # <<>>
  <2>1. BuildNode(st, b, n) = [b EXCEPT !.ctx = ApplyCached(b.ctx, b.pairs[n], ModifyFS(plan, st))]
    BY <1>7 DEF BuildNode, Runs
  <2>2. BuildNode(st, b, n) = [ctx |-> cached, pairs |-> b.pairs, cache |-> b.cache]
    BY <1>1, <2>1
  <2> HIDE DEF cached
  <2> QED BY <1>1, <1>5, <2>2 DEF IsBuilt
<1>8. CASE ~Runs(st, b, n) /\ b.pairs[n] = <<>>
  BY <1>8 DEF BuildNode
<1>9. CASE Runs(st, b, n) /\ b.pairs[n] = <<>> /\ ~MustCommit(st.steps, n, last, st.force)
  <2>1. BuildNode(st, b, n) = [b EXCEPT !.ctx = executed]
    BY <1>9 DEF BuildNode, executed, step
  <2>2. BuildNode(st, b, n) = [ctx |-> executed, pairs |-> b.pairs, cache |-> b.cache]
    BY <1>1, <2>1
  <2> QED BY <1>1, <1>4, <2>2 DEF IsBuilt
<1>10. CASE Runs(st, b, n) /\ b.pairs[n] = <<>> /\ MustCommit(st.steps, n, last, st.force)
  <2>1. BuildNode(st, b, n) = [ctx |-> Committed(executed, step),
                               pairs |-> [b.pairs EXCEPT ![n] = layers],
                               cache |-> Pushed(b, st.ids[n], layers)]
    BY <1>10 DEF BuildNode, executed, step
  <2>2. IsCache(Pushed(b, st.ids[n], layers))
    BY <1>6, PushedType
  <2>3. [b.pairs EXCEPT ![n] = layers] \in [1..Len(st.steps) -> Seq(Layer)]
    BY <1>1, <1>6
  <2> HIDE DEF layers
  <2> QED BY <1>4, <1>6, <2>1, <2>2, <2>3 DEF IsBuilt
<1> QED BY <1>7, <1>8, <1>9, <1>10

Nodes(st, j) == CHOOSE built : built = [k \in 0..Len(st.steps) |->
                    IF k = 0 THEN NoNodeBuilt(st, j) ELSE BuildNode(st, built[k - 1], k)]

LEMMA NodesIs ==
    ASSUME NEW st, IsStage(st), NEW j
    PROVE  Nodes(st, j) = [k \in 0..Len(st.steps) |->
                IF k = 0 THEN NoNodeBuilt(st, j) ELSE BuildNode(st, Nodes(st, j)[k - 1], k)]
<1> DEFINE Recursive(g, n) == g = [k \in 0..n |->
                IF k = 0 THEN NoNodeBuilt(st, j) ELSE BuildNode(st, g[k - 1], k)]
           S == {n \in Nat : \E g : Recursive(g, n)}
<1>1. 0 \in S
  <2>1. Recursive([k \in 0..0 |-> NoNodeBuilt(st, j)], 0)
    OBVIOUS
  <2> HIDE DEF Recursive
  <2> QED BY <2>1
<1>2. ASSUME NEW n \in Nat, n \in S
      PROVE  n + 1 \in S
  <2>1. PICK g : g = [k \in 0..n |-> IF k = 0 THEN NoNodeBuilt(st, j) ELSE BuildNode(st, g[k - 1], k)]
    BY <1>2
  <2> DEFINE h == [k \in 0..(n + 1) |->
                      IF k = 0 THEN NoNodeBuilt(st, j) ELSE BuildNode(st, g[k - 1], k)]
  <2>2. \A k \in 0..n : h[k] = g[k]
    BY <2>1
  <2>3. \A k \in 0..(n + 1) : k # 0 => k - 1 \in 0..n
    OBVIOUS
  <2>4. Recursive(h, n + 1)
    BY <2>2, <2>3
  <2> HIDE DEF Recursive
  <2> QED BY <2>4
<1> HIDE DEF S
<1>3. Len(st.steps) \in Nat
  BY DEF IsStage
<1>4. Len(st.steps) \in S
  BY <1>1, <1>2, <1>3, Induction
<1>5. \E g : Recursive(g, Len(st.steps))
  BY <1>4 DEF S
<1> QED BY <1>5 DEF Nodes

LEMMA BuildNodesFacts ==
    ASSUME NEW st, IsStage(st), NEW j
    PROVE  /\ BuildNodes(st, j, 0) = NoNodeBuilt(st, j)
           /\ \A n \in 1..Len(st.steps) :
                 BuildNodes(st, j, n) = BuildNode(st, BuildNodes(st, j, n - 1), n)
<1>1. \A n : BuildNodes(st, j, n) = Nodes(st, j)[n]
  BY DEF BuildNodes, Nodes
<1>2. Len(st.steps) \in Nat /\ 0 \in 0..Len(st.steps)
  BY DEF IsStage
<1>3. \A n \in 1..Len(st.steps) : n \in 0..Len(st.steps) /\ n # 0
  BY <1>2
<1> QED BY <1>1, <1>2, <1>3, NodesIs

LEMMA NoNodeType ==
    ASSUME NEW st, IsStage(st), NEW j \in Nat, CanFetch(st, j),
           IsCache(cache), root \in FileSystem
    PROVE  IsBuilt(st, NoNodeBuilt(st, j)) /\ NoNodeBuilt(st, j).ctx.disk = root
<1>1. NewContext(root) \in Context /\ NewContext(root).disk = root
  <2>1. <<>> \in Seq(CopyOp) /\ {} \in SUBSET File
    OBVIOUS
  <2> QED BY <2>1, EmptyType DEF NewContext, Context
<1>2. Fetched(st, j) \in [1..Len(st.steps) -> Seq(Layer)]
  <2>1. DOMAIN st.steps = 1..Len(st.steps) /\ <<>> \in Seq(Layer)
    BY DEF IsStage
  <2>2. ASSUME NEW n \in 1..Len(st.steps), n <= j, Fetches(st, n)
        PROVE  cache[st.ids[n]] \in Seq(Layer)
    <3>1. n \in 1..j
      BY <2>2
    <3>2. st.ids[n] \in DOMAIN cache
      BY <2>2, <3>1 DEF CanFetch
    <3> QED BY <3>2 DEF IsCache
  <2> QED BY <2>1, <2>2 DEF Fetched
<1> QED BY <1>1, <1>2 DEF IsBuilt, NoNodeBuilt

LEMMA NodesType ==
    ASSUME NEW st, IsStage(st), NEW j \in Nat, CanFetch(st, j),
           IsCache(cache), root \in FileSystem,
           \A a \in DOMAIN stagesDir : stagesDir[a] \in Layer
    PROVE  \A n \in 0..Len(st.steps) :
              /\ IsBuilt(st, BuildNodes(st, j, n))
              /\ ~ModifyFS(plan, st) => BuildNodes(st, j, n).ctx.disk = root
<1> DEFINE Right(n) == /\ IsBuilt(st, BuildNodes(st, j, n))
                       /\ ~ModifyFS(plan, st) => BuildNodes(st, j, n).ctx.disk = root
           S == {n \in Nat : n <= Len(st.steps) => Right(n)}
<1>1. 0 \in S
  BY BuildNodesFacts, NoNodeType
<1>2. ASSUME NEW n \in Nat, n \in S
      PROVE  n + 1 \in S
  <2> SUFFICES ASSUME n + 1 <= Len(st.steps) PROVE Right(n + 1)
    OBVIOUS
  <2>1. Len(st.steps) \in Nat
    BY DEF IsStage
  <2>2. n + 1 \in 1..Len(st.steps) /\ (n + 1) - 1 = n /\ n <= Len(st.steps)
    BY <2>1
  <2>3. BuildNodes(st, j, n + 1) = BuildNode(st, BuildNodes(st, j, n), n + 1)
    BY <2>2, BuildNodesFacts
  <2>4. Right(n)
    BY <1>2, <2>2
  <2> QED BY <2>2, <2>3, <2>4, NodeType
<1> HIDE DEF S
<1>3. \A n \in Nat : n \in S
  BY <1>1, <1>2, Induction
<1>4. Len(st.steps) \in Nat
  BY DEF IsStage
<1> QED BY <1>3, <1>4 DEF S

-----------------------------------------------------------------------------
(* Numbers of stages and names. *)

LEMMA MaxOfThree ==
    ASSUME NEW x \in Nat, NEW y \in Nat, NEW z \in Nat
    PROVE  Max({x, y, z}) \in Nat /\ Max({x, y, z}) >= x /\ Max({x, y, z}) >= y /\ Max({x, y, z}) >= z
<1>1. x + y + z \in Nat /\ {x, y, z} \in SUBSET (0..(x + y + z)) /\ {x, y, z} # {}
  OBVIOUS
<1>2. Max({x, y, z}) \in {x, y, z} /\ \A v \in {x, y, z} : Max({x, y, z}) >= v
  BY <1>1, MaxFromZero
<1> QED BY <1>2

LEMMA NamesFacts ==
    ASSUME NEW r \in Requests
    PROVE  Len(Names(r)) \in Nat /\ Len(Names(r)) > 0
<1>1. r.replicas \in Seq(Range(r.replicas))
  BY RequestAssumption
<1> QED BY <1>1 DEF Names

BoundOf(p, r) == Max({Len(p.stages), Len(r.file), Len(Names(r))}) + 1

LEMMA BoundFacts ==
    ASSUME NEW p, Len(p.stages) \in Nat, NEW r \in Requests
    PROVE  /\ BoundOf(p, r) \in Nat /\ BoundOf(p, r) >= 1
           /\ BoundOf(p, r) > Len(p.stages)
           /\ BoundOf(p, r) > Len(r.file)
           /\ BoundOf(p, r) > Len(Names(r))
<1>1. Len(r.file) \in Nat /\ Len(Names(r)) \in Nat
  BY FileFacts, NamesFacts
<1> DEFINE max == Max({Len(p.stages), Len(r.file), Len(Names(r))})
<1>2. max \in Nat /\ max >= Len(p.stages) /\ max >= Len(r.file) /\ max >= Len(Names(r))
  BY <1>1, MaxOfThree
<1>3. BoundOf(p, r) = max + 1
  BY DEF BoundOf
<1> HIDE DEF max
<1> QED BY <1>1, <1>2, <1>3

LEMMA CopiedFinite ==
    ASSUME NEW st, IsStage(st)
    PROVE  IsFiniteSet(CopiedFrom(st))
<1> DEFINE D == {n \in DOMAIN st.steps : st.steps[n].kind = "COPYFROM"}
           from == [n \in D |-> st.steps[n].from]
<1>1. Len(st.steps) \in Nat /\ DOMAIN st.steps = 1..Len(st.steps)
  BY DEF IsStage
<1>2. IsFiniteSet(D)
  <2> DEFINE N == Len(st.steps)
  <2>1. D \in SUBSET (1..N)
    BY <1>1
  <2>2. 1 \in Int /\ N \in Int
    BY <1>1
  <2> HIDE DEF N, D
  <2>3. IsFiniteSet(1..N)
    BY <2>2, FS_Interval
  <2> QED BY <2>1, <2>3, FS_Subset
<1>3. \A name : name \in CopiedFrom(st) <=> \E n \in D : name = from[n]
  BY DEF CopiedFrom, CopiesOf, Range
<1>4. from \in Surjection(D, CopiedFrom(st))
  BY <1>3 DEF Surjection
<1> QED BY <1>2, <1>4, FS_Surjection

-----------------------------------------------------------------------------
(* A stage of the Dockerfile joins the plan. *)

LEMMA DirsType ==
    ASSUME PlanType, NEW r \in Requests, NEW i \in 1..Len(r.file)
    PROVE  \A a \in DOMAIN MergeDirs(plan.dirs, r.file[i]) : MergeDirs(plan.dirs, r.file[i])[a] \subseteq File
<1> DEFINE stage == r.file[i]
           Old(a) == IF a \in DOMAIN plan.dirs THEN plan.dirs[a] ELSE {}
           new == [a \in CopiedFrom(stage) |-> Old(a) \cup DirsFrom(stage, a)]
<1>1. \A a : DirsFrom(stage, a) \subseteq File
  <2>1. \A s \in CopiesOf(stage) : s \in FileSteps /\ s.kind = "COPYFROM"
    BY FileFacts DEF CopiesOf
  <2> QED BY <2>1, FileStepFacts DEF DirsFrom
<1>2. \A a : Old(a) \subseteq File
  BY DEF PlanType
<1>3. \A a \in DOMAIN new : new[a] \subseteq File
  BY <1>1, <1>2
<1>4. MergeDirs(plan.dirs, stage) = Updated(plan.dirs, new)
  BY DEF MergeDirs
<1> HIDE DEF new, stage
<1>5. \A a \in DOMAIN Updated(plan.dirs, new) : Updated(plan.dirs, new)[a] \subseteq File
  BY <1>3 DEF Updated, PlanType
<1> QED BY <1>4, <1>5 DEF stage

LEMMA RemotesFacts ==
    ASSUME NEW r \in Requests, NEW i \in 1..Len(r.file), NEW aliases,
           NEW names \in SetToSeqs(CopiedFrom(r.file[i]) \ aliases)
    PROVE  \E N \in Nat : /\ DOMAIN names = 1..N
                          /\ \A k \in 1..N : \A seed :
                                /\ IsStage(RemoteImageStage(names[k], seed))
                                /\ MadeBy(RemoteImageStage(names[k], seed).steps) = {}
<1> DEFINE S == CopiedFrom(r.file[i]) \ aliases
           N == Cardinality(S)
<1>1. N \in Nat
  BY FileFacts, CopiedFinite, FS_Difference, FS_CardinalityType
<1>2. names \in [1..N -> S]
  BY DEF SetToSeqs
<1>3. ASSUME NEW k \in 1..N, NEW seed
      PROVE  /\ IsStage(RemoteImageStage(names[k], seed))
             /\ MadeBy(RemoteImageStage(names[k], seed).steps) = {}
  <2>1. names[k] \in CopiedFrom(r.file[i])
    BY <1>2
  <2>2. PICK s \in CopiesOf(r.file[i]) : names[k] = s.from
    BY <2>1 DEF CopiedFrom
  <2>3. s \in CopySources
    BY <2>2, FileFacts DEF CopiesOf, CopySources
  <2>4. PullOf(names[k]) \in PlanStep
    BY <2>2, <2>3 DEF PlanStep
  <2>5. RemoteImageStage(names[k], seed).steps = <<PullOf(names[k])>>
    BY DEF RemoteImageStage, PlanStage
  <2> QED BY <2>4, <2>5 DEF IsStage, MadeBy
<1> QED BY <1>1, <1>2, <1>3

LEMMA PlanGrows ==
    ASSUME PlanType, request \in Requests, at \in 1..Len(request.file), ProcessStage
    PROVE  /\ PlanType' /\ Len(plan.stages') > Len(plan.stages)
           /\ Len(plan.stages) >= Cardinality(plan.aliases) =>
                 Len(plan.stages') >= Cardinality(plan.aliases')
<1> DEFINE parsed == request.file[at]
           alias == AliasOf(request.file, at)
           aliases == plan.aliases \cup {alias}
           stage == PlanStage(alias, parsed.steps, SeedFor(plan, request), request.force)
           dirs == MergeDirs(plan.dirs, parsed)
           withDirs == [plan EXCEPT !.aliases = aliases, !.dirs = dirs]
<1>1. PICK names \in SetToSeqs(CopiedFrom(parsed) \ aliases) :
         plan' = AddStage(AddRemoteStages(withDirs, request, names), stage)
  BY DEF ProcessStage, ImagesAt, AliasesAt
<1> DEFINE SeedBefore(k) == SeedFor(withDirs, request) \o [j \in 1..(k - 1) |-> Hashed(PullOf(names[j]))]
           remotes == [k \in DOMAIN names |-> RemoteImageStage(names[k], SeedBefore(k))]
           stages == Append(plan.stages \o remotes, stage)
<1>2. plan = [stages |-> plan.stages, aliases |-> plan.aliases, dirs |-> plan.dirs]
  BY DEF PlanType
<1>3. withDirs = [stages |-> plan.stages, aliases |-> aliases, dirs |-> dirs]
  <2>1. withDirs = [[plan EXCEPT !.aliases = aliases] EXCEPT !.dirs = dirs]
    OBVIOUS
  <2> HIDE DEF aliases, dirs, withDirs
  <2>2. [plan EXCEPT !.aliases = aliases] = [stages |-> plan.stages, aliases |-> aliases, dirs |-> plan.dirs]
    BY <1>2
  <2> QED BY <2>1, <2>2
<1>4. plan' = [stages |-> stages, aliases |-> aliases, dirs |-> dirs]
  <2> HIDE DEF aliases, dirs, stage
  <2>1. AddRemoteStages(withDirs, request, names) =
           [withDirs EXCEPT !.stages = withDirs.stages \o remotes]
    BY DEF AddRemoteStages
  <2> HIDE DEF remotes
  <2>2. AddRemoteStages(withDirs, request, names) =
           [stages |-> plan.stages \o remotes, aliases |-> aliases, dirs |-> dirs]
    BY <1>3, <2>1
  <2>3. plan' = [AddRemoteStages(withDirs, request, names) EXCEPT !.stages =
                    Append(AddRemoteStages(withDirs, request, names).stages, stage)]
    BY <1>1 DEF AddStage
  <2> DEFINE before == plan.stages \o remotes
  <2> HIDE DEF before, withDirs
  <2>4. AddRemoteStages(withDirs, request, names) =
           [stages |-> before, aliases |-> aliases, dirs |-> dirs]
    BY <2>2 DEF before
  <2>5. plan' = [stages |-> Append(before, stage), aliases |-> aliases, dirs |-> dirs]
    BY <2>3, <2>4
  <2> QED BY <2>5 DEF before
<1> DEFINE made == DirsMadeFor(request.file)
<1>5. /\ IsStage(stage) /\ MadeBy(stage.steps) \subseteq made
      /\ \A a \in DOMAIN dirs : dirs[a] \subseteq File
  <2>1. stage.steps = request.file[at].steps /\ at \in DOMAIN request.file
    BY FileFacts DEF PlanStage
  <2> QED BY <2>1, FileFacts, DirsType DEF IsStage, DirsMadeFor
<1>6. PICK N \in Nat : /\ DOMAIN names = 1..N
                       /\ \A k \in 1..N : \A seed :
                             /\ IsStage(RemoteImageStage(names[k], seed))
                             /\ MadeBy(RemoteImageStage(names[k], seed).steps) = {}
  BY RemotesFacts
<1>7. /\ remotes = [k \in 1..N |-> remotes[k]]
      /\ \A k \in 1..N : IsStage(remotes[k]) /\ MadeBy(remotes[k].steps) \subseteq made
  BY <1>6
<1> HIDE DEF aliases, dirs, stage, remotes, made
<1>8. PICK S : plan.stages \in Seq(S)
  BY DEF PlanType
<1> DEFINE T == S \cup {remotes[k] : k \in 1..N} \cup {stage}
<1>9. plan.stages \in Seq(T)
  BY <1>8
<1>10. remotes \in Seq(T) /\ Len(remotes) = N
  <2>1. remotes \in [1..N -> T]
    BY <1>7
  <2> HIDE DEF T
  <2> QED BY <2>1
<1>11. stage \in T
  OBVIOUS
<1> HIDE DEF T
<1>12. /\ stages \in Seq(T) /\ Len(stages) = Len(plan.stages) + N + 1 /\ Len(plan.stages) \in Nat
       /\ \A i \in 1..Len(stages) : \/ i \in 1..Len(plan.stages) /\ stages[i] = plan.stages[i]
                                    \/ \E k \in 1..N : stages[i] = remotes[k]
                                    \/ stages[i] = stage
  <2>1. plan.stages \o remotes \in Seq(T) /\ Len(plan.stages \o remotes) = Len(plan.stages) + N
    BY <1>9, <1>10
  <2>2. ASSUME NEW i \in 1..(Len(plan.stages) + N)
        PROVE  \/ i \in 1..Len(plan.stages) /\ (plan.stages \o remotes)[i] = plan.stages[i]
               \/ \E k \in 1..N : (plan.stages \o remotes)[i] = remotes[k]
    <3> Len(plan.stages) \in Nat
      BY <1>9
    <3>1. CASE i <= Len(plan.stages)
      BY <1>9, <1>10, <3>1
    <3>2. CASE i > Len(plan.stages)
      <4>1. i - Len(plan.stages) \in 1..N /\ (plan.stages \o remotes)[i] = remotes[i - Len(plan.stages)]
        BY <1>9, <1>10, <3>2
      <4> QED BY <4>1
    <3>3. i <= Len(plan.stages) \/ i > Len(plan.stages)
      OBVIOUS
    <3> QED BY <3>1, <3>2, <3>3, Zenon
  <2> DEFINE before == plan.stages \o remotes
  <2> HIDE DEF before
  <2>3. /\ Append(before, stage) \in Seq(T) /\ Len(Append(before, stage)) = Len(before) + 1
        /\ \A i \in 1..(Len(before) + 1) :
              Append(before, stage)[i] = IF i = Len(before) + 1 THEN stage ELSE before[i]
    BY <1>11, <2>1 DEF before
  <2>4. Len(before) = Len(plan.stages) + N /\ Len(plan.stages) \in Nat
    BY <1>9, <2>1 DEF before
  <2>5. \A i \in 1..(Len(before) + 1) : i = Len(before) + 1 \/ i \in 1..(Len(plan.stages) + N)
    BY <2>4
  <2>6. stages = Append(before, stage)
    BY DEF before
  <2> HIDE DEF stages
  <2> QED BY <2>2, <2>3, <2>4, <2>5, <2>6 DEF before
<1> HIDE DEF stages
<1>13. \A i \in 1..Len(stages) : IsStage(stages[i]) /\ MadeBy(stages[i].steps) \subseteq made
  <2>1. \A i \in 1..Len(plan.stages) :
           IsStage(plan.stages[i]) /\ MadeBy(plan.stages[i].steps) \subseteq made
    BY DEF PlanType, made
  <2> QED BY <1>5, <1>7, <1>12, <2>1
<1>14. IsFiniteSet(plan.aliases) /\ Cardinality(plan.aliases) \in Nat
  BY FS_CardinalityType DEF PlanType
<1>15. IsFiniteSet(aliases) /\ Cardinality(aliases) <= Cardinality(plan.aliases) + 1
  <2>1. /\ IsFiniteSet(aliases)
        /\ Cardinality(aliases) = IF alias \in plan.aliases THEN Cardinality(plan.aliases)
                                  ELSE Cardinality(plan.aliases) + 1
    BY <1>14, FS_AddElement DEF aliases
  <2> QED BY <1>14, <2>1
<1>16. Cardinality(aliases) \in Nat
  BY <1>15, FS_CardinalityType
<1>17. /\ plan'.stages = stages /\ plan'.aliases = aliases /\ plan'.dirs = dirs
       /\ DirsMadeFor(request'.file) = made
  BY <1>4 DEF ProcessStage, made
<1>18. PlanType'
  BY <1>4, <1>5, <1>12, <1>13, <1>15, <1>17 DEF PlanType
<1>19. Len(stages) > Len(plan.stages)
  BY <1>12
<1>20. Len(plan.stages) >= Cardinality(plan.aliases) => Len(stages) >= Cardinality(aliases)
  BY <1>12, <1>14, <1>15, <1>16
<1> QED BY <1>17, <1>18, <1>19, <1>20

-----------------------------------------------------------------------------
(* The steps of a process. *)

(* The parts of TypeOK that the actions leave to other parts of Inv.       *)
LEMMA StoredTypes ==
    ASSUME NEW c, IsCache(c), NEW m, \A n \in DOMAIN m : m[n] \in Seq(Layer)
    PROVE  /\ \A id \in DOMAIN c : Len(c[id]) <= 1 /\ Range(c[id]) \subseteq Layer
           /\ \A n \in DOMAIN m : Range(m[n]) \subseteq Layer
<1>1. \A layers \in Seq(Layer) : Range(layers) \subseteq Layer
  BY DEF Range
<1> QED BY <1>1 DEF IsCache

LEMMA NoPlanFacts ==
    /\ NoPlan.stages = <<>> /\ NoPlan.aliases = {} /\ NoPlan.dirs = <<>>
    /\ Len(NoPlan.stages) = 0 /\ Cardinality(NoPlan.aliases) = 0
    /\ NoPlan = [stages |-> NoPlan.stages, aliases |-> NoPlan.aliases, dirs |-> NoPlan.dirs]
    /\ NoPlan.stages \in Seq({}) /\ IsFiniteSet(NoPlan.aliases)
    /\ DOMAIN NoPlan.dirs = {}
<1>1. NoPlan.stages = <<>> /\ NoPlan.aliases = {} /\ NoPlan.dirs = <<>>
  BY DEF NoPlan
<1>2. <<>> \in Seq({}) /\ Len(<<>>) = 0 /\ DOMAIN <<>> = {}
  OBVIOUS
<1>3. NoPlan = [stages |-> NoPlan.stages, aliases |-> NoPlan.aliases, dirs |-> NoPlan.dirs]
  BY DEF NoPlan
<1> QED BY <1>1, <1>2, <1>3, FS_EmptySet

LEMMA Initially == Init => Inv
<1> SUFFICES ASSUME Init PROVE Inv
  OBVIOUS
<1>1. plan = NoPlan /\ phase = "idle" /\ builds = 0 /\ at = 1 /\ request \in Requests
  BY DEF Init
<1>2. PlanType
  BY <1>1, NoPlanFacts DEF PlanType
<1>3. Progress
  BY <1>1 DEF Progress
<1>4. Stored
  <2>1. <<>> \in Seq(Layer) /\ DOMAIN <<>> = {}
    OBVIOUS
  <2> QED BY <2>1 DEF Init, Stored, IsCache
<1>5. TypeOK
  <2>1. at \in 1..BoundOf(plan, request)
    BY <1>1, NoPlanFacts, BoundFacts
  <2>2. builds \in 0..MaxBuilds
    BY <1>1, BuildsAssumption
  <2>3. {root, rootBefore} \subseteq FileSystem /\ backup = <<>> /\ DOMAIN stagesDir = {}
        /\ cause = "none"
    <3>1. DOMAIN <<>> = {}
      OBVIOUS
    <3> QED BY <3>1, RootAssumption DEF Init
  <2>4. /\ \A id \in DOMAIN cache : Len(cache[id]) <= 1 /\ Range(cache[id]) \subseteq Layer
        /\ \A n \in DOMAIN manifests : Range(manifests[n]) \subseteq Layer
    BY <1>4, StoredTypes DEF Stored
  <2> QED BY <1>1, <2>1, <2>2, <2>3, <2>4, NoPlanFacts DEF TypeOK, BoundOf
<1>6. RootIsUntouched /\ RootIsKept
  BY <1>1 DEF RootIsUntouched, RootIsKept
<1>7. Directories
  BY DEF Init, Directories
<1> QED BY <1>2, <1>3, <1>4, <1>5, <1>6, <1>7 DEF Inv

LEMMA StartStep ==
    ASSUME Inv, NEW r \in Requests, StartBuild(r)
    PROVE  Inv'
<1>1. /\ request' = r /\ builds' = builds + 1 /\ builds < MaxBuilds
      /\ phase' = "process" /\ cause' = "none" /\ plan' = NoPlan /\ at' = 1
      /\ stagesDir' = <<>> /\ rootBefore' = root /\ image' = <<>> /\ cache' = cache
      /\ backup' = (IF r.modify /\ r.preserve THEN root ELSE backup)
      /\ root' = (IF r.modify THEN EmptyFS ELSE root)
      /\ workDirs' = [root |-> IF r.modify THEN {} ELSE workDirs.root,
                      backup |-> IF r.modify /\ r.preserve THEN workDirs.root ELSE workDirs.backup,
                      before |-> workDirs.root]
  BY DEF StartBuild
<1>2. manifests' = [n \in DOMAIN manifests \ {RepoTag[m] : m \in Range(Names(r))} |-> manifests[n]]
  BY DEF StartBuild
<1>3. PlanType'
  BY <1>1, NoPlanFacts DEF PlanType
<1>4. Len(r.file) \in Nat /\ Len(r.file) > 0
  BY FileFacts
<1>5. Progress'
  BY <1>1, <1>4, NoPlanFacts DEF Progress
<1>6. Stored'
  <2>1. <<>> \in Seq(Layer)
    OBVIOUS
  <2>2. \A n \in DOMAIN manifests' : manifests'[n] \in Seq(Layer)
    BY <1>2 DEF Inv, Stored
  <2> QED BY <1>1, <2>1, <2>2 DEF Inv, Stored
<1>7. TypeOK'
  <2>1. at' \in 1..BoundOf(plan', request')
    BY <1>1, NoPlanFacts, BoundFacts
  <2>2. builds' \in 0..MaxBuilds
    BY <1>1, BuildsAssumption DEF Inv, TypeOK
  <2>3. {root', rootBefore'} \subseteq FileSystem /\ backup' \in FileSystem \cup {<<>>}
    BY <1>1, EmptyType DEF Inv, TypeOK
  <2>4. /\ \A id \in DOMAIN cache' : Len(cache'[id]) <= 1 /\ Range(cache'[id]) \subseteq Layer
        /\ \A n \in DOMAIN manifests' : Range(manifests'[n]) \subseteq Layer
    BY <1>6, StoredTypes DEF Stored
  <2>5. DOMAIN <<>> = {}
    OBVIOUS
  <2> QED BY <1>1, <2>1, <2>2, <2>3, <2>4, <2>5, NoPlanFacts DEF TypeOK, BoundOf
<1>8. RootIsUntouched' /\ RootIsKept'
  <2>1. r.modify /\ r.preserve => workDirs'.backup = workDirs'.before
    BY <1>1
  <2>2. ~r.modify => workDirs'.root = workDirs'.before
    BY <1>1
  <2> QED BY <1>1, <2>1, <2>2 DEF RootIsUntouched, RootIsKept
<1>9. Directories'
  BY <1>1 DEF Directories
<1> QED BY <1>3, <1>5, <1>6, <1>7, <1>8, <1>9 DEF Inv

(* What the actions that leave the host alone leave as it was.             *)
LEMMA HostKept ==
    ASSUME Inv, UNCHANGED storageVars, UNCHANGED <<request, builds, rootBefore>>,
           phase # "idle", phase' \in {"process", "build", "save", "done", "failed"}
    PROVE  /\ RootIsUntouched' /\ RootIsKept' /\ Directories'
           /\ request' \in Requests /\ builds' \in 0..MaxBuilds
           /\ {root', rootBefore'} \subseteq FileSystem /\ backup' \in FileSystem \cup {<<>>}
           /\ \A id \in DOMAIN cache' : Len(cache'[id]) <= 1 /\ Range(cache'[id]) \subseteq Layer
           /\ \A n \in DOMAIN manifests' : Range(manifests'[n]) \subseteq Layer
<1>1. root' = root /\ backup' = backup /\ cache' = cache /\ manifests' = manifests
      /\ workDirs' = workDirs
      /\ request' = request /\ builds' = builds /\ rootBefore' = rootBefore
  BY DEF storageVars
<1>2. phase' # "idle"
  OBVIOUS
<1>3. RootIsUntouched' /\ RootIsKept' /\ Directories'
  BY <1>1, <1>2 DEF Inv, RootIsUntouched, RootIsKept, Directories
<1> QED BY <1>1, <1>3 DEF Inv, TypeOK

LEMMA ProcessStep ==
    ASSUME Inv, ProcessStage
    PROVE  Inv'
<1>1. /\ phase = "process" /\ at <= Len(request.file) /\ at' = at + 1
      /\ UNCHANGED <<request, builds, phase, cause, stagesDir, rootBefore, image>>
      /\ UNCHANGED storageVars
  BY DEF ProcessStage
<1>2. at \in 1..BoundOf(plan, request) /\ request \in Requests /\ PlanType
  BY DEF Inv, TypeOK, BoundOf
<1>3. Len(plan.stages) \in Nat
  BY <1>2 DEF PlanType
<1>4. Len(request.file) \in Nat /\ at \in 1..Len(request.file)
  BY <1>1, <1>2, <1>3, FileFacts, BoundFacts
<1>5. /\ PlanType' /\ Len(plan.stages') > Len(plan.stages)
      /\ Len(plan.stages') >= Cardinality(plan.aliases')
  BY <1>2, <1>4, PlanGrows DEF Inv, TypeOK
<1>6. Len(plan.stages') \in Nat /\ Len(plan'.stages) = Len(plan.stages')
  BY <1>5 DEF PlanType
<1>7. Progress'
  BY <1>1, <1>3, <1>4, <1>5, <1>6 DEF Inv, Progress
<1>8. Stored'
  BY <1>1 DEF Inv, Stored, storageVars
<1>9. TypeOK'
  <2>1. BoundOf(plan', request) \in Nat /\ BoundOf(plan', request) > Len(request.file)
    BY <1>2, <1>6, BoundFacts
  <2>2. at' \in 1..BoundOf(plan', request')
    BY <1>1, <1>4, <2>1
  <2>3. phase' = "process" /\ cause' = cause /\ stagesDir' = stagesDir
    BY <1>1
  <2> QED BY <1>1, <1>5, <2>2, <2>3, HostKept DEF Inv, TypeOK, BoundOf
<1> QED BY <1>1, <1>5, <1>7, <1>8, <1>9, HostKept DEF Inv

LEMMA RejectStep ==
    ASSUME Inv, StageIsRejected
    PROVE  Inv'
<1>1. /\ phase = "process" /\ phase' = "failed" /\ cause' = "program"
      /\ UNCHANGED <<request, builds, plan, at, stagesDir, rootBefore, image>>
      /\ UNCHANGED storageVars
  BY DEF StageIsRejected, Fail
<1>2. PlanType' /\ Progress' /\ Stored'
  BY <1>1 DEF Inv, PlanType, Progress, Stored, storageVars
<1>3. TypeOK'
  BY <1>1, HostKept DEF Inv, TypeOK
<1> QED BY <1>1, <1>2, <1>3, HostKept DEF Inv

LEMMA EndPlanStep ==
    ASSUME Inv, EndPlan
    PROVE  Inv'
<1>1. /\ phase = "process" /\ at > Len(request.file) /\ at' = 1
      /\ \/ phase' = "failed" /\ cause' = "program"
         \/ phase' = "build" /\ cause' = cause
      /\ UNCHANGED <<request, builds, plan, stagesDir, rootBefore, image>>
      /\ UNCHANGED storageVars
  BY DEF EndPlan, Fail
<1>2. request \in Requests /\ PlanType /\ at \in 1..BoundOf(plan, request)
  BY DEF Inv, TypeOK, BoundOf
<1>3. Len(plan.stages) \in Nat
  BY <1>2 DEF PlanType
<1>4. PlanType' /\ Stored'
  BY <1>1 DEF Inv, PlanType, Stored, storageVars
<1>5. 1 <= Len(plan.stages)
  <2>1. Len(request.file) \in Nat /\ Len(request.file) > 0 /\ at \in Nat
    BY <1>2, <1>3, FileFacts, BoundFacts
  <2>2. Len(plan.stages) >= at - 1
    BY <1>1 DEF Inv, Progress
  <2> QED BY <1>1, <1>3, <2>1, <2>2
<1>6. Progress'
  BY <1>1, <1>5 DEF Progress
<1>7. at' \in 1..BoundOf(plan', request')
  BY <1>1, <1>2, <1>3, BoundFacts
<1>8. TypeOK'
  BY <1>1, <1>7, HostKept DEF Inv, TypeOK, BoundOf
<1> QED BY <1>1, <1>4, <1>6, <1>8, HostKept DEF Inv

LEMMA SaveStep ==
    ASSUME Inv, SaveManifest
    PROVE  Inv'
<1> DEFINE name == RepoTag[Names(request)[at]]
<1>1. /\ phase = "save"
      /\ \/ /\ phase' = "failed" /\ cause' = "program" /\ UNCHANGED <<manifests, at>>
         \/ /\ manifests' = Updated(manifests, One(name, image)) /\ at' = at + 1
            /\ phase' = (IF at = Len(Names(request)) THEN "done" ELSE "save")
            /\ cause' = cause
      /\ UNCHANGED <<request, builds, plan, stagesDir, rootBefore, image, root, backup, workDirs, cache>>
  BY DEF SaveManifest, Fail
<1>2. /\ request \in Requests /\ PlanType /\ at \in 1..BoundOf(plan, request)
      /\ at <= Len(Names(request))
  BY <1>1 DEF Inv, TypeOK, BoundOf, Progress
<1>3. Len(plan.stages) \in Nat /\ Len(Names(request)) \in Nat
  BY <1>2, NamesFacts DEF PlanType
<1>4. at \in Nat /\ at >= 1
  BY <1>2, <1>3, BoundFacts
<1>5. PlanType'
  BY <1>1 DEF Inv, PlanType
<1>6. Stored'
  <2>1. \A n \in DOMAIN manifests' : manifests'[n] \in Seq(Layer)
    BY <1>1 DEF Inv, Stored, Updated, One
  <2> QED BY <1>1, <2>1 DEF Inv, Stored
<1>7. Progress'
  BY <1>1, <1>2, <1>3, <1>4 DEF Progress
<1>8. at' \in 1..BoundOf(plan', request')
  <2>1. BoundOf(plan, request) \in Nat /\ BoundOf(plan, request) > Len(Names(request))
    BY <1>2, <1>3, BoundFacts
  <2>2. at' = at \/ at' = at + 1
    BY <1>1
  <2>3. BoundOf(plan', request') = BoundOf(plan, request)
    BY <1>1
  <2> QED BY <1>2, <1>3, <1>4, <2>1, <2>2, <2>3
<1>9. /\ \A id \in DOMAIN cache' : Len(cache'[id]) <= 1 /\ Range(cache'[id]) \subseteq Layer
      /\ \A n \in DOMAIN manifests' : Range(manifests'[n]) \subseteq Layer
  BY <1>6, StoredTypes DEF Stored
<1>10. phase' \in {"failed", "done", "save"}
  BY <1>1
<1>11. TypeOK'
  BY <1>1, <1>8, <1>9, <1>10 DEF Inv, TypeOK, BoundOf
<1>12. RootIsUntouched' /\ RootIsKept' /\ Directories'
  BY <1>1, <1>10 DEF Inv, RootIsUntouched, RootIsKept, Directories
<1> QED BY <1>5, <1>6, <1>7, <1>11, <1>12 DEF Inv

LEMMA EndStep ==
    ASSUME Inv, EndBuild
    PROVE  Inv'
<1>1. /\ phase \in {"done", "failed"} /\ phase' = "idle" /\ plan' = NoPlan /\ at' = 1
      /\ stagesDir' = <<>> /\ image' = <<>>
      /\ root' = RestoreRoot(request, root, backup)
      /\ backup' = (IF request.modify /\ request.preserve THEN <<>> ELSE backup)
      /\ workDirs' = (IF ~request.modify THEN workDirs
                      ELSE IF request.preserve THEN [workDirs EXCEPT !.root = workDirs.backup, !.backup = {}]
                      ELSE [workDirs EXCEPT !.root = {}])
      /\ UNCHANGED <<request, builds, cause, rootBefore, cache, manifests>>
  BY DEF EndBuild
<1>2. DOMAIN <<>> = {} /\ <<>> \in Seq(Layer)
  OBVIOUS
<1>3. request \in Requests /\ {request.modify, request.preserve} \subseteq BOOLEAN
  BY RequestAssumption DEF Inv, TypeOK
<1>0. workDirs = [root |-> workDirs.root, backup |-> workDirs.backup, before |-> workDirs.before]
  BY DEF Inv, Directories
<1>4. request.modify /\ request.preserve =>
         /\ root' = rootBefore
         /\ workDirs'.root = workDirs.before /\ workDirs'.before = workDirs.before
  BY <1>0, <1>1 DEF Inv, RootIsKept, RestoreRoot
<1>5. ~request.modify =>
         /\ root' = root /\ root = rootBefore /\ workDirs' = workDirs
         /\ workDirs.before \subseteq workDirs.root
         /\ workDirs.root \ workDirs.before \subseteq DirsMadeFor(request.file)
  BY <1>1 DEF Inv, RootIsUntouched, RestoreRoot
<1>6. request.modify /\ ~request.preserve => root' = EmptyFS
  BY <1>1 DEF RestoreRoot
<1>7. root' \in FileSystem
  BY <1>3, <1>4, <1>5, <1>6, EmptyType DEF Inv, TypeOK
<1>8. PlanType' /\ Progress' /\ RootIsUntouched'
  BY <1>1, NoPlanFacts DEF PlanType, Progress, RootIsUntouched
<1>9. RootIsKept' /\ Directories'
  <2>1. phase' = "idle" /\ request' = request /\ rootBefore' = rootBefore
    BY <1>1
  <2>2. RootIsKept'
    BY <1>3, <1>4, <1>5, <2>1 DEF RootIsKept
  <2>3. Directories'
    BY <1>0, <1>1 DEF Directories
  <2> QED BY <2>2, <2>3
<1>10. Stored'
  BY <1>1, <1>2 DEF Inv, Stored
<1>11. at' \in 1..BoundOf(plan', request')
  BY <1>1, <1>3, NoPlanFacts, BoundFacts
<1>12. TypeOK'
  BY <1>1, <1>2, <1>7, <1>11, NoPlanFacts DEF Inv, TypeOK, BoundOf
<1> QED BY <1>8, <1>9, <1>10, <1>12 DEF Inv

LEMMA CrashStep ==
    ASSUME Inv, Crash
    PROVE  Inv'
<1>1. /\ phase' = "idle" /\ cause' = "killed" /\ plan' = NoPlan /\ at' = 1
      /\ stagesDir' = <<>> /\ image' = <<>>
      /\ UNCHANGED <<request, builds, rootBefore>> /\ UNCHANGED storageVars
  BY DEF Crash
<1>2. DOMAIN <<>> = {} /\ <<>> \in Seq(Layer)
  OBVIOUS
<1>3. PlanType' /\ Progress' /\ RootIsUntouched' /\ RootIsKept' /\ Directories'
  BY <1>1, NoPlanFacts DEF PlanType, Progress, RootIsUntouched, RootIsKept, Inv, Directories, storageVars
<1>4. Stored'
  BY <1>1, <1>2 DEF Inv, Stored, storageVars
<1>5. at' \in 1..BoundOf(plan', request')
  BY <1>1, NoPlanFacts, BoundFacts DEF Inv, TypeOK
<1>6. TypeOK'
  BY <1>1, <1>2, <1>5, NoPlanFacts DEF Inv, TypeOK, BoundOf, storageVars
<1> QED BY <1>3, <1>4, <1>6 DEF Inv

-----------------------------------------------------------------------------
(* A stage of the plan is built, or fails. *)

LEMMA CheckpointType ==
    ASSUME PlanType, \A a \in DOMAIN stagesDir : stagesDir[a] \in Layer,
           \A a \in DOMAIN stagesDir : NoFile \notin Range(stagesDir[a]),
           NEW st, NEW fs \in FileSystem,
           st.alias \in DOMAIN plan.dirs => \A p \in plan.dirs[st.alias] : fs[p] # NoFile
    PROVE  \A a \in DOMAIN Checkpoint(st, fs) :
              Checkpoint(st, fs)[a] \in Layer /\ NoFile \notin Range(Checkpoint(st, fs)[a])
<1> DEFINE Old == IF st.alias \in DOMAIN stagesDir THEN stagesDir[st.alias] ELSE <<>>
           new == [p \in plan.dirs[st.alias] |-> fs[p]]
           put == Updated(Old, new)
<1>1. CASE st.alias \notin DOMAIN plan.dirs
  BY <1>1 DEF Checkpoint
<1>2. CASE st.alias \in DOMAIN plan.dirs
  <2>1. DOMAIN Old \subseteq File /\ \A f \in DOMAIN Old : Old[f] \in Content
    <3>1. DOMAIN <<>> = {}
      OBVIOUS
    <3>2. CASE st.alias \in DOMAIN stagesDir
      BY <3>2, LayerFacts DEF Range
    <3>3. CASE st.alias \notin DOMAIN stagesDir
      BY <3>1, <3>3
    <3> QED BY <3>2, <3>3
  <2>2. DOMAIN new \subseteq File /\ \A f \in DOMAIN new : new[f] \in Content
    BY <1>2 DEF PlanType, FileSystem
  <2>3. Checkpoint(st, fs) = Updated(stagesDir, One(st.alias, put))
    BY <1>2 DEF Checkpoint
  <2> HIDE DEF Old, new
  <2>4. put \in [DOMAIN Old \cup DOMAIN new -> Content]
    BY <2>1, <2>2 DEF Updated
  <2>5. put \in Layer /\ NoFile \notin Range(put)
    BY <2>1, <2>2, <2>4, NoFileAssumption DEF Layer, Range
  <2> HIDE DEF put
  <2> QED BY <2>3, <2>5 DEF Updated, One
<1> QED BY <1>1, <1>2

LEMMA ManifestType ==
    ASSUME \A n \in DOMAIN manifests : manifests[n] \in Seq(Layer), NEW name
    PROVE  \A n \in DOMAIN WithManifestOf(name) : WithManifestOf(name)[n] \in Seq(Layer)
BY LayersOfType DEF WithManifestOf, Updated, One

(* Without leave to touch the root, no stage that needs to gets beyond its *)
(* start.                                                                  *)
LEMMA ModifiesWithLeave ==
    ASSUME NEW st, IsStage(st), NEW j, NEW n \in Nat, n > 0, ReachesNode(st, j, n), ~request.modify
    PROVE  ~ModifyFS(plan, st)
<1>1. 0 \in 0..(n - 1) /\ 0 < Len(st.steps)
  BY DEF IsStage
<1>2. ~ProgramFailsAfter(st, j, 0)
  BY <1>1 DEF ReachesNode
<1> QED BY <1>1, <1>2 DEF ProgramFailsAfter

(* The stage whose turn it is, and what building n of its nodes gives.     *)
LEMMA StageFacts ==
    ASSUME Inv, phase = "build"
    PROVE  LET st == plan.stages[at]
           IN /\ IsStage(st) /\ at \in 1..Len(plan.stages)
              /\ Len(plan.stages) \in Nat /\ Len(st.steps) \in Nat /\ Len(st.steps) > 0
              /\ request \in Requests
              /\ \A j \in 1..Len(st.steps), n \in 0..Len(st.steps) : CanFetch(st, j) =>
                    /\ IsBuilt(st, BuildNodes(st, j, n))
                    /\ ~ModifyFS(plan, st) => BuildNodes(st, j, n).ctx.disk = root
                    /\ BuildNodes(st, j, 0).ctx.disk = root
<1> DEFINE st == plan.stages[at]
<1>1. request \in Requests /\ PlanType /\ at \in 1..BoundOf(plan, request)
  BY DEF Inv, TypeOK, BoundOf
<1>2. Len(plan.stages) \in Nat
  BY <1>1 DEF PlanType
<1>3. at \in 1..Len(plan.stages)
  BY <1>1, <1>2, BoundFacts DEF Inv, Progress
<1>4. IsStage(st)
  BY <1>1, <1>3 DEF PlanType
<1>5. Len(st.steps) \in Nat /\ Len(st.steps) > 0
  BY <1>4 DEF IsStage
<1> HIDE DEF st
<1>6. ASSUME NEW j \in 1..Len(st.steps), NEW n \in 0..Len(st.steps), CanFetch(st, j)
      PROVE  /\ IsBuilt(st, BuildNodes(st, j, n))
             /\ ~ModifyFS(plan, st) => BuildNodes(st, j, n).ctx.disk = root
             /\ BuildNodes(st, j, 0).ctx.disk = root
  <2>1. j \in Nat
    BY <1>5
  <2>2. /\ IsCache(cache) /\ root \in FileSystem
        /\ \A a \in DOMAIN stagesDir : stagesDir[a] \in Layer
    BY DEF Inv, Stored, TypeOK
  <2>3. BuildNodes(st, j, 0).ctx.disk = root
    BY <1>4, <1>6, <2>1, <2>2, NoNodeType, BuildNodesFacts
  <2> QED BY <1>4, <1>6, <2>1, <2>2, <2>3, NodesType
<1> QED BY <1>1, <1>2, <1>3, <1>4, <1>5, <1>6 DEF st

LEMMA BuildStep ==
    ASSUME Inv, BuildStage
    PROVE  Inv'
<1> DEFINE st == plan.stages[at]
           N == Len(st.steps)
<1>1. phase = "build" /\ UNCHANGED <<request, builds, cause, plan, rootBefore, backup>>
  BY DEF BuildStage
<1>2. PICK j \in 1..N :
        /\ CanFetch(st, j) /\ ReachesNode(st, j, N + 1)
        /\ cache' = BuildNodes(st, j, N).cache
        /\ image' = FlattenSeq(BuildNodes(st, j, N).pairs)
        /\ stagesDir' = Checkpoint(st, BuildNodes(st, j, N).ctx.disk)
        /\ root' = CleanRoot(request, BuildNodes(st, j, N).ctx.disk)
        /\ workDirs' = [workDirs EXCEPT !.root = IF request.modify THEN {} ELSE @ \cup MadeBy(st.steps)]
        /\ manifests' = WithManifestOf(st.steps[1].image)
        /\ IF at = Len(plan.stages) \/ st.alias = request.target
           THEN phase' = "save" /\ at' = 1
           ELSE at' = at + 1 /\ UNCHANGED phase
  BY DEF BuildStage
<1> DEFINE built == BuildNodes(st, j, N)
<1>3. /\ IsStage(st) /\ at \in 1..Len(plan.stages) /\ Len(plan.stages) \in Nat
      /\ N \in Nat /\ N > 0 /\ request \in Requests
  BY <1>1, StageFacts
<1>4. IsBuilt(st, built) /\ (~ModifyFS(plan, st) => built.ctx.disk = root)
  <2>1. N \in 0..N
    BY <1>3
  <2> QED BY <1>1, <1>2, <2>1, StageFacts
<1>5. ~request.modify => built.ctx.disk = root
  <2>1. N + 1 \in Nat /\ N + 1 > 0
    BY <1>3
  <2> QED BY <1>2, <1>3, <1>4, <2>1, ModifiesWithLeave
<1>6. /\ built.ctx.disk \in FileSystem
      /\ st.alias \in DOMAIN plan.dirs => \A p \in plan.dirs[st.alias] : built.ctx.disk[p] # NoFile
  <2>1. N \in 0..((N + 1) - 1) /\ ~(N < N)
    BY <1>3
  <2>2. ~ProgramFailsAfter(st, j, N)
    BY <1>2, <2>1 DEF ReachesNode
  <2> QED BY <1>4, <2>1, <2>2 DEF IsBuilt, Context, ProgramFailsAfter
<1> HIDE DEF built
<1>7. /\ cache' = built.cache /\ image' = FlattenSeq(built.pairs)
      /\ stagesDir' = Checkpoint(st, built.ctx.disk) /\ root' = CleanRoot(request, built.ctx.disk)
      /\ manifests' = WithManifestOf(st.steps[1].image)
  BY <1>2 DEF built
<1>8. \/ phase' = "save" /\ at' = 1
      \/ at # Len(plan.stages) /\ at' = at + 1 /\ phase' = "build"
  BY <1>1, <1>2
<1> HIDE DEF st
<1>9. PlanType'
  BY <1>1 DEF Inv, PlanType
<1>10. Progress'
  <2>1. 1 <= Len(Names(request'))
    BY <1>1, <1>3, NamesFacts
  <2>2. at # Len(plan.stages) => at + 1 <= Len(plan.stages)
    BY <1>3
  <2> QED BY <1>1, <1>8, <2>1, <2>2 DEF Progress
<1>11. Stored'
  <2>1. image' \in Seq(Layer)
    <3> DEFINE T == Seq(Layer)
    <3>0. built.pairs \in [1..N -> T]
      BY <1>4 DEF IsBuilt, st
    <3> HIDE DEF T, N
    <3>1. built.pairs \in Seq(T)
      BY <1>3, <3>0
    <3> USE DEF T
    <3> QED BY <1>7, <3>1, FlattenType
  <2>2. IsCache(cache')
    BY <1>4, <1>7 DEF IsBuilt
  <2>3. \A n \in DOMAIN manifests' : manifests'[n] \in Seq(Layer)
    BY <1>7, ManifestType DEF Inv, Stored
  <2> QED BY <2>1, <2>2, <2>3 DEF Stored
<1>12. TypeOK'
  <2>1. BoundOf(plan, request) \in Nat /\ BoundOf(plan, request) > Len(plan.stages)
        /\ BoundOf(plan', request') = BoundOf(plan, request)
    BY <1>1, <1>3, BoundFacts
  <2>2. at' \in 1..BoundOf(plan', request')
    BY <1>3, <1>8, <2>1
  <2>3. root' \in FileSystem
    BY <1>6, <1>7, EmptyType DEF CleanRoot
  <2>4. \A a \in DOMAIN stagesDir' : stagesDir'[a] \in Layer /\ NoFile \notin Range(stagesDir'[a])
    BY <1>6, <1>7, CheckpointType DEF Inv, TypeOK
  <2>5. /\ \A id \in DOMAIN cache' : Len(cache'[id]) <= 1 /\ Range(cache'[id]) \subseteq Layer
        /\ \A n \in DOMAIN manifests' : Range(manifests'[n]) \subseteq Layer
    BY <1>11, StoredTypes DEF Stored
  <2>6. phase' \in {"build", "save"}
    BY <1>8
  <2> QED BY <1>1, <2>2, <2>3, <2>4, <2>5, <2>6 DEF Inv, TypeOK, BoundOf
<1>13. RootIsUntouched' /\ RootIsKept' /\ Directories'
  <2>1. phase' # "idle" /\ phase # "idle"
    BY <1>1, <1>8
  <2>2. ~request.modify => root' = root
    BY <1>5, <1>7 DEF CleanRoot
  <2>3. MadeBy(st.steps) \subseteq DirsMadeFor(request.file)
    BY <1>3 DEF st, Inv, PlanType
  <2>4. workDirs' = [root |-> IF request.modify THEN {} ELSE workDirs.root \cup MadeBy(st.steps),
                     backup |-> workDirs.backup, before |-> workDirs.before]
    BY <1>2 DEF st, Inv, Directories
  <2> QED BY <1>1, <2>1, <2>2, <2>3, <2>4 DEF Inv, RootIsUntouched, RootIsKept, Directories
<1> QED BY <1>9, <1>10, <1>11, <1>12, <1>13 DEF Inv

LEMMA FailStep ==
    ASSUME Inv, StageFails
    PROVE  Inv'
<1> DEFINE st == plan.stages[at]
           N == Len(st.steps)
<1>1. /\ phase = "build" /\ phase' = "failed" /\ cause' \in {"program", "outside"}
      /\ UNCHANGED <<request, builds, plan, at, stagesDir, rootBefore, backup, image>>
  BY DEF StageFails, Fail
<1>2. PICK n \in 0..N, j \in 1..N :
        /\ CanFetch(st, j) /\ ReachesNode(st, j, n)
        /\ cache' = BuildNodes(st, j, n).cache /\ root' = BuildNodes(st, j, n).ctx.disk
        /\ workDirs' = [workDirs EXCEPT !.root = IF n = 0 THEN @ ELSE @ \cup MadeBy(st.steps)]
        /\ manifests' = (IF n = 0 THEN manifests ELSE WithManifestOf(st.steps[1].image))
  BY DEF StageFails
<1> DEFINE built == BuildNodes(st, j, n)
<1>3. IsStage(st) /\ N \in Nat /\ at \in 1..Len(plan.stages)
  BY <1>1, StageFacts
<1>4. /\ IsBuilt(st, built)
      /\ ~ModifyFS(plan, st) => built.ctx.disk = root
      /\ BuildNodes(st, j, 0).ctx.disk = root
  BY <1>1, <1>2, StageFacts
<1>5. ~request.modify => root' = root
  <2>1. CASE n = 0
    BY <1>2, <1>4, <2>1
  <2>2. CASE n # 0
    <3>1. n \in Nat /\ n > 0
      BY <1>3, <2>2
    <3> QED BY <1>2, <1>3, <1>4, <3>1, ModifiesWithLeave
  <2> QED BY <2>1, <2>2
<1>6. cache' = built.cache /\ root' = built.ctx.disk
  BY <1>2
<1> HIDE DEF built
<1>7. root' \in FileSystem /\ IsCache(cache')
  BY <1>4, <1>6 DEF IsBuilt, Context
<1>8. \A m \in DOMAIN manifests' : manifests'[m] \in Seq(Layer)
  BY <1>2, ManifestType DEF Inv, Stored
<1>9. PlanType' /\ Progress' /\ Stored'
  BY <1>1, <1>7, <1>8 DEF Inv, PlanType, Progress, Stored
<1>10. TypeOK'
  BY <1>1, <1>7, <1>8, StoredTypes DEF Inv, TypeOK
<1>11. RootIsUntouched' /\ RootIsKept' /\ Directories'
  <2>1. MadeBy(st.steps) \subseteq DirsMadeFor(request.file)
    BY <1>3 DEF Inv, PlanType
  <2> DEFINE new == IF n = 0 THEN workDirs.root ELSE workDirs.root \cup MadeBy(st.steps)
  <2>2. workDirs' = [root |-> new, backup |-> workDirs.backup, before |-> workDirs.before]
    BY <1>2 DEF Inv, Directories
  <2>3. workDirs.root \subseteq new /\ new \subseteq workDirs.root \cup DirsMadeFor(request.file)
    BY <2>1
  <2> HIDE DEF new
  <2> QED BY <1>1, <1>5, <2>2, <2>3 DEF Inv, RootIsUntouched, RootIsKept, Directories
<1> QED BY <1>9, <1>10, <1>11 DEF Inv

LEMMA InvStep == Inv /\ [Next]_vars => Inv'
<1> SUFFICES ASSUME Inv, [Next]_vars PROVE Inv'
  OBVIOUS
<1>1. CASE \E r \in Requests : StartBuild(r)
  BY <1>1, StartStep
<1>2. CASE ProcessStage
  BY <1>2, ProcessStep
<1>3. CASE StageIsRejected
  BY <1>3, RejectStep
<1>4. CASE EndPlan
  BY <1>4, EndPlanStep
<1>5. CASE BuildStage
  BY <1>5, BuildStep
<1>6. CASE StageFails
  BY <1>6, FailStep
<1>7. CASE SaveManifest
  BY <1>7, SaveStep
<1>8. CASE EndBuild
  BY <1>8, EndStep
<1>9. CASE Crash
  BY <1>9, CrashStep
<1>10. CASE UNCHANGED vars
  BY <1>10 DEF vars, storageVars, Inv, TypeOK, PlanType, Progress, Stored, Directories,
               RootIsUntouched, RootIsKept
<1> QED BY <1>1, <1>2, <1>3, <1>4, <1>5, <1>6, <1>7, <1>8, <1>9, <1>10 DEF Next

(* Whatever the command lines and Dockerfiles, and wherever a process      *)
(* fails or is killed: what one build leaves to the next in the cache, the *)
(* manifest store and the sandbox is made of layers, an ID never has more  *)
(* than one, the plan has at least one stage for every alias, and the root *)
(* is in the backup while a build that preserves it runs and back when it  *)
(* has ended.                                                              *)
THEOREM PlanIsConsistent == Spec => []PlanInvariant
<1>1. Inv => PlanInvariant
  BY DEF Inv, PlanInvariant
<1> QED BY Initially, InvStep, <1>1, PTL DEF Spec

(* Without --modifyfs a build leaves the files in the root alone, from its *)
(* start to its end, since no stage executes on disk (ModifyFS, and the    *)
(* check in executeStage); and all it makes there are working directories  *)
(* of the images it builds from (ApplyCtxAndConfig, which asks for no      *)
(* leave).                                                                 *)
THEOREM RootFilesAreLeftAlone == Spec => []RootIsUntouched
<1>1. Inv => RootIsUntouched
  BY DEF Inv
<1> QED BY Initially, InvStep, <1>1, PTL DEF Spec

-----------------------------------------------------------------------------
(* Layers over layers. *)

LEMMA ApplyNone ==
    ASSUME NEW fs \in FileSystem
    PROVE  ApplyLayers(fs, <<>>) = fs
<1>1. \A f : With(<<>>, f) = {}
  BY DEF With
<1> QED BY <1>1, ApplyIs DEF FileSystem

LEMMA ApplyOne ==
    ASSUME NEW fs, NEW layer
    PROVE  ApplyLayers(fs, <<layer>>) = [f \in File |-> IF f \in DOMAIN layer THEN layer[f] ELSE fs[f]]
<1>1. ASSUME NEW f \in File, f \in DOMAIN layer
      PROVE  With(<<layer>>, f) = {1} /\ Max({1}) = 1
  <2>1. With(<<layer>>, f) = {1}
    BY <1>1 DEF With
  <2>2. Max({1}) \in {1}
    BY MaxFacts
  <2> QED BY <2>1, <2>2
<1>2. ASSUME NEW f \in File, f \notin DOMAIN layer
      PROVE  With(<<layer>>, f) = {}
  BY <1>2 DEF With
<1>3. \A f \in File : (IF With(<<layer>>, f) = {} THEN fs[f] ELSE <<layer>>[Max(With(<<layer>>, f))][f])
                    = (IF f \in DOMAIN layer THEN layer[f] ELSE fs[f])
  BY <1>1, <1>2
<1> QED BY <1>3, ApplyIs

(* Layers can be applied in two goes, as a build that pulls and then       *)
(* commits does.                                                           *)
LEMMA ApplyMore ==
    ASSUME NEW fs \in FileSystem, NEW first \in Seq(Layer), NEW more \in Seq(Layer)
    PROVE  ApplyLayers(fs, first \o more) = ApplyLayers(ApplyLayers(fs, first), more)
<1> DEFINE all == first \o more
           N   == Len(first)
<1>1. /\ all \in Seq(Layer) /\ N \in Nat /\ Len(all) = N + Len(more) /\ Len(more) \in Nat
      /\ \A i \in 1..N : all[i] = first[i]
      /\ \A i \in 1..Len(more) : all[N + i] = more[i]
  OBVIOUS
<1> HIDE DEF all, N
<1>2. ASSUME NEW f \in File
      PROVE  (IF With(all, f) = {} THEN fs[f] ELSE all[Max(With(all, f))][f])
           = (IF With(more, f) = {} THEN ApplyLayers(fs, first)[f] ELSE more[Max(With(more, f))][f])
  <2>1. \A i : i \in With(all, f) <=> i \in 1..(N + Len(more)) /\ f \in DOMAIN all[i]
    BY <1>1 DEF With
  <2>2. \A i : i \in With(first, f) <=> i \in 1..N /\ f \in DOMAIN first[i]
    BY DEF With, N
  <2>3. \A i : i \in With(more, f) <=> i \in 1..Len(more) /\ f \in DOMAIN more[i]
    BY DEF With
  <2>4. ApplyLayers(fs, first)[f] = IF With(first, f) = {} THEN fs[f] ELSE first[Max(With(first, f))][f]
    BY ApplyIs
  <2>5. CASE With(more, f) # {}
    <3> DEFINE i == Max(With(more, f))
    <3>1. i \in With(more, f) /\ \A j \in With(more, f) : i >= j
      BY <2>5, WithFacts
    <3> HIDE DEF i
    <3> DEFINE k == Max(With(all, f))
    <3>2. N + i \in With(all, f)
      <4>1. i \in 1..Len(more) /\ f \in DOMAIN more[i]
        BY <2>3, <3>1
      <4>2. N + i \in 1..(N + Len(more)) /\ all[N + i] = more[i]
        BY <1>1, <4>1
      <4> QED BY <2>1, <4>1, <4>2
    <3>3. k \in With(all, f) /\ \A j \in With(all, f) : k >= j
      BY <1>1, <3>2, WithFacts
    <3> HIDE DEF k
    <3>4. i \in 1..Len(more) /\ k \in 1..(N + Len(more)) /\ k >= N + i
      BY <2>1, <2>3, <3>1, <3>2, <3>3
    <3>5. k - N \in 1..Len(more) /\ all[k] = more[k - N]
      <4>1. k - N \in 1..Len(more) /\ N + (k - N) = k
        BY <1>1, <3>4
      <4> QED BY <1>1, <4>1
    <3>6. k - N \in With(more, f)
      BY <2>1, <2>3, <3>3, <3>5
    <3>7. k = N + i
      BY <1>1, <3>1, <3>4, <3>6
    <3>8. all[k] = more[i] /\ With(all, f) # {}
      BY <1>1, <3>2, <3>4, <3>7
    <3> QED BY <2>5, <3>8 DEF i, k
  <2>6. CASE With(more, f) = {}
    <3>1. \A i : i \in With(all, f) <=> i \in With(first, f)
      <4>1. ASSUME NEW i, i \in With(all, f) PROVE i \in With(first, f)
        <5>1. i \in 1..(N + Len(more)) /\ f \in DOMAIN all[i]
          BY <2>1, <4>1
        <5>2. CASE i \in 1..N
          BY <1>1, <2>2, <5>1, <5>2
        <5>3. CASE i \notin 1..N
          <6>1. i - N \in 1..Len(more) /\ N + (i - N) = i
            BY <1>1, <5>1, <5>3
          <6>2. all[i] = more[i - N]
            BY <1>1, <6>1
          <6> QED BY <2>3, <2>6, <5>1, <6>1, <6>2
        <5> QED BY <5>2, <5>3
      <4>2. ASSUME NEW i, i \in With(first, f) PROVE i \in With(all, f)
        BY <1>1, <2>1, <2>2, <4>2
      <4> QED BY <4>1, <4>2
    <3>2. With(all, f) = With(first, f)
      BY <3>1
    <3>3. CASE With(first, f) = {}
      BY <2>4, <2>6, <3>2, <3>3
    <3>4. CASE With(first, f) # {}
      <4>1. Max(With(first, f)) \in With(first, f)
        BY <3>4, WithFacts
      <4>2. all[Max(With(first, f))] = first[Max(With(first, f))]
        BY <1>1, <2>2, <4>1
      <4> QED BY <2>4, <2>6, <3>2, <3>4, <4>2
    <3> QED BY <3>3, <3>4
  <2> QED BY <2>5, <2>6
<1> QED BY <1>2, ApplyIs DEF all

-----------------------------------------------------------------------------
(* What the steps of a stage lead to. *)

(* The files after each step, as a recursive function.                     *)
LEMMA AfterIs ==
    ASSUME NEW q \in Seq(Found)
    PROVE  After(q) = [n \in 0..Len(q) |->
                IF n = 0 THEN EmptyFS ELSE Effect(After(q)[n - 1], q[n])]
<1> DEFINE Recursive(g, n) == g = [k \in 0..n |-> IF k = 0 THEN EmptyFS ELSE Effect(g[k - 1], q[k])]
           S == {n \in Nat : \E g : Recursive(g, n)}
<1>1. 0 \in S
  <2>1. Recursive([k \in 0..0 |-> EmptyFS], 0)
    OBVIOUS
  <2> HIDE DEF Recursive
  <2> QED BY <2>1
<1>2. ASSUME NEW n \in Nat, n \in S
      PROVE  n + 1 \in S
  <2>1. PICK g : g = [k \in 0..n |-> IF k = 0 THEN EmptyFS ELSE Effect(g[k - 1], q[k])]
    BY <1>2
  <2> DEFINE h == [k \in 0..(n + 1) |-> IF k = 0 THEN EmptyFS ELSE Effect(g[k - 1], q[k])]
  <2>2. \A k \in 0..n : h[k] = g[k]
    BY <2>1
  <2>3. \A k \in 0..(n + 1) : k # 0 => k - 1 \in 0..n
    OBVIOUS
  <2>4. Recursive(h, n + 1)
    BY <2>2, <2>3
  <2> HIDE DEF Recursive
  <2> QED BY <2>4
<1> HIDE DEF S
<1>3. Len(q) \in S
  BY <1>1, <1>2, Induction
<1>4. \E g : Recursive(g, Len(q))
  BY <1>3 DEF S
<1> QED BY <1>4 DEF After

LEMMA AfterSteps ==
    ASSUME NEW q \in Seq(Found)
    PROVE  /\ After(q)[0] = EmptyFS
           /\ \A n \in 1..Len(q) : After(q)[n] = Effect(After(q)[n - 1], q[n])
<1>1. \A n \in 1..Len(q) : n \in 0..Len(q) /\ n # 0
  OBVIOUS
<1>2. 0 \in 0..Len(q)
  OBVIOUS
<1> QED BY <1>1, <1>2, AfterIs

LEMMA AfterType ==
    ASSUME NEW q \in Seq(Found)
    PROVE  \A n \in 0..Len(q) : After(q)[n] \in FileSystem
<1> DEFINE S == {n \in Nat : n <= Len(q) => After(q)[n] \in FileSystem}
<1>1. 0 \in S
  BY AfterSteps, EmptyType
<1>2. ASSUME NEW n \in Nat, n \in S
      PROVE  n + 1 \in S
  <2> SUFFICES ASSUME n + 1 <= Len(q) PROVE After(q)[n + 1] \in FileSystem
    OBVIOUS
  <2>1. n + 1 \in 1..Len(q) /\ (n + 1) - 1 = n /\ n <= Len(q)
    OBVIOUS
  <2>2. After(q)[n + 1] = Effect(After(q)[n], q[n + 1])
    BY <2>1, AfterSteps
  <2>3. q[n + 1] \in Found /\ After(q)[n] \in FileSystem
    BY <1>2, <2>1
  <2> QED BY <2>2, <2>3, EffectType
<1> HIDE DEF S
<1>3. \A n \in Nat : n \in S
  BY <1>1, <1>2, Induction
<1> QED BY <1>3 DEF S

(* It depends on no later steps. *)
LEMMA AfterPrefix ==
    ASSUME NEW q \in Seq(Found), NEW p \in Seq(Found), NEW n \in Nat,
           n <= Len(q), n <= Len(p), \A k \in 1..n : q[k] = p[k]
    PROVE  \A k \in 0..n : After(q)[k] = After(p)[k]
<1> DEFINE S == {k \in Nat : k <= n => After(q)[k] = After(p)[k]}
<1>1. 0 \in S
  BY AfterSteps
<1>2. ASSUME NEW k \in Nat, k \in S
      PROVE  k + 1 \in S
  <2> SUFFICES ASSUME k + 1 <= n PROVE After(q)[k + 1] = After(p)[k + 1]
    OBVIOUS
  <2>1. Len(q) \in Nat /\ Len(p) \in Nat
    OBVIOUS
  <2>2. k + 1 \in 1..Len(q) /\ k + 1 \in 1..Len(p) /\ k + 1 \in 1..n /\ (k + 1) - 1 = k /\ k <= n
    BY <2>1
  <2>3. After(q)[k + 1] = Effect(After(q)[k], q[k + 1])
    BY <2>2, AfterSteps
  <2>4. After(p)[k + 1] = Effect(After(p)[k], p[k + 1])
    BY <2>2, AfterSteps
  <2> QED BY <1>2, <2>2, <2>3, <2>4
<1> HIDE DEF S
<1>3. \A k \in Nat : k \in S
  BY <1>1, <1>2, Induction
<1> QED BY <1>3 DEF S

-----------------------------------------------------------------------------
(* What waits in a context, and what a commit makes of it. *)

NoPending(c) == c.copyOps = <<>> /\ ~c.mustScan
CopiesTo(ops, f) == {i \in DOMAIN ops : ops[i].dst = f}
WithCopies(mem, ops) ==
    [f \in File |-> IF CopiesTo(ops, f) = {} THEN mem[f] ELSE ops[Max(CopiesTo(ops, f))].src]

LEMMA CopiesFacts ==
    ASSUME NEW ops \in Seq(CopyOp), NEW f
    PROVE  /\ CopiesTo(ops, f) \in SUBSET (1..Len(ops))
           /\ CopiesTo(ops, f) # {} => /\ Max(CopiesTo(ops, f)) \in CopiesTo(ops, f)
                                       /\ ops[Max(CopiesTo(ops, f))].src \in Content \cup {NoFile}
<1>1. CopiesTo(ops, f) \in SUBSET (1..Len(ops)) /\ Len(ops) \in Nat
  BY DEF CopiesTo
<1>2. ASSUME NEW i \in 1..Len(ops) PROVE ops[i].src \in Content \cup {NoFile}
  <2>1. ops[i] \in CopyOp
    OBVIOUS
  <2> QED BY <2>1, CopyOpFacts
<1> QED BY <1>1, <1>2, MaxFacts

LEMMA NoCopies ==
    ASSUME NEW mem \in FileSystem
    PROVE  WithCopies(mem, <<>>) = mem
<1>1. \A f : CopiesTo(<<>>, f) = {}
  BY DEF CopiesTo
<1> QED BY <1>1 DEF WithCopies, FileSystem

(* A copy that waits counts for the files as if it were made at once.      *)
LEMMA OneMoreCopy ==
    ASSUME NEW mem \in FileSystem, NEW ops \in Seq(CopyOp), NEW s \in CopyOp
    PROVE  WithCopies(mem, Append(ops, s)) = Effect(WithCopies(mem, ops), s)
<1> DEFINE more == Append(ops, s)
           N == Len(ops)
<1>1. /\ more \in Seq(CopyOp) /\ N \in Nat /\ Len(more) = N + 1
      /\ \A i \in 1..N : more[i] = ops[i]
      /\ more[N + 1] = s
  OBVIOUS
<1>2. Effect(WithCopies(mem, ops), s) = [WithCopies(mem, ops) EXCEPT ![s.dst] = s.src]
  BY CopyOpFacts DEF Effect
<1>3. s.dst \in File
  BY CopyOpFacts
<1> HIDE DEF more
<1>4. ASSUME NEW f \in File
      PROVE  WithCopies(mem, more)[f] = Effect(WithCopies(mem, ops), s)[f]
  <2>1. WithCopies(mem, more)[f] = IF CopiesTo(more, f) = {} THEN mem[f] ELSE more[Max(CopiesTo(more, f))].src
    BY DEF WithCopies
  <2>2. WithCopies(mem, ops)[f] = IF CopiesTo(ops, f) = {} THEN mem[f] ELSE ops[Max(CopiesTo(ops, f))].src
    BY DEF WithCopies
  <2>3. CASE f = s.dst
    <3>1. N + 1 \in CopiesTo(more, f)
      BY <1>1, <2>3 DEF CopiesTo
    <3>2. CopiesTo(more, f) \in SUBSET (1..(N + 1)) /\ N + 1 \in Nat
      BY <1>1 DEF CopiesTo
    <3>3. Max(CopiesTo(more, f)) \in 1..(N + 1) /\ Max(CopiesTo(more, f)) >= N + 1
      BY <3>1, <3>2, MaxFacts
    <3>4. Max(CopiesTo(more, f)) = N + 1
      BY <1>1, <3>3
    <3>5. WithCopies(mem, more)[f] = s.src
      BY <1>1, <2>1, <3>1, <3>4
    <3> QED BY <1>2, <2>3, <3>5 DEF WithCopies
  <2>4. CASE f # s.dst
    <3>1. CopiesTo(more, f) = CopiesTo(ops, f)
      BY <1>1, <2>4 DEF CopiesTo
    <3>2. CopiesTo(ops, f) # {} => Max(CopiesTo(ops, f)) \in 1..N
      BY CopiesFacts
    <3>3. WithCopies(mem, more)[f] = WithCopies(mem, ops)[f]
      BY <1>1, <2>1, <2>2, <3>1, <3>2
    <3> QED BY <1>2, <2>4, <3>3 DEF WithCopies
  <2> QED BY <2>3, <2>4
<1>5. /\ WithCopies(mem, more) = [f \in File |-> WithCopies(mem, more)[f]]
      /\ Effect(WithCopies(mem, ops), s) = [f \in File |-> Effect(WithCopies(mem, ops), s)[f]]
  BY <1>2 DEF WithCopies
<1> QED BY <1>4, <1>5 DEF more

(* The layer of the copies that wait gives memory the files they copy.     *)
LEMMA CopyLayer ==
    ASSUME NEW c \in Context
    PROVE  /\ LayerByCopyOps(c) \in Layer
           /\ ApplyLayers(c.mem, <<LayerByCopyOps(c)>>) = WithCopies(c.mem, c.copyOps)
<1> DEFINE layer == LayerByCopyOps(c)
           changed == {f \in File : \E i \in CopiesTo(c.copyOps, f) : c.copyOps[i].src # c.mem[f]}
<1>1. c.copyOps \in Seq(CopyOp)
  BY DEF Context
<1>2. layer = [f \in changed |-> c.copyOps[Max(CopiesTo(c.copyOps, f))].src]
  BY DEF LayerByCopyOps, CopiesTo
<1> HIDE DEF layer
<1>3. \A f \in changed : CopiesTo(c.copyOps, f) # {}
  OBVIOUS
<1>4. layer \in Layer
  <2>1. layer \in [changed -> Content \cup {NoFile}]
    BY <1>1, <1>2, <1>3, CopiesFacts
  <2> QED BY <2>1 DEF Layer
<1>5. ASSUME NEW f \in File
      PROVE  (IF f \in DOMAIN layer THEN layer[f] ELSE c.mem[f]) = WithCopies(c.mem, c.copyOps)[f]
  <2>1. WithCopies(c.mem, c.copyOps)[f] = IF CopiesTo(c.copyOps, f) = {} THEN c.mem[f]
                                          ELSE c.copyOps[Max(CopiesTo(c.copyOps, f))].src
    BY DEF WithCopies
  <2>2. CASE f \in changed
    BY <1>2, <1>3, <2>1, <2>2
  <2>3. CASE f \notin changed
    <3>1. CopiesTo(c.copyOps, f) # {} => c.copyOps[Max(CopiesTo(c.copyOps, f))].src = c.mem[f]
      BY <1>1, <2>3, CopiesFacts
    <3> QED BY <1>2, <2>1, <2>3, <3>1
  <2> QED BY <2>2, <2>3
<1>6. WithCopies(c.mem, c.copyOps) = [f \in File |-> WithCopies(c.mem, c.copyOps)[f]]
  BY DEF WithCopies
<1> QED BY <1>4, <1>5, <1>6, ApplyOne DEF layer

(* The layer of a scan gives memory the files on disk.                     *)
LEMMA ScanLayer ==
    ASSUME NEW c \in Context
    PROVE  /\ LayerByScan(c) \in Layer
           /\ (\A f \in c.copied : c.disk[f] # NoFile) =>
                 ApplyLayers(c.mem, <<LayerByScan(c)>>) = c.disk
<1> DEFINE layer == LayerByScan(c)
           changed == {f \in File : c.disk[f] # c.mem[f] /\ (c.disk[f] = NoFile => f \notin c.copied)}
<1>1. layer = [f \in changed |-> c.disk[f]]
  BY DEF LayerByScan
<1>2. c.disk \in [File -> Content \cup {NoFile}]
  BY DEF Context, FileSystem
<1> HIDE DEF layer
<1>3. layer \in Layer
  <2>1. layer \in [changed -> Content \cup {NoFile}]
    BY <1>1, <1>2
  <2> QED BY <2>1 DEF Layer
<1>4. ASSUME \A f \in c.copied : c.disk[f] # NoFile
      PROVE  ApplyLayers(c.mem, <<layer>>) = c.disk
  <2>1. \A f \in File : (IF f \in DOMAIN layer THEN layer[f] ELSE c.mem[f]) = c.disk[f]
    BY <1>1, <1>4
  <2> QED BY <1>2, <1>3, <2>1, ApplyOne
<1> QED BY <1>3, <1>4 DEF layer

-----------------------------------------------------------------------------
(* Layers of nodes, one after the other. *)

LEMMA FlattenAppend ==
    ASSUME NEW T, NEW seqs \in Seq(Seq(T)), NEW x \in Seq(T)
    PROVE  FlattenSeq(Append(seqs, x)) = FlattenSeq(seqs) \o x
<1> DEFINE more == Append(seqs, x)
           N == Len(seqs)
<1>1. /\ more \in Seq(Seq(T)) /\ N \in Nat /\ Len(more) = N + 1
      /\ \A i \in 1..N : more[i] = seqs[i]
      /\ more[N + 1] = x
  OBVIOUS
<1>2. /\ Flattened(seqs) = [i \in 1..N |-> Joined(Flattened(seqs), seqs, i)]
      /\ Flattened(more) = [i \in 1..(N + 1) |-> Joined(Flattened(more), more, i)]
  BY <1>1, FlattenedIs
<1> HIDE DEF more, N
<1> DEFINE S == {n \in Nat : n \in 1..N => Flattened(more)[n] = Flattened(seqs)[n]}
<1>3. 0 \in S
  OBVIOUS
<1>4. ASSUME NEW n \in Nat, n \in S
      PROVE  n + 1 \in S
  <2> SUFFICES ASSUME n + 1 \in 1..N PROVE Flattened(more)[n + 1] = Flattened(seqs)[n + 1]
    OBVIOUS
  <2>1. n + 1 \in 1..(N + 1) /\ (n + 1) - 1 = n /\ (n + 1 # 1 => n \in 1..N)
    BY <1>1
  <2>2. more[n + 1] = seqs[n + 1] /\ (n + 1 # 1 => Flattened(more)[n] = Flattened(seqs)[n])
    BY <1>1, <1>4, <2>1
  <2>3. Joined(Flattened(more), more, n + 1) = Joined(Flattened(seqs), seqs, n + 1)
    BY <2>1, <2>2 DEF Joined
  <2> QED BY <1>2, <2>1, <2>3
<1> HIDE DEF S
<1>5. \A n \in 1..N : Flattened(more)[n] = Flattened(seqs)[n]
  <2>1. \A n \in Nat : n \in S
    BY <1>3, <1>4, Induction
  <2> QED BY <2>1 DEF S
<1>6. FlattenSeq(more) = Flattened(more)[N + 1]
  BY <1>1, FlattenIs
<1>7. CASE N = 0
  <2>1. seqs = <<>> /\ FlattenSeq(seqs) = <<>>
    BY <1>7, FlattenIs DEF N
  <2>2. FlattenSeq(more) = x
    BY <1>1, <1>2, <1>6, <1>7 DEF Joined
  <2> QED BY <2>1, <2>2 DEF more
<1>8. CASE N # 0
  <2>1. FlattenSeq(seqs) = Flattened(seqs)[N]
    BY <1>8, FlattenIs DEF N
  <2>2. N + 1 \in 1..(N + 1) /\ N + 1 # 1 /\ (N + 1) - 1 = N /\ N \in 1..N
    BY <1>1, <1>8
  <2>3. Joined(Flattened(more), more, N + 1) = Flattened(more)[N] \o x
    BY <1>1, <2>2 DEF Joined
  <2>4. Flattened(more)[N + 1] = Flattened(more)[N] \o x
    BY <1>2, <2>2, <2>3
  <2> QED BY <1>5, <1>6, <2>1, <2>2, <2>4 DEF more
<1> QED BY <1>7, <1>8

LEMMA FlattenNone == FlattenSeq(<<>>) = <<>>
<1>1. Len(<<>>) = 0
  OBVIOUS
<1> QED BY <1>1, FlattenIs

(* What executing a directive changes in the context.                      *)
LEMMA ExecuteFacts ==
    ASSUME NEW c \in Context, NEW s \in Found, NEW onDisk \in BOOLEAN
    PROVE  /\ Execute(c, s, onDisk) \in Context
           /\ Execute(c, s, onDisk).copied = c.copied
           /\ Execute(c, s, onDisk).mem = IF s.kind = "FROM" THEN Effect(c.mem, s) ELSE c.mem
           /\ Execute(c, s, onDisk).disk = IF onDisk THEN Effect(c.disk, s) ELSE c.disk
           /\ Execute(c, s, onDisk).copyOps = IF s.kind = "COPY" THEN Append(c.copyOps, s) ELSE c.copyOps
           /\ Execute(c, s, onDisk).mustScan = IF s.kind = "RUN" THEN TRUE ELSE c.mustScan
<1> DEFINE disk == IF onDisk THEN Effect(c.disk, s) ELSE c.disk
<1>1. /\ c.mem \in FileSystem /\ c.disk \in FileSystem
      /\ c.copyOps \in Seq(CopyOp) /\ c.mustScan \in BOOLEAN /\ c.copied \in SUBSET File
      /\ c = [mem |-> c.mem, copied |-> c.copied, disk |-> c.disk, copyOps |-> c.copyOps,
              mustScan |-> c.mustScan]
  BY DEF Context
<1>2. disk \in FileSystem /\ Effect(c.mem, s) \in FileSystem
  BY <1>1, EffectType
<1>3. CASE s.kind = "FROM"
  <2>1. Execute(c, s, onDisk) = [mem |-> Effect(c.mem, s), copied |-> c.copied, disk |-> disk,
                                 copyOps |-> c.copyOps, mustScan |-> c.mustScan]
    BY <1>1, <1>3 DEF Execute
  <2> QED BY <1>1, <1>2, <1>3, <2>1 DEF Context
<1>4. CASE s.kind = "COPY"
  <2>1. Execute(c, s, onDisk) = [mem |-> c.mem, copied |-> c.copied, disk |-> disk,
                                 copyOps |-> Append(c.copyOps, s), mustScan |-> c.mustScan]
    BY <1>1, <1>4 DEF Execute
  <2>2. s \in CopyOp
    BY <1>4 DEF Found
  <2>3. Append(c.copyOps, s) \in Seq(CopyOp)
    BY <1>1, <2>2
  <2> QED BY <1>1, <1>2, <1>4, <2>1, <2>3 DEF Context
<1>5. CASE s.kind = "RUN"
  <2>1. Execute(c, s, onDisk) = [mem |-> c.mem, copied |-> c.copied, disk |-> disk,
                                 copyOps |-> c.copyOps, mustScan |-> TRUE]
    BY <1>1, <1>5 DEF Execute
  <2> QED BY <1>1, <1>2, <1>5, <2>1 DEF Context
<1>6. s.kind \in {"FROM", "COPY", "RUN"}
  BY CopyOpFacts DEF Found
<1> QED BY <1>3, <1>4, <1>5, <1>6

(* What applying the layers of a cached node changes in the context.       *)
LEMMA CachedFacts ==
    ASSUME NEW c \in Context, NEW layers \in Seq(Layer), NEW onDisk \in BOOLEAN
    PROVE  /\ ApplyCached(c, layers, onDisk) \in Context
           /\ ApplyCached(c, layers, onDisk).copied \subseteq c.copied
           /\ ApplyCached(c, layers, onDisk).mem = ApplyLayers(c.mem, layers)
           /\ ApplyCached(c, layers, onDisk).disk = IF onDisk THEN ApplyLayers(c.disk, layers) ELSE c.disk
           /\ ApplyCached(c, layers, onDisk).copyOps = c.copyOps
           /\ ApplyCached(c, layers, onDisk).mustScan = c.mustScan
<1> DEFINE disk == IF onDisk THEN ApplyLayers(c.disk, layers) ELSE c.disk
           copied == {f \in c.copied : ApplyLayers(c.mem, layers)[f] = c.mem[f]}
<1>1. /\ c.mem \in FileSystem /\ c.disk \in FileSystem /\ c.copied \in SUBSET File
      /\ c = [mem |-> c.mem, copied |-> c.copied, disk |-> c.disk, copyOps |-> c.copyOps,
              mustScan |-> c.mustScan]
  BY DEF Context
<1>2. ApplyLayers(c.mem, layers) \in FileSystem /\ disk \in FileSystem
  BY <1>1, ApplyType
<1>3. copied \in SUBSET File /\ copied \subseteq c.copied
  BY <1>1
<1>4. ApplyCached(c, layers, onDisk) = [mem |-> ApplyLayers(c.mem, layers), copied |-> copied,
                                        disk |-> disk, copyOps |-> c.copyOps, mustScan |-> c.mustScan]
  <2>1. ApplyCached(c, layers, onDisk) =
           [c EXCEPT !.mem = ApplyLayers(c.mem, layers), !.copied = copied, !.disk = disk]
    BY DEF ApplyCached
  <2> HIDE DEF disk, copied
  <2> QED BY <1>1, <2>1
<1> HIDE DEF copied
<1> QED BY <1>2, <1>3, <1>4 DEF Context

-----------------------------------------------------------------------------
(* The layer that takes the files after m steps to those after n: by scan  *)
(* of the disk if there is a command among them, else of what they copy.   *)

Copies(q, m, n) == [k \in 1..(n - m) |-> q[m + k]]
Scans(q, m, n) == \E k \in (m + 1)..n : q[k].kind = "RUN"
LayerOfSteps(q, m, n) ==
    IF Scans(q, m, n)
    THEN LayerByScan([mem |-> After(q)[m], disk |-> After(q)[n], copied |-> {}])
    ELSE LayerByCopyOps([mem |-> After(q)[m], copyOps |-> Copies(q, m, n)])

(* A node scans if a RUN came since the last commit.                       *)
LEMMA ScansNext ==
    ASSUME NEW q, NEW m \in Nat, NEW n \in Nat, m <= n
    PROVE  /\ Scans(q, m, n + 1) <=> Scans(q, m, n) \/ q[n + 1].kind = "RUN"
           /\ ~Scans(q, n, n)
<1>1. \A k : k \in (m + 1)..(n + 1) <=> k \in (m + 1)..n \/ k = n + 1
  OBVIOUS
<1>2. \A k \in (n + 1)..n : FALSE
  OBVIOUS
<1> QED BY <1>1, <1>2 DEF Scans

(* The copies since the last commit, one node further.                     *)
LEMMA CopiesNext ==
    ASSUME NEW q \in Seq(Found), NEW m \in Nat, NEW n \in Nat, m <= n, n < Len(q),
           \A k \in (m + 1)..(n + 1) : q[k].kind = "COPY"
    PROVE  /\ Copies(q, m, n) \in Seq(CopyOp)
           /\ q[n + 1] \in CopyOp
           /\ Copies(q, m, n + 1) = Append(Copies(q, m, n), q[n + 1])
<1>1. \A k \in (m + 1)..(n + 1) : q[k] \in CopyOp
  <2>1. \A k \in (m + 1)..(n + 1) : k \in 1..Len(q)
    OBVIOUS
  <2>2. \A k \in (m + 1)..(n + 1) : q[k] \in Found
    BY <2>1
  <2> QED BY <2>2 DEF Found
<1>2. n - m \in Nat /\ (n + 1) - m = (n - m) + 1 /\ m + ((n - m) + 1) = n + 1
  OBVIOUS
<1>3. \A k \in 1..(n - m) : m + k \in (m + 1)..(n + 1)
  OBVIOUS
<1>4. Copies(q, m, n) \in [1..(n - m) -> CopyOp]
  BY <1>1, <1>3 DEF Copies
<1>5. Copies(q, m, n) \in Seq(CopyOp) /\ Len(Copies(q, m, n)) = n - m
  <2>1. ASSUME NEW len \in Nat, NEW T, NEW s \in [1..len -> T]
        PROVE  s \in Seq(T) /\ Len(s) = len
    OBVIOUS
  <2> QED BY <1>2, <1>4, <2>1
<1>6. q[n + 1] \in CopyOp
  BY <1>1
<1>7. Copies(q, m, n + 1) = [k \in 1..((n - m) + 1) |-> q[m + k]]
  BY <1>2 DEF Copies
<1>8. \A k \in 1..(n - m) : Copies(q, m, n)[k] = q[m + k]
  BY DEF Copies
<1> DEFINE c == Copies(q, m, n)
           L == n - m
<1>9. Append(c, q[n + 1]) = [k \in 1..(L + 1) |-> IF k = L + 1 THEN q[n + 1] ELSE c[k]]
  <2> HIDE DEF c
  <2> QED BY <1>5, <1>6 DEF c
<1>10. \A k \in 1..(L + 1) : (IF k = L + 1 THEN q[n + 1] ELSE c[k]) = q[m + k]
  <2>1. L \in Nat /\ m + (L + 1) = n + 1
    BY <1>2
  <2>2. \A k \in 1..L : c[k] = q[m + k]
    BY <1>8
  <2> HIDE DEF L, c
  <2>3. \A k \in 1..(L + 1) : k = L + 1 \/ k \in 1..L
    BY <2>1
  <2> QED BY <2>1, <2>2, <2>3
<1> HIDE DEF c
<1> QED BY <1>5, <1>6, <1>7, <1>9, <1>10 DEF c

LEMMA NoCopiesYet ==
    ASSUME NEW q, NEW n \in Nat
    PROVE  Copies(q, n, n) = <<>>
<1>1. n - n = 0 /\ 1..0 = {}
  OBVIOUS
<1> QED BY <1>1 DEF Copies

(* Copies that wait show what the steps lead to. *)
LEMMA CopiesLead ==
    ASSUME NEW q \in Seq(Found), NEW m \in Nat, NEW n \in Nat, m <= n, n <= Len(q),
           \A k \in (m + 1)..n : q[k].kind = "COPY"
    PROVE  /\ Copies(q, m, n) \in Seq(CopyOp)
           /\ WithCopies(After(q)[m], Copies(q, m, n)) = After(q)[n]
<1> DEFINE Right(k) == /\ Copies(q, m, k) \in Seq(CopyOp)
                       /\ WithCopies(After(q)[m], Copies(q, m, k)) = After(q)[k]
           S == {k \in Nat : m + k <= n => Right(m + k)}
<1>1. After(q)[m] \in FileSystem
  <2>1. m \in 0..Len(q)
    OBVIOUS
  <2> QED BY <2>1, AfterType
<1>2. 0 \in S
  <2>1. Copies(q, m, m) = <<>> /\ <<>> \in Seq(CopyOp) /\ m + 0 = m
    BY NoCopiesYet
  <2> QED BY <1>1, <2>1, NoCopies
<1>3. ASSUME NEW k \in Nat, k \in S
      PROVE  k + 1 \in S
  <2> SUFFICES ASSUME m + (k + 1) <= n PROVE Right(m + (k + 1))
    OBVIOUS
  <2> DEFINE x == m + k
  <2>1. x \in Nat /\ m <= x /\ x <= n /\ x < Len(q) /\ m + (k + 1) = x + 1 /\ x + 1 \in 1..Len(q)
        /\ (x + 1) - 1 = x
    OBVIOUS
  <2>2. Right(x)
    BY <1>3, <2>1
  <2> HIDE DEF x
  <2>3. \A i \in (m + 1)..(x + 1) : q[i].kind = "COPY"
    <3>1. \A i \in (m + 1)..(x + 1) : i \in (m + 1)..n
      BY <2>1 DEF x
    <3> QED BY <3>1
  <2>4. /\ Copies(q, m, x) \in Seq(CopyOp) /\ q[x + 1] \in CopyOp
        /\ Copies(q, m, x + 1) = Append(Copies(q, m, x), q[x + 1])
    BY <2>1, <2>3, CopiesNext
  <2>5. After(q)[x + 1] = Effect(After(q)[x], q[x + 1])
    BY <2>1, AfterSteps
  <2>6. WithCopies(After(q)[m], Copies(q, m, x + 1)) = After(q)[x + 1]
    BY <1>1, <2>2, <2>4, <2>5, OneMoreCopy
  <2>7. Copies(q, m, x + 1) \in Seq(CopyOp)
    <3> DEFINE c == Copies(q, m, x)
    <3> HIDE DEF c
    <3>1. Append(c, q[x + 1]) \in Seq(CopyOp)
      BY <2>4 DEF c
    <3> QED BY <2>4, <3>1 DEF c
  <2> QED BY <2>1, <2>6, <2>7
<1> HIDE DEF S
<1>4. n - m \in S
  <2>1. n - m \in Nat
    OBVIOUS
  <2> QED BY <1>2, <1>3, <2>1, Induction
<1>5. m + (n - m) = n
  OBVIOUS
<1> QED BY <1>4, <1>5 DEF S

(* The layer leads from the one to the other. *)
LEMMA LayerLeads ==
    ASSUME NEW q \in Seq(Found), NEW m \in Nat, NEW n \in Nat, m <= n, n <= Len(q),
           \A k \in (m + 1)..n : q[k].kind \in {"COPY", "RUN"}
    PROVE  /\ LayerOfSteps(q, m, n) \in Layer
           /\ ApplyLayers(After(q)[m], <<LayerOfSteps(q, m, n)>>) = After(q)[n]
<1>1. After(q)[m] \in FileSystem /\ After(q)[n] \in FileSystem
  <2>1. m \in 0..Len(q) /\ n \in 0..Len(q)
    OBVIOUS
  <2> QED BY <2>1, AfterType
<1>2. CASE Scans(q, m, n)
  <2> DEFINE c == [mem |-> After(q)[m], copied |-> {}, disk |-> After(q)[n],
                   copyOps |-> <<>>, mustScan |-> TRUE]
  <2>1. c \in Context
    <3>1. <<>> \in Seq(CopyOp) /\ {} \in SUBSET File
      OBVIOUS
    <3> QED BY <1>1, <3>1 DEF Context
  <2>2. LayerByScan(c) = LayerOfSteps(q, m, n)
    BY <1>2 DEF LayerOfSteps, LayerByScan
  <2>3. c.mem = After(q)[m] /\ c.disk = After(q)[n] /\ c.copied = {}
    OBVIOUS
  <2> HIDE DEF c
  <2> QED BY <2>1, <2>2, <2>3, ScanLayer
<1>3. CASE ~Scans(q, m, n)
  <2> DEFINE c == [mem |-> After(q)[m], copied |-> {}, disk |-> After(q)[n],
                   copyOps |-> Copies(q, m, n), mustScan |-> FALSE]
  <2>1. \A k \in (m + 1)..n : q[k].kind = "COPY"
    BY <1>3 DEF Scans
  <2>2. /\ Copies(q, m, n) \in Seq(CopyOp)
        /\ WithCopies(After(q)[m], Copies(q, m, n)) = After(q)[n]
    BY <2>1, CopiesLead
  <2>3. c \in Context
    <3>1. {} \in SUBSET File
      OBVIOUS
    <3> QED BY <1>1, <2>2, <3>1 DEF Context
  <2>4. LayerByCopyOps(c) = LayerOfSteps(q, m, n)
    BY <1>3 DEF LayerOfSteps, LayerByCopyOps
  <2>5. c.mem = After(q)[m] /\ c.copyOps = Copies(q, m, n)
    OBVIOUS
  <2> HIDE DEF c
  <2> QED BY <2>2, <2>3, <2>4, <2>5, CopyLayer
<1> QED BY <1>2, <1>3

-----------------------------------------------------------------------------
(* The steps that commit. *)

Committing(s, n, force) == n = 1 \/ s[n].commit \/ force
LastCommit(s, m, n, force) ==
    /\ Committing(s, m, force)
    /\ \A k \in (m + 1)..n : ~Committing(s, k, force)
Base(s, n, force) == CHOOSE m \in 1..n : LastCommit(s, m, n, force)

(* The last node that committed is the base of what waits.                 *)
LEMMA BaseFacts ==
    ASSUME NEW s, NEW n \in Nat, NEW force
    PROVE  /\ \A m \in 1..n : LastCommit(s, m, n, force) => Base(s, n, force) = m
           /\ n > 0 => Base(s, n, force) \in 1..n /\ LastCommit(s, Base(s, n, force), n, force)
<1>1. ASSUME NEW m \in 1..n, NEW k \in 1..n,
             LastCommit(s, m, n, force), LastCommit(s, k, n, force)
      PROVE  m = k
  <2>1. ~(m < k) /\ ~(k < m)
    <3>1. m < k => k \in (m + 1)..n
      OBVIOUS
    <3>2. k < m => m \in (k + 1)..n
      OBVIOUS
    <3> QED BY <1>1, <3>1, <3>2 DEF LastCommit
  <2> QED BY <2>1
<1>2. ASSUME n > 0
      PROVE  \E m \in 1..n : LastCommit(s, m, n, force)
  <2> DEFINE T == {m \in 1..n : Committing(s, m, force)}
  <2>1. T \in SUBSET (1..n) /\ T # {}
    BY <1>2 DEF Committing
  <2>2. Max(T) \in T /\ \A y \in T : Max(T) >= y
    BY <2>1, MaxFacts
  <2>3. \A k \in (Max(T) + 1)..n : k \in 1..n /\ k > Max(T)
    BY <2>2
  <2> QED BY <2>2, <2>3 DEF LastCommit
<1> QED BY <1>1, <1>2 DEF Base

(* The layers that node n of a stage has, whenever it has any. *)
LayerAt(st, q, n) ==
    IF n = 1 THEN q[1].layers
    ELSE <<LayerOfSteps(q, Base(st.steps, n - 1, st.force), n)>>

-----------------------------------------------------------------------------
(* A stage whose steps find what q has for them, as nothing is missing, and*)
(* none of which removes what another one copied.                          *)

CopyOf(q, n, f) == q[n].kind = "COPY" /\ q[n].dst = f
Stay(q) == \A n \in 1..Len(q), f \in File :
               (\E m \in 1..n : CopyOf(q, m, f)) => After(q)[n][f] # NoFile
Meant(st, q) ==
    /\ IsStage(st) /\ q \in Seq(Found) /\ Len(q) = Len(st.steps)
    /\ \A n \in 1..Len(q) : /\ q[n].kind = "FROM" <=> n = 1
                            /\ Resolved(st.steps[n]) = q[n]
                            /\ n > 1 => Finds(st.steps[n])
                            /\ q[n].kind = "COPY" => q[n].src # NoFile
                            /\ q[n].kind = "RUN" => ModifyFS(plan, st)
                            /\ st.ids[n] \in DOMAIN cache => cache[st.ids[n]] = LayerAt(st, q, n)
    /\ ModifyFS(plan, st) => root = EmptyFS
    /\ Stay(q)
Host == /\ IsCache(cache) /\ root \in FileSystem
        /\ \A a \in DOMAIN stagesDir : stagesDir[a] \in Layer /\ NoFile \notin Range(stagesDir[a])

Commits(st, n) == MustCommit(st.steps, n, at = Len(plan.stages), st.force)
Ahead(st, j, n) == \E g \in (n + 1)..Len(st.steps) : g <= j /\ Fetches(st, g)

(* The last of n steps to commit, none if m is 0. *)
IsLast(st, m, n) == /\ m = 0 \/ Commits(st, m)
                    /\ \A k \in (m + 1)..n : ~Commits(st, k)

(* After n nodes MemFS has the files of the last one to commit.  While a   *)
(* layer that was fetched is ahead the disk has those too; afterwards it   *)
(* has what all steps led to, and the rest waits.  What was copied, or     *)
(* waits, is of the copies so far.                                         *)
CopiesRight(q, n, c) ==
    /\ \A f \in c.copied : \E m \in 1..n : CopyOf(q, m, f)
    /\ \A i \in DOMAIN c.copyOps : \E m \in 1..n : q[m].kind = "COPY" /\ q[m] = c.copyOps[i]
ContextRight(st, q, j, n, c) ==
    /\ CopiesRight(q, n, c)
    /\ \E m \in 0..n :
        /\ IsLast(st, m, n)
        /\ c.mem = After(q)[m]
        /\ Ahead(st, j, n) => /\ NoPending(c)
                              /\ ModifyFS(plan, st) => c.disk = After(q)[m]
        /\ ~Ahead(st, j, n) => /\ ModifyFS(plan, st) => c.disk = After(q)[n]
                               /\ c.mustScan <=> Scans(q, m, n)
                               /\ ~c.mustScan => c.copyOps = Copies(q, m, n)

LayersSoFar(b, n) == FlattenSeq([m \in 1..n |-> b.pairs[m]])
PairsRight(st, j, n, b) ==
    /\ \A m \in (n + 1)..Len(st.steps) : b.pairs[m] = Fetched(st, j)[m]
    /\ \A m \in 2..n : Commits(st, m) => b.pairs[m] # <<>>
    /\ ApplyLayers(EmptyFS, LayersSoFar(b, n)) = b.ctx.mem

(* Nothing that was cached changes. *)
CacheGrows(st, q, n, c) ==
    /\ \A id \in DOMAIN cache : id \in DOMAIN c /\ c[id] = cache[id]
    /\ \A id \in DOMAIN c : \/ id \in DOMAIN cache
                            \/ \E m \in 1..n : id = st.ids[m] /\ c[id] = LayerAt(st, q, m)

NodesRight(st, q, j, n, b) ==
    /\ ContextRight(st, q, j, n, b.ctx)
    /\ PairsRight(st, j, n, b)
    /\ CacheGrows(st, q, n, b.cache)

-----------------------------------------------------------------------------

(* A stage of the plan and the steps it means have the same length.        *)
LEMMA MeantFacts ==
    ASSUME NEW st, NEW q, Meant(st, q)
    PROVE  /\ Len(q) \in Nat /\ Len(q) > 0 /\ Len(st.steps) = Len(q) /\ DOMAIN st.steps = 1..Len(q)
           /\ \A n \in 1..Len(q) : q[n] \in Found
           /\ q[1].kind = "FROM" /\ q[1].layers \in Seq(Layer)
           /\ \A n \in 2..Len(q) : q[n].kind \in {"COPY", "RUN"}
           /\ ModifyFS(plan, st) \in BOOLEAN
<1>1. Len(q) \in Nat /\ Len(q) > 0 /\ Len(st.steps) = Len(q) /\ DOMAIN st.steps = 1..Len(q)
  BY DEF Meant, IsStage
<1>2. \A n \in 1..Len(q) : q[n] \in Found
  BY DEF Meant
<1>3. \A n \in 1..Len(q) : q[n].kind = "FROM" <=> n = 1
  BY DEF Meant
<1>4. \A s \in Found : /\ s.kind \in {"FROM", "COPY", "RUN"}
                       /\ s.kind = "FROM" => s.layers \in Seq(Layer)
  BY CopyOpFacts DEF Found
<1>5. 1 \in 1..Len(q) /\ \A n \in 2..Len(q) : n \in 1..Len(q) /\ n # 1
  BY <1>1
<1>6. q[1].kind = "FROM"
  BY <1>3, <1>5
<1>7. q[1].layers \in Seq(Layer)
  BY <1>2, <1>4, <1>5, <1>6
<1>8. \A n \in 2..Len(q) : q[n].kind \in {"COPY", "RUN"}
  BY <1>2, <1>3, <1>4, <1>5
<1> QED BY <1>1, <1>2, <1>6, <1>7, <1>8, ModifyType

(* The layer of a node is one that leads from the last commit. *)
LEMMA LayerAtIs ==
    ASSUME NEW st, NEW q, Meant(st, q), NEW n \in 2..Len(q), NEW m \in 1..(n - 1),
           IsLast(st, m, n - 1)
    PROVE  LayerAt(st, q, n) = <<LayerOfSteps(q, m, n)>>
<1>1. /\ Len(q) \in Nat /\ Len(st.steps) = Len(q)
  BY MeantFacts
<1>2. n - 1 \in Nat /\ n # 1 /\ m # 0 /\ n \in Nat
  BY <1>1
<1>3. \A k \in 1..(n - 1) : Commits(st, k) <=> Committing(st.steps, k, st.force)
  <2>1. \A k \in 1..(n - 1) : k # Len(st.steps)
    BY <1>1
  <2> QED BY <2>1 DEF Commits, MustCommit, Committing
<1>4. \A k \in (m + 1)..(n - 1) : k \in 1..(n - 1)
  BY <1>1
<1>5. LastCommit(st.steps, m, n - 1, st.force)
  BY <1>2, <1>3, <1>4 DEF IsLast, LastCommit
<1>6. Base(st.steps, n - 1, st.force) = m
  BY <1>2, <1>5, BaseFacts
<1> QED BY <1>2, <1>6 DEF LayerAt

(* A fetched node has the layer of its step, and there is one. *)
LEMMA FetchedIs ==
    ASSUME NEW st, NEW q, Meant(st, q), NEW j \in Nat, CanFetch(st, j),
           NEW n \in 1..Len(q)
    PROVE  /\ Fetched(st, j)[n] # <<>> <=> n <= j /\ Fetches(st, n)
           /\ n <= j /\ Fetches(st, n) => n > 1 /\ Fetched(st, j)[n] = LayerAt(st, q, n)
           /\ Fetches(st, n) => Commits(st, n)
<1>1. Len(q) \in Nat /\ DOMAIN st.steps = 1..Len(q)
  BY MeantFacts
<1>2. Fetched(st, j)[n] = IF n <= j /\ Fetches(st, n) THEN cache[st.ids[n]] ELSE <<>>
  BY <1>1 DEF Fetched
<1>3. ASSUME n <= j, Fetches(st, n)
      PROVE  n > 1 /\ Fetched(st, j)[n] = LayerAt(st, q, n) /\ Fetched(st, j)[n] # <<>>
  <2>1. n > 1
    BY <1>3 DEF Fetches
  <2>2. n \in 1..j
    BY <1>3
  <2>3. st.ids[n] \in DOMAIN cache
    BY <1>3, <2>2 DEF CanFetch
  <2>4. Fetched(st, j)[n] = LayerAt(st, q, n)
    BY <1>2, <1>3, <2>3 DEF Meant
  <2>5. LayerAt(st, q, n) # <<>>
    BY <2>1 DEF LayerAt
  <2> QED BY <2>1, <2>4, <2>5
<1> QED BY <1>2, <1>3 DEF Fetches, Commits, MustCommit

(* The nodes fetched are those before the first one that is missing.       *)
LEMMA LatestIs ==
    ASSUME NEW st, NEW q, Meant(st, q), NEW pairs
    PROVE  LET T == {n \in 2..Len(st.steps) :
                        /\ st.steps[n].commit
                        /\ \A k \in 2..n : st.steps[k].commit => pairs[k] # <<>>}
           IN /\ LatestFetched(st.steps, pairs) \in {0} \cup T
              /\ \A g \in T : LatestFetched(st.steps, pairs) >= g
              /\ LatestFetched(st.steps, pairs) \in Nat
<1> DEFINE T == {n \in 2..Len(st.steps) :
                    /\ st.steps[n].commit
                    /\ \A k \in 2..n : st.steps[k].commit => pairs[k] # <<>>}
<1>1. Len(st.steps) \in Nat
  BY MeantFacts
<1>2. T \subseteq 2..Len(st.steps)
  OBVIOUS
<1>3. LatestFetched(st.steps, pairs) = Max({0} \cup T)
  BY DEF LatestFetched
<1> HIDE DEF T
<1>4. {0} \cup T \in SUBSET (0..Len(st.steps)) /\ {0} \cup T # {}
  BY <1>1, <1>2
<1>5. Max({0} \cup T) \in {0} \cup T /\ \A y \in {0} \cup T : Max({0} \cup T) >= y
  BY <1>1, <1>4, MaxFromZero
<1>6. LatestFetched(st.steps, pairs) \in Nat
  BY <1>1, <1>3, <1>4, <1>5
<1> QED BY <1>3, <1>5, <1>6 DEF T

(* A node is skipped while a layer that was fetched is ahead, and then it  *)
(* does not commit.                                                        *)
LEMMA SkippedIs ==
    ASSUME NEW st, NEW q, Meant(st, q), NEW j \in Nat, CanFetch(st, j),
           NEW n \in Nat, NEW x, x = n + 1, x \in 1..Len(q), NEW b, PairsRight(st, j, n, b),
           b.pairs[x] = <<>>, ~Runs(st, b, x)
    PROVE  x # 1 /\ Ahead(st, j, x) /\ Ahead(st, j, n) /\ ~Commits(st, x)
<1> DEFINE g == LatestFetched(st.steps, b.pairs)
<1>1. Len(q) \in Nat /\ Len(st.steps) = Len(q)
  BY MeantFacts
<1>2. x # 1 /\ ~(x >= g)
  BY DEF Runs
<1>3. g \in Nat
  BY LatestIs
<1>4. g > x /\ g # 0
  BY <1>1, <1>2, <1>3
<1>5. /\ g \in 2..Len(st.steps) /\ st.steps[g].commit
      /\ \A k \in 2..g : st.steps[k].commit => b.pairs[k] # <<>>
  BY <1>4, LatestIs
<1> HIDE DEF g
<1>6. g \in (n + 1)..Len(st.steps) /\ g \in 1..Len(q) /\ g \in (x + 1)..Len(st.steps) /\ g \in 2..g
      /\ x \in 2..g
  BY <1>1, <1>2, <1>4, <1>5
<1>7. b.pairs[g] # <<>> /\ b.pairs[g] = Fetched(st, j)[g]
  BY <1>5, <1>6 DEF PairsRight
<1>8. g <= j /\ Fetches(st, g)
  BY <1>6, <1>7, FetchedIs
<1>9. Ahead(st, j, x) /\ Ahead(st, j, n)
  BY <1>6, <1>8 DEF Ahead
<1>10. ~st.steps[x].commit
  BY <1>5, <1>6
<1>11. ~st.force
  <2>1. ASSUME st.force PROVE FALSE
    <3>1. x <= j /\ x > 1
      BY <1>1, <1>2, <1>3, <1>4, <1>8
    <3>0. Fetches(st, x)
      BY <2>1, <3>1 DEF Fetches
    <3>2. x \in (n + 1)..Len(st.steps)
      BY <1>1
    <3>3. b.pairs[x] = Fetched(st, j)[x]
      BY <3>2 DEF PairsRight
    <3> QED BY <3>0, <3>1, <3>3, FetchedIs
  <2> QED BY <2>1
<1>12. x # Len(st.steps)
  BY <1>1, <1>4, <1>5
<1> QED BY <1>2, <1>9, <1>10, <1>11, <1>12 DEF Commits, MustCommit

(* A node after the first runs when no such layer is ahead.                *)
LEMMA RunningIs ==
    ASSUME NEW st, NEW q, Meant(st, q), NEW j \in Nat, CanFetch(st, j),
           NEW n \in Nat, NEW x, x = n + 1, x \in 1..Len(q), NEW b, PairsRight(st, j, n, b),
           b.pairs[x] = <<>>, Runs(st, b, x), x # 1
    PROVE  ~Ahead(st, j, n) /\ ~Ahead(st, j, x)
<1>1. Len(q) \in Nat /\ Len(st.steps) = Len(q)
  BY MeantFacts
<1>2. x \in (n + 1)..Len(st.steps)
  BY <1>1
<1>3. ~(x <= j /\ Fetches(st, x))
  BY <1>2, FetchedIs DEF PairsRight
<1>4. ASSUME NEW g \in (n + 1)..Len(st.steps), g <= j, Fetches(st, g)
      PROVE  FALSE
  <2>1. g # x /\ g > x /\ x <= j /\ x > 1
    BY <1>1, <1>3, <1>4
  <2>2. ~st.steps[x].commit /\ ~st.force
    BY <1>3, <2>1 DEF Fetches
  <2>3. st.steps[g].commit /\ g \in 2..Len(st.steps)
    BY <1>1, <1>4, <2>1, <2>2 DEF Fetches
  <2>4. ASSUME NEW k \in 2..g, st.steps[k].commit
        PROVE  b.pairs[k] # <<>>
    <3>1. CASE k <= n
      <4>1. k \in 2..n /\ Commits(st, k)
        BY <2>4, <3>1 DEF Commits, MustCommit
      <4> QED BY <4>1 DEF PairsRight
    <3>2. CASE ~(k <= n)
      <4>1. k \in (n + 1)..Len(st.steps) /\ k \in 1..Len(q) /\ k <= j /\ k > 1
        BY <1>1, <1>4, <2>3, <3>2
      <4>2. Fetches(st, k)
        BY <2>4, <4>1 DEF Fetches
      <4>3. Fetched(st, j)[k] # <<>>
        BY <4>1, <4>2, FetchedIs
      <4> QED BY <4>1, <4>3 DEF PairsRight
    <3> QED BY <3>1, <3>2
  <2>5. LatestFetched(st.steps, b.pairs) >= g /\ LatestFetched(st.steps, b.pairs) \in Nat
    BY <2>3, <2>4, LatestIs
  <2>6. x >= LatestFetched(st.steps, b.pairs)
    BY DEF Runs
  <2> QED BY <1>1, <2>1, <2>3, <2>5, <2>6
<1>5. \A g \in (x + 1)..Len(st.steps) : g \in (n + 1)..Len(st.steps)
  BY <1>1
<1> QED BY <1>4, <1>5 DEF Ahead

LEMMA AppendIs ==
    ASSUME NEW T, NEW s \in Seq(T), NEW e \in T
    PROVE  Append(s, e) = [m \in 1..(Len(s) + 1) |-> IF m = Len(s) + 1 THEN e ELSE s[m]]
<1> DEFINE a == Append(s, e)
<1>1. /\ a \in Seq(T) /\ Len(a) = Len(s) + 1 /\ Len(s) \in Nat
      /\ \A m \in 1..Len(s) : a[m] = s[m]
      /\ a[Len(s) + 1] = e
  OBVIOUS
<1> HIDE DEF a
<1>2. a = [m \in 1..Len(a) |-> a[m]]
  BY <1>1
<1>3. \A m \in 1..(Len(s) + 1) : a[m] = IF m = Len(s) + 1 THEN e ELSE s[m]
  BY <1>1
<1> QED BY <1>1, <1>2, <1>3 DEF a

LEMMA ASequence ==
    ASSUME NEW T, NEW n \in Nat, NEW s \in [1..n -> T]
    PROVE  s \in Seq(T) /\ Len(s) = n
OBVIOUS

LEMMA OneMore ==
    ASSUME NEW T, NEW n \in Nat, NEW s \in [1..n -> T], NEW more, NEW e \in T,
           more = [m \in 1..(n + 1) |-> IF m = n + 1 THEN e ELSE s[m]]
    PROVE  more = Append(s, e)
<1>1. s \in Seq(T) /\ Len(s) = n
  BY ASequence
<1>2. Append(s, e) = [m \in 1..(Len(s) + 1) |-> IF m = Len(s) + 1 THEN e ELSE s[m]]
  BY <1>1, AppendIs
<1> QED BY <1>1, <1>2

(* The layers of one node more.                                            *)
LEMMA LayersNext ==
    ASSUME NEW N \in Nat, NEW p \in [1..N -> Seq(Layer)], NEW d \in [1..N -> Seq(Layer)],
           NEW n \in Nat, NEW x, x = n + 1, n < N, \A m \in 1..n : d[m] = p[m]
    PROVE  /\ FlattenSeq([m \in 1..n |-> p[m]]) \in Seq(Layer)
           /\ FlattenSeq([m \in 1..x |-> d[m]]) = FlattenSeq([m \in 1..n |-> p[m]]) \o d[x]
<1> DEFINE T == Seq(Layer)
           first == [m \in 1..n |-> p[m]]
           more == [m \in 1..x |-> d[m]]
           e == d[x]
<1>1. x \in 1..N /\ \A m \in 1..n : m \in 1..N
  OBVIOUS
<1>2. e \in T /\ \A m \in 1..n : p[m] \in T
  BY <1>1
<1> HIDE DEF T
<1>3. first \in [1..n -> T]
  BY <1>2
<1>4. \A m \in 1..(n + 1) : d[m] = IF m = n + 1 THEN e ELSE first[m]
  <2>1. \A m \in 1..(n + 1) : m = n + 1 \/ m \in 1..n
    OBVIOUS
  <2> QED BY <2>1
<1>5. more = [m \in 1..(n + 1) |-> IF m = n + 1 THEN e ELSE first[m]]
  <2> HIDE DEF e, first
  <2> QED BY <1>4
<1> HIDE DEF first, more, e
<1>6. more = Append(first, e)
  BY <1>2, <1>3, <1>5, OneMore
<1>7. first \in Seq(T)
  BY <1>3, ASequence
<1>8. FlattenSeq(Append(first, e)) = FlattenSeq(first) \o e
  BY <1>2, <1>7, FlattenAppend DEF T
<1>9. FlattenSeq(first) \in Seq(Layer)
  BY <1>7, FlattenType DEF T
<1> QED BY <1>6, <1>8, <1>9 DEF first, more, e

(* What a node adds is added to what there was.                            *)
LEMMA PairsNext ==
    ASSUME NEW st, NEW j, NEW n \in Nat, NEW x, x = n + 1, x \in 1..Len(st.steps), IsStage(st),
           NEW b, IsBuilt(st, b), NEW d, IsBuilt(st, d), PairsRight(st, j, n, b),
           \A m \in 1..Len(st.steps) : m # x => d.pairs[m] = b.pairs[m],
           d.ctx.mem = ApplyLayers(b.ctx.mem, d.pairs[x]),
           x # 1 /\ Commits(st, x) => d.pairs[x] # <<>>
    PROVE  PairsRight(st, j, x, d)
<1>1. Len(st.steps) \in Nat /\ n < Len(st.steps)
  BY DEF IsStage
<1>2. /\ b.pairs \in [1..Len(st.steps) -> Seq(Layer)]
      /\ d.pairs \in [1..Len(st.steps) -> Seq(Layer)]
  BY DEF IsBuilt
<1>3. /\ \A m \in 1..n : m \in 1..Len(st.steps) /\ m # x
      /\ \A m \in (x + 1)..Len(st.steps) : m \in 1..Len(st.steps) /\ m # x /\ m \in (n + 1)..Len(st.steps)
      /\ \A m \in 2..x : m = x \/ (m \in 2..n /\ m \in 1..n)
      /\ x \in 2..x => x # 1
  BY <1>1
<1>4. /\ LayersSoFar(b, n) \in Seq(Layer)
      /\ LayersSoFar(d, x) = LayersSoFar(b, n) \o d.pairs[x]
  <2>1. \A m \in 1..n : d.pairs[m] = b.pairs[m]
    BY <1>3
  <2> DEFINE N == Len(st.steps)
             bp == b.pairs
             dp == d.pairs
  <2>2. N \in Nat /\ n < N /\ bp \in [1..N -> Seq(Layer)] /\ dp \in [1..N -> Seq(Layer)]
        /\ \A m \in 1..n : dp[m] = bp[m]
    BY <1>1, <1>2, <2>1
  <2> HIDE DEF N, bp, dp
  <2>3. /\ FlattenSeq([m \in 1..n |-> bp[m]]) \in Seq(Layer)
        /\ FlattenSeq([m \in 1..x |-> dp[m]]) = FlattenSeq([m \in 1..n |-> bp[m]]) \o dp[x]
    BY <2>2, LayersNext
  <2> QED BY <2>3 DEF bp, dp, LayersSoFar
<1>5. ApplyLayers(EmptyFS, LayersSoFar(d, x)) = d.ctx.mem
  <2>1. d.pairs[x] \in Seq(Layer)
    BY <1>2
  <2>2. ApplyLayers(EmptyFS, LayersSoFar(b, n) \o d.pairs[x])
           = ApplyLayers(ApplyLayers(EmptyFS, LayersSoFar(b, n)), d.pairs[x])
    BY <1>4, <2>1, EmptyType, ApplyMore
  <2> QED BY <1>4, <2>2 DEF PairsRight
<1>6. \A m \in (x + 1)..Len(st.steps) : d.pairs[m] = Fetched(st, j)[m]
  BY <1>3 DEF PairsRight
<1>7. \A m \in 2..x : Commits(st, m) => d.pairs[m] # <<>>
  BY <1>3 DEF PairsRight
<1> QED BY <1>5, <1>6, <1>7 DEF PairsRight

LEMMA GrowsNext ==
    ASSUME NEW st, NEW q, NEW n \in Nat, NEW c, CacheGrows(st, q, n, c)
    PROVE  CacheGrows(st, q, n + 1, c)
<1>1. \A m \in 1..n : m \in 1..(n + 1)
  OBVIOUS
<1> QED BY <1>1 DEF CacheGrows

LEMMA LastNext ==
    ASSUME NEW st, NEW n \in Nat, NEW m \in 0..n, IsLast(st, m, n)
    PROVE  /\ Commits(st, n + 1) => IsLast(st, n + 1, n + 1)
           /\ ~Commits(st, n + 1) => IsLast(st, m, n + 1)
           /\ n # 0 => m # 0
<1>1. \A k \in (n + 1 + 1)..(n + 1) : FALSE
  OBVIOUS
<1>2. \A k \in (m + 1)..(n + 1) : k \in (m + 1)..n \/ k = n + 1
  OBVIOUS
<1>3. n # 0 => 1 \in (0 + 1)..n /\ Commits(st, 1)
  BY DEF Commits, MustCommit
<1> QED BY <1>1, <1>2, <1>3 DEF IsLast

(* The layer of a node after the first leads to its files. *)
LEMMA LeadsTo ==
    ASSUME NEW st, NEW q, Meant(st, q), NEW x \in 2..Len(q), NEW m \in 1..(x - 1)
    PROVE  /\ LayerOfSteps(q, m, x) \in Layer
           /\ ApplyLayers(After(q)[m], <<LayerOfSteps(q, m, x)>>) = After(q)[x]
<1>1. /\ Len(q) \in Nat /\ \A k \in 2..Len(q) : q[k].kind \in {"COPY", "RUN"}
  BY MeantFacts
<1>2. m \in Nat /\ x \in Nat /\ m <= x /\ x <= Len(q) /\ \A k \in (m + 1)..x : k \in 2..Len(q)
  BY <1>1
<1>3. q \in Seq(Found)
  BY DEF Meant
<1> QED BY <1>1, <1>2, <1>3, LayerLeads

(* What was copied stays what earlier steps copied.                        *)
LEMMA CopiesKept ==
    ASSUME NEW q, NEW n \in Nat, NEW x, x = n + 1, NEW c, CopiesRight(q, n, c),
           NEW d, d.copied \subseteq c.copied, d.copyOps = c.copyOps \/ d.copyOps = <<>>
    PROVE  CopiesRight(q, x, d)
<1>1. \A m \in 1..n : m \in 1..x
  OBVIOUS
<1>2. \A f \in d.copied : \E m \in 1..x : CopyOf(q, m, f)
  BY <1>1 DEF CopiesRight
<1>3. \A i \in DOMAIN d.copyOps : \E m \in 1..x : q[m].kind = "COPY" /\ q[m] = d.copyOps[i]
  <2>1. CASE d.copyOps = c.copyOps
    BY <1>1, <2>1 DEF CopiesRight
  <2>2. CASE d.copyOps = <<>>
    BY <2>2
  <2> QED BY <2>1, <2>2
<1> QED BY <1>2, <1>3 DEF CopiesRight

LEMMA CopiesExecuted ==
    ASSUME NEW q, NEW n \in Nat, NEW x, x = n + 1, NEW c \in Context, CopiesRight(q, n, c),
           q[x] \in Found, NEW onDisk \in BOOLEAN
    PROVE  CopiesRight(q, x, Execute(c, q[x], onDisk))
<1> DEFINE e == Execute(c, q[x], onDisk)
<1>1. /\ e.copied = c.copied
      /\ e.copyOps = IF q[x].kind = "COPY" THEN Append(c.copyOps, q[x]) ELSE c.copyOps
  BY ExecuteFacts
<1> HIDE DEF e
<1>2. CASE q[x].kind # "COPY"
  <2>1. CopiesRight(q, x, e)
    BY <1>1, <1>2, CopiesKept
  <2> QED BY <2>1 DEF e
<1>3. CASE q[x].kind = "COPY"
  <2>1. c.copyOps \in Seq(CopyOp)
    BY DEF Context
  <2>2. /\ \A i \in DOMAIN e.copyOps : i \in DOMAIN c.copyOps \/ i = Len(c.copyOps) + 1
        /\ e.copyOps[Len(c.copyOps) + 1] = q[x]
        /\ \A i \in DOMAIN c.copyOps : e.copyOps[i] = c.copyOps[i]
    <3> DEFINE ops == c.copyOps
               s == q[x]
    <3> HIDE DEF ops, s
    <3>1. DOMAIN Append(ops, s) = 1..(Len(ops) + 1) /\ DOMAIN ops = 1..Len(ops) /\ Len(ops) \in Nat
      BY <2>1 DEF ops
    <3>2. Append(ops, s)[Len(ops) + 1] = s /\ \A i \in 1..Len(ops) : Append(ops, s)[i] = ops[i]
      BY <2>1 DEF ops
    <3>3. e.copyOps = Append(ops, s)
      BY <1>1, <1>3 DEF ops, s
    <3> QED BY <3>1, <3>2, <3>3 DEF ops, s
  <2>3. x \in 1..x /\ \A m \in 1..n : m \in 1..x
    OBVIOUS
  <2>4. \A f \in e.copied : \E m \in 1..x : CopyOf(q, m, f)
    BY <1>1, <2>3 DEF CopiesRight
  <2>5. \A i \in DOMAIN e.copyOps : \E m \in 1..x : q[m].kind = "COPY" /\ q[m] = e.copyOps[i]
    <3>1. \A i \in DOMAIN c.copyOps : \E m \in 1..n : q[m].kind = "COPY" /\ q[m] = c.copyOps[i]
      BY DEF CopiesRight
    <3> QED BY <1>3, <2>2, <2>3, <3>1
  <2>6. CopiesRight(q, x, e)
    BY <2>4, <2>5 DEF CopiesRight
  <2> QED BY <2>6 DEF e
<1> QED BY <1>2, <1>3

LEMMA CopiesCommitted ==
    ASSUME NEW q, NEW x, NEW c \in Context, CopiesRight(q, x, c), NEW s \in Found,
           Committed(c, s).copyOps = <<>>
    PROVE  CopiesRight(q, x, Committed(c, s))
<1> DEFINE d == Committed(c, s)
<1>1. \A f \in d.copied : f \in c.copied \/ \E i \in DOMAIN c.copyOps : c.copyOps[i].dst = f
  BY CommittedType
<1> HIDE DEF d
<1>2. \A f \in d.copied : \E m \in 1..x : CopyOf(q, m, f)
  BY <1>1 DEF CopiesRight, CopyOf
<1>3. d.copyOps = <<>>
  BY DEF d
<1>4. CopiesRight(q, x, d)
  BY <1>2, <1>3 DEF CopiesRight
<1> QED BY <1>4 DEF d

(* A layer by scan misses nothing of what was copied, if it is there.      *)
LEMMA NothingMissing ==
    ASSUME NEW c, NEW d, \A f \in c.copied : c.disk[f] # NoFile,
           d.disk = c.disk, d.mem = c.mem, d.copied = {}
    PROVE  LayerByScan(c) = LayerByScan(d)
<1>1. \A f \in File : (c.disk[f] = NoFile => f \notin c.copied) /\ (d.disk[f] = NoFile => f \notin d.copied)
  OBVIOUS
<1>2. {f \in File : c.disk[f] # c.mem[f] /\ (c.disk[f] = NoFile => f \notin c.copied)}
      = {f \in File : d.disk[f] # d.mem[f] /\ (d.disk[f] = NoFile => f \notin d.copied)}
  BY <1>1
<1> QED BY <1>2 DEF LayerByScan

(* A node whose layer was fetched leaves the files that its directive      *)
(* means.                                                                  *)
LEMMA FetchedNode ==
    ASSUME NEW st, NEW q, Meant(st, q), Host, NEW j \in Nat, CanFetch(st, j),
           NEW n \in Nat, NEW x, x = n + 1, x \in 1..Len(q),
           NEW b, IsBuilt(st, b), NodesRight(st, q, j, n, b), b.pairs[x] # <<>>
    PROVE  NodesRight(st, q, j, x, BuildNode(st, b, x))
<1> DEFINE onDisk == ModifyFS(plan, st)
           cached == ApplyCached(b.ctx, b.pairs[x], onDisk)
           d == BuildNode(st, b, x)
<1>1. /\ Len(q) \in Nat /\ Len(st.steps) = Len(q) /\ onDisk \in BOOLEAN /\ IsStage(st)
  BY MeantFacts DEF Meant
<1>2. /\ b.ctx \in Context /\ b.pairs \in [1..Len(st.steps) -> Seq(Layer)]
      /\ b = [ctx |-> b.ctx, pairs |-> b.pairs, cache |-> b.cache]
  BY DEF IsBuilt
<1>3. b.pairs[x] \in Seq(Layer)
  BY <1>1, <1>2
<1>4. x \in (n + 1)..Len(st.steps)
  BY <1>1
<1>5. b.pairs[x] = Fetched(st, j)[x]
  BY <1>4 DEF NodesRight, PairsRight
<1>6. x <= j /\ Fetches(st, x) /\ x > 1 /\ b.pairs[x] = LayerAt(st, q, x) /\ Commits(st, x)
  BY <1>5, FetchedIs
<1>7. Ahead(st, j, n)
  BY <1>4, <1>6 DEF Ahead
<1>8. PICK m \in 0..n : /\ IsLast(st, m, n) /\ b.ctx.mem = After(q)[m] /\ NoPending(b.ctx)
                        /\ onDisk => b.ctx.disk = After(q)[m]
  BY <1>7 DEF NodesRight, ContextRight
<1>9. x \in 2..Len(q) /\ m \in 1..(x - 1) /\ x - 1 = n
  BY <1>1, <1>6, <1>8, LastNext
<1>10. b.pairs[x] = <<LayerOfSteps(q, m, x)>>
  BY <1>6, <1>8, <1>9, LayerAtIs
<1>11. ApplyLayers(After(q)[m], b.pairs[x]) = After(q)[x]
  BY <1>9, <1>10, LeadsTo
<1>12. d = [ctx |-> cached, pairs |-> b.pairs, cache |-> b.cache]
  <2>1. BuildNode(st, b, x) = [b EXCEPT !.ctx = ApplyCached(b.ctx, b.pairs[x], ModifyFS(plan, st))]
    BY DEF BuildNode, Runs
  <2> HIDE DEF cached
  <2> QED BY <1>2, <2>1 DEF cached
<1>13. /\ cached.mem = After(q)[x] /\ (onDisk => cached.disk = After(q)[x])
       /\ cached.copied \subseteq b.ctx.copied /\ cached.copyOps = <<>> /\ ~cached.mustScan
       /\ cached.mem = ApplyLayers(b.ctx.mem, b.pairs[x])
  BY <1>1, <1>2, <1>3, <1>8, <1>11, CachedFacts DEF NoPending
<1>14. IsBuilt(st, d)
  BY <1>1, NodeType DEF Host
<1> HIDE DEF cached, d
<1>15. d.ctx = cached /\ d.pairs = b.pairs /\ d.cache = b.cache
  BY <1>12
<1>16. PairsRight(st, j, x, d)
  BY <1>1, <1>13, <1>14, <1>15, PairsNext DEF NodesRight
<1>17. CacheGrows(st, q, x, d.cache)
  BY <1>15, GrowsNext DEF NodesRight
<1>18. ContextRight(st, q, j, x, d.ctx)
  <2>1. x \in 0..x /\ IsLast(st, x, x)
    BY <1>6, <1>8, LastNext
  <2>2. ~Scans(q, x, x) /\ Copies(q, x, x) = <<>>
    <3>1. x \in Nat /\ x <= x
      BY <1>1
    <3> QED BY <3>1, ScansNext, NoCopiesYet
  <2>3. NoPending(d.ctx)
    BY <1>13, <1>15 DEF NoPending
  <2>4. d.ctx.mem = After(q)[x] /\ (onDisk => d.ctx.disk = After(q)[x])
    BY <1>13, <1>15
  <2>5. CopiesRight(q, x, d.ctx)
    <3>1. CopiesRight(q, n, b.ctx)
      BY DEF NodesRight, ContextRight
    <3> QED BY <1>13, <1>15, <3>1, CopiesKept
  <2> QED BY <2>1, <2>2, <2>3, <2>4, <2>5 DEF ContextRight, NoPending
<1> QED BY <1>16, <1>17, <1>18 DEF NodesRight, d

(* So does a node that is skipped because a later one was fetched.         *)
LEMMA SkippedNode ==
    ASSUME NEW st, NEW q, Meant(st, q), Host, NEW j \in Nat, CanFetch(st, j),
           NEW n \in Nat, NEW x, x = n + 1, x \in 1..Len(q),
           NEW b, IsBuilt(st, b), NodesRight(st, q, j, n, b), b.pairs[x] = <<>>, ~Runs(st, b, x)
    PROVE  NodesRight(st, q, j, x, BuildNode(st, b, x))
<1>1. BuildNode(st, b, x) = b
  BY DEF BuildNode
<1>2. x # 1 /\ Ahead(st, j, x) /\ Ahead(st, j, n) /\ ~Commits(st, x)
  BY SkippedIs DEF NodesRight
<1>3. Len(q) \in Nat /\ Len(st.steps) = Len(q) /\ IsStage(st)
  BY MeantFacts DEF Meant
<1>4. PairsRight(st, j, x, b)
  <2>1. b.ctx.mem \in FileSystem
    BY DEF IsBuilt, Context
  <2>2. b.ctx.mem = ApplyLayers(b.ctx.mem, b.pairs[x])
    BY <2>1, ApplyNone
  <2> QED BY <1>2, <1>3, <2>2, PairsNext DEF NodesRight
<1>5. CacheGrows(st, q, x, b.cache)
  BY GrowsNext DEF NodesRight
<1>6. ContextRight(st, q, j, x, b.ctx)
  <2>1. PICK m \in 0..n : /\ IsLast(st, m, n) /\ b.ctx.mem = After(q)[m] /\ NoPending(b.ctx)
                          /\ ModifyFS(plan, st) => b.ctx.disk = After(q)[m]
    BY <1>2 DEF NodesRight, ContextRight
  <2>2. IsLast(st, m, x) /\ m \in 0..x
    BY <1>2, <2>1, LastNext
  <2>3. CopiesRight(q, x, b.ctx)
    <3>1. CopiesRight(q, n, b.ctx)
      BY DEF NodesRight, ContextRight
    <3> QED BY <3>1, CopiesKept
  <2> QED BY <1>2, <2>1, <2>2, <2>3 DEF ContextRight
<1> QED BY <1>1, <1>4, <1>5, <1>6 DEF NodesRight

LEMMA ScansUpTo ==
    ASSUME NEW q, NEW m \in Nat, NEW n \in Nat, m <= n, NEW x, x = n + 1
    PROVE  Scans(q, m, x) <=> Scans(q, m, n) \/ q[x].kind = "RUN"
<1>1. \A k : k \in (m + 1)..x <=> k \in (m + 1)..n \/ k = x
  OBVIOUS
<1> QED BY <1>1 DEF Scans

(* A layer is pushed for an ID that has none, or has this one.             *)
LEMMA GrowsBy ==
    ASSUME NEW st, NEW q, Meant(st, q), NEW n \in Nat, NEW x, x = n + 1, x \in 1..Len(q),
           NEW b, CacheGrows(st, q, n, b.cache), NEW layers, layers = LayerAt(st, q, x)
    PROVE  CacheGrows(st, q, x, Pushed(b, st.ids[x], layers))
<1> DEFINE id == st.ids[x]
           c == Updated(b.cache, One(id, layers))
<1>1. CASE Len(layers) > 1
  BY <1>1, GrowsNext DEF Pushed
<1>2. CASE ~(Len(layers) > 1)
  <2>1. Pushed(b, id, layers) = c
    BY <1>2 DEF Pushed
  <2>2. /\ DOMAIN c = DOMAIN b.cache \cup {id}
        /\ \A i \in DOMAIN c : c[i] = IF i = id THEN layers ELSE b.cache[i]
    BY DEF Updated, One
  <2>3. id \in DOMAIN cache => cache[id] = layers
    BY DEF Meant
  <2>4. x \in 1..x /\ \A m \in 1..n : m \in 1..x
    OBVIOUS
  <2> HIDE DEF c
  <2>5. ASSUME NEW i \in DOMAIN cache
        PROVE  i \in DOMAIN c /\ c[i] = cache[i]
    BY <2>2, <2>3 DEF CacheGrows
  <2>6. ASSUME NEW i \in DOMAIN c, i \notin DOMAIN cache
        PROVE  \E m \in 1..x : i = st.ids[m] /\ c[i] = LayerAt(st, q, m)
    <3>1. CASE i = id
      BY <2>2, <2>4, <3>1
    <3>2. CASE i # id
      <4>1. i \in DOMAIN b.cache /\ c[i] = b.cache[i]
        BY <2>2, <3>2
      <4>2. PICK m \in 1..n : i = st.ids[m] /\ b.cache[i] = LayerAt(st, q, m)
        BY <2>6, <4>1 DEF CacheGrows
      <4> QED BY <2>4, <4>1, <4>2
    <3> QED BY <3>1, <3>2
  <2>7. CacheGrows(st, q, x, c)
    BY <2>5, <2>6 DEF CacheGrows
  <2> QED BY <2>1, <2>7
<1> QED BY <1>1, <1>2

(* And so does a FROM that pulls its image.                                *)
LEMMA FirstNode ==
    ASSUME NEW st, NEW q, Meant(st, q), Host, NEW j \in Nat, CanFetch(st, j),
           NEW b, IsBuilt(st, b), NodesRight(st, q, j, 0, b), b = BuildNodes(st, j, 0),
           b.pairs[1] = <<>>, Runs(st, b, 1)
    PROVE  NodesRight(st, q, j, 1, BuildNode(st, b, 1))
<1> DEFINE onDisk == ModifyFS(plan, st)
           executed == Execute(b.ctx, q[1], onDisk)
           layers == q[1].layers
           d == BuildNode(st, b, 1)
<1>1. /\ Len(q) \in Nat /\ Len(q) > 0 /\ Len(st.steps) = Len(q) /\ onDisk \in BOOLEAN /\ IsStage(st)
      /\ q[1].kind = "FROM" /\ layers \in Seq(Layer) /\ q[1] \in Found /\ 1 \in 1..Len(q)
  BY MeantFacts DEF Meant
<1>2. Resolved(st.steps[1]) = q[1]
  BY <1>1 DEF Meant
<1>3. /\ b.ctx \in Context /\ b.pairs \in [1..Len(st.steps) -> Seq(Layer)]
      /\ b.ctx.mem \in FileSystem /\ b.ctx.disk \in FileSystem
  BY DEF IsBuilt, Context
<1>4. PICK m \in 0..0 : /\ b.ctx.mem = After(q)[m]
                        /\ Ahead(st, j, 0) => NoPending(b.ctx) /\ (onDisk => b.ctx.disk = After(q)[m])
                        /\ ~Ahead(st, j, 0) => /\ onDisk => b.ctx.disk = After(q)[0]
                                               /\ b.ctx.mustScan <=> Scans(q, m, 0)
                                               /\ ~b.ctx.mustScan => b.ctx.copyOps = Copies(q, m, 0)
  BY DEF NodesRight, ContextRight
<1>5. m = 0 /\ ~Scans(q, 0, 0) /\ Copies(q, 0, 0) = <<>>
  <2>1. m = 0 /\ 0 \in Nat
    OBVIOUS
  <2>2. ~Scans(q, 0, 0)
    <3>1. \A k \in (0 + 1)..0 : FALSE
      OBVIOUS
    <3> QED BY <3>1 DEF Scans
  <2>3. Copies(q, 0, 0) = <<>>
    BY <2>1, NoCopiesYet
  <2> QED BY <2>1, <2>2, <2>3
<1>6. b.ctx.mem = EmptyFS /\ NoPending(b.ctx) /\ (onDisk => b.ctx.disk = EmptyFS)
  <2>1. After(q)[0] = EmptyFS
    BY AfterSteps DEF Meant
  <2> QED BY <1>4, <1>5, <2>1 DEF NoPending
<1>7. After(q)[1] = ApplyLayers(EmptyFS, layers) /\ After(q)[1] = Effect(EmptyFS, q[1])
  <2>1. After(q)[0] = EmptyFS /\ After(q)[1] = Effect(After(q)[1 - 1], q[1]) /\ 1 - 1 = 0
    BY <1>1, AfterSteps DEF Meant
  <2> QED BY <1>1, <2>1 DEF Effect
<1>17. CopiesRight(q, 1, executed)
  <2>1. 0 \in Nat /\ 1 = 0 + 1 /\ CopiesRight(q, 0, b.ctx)
    BY DEF NodesRight, ContextRight
  <2> QED BY <1>1, <1>3, <2>1, CopiesExecuted
<1>8. /\ executed.mem = After(q)[1] /\ (onDisk => executed.disk = After(q)[1])
      /\ executed.copyOps = <<>> /\ ~executed.mustScan
  <2>1. /\ executed.mem = (IF q[1].kind = "FROM" THEN Effect(b.ctx.mem, q[1]) ELSE b.ctx.mem)
        /\ executed.disk = (IF onDisk THEN Effect(b.ctx.disk, q[1]) ELSE b.ctx.disk)
        /\ executed.copyOps = (IF q[1].kind = "COPY" THEN Append(b.ctx.copyOps, q[1]) ELSE b.ctx.copyOps)
        /\ executed.mustScan = (IF q[1].kind = "RUN" THEN TRUE ELSE b.ctx.mustScan)
    BY <1>1, <1>3, ExecuteFacts
  <2> HIDE DEF executed, onDisk
  <2>2. q[1].kind = "FROM" /\ q[1].kind # "COPY" /\ q[1].kind # "RUN"
    BY <1>1
  <2>3. executed.mem = After(q)[1]
    BY <1>6, <1>7, <2>1, <2>2
  <2>4. onDisk => executed.disk = After(q)[1]
    BY <1>6, <1>7, <2>1
  <2>5. executed.copyOps = <<>> /\ ~executed.mustScan
    BY <1>6, <2>1, <2>2 DEF NoPending
  <2> QED BY <2>3, <2>4, <2>5
<1>9. MustCommit(st.steps, 1, at = Len(plan.stages), st.force)
  BY DEF MustCommit
<1>10. NewLayers(executed, q[1]) = layers /\ Committed(executed, q[1]) = executed
  BY <1>1 DEF NewLayers, Committed
<1> HIDE DEF executed
<1>11. d = [ctx |-> executed, pairs |-> [b.pairs EXCEPT ![1] = layers],
            cache |-> Pushed(b, st.ids[1], layers)]
  <2>1. d = [ctx |-> Committed(executed, q[1]),
             pairs |-> [b.pairs EXCEPT ![1] = NewLayers(executed, q[1])],
             cache |-> Pushed(b, st.ids[1], NewLayers(executed, q[1]))]
    BY <1>2, <1>9 DEF BuildNode, executed
  <2> HIDE DEF d
  <2> QED BY <1>10, <2>1
<1>12. IsBuilt(st, d)
  BY <1>1, NodeType DEF Host
<1> HIDE DEF d
<1>13. /\ d.ctx = executed /\ d.cache = Pushed(b, st.ids[1], layers)
       /\ d.pairs[1] = layers /\ \A k \in 1..Len(st.steps) : k # 1 => d.pairs[k] = b.pairs[k]
  BY <1>1, <1>3, <1>11
<1> HIDE DEF layers
<1>14. PairsRight(st, j, 1, d)
  <2>1. 0 \in Nat /\ 1 = 0 + 1
    OBVIOUS
  <2>2. d.ctx.mem = ApplyLayers(b.ctx.mem, d.pairs[1])
    BY <1>6, <1>7, <1>8, <1>13
  <2>3. 1 \in 1..Len(st.steps)
    BY <1>1
  <2>4. PairsRight(st, j, 0, b)
    BY DEF NodesRight
  <2> QED BY <1>1, <1>12, <1>13, <2>1, <2>2, <2>3, <2>4, PairsNext
<1>15. CacheGrows(st, q, 1, d.cache)
  <2>1. 0 \in Nat /\ 1 = 0 + 1 /\ layers = LayerAt(st, q, 1)
    BY DEF LayerAt, layers
  <2>2. CacheGrows(st, q, 0, b.cache)
    BY DEF NodesRight
  <2> QED BY <1>1, <1>13, <2>1, <2>2, GrowsBy
<1>16. ContextRight(st, q, j, 1, d.ctx)
  <2>1. 1 \in 0..1 /\ IsLast(st, 1, 1)
    <3>1. \A k \in (1 + 1)..1 : FALSE
      OBVIOUS
    <3> QED BY <1>9, <3>1 DEF IsLast, Commits
  <2>2. ~Scans(q, 1, 1) /\ Copies(q, 1, 1) = <<>>
    <3>1. 1 \in Nat /\ 1 <= 1
      OBVIOUS
    <3> QED BY <3>1, ScansNext, NoCopiesYet
  <2>3. NoPending(d.ctx)
    BY <1>8, <1>13 DEF NoPending
  <2>4. d.ctx.mem = After(q)[1] /\ (onDisk => d.ctx.disk = After(q)[1])
    BY <1>8, <1>13
  <2> QED BY <1>13, <1>17, <2>1, <2>2, <2>3, <2>4 DEF ContextRight, NoPending
<1> QED BY <1>14, <1>15, <1>16 DEF NodesRight, d

(* The context after a node was executed, before it commits. *)
LEMMA ExecutedContext ==
    ASSUME NEW st, NEW q, Meant(st, q), NEW x \in 2..Len(q), NEW n, n = x - 1, NEW m \in 1..n,
           NEW c \in Context, c.mem = After(q)[m], CopiesRight(q, n, c),
           ModifyFS(plan, st) => c.disk = After(q)[n],
           c.mustScan <=> Scans(q, m, n), ~c.mustScan => c.copyOps = Copies(q, m, n)
    PROVE  LET e == Execute(c, q[x], ModifyFS(plan, st))
           IN /\ e \in Context /\ e.mem = After(q)[m]
              /\ ModifyFS(plan, st) => e.disk = After(q)[x]
              /\ e.mustScan <=> Scans(q, m, x)
              /\ ~e.mustScan => e.copyOps = Copies(q, m, x)
              /\ NewLayers(e, q[x]) = <<LayerOfSteps(q, m, x)>>
<1> DEFINE onDisk == ModifyFS(plan, st)
           e == Execute(c, q[x], onDisk)
<1>1. /\ Len(q) \in Nat /\ Len(st.steps) = Len(q) /\ onDisk \in BOOLEAN
      /\ q[x].kind \in {"COPY", "RUN"} /\ q[x] \in Found
      /\ \A k \in 2..Len(q) : q[k].kind \in {"COPY", "RUN"}
  <2>1. x \in 1..Len(q)
    OBVIOUS
  <2> QED BY <2>1, MeantFacts
<1>2. n \in Nat /\ m \in Nat /\ m <= n /\ x = n + 1 /\ n < Len(q) /\ x \in 1..Len(q) /\ x - 1 = n /\ x \in Nat
  BY <1>1
<1>3. /\ e \in Context /\ e.mem = c.mem /\ e.copied = c.copied
      /\ e.disk = (IF onDisk THEN Effect(c.disk, q[x]) ELSE c.disk)
      /\ e.copyOps = (IF q[x].kind = "COPY" THEN Append(c.copyOps, q[x]) ELSE c.copyOps)
      /\ e.mustScan = (IF q[x].kind = "RUN" THEN TRUE ELSE c.mustScan)
  <2>1. q[x].kind # "FROM"
    BY <1>1
  <2> QED BY <1>1, <2>1, ExecuteFacts
<1>4. e.mustScan \in BOOLEAN /\ c.mustScan \in BOOLEAN
  BY <1>3 DEF Context
<1> HIDE DEF e
<1>5. onDisk => e.disk = After(q)[x]
  <2>1. After(q)[x] = Effect(After(q)[n], q[x])
    BY <1>2, AfterSteps DEF Meant
  <2> QED BY <1>3, <2>1
<1>6. Scans(q, m, x) <=> Scans(q, m, n) \/ q[x].kind = "RUN"
  BY <1>2, ScansUpTo
<1>7. e.mustScan <=> Scans(q, m, x)
  BY <1>1, <1>3, <1>4, <1>6
<1>8. ASSUME ~e.mustScan
      PROVE  e.copyOps = Copies(q, m, x) /\ e.copyOps # <<>>
  <2>1. \A k \in (m + 1)..(n + 1) : q[k].kind = "COPY"
    <3>1. \A k \in (m + 1)..(n + 1) : k \in 2..Len(q) /\ k \in (m + 1)..x
      BY <1>1, <1>2
    <3>2. ~Scans(q, m, x)
      BY <1>7, <1>8
    <3> QED BY <1>1, <3>1, <3>2 DEF Scans
  <2>2. q \in Seq(Found)
    BY DEF Meant
  <2>3. /\ Copies(q, m, n + 1) = Append(Copies(q, m, n), q[n + 1])
        /\ Copies(q, m, n) \in Seq(CopyOp)
    BY <1>2, <2>1, <2>2, CopiesNext
  <2>4. q[x].kind = "COPY" /\ ~c.mustScan /\ c.copyOps = Copies(q, m, n)
    BY <1>1, <1>3, <1>4, <1>8
  <2>5. e.copyOps = Append(Copies(q, m, n), q[x])
    BY <1>3, <2>4
  <2>6. Copies(q, m, x) = Append(Copies(q, m, n), q[x])
    BY <1>2, <2>3
  <2> DEFINE ops == Copies(q, m, n)
  <2> HIDE DEF ops
  <2>7. Append(ops, q[x]) # <<>>
    <3>1. ops \in Seq(CopyOp)
      BY <2>3 DEF ops
    <3> QED BY <3>1
  <2> QED BY <2>5, <2>6, <2>7 DEF ops
<1>9. NewLayers(e, q[x]) = <<LayerOfSteps(q, m, x)>>
  <2>1. CASE e.mustScan
    <3>1. Scans(q, m, x)
      BY <1>7, <2>1
    <3>2. onDisk
      <4>1. PICK k \in (m + 1)..x : q[k].kind = "RUN"
        BY <3>1 DEF Scans
      <4>2. k \in 1..Len(q)
        BY <1>1, <1>2
      <4> QED BY <4>1, <4>2 DEF Meant
    <3>3. e.disk = After(q)[x] /\ e.mem = After(q)[m]
      BY <1>3, <1>5, <3>2
    <3>4. LayerByScan(e) = LayerOfSteps(q, m, x)
      <4>1. ASSUME NEW f \in e.copied
            PROVE  e.disk[f] # NoFile
        <5>1. f \in File
          BY <1>3 DEF Context
        <5>2. PICK k \in 1..n : CopyOf(q, k, f)
          BY <1>3 DEF CopiesRight
        <5>3. k \in 1..x
          BY <1>2
        <5> QED BY <1>2, <3>3, <5>1, <5>2, <5>3 DEF Meant, Stay
      <4> DEFINE d == [mem |-> After(q)[m], disk |-> After(q)[x], copied |-> {}]
      <4>2. LayerByScan(e) = LayerByScan(d)
        <5>1. d.disk = e.disk /\ d.mem = e.mem /\ d.copied = {}
          BY <3>3
        <5> HIDE DEF d
        <5> QED BY <4>1, <5>1, NothingMissing
      <4> QED BY <3>1, <4>2 DEF LayerOfSteps
    <3>5. NewLayers(e, q[x]) = <<LayerByScan(e)>>
      BY <1>1, <2>1 DEF NewLayers
    <3> QED BY <3>4, <3>5
  <2>2. CASE ~e.mustScan
    <3>1. ~Scans(q, m, x) /\ e.copyOps = Copies(q, m, x) /\ e.copyOps # <<>> /\ e.mem = After(q)[m]
      BY <1>3, <1>7, <1>8, <2>2
    <3>2. LayerByCopyOps(e) = LayerOfSteps(q, m, x)
      BY <3>1 DEF LayerOfSteps, LayerByCopyOps
    <3>3. NewLayers(e, q[x]) = <<LayerByCopyOps(e)>>
      BY <1>1, <2>2, <3>1 DEF NewLayers
    <3> QED BY <3>2, <3>3
  <2> QED BY <2>1, <2>2
<1> QED BY <1>3, <1>5, <1>7, <1>8, <1>9 DEF e

(* A node after the first that is executed.                                *)
LEMMA RunNode ==
    ASSUME NEW st, NEW q, Meant(st, q), Host, NEW j \in Nat, CanFetch(st, j),
           NEW n \in Nat, NEW x, x = n + 1, x \in 2..Len(q),
           NEW b, IsBuilt(st, b), NodesRight(st, q, j, n, b), b = BuildNodes(st, j, n),
           b.pairs[x] = <<>>, Runs(st, b, x)
    PROVE  NodesRight(st, q, j, x, BuildNode(st, b, x))
<1> DEFINE onDisk == ModifyFS(plan, st)
           executed == Execute(b.ctx, q[x], onDisk)
           d == BuildNode(st, b, x)
<1>1. /\ Len(q) \in Nat /\ Len(st.steps) = Len(q) /\ onDisk \in BOOLEAN /\ IsStage(st)
      /\ x # 1 /\ x \in 1..Len(q) /\ n = x - 1 /\ x \in Nat
  BY MeantFacts DEF Meant
<1>2. /\ b.ctx \in Context /\ b.pairs \in [1..Len(st.steps) -> Seq(Layer)]
      /\ b = [ctx |-> b.ctx, pairs |-> b.pairs, cache |-> b.cache]
  BY DEF IsBuilt
<1>3. ~Ahead(st, j, n) /\ ~Ahead(st, j, x)
  BY <1>1, RunningIs DEF NodesRight
<1>4. Resolved(st.steps[x]) = q[x]
  BY <1>1 DEF Meant
<1>5. PICK m \in 0..n : /\ IsLast(st, m, n)
                        /\ b.ctx.mem = After(q)[m]
                        /\ onDisk => b.ctx.disk = After(q)[n]
                        /\ b.ctx.mustScan <=> Scans(q, m, n)
                        /\ ~b.ctx.mustScan => b.ctx.copyOps = Copies(q, m, n)
  BY <1>3 DEF NodesRight, ContextRight
<1>6. m \in 1..n /\ m \in 0..x /\ m \in 1..(x - 1)
  <2>1. n # 0
    BY <1>1
  <2>2. m # 0
    BY <1>5, <2>1, LastNext
  <2> QED BY <1>1, <2>2
<1>7. /\ executed \in Context /\ executed.mem = After(q)[m]
      /\ onDisk => executed.disk = After(q)[x]
      /\ executed.mustScan <=> Scans(q, m, x)
      /\ ~executed.mustScan => executed.copyOps = Copies(q, m, x)
      /\ NewLayers(executed, q[x]) = <<LayerOfSteps(q, m, x)>>
  <2>1. CopiesRight(q, n, b.ctx)
    BY DEF NodesRight, ContextRight
  <2> QED BY <1>1, <1>2, <1>5, <1>6, <2>1, ExecutedContext
<1>8. q[x].kind # "FROM" /\ q[x] \in Found
  BY <1>1, MeantFacts DEF Meant
<1>13. CopiesRight(q, x, executed)
  <2>1. CopiesRight(q, n, b.ctx)
    BY DEF NodesRight, ContextRight
  <2> QED BY <1>1, <1>2, <1>8, <2>1, CopiesExecuted
<1>9. IsBuilt(st, d)
  BY <1>1, NodeType DEF Host
<1>10. PairsRight(st, j, n, b) /\ CacheGrows(st, q, n, b.cache)
  BY DEF NodesRight
<1>11. CASE ~Commits(st, x)
  <2>1. d = [b EXCEPT !.ctx = executed]
    BY <1>1, <1>4, <1>11 DEF BuildNode, Commits
  <2> HIDE DEF executed, d
  <2>2. d.ctx = executed /\ d.pairs = b.pairs /\ d.cache = b.cache
    BY <1>2, <2>1
  <2>3. PairsRight(st, j, x, d)
    <3>1. executed.mem \in FileSystem
      BY <1>7 DEF Context
    <3>2. d.ctx.mem = ApplyLayers(b.ctx.mem, d.pairs[x])
      BY <1>5, <1>7, <2>2, <3>1, ApplyNone
    <3> QED BY <1>1, <1>9, <1>10, <1>11, <2>2, <3>2, PairsNext
  <2>4. CacheGrows(st, q, x, d.cache)
    BY <1>10, <2>2, GrowsNext
  <2>5. ContextRight(st, q, j, x, d.ctx)
    <3>1. IsLast(st, m, x)
      BY <1>5, <1>11, LastNext
    <3> QED BY <1>3, <1>6, <1>7, <1>13, <2>2, <3>1 DEF ContextRight
  <2> QED BY <2>3, <2>4, <2>5 DEF NodesRight, d
<1>12. CASE Commits(st, x)
  <2> DEFINE layers == <<LayerOfSteps(q, m, x)>>
             committed == Committed(executed, q[x])
  <2>1. layers = LayerAt(st, q, x) /\ layers # <<>>
    BY <1>1, <1>5, <1>6, LayerAtIs
  <2>2. ApplyLayers(After(q)[m], layers) = After(q)[x]
    BY <1>6, LeadsTo
  <2>3. d = [ctx |-> Committed(executed, q[x]),
             pairs |-> [b.pairs EXCEPT ![x] = NewLayers(executed, q[x])],
             cache |-> Pushed(b, st.ids[x], NewLayers(executed, q[x]))]
    BY <1>1, <1>4, <1>12 DEF BuildNode, Commits
  <2> HIDE DEF executed, d
  <2>4. NewLayers(executed, q[x]) = layers
    BY <1>7
  <2> HIDE DEF layers
  <2> DEFINE copied == IF executed.mustScan THEN executed.copied \ DOMAIN LayerByScan(executed)
                       ELSE executed.copied \cup DOMAIN LayerByCopyOps(executed)
  <2>5. committed = [executed EXCEPT !.mem = ApplyLayers(@, layers), !.copied = copied,
                                     !.copyOps = <<>>, !.mustScan = FALSE]
    BY <1>8, <2>1, <2>4 DEF Committed
  <2> HIDE DEF copied
  <2>6. /\ committed.mem = After(q)[x] /\ NoPending(committed)
        /\ onDisk => committed.disk = After(q)[x]
    <3>1. executed = [mem |-> executed.mem, copied |-> executed.copied, disk |-> executed.disk,
                      copyOps |-> executed.copyOps, mustScan |-> executed.mustScan]
      BY <1>7 DEF Context
    <3>2. committed = [mem |-> ApplyLayers(executed.mem, layers), copied |-> copied,
                       disk |-> executed.disk, copyOps |-> <<>>, mustScan |-> FALSE]
      <4> HIDE DEF committed
      <4> QED BY <2>5, <3>1
    <3> HIDE DEF committed
    <3>3. committed.mem = After(q)[x]
      BY <1>7, <2>2, <3>2
    <3>4. NoPending(committed)
      BY <3>2 DEF NoPending
    <3>5. onDisk => committed.disk = After(q)[x]
      BY <1>7, <3>2
    <3> QED BY <3>3, <3>4, <3>5
  <2>11. CopiesRight(q, x, committed)
    <3>1. committed.copyOps = <<>>
      BY <2>6 DEF NoPending
    <3> QED BY <1>7, <1>8, <1>13, <3>1, CopiesCommitted
  <2> HIDE DEF committed
  <2>7. /\ d.ctx = committed /\ d.cache = Pushed(b, st.ids[x], layers)
        /\ d.pairs[x] = layers /\ \A k \in 1..Len(st.steps) : k # x => d.pairs[k] = b.pairs[k]
    BY <1>1, <1>2, <2>3, <2>4 DEF committed
  <2>8. PairsRight(st, j, x, d)
    <3>1. d.ctx.mem = ApplyLayers(b.ctx.mem, d.pairs[x])
      BY <1>5, <2>2, <2>6, <2>7
    <3> QED BY <1>1, <1>9, <1>10, <2>1, <2>7, <3>1, PairsNext
  <2>9. CacheGrows(st, q, x, d.cache)
    BY <1>1, <1>10, <2>1, <2>7, GrowsBy
  <2>10. ContextRight(st, q, j, x, d.ctx)
    <3>1. IsLast(st, x, x) /\ x \in 0..x
      BY <1>1, <1>5, <1>12, LastNext
    <3>2. ~Scans(q, x, x)
      <4>1. x <= x
        BY <1>1
      <4> QED BY <1>1, <4>1, ScansNext
    <3>3. Copies(q, x, x) = <<>>
      BY <1>1, NoCopiesYet
    <3> QED BY <2>6, <2>7, <2>11, <3>1, <3>2, <3>3 DEF ContextRight, NoPending
  <2> QED BY <2>8, <2>9, <2>10 DEF NodesRight, d
<1> QED BY <1>11, <1>12

(* Whichever layers were fetched, each node is right.                      *)
LEMMA NodesAreRight ==
    ASSUME NEW st, NEW q, Meant(st, q), Host, NEW j \in Nat, CanFetch(st, j)
    PROVE  \A n \in 0..Len(q) : NodesRight(st, q, j, n, BuildNodes(st, j, n))
<1> DEFINE S == {n \in Nat : n <= Len(q) => NodesRight(st, q, j, n, BuildNodes(st, j, n))}
<1>1. /\ Len(q) \in Nat /\ Len(q) > 0 /\ Len(st.steps) = Len(q) /\ IsStage(st)
      /\ IsCache(cache) /\ root \in FileSystem /\ \A a \in DOMAIN stagesDir : stagesDir[a] \in Layer
      /\ q \in Seq(Found)
  BY MeantFacts DEF Meant, Host
<1>2. 0 \in S
  <2> DEFINE b == NoNodeBuilt(st, j)
  <2>1. BuildNodes(st, j, 0) = b
    BY <1>1, BuildNodesFacts
  <2>2. /\ b.ctx = NewContext(root) /\ b.pairs = Fetched(st, j) /\ b.cache = cache
    BY DEF NoNodeBuilt
  <2> HIDE DEF b
  <2>3. /\ b.ctx.mem = EmptyFS /\ b.ctx.disk = root /\ b.ctx.copyOps = <<>> /\ b.ctx.mustScan = FALSE
        /\ b.ctx.copied = {}
    BY <2>2 DEF NewContext
  <2>4. PairsRight(st, j, 0, b)
    <3>1. LayersSoFar(b, 0) = <<>>
      <4>1. [m \in 1..0 |-> b.pairs[m]] = <<>>
        OBVIOUS
      <4> QED BY <4>1, FlattenNone DEF LayersSoFar
    <3>2. ApplyLayers(EmptyFS, LayersSoFar(b, 0)) = b.ctx.mem
      BY <2>3, <3>1, EmptyType, ApplyNone
    <3>3. \A m \in 2..0 : FALSE
      OBVIOUS
    <3> QED BY <2>2, <3>2, <3>3 DEF PairsRight
  <2>5. CacheGrows(st, q, 0, b.cache)
    BY <2>2 DEF CacheGrows
  <2>6. ContextRight(st, q, j, 0, b.ctx)
    <3>1. 0 \in 0..0 /\ \A k \in (0 + 1)..0 : FALSE
      OBVIOUS
    <3>2. IsLast(st, 0, 0) /\ ~Scans(q, 0, 0)
      BY <3>1 DEF IsLast, Scans
    <3>3. Copies(q, 0, 0) = <<>>
      BY NoCopiesYet
    <3>4. After(q)[0] = EmptyFS
      BY <1>1, AfterSteps
    <3>5. ModifyFS(plan, st) => root = EmptyFS
      BY DEF Meant
    <3>6. CopiesRight(q, 0, b.ctx)
      BY <2>3 DEF CopiesRight
    <3> QED BY <2>3, <3>1, <3>2, <3>3, <3>4, <3>5, <3>6 DEF ContextRight, NoPending
  <2> QED BY <2>1, <2>4, <2>5, <2>6 DEF NodesRight
<1>3. ASSUME NEW n \in Nat, n \in S
      PROVE  n + 1 \in S
  <2> SUFFICES ASSUME n + 1 <= Len(q)
               PROVE  NodesRight(st, q, j, n + 1, BuildNodes(st, j, n + 1))
    OBVIOUS
  <2> DEFINE x == n + 1
             b == BuildNodes(st, j, n)
  <2>1. x \in 1..Len(q) /\ x \in Nat /\ x = n + 1 /\ n \in 0..Len(q) /\ x - 1 = n /\ n <= Len(q)
    BY <1>1
  <2>3. NodesRight(st, q, j, n, b)
    BY <1>3, <2>1
  <2> HIDE DEF x
  <2>4. BuildNodes(st, j, x) = BuildNode(st, b, x)
    BY <1>1, <2>1, BuildNodesFacts
  <2>5. IsBuilt(st, b)
    BY <1>1, <2>1, NodesType
  <2>6. b = BuildNodes(st, j, n)
    OBVIOUS
  <2> HIDE DEF b, S
  <2>7. CASE b.pairs[x] # <<>>
    <3>1. NodesRight(st, q, j, x, BuildNode(st, b, x))
      BY <2>1, <2>3, <2>5, <2>7, FetchedNode
    <3> QED BY <2>1, <2>4, <3>1
  <2>8. CASE b.pairs[x] = <<>> /\ ~Runs(st, b, x)
    <3>1. NodesRight(st, q, j, x, BuildNode(st, b, x))
      BY <2>1, <2>3, <2>5, <2>8, SkippedNode
    <3> QED BY <2>1, <2>4, <3>1
  <2>9. CASE b.pairs[x] = <<>> /\ Runs(st, b, x) /\ n = 0
    <3>1. x = 1
      BY <2>1, <2>9
    <3>2. NodesRight(st, q, j, 1, BuildNode(st, b, 1))
      BY <2>3, <2>5, <2>6, <2>9, <3>1, FirstNode
    <3> QED BY <2>1, <2>4, <3>1, <3>2
  <2>10. CASE b.pairs[x] = <<>> /\ Runs(st, b, x) /\ n # 0
    <3>1. x \in 2..Len(q)
      BY <1>1, <2>1, <2>10
    <3>2. NodesRight(st, q, j, x, BuildNode(st, b, x))
      BY <2>1, <2>3, <2>5, <2>6, <2>10, <3>1, RunNode
    <3> QED BY <2>1, <2>4, <3>2
  <2> QED BY <2>7, <2>8, <2>9, <2>10
<1> HIDE DEF S
<1>4. \A n \in Nat : n \in S
  BY <1>2, <1>3, Induction
<1> QED BY <1>1, <1>4 DEF S

(* What a stage leaves when all its nodes are built.                       *)
LEMMA StageIsRight ==
    ASSUME NEW st, NEW q, Meant(st, q), Host, NEW j \in Nat, CanFetch(st, j)
    PROVE  LET built == BuildNodes(st, j, Len(st.steps))
           IN /\ ModifyFS(plan, st) => built.ctx.disk = After(q)[Len(q)]
              /\ Commits(st, Len(st.steps)) =>
                    ApplyLayers(EmptyFS, FlattenSeq(built.pairs)) = After(q)[Len(q)]
              /\ CacheGrows(st, q, Len(q), built.cache)
<1> DEFINE N == Len(q)
           built == BuildNodes(st, j, Len(st.steps))
<1>1. N \in Nat /\ N > 0 /\ Len(st.steps) = N /\ N \in 0..N /\ IsStage(st)
  BY MeantFacts DEF Meant
<1>2. NodesRight(st, q, j, N, built)
  BY <1>1, NodesAreRight
<1>3. IsBuilt(st, built)
  BY <1>1, NodesType DEF Host
<1> HIDE DEF built
<1>4. ~Ahead(st, j, N)
  <2>1. \A g \in (N + 1)..N : FALSE
    BY <1>1
  <2> QED BY <1>1, <2>1 DEF Ahead
<1>5. PICK m \in 0..N : /\ IsLast(st, m, N)
                        /\ built.ctx.mem = After(q)[m]
                        /\ ModifyFS(plan, st) => built.ctx.disk = After(q)[N]
  BY <1>2, <1>4 DEF NodesRight, ContextRight
<1>6. ASSUME Commits(st, N)
      PROVE  ApplyLayers(EmptyFS, FlattenSeq(built.pairs)) = After(q)[N]
  <2>1. m = N
    <3>1. m # N => N \in (m + 1)..N
      BY <1>1
    <3> QED BY <1>5, <1>6, <3>1 DEF IsLast
  <2>2. LayersSoFar(built, N) = FlattenSeq(built.pairs)
    <3>1. [k \in 1..N |-> built.pairs[k]] = built.pairs
      BY <1>1, <1>3 DEF IsBuilt
    <3> QED BY <3>1 DEF LayersSoFar
  <2> QED BY <1>2, <1>5, <2>1, <2>2 DEF NodesRight, PairsRight
<1> QED BY <1>1, <1>2, <1>5, <1>6 DEF NodesRight, built

-----------------------------------------------------------------------------
(* What a Dockerfile describes: a stage depends on those before it.        *)

MeaningsIn(file, fss, i) == [n \in DOMAIN file[i].steps |-> Meaning(file, fss, i, file[i].steps[n])]

LEMMA SourceAgrees ==
    ASSUME NEW file, NEW i, NEW g, NEW h, \A k \in 1..(i - 1) : g[k] = h[k], NEW name
    PROVE  SourceOf(file, g, i, name) = SourceOf(file, h, i, name)
<1> DEFINE E == EarlierStages(file, i, name)
<1>1. E \subseteq 1..(i - 1)
  BY DEF EarlierStages
<1> HIDE DEF E
<1>2. E # {} => (CHOOSE k \in E : TRUE) \in E
  OBVIOUS
<1> QED BY <1>1, <1>2 DEF SourceOf, E

LEMMA MeaningAgrees ==
    ASSUME NEW file, NEW i, NEW g, NEW h, \A k \in 1..(i - 1) : g[k] = h[k]
    PROVE  MeaningsIn(file, g, i) = MeaningsIn(file, h, i)
<1>1. ASSUME NEW s
      PROVE  Meaning(file, g, i, s) = Meaning(file, h, i, s)
  BY SourceAgrees DEF Meaning
<1> QED BY <1>1 DEF MeaningsIn

(* What a Dockerfile describes, as a recursive function of its stages.     *)
LEMMA DescribedIs ==
    ASSUME NEW file, Len(file) \in Nat, DOMAIN file = 1..Len(file)
    PROVE  Described(file) = [i \in 1..Len(file) |->
                After(MeaningsIn(file, Described(file), i))[Len(file[i].steps)]]
<1> DEFINE Body(g, i) == After(MeaningsIn(file, g, i))[Len(file[i].steps)]
           Recursive(g, n) == g = [i \in 1..n |-> Body(g, i)]
           S == {n \in Nat : \E g : Recursive(g, n)}
<1>1. 0 \in S
  <2>1. Recursive([i \in 1..0 |-> EmptyFS], 0)
    OBVIOUS
  <2> HIDE DEF Recursive
  <2> QED BY <2>1
<1>2. ASSUME NEW n \in Nat, n \in S
      PROVE  n + 1 \in S
  <2>1. PICK g : g = [i \in 1..n |-> Body(g, i)]
    BY <1>2
  <2> DEFINE h == [i \in 1..(n + 1) |-> Body(g, i)]
  <2>2. \A k \in 1..n : h[k] = g[k]
    <3> HIDE DEF Body
    <3> QED BY <2>1
  <2>3. \A i \in 1..(n + 1) : Body(h, i) = Body(g, i)
    <3>1. ASSUME NEW i \in 1..(n + 1) PROVE Body(h, i) = Body(g, i)
      <4>1. \A k \in 1..(i - 1) : k \in 1..n
        OBVIOUS
      <4> HIDE DEF h
      <4>2. \A k \in 1..(i - 1) : h[k] = g[k]
        BY <2>2, <4>1
      <4> QED BY <4>2, MeaningAgrees
    <3> QED BY <3>1
  <2>4. h = [i \in 1..(n + 1) |-> Body(h, i)]
    <3>1. h = [i \in 1..(n + 1) |-> Body(g, i)]
      OBVIOUS
    <3> HIDE DEF h, Body
    <3> QED BY <2>3, <3>1
  <2>5. Recursive(h, n + 1)
    BY <2>4
  <2> HIDE DEF Recursive
  <2> QED BY <2>5
<1> HIDE DEF S
<1>3. Len(file) \in S
  BY <1>1, <1>2, Induction
<1>4. \E g : Recursive(g, Len(file))
  BY <1>3 DEF S
<1>5. Described(file) = CHOOSE g : Recursive(g, Len(file))
  BY DEF Described, MeaningsIn
<1> HIDE DEF Recursive
<1>6. Recursive(Described(file), Len(file))
  BY <1>4, <1>5
<1> QED BY <1>6 DEF Recursive

(* The steps of stage i, with what they find if all goes well. *)
Meanings(r, i) == MeaningsIn(r.file, Described(r.file), i)
Files(r, i) == After(Meanings(r, i))[Len(r.file[i].steps)]

LEMMA SourceType ==
    ASSUME NEW file, NEW i, NEW fss, \A k \in 1..(i - 1) : fss[k] \in FileSystem, NEW name
    PROVE  SourceOf(file, fss, i, name) \in FileSystem
<1> DEFINE E == EarlierStages(file, i, name)
<1>1. E \subseteq 1..(i - 1)
  BY DEF EarlierStages
<1> HIDE DEF E
<1>2. E # {} => (CHOOSE k \in E : TRUE) \in E
  OBVIOUS
<1>3. ApplyLayers(EmptyFS, LayersOf(name)) \in FileSystem
  BY LayersOfType, EmptyType, ApplyType
<1> QED BY <1>1, <1>2, <1>3 DEF SourceOf, E

(* A stage has steps, and only the first is a FROM.                        *)
LEMMA StepsOf ==
    ASSUME NEW r \in Requests, NEW i \in 1..Len(r.file)
    PROVE  /\ Len(r.file[i].steps) \in Nat /\ Len(r.file[i].steps) > 0
           /\ DOMAIN r.file[i].steps = 1..Len(r.file[i].steps)
           /\ \A n \in 1..Len(r.file[i].steps) : /\ r.file[i].steps[n] \in FileSteps
                                                 /\ r.file[i].steps[n].kind = "FROM" <=> n = 1
           /\ \A s \in CopiesOf(r.file[i]) : s \in FileSteps /\ s.kind = "COPYFROM" /\ s.from \in CopiedFrom(r.file[i])
<1> DEFINE steps == r.file[i].steps
<1>1. i \in DOMAIN r.file
  BY FileFacts
<1>2. steps \in Seq(Step) /\ Len(steps) > 0
      /\ \A n \in DOMAIN steps : steps[n].kind = "FROM" <=> n = 1
  BY <1>1, StepAssumption
<1>3. Range(steps) \subseteq FileSteps
  BY FileFacts
<1> HIDE DEF steps
<1>4. Len(steps) \in Nat /\ Len(steps) > 0 /\ DOMAIN steps = 1..Len(steps)
  BY <1>2
<1>5. \A n \in DOMAIN steps : steps[n] \in Range(steps)
  BY DEF Range
<1>6. \A s \in CopiesOf(r.file[i]) : s \in FileSteps /\ s.kind = "COPYFROM" /\ s.from \in CopiedFrom(r.file[i])
  BY <1>3 DEF CopiesOf, CopiedFrom, steps
<1> QED BY <1>2, <1>3, <1>4, <1>5, <1>6 DEF steps

LEMMA MeaningType ==
    ASSUME NEW file, NEW i, NEW fss, \A k \in 1..(i - 1) : fss[k] \in FileSystem, NEW s \in FileSteps
    PROVE  /\ Meaning(file, fss, i, s) \in Found
           /\ Meaning(file, fss, i, s).kind = "FROM" <=> s.kind = "FROM"
           /\ Meaning(file, fss, i, s).kind = "RUN" <=> s.kind = "RUN"
<1> DEFINE q == Meaning(file, fss, i, s)
<1>1. CASE s.kind = "FROM"
  <2>1. q = [kind |-> "FROM", layers |-> LayersOf(s.image)]
    BY <1>1 DEF Meaning
  <2> QED BY <1>1, <2>1, LayersOfType DEF Found
<1>2. CASE s.kind = "COPYFROM"
  <2> DEFINE v == SourceOf(file, fss, i, s.from)[s.src]
  <2>1. q = [kind |-> "COPY", dst |-> s.dst, src |-> v]
    BY <1>2 DEF Meaning
  <2>2. v \in Content \cup {NoFile} /\ s.dst \in File
    <3>1. SourceOf(file, fss, i, s.from) \in FileSystem
      BY SourceType
    <3> QED BY <1>2, <3>1, FileStepFacts DEF FileSystem
  <2> HIDE DEF v
  <2>3. q \in [kind : {"COPY"}, dst : File, src : Content \cup {NoFile}]
    BY <2>1, <2>2
  <2> QED BY <1>2, <2>1, <2>3 DEF Found, CopyOp
<1>3. CASE s.kind \notin {"FROM", "COPYFROM"}
  <2>1. q = s
    BY <1>3 DEF Meaning
  <2> QED BY <1>3, <2>1, FileStepFacts DEF Found, CopyOp
<1> QED BY <1>1, <1>2, <1>3

LEMMA MeaningsInType ==
    ASSUME NEW r \in Requests, NEW i \in 1..Len(r.file), NEW fss,
           \A k \in 1..(i - 1) : fss[k] \in FileSystem
    PROVE  /\ MeaningsIn(r.file, fss, i) \in Seq(Found)
           /\ Len(MeaningsIn(r.file, fss, i)) = Len(r.file[i].steps)
<1> DEFINE steps == r.file[i].steps
           q == MeaningsIn(r.file, fss, i)
           N == Len(steps)
<1>1. N \in Nat /\ DOMAIN steps = 1..N /\ \A n \in 1..N : steps[n] \in FileSteps
  BY StepsOf
<1>2. q = [n \in 1..N |-> Meaning(r.file, fss, i, steps[n])]
  BY <1>1 DEF MeaningsIn
<1>3. \A n \in 1..N : Meaning(r.file, fss, i, steps[n]) \in Found
  BY <1>1, MeaningType
<1> HIDE DEF q, N
<1>4. q \in [1..N -> Found]
  BY <1>2, <1>3
<1>5. q \in Seq(Found) /\ Len(q) = N
  BY <1>1, <1>4, ASequence
<1> QED BY <1>5 DEF q, N

LEMMA DescribedStep ==
    ASSUME NEW r \in Requests, NEW i \in 1..Len(r.file)
    PROVE  Described(r.file)[i] = Files(r, i)
<1>1. Len(r.file) \in Nat /\ DOMAIN r.file = 1..Len(r.file)
  BY FileFacts
<1> QED BY <1>1, DescribedIs DEF Files, Meanings

LEMMA DescribedType ==
    ASSUME NEW r \in Requests
    PROVE  \A i \in 1..Len(r.file) : Described(r.file)[i] \in FileSystem
<1> DEFINE S == {n \in Nat : n <= Len(r.file) => \A k \in 1..n : Described(r.file)[k] \in FileSystem}
<1>1. 0 \in S
  OBVIOUS
<1>2. ASSUME NEW n \in Nat, n \in S
      PROVE  n + 1 \in S
  <2> SUFFICES ASSUME n + 1 <= Len(r.file) PROVE \A k \in 1..(n + 1) : Described(r.file)[k] \in FileSystem
    OBVIOUS
  <2> DEFINE i == n + 1
  <2>1. Len(r.file) \in Nat /\ i \in 1..Len(r.file) /\ i - 1 = n /\ n <= Len(r.file)
    BY FileFacts
  <2>2. \A k \in 1..n : Described(r.file)[k] \in FileSystem
    BY <1>2, <2>1
  <2> HIDE DEF i
  <2>3. /\ Meanings(r, i) \in Seq(Found) /\ Len(Meanings(r, i)) = Len(r.file[i].steps)
    BY <2>1, <2>2, MeaningsInType DEF Meanings
  <2>4. Files(r, i) \in FileSystem
    <3>1. Len(r.file[i].steps) \in 0..Len(Meanings(r, i))
      BY <2>1, <2>3, StepsOf
    <3> QED BY <2>3, <3>1, AfterType DEF Files
  <2>5. Described(r.file)[i] \in FileSystem
    BY <2>1, <2>4, DescribedStep
  <2>6. \A k \in 1..(n + 1) : k \in 1..n \/ k = i
    BY DEF i
  <2> QED BY <2>2, <2>5, <2>6
<1> HIDE DEF S
<1>3. \A n \in Nat : n \in S
  BY <1>1, <1>2, Induction
<1>4. Len(r.file) \in Nat /\ Len(r.file) <= Len(r.file)
  BY FileFacts
<1>5. Len(r.file) \in S
  BY <1>3, <1>4
<1> QED BY <1>4, <1>5 DEF S

(* The steps of a stage with what they copy, as the Dockerfile means them. *)
LEMMA MeaningsFacts ==
    ASSUME NEW r \in Requests, NEW i \in 1..Len(r.file)
    PROVE  /\ Meanings(r, i) \in Seq(Found)
           /\ Len(Meanings(r, i)) = Len(r.file[i].steps)
           /\ \A n \in 1..Len(r.file[i].steps) :
                 /\ Meanings(r, i)[n] = Meaning(r.file, Described(r.file), i, r.file[i].steps[n])
                 /\ Meanings(r, i)[n].kind = "FROM" <=> n = 1
                 /\ Meanings(r, i)[n].kind = "RUN" <=> r.file[i].steps[n].kind = "RUN"
<1>1. \A k \in 1..(i - 1) : Described(r.file)[k] \in FileSystem
  <2>1. \A k \in 1..(i - 1) : k \in 1..Len(r.file)
    BY FileFacts
  <2> QED BY <2>1, DescribedType
<1>2. Meanings(r, i) \in Seq(Found) /\ Len(Meanings(r, i)) = Len(r.file[i].steps)
  BY <1>1, MeaningsInType DEF Meanings
<1>3. \A n \in 1..Len(r.file[i].steps) :
         Meanings(r, i)[n] = Meaning(r.file, Described(r.file), i, r.file[i].steps[n])
  BY StepsOf DEF Meanings, MeaningsIn
<1>4. \A n \in 1..Len(r.file[i].steps) :
         /\ Meanings(r, i)[n].kind = "FROM" <=> n = 1
         /\ Meanings(r, i)[n].kind = "RUN" <=> r.file[i].steps[n].kind = "RUN"
  <2>1. ASSUME NEW n \in 1..Len(r.file[i].steps)
        PROVE  /\ Meanings(r, i)[n].kind = "FROM" <=> n = 1
               /\ Meanings(r, i)[n].kind = "RUN" <=> r.file[i].steps[n].kind = "RUN"
    <3>1. r.file[i].steps[n] \in FileSteps /\ (r.file[i].steps[n].kind = "FROM" <=> n = 1)
      BY StepsOf
    <3> QED BY <1>1, <1>3, <3>1, MeaningType
  <2> QED BY <2>1
<1> QED BY <1>2, <1>3, <1>4

-----------------------------------------------------------------------------
(* Stages with the same directives.                                        *)

(* What a stage copies from is there: a stage before it, or an image.      *)
Resolvable(r, i) ==
    \A k \in 1..i : \A name \in CopiedFrom(r.file[k]) : Sources(r.file, k, name) # {}
SameHashes(r, t, i, n) ==
    \A x \in 1..n : Hashed(r.file[i].steps[x]) = Hashed(t.file[i].steps[x])
(* Up to node n of stage i the IDs of both are made of the same.           *)
Alike(r, t, i, n) ==
    /\ r.force = t.force
    /\ \A k \in 1..(i - 1) : /\ Len(r.file[k].steps) = Len(t.file[k].steps)
                             /\ SameHashes(r, t, k, Len(r.file[k].steps))
    /\ SameHashes(r, t, i, n)

LEMMA HashParts ==
    ASSUME NEW s
    PROVE  /\ s.kind = "FROM" => Hashed(s)[1] = "FROM" /\ Hashed(s)[2] = s.image
           /\ s.kind = "COPY" => /\ Hashed(s)[1] = "COPY" /\ Hashed(s)[2] = s.src
                                 /\ Hashed(s)[3] = s.dst /\ Hashed(s)[4] = s.chown
           /\ s.kind = "RUN" => /\ Hashed(s)[1] = "RUN" /\ Hashed(s)[2] = s.src
                                /\ Hashed(s)[3] = s.dst /\ Hashed(s)[4] = s.commit
           /\ s.kind = "COPYFROM" => /\ Hashed(s)[1] = "COPYFROM" /\ Hashed(s)[2] = s.from
                                     /\ Hashed(s)[3] = s.src /\ Hashed(s)[4] = s.dst
<1>1. ASSUME s.kind = "FROM" PROVE Hashed(s)[1] = "FROM" /\ Hashed(s)[2] = s.image
  <2>1. Hashed(s) = <<"FROM", s.image>>
    BY <1>1 DEF Hashed
  <2> QED BY <2>1
<1>2. ASSUME s.kind = "COPY"
      PROVE  Hashed(s)[1] = "COPY" /\ Hashed(s)[2] = s.src /\ Hashed(s)[3] = s.dst /\ Hashed(s)[4] = s.chown
  <2>1. Hashed(s) = <<"COPY", s.src, s.dst, s.chown>>
    BY <1>2 DEF Hashed
  <2> QED BY <2>1
<1>3. ASSUME s.kind = "RUN"
      PROVE  Hashed(s)[1] = "RUN" /\ Hashed(s)[2] = s.src /\ Hashed(s)[3] = s.dst /\ Hashed(s)[4] = s.commit
  <2>1. Hashed(s) = <<"RUN", s.src, s.dst, s.commit>>
    BY <1>3 DEF Hashed
  <2> QED BY <2>1
<1>4. ASSUME s.kind = "COPYFROM"
      PROVE  Hashed(s)[1] = "COPYFROM" /\ Hashed(s)[2] = s.from /\ Hashed(s)[3] = s.src /\ Hashed(s)[4] = s.dst
  <2>1. Hashed(s) = <<"COPYFROM", s.from, s.src, s.dst>>
    BY <1>4 DEF Hashed
  <2> QED BY <2>1
<1> QED BY <1>1, <1>2, <1>3, <1>4

(* The hash of a directive tells it, but for the commit of a copy.         *)
LEMMA HashIs ==
    ASSUME NEW s \in FileSteps, NEW u \in FileSteps, Hashed(s) = Hashed(u)
    PROVE  /\ s.kind = u.kind
           /\ s.kind = "FROM" => s.image = u.image
           /\ s.kind = "COPY" => s.src = u.src /\ s.dst = u.dst /\ s.chown = u.chown
           /\ s.kind = "RUN" => s = u
           /\ s.kind = "COPYFROM" => s.from = u.from /\ s.src = u.src /\ s.dst = u.dst
<1>1. s \in Step /\ u \in Step /\ s.kind \in {"FROM", "COPY", "RUN", "COPYFROM"}
      /\ u.kind \in {"FROM", "COPY", "RUN", "COPYFROM"}
  BY FileStepFacts
<1> DEFINE hs == Hashed(s)
           hu == Hashed(u)
<1>4. /\ s.kind = "FROM" => hs[1] = "FROM" /\ hs[2] = s.image
      /\ s.kind = "COPY" => hs[1] = "COPY" /\ hs[2] = s.src /\ hs[3] = s.dst /\ hs[4] = s.chown
      /\ s.kind = "RUN" => hs[1] = "RUN" /\ hs[2] = s.src /\ hs[3] = s.dst /\ hs[4] = s.commit
      /\ s.kind = "COPYFROM" => hs[1] = "COPYFROM" /\ hs[2] = s.from /\ hs[3] = s.src /\ hs[4] = s.dst
  BY HashParts
<1>5. /\ u.kind = "FROM" => hu[1] = "FROM" /\ hu[2] = u.image
      /\ u.kind = "COPY" => hu[1] = "COPY" /\ hu[2] = u.src /\ hu[3] = u.dst /\ hu[4] = u.chown
      /\ u.kind = "RUN" => hu[1] = "RUN" /\ hu[2] = u.src /\ hu[3] = u.dst /\ hu[4] = u.commit
      /\ u.kind = "COPYFROM" => hu[1] = "COPYFROM" /\ hu[2] = u.from /\ hu[3] = u.src /\ hu[4] = u.dst
  BY HashParts
<1>6. hs = hu
  OBVIOUS
<1> HIDE DEF hs, hu
<1>7. /\ s.kind = u.kind
      /\ s.kind = "FROM" => s.image = u.image
      /\ s.kind = "COPY" => s.src = u.src /\ s.dst = u.dst /\ s.chown = u.chown
      /\ s.kind = "COPYFROM" => s.from = u.from /\ s.src = u.src /\ s.dst = u.dst
      /\ s.kind = "RUN" => s.src = u.src /\ s.dst = u.dst /\ s.commit = u.commit
  BY <1>1, <1>4, <1>5, <1>6
<1>8. ASSUME s.kind = "RUN" PROVE s = u
  <2>1. s.src = u.src /\ s.dst = u.dst /\ s.commit = u.commit
    BY <1>7, <1>8
  <2>2. s \in RunStep /\ u \in RunStep
    BY <1>1, <1>7, <1>8 DEF Step, FromStep, CopyStep, CopyFromStep, RunStep
  <2> QED BY <2>1, <2>2 DEF RunStep
<1> QED BY <1>7, <1>8

(* A name means the same files in two Dockerfiles that agree so far.       *)
LEMMA SameSource ==
    ASSUME SourcesAreClear, NEW r \in Requests, NEW t \in Requests,
           NEW i \in 1..Len(r.file), i \in 1..Len(t.file),
           NEW name \in CopiedFrom(r.file[i]), name \in CopiedFrom(t.file[i]),
           Sources(r.file, i, name) # {}, Sources(t.file, i, name) # {},
           \A k \in 1..(i - 1) : Described(r.file)[k] = Described(t.file)[k]
    PROVE  SourceOf(r.file, Described(r.file), i, name) = SourceOf(t.file, Described(t.file), i, name)
<1>1. Sources(r.file, i, name) = Sources(t.file, i, name)
  <2>1. i \in DOMAIN r.file \cap DOMAIN t.file
    BY FileFacts
  <2> QED BY <2>1 DEF SourcesAreClear
<1>2. /\ EarlierStages(r.file, i, name) \subseteq 1..(i - 1)
      /\ EarlierStages(t.file, i, name) \subseteq 1..(i - 1)
      /\ 0 \notin 1..(i - 1)
  BY DEF EarlierStages
<1>3. EarlierStages(r.file, i, name) = EarlierStages(t.file, i, name)
  BY <1>1, <1>2 DEF Sources
<1> DEFINE E == EarlierStages(t.file, i, name)
<1>4. E # {} => (CHOOSE k \in E : TRUE) \in 1..(i - 1)
  BY <1>2
<1> QED BY <1>3, <1>4 DEF SourceOf

(* Directives with one hash mean the same.                                 *)
LEMMA SameStep ==
    ASSUME SourcesAreClear, SameAnnotations, NEW r \in Requests, NEW t \in Requests,
           NEW i \in 1..Len(r.file), i \in 1..Len(t.file), Resolvable(r, i), Resolvable(t, i),
           \A k \in 1..(i - 1) : Described(r.file)[k] = Described(t.file)[k],
           NEW x \in 1..Len(r.file[i].steps), x \in 1..Len(t.file[i].steps),
           Hashed(r.file[i].steps[x]) = Hashed(t.file[i].steps[x])
    PROVE  /\ Meanings(r, i)[x] = Meanings(t, i)[x]
           /\ x # 1 => r.file[i].steps[x].commit = t.file[i].steps[x].commit
<1>a. /\ r.file[i].steps[x] \in FileSteps /\ (r.file[i].steps[x].kind = "FROM" <=> x = 1)
      /\ x \in DOMAIN r.file[i].steps
  BY ONLY StepsOf, r \in Requests, i \in 1..Len(r.file), x \in 1..Len(r.file[i].steps)
<1>b. t.file[i].steps[x] \in FileSteps /\ x \in DOMAIN t.file[i].steps
  BY ONLY StepsOf, t \in Requests, i \in 1..Len(t.file), x \in 1..Len(t.file[i].steps)
<1> DEFINE s == r.file[i].steps[x]
           u == t.file[i].steps[x]
<1>1. /\ s \in FileSteps /\ u \in FileSteps /\ (s.kind = "FROM" <=> x = 1)
      /\ s \in Range(r.file[i].steps) /\ u \in Range(t.file[i].steps)
      /\ i \in DOMAIN r.file /\ i \in DOMAIN t.file
  <2>1. /\ s \in FileSteps /\ (s.kind = "FROM" <=> x = 1) /\ x \in DOMAIN r.file[i].steps
    BY <1>a
  <2>2. u \in FileSteps /\ x \in DOMAIN t.file[i].steps
    BY <1>b
  <2>3. i \in DOMAIN r.file /\ i \in DOMAIN t.file
    BY FileFacts
  <2> QED BY <2>1, <2>2, <2>3 DEF Range
<1>2. /\ Meanings(r, i)[x] = Meaning(r.file, Described(r.file), i, s)
      /\ Meanings(t, i)[x] = Meaning(t.file, Described(t.file), i, u)
  BY MeaningsFacts
<1>3. s.kind \in {"COPY", "COPYFROM"} => s.commit = u.commit
  BY <1>1 DEF SameAnnotations
<1> HIDE DEF s, u
<1>4. Hashed(s) = Hashed(u)
  BY DEF s, u
<1>5. /\ s.kind = u.kind /\ s.kind \in {"FROM", "COPY", "RUN", "COPYFROM"}
      /\ s \in Step /\ u \in Step
  BY <1>1, <1>4, HashIs, FileStepFacts
<1>6. CASE s.kind = "FROM"
  <2>1. s.image = u.image
    BY <1>1, <1>4, <1>6, HashIs
  <2> QED BY <1>1, <1>2, <1>5, <1>6, <2>1 DEF Meaning, s, u
<1>7. CASE s.kind = "COPY"
  <2>1. s.src = u.src /\ s.dst = u.dst /\ s.chown = u.chown /\ s.commit = u.commit
    BY <1>1, <1>3, <1>4, <1>7, HashIs
  <2>2. s \in CopyStep /\ u \in CopyStep
    BY <1>5, <1>7 DEF Step, FromStep, CopyStep, CopyFromStep, RunStep
  <2>3. s = u
    BY <2>1, <2>2 DEF CopyStep
  <2> QED BY <1>2, <1>7, <2>1, <2>3 DEF Meaning, s, u
<1>8. CASE s.kind = "RUN"
  <2>1. s = u
    BY <1>1, <1>4, <1>8, HashIs
  <2> QED BY <1>2, <1>8, <2>1 DEF Meaning, s, u
<1>9. CASE s.kind = "COPYFROM"
  <2>1. s.from = u.from /\ s.src = u.src /\ s.dst = u.dst /\ s.commit = u.commit
    BY <1>1, <1>3, <1>4, <1>9, HashIs
  <2>2. s.from \in CopiedFrom(r.file[i]) /\ s.from \in CopiedFrom(t.file[i])
    BY <1>1, <1>5, <1>9, <2>1 DEF CopiedFrom, CopiesOf
  <2>3. Sources(r.file, i, s.from) # {} /\ Sources(t.file, i, s.from) # {}
    <3>1. i \in 1..i
      BY FileFacts
    <3> QED BY <2>2, <3>1 DEF Resolvable
  <2>4. SourceOf(r.file, Described(r.file), i, s.from) = SourceOf(t.file, Described(t.file), i, u.from)
    BY <2>1, <2>2, <2>3, SameSource
  <2> QED BY <1>2, <1>5, <1>9, <2>1, <2>4 DEF Meaning, s, u
<1> QED BY <1>5, <1>6, <1>7, <1>8, <1>9

(* Dockerfiles with the same directives describe the same files.           *)
LEMMA SameFiles ==
    ASSUME SourcesAreClear, SameAnnotations, NEW r \in Requests, NEW t \in Requests,
           NEW i \in 1..Len(r.file), i \in 1..Len(t.file), NEW n, Alike(r, t, i, n),
           Resolvable(r, i), Resolvable(t, i)
    PROVE  \A k \in 1..(i - 1) : Described(r.file)[k] = Described(t.file)[k]
<1> DEFINE S == {m \in Nat : m < i => \A k \in 1..m : Described(r.file)[k] = Described(t.file)[k]}
<1>1. 0 \in S
  OBVIOUS
<1>2. ASSUME NEW m \in Nat, m \in S
      PROVE  m + 1 \in S
  <2> SUFFICES ASSUME m + 1 < i PROVE \A k \in 1..(m + 1) : Described(r.file)[k] = Described(t.file)[k]
    OBVIOUS
  <2> DEFINE x == m + 1
             N == Len(r.file[x].steps)
  <2>1. /\ x \in 1..Len(r.file) /\ x \in 1..Len(t.file) /\ x - 1 = m /\ x \in 1..(i - 1) /\ m < i
        /\ \A k \in 1..x : k \in 1..i
    BY FileFacts
  <2>2. \A k \in 1..m : Described(r.file)[k] = Described(t.file)[k]
    BY <1>2, <2>1
  <2> HIDE DEF x
  <2>3. Resolvable(r, x) /\ Resolvable(t, x)
    BY <2>1 DEF Resolvable
  <2>4. N = Len(t.file[x].steps) /\ \A y \in 1..N : Hashed(r.file[x].steps[y]) = Hashed(t.file[x].steps[y])
    BY <2>1 DEF Alike, SameHashes
  <2>5. \A y \in 1..N : Meanings(r, x)[y] = Meanings(t, x)[y]
    BY <2>1, <2>2, <2>3, <2>4, SameStep
  <2>6. /\ Meanings(r, x) \in Seq(Found) /\ Len(Meanings(r, x)) = N
        /\ Meanings(t, x) \in Seq(Found) /\ Len(Meanings(t, x)) = N /\ N \in Nat
    BY <2>1, <2>4, MeaningsFacts, StepsOf
  <2> HIDE DEF N
  <2>7. N \in 0..N
    BY <2>6
  <2>8. After(Meanings(r, x))[N] = After(Meanings(t, x))[N]
    BY <2>5, <2>6, <2>7, AfterPrefix
  <2>9. Described(r.file)[x] = Described(t.file)[x]
    BY <2>1, <2>4, <2>8, DescribedStep DEF Files, N
  <2>10. \A k \in 1..(m + 1) : k \in 1..m \/ k = x
    BY DEF x
  <2> QED BY <2>2, <2>9, <2>10
<1> HIDE DEF S
<1>3. i - 1 \in Nat /\ i - 1 < i
  BY FileFacts
<1>4. i - 1 \in S
  BY <1>1, <1>2, <1>3, Induction
<1> QED BY <1>3, <1>4 DEF S

(* Then the same layer is expected. *)
LEMMA SameLayers ==
    ASSUME SourcesAreClear, SameAnnotations, NEW r \in Requests, NEW t \in Requests,
           NEW i \in 1..Len(r.file), i \in 1..Len(t.file),
           NEW n \in 2..Len(r.file[i].steps), n \in 2..Len(t.file[i].steps), Alike(r, t, i, n),
           Resolvable(r, i), Resolvable(t, i),
           NEW st, st.steps = r.file[i].steps, st.force = r.force,
           NEW ut, ut.steps = t.file[i].steps, ut.force = t.force
    PROVE  LayerAt(st, Meanings(r, i), n) = LayerAt(ut, Meanings(t, i), n)
<1> DEFINE p == Meanings(r, i)
           q == Meanings(t, i)
           m == Base(st.steps, n - 1, st.force)
<1>1. /\ Len(r.file[i].steps) \in Nat /\ Len(t.file[i].steps) \in Nat
      /\ p \in Seq(Found) /\ Len(p) = Len(r.file[i].steps)
      /\ q \in Seq(Found) /\ Len(q) = Len(t.file[i].steps)
  BY MeaningsFacts, StepsOf
<1>2. \A k \in 1..(i - 1) : Described(r.file)[k] = Described(t.file)[k]
  BY SameFiles
<1>3. ASSUME NEW x \in 1..n
      PROVE  p[x] = q[x] /\ (x # 1 => r.file[i].steps[x].commit = t.file[i].steps[x].commit)
  <2>1. x \in 1..Len(r.file[i].steps) /\ x \in 1..Len(t.file[i].steps)
    BY <1>1
  <2>2. Hashed(r.file[i].steps[x]) = Hashed(t.file[i].steps[x])
    BY DEF Alike, SameHashes
  <2> QED BY <1>2, <2>1, <2>2, SameStep
<1>4. \A x \in 1..n : Committing(st.steps, x, st.force) <=> Committing(ut.steps, x, ut.force)
  BY <1>3 DEF Committing, Alike
<1>5. n \in Nat /\ n - 1 \in Nat /\ n - 1 > 0 /\ n <= Len(p) /\ n <= Len(q) /\ n # 1
  BY <1>1
<1>6. m \in 1..(n - 1) /\ LastCommit(st.steps, m, n - 1, st.force)
  BY <1>5, BaseFacts
<1> HIDE DEF m
<1>7. m = Base(ut.steps, n - 1, ut.force)
  <2>1. m \in 1..n /\ \A k \in (m + 1)..(n - 1) : k \in 1..n
    BY <1>5, <1>6
  <2>2. LastCommit(ut.steps, m, n - 1, ut.force)
    BY <1>4, <1>6, <2>1 DEF LastCommit
  <2> QED BY <1>5, <1>6, <2>2, BaseFacts
<1> HIDE DEF p, q
<1>8. LayerOfSteps(p, m, n) = LayerOfSteps(q, m, n)
  <2>1. After(p)[m] = After(q)[m] /\ After(p)[n] = After(q)[n]
    <3>1. m \in 0..n /\ n \in 0..n
      BY <1>5, <1>6
    <3> QED BY <1>1, <1>3, <1>5, <3>1, AfterPrefix
  <2>2. \A k \in (m + 1)..n : k \in 1..n
    BY <1>5, <1>6
  <2>3. Scans(p, m, n) <=> Scans(q, m, n)
    BY <1>3, <2>2 DEF Scans
  <2>4. Copies(p, m, n) = Copies(q, m, n)
    <3>1. \A k \in 1..(n - m) : m + k \in 1..n
      BY <1>5, <1>6
    <3> QED BY <1>3, <3>1 DEF Copies
  <2> QED BY <2>1, <2>3, <2>4 DEF LayerOfSteps
<1> QED BY <1>5, <1>7, <1>8 DEF LayerAt, m, p, q

-----------------------------------------------------------------------------
(* The IDs of the stages of a Dockerfile.                                  *)

Options(r) == <<r.force, r.modify>>
HashesOf(steps, n) == [k \in 1..n |-> Hashed(steps[k])]
Seeds(r) ==
    LET seeds[i \in 1..Len(r.file)] ==
            IF i = 1 THEN <<Options(r)>>
            ELSE seeds[i - 1] \o HashesOf(r.file[i - 1].steps, Len(r.file[i - 1].steps))
    IN seeds
StageID(r, i, n) == Seeds(r)[i] \o HashesOf(r.file[i].steps, n)

Hash == {Options(r) : r \in Requests} \cup {Hashed(s) : s \in PlanStep}

LEMMA AppendEqual ==
    ASSUME NEW T, NEW s \in Seq(T), NEW u \in Seq(T), NEW e \in T, NEW d \in T,
           Append(s, e) = Append(u, d)
    PROVE  s = u /\ e = d
<1> DEFINE a == Append(s, e)
<1>1. /\ Len(a) = Len(s) + 1 /\ Len(s) \in Nat /\ a[Len(s) + 1] = e
      /\ \A i \in 1..Len(s) : a[i] = s[i]
  OBVIOUS
<1>2. /\ Len(a) = Len(u) + 1 /\ Len(u) \in Nat /\ a[Len(u) + 1] = d
      /\ \A i \in 1..Len(u) : a[i] = u[i]
  <2> DEFINE b == Append(u, d)
  <2>1. /\ Len(b) = Len(u) + 1 /\ Len(u) \in Nat /\ b[Len(u) + 1] = d
        /\ \A i \in 1..Len(u) : b[i] = u[i]
    OBVIOUS
  <2>2. a = b
    OBVIOUS
  <2> QED BY <2>1, <2>2
<1> HIDE DEF a
<1>3. Len(s) = Len(u) /\ e = d /\ \A i \in 1..Len(s) : s[i] = u[i]
  BY <1>1, <1>2
<1>4. s = [i \in 1..Len(s) |-> s[i]] /\ u = [i \in 1..Len(u) |-> u[i]]
  OBVIOUS
<1> QED BY <1>3, <1>4

LEMMA JoinNext ==
    ASSUME NEW T, NEW s \in Seq(T), NEW n \in Nat, NEW x \in Nat, n < x, x <= n + 1, NEW h \in [1..x -> T],
           NEW g \in [1..n -> T], \A k \in 1..n : g[k] = h[k]
    PROVE  /\ s \o h \in Seq(T) /\ Len(s \o h) = Len(s) + x
           /\ s \o h = Append(s \o g, h[x])
<1> DEFINE a == s \o h
           b == Append(s \o g, h[x])
<1>0. x = n + 1
  OBVIOUS
<1>1. h \in Seq(T) /\ Len(h) = x
  BY ASequence
<1>2. h[x] \in T
  OBVIOUS
<1>3. g \in Seq(T) /\ Len(g) = n
  BY ASequence
<1>4. \A k \in 1..n : g[k] = h[k]
  OBVIOUS
<1> DEFINE c == s \o g
<1>5. /\ c \in Seq(T) /\ Len(c) = Len(s) + n /\ Len(s) \in Nat
      /\ \A k \in 1..Len(s) : c[k] = s[k]
      /\ \A k \in 1..n : c[Len(s) + k] = g[k]
  BY <1>3
<1>6. /\ a \in Seq(T) /\ Len(a) = Len(s) + x
      /\ \A k \in 1..Len(s) : a[k] = s[k]
      /\ \A k \in 1..x : a[Len(s) + k] = h[k]
  BY <1>1
<1> HIDE DEF c
<1>7. /\ b \in Seq(T) /\ Len(b) = Len(c) + 1 /\ b[Len(c) + 1] = h[x]
      /\ \A k \in 1..Len(c) : b[k] = c[k]
  BY <1>2, <1>5 DEF c
<1> HIDE DEF a, b
<1>8. ASSUME NEW k \in 1..(Len(s) + x) PROVE a[k] = b[k]
  <2>1. CASE k \in 1..Len(s)
    BY <1>5, <1>6, <1>7, <2>1
  <2>2. CASE k \notin 1..Len(s) /\ k # Len(s) + x
    <3> DEFINE L == Len(s)
    <3>0. L \in Nat /\ Len(c) = L + n
      BY <1>5
    <3>4. k \in 1..(L + x) /\ k \notin 1..L /\ k # L + x
      BY <2>2
    <3> HIDE DEF L
    <3>5. k - L \in 1..n /\ L + (k - L) = k /\ k - L \in 1..x /\ k \in 1..(L + n)
      BY <1>0, <3>0, <3>4
    <3>1. k - Len(s) \in 1..n /\ Len(s) + (k - Len(s)) = k /\ k - Len(s) \in 1..x /\ k \in 1..Len(c)
      BY <3>0, <3>5 DEF L
    <3> DEFINE j == k - Len(s)
    <3>2. j \in 1..n /\ j \in 1..x /\ Len(s) + j = k
      BY <3>1
    <3> HIDE DEF j
    <3>3. a[Len(s) + j] = h[j] /\ c[Len(s) + j] = g[j] /\ g[j] = h[j]
      BY <1>4, <1>5, <1>6, <3>2
    <3> QED BY <1>7, <3>1, <3>2, <3>3
  <2>3. CASE k = Len(s) + x
    <3>1. x \in 1..x /\ Len(c) + 1 = Len(s) + x
      BY <1>0, <1>5
    <3> QED BY <1>6, <1>7, <2>3, <3>1
  <2> QED BY <2>1, <2>2, <2>3
<1>9. a = [k \in 1..Len(a) |-> a[k]] /\ b = [k \in 1..Len(b) |-> b[k]] /\ Len(a) = Len(b)
  BY <1>0, <1>5, <1>6, <1>7
<1> QED BY <1>6, <1>8, <1>9 DEF a, b

LEMMA HashesType ==
    ASSUME NEW r \in Requests, NEW i \in 1..Len(r.file), NEW n \in 0..Len(r.file[i].steps)
    PROVE  HashesOf(r.file[i].steps, n) \in [1..n -> Hash]
<1>1. \A k \in 1..n : r.file[i].steps[k] \in PlanStep
  <2>1. \A k \in 1..n : k \in 1..Len(r.file[i].steps)
    BY StepsOf
  <2> QED BY <2>1, StepsOf DEF PlanStep
<1> QED BY <1>1 DEF HashesOf, Hash

(* The seed of a stage is the ID that the stage before it ends with.       *)
LEMMA SeedsIs ==
    ASSUME NEW r \in Requests
    PROVE  /\ Seeds(r)[1] = <<Options(r)>>
           /\ \A i \in 2..Len(r.file) : Seeds(r)[i] = StageID(r, i - 1, Len(r.file[i - 1].steps))
<1> DEFINE N == Len(r.file)
           Body(g, i) == IF i = 1 THEN <<Options(r)>>
                         ELSE g[i - 1] \o HashesOf(r.file[i - 1].steps, Len(r.file[i - 1].steps))
           Recursive(g, n) == g = [i \in 1..n |-> Body(g, i)]
           S == {n \in Nat : \E g : Recursive(g, n)}
<1>1. 0 \in S
  <2>1. Recursive([i \in 1..0 |-> 0], 0)
    OBVIOUS
  <2> HIDE DEF Recursive
  <2> QED BY <2>1
<1>2. ASSUME NEW n \in Nat, n \in S
      PROVE  n + 1 \in S
  <2>1. PICK g : g = [i \in 1..n |-> Body(g, i)]
    BY <1>2
  <2> DEFINE h == [i \in 1..(n + 1) |-> Body(g, i)]
  <2>2. \A k \in 1..n : h[k] = g[k]
    <3> HIDE DEF Body
    <3> QED BY <2>1
  <2>3. \A i \in 1..(n + 1) : Body(h, i) = Body(g, i)
    <3> HIDE DEF h
    <3>1. \A i \in 1..(n + 1) : i # 1 => i - 1 \in 1..n
      OBVIOUS
    <3> QED BY <2>2, <3>1
  <2>4. h = [i \in 1..(n + 1) |-> Body(h, i)]
    <3>1. h = [i \in 1..(n + 1) |-> Body(g, i)]
      OBVIOUS
    <3> HIDE DEF h, Body
    <3> QED BY <2>3, <3>1
  <2>5. Recursive(h, n + 1)
    BY <2>4
  <2> HIDE DEF Recursive
  <2> QED BY <2>5
<1> HIDE DEF S
<1>3. N \in Nat /\ N > 0
  BY FileFacts
<1>4. N \in S
  BY <1>1, <1>2, <1>3, Induction
<1>5. \E g : Recursive(g, N)
  BY <1>4 DEF S
<1>6. Seeds(r) = CHOOSE g : Recursive(g, N)
  BY DEF Seeds
<1> HIDE DEF Recursive
<1>7. Recursive(Seeds(r), N)
  BY <1>5, <1>6
<1>8. Seeds(r) = [i \in 1..N |-> Body(Seeds(r), i)]
  BY <1>7 DEF Recursive
<1>9. \A i \in 2..N : i \in 1..N /\ i # 1
  OBVIOUS
<1>10. 1 \in 1..N
  BY <1>3
<1> QED BY <1>8, <1>9, <1>10 DEF StageID

(* An ID is the seed and the hashes of the directives up to the node.      *)
LEMMA IDFacts ==
    ASSUME NEW r \in Requests
    PROVE  \A i \in 1..Len(r.file) :
              /\ Seeds(r)[i] \in Seq(Hash) /\ Len(Seeds(r)[i]) >= 1
              /\ \A n \in 1..Len(r.file[i].steps) :
                    /\ StageID(r, i, n) \in Seq(Hash)
                    /\ Len(StageID(r, i, n)) = Len(Seeds(r)[i]) + n
                    /\ Hashed(r.file[i].steps[n]) \in Hash
                    /\ n = 1 => StageID(r, i, n) = Append(Seeds(r)[i], Hashed(r.file[i].steps[n]))
                    /\ n # 1 => StageID(r, i, n) = Append(StageID(r, i, n - 1), Hashed(r.file[i].steps[n]))
<1> DEFINE Right(i) == Seeds(r)[i] \in Seq(Hash) /\ Len(Seeds(r)[i]) >= 1
           S == {i \in Nat : i + 1 <= Len(r.file) => Right(i + 1)}
<1>1. ASSUME NEW i \in 1..Len(r.file), Right(i), NEW n \in 1..Len(r.file[i].steps)
      PROVE  /\ StageID(r, i, n) \in Seq(Hash)
             /\ Len(StageID(r, i, n)) = Len(Seeds(r)[i]) + n
             /\ Hashed(r.file[i].steps[n]) \in Hash
             /\ n = 1 => StageID(r, i, n) = Append(Seeds(r)[i], Hashed(r.file[i].steps[n]))
             /\ n # 1 => StageID(r, i, n) = Append(StageID(r, i, n - 1), Hashed(r.file[i].steps[n]))
  <2> DEFINE steps == r.file[i].steps
             seed == Seeds(r)[i]
             h == HashesOf(steps, n)
             m == n - 1
  <2>1. /\ Len(steps) \in Nat /\ n \in 0..Len(steps) /\ m \in Nat /\ n = m + 1 /\ n \in 1..n
        /\ \A k \in 1..m : k \in 1..n
    BY StepsOf
  <2>2. h \in [1..n -> Hash] /\ h[n] = Hashed(steps[n])
    BY <2>1, HashesType DEF HashesOf
  <2> DEFINE g == HashesOf(steps, m)
  <2>3. g \in [1..m -> Hash] /\ \A k \in 1..m : g[k] = h[k]
    <3>1. m \in 0..Len(steps)
      BY <2>1
    <3>2. g \in [1..m -> Hash]
      BY <3>1, HashesType
    <3>3. \A k \in 1..m : g[k] = h[k]
      BY <2>1 DEF HashesOf
    <3> QED BY <3>2, <3>3
  <2>4. StageID(r, i, n) = seed \o h /\ StageID(r, i, m) = seed \o g
    BY DEF StageID
  <2>5. seed \in Seq(Hash)
    BY <1>1
  <2> HIDE DEF seed, h, m, g, steps
  <2>6. /\ seed \o h \in Seq(Hash) /\ Len(seed \o h) = Len(seed) + n
        /\ seed \o h = Append(seed \o g, h[n])
    <3>1. m \in Nat /\ n \in Nat /\ m < n /\ n <= m + 1
      BY <2>1
    <3>2. h \in [1..n -> Hash]
      BY <2>2
    <3> QED BY <2>3, <2>5, <3>1, <3>2, JoinNext
  <2>7. h[n] \in Hash
    BY <2>1, <2>2
  <2>8. StageID(r, i, n) = Append(StageID(r, i, m), Hashed(steps[n]))
    BY <2>2, <2>4, <2>6
  <2>9. n = 1 => StageID(r, i, m) = seed
    <3>1. ASSUME n = 1 PROVE seed \o g = seed
      <4>1. g = <<>>
        <5>1. 1..m = {}
          BY <2>1, <3>1
        <5> QED BY <5>1 DEF HashesOf, g
      <4> QED BY <2>5, <4>1
    <3> QED BY <2>4, <3>1
  <2> QED BY <2>2, <2>4, <2>6, <2>7, <2>8, <2>9 DEF seed, m, steps
<1>2. 0 \in S
  <2>1. Options(r) \in Hash
    BY DEF Hash
  <2>2. <<Options(r)>> \in Seq(Hash) /\ Len(<<Options(r)>>) = 1
    BY <2>1
  <2>3. Right(1) /\ 0 + 1 = 1
    <3>1. Seeds(r)[1] = <<Options(r)>>
      BY SeedsIs
    <3>2. Len(Seeds(r)[1]) = 1 /\ Seeds(r)[1] \in Seq(Hash)
      BY <2>2, <3>1, Zenon
    <3> QED BY <3>2
  <2> HIDE DEF Right
  <2> QED BY <2>3
<1>3. ASSUME NEW i \in Nat, i \in S
      PROVE  i + 1 \in S
  <2> SUFFICES ASSUME (i + 1) + 1 <= Len(r.file) PROVE Right((i + 1) + 1)
    OBVIOUS
  <2> DEFINE x == i + 1
             y == (i + 1) + 1
             N == Len(r.file[x].steps)
  <2>1. x \in 1..Len(r.file) /\ y \in 2..Len(r.file) /\ y - 1 = x /\ i + 1 <= Len(r.file)
    BY FileFacts
  <2>2. Right(x)
    BY <1>3, <2>1
  <2> HIDE DEF x, y
  <2>3. N \in 1..N /\ N \in Nat
    <3>1. N \in Nat /\ N > 0
      BY <2>1, StepsOf
    <3> QED BY <3>1
  <2>4. Seeds(r)[y] = StageID(r, x, N)
    BY <2>1, SeedsIs
  <2>5. StageID(r, x, N) \in Seq(Hash) /\ Len(StageID(r, x, N)) = Len(Seeds(r)[x]) + N
    BY <1>1, <2>1, <2>2, <2>3
  <2>6. Len(Seeds(r)[x]) \in Nat
    BY <2>2
  <2> HIDE DEF N
  <2>7. Right(y)
    BY <2>2, <2>3, <2>4, <2>5, <2>6
  <2> QED BY <2>7 DEF y
<1> HIDE DEF S
<1>4. \A i \in Nat : i \in S
  BY <1>2, <1>3, Induction
<1>5. \A i \in 1..Len(r.file) : Right(i)
  <2>1. \A i \in 1..Len(r.file) : i - 1 \in Nat /\ (i - 1) + 1 = i /\ i <= Len(r.file)
    BY FileFacts
  <2>2. ASSUME NEW i \in 1..Len(r.file) PROVE Right(i)
    <3>1. i - 1 \in S /\ (i - 1) + 1 = i /\ i <= Len(r.file)
      BY <1>4, <2>1
    <3> QED BY <3>1 DEF S
  <2> QED BY <2>2
<1> HIDE DEF Right
<1>6. \A i \in 1..Len(r.file) : Right(i) => Seeds(r)[i] \in Seq(Hash) /\ Len(Seeds(r)[i]) >= 1
  BY DEF Right
<1> QED BY <1>1, <1>5, <1>6

Same(r, i, n, t, k, m) == i = k /\ n = m /\ Alike(r, t, i, n)

LEMMA AlikeNext ==
    ASSUME NEW r, NEW t, NEW i, NEW n \in Nat, NEW x, x - 1 = n, x \in Nat, Alike(r, t, i, n),
           Hashed(r.file[i].steps[x]) = Hashed(t.file[i].steps[x])
    PROVE  Alike(r, t, i, x)
<1>1. \A y \in 1..x : y \in 1..n \/ y = x
  OBVIOUS
<1> QED BY <1>1 DEF Alike, SameHashes

LEMMA AlikeStages ==
    ASSUME NEW r, NEW t, NEW i, NEW y \in Nat, i - 1 = y, i \in Nat,
           Len(r.file[y].steps) = Len(t.file[y].steps), Alike(r, t, y, Len(r.file[y].steps)),
           Hashed(r.file[i].steps[1]) = Hashed(t.file[i].steps[1])
    PROVE  Alike(r, t, i, 1)
<1>1. \A k \in 1..(i - 1) : k \in 1..(y - 1) \/ k = y
  OBVIOUS
<1>2. \A x \in 1..1 : x = 1
  OBVIOUS
<1>3. SameHashes(r, t, i, 1)
  BY <1>2 DEF SameHashes
<1> QED BY <1>1, <1>3 DEF Alike

LEMMA FirstStage ==
    ASSUME NEW r \in Requests, NEW t \in Requests, Seeds(r)[1] = Seeds(t)[1],
           Hashed(r.file[1].steps[1]) = Hashed(t.file[1].steps[1])
    PROVE  Alike(r, t, 1, 1)
<1>1. <<Options(r)>> = <<Options(t)>>
  BY SeedsIs
<1>2. Options(r) = Options(t)
  <2>1. \A x, y : <<x>> = <<y>> => x = y
    OBVIOUS
  <2> QED BY <1>1, <2>1
<1>3. r.force = t.force
  <2>1. \A w, x, y, z : <<w, x>> = <<y, z>> => w = y
    OBVIOUS
  <2>2. <<r.force, r.modify>> = <<t.force, t.modify>>
    BY <1>2 DEF Options
  <2> QED BY <2>1, <2>2, Zenon
<1>4. \A k \in 1..(1 - 1) : FALSE
  OBVIOUS
<1>5. \A x \in 1..1 : x = 1
  OBVIOUS
<1> QED BY <1>3, <1>4, <1>5 DEF Alike, SameHashes

(* What a node adds to the ID it chains to.                                *)
Before(r, a, x) == IF x = 1 THEN Seeds(r)[a] ELSE StageID(r, a, x - 1)

LEMMA NodeIDFacts ==
    ASSUME NEW r \in Requests, NEW a \in 1..Len(r.file), NEW x \in 1..Len(r.file[a].steps)
    PROVE  /\ a \in Nat /\ a >= 1 /\ x \in Nat /\ x >= 1
           /\ Len(Seeds(r)[a]) \in Nat /\ Len(Seeds(r)[a]) >= 1
           /\ Len(StageID(r, a, x)) = Len(Seeds(r)[a]) + x
           /\ StageID(r, a, x) = Append(Before(r, a, x), Hashed(r.file[a].steps[x]))
           /\ Before(r, a, x) \in Seq(Hash) /\ Hashed(r.file[a].steps[x]) \in Hash
           /\ r.file[a].steps[x] \in FileSteps
           /\ r.file[a].steps[x].kind = "FROM" <=> x = 1
           /\ x # 1 => x - 1 \in 1..Len(r.file[a].steps)
<1>1. a \in Nat /\ a >= 1
  BY FileFacts
<1>2. x \in Nat /\ x >= 1 /\ (x # 1 => x - 1 \in 1..Len(r.file[a].steps))
  BY StepsOf
<1>3. r.file[a].steps[x] \in FileSteps /\ (r.file[a].steps[x].kind = "FROM" <=> x = 1)
  BY StepsOf
<1>4. /\ Seeds(r)[a] \in Seq(Hash) /\ Len(Seeds(r)[a]) >= 1
      /\ Len(StageID(r, a, x)) = Len(Seeds(r)[a]) + x
      /\ Hashed(r.file[a].steps[x]) \in Hash
      /\ x = 1 => StageID(r, a, x) = Append(Seeds(r)[a], Hashed(r.file[a].steps[x]))
      /\ x # 1 => StageID(r, a, x) = Append(StageID(r, a, x - 1), Hashed(r.file[a].steps[x]))
  BY IDFacts
<1>5. x # 1 => StageID(r, a, x - 1) \in Seq(Hash)
  BY <1>2, IDFacts
<1>6. Len(Seeds(r)[a]) \in Nat
  BY <1>4
<1> QED BY <1>1, <1>2, <1>3, <1>4, <1>5, <1>6 DEF Before

LEMMA SeedFacts ==
    ASSUME NEW r \in Requests, NEW a \in 1..Len(r.file)
    PROVE  /\ a = 1 => Len(Seeds(r)[a]) = 1
           /\ a # 1 => /\ a - 1 \in 1..Len(r.file) /\ a \in 2..Len(r.file)
                       /\ Len(r.file[a - 1].steps) \in 1..Len(r.file[a - 1].steps)
                       /\ Len(r.file[a - 1].steps) \in Nat
                       /\ Seeds(r)[a] = StageID(r, a - 1, Len(r.file[a - 1].steps))
                       /\ Len(Seeds(r)[a]) >= 2
<1>1. CASE a = 1
  <2>1. Seeds(r)[1] = <<Options(r)>> /\ Len(<<Options(r)>>) = 1
    BY SeedsIs
  <2> QED BY <1>1, <2>1
<1>2. CASE a # 1
  <2> DEFINE p == a - 1
             P == Len(r.file[p].steps)
  <2>1. p \in 1..Len(r.file) /\ a \in 2..Len(r.file)
    BY <1>2, FileFacts
  <2>2. Seeds(r)[a] = StageID(r, p, P)
    BY <2>1, SeedsIs
  <2> HIDE DEF p
  <2>3. P \in Nat /\ P > 0
    BY <2>1, StepsOf
  <2>4. P \in 1..P
    BY <2>3
  <2>5. Len(StageID(r, p, P)) = Len(Seeds(r)[p]) + P /\ Len(Seeds(r)[p]) \in Nat /\ Len(Seeds(r)[p]) >= 1
    BY <2>1, <2>4, NodeIDFacts
  <2>6. Len(StageID(r, p, P)) >= 2
    <3> HIDE DEF P
    <3> QED BY <2>3, <2>5
  <2> QED BY <1>2, <2>1, <2>2, <2>3, <2>4, <2>6 DEF p
<1> QED BY <1>1, <1>2

(* The same last directive after the same ID before it. *)
LastsSame(r, a, x, t, b, y) ==
    /\ Before(r, a, x) = Before(t, b, y)
    /\ Hashed(r.file[a].steps[x]) = Hashed(t.file[b].steps[y])
    /\ x = 1 <=> y = 1

(* Two IDs that are the same end with the same directives, back to the     *)
(* first stage of both.                                                    *)
LEMMA LastOfIDs ==
    ASSUME NEW r \in Requests, NEW t \in Requests,
           NEW a \in 1..Len(r.file), NEW x \in 1..Len(r.file[a].steps),
           NEW b \in 1..Len(t.file), NEW y \in 1..Len(t.file[b].steps)
    PROVE  StageID(r, a, x) = StageID(t, b, y) => LastsSame(r, a, x, t, b, y)
<1> SUFFICES ASSUME StageID(r, a, x) = StageID(t, b, y)
             PROVE  LastsSame(r, a, x, t, b, y)
  OBVIOUS
<1> DEFINE hx == Hashed(r.file[a].steps[x])
           hy == Hashed(t.file[b].steps[y])
           sx == Before(r, a, x)
           sy == Before(t, b, y)
<1>1. /\ StageID(r, a, x) = Append(sx, hx) /\ hx \in Hash /\ sx \in Seq(Hash)
      /\ r.file[a].steps[x] \in FileSteps /\ (r.file[a].steps[x].kind = "FROM" <=> x = 1)
  BY NodeIDFacts
<1>2. /\ StageID(t, b, y) = Append(sy, hy) /\ hy \in Hash /\ sy \in Seq(Hash)
      /\ t.file[b].steps[y] \in FileSteps /\ (t.file[b].steps[y].kind = "FROM" <=> y = 1)
  BY NodeIDFacts
<1>3. sx = sy /\ hx = hy
  <2> HIDE DEF sx, sy, hx, hy
  <2>1. Append(sx, hx) = Append(sy, hy)
    BY <1>1, <1>2
  <2> QED BY <1>1, <1>2, <2>1, AppendEqual
<1>4. r.file[a].steps[x].kind = t.file[b].steps[y].kind
  BY <1>1, <1>2, <1>3, HashIs
<1> QED BY <1>1, <1>2, <1>3, <1>4 DEF LastsSame

(* An ID tells the stage and the node, and the directives up to there.     *)
LEMMA IDsTell ==
    ASSUME NEW r \in Requests, NEW t \in Requests
    PROVE  \A i \in 1..Len(r.file) : \A n \in 1..Len(r.file[i].steps) :
           \A k \in 1..Len(t.file) : \A m \in 1..Len(t.file[k].steps) :
               StageID(r, i, n) = StageID(t, k, m) => Same(r, i, n, t, k, m)
<1> DEFINE Tell(L) ==
               \A a \in 1..Len(r.file) : \A x \in 1..Len(r.file[a].steps) :
               \A b \in 1..Len(t.file) : \A y \in 1..Len(t.file[b].steps) :
                   Len(StageID(r, a, x)) <= L /\ StageID(r, a, x) = StageID(t, b, y) => Same(r, a, x, t, b, y)
           S == {L \in Nat : Tell(L)}
<1>1. 0 \in S
  <2>1. Tell(0)
    <3>1. ASSUME NEW a \in 1..Len(r.file), NEW x \in 1..Len(r.file[a].steps)
          PROVE  ~(Len(StageID(r, a, x)) <= 0)
      <4>1. /\ Len(Seeds(r)[a]) \in Nat /\ Len(Seeds(r)[a]) >= 1 /\ x \in Nat
            /\ Len(StageID(r, a, x)) = Len(Seeds(r)[a]) + x
        BY NodeIDFacts
      <4> QED BY <4>1
    <3> QED BY <3>1
  <2> HIDE DEF Tell
  <2> QED BY <2>1
<1>2. ASSUME NEW L \in Nat, L \in S
      PROVE  L + 1 \in S
  <2>1. ASSUME NEW a \in 1..Len(r.file), NEW x \in 1..Len(r.file[a].steps),
               NEW b \in 1..Len(t.file), NEW y \in 1..Len(t.file[b].steps),
               Len(StageID(r, a, x)) <= L + 1, StageID(r, a, x) = StageID(t, b, y)
        PROVE  Same(r, a, x, t, b, y)
    <3>1. /\ Before(r, a, x) = Before(t, b, y) /\ (x = 1 <=> y = 1)
          /\ Hashed(r.file[a].steps[x]) = Hashed(t.file[b].steps[y])
      <4>1. StageID(r, a, x) = StageID(t, b, y)
        BY <2>1
      <4>2. LastsSame(r, a, x, t, b, y)
        BY <4>1, LastOfIDs
      <4> QED BY <4>2 DEF LastsSame
    <3>2. /\ a \in Nat /\ x \in Nat /\ Len(Seeds(r)[a]) \in Nat /\ Len(Seeds(r)[a]) >= 1
          /\ Len(StageID(r, a, x)) = Len(Seeds(r)[a]) + x
          /\ x # 1 => x - 1 \in 1..Len(r.file[a].steps)
      BY NodeIDFacts
    <3>3. /\ b \in Nat /\ y \in Nat
          /\ y # 1 => y - 1 \in 1..Len(t.file[b].steps)
      BY NodeIDFacts
    <3>4. Tell(L)
      BY <1>2
    <3>5. CASE x # 1
      <4>1. /\ x - 1 \in 1..Len(r.file[a].steps) /\ y - 1 \in 1..Len(t.file[b].steps)
            /\ StageID(r, a, x - 1) = StageID(t, b, y - 1)
        BY <3>1, <3>2, <3>3, <3>5 DEF Before
      <4>2. Len(StageID(r, a, x - 1)) <= L
        <5>1. Len(StageID(r, a, x - 1)) = Len(Seeds(r)[a]) + (x - 1)
          BY <4>1, NodeIDFacts
        <5> QED BY <2>1, <3>2, <5>1
      <4>3. Same(r, a, x - 1, t, b, y - 1)
        BY <3>4, <4>1, <4>2
      <4>4. a = b /\ x - 1 = y - 1 /\ Alike(r, t, a, x - 1) /\ x - 1 \in Nat
        BY <3>2, <3>5, <4>3 DEF Same
      <4>5. x = y
        BY <3>2, <3>3, <4>4
      <4>6. Alike(r, t, a, x)
        BY <3>1, <3>2, <4>4, <4>5, AlikeNext
      <4> QED BY <4>4, <4>5, <4>6 DEF Same
    <3>6. CASE x = 1
      <4>1. Seeds(r)[a] = Seeds(t)[b] /\ y = 1
        BY <3>1, <3>6 DEF Before
      <4>2. /\ a = 1 => Len(Seeds(r)[a]) = 1
            /\ a # 1 => /\ a - 1 \in 1..Len(r.file)
                        /\ Len(r.file[a - 1].steps) \in 1..Len(r.file[a - 1].steps)
                        /\ Len(r.file[a - 1].steps) \in Nat
                        /\ Seeds(r)[a] = StageID(r, a - 1, Len(r.file[a - 1].steps))
                        /\ Len(Seeds(r)[a]) >= 2
        BY SeedFacts
      <4>3. /\ b = 1 => Len(Seeds(t)[b]) = 1
            /\ b # 1 => /\ b - 1 \in 1..Len(t.file)
                        /\ Len(t.file[b - 1].steps) \in 1..Len(t.file[b - 1].steps)
                        /\ Seeds(t)[b] = StageID(t, b - 1, Len(t.file[b - 1].steps))
                        /\ Len(Seeds(t)[b]) >= 2
        BY SeedFacts
      <4>4. a = 1 <=> b = 1
        <5>1. ~(1 >= 2)
          OBVIOUS
        <5>2. Len(Seeds(r)[a]) = Len(Seeds(t)[b])
          BY <4>1
        <5> QED BY <4>2, <4>3, <5>1, <5>2
      <4>5. CASE a = 1
        <5>1. /\ Seeds(r)[1] = Seeds(t)[1] /\ b = 1
              /\ Hashed(r.file[1].steps[1]) = Hashed(t.file[1].steps[1])
          BY <3>1, <3>6, <4>1, <4>4, <4>5
        <5>2. Alike(r, t, 1, 1)
          BY <5>1, FirstStage
        <5> QED BY <3>6, <4>1, <4>5, <5>1, <5>2 DEF Same
      <4>6. CASE a # 1
        <5> DEFINE p == a - 1
                   o == b - 1
                   P == Len(r.file[p].steps)
                   O == Len(t.file[o].steps)
        <5>1. /\ p \in 1..Len(r.file) /\ P \in 1..Len(r.file[p].steps) /\ P \in Nat
              /\ o \in 1..Len(t.file) /\ O \in 1..Len(t.file[o].steps)
              /\ StageID(r, p, P) = StageID(t, o, O) /\ Seeds(r)[a] = StageID(r, p, P)
          BY <4>1, <4>2, <4>3, <4>4, <4>6
        <5> HIDE DEF p, o
        <5>2. Len(StageID(r, p, P)) <= L
          BY <2>1, <3>2, <3>6, <5>1
        <5>3. Same(r, p, P, t, o, O)
          BY <3>4, <5>1, <5>2
        <5>4. p = o /\ P = O /\ Alike(r, t, p, P)
          BY <5>3 DEF Same
        <5>5. a = b /\ a - 1 = p /\ p \in Nat
          BY <3>2, <3>3, <5>1, <5>4 DEF p, o
        <5>6. Hashed(r.file[a].steps[1]) = Hashed(t.file[a].steps[1])
          BY <3>1, <3>6, <4>1, <5>5
        <5>7. Alike(r, t, a, 1)
          BY <3>2, <5>4, <5>5, <5>6, AlikeStages
        <5> QED BY <3>6, <4>1, <5>5, <5>7 DEF Same
      <4> QED BY <4>5, <4>6
    <3> QED BY <3>5, <3>6
  <2>2. Tell(L + 1)
    BY <2>1
  <2> HIDE DEF Tell
  <2> QED BY <2>2
<1> HIDE DEF S
<1>3. \A L \in Nat : L \in S
  BY <1>1, <1>2, Induction
<1>4. \A L \in Nat : Tell(L)
  BY <1>3 DEF S
<1>5. ASSUME NEW i \in 1..Len(r.file), NEW n \in 1..Len(r.file[i].steps)
      PROVE  Len(StageID(r, i, n)) \in Nat /\ Len(StageID(r, i, n)) <= Len(StageID(r, i, n))
  <2>1. n \in Nat /\ Len(Seeds(r)[i]) \in Nat /\ Len(StageID(r, i, n)) = Len(Seeds(r)[i]) + n
    BY NodeIDFacts
  <2> QED BY <2>1
<1> QED BY <1>4, <1>5

-----------------------------------------------------------------------------
(* The cache: each ID has the layer that its node has, for whichever       *)
(* command line has that node.                                             *)

OwnStage(r, i) == PlanStage(AliasOf(r.file, i), r.file[i].steps, Seeds(r)[i], r.force)
LayersAt(r, i, n) == LayerAt(OwnStage(r, i), Meanings(r, i), n)

(* The image of a stage that was added for it. *)
PullSteps(name) == <<[kind |-> "FROM", layers |-> LayersOf(name)]>>

(* What an ID ends in. *)
End(id) == id[Len(id)]

CacheIsRight(c) ==
    /\ \A r \in Requests : \A i \in 1..Len(r.file) : Resolvable(r, i) =>
          \A n \in 2..Len(r.file[i].steps) :
              StageID(r, i, n) \in DOMAIN c => c[StageID(r, i, n)] = LayersAt(r, i, n)
    /\ \A id \in DOMAIN c : End(id)[1] = "FROM" => c[id] = LayersOf(End(id)[2])

(* A stage of the Dockerfile, as the plan has it.                          *)
LEMMA OwnFacts ==
    ASSUME NEW r \in Requests, NEW i \in 1..Len(r.file)
    PROVE  /\ OwnStage(r, i).alias = AliasOf(r.file, i)
           /\ OwnStage(r, i).steps = r.file[i].steps
           /\ OwnStage(r, i).force = r.force
           /\ \A n \in 1..Len(r.file[i].steps) : OwnStage(r, i).ids[n] = StageID(r, i, n)
           /\ DOMAIN OwnStage(r, i).ids = 1..Len(r.file[i].steps)
           /\ IsStage(OwnStage(r, i))
<1>1. /\ OwnStage(r, i).alias = AliasOf(r.file, i)
      /\ OwnStage(r, i).steps = r.file[i].steps
      /\ OwnStage(r, i).force = r.force
      /\ OwnStage(r, i).ids = [n \in DOMAIN r.file[i].steps |->
                                  Seeds(r)[i] \o [k \in 1..n |-> Hashed(r.file[i].steps[k])]]
  BY DEF OwnStage, PlanStage
<1>2. DOMAIN r.file[i].steps = 1..Len(r.file[i].steps) /\ IsStage(r.file[i])
  BY StepsOf, FileFacts
<1>3. \A n \in 1..Len(r.file[i].steps) : OwnStage(r, i).ids[n] = StageID(r, i, n)
  BY <1>1, <1>2 DEF StageID, HashesOf
<1> QED BY <1>1, <1>2, <1>3 DEF IsStage

(* The last directive of an ID, and whether it is FROM. *)
LEMMA EndIs ==
    ASSUME NEW r \in Requests, NEW i \in 1..Len(r.file), NEW n \in 1..Len(r.file[i].steps)
    PROVE  /\ End(StageID(r, i, n))[1] = "FROM" <=> n = 1
           /\ n = 1 => End(StageID(r, i, n))[2] = r.file[i].steps[1].image
<1> DEFINE s == r.file[i].steps[n]
           before == Before(r, i, n)
           h == Hashed(s)
<1>1. StageID(r, i, n) = Append(before, h) /\ before \in Seq(Hash) /\ h \in Hash
      /\ s \in FileSteps /\ (s.kind = "FROM" <=> n = 1)
  BY NodeIDFacts
<1>2. s.kind \in {"FROM", "COPY", "RUN", "COPYFROM"}
  BY <1>1, FileStepFacts
<1>3. End(StageID(r, i, n)) = h
  <2> HIDE DEF before, h
  <2>1. End(Append(before, h)) = h
    BY <1>1 DEF End
  <2> QED BY <1>1, <2>1
<1>4. (h[1] = "FROM" <=> s.kind = "FROM") /\ (s.kind = "FROM" => h[2] = s.image)
  <2> HIDE DEF s
  <2> QED BY <1>2, HashParts
<1> QED BY <1>1, <1>3, <1>4

LEMMA JoinIs ==
    ASSUME NEW T, NEW s \in Seq(T), NEW x \in Nat, NEW h \in Seq(T), Len(h) = x
    PROVE  /\ s \o h \in Seq(T) /\ Len(s \o h) = Len(s) + x /\ Len(s) \in Nat
           /\ \A k \in 1..x : (s \o h)[Len(s) + k] = h[k]
OBVIOUS

LEMMA EndOfJoin ==
    ASSUME NEW T, NEW s \in Seq(T), NEW h \in Seq(T), NEW x \in Nat, Len(h) = x, x > 0
    PROVE  s \o h \in Seq(T) /\ End(s \o h) = h[x]
<1>1. /\ s \o h \in Seq(T) /\ Len(s \o h) = Len(s) + x /\ Len(s) \in Nat
      /\ \A k \in 1..x : (s \o h)[Len(s) + k] = h[k]
  BY JoinIs
<1>2. x \in 1..x
  OBVIOUS
<1> QED BY <1>1, <1>2 DEF End

(* A stage that the plan adds for an image to copy from.                   *)
LEMMA PullFacts ==
    ASSUME NEW name, NEW seed \in Seq(Hash), PullOf(name) \in PlanStep
    PROVE  LET st == RemoteImageStage(name, seed)
           IN /\ st.alias = name /\ st.steps = <<PullOf(name)>> /\ ~st.force
              /\ Len(st.steps) = 1 /\ st.steps[1] = PullOf(name)
              /\ End(st.ids[1]) = <<"FROM", name>>
              /\ st.ids[1] \in Seq(Hash)
              /\ IsStage(st)
<1> DEFINE st == RemoteImageStage(name, seed)
           steps == <<PullOf(name)>>
           h == Hashed(PullOf(name))
           hs == [k \in 1..1 |-> Hashed(steps[k])]
<1>1. /\ st.alias = name /\ st.steps = steps /\ st.force = FALSE
      /\ st.ids = [n \in DOMAIN steps |-> seed \o [k \in 1..n |-> Hashed(steps[k])]]
  BY DEF RemoteImageStage, PlanStage
<1>2. Len(steps) = 1 /\ steps[1] = PullOf(name) /\ DOMAIN steps = 1..1 /\ 1 \in DOMAIN steps
      /\ steps \in Seq(PlanStep)
  OBVIOUS
<1>3. st.ids[1] = seed \o hs
  BY <1>1, <1>2
<1>4. h = <<"FROM", name>> /\ h \in Hash
  BY DEF Hashed, PullOf, Hash
<1>5. hs = [k \in 1..1 |-> h]
  BY <1>2
<1> HIDE DEF h, hs, st
<1>6. hs \in Seq(Hash) /\ Len(hs) = 1 /\ hs[1] = h
  <2>1. hs \in [1..1 -> Hash]
    BY <1>4, <1>5
  <2> QED BY <1>5, <2>1
<1>7. PICK x \in Nat : x = 1
  OBVIOUS
<1>8. seed \o hs \in Seq(Hash) /\ End(seed \o hs) = h
  <2>1. Len(hs) = x /\ x > 0 /\ hs[x] = h
    BY <1>6, <1>7
  <2> QED BY <1>6, <2>1, EndOfJoin
<1> HIDE DEF steps
<1>9. IsStage(st)
  BY <1>1, <1>2 DEF IsStage
<1> QED BY <1>1, <1>2, <1>3, <1>4, <1>8, <1>9 DEF st, steps

(* Two nodes with one ID have one layer. *)
LEMMA SameID ==
    ASSUME SourcesAreClear, SameAnnotations,
           NEW r \in Requests, NEW i \in 1..Len(r.file), NEW n \in 2..Len(r.file[i].steps),
           NEW t \in Requests, NEW k \in 1..Len(t.file), NEW m \in 2..Len(t.file[k].steps),
           Resolvable(r, i), Resolvable(t, k)
    PROVE  StageID(r, i, n) = StageID(t, k, m) => LayersAt(r, i, n) = LayersAt(t, k, m)
<1> SUFFICES ASSUME StageID(r, i, n) = StageID(t, k, m)
             PROVE  LayersAt(r, i, n) = LayersAt(t, k, m)
  OBVIOUS
<1>1. n \in 1..Len(r.file[i].steps) /\ m \in 1..Len(t.file[k].steps)
  OBVIOUS
<1>2. Same(r, i, n, t, k, m)
  BY <1>1, IDsTell
<1>3. i = k /\ n = m /\ Alike(r, t, i, n)
  BY <1>2 DEF Same
<1>4. i \in 1..Len(t.file) /\ n \in 2..Len(t.file[i].steps) /\ Resolvable(t, i)
  BY <1>3
<1> DEFINE st == OwnStage(r, i)
           ut == OwnStage(t, i)
<1>5. st.steps = r.file[i].steps /\ st.force = r.force
  BY OwnFacts
<1>6. ut.steps = t.file[i].steps /\ ut.force = t.force
  BY <1>4, OwnFacts
<1> HIDE DEF st, ut
<1>7. LayerAt(st, Meanings(r, i), n) = LayerAt(ut, Meanings(t, i), n)
  BY <1>3, <1>4, <1>5, <1>6, SameLayers
<1> QED BY <1>3, <1>7 DEF LayersAt, st, ut

(* Layers that a stage of a Dockerfile adds to the cache are right for     *)
(* every Dockerfile with that ID.                                          *)
LEMMA OwnGrows ==
    ASSUME SourcesAreClear, SameAnnotations, CacheIsRight(cache),
           NEW t \in Requests, NEW k \in 1..Len(t.file), Resolvable(t, k),
           NEW l \in 0..Len(t.file[k].steps),
           NEW c, CacheGrows(OwnStage(t, k), Meanings(t, k), l, c)
    PROVE  CacheIsRight(c)
<1>1. ASSUME NEW id \in DOMAIN c
      PROVE  \/ id \in DOMAIN cache /\ c[id] = cache[id]
             \/ \E m \in 1..Len(t.file[k].steps) :
                   id = StageID(t, k, m) /\ c[id] = LayersAt(t, k, m)
  <2>1. \A m \in 1..l : m \in 1..Len(t.file[k].steps)
    BY StepsOf
  <2> QED BY <2>1, OwnFacts DEF CacheGrows, LayersAt
<1>2. LayersAt(t, k, 1) = LayersOf(t.file[k].steps[1].image)
  <2>1. 1 \in 1..Len(t.file[k].steps)
    BY StepsOf
  <2>2. t.file[k].steps[1].kind = "FROM"
    BY <2>1, StepsOf
  <2>3. Meanings(t, k)[1] = Meaning(t.file, Described(t.file), k, t.file[k].steps[1])
    BY <2>1, MeaningsFacts
  <2> QED BY <2>2, <2>3 DEF LayersAt, LayerAt, Meaning
<1>3. ASSUME NEW r \in Requests, NEW i \in 1..Len(r.file), Resolvable(r, i),
             NEW n \in 2..Len(r.file[i].steps), StageID(r, i, n) \in DOMAIN c
      PROVE  c[StageID(r, i, n)] = LayersAt(r, i, n)
  <2> DEFINE id == StageID(r, i, n)
  <2>1. CASE id \in DOMAIN cache /\ c[id] = cache[id]
    BY <1>3, <2>1 DEF CacheIsRight
  <2>2. ASSUME NEW m \in 1..Len(t.file[k].steps), id = StageID(t, k, m), c[id] = LayersAt(t, k, m)
        PROVE  c[id] = LayersAt(r, i, n)
    <3>1. End(id)[1] # "FROM"
      <4>1. n \in 1..Len(r.file[i].steps) /\ n # 1
        OBVIOUS
      <4> QED BY <4>1, EndIs
    <3>2. m # 1
      <4>1. End(StageID(t, k, m))[1] = "FROM" <=> m = 1
        BY EndIs
      <4> QED BY <2>2, <3>1, <4>1
    <3>3. m \in 2..Len(t.file[k].steps)
      BY <3>2, StepsOf
    <3>4. LayersAt(r, i, n) = LayersAt(t, k, m)
      BY <1>3, <2>2, <3>3, SameID
    <3> QED BY <2>2, <3>4
  <2> QED BY <1>1, <1>3, <2>1, <2>2
<1>4. ASSUME NEW id \in DOMAIN c, End(id)[1] = "FROM"
      PROVE  c[id] = LayersOf(End(id)[2])
  <2>1. CASE id \in DOMAIN cache /\ c[id] = cache[id]
    BY <1>4, <2>1 DEF CacheIsRight
  <2>2. ASSUME NEW m \in 1..Len(t.file[k].steps), id = StageID(t, k, m), c[id] = LayersAt(t, k, m)
        PROVE  c[id] = LayersOf(End(id)[2])
    <3>1. /\ End(StageID(t, k, m))[1] = "FROM" <=> m = 1
          /\ m = 1 => End(StageID(t, k, m))[2] = t.file[k].steps[1].image
      BY EndIs
    <3> QED BY <1>2, <1>4, <2>2, <3>1
  <2> QED BY <1>1, <2>1, <2>2
<1> QED BY <1>3, <1>4 DEF CacheIsRight

(* So are those of a stage that pulls an image.                            *)
LEMMA PullGrows ==
    ASSUME CacheIsRight(cache), NEW name, PullOf(name) \in PlanStep, NEW seed \in Seq(Hash),
           NEW l \in 0..1,
           NEW c, CacheGrows(RemoteImageStage(name, seed), PullSteps(name), l, c)
    PROVE  CacheIsRight(c)
<1> DEFINE st == RemoteImageStage(name, seed)
<1>1. End(st.ids[1]) = <<"FROM", name>>
  BY PullFacts
<1>2. LayerAt(st, PullSteps(name), 1) = LayersOf(name)
  BY DEF LayerAt, PullSteps
<1>3. ASSUME NEW id \in DOMAIN c
      PROVE  \/ id \in DOMAIN cache /\ c[id] = cache[id]
             \/ End(id) = <<"FROM", name>> /\ c[id] = LayersOf(name)
  <2>1. \A m \in 1..l : m = 1
    OBVIOUS
  <2> HIDE DEF st
  <2>2. CacheGrows(st, PullSteps(name), l, c)
    BY DEF st
  <2> QED BY <1>1, <1>2, <2>1, <2>2 DEF CacheGrows
<1>4. ASSUME NEW r \in Requests, NEW i \in 1..Len(r.file), Resolvable(r, i),
             NEW n \in 2..Len(r.file[i].steps), StageID(r, i, n) \in DOMAIN c
      PROVE  c[StageID(r, i, n)] = LayersAt(r, i, n)
  <2> DEFINE id == StageID(r, i, n)
  <2>1. End(id)[1] # "FROM"
    <3>1. n \in 1..Len(r.file[i].steps) /\ n # 1
      OBVIOUS
    <3> QED BY <3>1, EndIs
  <2>2. id \in DOMAIN cache /\ c[id] = cache[id]
    <3>1. <<"FROM", name>>[1] = "FROM"
      OBVIOUS
    <3> QED BY <1>3, <1>4, <2>1, <3>1
  <2> QED BY <1>4, <2>2 DEF CacheIsRight
<1>5. ASSUME NEW id \in DOMAIN c, End(id)[1] = "FROM"
      PROVE  c[id] = LayersOf(End(id)[2])
  <2>1. <<"FROM", name>>[2] = name
    OBVIOUS
  <2> QED BY <1>3, <1>5, <2>1 DEF CacheIsRight
<1> QED BY <1>4, <1>5 DEF CacheIsRight

-----------------------------------------------------------------------------
(* How the plan of a Dockerfile is ordered.                                *)

Aliases(r, c) == {AliasOf(r.file, k) : k \in 1..c}

(* The stages that are added before stage i are those of the names it      *)
(* copies from that are no alias of it or of a stage before it.            *)
Images(r, i) == CopiedFrom(r.file[i]) \ Aliases(r, i)

(* A set listed in any order.                                              *)
LEMMA ListIs ==
    ASSUME NEW S, IsFiniteSet(S), NEW names \in SetToSeqs(S)
    PROVE  \E N \in Nat : /\ names \in [1..N -> S]
                          /\ \A x \in S : \E k \in 1..N : names[k] = x
<1> DEFINE N == Cardinality(S)
<1>1. N \in Nat
  BY FS_CardinalityType
<1>2. names \in [1..N -> S] /\ \A i, j \in 1..N : i # j => names[i] # names[j]
  BY DEF SetToSeqs
<1> HIDE DEF N
<1>3. names \in Injection(1..N, S)
  BY <1>2 DEF Injection, IsInjective
<1>4. Cardinality(1..N) = N
  <2>1. 1 \in Int /\ N \in Int
    BY <1>1
  <2>2. Cardinality(1..N) = IF 1 > N THEN 0 ELSE N - 1 + 1
    BY <2>1, FS_Interval
  <2> QED BY <1>1, <2>2
<1>5. names \in Surjection(1..N, S)
  BY <1>3, <1>4, FS_Injection DEF N
<1>6. \A x \in S : \E k \in 1..N : names[k] = x
  BY <1>5 DEF Surjection
<1> QED BY <1>1, <1>2, <1>6

(* The plan after a stage of the Dockerfile was processed: the stages that *)
(* were there, those of images, and its own.                               *)
LEMMA PlanNext ==
    ASSUME PlanType, request \in Requests, at \in 1..Len(request.file), ProcessStage
    PROVE  LET parsed == request.file[at]
               alias == AliasOf(request.file, at)
               aliases == plan.aliases \cup {alias}
               stage == PlanStage(alias, parsed.steps, SeedFor(plan, request), request.force)
               L == Len(plan.stages)
               Seed(names, k) == SeedFor(plan, request) \o [j \in 1..(k - 1) |-> Hashed(PullOf(names[j]))]
           IN \E N \in Nat : \E names \in [1..N -> CopiedFrom(parsed) \ aliases] :
                 /\ \A x \in CopiedFrom(parsed) \ aliases : \E k \in 1..N : names[k] = x
                 /\ plan' = [stages |-> plan.stages', aliases |-> aliases, dirs |-> MergeDirs(plan.dirs, parsed)]
                 /\ \E T : plan.stages' \in Seq(T)
                 /\ Len(plan.stages') = L + N + 1 /\ L \in Nat
                 /\ \A q \in 1..L : plan.stages'[q] = plan.stages[q]
                 /\ \A k \in 1..N : plan.stages'[L + k] = RemoteImageStage(names[k], Seed(names, k))
                 /\ plan.stages'[L + N + 1] = stage
<1> DEFINE parsed == request.file[at]
           alias == AliasOf(request.file, at)
           aliases == plan.aliases \cup {alias}
           stage == PlanStage(alias, parsed.steps, SeedFor(plan, request), request.force)
           dirs == MergeDirs(plan.dirs, parsed)
           withDirs == [plan EXCEPT !.aliases = aliases, !.dirs = dirs]
           Seed(names, k) == SeedFor(plan, request) \o [j \in 1..(k - 1) |-> Hashed(PullOf(names[j]))]
<1>1. PICK names \in SetToSeqs(CopiedFrom(parsed) \ aliases) :
         plan' = AddStage(AddRemoteStages(withDirs, request, names), stage)
  BY DEF ProcessStage, ImagesAt, AliasesAt
<1>2. plan = [stages |-> plan.stages, aliases |-> plan.aliases, dirs |-> plan.dirs]
  BY DEF PlanType
<1>3. withDirs = [stages |-> plan.stages, aliases |-> aliases, dirs |-> dirs]
  <2>1. withDirs = [[plan EXCEPT !.aliases = aliases] EXCEPT !.dirs = dirs]
    OBVIOUS
  <2> HIDE DEF aliases, dirs, withDirs
  <2>2. [plan EXCEPT !.aliases = aliases] = [stages |-> plan.stages, aliases |-> aliases, dirs |-> plan.dirs]
    BY <1>2
  <2> QED BY <2>1, <2>2
<1>4. SeedFor(withDirs, request) = SeedFor(plan, request)
  BY <1>3 DEF SeedFor
<1> DEFINE remotes == [k \in DOMAIN names |-> RemoteImageStage(names[k], Seed(names, k))]
           before == plan.stages \o remotes
           stages == Append(before, stage)
<1>5. plan' = [stages |-> stages, aliases |-> aliases, dirs |-> dirs]
  <2> HIDE DEF aliases, dirs, stage
  <2>1. AddRemoteStages(withDirs, request, names) = [withDirs EXCEPT !.stages = withDirs.stages \o remotes]
    BY <1>4 DEF AddRemoteStages
  <2> HIDE DEF remotes
  <2>2. AddRemoteStages(withDirs, request, names) =
           [stages |-> plan.stages \o remotes, aliases |-> aliases, dirs |-> dirs]
    BY <1>3, <2>1
  <2>3. plan' = [AddRemoteStages(withDirs, request, names) EXCEPT !.stages =
                    Append(AddRemoteStages(withDirs, request, names).stages, stage)]
    BY <1>1 DEF AddStage
  <2> HIDE DEF before, withDirs
  <2>4. AddRemoteStages(withDirs, request, names) =
           [stages |-> before, aliases |-> aliases, dirs |-> dirs]
    BY <2>2 DEF before
  <2> QED BY <2>3, <2>4
<1>6. IsFiniteSet(CopiedFrom(parsed) \ aliases)
  BY FileFacts, CopiedFinite, FS_Difference
<1>7. PICK N \in Nat : /\ names \in [1..N -> CopiedFrom(parsed) \ aliases]
                       /\ \A x \in CopiedFrom(parsed) \ aliases : \E k \in 1..N : names[k] = x
  <2> DEFINE S == CopiedFrom(parsed) \ aliases
  <2>1. IsFiniteSet(S) /\ names \in SetToSeqs(S)
    BY <1>1, <1>6
  <2> HIDE DEF S
  <2>2. \E N \in Nat : names \in [1..N -> S] /\ \A x \in S : \E k \in 1..N : names[k] = x
    BY <2>1, ListIs
  <2> QED BY <2>2 DEF S
<1>8. remotes = [k \in 1..N |-> RemoteImageStage(names[k], Seed(names, k))]
  BY <1>7
<1>9. PICK S : plan.stages \in Seq(S)
  BY DEF PlanType
<1> DEFINE T == S \cup {RemoteImageStage(names[k], Seed(names, k)) : k \in 1..N} \cup {stage}
           L == Len(plan.stages)
<1>10. /\ stages \in Seq(T) /\ Len(stages) = L + N + 1 /\ L \in Nat
       /\ \A q \in 1..L : stages[q] = plan.stages[q]
       /\ \A k \in 1..N : stages[L + k] = remotes[k]
       /\ stages[L + N + 1] = stage
  <2> HIDE DEF Seed, stage
  <2>1. plan.stages \in Seq(T) /\ stage \in T
    BY <1>9
  <2>2. remotes \in [1..N -> T]
    BY <1>8
  <2> HIDE DEF T, remotes
  <2>3. remotes \in Seq(T) /\ Len(remotes) = N
    BY <2>2, ASequence
  <2>4. /\ before \in Seq(T) /\ Len(before) = L + N /\ L \in Nat
        /\ \A q \in 1..L : before[q] = plan.stages[q]
        /\ \A k \in 1..N : before[L + k] = remotes[k]
    BY <2>1, <2>3
  <2> HIDE DEF before, L
  <2>5. /\ stages \in Seq(T) /\ Len(stages) = Len(before) + 1
        /\ \A q \in 1..Len(before) : stages[q] = before[q]
        /\ stages[Len(before) + 1] = stage
    BY <2>1, <2>4
  <2>6. /\ \A q \in 1..L : q \in 1..Len(before)
        /\ \A k \in 1..N : L + k \in 1..Len(before)
    BY <2>4
  <2> HIDE DEF stages
  <2> QED BY <2>4, <2>5, <2>6
<1>11. plan.stages' = stages
  <2> HIDE DEF stages, aliases, dirs
  <2> QED BY <1>5
<1>12. \A k \in 1..N : remotes[k] = RemoteImageStage(names[k], Seed(names, k))
  BY <1>8
<1> HIDE DEF stages, remotes, stage, T, L, Seed, aliases, dirs, parsed
<1>13. /\ \E U : plan.stages' \in Seq(U)
       /\ Len(plan.stages') = L + N + 1 /\ L \in Nat
       /\ \A q \in 1..L : plan.stages'[q] = plan.stages[q]
       /\ \A k \in 1..N : plan.stages'[L + k] = RemoteImageStage(names[k], Seed(names, k))
       /\ plan.stages'[L + N + 1] = stage
       /\ plan' = [stages |-> plan.stages', aliases |-> aliases, dirs |-> dirs]
  BY <1>5, <1>10, <1>11, <1>12
<1> QED BY <1>7, <1>13 DEF stage, L, Seed, aliases, dirs, parsed

(* Among the first q stages of the plan done[q] are of the Dockerfile.  A  *)
(* stage is there for a name that is copied from and is no alias by then.  *)
OwnAt(done, p, r, q) ==
    /\ done[q] = done[q - 1] + 1
    /\ p.stages[q] = OwnStage(r, done[q])
    /\ \A name \in Images(r, done[q]) : \E k \in 1..(q - 1) : p.stages[k].alias = name
PulledAt(done, p, r, q) ==
    /\ done[q] = done[q - 1] /\ done[q] < done[Len(p.stages)]
    /\ \E name \in Images(r, done[q] + 1), seed \in Seq(Hash) :
          p.stages[q] = RemoteImageStage(name, seed)
Ordered(done, p, r, c) ==
    /\ done \in [0..Len(p.stages) -> 0..c]
    /\ done[0] = 0 /\ done[Len(p.stages)] = c
    /\ c > 0 => Len(p.stages) > 0 /\ done[Len(p.stages) - 1] = c - 1
    /\ \A q \in 1..Len(p.stages) : OwnAt(done, p, r, q) \/ PulledAt(done, p, r, q)

(* The plan seeds the next stage of the Dockerfile with the ID that the    *)
(* stage before it ended with, whatever it pulls in between.               *)
LEMMA SeedRight ==
    ASSUME NEW r \in Requests, NEW p, NEW T, p.stages \in Seq(T),
           NEW i \in 1..Len(r.file), NEW c \in Nat, c < i, i <= c + 1,
           NEW done, Ordered(done, p, r, c)
    PROVE  SeedFor(p, r) = Seeds(r)[i]
<1> DEFINE L == Len(p.stages)
<1>1. /\ L \in Nat /\ done \in [0..L -> 0..c] /\ done[0] = 0 /\ done[L] = c
      /\ c > 0 => L > 0 /\ done[L - 1] = c - 1
      /\ \A q \in 1..L : OwnAt(done, p, r, q) \/ PulledAt(done, p, r, q)
  BY DEF Ordered
<1>2. Len(r.file) \in Nat
  BY FileFacts
<1>3. CASE c = 0
  <2>1. i = 1
    BY <1>2, <1>3
  <2>2. L = 0
    <3>1. SUFFICES ASSUME L > 0 PROVE FALSE
      BY <1>1
    <3>2. 1 \in 1..L /\ 1 \in 0..L /\ 0 \in 0..L
      BY <1>1, <3>1
    <3>3. OwnAt(done, p, r, 1) \/ PulledAt(done, p, r, 1)
      BY <1>1, <3>2
    <3>4. done[1] \in 0..0 /\ done[0] = 0 /\ done[L] = 0 /\ 1 - 1 = 0
      BY <1>1, <1>3, <3>2
    <3> QED BY <3>3, <3>4 DEF OwnAt, PulledAt
  <2>3. p.stages = <<>>
    BY <2>2
  <2>4. SeedFor(p, r) = <<Options(r)>>
    BY <2>3 DEF SeedFor, Options
  <2> QED BY <2>1, <2>4, SeedsIs
<1>4. CASE c > 0
  <2>1. L \in 1..L /\ L > 0 /\ done[L - 1] = c - 1
    BY <1>1, <1>4
  <2>2. OwnAt(done, p, r, L)
    BY <1>1, <1>4, <2>1 DEF PulledAt
  <2>3. p.stages[L] = OwnStage(r, c)
    BY <1>1, <2>2 DEF OwnAt
  <2>4. c \in 1..Len(r.file) /\ i \in 2..Len(r.file) /\ i - 1 = c
    BY <1>2, <1>4
  <2> DEFINE M == Len(r.file[c].steps)
             ids == OwnStage(r, c).ids
  <2>5. M \in Nat /\ M > 0 /\ M \in 1..M
    <3>1. M \in Nat /\ M > 0
      BY <2>4, StepsOf
    <3> QED BY <3>1
  <2>6. DOMAIN ids = 1..M /\ ids[M] = StageID(r, c, M)
    BY <2>4, <2>5, OwnFacts
  <2>7. Len(ids) = M
    <3>1. ids = [n \in 1..M |-> ids[n]]
      <4>1. ids = [n \in DOMAIN r.file[c].steps |-> Seeds(r)[c] \o [k \in 1..n |-> Hashed(r.file[c].steps[k])]]
        BY DEF OwnStage, PlanStage
      <4>2. DOMAIN r.file[c].steps = 1..M
        BY <2>4, StepsOf
      <4> QED BY <4>1, <4>2
    <3>2. ids \in [1..M -> {ids[n] : n \in 1..M}]
      BY <3>1
    <3> HIDE DEF ids, M
    <3> QED BY <2>5, <3>2, ASequence
  <2>8. Last(ids) = StageID(r, c, M)
    BY <2>6, <2>7 DEF Last
  <2>9. p.stages # <<>> /\ Last(p.stages) = OwnStage(r, c)
    BY <2>1, <2>3 DEF Last
  <2>10. SeedFor(p, r) = StageID(r, c, M)
    BY <2>8, <2>9 DEF SeedFor
  <2>11. Seeds(r)[i] = StageID(r, i - 1, Len(r.file[i - 1].steps))
    BY <2>4, SeedsIs
  <2> QED BY <2>4, <2>10, <2>11
<1> QED BY <1>3, <1>4

(* An image to copy from that no stage is named after.                     *)
LEMMA ImagesFacts ==
    ASSUME NEW r \in Requests, NEW i \in 1..Len(r.file), NEW name \in Images(r, i)
    PROVE  /\ name \in CopiedFrom(r.file[i]) /\ PullOf(name) \in PlanStep
           /\ Hashed(PullOf(name)) \in Hash /\ name # ""
<1>1. name \in CopiedFrom(r.file[i])
  BY DEF Images
<1>2. PICK s \in CopiesOf(r.file[i]) : name = s.from
  BY <1>1 DEF CopiedFrom
<1>3. s \in FileSteps /\ s.kind = "COPYFROM"
  BY StepsOf
<1>4. PullOf(name) \in PlanStep
  BY <1>2, <1>3 DEF PlanStep, CopySources
<1>5. s \in CopyFromStep
  BY <1>3, FileStepFacts DEF Step, FromStep, CopyStep, RunStep
<1>6. name # ""
  BY <1>2, <1>5 DEF CopyFromStep
<1> QED BY <1>1, <1>4, <1>6 DEF Hash

Positioned(L, N, M) ==
    /\ M - 1 = L + N /\ M \in 0..M /\ M > 0
    /\ 0 \in 0..L /\ L \in 0..L /\ (N # 0 => N \in 1..N) /\ L + N \in 0..M
    /\ \A q \in 0..L : q \in 0..M /\ q <= L
    /\ \A k \in 1..N : /\ L + k \in 0..M /\ ~(L + k <= L) /\ L + k <= L + N
                       /\ L + k \in 1..(M - 1)
    /\ ~(M <= L) /\ ~(M <= L + N)
    /\ \A q \in 1..M : q \in 1..L \/ (q - L \in 1..N /\ L + (q - L) = q) \/ q = M

LEMMA Positions ==
    ASSUME NEW L \in Nat, NEW N \in Nat, NEW M \in Nat
    PROVE  M = L + N + 1 => Positioned(L, N, M)
BY DEF Positioned

(* A plan that a stage of the Dockerfile, and N others, were added to.     *)
Joins(p, o, r, i, names, L, N, M) ==
    /\ L = Len(p.stages) /\ M = Len(o.stages) /\ M = L + N + 1
    /\ \A q \in 1..L : o.stages[q] = p.stages[q]
    /\ \A k \in 1..N : \E seed \in Seq(Hash) : o.stages[L + k] = RemoteImageStage(names[k], seed)
    /\ o.stages[M] = OwnStage(r, i)

(* The order stays right.                                                  *)
LEMMA OrderedNext ==
    ASSUME NEW r \in Requests, NEW p, NEW o, NEW L \in Nat, NEW N \in Nat, NEW M \in Nat,
           NEW i \in 1..Len(r.file), NEW c \in Nat, c < i, i <= c + 1,
           NEW done, Ordered(done, p, r, c),
           NEW names \in [1..N -> Images(r, i)],
           \A x \in Images(r, i) : \E k \in 1..N : names[k] = x,
           Joins(p, o, r, i, names, L, N, M)
    PROVE  \E d : Ordered(d, o, r, i)
<1> DEFINE d == [q \in 0..M |-> IF q <= L THEN done[q] ELSE IF q <= L + N THEN c ELSE i]
<1>0. /\ L = Len(p.stages) /\ M = Len(o.stages)
      /\ \A q \in 1..L : o.stages[q] = p.stages[q]
      /\ \A k \in 1..N : \E seed \in Seq(Hash) : o.stages[L + k] = RemoteImageStage(names[k], seed)
      /\ o.stages[M] = OwnStage(r, i)
  BY DEF Joins
<1>p. Positioned(L, N, M)
  BY Positions DEF Joins
<1>1. /\ done \in [0..L -> 0..c] /\ done[0] = 0 /\ done[L] = c
      /\ c > 0 => L > 0 /\ done[L - 1] = c - 1
      /\ \A q \in 1..L : OwnAt(done, p, r, q) \/ PulledAt(done, p, r, q)
  BY <1>0 DEF Ordered
<1>2. i \in Nat /\ i = c + 1 /\ i > 0 /\ i - 1 = c
  BY FileFacts
<1>3. d \in [0..M -> 0..i]
  <2>1. \A q \in 0..M : (q <= L => q \in 0..L)
    OBVIOUS
  <2>2. c \in 0..i /\ i \in 0..i /\ \A x \in 0..c : x \in 0..i
    BY <1>2
  <2> QED BY <1>1, <2>1, <2>2
<1>4. /\ \A q \in 0..L : q \in 0..M /\ d[q] = done[q]
      /\ \A k \in 1..N : L + k \in 0..M /\ d[L + k] = c
      /\ d[M] = i
  BY <1>p DEF Positioned
<1>5. d[0] = 0 /\ d[L] = c /\ d[L + N] = c /\ d[M - 1] = c
  <2>2. d[0] = 0 /\ d[L] = c
    BY <1>p, <1>1, <1>4 DEF Positioned
  <2>3. d[L + N] = c
    <3>1. N = 0 => L + N = L
      OBVIOUS
    <3> QED BY <1>p, <1>4, <2>2, <3>1 DEF Positioned
  <2> QED BY <1>p, <2>2, <2>3 DEF Positioned
<1> HIDE DEF d
<1>6. ASSUME NEW q \in 1..L
      PROVE  OwnAt(d, o, r, q) \/ PulledAt(d, o, r, q)
  <2>1. q \in 0..L /\ q - 1 \in 0..L /\ \A k \in 1..(q - 1) : k \in 1..L
    OBVIOUS
  <2>2. d[q] = done[q] /\ d[q - 1] = done[q - 1] /\ o.stages[q] = p.stages[q]
    BY <1>0, <1>4, <2>1
  <2>3. CASE OwnAt(done, p, r, q)
    <3>1. \A k \in 1..(q - 1) : o.stages[k] = p.stages[k]
      BY <1>0, <2>1
    <3>2. \A name \in Images(r, d[q]) : \E k \in 1..(q - 1) : o.stages[k].alias = name
      BY <2>2, <2>3, <3>1 DEF OwnAt
    <3>3. OwnAt(d, o, r, q)
      BY <2>2, <2>3, <3>2 DEF OwnAt
    <3> QED BY <3>3
  <2>4. CASE PulledAt(done, p, r, q)
    <3>1. done[q] < c /\ done[q] \in 0..c
      BY <1>0, <1>1, <2>1, <2>4 DEF PulledAt
    <3>2. d[q] < d[Len(o.stages)]
      BY <1>0, <1>2, <1>4, <2>2, <3>1
    <3> QED BY <2>2, <2>4, <3>2 DEF PulledAt
  <2> QED BY <1>1, <2>3, <2>4
<1>7. ASSUME NEW k \in 1..N
      PROVE  PulledAt(d, o, r, L + k)
  <2>1. d[L + k] = c
    BY <1>4
  <2>2. d[(L + k) - 1] = c
    <3>1. CASE k = 1
      <4>1. (L + k) - 1 = L
        BY <3>1
      <4> QED BY <1>5, <4>1
    <3>2. CASE k # 1
      <4>1. k - 1 \in 1..N /\ (L + k) - 1 = L + (k - 1)
        BY <3>2
      <4> QED BY <1>4, <4>1
    <3> QED BY <3>1, <3>2
  <2>3. d[L + k] + 1 = i /\ d[L + k] < d[Len(o.stages)]
    BY <1>0, <1>2, <1>4, <2>1
  <2>4. names[k] \in Images(r, i)
    OBVIOUS
  <2>5. PICK seed \in Seq(Hash) : o.stages[L + k] = RemoteImageStage(names[k], seed)
    BY <1>0
  <2> QED BY <2>1, <2>2, <2>3, <2>4, <2>5 DEF PulledAt
<1>8. OwnAt(d, o, r, M)
  <2>1. ASSUME NEW name \in Images(r, i)
        PROVE  \E k \in 1..(M - 1) : o.stages[k].alias = name
    <3>1. PICK k \in 1..N : names[k] = name
      OBVIOUS
    <3>2. PICK seed \in Seq(Hash) : o.stages[L + k] = RemoteImageStage(name, seed)
      BY <1>0, <3>1
    <3>3. o.stages[L + k].alias = name
      BY <3>2 DEF RemoteImageStage, PlanStage
    <3>4. L + k \in 1..(M - 1)
      BY <1>p DEF Positioned
    <3> QED BY <3>3, <3>4
  <2> QED BY <1>0, <1>2, <1>4, <1>5, <2>1 DEF OwnAt
<1>9. ASSUME NEW q \in 1..M
      PROVE  OwnAt(d, o, r, q) \/ PulledAt(d, o, r, q)
  <2>1. CASE q - L \in 1..N /\ L + (q - L) = q
    BY <1>7, <2>1
  <2> QED BY <1>p, <1>6, <1>8, <2>1 DEF Positioned
<1>11. Ordered(d, o, r, i)
  BY <1>p, <1>0, <1>2, <1>3, <1>4, <1>5, <1>9 DEF Ordered, Positioned
<1> QED BY <1>11

(* The aliases, and the paths to put aside, of the first c stages.         *)
AliasesRight(p, r, c) ==
    /\ p.aliases = Aliases(r, c)
    /\ \A i, k \in 1..c : i # k => AliasOf(r.file, i) # AliasOf(r.file, k)
    /\ \A i \in 1..c : r.file[i].alias # "" => ~IsNumber(r.file[i].alias)
DirsRight(p, r, c) ==
    /\ \A a : a \in DOMAIN p.dirs <=> \E i \in 1..c : a \in CopiedFrom(r.file[i])
    /\ \A a \in DOMAIN p.dirs : \A f : f \in p.dirs[a] <=> \E i \in 1..c : f \in DirsFrom(r.file[i], a)
    /\ \A i \in 1..c : CopiedFrom(r.file[i]) # {} => r.modify
Planned(p, r, c) ==
    /\ AliasesRight(p, r, c) /\ DirsRight(p, r, c)
    /\ \E done : Ordered(done, p, r, c)

(* The stage to process comes after those before it. *)
Follows(r, i, c) ==
    /\ Len(r.file) \in Nat /\ i \in 1..i
    /\ \A k \in 1..i : k \in 1..c \/ k = i
    /\ \A k \in 1..c : k \in 1..i /\ k # i /\ k \in 1..Len(r.file)

LEMMA FollowsIs ==
    ASSUME NEW r \in Requests, NEW i \in 1..Len(r.file), NEW c \in Nat, c < i, i <= c + 1
    PROVE  Follows(r, i, c)
BY FileFacts DEF Follows

(* The aliases that are taken, one stage further.                          *)
LEMMA AliasesNext ==
    ASSUME NEW r \in Requests, NEW p, NEW o, NEW i \in 1..Len(r.file), NEW c \in Nat, c < i, i <= c + 1,
           AliasesRight(p, r, c), o.aliases = p.aliases \cup {AliasOf(r.file, i)},
           r.file[i].alias # "" => r.file[i].alias \notin p.aliases /\ ~IsNumber(r.file[i].alias)
    PROVE  AliasesRight(o, r, i)
<1>1. Len(r.file) \in Nat /\ \A k \in 1..i : k \in 1..c \/ k = i
  BY FollowsIs DEF Follows
<1>2. \A k \in 1..c : k \in 1..i /\ k # i /\ k \in 1..Len(r.file)
  BY FollowsIs DEF Follows
<1>3. i \in 1..i
  BY FollowsIs DEF Follows
<1>4. o.aliases = Aliases(r, i)
  BY <1>1, <1>2, <1>3 DEF AliasesRight, Aliases
<1>5. \A k \in 1..c : AliasOf(r.file, k) # AliasOf(r.file, i)
  <2>1. ASSUME NEW k \in 1..c PROVE AliasOf(r.file, k) # AliasOf(r.file, i)
    <3>1. CASE r.file[i].alias # ""
      BY <3>1 DEF AliasesRight, Aliases, AliasOf
    <3>2. CASE r.file[i].alias = ""
      <4>1. AliasOf(r.file, i) = ToString(i - 1)
        BY <3>2 DEF AliasOf
      <4>2. k \in DOMAIN r.file /\ i \in DOMAIN r.file /\ k # i
        BY <1>2, FileFacts
      <4>3. IsNumber(ToString(i - 1)) /\ ToString(k - 1) # ToString(i - 1)
        BY <4>2, NumbersAssumption
      <4>4. r.file[k].alias # "" => ~IsNumber(r.file[k].alias)
        BY DEF AliasesRight
      <4> QED BY <4>1, <4>3, <4>4 DEF AliasOf
    <3> QED BY <3>1, <3>2
  <2> QED BY <2>1
<1>6. \A k, l \in 1..i : k # l => AliasOf(r.file, k) # AliasOf(r.file, l)
  BY <1>1, <1>5 DEF AliasesRight
<1>7. \A k \in 1..i : r.file[k].alias # "" => ~IsNumber(r.file[k].alias)
  BY <1>1 DEF AliasesRight
<1> QED BY <1>4, <1>6, <1>7 DEF AliasesRight

(* The paths to put aside, one stage further.                              *)
LEMMA DirsNext ==
    ASSUME NEW r \in Requests, NEW p, NEW o, NEW i \in 1..Len(r.file), NEW c \in Nat, c < i, i <= c + 1,
           DirsRight(p, r, c), o.dirs = MergeDirs(p.dirs, r.file[i]),
           CopiesOf(r.file[i]) # {} => r.modify
    PROVE  DirsRight(o, r, i)
<1>1. Len(r.file) \in Nat /\ (\A k \in 1..i : k \in 1..c \/ k = i) /\ i \in 1..i /\ \A k \in 1..c : k \in 1..i
  BY FileFacts
<1> DEFINE stage == r.file[i]
           Old(a) == IF a \in DOMAIN p.dirs THEN p.dirs[a] ELSE {}
           new == [a \in CopiedFrom(stage) |-> Old(a) \cup DirsFrom(stage, a)]
<1>2. o.dirs = Updated(p.dirs, new)
  BY DEF MergeDirs
<1>3. DOMAIN o.dirs = DOMAIN p.dirs \cup CopiedFrom(stage)
  <2> HIDE DEF stage
  <2> QED BY <1>2 DEF Updated
<1>4. \A a \in DOMAIN o.dirs : o.dirs[a] = IF a \in CopiedFrom(stage) THEN Old(a) \cup DirsFrom(stage, a)
                                           ELSE p.dirs[a]
  <2> HIDE DEF stage, Old
  <2> QED BY <1>2 DEF Updated
<1>5. \A a : a \notin CopiedFrom(stage) => DirsFrom(stage, a) = {}
  BY DEF CopiedFrom, DirsFrom
<1>6. \A a : a \notin DOMAIN p.dirs => \A k \in 1..c : DirsFrom(r.file[k], a) = {}
  <2>1. \A k \in 1..c : \A a : a \notin CopiedFrom(r.file[k]) => DirsFrom(r.file[k], a) = {}
    BY DEF CopiedFrom, DirsFrom
  <2> QED BY <2>1 DEF DirsRight
<1>7. \A a : a \in DOMAIN o.dirs <=> \E k \in 1..i : a \in CopiedFrom(r.file[k])
  BY <1>1, <1>3 DEF DirsRight
<1>8. ASSUME NEW a \in DOMAIN o.dirs, NEW f
      PROVE  f \in o.dirs[a] <=> \E k \in 1..i : f \in DirsFrom(r.file[k], a)
  <2>1. f \in Old(a) <=> \E k \in 1..c : f \in DirsFrom(r.file[k], a)
    BY <1>6 DEF DirsRight
  <2>2. f \in o.dirs[a] <=> f \in Old(a) \/ f \in DirsFrom(stage, a)
    <3>1. CASE a \in CopiedFrom(stage)
      BY <1>4, <3>1
    <3>2. CASE a \notin CopiedFrom(stage)
      BY <1>3, <1>4, <1>5, <3>2
    <3> QED BY <3>1, <3>2
  <2> HIDE DEF Old
  <2> QED BY <1>1, <2>1, <2>2
<1>9. \A k \in 1..i : CopiedFrom(r.file[k]) # {} => r.modify
  <2>1. CopiedFrom(stage) # {} => CopiesOf(stage) # {}
    BY DEF CopiedFrom
  <2> QED BY <1>1, <2>1 DEF DirsRight
<1> QED BY <1>7, <1>8, <1>9 DEF DirsRight

SeedAfter(r, i, names, k) == Seeds(r)[i] \o [j \in 1..(k - 1) |-> Hashed(PullOf(names[j]))]

LEMMA SeedsType ==
    ASSUME NEW r \in Requests, NEW i \in 1..Len(r.file), NEW N \in Nat, NEW names \in [1..N -> Images(r, i)],
           NEW k \in 1..N
    PROVE  SeedAfter(r, i, names, k) \in Seq(Hash)
<1> DEFINE m == k - 1
           h == [j \in 1..m |-> Hashed(PullOf(names[j]))]
<1>1. m \in Nat /\ \A j \in 1..m : j \in 1..N
  OBVIOUS
<1>2. \A j \in 1..m : Hashed(PullOf(names[j])) \in Hash
  <2>1. \A j \in 1..m : names[j] \in Images(r, i)
    BY <1>1
  <2> QED BY <2>1, ImagesFacts
<1> HIDE DEF m
<1>3. h \in [1..m -> Hash]
  BY <1>2
<1> HIDE DEF h
<1>4. h \in Seq(Hash)
  BY <1>1, <1>3, ASequence
<1>5. Seeds(r)[i] \in Seq(Hash)
  BY IDFacts
<1>6. Seeds(r)[i] \o h \in Seq(Hash)
  BY <1>4, <1>5
<1> QED BY <1>6 DEF h, m, SeedAfter

(* Processing a stage of the Dockerfile keeps the plan right.              *)
LEMMA PlannedNext ==
    ASSUME PlanType, request \in Requests, at \in 1..Len(request.file), ProcessStage,
           NEW c \in Nat, c < at, at <= c + 1, Planned(plan, request, c)
    PROVE  Planned(plan', request, at)
<1> DEFINE parsed == request.file[at]
           alias == AliasOf(request.file, at)
           aliases == plan.aliases \cup {alias}
           L == Len(plan.stages)
           Seed(names, k) == SeedFor(plan, request) \o [j \in 1..(k - 1) |-> Hashed(PullOf(names[j]))]
<1>1. PICK N \in Nat : \E names \in [1..N -> CopiedFrom(parsed) \ aliases] :
         /\ \A x \in CopiedFrom(parsed) \ aliases : \E k \in 1..N : names[k] = x
         /\ plan' = [stages |-> plan.stages', aliases |-> aliases, dirs |-> MergeDirs(plan.dirs, parsed)]
         /\ \E T : plan.stages' \in Seq(T)
         /\ Len(plan.stages') = L + N + 1 /\ L \in Nat
         /\ \A q \in 1..L : plan.stages'[q] = plan.stages[q]
         /\ \A k \in 1..N : plan.stages'[L + k] = RemoteImageStage(names[k], Seed(names, k))
         /\ plan.stages'[L + N + 1] = PlanStage(alias, parsed.steps, SeedFor(plan, request), request.force)
  BY PlanNext
<1>2. PICK names \in [1..N -> CopiedFrom(parsed) \ aliases] :
         /\ \A x \in CopiedFrom(parsed) \ aliases : \E k \in 1..N : names[k] = x
         /\ plan' = [stages |-> plan.stages', aliases |-> aliases, dirs |-> MergeDirs(plan.dirs, parsed)]
         /\ \E T : plan.stages' \in Seq(T)
         /\ Len(plan.stages') = L + N + 1 /\ L \in Nat
         /\ \A q \in 1..L : plan.stages'[q] = plan.stages[q]
         /\ \A k \in 1..N : plan.stages'[L + k] = RemoteImageStage(names[k], Seed(names, k))
         /\ plan.stages'[L + N + 1] = PlanStage(alias, parsed.steps, SeedFor(plan, request), request.force)
  BY <1>1
<1>3. PICK done : Ordered(done, plan, request, c)
  BY DEF Planned
<1>4. SeedFor(plan, request) = Seeds(request)[at]
  <2>1. PICK T : plan.stages \in Seq(T)
    BY DEF PlanType
  <2> QED BY <1>3, <2>1, SeedRight
<1>5. StageIsValid(at)
  BY DEF ProcessStage
<1>6. plan'.stages = plan.stages' /\ plan'.aliases = aliases /\ plan'.dirs = MergeDirs(plan.dirs, parsed)
  BY <1>2
<1>7. AliasesRight(plan', request, at)
  <2>1. parsed.alias # "" => parsed.alias \notin plan.aliases /\ ~IsNumber(parsed.alias)
    BY <1>5 DEF StageIsValid
  <2> QED BY <1>6, <2>1, AliasesNext DEF Planned
<1>8. DirsRight(plan', request, at)
  <2>1. CopiesOf(parsed) # {} => request.modify
    BY <1>5 DEF StageIsValid
  <2> QED BY <1>6, <2>1, DirsNext DEF Planned
<1>9. CopiedFrom(parsed) \ aliases = Images(request, at)
  BY <1>6, <1>7 DEF AliasesRight, Images
<1>10. \E d : Ordered(d, plan', request, at)
  <2> DEFINE M == L + N + 1
             o == plan'
  <2>1. names \in [1..N -> Images(request, at)]
    BY <1>9
  <2>2. \A x \in Images(request, at) : \E k \in 1..N : names[k] = x
    BY <1>2, <1>9
  <2>3. \A k \in 1..N : \E seed \in Seq(Hash) : o.stages[L + k] = RemoteImageStage(names[k], seed)
    <3>1. ASSUME NEW k \in 1..N PROVE Seed(names, k) \in Seq(Hash)
      <4>1. N \in Nat
        BY <1>1
      <4>2. SeedAfter(request, at, names, k) \in Seq(Hash)
        BY <2>1, <4>1, SeedsType
      <4> QED BY <1>4, <4>2 DEF SeedAfter
    <3> QED BY <1>2, <1>6, <3>1
  <2>4. o.stages[M] = OwnStage(request, at)
    BY <1>2, <1>4, <1>6 DEF OwnStage
  <2>5. Joins(plan, o, request, at, names, L, N, M)
    BY <1>2, <1>6, <2>3, <2>4 DEF Joins
  <2>6. L \in Nat /\ M \in Nat
    BY <1>2
  <2> HIDE DEF L, M, o
  <2> QED BY <1>3, <2>1, <2>2, <2>5, <2>6, OrderedNext DEF o
<1> QED BY <1>7, <1>8, <1>10 DEF Planned

-----------------------------------------------------------------------------
(* While a plan is built.  The stages of the Dockerfile before stage k, and*)
(* those of the plan before stage x, are built; d is what was put aside.   *)
DirRight(p, r, d, k) ==
    \A a \in DOMAIN d :
        /\ a \in DOMAIN p.dirs /\ DOMAIN d[a] = p.dirs[a]
        /\ \A f \in p.dirs[a] : d[a][f] = SourceOf(r.file, Described(r.file), k, a)[f]
PutAside(p, r, d, k, x) ==
    /\ \A q \in 1..(x - 1) : p.stages[q].alias \in DOMAIN p.dirs => p.stages[q].alias \in DOMAIN d
    /\ \A i \in 1..(k - 1) :
          AliasOf(r.file, i) \in DOMAIN p.dirs => AliasOf(r.file, i) \in DOMAIN d
Known(p, r, k, x) ==
    /\ \A q \in 1..(x - 1) : p.stages[q].alias \in Aliases(r, k - 1) \cup DOMAIN Registry
    /\ Resolvable(r, k - 1)
BuildRight(p, r, d, k, x) ==
    /\ AliasesRight(p, r, Len(r.file)) /\ DirsRight(p, r, Len(r.file))
    /\ DirRight(p, r, d, k) /\ PutAside(p, r, d, k, x) /\ Known(p, r, k, x)
    /\ r.target # "" => r.target \in Aliases(r, Len(r.file))
    /\ \A i \in 1..(k - 1) : AliasOf(r.file, i) # r.target

(* The stage of the plan whose turn it is, x, is stage k of the Dockerfile,*)
(* or one of an image that stage k copies from.                            *)
OwnTurn(p, r, k, x) ==
    /\ k \in 1..Len(r.file) /\ p.stages[x] = OwnStage(r, k)
    /\ \A name \in Images(r, k) : \E q \in 1..(x - 1) : p.stages[q].alias = name
PullTurn(p, r, k, x, name) ==
    /\ k \in 1..Len(r.file) /\ name \in Images(r, k)
    /\ \E seed \in Seq(Hash) : p.stages[x] = RemoteImageStage(name, seed)

LEMMA EarlierIs ==
    ASSUME NEW r, NEW k, NEW name
    PROVE  EarlierStages(r.file, k, name) # {} <=> name \in Aliases(r, k - 1)
BY DEF EarlierStages, Aliases

(* What stage k copies from is there. *)
LEMMA ResolvableNext ==
    ASSUME NoSelfCopies, NEW r \in Requests, NEW p, NEW d, NEW k, NEW x,
           BuildRight(p, r, d, k, x), OwnTurn(p, r, k, x)
    PROVE  Resolvable(r, k)
<1>1. k \in 1..Len(r.file) /\ Len(r.file) \in Nat /\ k \in DOMAIN r.file
  BY FileFacts DEF OwnTurn
<1>2. \A i \in 1..k : i \in 1..(k - 1) \/ i = k
  BY <1>1
<1>3. ASSUME NEW name \in CopiedFrom(r.file[k])
      PROVE  Sources(r.file, k, name) # {}
  <2>1. r.modify
    BY <1>1, <1>3 DEF BuildRight, DirsRight
  <2>2. name # AliasOf(r.file, k)
    BY <1>1, <2>1 DEF NoSelfCopies
  <2>3. CASE name \in Aliases(r, k - 1)
    BY <2>3, EarlierIs DEF Sources
  <2>4. CASE name \notin Aliases(r, k - 1)
    <3>1. name \in Images(r, k)
      BY <1>2, <2>2, <2>4 DEF Images, Aliases
    <3>2. name \in DOMAIN Registry
      BY <2>4, <3>1 DEF OwnTurn, BuildRight, Known
    <3>3. EarlierStages(r.file, k, name) = {}
      BY <2>4, EarlierIs
    <3> QED BY <3>2, <3>3 DEF Sources
  <2> QED BY <2>3, <2>4
<1>4. Resolvable(r, k - 1)
  BY DEF BuildRight, Known
<1> QED BY <1>2, <1>3, <1>4 DEF Resolvable

(* A stage finds what it copies from others.                               *)
LEMMA OwnFinds ==
    ASSUME request \in Requests, NEW k, NEW x,
           BuildRight(plan, request, stagesDir, k, x), OwnTurn(plan, request, k, x),
           AliasOf(request.file, k) \notin CopiedFrom(request.file[k]),
           NEW s \in CopiesOf(request.file[k])
    PROVE  Finds(s)
<1> DEFINE file == request.file
           L == Len(file)
           alias == AliasOf(file, k)
<1>1. /\ DirsRight(plan, request, L)
      /\ DirRight(plan, request, stagesDir, k) /\ PutAside(plan, request, stagesDir, k, x)
  BY DEF BuildRight
<1>2. L \in Nat /\ k \in 1..L /\ s.kind = "COPYFROM"
  BY FileFacts DEF OwnTurn, CopiesOf
<1>3. s.from \in CopiedFrom(file[k]) /\ s.src \in DirsFrom(file[k], s.from)
  BY DEF CopiedFrom, DirsFrom
<1>4. s.from \in DOMAIN plan.dirs /\ s.src \in plan.dirs[s.from]
  BY <1>1, <1>2, <1>3 DEF DirsRight
<1>5. s.from # alias
  BY <1>3
<1>6. s.from \in DOMAIN stagesDir
  <2>1. CASE s.from \in Aliases(request, k - 1)
    BY <1>1, <1>4, <2>1 DEF PutAside, Aliases
  <2>2. CASE s.from \notin Aliases(request, k - 1)
    <3>1. \A i \in 1..k : i \in 1..(k - 1) \/ i = k
      BY <1>2
    <3>2. s.from \in Images(request, k)
      BY <1>3, <1>5, <2>2, <3>1 DEF Images, Aliases
    <3>3. PICK q \in 1..(x - 1) : plan.stages[q].alias = s.from
      BY <3>2 DEF OwnTurn
    <3> QED BY <1>1, <1>4, <3>3 DEF PutAside
  <2> QED BY <2>1, <2>2
<1>7. s.src \in DOMAIN stagesDir[s.from]
  BY <1>1, <1>4, <1>6 DEF DirRight
<1> QED BY <1>2, <1>6, <1>7 DEF Finds

(* The steps of a stage find what they are meant to.                       *)
LEMMA OwnIsMeant ==
    ASSUME CacheIsRight(cache), Host, NoSelfCopies, CopiesStay, request \in Requests, NEW k, NEW x,
           BuildRight(plan, request, stagesDir, k, x), OwnTurn(plan, request, k, x),
           Resolvable(request, k), ModifyFS(plan, plan.stages[x]) => root = EmptyFS
    PROVE  Meant(plan.stages[x], Meanings(request, k))
<1> DEFINE st == plan.stages[x]
           q == Meanings(request, k)
           steps == request.file[k].steps
<1>1. k \in 1..Len(request.file) /\ st = OwnStage(request, k)
  BY DEF OwnTurn
<1>2. /\ st.steps = steps /\ IsStage(st) /\ DOMAIN steps = 1..Len(steps)
      /\ Len(steps) \in Nat /\ Len(steps) > 0
      /\ \A n \in 1..Len(steps) : st.ids[n] = StageID(request, k, n)
  <2> DEFINE own == OwnStage(request, k)
  <2>1. own.steps = steps /\ IsStage(own)
    BY <1>1, OwnFacts
  <2>2. \A n \in 1..Len(steps) : own.ids[n] = StageID(request, k, n)
    BY <1>1, OwnFacts
  <2>3. DOMAIN steps = 1..Len(steps) /\ Len(steps) \in Nat /\ Len(steps) > 0
    BY <1>1, StepsOf
  <2> HIDE DEF own, st, steps
  <2>4. st = own
    BY <1>1 DEF own, st
  <2> QED BY <2>1, <2>2, <2>3, <2>4
<1>3. /\ q \in Seq(Found) /\ Len(q) = Len(steps)
      /\ \A n \in 1..Len(steps) :
            /\ q[n] = Meaning(request.file, Described(request.file), k, steps[n])
            /\ q[n].kind = "FROM" <=> n = 1
            /\ q[n].kind = "RUN" <=> steps[n].kind = "RUN"
  BY <1>1, MeaningsFacts
<1>8. ASSUME NEW n \in 2..Len(steps)
      PROVE  Finds(steps[n])
  <2>1. n \in 1..Len(steps) /\ n # 1
    OBVIOUS
  <2>2. steps[n].kind # "FROM" /\ steps[n] \in Range(steps)
    <3>1. \A m \in 1..Len(steps) : steps[m].kind = "FROM" <=> m = 1
      BY <1>1, StepsOf
    <3> HIDE DEF steps
    <3> QED BY <1>2, <2>1, <3>1 DEF Range
  <2>3. CASE steps[n].kind = "COPYFROM"
    <3>1. steps[n] \in CopiesOf(request.file[k])
      BY <2>2, <2>3 DEF CopiesOf
    <3>2. k \in DOMAIN request.file /\ steps[n].from \in CopiedFrom(request.file[k])
      BY <1>1, <3>1, FileFacts DEF CopiedFrom
    <3>3. request.modify
      BY <1>1, <3>2 DEF BuildRight, DirsRight
    <3>4. AliasOf(request.file, k) \notin CopiedFrom(request.file[k])
      BY <3>2, <3>3 DEF NoSelfCopies
    <3> HIDE DEF steps
    <3> QED BY <3>1, <3>4, OwnFinds
  <2>4. CASE steps[n].kind # "COPYFROM"
    <3> HIDE DEF steps
    <3> QED BY <2>2, <2>4 DEF Finds
  <2> QED BY <2>3, <2>4
<1>4. ASSUME NEW s, s.kind = "COPYFROM" => Finds(s)
      PROVE  Resolved(s) = Meaning(request.file, Described(request.file), k, s)
  <2>1. CASE s.kind = "FROM"
    BY <2>1 DEF Resolved, Meaning
  <2>2. CASE s.kind = "COPYFROM"
    <3>1. s.from \in DOMAIN stagesDir /\ s.src \in DOMAIN stagesDir[s.from]
      BY <1>4, <2>2 DEF Finds
    <3>2. stagesDir[s.from][s.src] = SourceOf(request.file, Described(request.file), k, s.from)[s.src]
      BY <3>1 DEF BuildRight, DirRight
    <3> QED BY <1>4, <2>2, <3>2 DEF Resolved, Meaning
  <2>3. CASE s.kind \notin {"FROM", "COPYFROM"}
    BY <2>3 DEF Resolved, Meaning
  <2> QED BY <2>1, <2>2, <2>3
<1>5. ASSUME NEW n \in 1..Len(steps), steps[n].kind = "RUN"
      PROVE  ModifyFS(plan, st)
  <2> HIDE DEF st
  <2> QED BY <1>2, <1>5 DEF ModifyFS, RequireOnDisk
<1>6. ASSUME NEW n \in 1..Len(steps), st.ids[n] \in DOMAIN cache
      PROVE  cache[st.ids[n]] = LayerAt(st, q, n)
  <2>1. st.ids[n] = StageID(request, k, n)
    BY <1>2
  <2>2. CASE n = 1
    <3>1. End(StageID(request, k, 1))[1] = "FROM" /\ End(StageID(request, k, 1))[2] = steps[1].image
      BY <1>1, <2>2, EndIs
    <3>2. cache[StageID(request, k, 1)] = LayersOf(steps[1].image)
      BY <1>6, <2>1, <2>2, <3>1 DEF CacheIsRight
    <3>3. steps[1].kind = "FROM"
      BY <1>1, <2>2, StepsOf
    <3>4. q[1] = Meaning(request.file, Described(request.file), k, steps[1])
      BY <1>3, <2>2
    <3>5. q[1].layers = LayersOf(steps[1].image)
      <4> HIDE DEF q, steps
      <4> QED BY <3>3, <3>4 DEF Meaning
    <3> QED BY <2>1, <2>2, <3>2, <3>5 DEF LayerAt
  <2>3. CASE n # 1
    <3>1. n \in 2..Len(steps)
      BY <2>3
    <3> QED BY <1>1, <1>6, <2>1, <3>1 DEF CacheIsRight, LayersAt
  <2> QED BY <2>2, <2>3
<1>7. ModifyFS(plan, st) => root = EmptyFS
  OBVIOUS
<1>9. ASSUME NEW n \in 1..Len(steps)
      PROVE  Resolved(steps[n]) = q[n]
  <2>1. steps[n].kind = "COPYFROM" => n # 1
    BY <1>1, StepsOf
  <2>2. n # 1 => n \in 2..Len(steps)
    BY <1>2
  <2>3. steps[n].kind = "COPYFROM" => Finds(steps[n])
    BY <1>8, <2>1, <2>2
  <2> HIDE DEF q, steps
  <2> QED BY <1>3, <1>4, <2>3
<1>10. ASSUME NEW n \in 1..Len(steps), q[n].kind = "COPY"
       PROVE  q[n].src # NoFile
  <2> DEFINE s == steps[n]
  <2>1. s \in FileSteps /\ Resolved(s) = q[n]
    BY <1>1, <1>9, StepsOf
  <2>2. n # 1 => n \in 2..Len(steps)
    BY <1>2
  <2>3. s.kind # "FROM"
    <3>1. n # 1
      BY <1>3, <1>10
    <3> QED BY <1>1, <3>1, StepsOf
  <2>4. n # 1
    BY <1>3, <1>10
  <2>5. Finds(s)
    BY <1>8, <2>2, <2>4
  <2> HIDE DEF s, q
  <2>6. CASE s.kind = "COPY"
    <3>1. q[n] = s /\ s.src \in Content
      BY <2>1, <2>6, FileStepFacts DEF Resolved
    <3> QED BY <3>1, NoFileAssumption
  <2>7. CASE s.kind = "COPYFROM"
    <3>1. s.from \in DOMAIN stagesDir /\ s.src \in DOMAIN stagesDir[s.from]
      BY <2>5, <2>7 DEF Finds
    <3>2. q[n].src = stagesDir[s.from][s.src]
      BY <2>1, <2>5, <2>7 DEF Resolved
    <3>3. NoFile \notin Range(stagesDir[s.from])
      BY <3>1 DEF Host
    <3> QED BY <3>1, <3>2, <3>3 DEF Range
  <2>8. CASE s.kind \notin {"COPY", "COPYFROM"}
    BY <1>10, <2>1, <2>3, <2>8 DEF Resolved
  <2> QED BY <2>6, <2>7, <2>8
<1>11. Stay(q)
  <2>1. k \in DOMAIN request.file /\ q = [n \in DOMAIN steps |-> Meaning(request.file, Described(request.file), k, steps[n])]
    BY <1>1, FileFacts DEF Meanings, MeaningsIn
  <2>2. \A n \in DOMAIN q : \A m \in 1..n :
           q[m].kind = "COPY" /\ q[m].src # NoFile => After(q)[n][q[m].dst] # NoFile
    <3> DEFINE Kept(p) == \A n \in DOMAIN p : \A m \in 1..n :
                             p[m].kind = "COPY" /\ p[m].src # NoFile => After(p)[n][p[m].dst] # NoFile
    <3>1. \A r \in Requests : \A i \in DOMAIN r.file :
             Kept([n \in DOMAIN r.file[i].steps |->
                      Meaning(r.file, Described(r.file), i, r.file[i].steps[n])])
      BY DEF CopiesStay
    <3> HIDE DEF Kept
    <3>2. Kept(q)
      BY <2>1, <3>1
    <3> QED BY <3>2 DEF Kept
  <2> HIDE DEF q, steps
  <2>3. \A n \in 1..Len(q) : n \in DOMAIN q /\ \A m \in 1..n : m \in 1..Len(steps)
    BY <1>2, <1>3
  <2> QED BY <1>10, <2>2, <2>3 DEF Stay, CopyOf
<1>12. \A n \in 1..Len(steps) : n > 1 => n \in 2..Len(steps)
  BY <1>2
<1> HIDE DEF st, q
<1> QED BY <1>2, <1>3, <1>5, <1>6, <1>7, <1>8, <1>9, <1>10, <1>11, <1>12 DEF Meant, st, q

(* A stage that pulls is built as it is meant.                             *)
LEMMA PullIsMeant ==
    ASSUME CacheIsRight(cache), request \in Requests, NEW k, NEW x, NEW name,
           PullTurn(plan, request, k, x, name),
           ModifyFS(plan, plan.stages[x]) => root = EmptyFS
    PROVE  Meant(plan.stages[x], PullSteps(name))
<1> DEFINE st == plan.stages[x]
           q == PullSteps(name)
<1>1. PICK seed \in Seq(Hash) : st = RemoteImageStage(name, seed)
  BY DEF PullTurn
<1>2. PullOf(name) \in PlanStep
  BY ImagesFacts DEF PullTurn
<1>3. /\ Len(st.steps) = 1 /\ st.steps[1] = PullOf(name) /\ IsStage(st)
      /\ End(st.ids[1]) = <<"FROM", name>>
  BY <1>1, <1>2, PullFacts
<1>4. q \in Seq(Found) /\ Len(q) = 1 /\ q[1] = [kind |-> "FROM", layers |-> LayersOf(name)]
  <2>1. [kind |-> "FROM", layers |-> LayersOf(name)] \in Found
    BY LayersOfType DEF Found
  <2> QED BY <2>1 DEF PullSteps
<1>5. Resolved(st.steps[1]) = q[1]
  BY <1>3, <1>4 DEF Resolved, PullOf
<1>6. st.ids[1] \in DOMAIN cache => cache[st.ids[1]] = LayerAt(st, q, 1)
  <2>1. End(st.ids[1])[1] = "FROM" /\ End(st.ids[1])[2] = name
    BY <1>3
  <2> QED BY <1>4, <2>1 DEF CacheIsRight, LayerAt
<1>7. ModifyFS(plan, st) => root = EmptyFS
  OBVIOUS
<1> HIDE DEF st, q
<1>8. \A n \in 1..1 : n = 1
  OBVIOUS
<1>9. q[1].kind = "FROM"
  BY <1>4
<1>10. Stay(q)
  <2>1. \A n \in 1..Len(q) : \A m \in 1..n : m = 1
    BY <1>4
  <2> QED BY <1>9, <2>1 DEF Stay, CopyOf
<1> QED BY <1>3, <1>4, <1>5, <1>6, <1>7, <1>8, <1>9, <1>10 DEF Meant, st, q

(* What is put aside after a stage. *)
PutIs(d, st, fs) ==
    /\ st.alias \notin DOMAIN plan.dirs => d = stagesDir
    /\ st.alias \in DOMAIN plan.dirs =>
          /\ DOMAIN d = DOMAIN stagesDir \cup {st.alias}
          /\ DOMAIN d[st.alias] = plan.dirs[st.alias]
          /\ \A f \in plan.dirs[st.alias] : d[st.alias][f] = fs[f]
    /\ \A a \in DOMAIN stagesDir : a # st.alias => d[a] = stagesDir[a]

(* What a checkpoint puts aside.                                           *)
LEMMA CheckpointIs ==
    ASSUME NEW st, NEW fs,
           st.alias \in DOMAIN stagesDir => DOMAIN stagesDir[st.alias] = plan.dirs[st.alias]
    PROVE  PutIs(Checkpoint(st, fs), st, fs)
<1> DEFINE Old == IF st.alias \in DOMAIN stagesDir THEN stagesDir[st.alias] ELSE <<>>
           new == [p \in plan.dirs[st.alias] |-> fs[p]]
           put == Updated(Old, new)
           d == Checkpoint(st, fs)
<1>1. CASE st.alias \notin DOMAIN plan.dirs
  BY <1>1 DEF Checkpoint, PutIs
<1>2. CASE st.alias \in DOMAIN plan.dirs
  <2>1. d = Updated(stagesDir, One(st.alias, put))
    BY <1>2 DEF Checkpoint
  <2>2. DOMAIN Old \subseteq plan.dirs[st.alias]
    <3>1. DOMAIN <<>> = {}
      OBVIOUS
    <3> QED BY <3>1
  <2>3. DOMAIN new = plan.dirs[st.alias] /\ \A f \in plan.dirs[st.alias] : new[f] = fs[f]
    OBVIOUS
  <2> HIDE DEF Old, new, d
  <2>4. DOMAIN put = plan.dirs[st.alias] /\ \A f \in plan.dirs[st.alias] : put[f] = fs[f]
    BY <2>2, <2>3 DEF Updated
  <2> HIDE DEF put
  <2>5. DOMAIN d = DOMAIN stagesDir \cup {st.alias} /\ d[st.alias] = put
    BY <2>1 DEF Updated, One
  <2>6. \A a \in DOMAIN stagesDir : a # st.alias => d[a] = stagesDir[a]
    BY <2>1 DEF Updated, One
  <2> QED BY <1>2, <2>4, <2>5, <2>6 DEF PutIs, d
<1> QED BY <1>1, <1>2

(* The stages before l are those before k, and k. *)
Adds(k, l) == 1..(l - 1) = 1..(k - 1) \cup {k} /\ 1..(l - 1) = 1..k

LEMMA AddsNext ==
    ASSUME NEW k \in Nat, k > 0
    PROVE  Adds(k, k + 1)
BY DEF Adds

(* What is put aside is right after a stage of the Dockerfile is built.    *)
LEMMA OwnBuilt ==
    ASSUME request \in Requests, NEW k, NEW x, NEW l, NEW y, Adds(k, l), Adds(x, y),
           BuildRight(plan, request, stagesDir, k, x), OwnTurn(plan, request, k, x),
           Resolvable(request, k), AliasOf(request.file, k) # request.target,
           NEW fs, plan.stages[x].alias \in DOMAIN plan.dirs => fs = Described(request.file)[k],
           NEW d, PutIs(d, plan.stages[x], fs)
    PROVE  BuildRight(plan, request, d, l, y)
<1> DEFINE st == plan.stages[x]
           file == request.file
           alias == AliasOf(file, k)
<1>1. k \in 1..Len(file) /\ st.alias = alias
  <2>1. k \in 1..Len(file) /\ st = OwnStage(request, k)
    BY DEF OwnTurn
  <2>2. OwnStage(request, k).alias = alias
    BY <2>1, OwnFacts
  <2> QED BY <2>1, <2>2
<1>2. 1..(l - 1) = 1..(k - 1) \cup {k} /\ 1..(y - 1) = 1..(x - 1) \cup {x} /\ 1..(l - 1) = 1..k
  BY DEF Adds
<1>3. /\ AliasesRight(plan, request, Len(file)) /\ DirsRight(plan, request, Len(file))
      /\ DirRight(plan, request, stagesDir, k) /\ PutAside(plan, request, stagesDir, k, x)
      /\ Known(plan, request, k, x)
      /\ request.target # "" => request.target \in Aliases(request, Len(file))
      /\ \A i \in 1..(k - 1) : AliasOf(file, i) # request.target
  BY DEF BuildRight
<1>4. DirRight(plan, request, d, l)
  <2> SUFFICES ASSUME NEW a \in DOMAIN d
               PROVE  /\ a \in DOMAIN plan.dirs /\ DOMAIN d[a] = plan.dirs[a]
                      /\ \A f \in plan.dirs[a] : d[a][f] = SourceOf(file, Described(file), l, a)[f]
    BY DEF DirRight
  <2>1. CASE a = alias
    <3>1. a \in DOMAIN plan.dirs
      BY <1>1, <1>3, <2>1 DEF PutIs, DirRight
    <3>2. EarlierStages(file, l, a) = {k}
      <4>1. \A i \in 1..(l - 1) : i \in 1..Len(file)
        BY <1>1, <1>2, FileFacts
      <4> QED BY <1>1, <1>2, <1>3, <2>1, <4>1 DEF EarlierStages, AliasesRight
    <3>3. SourceOf(file, Described(file), l, a) = Described(file)[k]
      <4>1. (CHOOSE i \in {k} : TRUE) = k /\ {k} # {}
        OBVIOUS
      <4> QED BY <3>2, <4>1 DEF SourceOf
    <3> QED BY <1>1, <2>1, <3>1, <3>3 DEF PutIs
  <2>2. CASE a # alias
    <3>1. a \in DOMAIN stagesDir /\ d[a] = stagesDir[a]
      BY <1>1, <2>2 DEF PutIs
    <3>2. EarlierStages(file, l, a) = EarlierStages(file, k, a)
      BY <1>2, <2>2 DEF EarlierStages
    <3>3. SourceOf(file, Described(file), l, a) = SourceOf(file, Described(file), k, a)
      BY <3>2 DEF SourceOf
    <3> QED BY <1>3, <3>1, <3>3 DEF DirRight
  <2> QED BY <2>1, <2>2
<1>5. PutAside(plan, request, d, l, y)
  <2>1. \A a \in DOMAIN stagesDir : a \in DOMAIN d
    BY DEF PutIs
  <2>2. alias \in DOMAIN plan.dirs => alias \in DOMAIN d
    BY <1>1 DEF PutIs
  <2> HIDE DEF alias
  <2>3. \A q \in 1..(y - 1) : plan.stages[q].alias \in DOMAIN plan.dirs => plan.stages[q].alias \in DOMAIN d
    BY <1>1, <1>2, <1>3, <2>1, <2>2 DEF PutAside
  <2>4. \A i \in 1..(l - 1) : AliasOf(file, i) \in DOMAIN plan.dirs => AliasOf(file, i) \in DOMAIN d
    BY <1>2, <1>3, <2>1, <2>2 DEF PutAside, alias
  <2> QED BY <2>3, <2>4 DEF PutAside
<1>6. Known(plan, request, l, y)
  <2>1. Aliases(request, l - 1) = Aliases(request, k - 1) \cup {alias}
    BY <1>2 DEF Aliases
  <2>2. \A q \in 1..(y - 1) : plan.stages[q].alias \in Aliases(request, l - 1) \cup DOMAIN Registry
    <3> HIDE DEF alias
    <3> QED BY <1>1, <1>2, <1>3, <2>1 DEF Known
  <2>3. Resolvable(request, l - 1)
    BY <1>2 DEF Resolvable
  <2> QED BY <2>2, <2>3 DEF Known
<1>7. \A i \in 1..(l - 1) : AliasOf(file, i) # request.target
  BY <1>2, <1>3
<1> QED BY <1>3, <1>4, <1>5, <1>6, <1>7 DEF BuildRight

(* And after a stage that pulls.                                           *)
LEMMA PullBuilt ==
    ASSUME request \in Requests, NEW k, NEW x, NEW y, Adds(x, y), NEW name,
           BuildRight(plan, request, stagesDir, k, x), PullTurn(plan, request, k, x, name),
           name \in DOMAIN Registry,
           NEW fs, name \in DOMAIN plan.dirs => fs = ApplyLayers(EmptyFS, LayersOf(name)),
           NEW d, PutIs(d, plan.stages[x], fs)
    PROVE  BuildRight(plan, request, d, k, y)
<1> DEFINE st == plan.stages[x]
           file == request.file
<1>1. k \in 1..Len(file) /\ name \in Images(request, k) /\ st.alias = name
  <2>1. PICK seed \in Seq(Hash) : st = RemoteImageStage(name, seed)
    BY DEF PullTurn
  <2> QED BY <2>1 DEF PullTurn, RemoteImageStage, PlanStage
<1>2. 1..(y - 1) = 1..(x - 1) \cup {x}
  BY DEF Adds
<1>3. /\ DirRight(plan, request, stagesDir, k) /\ PutAside(plan, request, stagesDir, k, x)
      /\ Known(plan, request, k, x)
  BY DEF BuildRight
<1>4. DirRight(plan, request, d, k)
  <2> SUFFICES ASSUME NEW a \in DOMAIN d
               PROVE  /\ a \in DOMAIN plan.dirs /\ DOMAIN d[a] = plan.dirs[a]
                      /\ \A f \in plan.dirs[a] : d[a][f] = SourceOf(file, Described(file), k, a)[f]
    BY DEF DirRight
  <2>1. CASE a = name
    <3>1. a \in DOMAIN plan.dirs
      BY <1>1, <1>3, <2>1 DEF PutIs, DirRight
    <3>2. EarlierStages(file, k, a) = {}
      <4>1. \A i \in 1..(k - 1) : i \in 1..k
        BY <1>1
      <4> QED BY <1>1, <2>1, <4>1 DEF EarlierStages, Images, Aliases
    <3>3. SourceOf(file, Described(file), k, a) = ApplyLayers(EmptyFS, LayersOf(a))
      BY <3>2 DEF SourceOf
    <3> QED BY <1>1, <2>1, <3>1, <3>3 DEF PutIs
  <2>2. CASE a # name
    <3>1. a \in DOMAIN stagesDir /\ d[a] = stagesDir[a]
      BY <1>1, <2>2 DEF PutIs
    <3> QED BY <1>3, <3>1 DEF DirRight
  <2> QED BY <2>1, <2>2
<1>5. PutAside(plan, request, d, k, y)
  <2>1. \A a \in DOMAIN stagesDir : a \in DOMAIN d
    BY DEF PutIs
  <2>2. name \in DOMAIN plan.dirs => name \in DOMAIN d
    BY <1>1 DEF PutIs
  <2>3. \A q \in 1..(y - 1) : plan.stages[q].alias \in DOMAIN plan.dirs => plan.stages[q].alias \in DOMAIN d
    BY <1>1, <1>2, <1>3, <2>1, <2>2 DEF PutAside
  <2>4. \A i \in 1..(k - 1) : AliasOf(file, i) \in DOMAIN plan.dirs => AliasOf(file, i) \in DOMAIN d
    BY <1>3, <2>1 DEF PutAside
  <2> QED BY <2>3, <2>4 DEF PutAside
<1>6. Known(plan, request, k, y)
  BY <1>1, <1>2, <1>3 DEF Known
<1> QED BY <1>4, <1>5, <1>6 DEF BuildRight

(* Whose turn it is: the last stage of the Dockerfile is the last one of   *)
(* the plan.                                                               *)
Turn(done, p, r, k, x) ==
    \/ /\ OwnTurn(p, r, k, x) /\ done[x] = k
       /\ k = Len(r.file) <=> x = Len(p.stages)
    \/ /\ \E name : PullTurn(p, r, k, x, name)
       /\ done[x] + 1 = k /\ x # Len(p.stages)

(* Each stage of the plan is one of the Dockerfile, or pulls an image for  *)
(* the next one.                                                           *)
LEMMA TurnIs ==
    ASSUME NEW r \in Requests, NEW p, Len(p.stages) \in Nat, NEW done, Ordered(done, p, r, Len(r.file)),
           NEW x \in 1..Len(p.stages)
    PROVE  Turn(done, p, r, done[x - 1] + 1, x)
<1> DEFINE N == Len(p.stages)
           L == Len(r.file)
           k == done[x - 1] + 1
<1>1. /\ done \in [0..N -> 0..L] /\ done[N] = L
      /\ OwnAt(done, p, r, x) \/ PulledAt(done, p, r, x)
      /\ L > 0 => N > 0 /\ done[N - 1] = L - 1
  BY DEF Ordered
<1>2. L \in Nat /\ L > 0 /\ N \in Nat /\ x \in 1..N
  BY FileFacts
<1>3. x - 1 \in 0..N /\ x \in 0..N /\ N \in 0..N /\ (x # N => x + 1 \in 1..N /\ x + 1 \in 0..N /\ (x + 1) - 1 = x)
  <2> HIDE DEF N
  <2> QED BY <1>2
<1>4. CASE OwnAt(done, p, r, x)
  <2>1. done[x] = k /\ k \in 1..L
    <3> HIDE DEF L, N
    <3> QED BY <1>1, <1>2, <1>3, <1>4 DEF OwnAt
  <2>2. OwnTurn(p, r, k, x)
    BY <1>4, <2>1 DEF OwnAt, OwnTurn
  <2>3. ASSUME k = L, x # N PROVE FALSE
    <3>1. done[x] = L /\ done[x + 1] \in 0..L
      BY <1>1, <1>3, <2>1, <2>3
    <3>2. OwnAt(done, p, r, x + 1) \/ PulledAt(done, p, r, x + 1)
      BY <1>3, <2>3 DEF Ordered
    <3>3. ~OwnAt(done, p, r, x + 1)
      <4>1. OwnAt(done, p, r, x + 1) => done[x + 1] = L + 1
        BY <1>3, <2>3, <3>1 DEF OwnAt
      <4> HIDE DEF L
      <4> QED BY <1>2, <3>1, <4>1
    <3>4. ~PulledAt(done, p, r, x + 1)
      <4>1. PulledAt(done, p, r, x + 1) => done[x + 1] = L /\ done[x + 1] < L
        BY <1>1, <1>3, <2>3, <3>1 DEF PulledAt
      <4> HIDE DEF L
      <4> QED BY <1>2, <4>1
    <3> QED BY <3>2, <3>3, <3>4
  <2>4. x = N => k = L
    BY <1>1, <2>1
  <2> QED BY <2>1, <2>2, <2>3, <2>4 DEF Turn
<1>5. CASE PulledAt(done, p, r, x)
  <2>1. done[x] = done[x - 1] /\ done[x] < done[N]
    BY <1>5 DEF PulledAt
  <2>2. x # N
    <3>1. done[N] \in Nat
      BY <1>1, <1>2
    <3> QED BY <2>1, <3>1
  <2>3. k \in 1..L /\ done[x] + 1 = k
    <3>1. done[x] \in Nat
      BY <1>1, <1>3
    <3> HIDE DEF L
    <3> QED BY <1>1, <1>2, <2>1, <3>1
  <2>4. PICK name \in Images(r, k) : \E seed \in Seq(Hash) : p.stages[x] = RemoteImageStage(name, seed)
    BY <1>5, <2>3 DEF PulledAt
  <2>5. PullTurn(p, r, k, x, name)
    BY <2>3, <2>4 DEF PullTurn
  <2> QED BY <2>2, <2>3, <2>5 DEF Turn
<1> QED BY <1>1, <1>4, <1>5

-----------------------------------------------------------------------------
(* Aliases are not empty.                                                  *)
LEMMA AliasIs ==
    ASSUME NEW r \in Requests, NEW i \in 1..Len(r.file)
    PROVE  AliasOf(r.file, i) # ""
<1>1. i \in DOMAIN r.file
  BY FileFacts
<1>2. ToString(i - 1) # ""
  BY <1>1, NumbersAssumption
<1> QED BY <1>2 DEF AliasOf

(* What the root of a stage has in the end, and its layers if it is the    *)
(* target: that of the last stage, or the one that is asked for.           *)
LEMMA TargetIs ==
    ASSUME NEW r \in Requests, NEW p, NEW d, NEW k, NEW x, BuildRight(p, r, d, k, x),
           NEW done, Turn(done, p, r, k, x), AliasesAreClear(r.file), TargetIsCommitted(r),
           x = Len(p.stages) \/ p.stages[x].alias = r.target
    PROVE  /\ OwnTurn(p, r, k, x) /\ k = Target(r)
           /\ MustCommit(p.stages[x].steps, Len(p.stages[x].steps), x = Len(p.stages), p.stages[x].force)
<1> DEFINE st == p.stages[x]
           L == Len(r.file)
<1>1. /\ AliasesRight(p, r, L)
      /\ r.target # "" => r.target \in Aliases(r, L)
      /\ \A i \in 1..(k - 1) : AliasOf(r.file, i) # r.target
  BY DEF BuildRight
<1>2. L \in Nat /\ DOMAIN r.file = 1..L
  BY FileFacts
<1>3. ASSUME NEW name, PullTurn(p, r, k, x, name), x # Len(p.stages)
      PROVE  FALSE
  <2>1. k \in 1..L /\ name \in Images(r, k) /\ st.alias = name
    BY <1>3 DEF PullTurn, RemoteImageStage, PlanStage
  <2>2. name = r.target /\ name # ""
    BY <1>3, <2>1, ImagesFacts
  <2>3. PICK i \in 1..L : AliasOf(r.file, i) = name
    BY <1>1, <2>2 DEF Aliases
  <2>4. ~(i \in 1..k)
    BY <2>1, <2>3 DEF Images, Aliases
  <2>5. i \in k..L
    BY <1>2, <2>1, <2>3, <2>4
  <2>6. name \in CopiedFrom(r.file[k])
    BY <2>1 DEF Images
  <2> QED BY <1>2, <2>1, <2>3, <2>5, <2>6 DEF AliasesAreClear
<1>4. OwnTurn(p, r, k, x) /\ (k = L <=> x = Len(p.stages))
  BY <1>3 DEF Turn
<1>5. k \in 1..L /\ st = OwnStage(r, k)
  BY <1>4 DEF OwnTurn
<1>6. st.alias = AliasOf(r.file, k) /\ st.steps = r.file[k].steps /\ st.force = r.force
  <2>1. /\ OwnStage(r, k).alias = AliasOf(r.file, k) /\ OwnStage(r, k).steps = r.file[k].steps
        /\ OwnStage(r, k).force = r.force
    BY <1>5, OwnFacts
  <2> QED BY <1>5, <2>1
<1>7. k = Target(r)
  <2>1. CASE r.target = ""
    <3>1. st.alias # ""
      BY <1>5, <1>6, AliasIs
    <3> QED BY <1>4, <2>1, <3>1 DEF Target
  <2>2. CASE r.target # ""
    <3>1. PICK i \in 1..L : AliasOf(r.file, i) = r.target
      BY <1>1, <2>2 DEF Aliases
    <3>2. i = k
      <4>1. CASE st.alias = r.target
        BY <1>1, <1>5, <1>6, <3>1, <4>1 DEF AliasesRight
      <4>2. CASE k = L
        <5>1. ~(i \in 1..(k - 1))
          BY <1>1, <3>1
        <5> QED BY <1>2, <3>1, <4>2, <5>1
      <4> QED BY <1>4, <4>1, <4>2
    <3>3. \A e \in DOMAIN r.file : AliasOf(r.file, e) = r.target => e = k
      BY <1>1, <1>2, <3>1, <3>2 DEF AliasesRight
    <3> QED BY <1>2, <2>2, <3>1, <3>2, <3>3 DEF Target
  <2> QED BY <2>1, <2>2
<1>8. MustCommit(st.steps, Len(st.steps), x = Len(p.stages), st.force)
  <2>1. r.force \/ k = L \/ Last(r.file[k].steps).commit
    BY <1>7 DEF TargetIsCommitted
  <2>2. Last(r.file[k].steps) = r.file[k].steps[Len(r.file[k].steps)]
    BY DEF Last
  <2> HIDE DEF st
  <2> QED BY <1>4, <1>6, <2>1, <2>2 DEF MustCommit
<1> QED BY <1>4, <1>7, <1>8

-----------------------------------------------------------------------------
(* A stage of a valid Dockerfile has leave to touch the root if it needs   *)
(* to, and finds what it copies; it has the files that others copy of it.  *)
GoesWell(st, fs) ==
    /\ ModifyFS(plan, st) => request.modify
    /\ \A n \in 1..Len(st.steps) : Finds(st.steps[n])
    /\ st.alias \in DOMAIN plan.dirs => \A f \in plan.dirs[st.alias] : fs[f] # NoFile

(* In a Dockerfile without mistakes a stage finds what it copies.          *)
LEMMA OwnGoesWell ==
    ASSUME request \in Requests, IsValid(request), AliasesAreClear(request.file),
           NEW k, NEW x, BuildRight(plan, request, stagesDir, k, x), OwnTurn(plan, request, k, x)
    PROVE  GoesWell(plan.stages[x], Described(request.file)[k])
<1> DEFINE st == plan.stages[x]
           file == request.file
           L == Len(file)
           alias == AliasOf(file, k)
<1>1. /\ DirsRight(plan, request, L)
      /\ DirRight(plan, request, stagesDir, k) /\ PutAside(plan, request, stagesDir, k, x)
  BY DEF BuildRight
<1>2. L \in Nat /\ DOMAIN file = 1..L
  BY FileFacts
<1>3. k \in 1..L /\ st.alias = alias /\ st.steps = file[k].steps
  <2>1. k \in 1..L /\ st = OwnStage(request, k)
    BY DEF OwnTurn
  <2>2. OwnStage(request, k).alias = alias /\ OwnStage(request, k).steps = file[k].steps
    BY <2>1, OwnFacts
  <2> QED BY <2>1, <2>2
<1>4. /\ \A n \in 1..Len(file[k].steps) : file[k].steps[n] \in Range(file[k].steps)
      /\ DOMAIN file[k].steps = 1..Len(file[k].steps)
  <2>1. DOMAIN file[k].steps = 1..Len(file[k].steps)
    BY <1>3, StepsOf
  <2> QED BY <2>1 DEF Range
<1>5. ASSUME ModifyFS(plan, st)
      PROVE  request.modify
  <2>1. CASE st.alias \in DOMAIN plan.dirs
    BY <1>1, <2>1 DEF DirsRight
  <2>2. CASE \E n \in DOMAIN st.steps : RequireOnDisk(st.steps[n])
    <3>1. PICK n \in 1..Len(file[k].steps) : RequireOnDisk(file[k].steps[n])
      BY <1>3, <1>4, <2>2
    <3> QED BY <1>2, <1>3, <1>4, <3>1 DEF IsValid
  <2> QED BY <1>5, <2>1, <2>2 DEF ModifyFS
<1>6. ASSUME NEW n \in 1..Len(st.steps)
      PROVE  Finds(st.steps[n])
  <2> DEFINE s == file[k].steps[n]
  <2>1. st.steps[n] = s /\ n \in 1..Len(file[k].steps) /\ s \in Range(file[k].steps)
    BY <1>3, <1>4
  <2>2. CASE s.kind = "FROM"
    <3>1. n = 1
      BY <1>3, <2>1, <2>2, StepsOf
    <3>2. file[k].steps[1].image \in DOMAIN Registry \cup {Scratch}
      BY <1>2, <1>3 DEF IsValid
    <3> QED BY <2>1, <2>2, <3>1, <3>2 DEF Finds
  <2>3. CASE s.kind = "COPYFROM"
    <3>1. s \in CopiesOf(file[k])
      BY <2>1, <2>3 DEF CopiesOf
    <3>2. alias \notin CopiedFrom(file[k])
      <4>1. k \in k..L /\ k \in DOMAIN file
        BY <1>2, <1>3
      <4> QED BY <4>1 DEF AliasesAreClear
    <3> HIDE DEF s
    <3> QED BY <2>1, <3>1, <3>2, OwnFinds
  <2>4. CASE s.kind \notin {"FROM", "COPYFROM"}
    BY <2>1, <2>4 DEF Finds
  <2> QED BY <2>2, <2>3, <2>4
<1>7. ASSUME alias \in DOMAIN plan.dirs, NEW f \in plan.dirs[alias]
      PROVE  Described(file)[k][f] # NoFile
  <2>1. PICK i \in 1..L : f \in DirsFrom(file[i], alias)
    BY <1>1, <1>7 DEF DirsRight
  <2>2. PICK s \in CopiesOf(file[i]) : s.from = alias /\ s.src = f
    BY <2>1 DEF DirsFrom
  <2>3. alias \in CopiedFrom(file[i])
    BY <2>2 DEF CopiedFrom
  <2>4. ~(k \in i..L)
    BY <1>2, <2>3 DEF AliasesAreClear
  <2>5. k \in EarlierStages(file, i, alias)
    BY <1>2, <1>3, <2>4 DEF EarlierStages
  <2>6. EarlierStages(file, i, s.from) # {} /\ k \in EarlierStages(file, i, s.from)
    BY <2>2, <2>5
  <2>7. \A e \in EarlierStages(file, i, s.from) : Described(file)[e][s.src] # NoFile
    BY <1>2, <2>2, <2>6 DEF IsValid
  <2> QED BY <2>2, <2>6, <2>7
<1> QED BY <1>3, <1>5, <1>6, <1>7 DEF GoesWell

(* And an image that is pulled has the paths to put aside.                 *)
LEMMA PullGoesWell ==
    ASSUME request \in Requests, IsValid(request), AliasesAreClear(request.file),
           NEW k, NEW x, BuildRight(plan, request, stagesDir, k, x),
           NEW name, PullTurn(plan, request, k, x, name)
    PROVE  GoesWell(plan.stages[x], ApplyLayers(EmptyFS, LayersOf(name)))
<1> DEFINE st == plan.stages[x]
           file == request.file
           L == Len(file)
<1>1. DirsRight(plan, request, L)
  BY DEF BuildRight
<1>2. L \in Nat /\ DOMAIN file = 1..L
  BY FileFacts
<1>3. k \in 1..L /\ name \in Images(request, k) /\ name \in CopiedFrom(file[k]) /\ PullOf(name) \in PlanStep
  BY ImagesFacts DEF PullTurn
<1>4. st.alias = name /\ Len(st.steps) = 1 /\ st.steps[1] = PullOf(name) /\ DOMAIN st.steps = 1..1
  <2>1. PICK seed \in Seq(Hash) : st = RemoteImageStage(name, seed)
    BY DEF PullTurn
  <2>2. st.steps = <<PullOf(name)>> /\ st.alias = name
    BY <2>1 DEF RemoteImageStage, PlanStage
  <2> QED BY <2>2
<1>5. \A i \in 1..L : AliasOf(file, i) # name
  <2>1. \A i \in k..L : AliasOf(file, i) # name
    BY <1>2, <1>3 DEF AliasesAreClear
  <2>2. \A i \in 1..k : AliasOf(file, i) # name
    BY <1>3 DEF Images, Aliases
  <2>3. \A i \in 1..L : i \in 1..k \/ i \in k..L
    BY <1>2, <1>3
  <2> QED BY <2>1, <2>2, <2>3
<1>6. ASSUME NEW i \in 1..L, NEW s \in CopiesOf(file[i]), s.from = name
      PROVE  name \in DOMAIN Registry /\ ApplyLayers(EmptyFS, LayersOf(name))[s.src] # NoFile
  <2>1. EarlierStages(file, i, s.from) = {}
    <3>1. \A e \in 1..(i - 1) : e \in 1..L
      BY <1>2
    <3> QED BY <1>5, <1>6, <3>1 DEF EarlierStages
  <2>2. s.from \in DOMAIN Registry /\ ApplyLayers(EmptyFS, Registry[s.from])[s.src] # NoFile
    BY <1>2, <2>1 DEF IsValid
  <2> QED BY <1>6, <2>2 DEF LayersOf
<1>7. ModifyFS(plan, st) => request.modify
  <2>1. ~RequireOnDisk(PullOf(name))
    BY DEF RequireOnDisk, PullOf
  <2>2. \A n \in 1..1 : n = 1
    OBVIOUS
  <2>3. ModifyFS(plan, st) => st.alias \in DOMAIN plan.dirs
    <3> HIDE DEF st
    <3> QED BY <1>4, <2>1, <2>2 DEF ModifyFS
  <2> QED BY <1>1, <2>3 DEF DirsRight
<1>8. \A n \in 1..Len(st.steps) : Finds(st.steps[n])
  <2>1. PICK s \in CopiesOf(file[k]) : s.from = name
    BY <1>3 DEF CopiedFrom
  <2>2. name \in DOMAIN Registry
    BY <1>3, <1>6, <2>1
  <2>3. \A n \in 1..1 : n = 1
    OBVIOUS
  <2>4. Finds(PullOf(name))
    BY <2>2 DEF Finds, PullOf
  <2> HIDE DEF st
  <2> QED BY <1>4, <2>3, <2>4
<1>9. ASSUME name \in DOMAIN plan.dirs, NEW f \in plan.dirs[name]
      PROVE  ApplyLayers(EmptyFS, LayersOf(name))[f] # NoFile
  <2>1. PICK i \in 1..L : f \in DirsFrom(file[i], name)
    BY <1>1, <1>9 DEF DirsRight
  <2>2. PICK s \in CopiesOf(file[i]) : s.from = name /\ s.src = f
    BY <2>1 DEF DirsFrom
  <2> QED BY <1>6, <2>2
<1> QED BY <1>4, <1>7, <1>8, <1>9 DEF GoesWell

-----------------------------------------------------------------------------
(* The steps q are meant for a stage, and lead to the files fs; the layers *)
(* they commit go into the cache as they should.                           *)
TurnMeans(st, q, fs) ==
    /\ Meant(st, q) /\ After(q)[Len(q)] = fs
    /\ \A n \in 0..Len(st.steps) : \A c : CacheGrows(st, q, n, c) => CacheIsRight(c)

(* A stage of the Dockerfile is built as it is meant.                      *)
LEMMA OwnMeans ==
    ASSUME SourcesAreClear, SameAnnotations, NoSelfCopies, CopiesStay, Host,
           CacheIsRight(cache), request \in Requests, NEW k, NEW x,
           BuildRight(plan, request, stagesDir, k, x), OwnTurn(plan, request, k, x),
           ModifyFS(plan, plan.stages[x]) => root = EmptyFS
    PROVE  TurnMeans(plan.stages[x], Meanings(request, k), Described(request.file)[k])
<1> DEFINE st == plan.stages[x]
           q == Meanings(request, k)
<1>1. k \in 1..Len(request.file) /\ st = OwnStage(request, k)
  BY DEF OwnTurn
<1>2. Resolvable(request, k)
  BY ResolvableNext
<1>3. Meant(st, q)
  BY <1>2, OwnIsMeant
<1>4. After(q)[Len(q)] = Described(request.file)[k]
  BY <1>1, DescribedStep, MeaningsFacts DEF Files
<1>5. st.steps = request.file[k].steps
  <2>1. OwnStage(request, k).steps = request.file[k].steps
    BY <1>1, OwnFacts
  <2> QED BY <1>1, <2>1
<1>6. ASSUME NEW n \in 0..Len(st.steps), NEW c, CacheGrows(st, q, n, c)
      PROVE  CacheIsRight(c)
  <2>1. n \in 0..Len(request.file[k].steps)
    BY <1>5
  <2>2. CacheGrows(OwnStage(request, k), Meanings(request, k), n, c)
    BY <1>1, <1>6
  <2> QED BY <1>1, <1>2, <2>1, <2>2, OwnGrows
<1> QED BY <1>3, <1>4, <1>6 DEF TurnMeans

LEMMA PullMeans ==
    ASSUME CacheIsRight(cache), request \in Requests, NEW k, NEW x, NEW name,
           PullTurn(plan, request, k, x, name),
           ModifyFS(plan, plan.stages[x]) => root = EmptyFS
    PROVE  TurnMeans(plan.stages[x], PullSteps(name), ApplyLayers(EmptyFS, LayersOf(name)))
<1> DEFINE st == plan.stages[x]
           q == PullSteps(name)
<1>1. PICK seed \in Seq(Hash) : st = RemoteImageStage(name, seed)
  BY DEF PullTurn
<1>2. PullOf(name) \in PlanStep
  BY ImagesFacts DEF PullTurn
<1>3. Len(st.steps) = 1
  BY <1>1, <1>2, PullFacts
<1>4. Meant(st, q)
  BY PullIsMeant
<1>5. After(q)[Len(q)] = ApplyLayers(EmptyFS, LayersOf(name))
  <2>1. q \in Seq(Found) /\ Len(q) = 1 /\ q[1] = [kind |-> "FROM", layers |-> LayersOf(name)]
    <3>1. [kind |-> "FROM", layers |-> LayersOf(name)] \in Found
      BY LayersOfType DEF Found
    <3> QED BY <3>1 DEF PullSteps
  <2> HIDE DEF q
  <2>2. After(q)[0] = EmptyFS /\ \A n \in 1..1 : After(q)[n] = Effect(After(q)[n - 1], q[n])
    BY <2>1, AfterSteps
  <2>3. 1 \in 1..1 /\ 1 - 1 = 0
    OBVIOUS
  <2>4. After(q)[1] = Effect(EmptyFS, q[1])
    BY <2>2, <2>3
  <2> QED BY <2>1, <2>4 DEF Effect
<1>6. ASSUME NEW n \in 0..Len(st.steps), NEW c, CacheGrows(st, q, n, c)
      PROVE  CacheIsRight(c)
  <2>1. n \in 0..1
    BY <1>3
  <2>2. CacheGrows(RemoteImageStage(name, seed), PullSteps(name), n, c)
    BY <1>1, <1>6
  <2> QED BY <1>2, <2>1, <2>2, PullGrows
<1> QED BY <1>4, <1>5, <1>6 DEF TurnMeans

(* The nodes of such a stage, and the whole of it.                         *)
LEMMA NodesGrow ==
    ASSUME Host, NEW st, NEW q, NEW fs, TurnMeans(st, q, fs), NEW j \in Nat, CanFetch(st, j),
           NEW n \in 0..Len(st.steps)
    PROVE  /\ CacheIsRight(BuildNodes(st, j, n).cache)
           /\ \A id \in DOMAIN cache : BuildNodes(st, j, n).cache[id] = cache[id]
<1>1. Meant(st, q) /\ Len(q) = Len(st.steps)
  BY DEF TurnMeans, Meant
<1>2. NodesRight(st, q, j, n, BuildNodes(st, j, n))
  BY <1>1, NodesAreRight
<1>3. CacheGrows(st, q, n, BuildNodes(st, j, n).cache)
  BY <1>2 DEF NodesRight
<1> QED BY <1>3 DEF TurnMeans, CacheGrows

(* A stage that is built leaves the files that it means, on disk and in    *)
(* its layers.                                                             *)
LEMMA StageEnds ==
    ASSUME Host, NEW st, NEW q, NEW fs, TurnMeans(st, q, fs), NEW j \in Nat, CanFetch(st, j)
    PROVE  LET built == BuildNodes(st, j, Len(st.steps))
           IN /\ ModifyFS(plan, st) => built.ctx.disk = fs
              /\ Commits(st, Len(st.steps)) => ApplyLayers(EmptyFS, FlattenSeq(built.pairs)) = fs
<1>1. Meant(st, q) /\ After(q)[Len(q)] = fs
  BY DEF TurnMeans
<1> QED BY <1>1, StageIsRight

(* The program does not fail where all goes well.                          *)
LEMMA GoesOn ==
    ASSUME Host, NEW st, NEW q, NEW fs, TurnMeans(st, q, fs), GoesWell(st, fs),
           NEW j \in Nat, CanFetch(st, j), NEW n \in 0..Len(st.steps)
    PROVE  ~ProgramFailsAfter(st, j, n)
<1>1. Len(st.steps) \in Nat
  BY DEF TurnMeans, Meant, IsStage
<1>2. CASE n < Len(st.steps)
  <2>1. n + 1 \in 1..Len(st.steps)
    BY <1>1, <1>2
  <2>2. (ModifyFS(plan, st) => request.modify) /\ Finds(st.steps[n + 1])
    BY <2>1 DEF GoesWell
  <2> DEFINE b == BuildNodes(st, j, n)
             x == n + 1
             e == Execute(b.ctx, Resolved(st.steps[x]), ModifyFS(plan, st))
  <2>3. /\ Meant(st, q) /\ IsStage(st) /\ Len(q) = Len(st.steps) /\ q[x] \in Found
        /\ Resolved(st.steps[x]) = q[x] /\ ModifyFS(plan, st) \in BOOLEAN
    BY <2>1, MeantFacts DEF TurnMeans, Meant
  <2>4. CopiesRight(q, n, b.ctx) /\ b.ctx \in Context
    <3>1. NodesRight(st, q, j, n, b)
      BY <2>3, NodesAreRight
    <3>2. IsBuilt(st, b)
      BY <1>1, <2>3, NodesType DEF Host
    <3> HIDE DEF b
    <3> QED BY <3>1, <3>2 DEF NodesRight, ContextRight, IsBuilt
  <2>5. CopiesRight(q, x, e)
    <3>1. n \in Nat
      BY <1>1
    <3> HIDE DEF b
    <3> QED BY <2>3, <2>4, <3>1, CopiesExecuted
  <2>6. \A op \in Range(e.copyOps) : op.src # NoFile
    <3>1. ASSUME NEW i \in DOMAIN e.copyOps PROVE e.copyOps[i].src # NoFile
      <4> HIDE DEF e
      <4>1. PICK m \in 1..x : q[m].kind = "COPY" /\ q[m] = e.copyOps[i]
        BY <2>5 DEF CopiesRight
      <4>2. m \in 1..Len(q)
        BY <1>1, <1>2, <2>3
      <4> QED BY <2>3, <4>1, <4>2 DEF Meant
    <3> HIDE DEF e
    <3> QED BY <3>1 DEF Range
  <2>7. ~Misses(st, b, x)
    BY <2>2, <2>6 DEF Misses
  <2> HIDE DEF e
  <2> QED BY <1>2, <2>2, <2>7 DEF ProgramFailsAfter
<1>3. CASE n = Len(st.steps)
  <2>1. ASSUME st.alias \in DOMAIN plan.dirs
        PROVE  \A f \in plan.dirs[st.alias] : BuildNodes(st, j, n).ctx.disk[f] # NoFile
    <3>1. BuildNodes(st, j, n).ctx.disk = fs
      BY <1>3, <2>1, StageEnds DEF ModifyFS
    <3> QED BY <2>1, <3>1 DEF GoesWell
  <2>2. ~(n < Len(st.steps))
    BY <1>1, <1>3
  <2> QED BY <2>1, <2>2 DEF ProgramFailsAfter
<1> QED BY <1>1, <1>2, <1>3

-----------------------------------------------------------------------------
(* What a stage leaves when it is built.                                   *)

LEMMA HostIs == Inv => Host
BY DEF Inv, Stored, TypeOK, Host

LEMMA ReachesAll ==
    ASSUME NEW st, IsStage(st), NEW j, ReachesNode(st, j, Len(st.steps) + 1)
    PROVE  /\ \A n \in 0..Len(st.steps) : ReachesNode(st, j, n) /\ ~ProgramFailsAfter(st, j, n)
           /\ ModifyFS(plan, st) => request.modify
<1>1. Len(st.steps) \in Nat /\ Len(st.steps) > 0
  BY DEF IsStage
<1>2. \A n \in 0..Len(st.steps) : n \in 0..((Len(st.steps) + 1) - 1) /\ \A m \in 0..(n - 1) : m \in 0..((Len(st.steps) + 1) - 1)
  BY <1>1
<1>3. \A n \in 0..Len(st.steps) : ReachesNode(st, j, n) /\ ~ProgramFailsAfter(st, j, n)
  BY <1>2 DEF ReachesNode
<1>4. 0 \in 0..Len(st.steps) /\ 0 < Len(st.steps)
  BY <1>1
<1>5. ModifyFS(plan, st) => request.modify
  BY <1>3, <1>4 DEF ProgramFailsAfter
<1> QED BY <1>3, <1>5

(* What a stage of the Dockerfile leaves behind: the cache, what it put    *)
(* aside and, if it is the target, the image.                              *)
LEMMA OwnLeaves ==
    ASSUME SourcesAreClear, SameAnnotations, NoSelfCopies, CopiesStay, CacheIsRight(cache), Host,
           request \in Requests, request.modify => root = EmptyFS, NEW k, NEW x \in Nat, x > 0,
           BuildRight(plan, request, stagesDir, k, x), OwnTurn(plan, request, k, x),
           NEW j \in Nat, CanFetch(plan.stages[x], j),
           ReachesNode(plan.stages[x], j, Len(plan.stages[x].steps) + 1)
    PROVE  LET st == plan.stages[x]
               built == BuildNodes(st, j, Len(st.steps))
           IN /\ CacheIsRight(built.cache)
              /\ \A id \in DOMAIN cache : built.cache[id] = cache[id]
              /\ AliasOf(request.file, k) # request.target =>
                    BuildRight(plan, request, Checkpoint(st, built.ctx.disk), k + 1, x + 1)
              /\ Commits(st, Len(st.steps)) =>
                    ApplyLayers(EmptyFS, FlattenSeq(built.pairs)) = Described(request.file)[k]
<1> DEFINE st == plan.stages[x]
           N == Len(st.steps)
           built == BuildNodes(st, j, N)
           fs == Described(request.file)[k]
<1>1. IsStage(st) /\ k \in 1..Len(request.file)
  <2>1. st = OwnStage(request, k) /\ k \in 1..Len(request.file)
    BY DEF OwnTurn
  <2> QED BY <2>1, OwnFacts
<1>2. ReachesNode(st, j, N) /\ (ModifyFS(plan, st) => request.modify) /\ N \in 0..N
  <2>1. N \in 0..N
    BY <1>1 DEF IsStage
  <2> QED BY <1>1, <2>1, ReachesAll
<1>3. TurnMeans(st, Meanings(request, k), fs)
  BY <1>2, OwnMeans
<1>4. CacheIsRight(built.cache) /\ \A id \in DOMAIN cache : built.cache[id] = cache[id]
  BY <1>2, <1>3, NodesGrow
<1>5. /\ ModifyFS(plan, st) => built.ctx.disk = fs
      /\ Commits(st, N) => ApplyLayers(EmptyFS, FlattenSeq(built.pairs)) = fs
  BY <1>2, <1>3, StageEnds
<1>6. st.alias \in DOMAIN plan.dirs => built.ctx.disk = fs
  BY <1>5 DEF ModifyFS
<1>7. PutIs(Checkpoint(st, built.ctx.disk), st, built.ctx.disk)
  BY CheckpointIs DEF BuildRight, DirRight
<1>8. Adds(k, k + 1) /\ Adds(x, x + 1)
  <2>1. k \in Nat /\ k > 0
    BY <1>1, FileFacts
  <2> QED BY <2>1, AddsNext
<1>9. AliasOf(request.file, k) # request.target =>
         BuildRight(plan, request, Checkpoint(st, built.ctx.disk), k + 1, x + 1)
  <2>1. Resolvable(request, k)
    BY ResolvableNext
  <2> HIDE DEF built
  <2> QED BY <1>6, <1>7, <1>8, <2>1, OwnBuilt
<1> QED BY <1>4, <1>5, <1>9

(* What a stage that pulls leaves behind.                                  *)
LEMMA PullLeaves ==
    ASSUME CacheIsRight(cache), Host, PlanType,
           request \in Requests, request.modify => root = EmptyFS, NEW k, NEW x \in Nat, x > 0,
           NEW name, BuildRight(plan, request, stagesDir, k, x), PullTurn(plan, request, k, x, name),
           NEW j \in Nat, CanFetch(plan.stages[x], j),
           ReachesNode(plan.stages[x], j, Len(plan.stages[x].steps) + 1)
    PROVE  LET st == plan.stages[x]
               built == BuildNodes(st, j, Len(st.steps))
           IN /\ CacheIsRight(built.cache)
              /\ \A id \in DOMAIN cache : built.cache[id] = cache[id]
              /\ BuildRight(plan, request, Checkpoint(st, built.ctx.disk), k, x + 1)
<1> DEFINE st == plan.stages[x]
           N == Len(st.steps)
           built == BuildNodes(st, j, N)
           fs == ApplyLayers(EmptyFS, LayersOf(name))
<1>1. IsStage(st) /\ st.alias = name /\ k \in 1..Len(request.file) /\ name \in CopiedFrom(request.file[k])
  <2>1. PICK seed \in Seq(Hash) : st = RemoteImageStage(name, seed)
    BY DEF PullTurn
  <2>2. name \in CopiedFrom(request.file[k]) /\ PullOf(name) \in PlanStep /\ k \in 1..Len(request.file)
    BY ImagesFacts DEF PullTurn
  <2> QED BY <2>1, <2>2, PullFacts
<1>2. ReachesNode(st, j, N) /\ ~ProgramFailsAfter(st, j, N) /\ (ModifyFS(plan, st) => request.modify) /\ N \in 0..N
  <2>1. N \in 0..N
    BY <1>1 DEF IsStage
  <2> QED BY <1>1, <2>1, ReachesAll
<1>3. TurnMeans(st, PullSteps(name), fs)
  BY <1>2, PullMeans
<1>4. CacheIsRight(built.cache) /\ \A id \in DOMAIN cache : built.cache[id] = cache[id]
  BY <1>2, <1>3, NodesGrow
<1>5. ModifyFS(plan, st) => built.ctx.disk = fs
  BY <1>2, <1>3, StageEnds
<1>6. name \in DOMAIN plan.dirs => built.ctx.disk = fs
  BY <1>1, <1>5 DEF ModifyFS
<1>7. PutIs(Checkpoint(st, built.ctx.disk), st, built.ctx.disk)
  BY CheckpointIs DEF BuildRight, DirRight
<1>8. Adds(x, x + 1)
  BY AddsNext
<1>9. name \in DOMAIN Registry
  <2>1. DirsRight(plan, request, Len(request.file))
    BY DEF BuildRight
  <2>2. PICK s \in CopiesOf(request.file[k]) : s.from = name
    BY <1>1 DEF CopiedFrom
  <2>3. s.src \in DirsFrom(request.file[k], name)
    BY <2>2 DEF DirsFrom
  <2>4. name \in DOMAIN plan.dirs /\ s.src \in plan.dirs[name]
    BY <1>1, <2>1, <2>3 DEF DirsRight
  <2>5. fs[s.src] # NoFile
    <3>1. ~(N < N)
      BY <1>2
    <3>2. built.ctx.disk[s.src] # NoFile
      BY <1>1, <1>2, <2>4, <3>1 DEF ProgramFailsAfter
    <3> QED BY <1>6, <2>4, <3>2
  <2>6. ASSUME name \notin DOMAIN Registry PROVE FALSE
    <3>1. fs = EmptyFS
      BY <2>6, EmptyType, ApplyNone DEF LayersOf
    <3>2. s.src \in File
      BY <2>4 DEF PlanType
    <3> QED BY <2>5, <3>1, <3>2 DEF EmptyFS
  <2> QED BY <2>6
<1>10. BuildRight(plan, request, Checkpoint(st, built.ctx.disk), k, x + 1)
  <2> HIDE DEF built
  <2> QED BY <1>6, <1>7, <1>8, <1>9, PullBuilt
<1> QED BY <1>4, <1>10

-----------------------------------------------------------------------------
(* The inductive invariant of what is built.                               *)

(* A build begins in an empty root, and each of its stages does.           *)
RootIsClean == phase \in {"process", "build"} /\ request.modify => root = EmptyFS

PlanIsRight == phase = "process" => stagesDir = <<>> /\ Planned(plan, request, at - 1)

StagesAreRight ==
    phase = "build" =>
        \E done : /\ Ordered(done, plan, request, Len(request.file))
                  /\ BuildRight(plan, request, stagesDir, done[at - 1] + 1, at)

ImageIsRight ==
    phase \in {"save", "done"} /\ AliasesAreClear(request.file) /\ TargetIsCommitted(request) =>
        ApplyLayers(EmptyFS, image) = Described(request.file)[Target(request)]

(* The manifest store has room for what is still to be saved.              *)
NamesAreFree ==
    phase \in {"process", "build", "save"} /\ ManifestNamesAreClear(request) =>
        \A m \in 1..Len(Names(request)) :
            (phase = "save" => m >= at) => RepoTag[Names(request)[m]] \notin DOMAIN manifests

NotToBlame ==
    cause = "program" /\ AliasesAreClear(request.file) /\ ManifestNamesAreClear(request) =>
        ~IsValid(request)

Right ==
    /\ CacheIsRight(cache) /\ RootIsClean /\ PlanIsRight /\ StagesAreRight /\ ImageIsRight
    /\ NamesAreFree /\ NotToBlame

(* The manifests that are saved so far. *)
Saved ==
    /\ phase \in {"save", "done"} =>
          \A m \in 1..Len(Names(request)) :
              (phase = "save" => m < at) =>
                  /\ RepoTag[Names(request)[m]] \in DOMAIN manifests
                  /\ manifests[RepoTag[Names(request)[m]]] = image

Whole == Inv /\ Saved /\ (SourcesAreClear => Right)

LEMMA NothingIsCached == CacheIsRight(<<>>)
<1>1. DOMAIN <<>> = {}
  OBVIOUS
<1> QED BY <1>1 DEF CacheIsRight

LEMMA NothingIsPlanned ==
    ASSUME NEW r \in Requests
    PROVE  Planned(NoPlan, r, 0)
<1> DEFINE done == [q \in 0..0 |-> 0]
<1>1. /\ NoPlan.aliases = {} /\ DOMAIN NoPlan.dirs = {} /\ Len(NoPlan.stages) = 0
      /\ \A k \in 1..0 : FALSE
  BY DEF NoPlan
<1>2. AliasesRight(NoPlan, r, 0)
  BY <1>1 DEF AliasesRight, Aliases
<1>3. DirsRight(NoPlan, r, 0)
  BY <1>1 DEF DirsRight
<1>4. Ordered(done, NoPlan, r, 0)
  <2>1. 0..0 = {0} /\ done[0] = 0
    OBVIOUS
  <2>2. done \in [0..0 -> 0..0]
    BY <2>1
  <2> QED BY <1>1, <2>1, <2>2 DEF Ordered
<1> QED BY <1>2, <1>3, <1>4 DEF Planned

(* One lemma for each action.                                              *)
LEMMA RightAtFirst == Init => Right /\ Saved
<1> SUFFICES ASSUME Init PROVE Right /\ Saved
  OBVIOUS
<1>1. phase = "idle" /\ cause = "none" /\ cache = <<>>
  BY DEF Init
<1>2. RootIsClean /\ PlanIsRight /\ StagesAreRight /\ ImageIsRight /\ NamesAreFree /\ NotToBlame /\ Saved
  BY <1>1 DEF RootIsClean, PlanIsRight, StagesAreRight, ImageIsRight, NamesAreFree, NotToBlame, Saved
<1> QED BY <1>1, <1>2, NothingIsCached DEF Right

LEMMA NameIs ==
    ASSUME NEW r \in Requests
    PROVE  /\ Len(Names(r)) \in Nat /\ Len(Names(r)) > 0 /\ DOMAIN Names(r) = 1..Len(Names(r))
           /\ \A m \in 1..Len(Names(r)) : Names(r)[m] \in Range(Names(r))
<1>1. r.replicas \in Seq(Range(r.replicas))
  BY RequestAssumption
<1>2. Len(Names(r)) \in Nat /\ Len(Names(r)) > 0 /\ DOMAIN Names(r) = 1..Len(Names(r))
  <2> DEFINE T == Range(r.replicas) \cup {r.name}
  <2>1. r.replicas \in Seq(T) /\ <<r.name>> \in Seq(T)
    BY <1>1
  <2> HIDE DEF T
  <2> QED BY <2>1 DEF Names
<1> QED BY <1>2 DEF Range

LEMMA RightStart ==
    ASSUME Whole, NEW r \in Requests, StartBuild(r)
    PROVE  Saved' /\ (SourcesAreClear => Right')
<1>1. /\ request' = r /\ phase' = "process" /\ cause' = "none" /\ plan' = NoPlan /\ at' = 1
      /\ stagesDir' = <<>> /\ root' = (IF r.modify THEN EmptyFS ELSE root) /\ cache' = cache
      /\ manifests' = [n \in DOMAIN manifests \ {RepoTag[m] : m \in Range(Names(r))} |-> manifests[n]]
  BY DEF StartBuild
<1>2. Saved'
  BY <1>1 DEF Saved
<1>3. ASSUME SourcesAreClear PROVE Right'
  <2>1. CacheIsRight(cache)'
    BY <1>1, <1>3 DEF Whole, Right
  <2>2. PlanIsRight'
    <3>1. Planned(NoPlan, r, 0)
      BY NothingIsPlanned
    <3> QED BY <1>1, <3>1 DEF PlanIsRight
  <2>3. NamesAreFree'
    <3>1. \A m \in 1..Len(Names(r)) : Names(r)[m] \in Range(Names(r))
      BY NameIs
    <3> HIDE DEF Names
    <3> QED BY <1>1, <3>1 DEF NamesAreFree
  <2>4. RootIsClean' /\ StagesAreRight' /\ ImageIsRight' /\ NotToBlame'
    BY <1>1 DEF RootIsClean, StagesAreRight, ImageIsRight, NotToBlame
  <2> QED BY <2>1, <2>2, <2>3, <2>4 DEF Right
<1> QED BY <1>2, <1>3

LEMMA WholeFacts ==
    ASSUME Whole
    PROVE  /\ request \in Requests /\ at \in Nat /\ at > 0 /\ PlanType /\ Len(plan.stages) \in Nat
           /\ Inv /\ Saved
<1>1. request \in Requests /\ PlanType /\ at \in 1..BoundOf(plan, request) /\ Inv /\ Saved
  BY DEF Whole, Inv, TypeOK, BoundOf
<1>2. Len(plan.stages) \in Nat
  BY <1>1 DEF PlanType
<1> QED BY <1>1, <1>2, BoundFacts

LEMMA RightProcess ==
    ASSUME Whole, ProcessStage
    PROVE  Saved' /\ (SourcesAreClear => Right')
<1>1. /\ phase = "process" /\ at <= Len(request.file) /\ at' = at + 1
      /\ UNCHANGED <<request, phase, cause, stagesDir, image, root, cache, manifests>>
  BY DEF ProcessStage, storageVars
<1>2. /\ request \in Requests /\ at \in 1..Len(request.file) /\ PlanType
      /\ at - 1 \in Nat /\ at - 1 < at /\ at <= (at - 1) + 1 /\ at' - 1 = at
  BY <1>1, WholeFacts, FileFacts
<1>3. Saved'
  BY <1>1 DEF Saved
<1>4. ASSUME SourcesAreClear PROVE Right'
  <2>1. Right
    BY <1>4 DEF Whole
  <2>2. CacheIsRight(cache)'
    BY <1>1, <2>1 DEF Right
  <2>3. PlanIsRight'
    <3>1. stagesDir = <<>> /\ Planned(plan, request, at - 1)
      BY <1>1, <2>1 DEF Right, PlanIsRight
    <3>2. Planned(plan', request, at)
      BY <1>2, <3>1, PlannedNext
    <3> QED BY <1>1, <1>2, <3>1, <3>2 DEF PlanIsRight
  <2>4. NamesAreFree'
    BY <1>1, <2>1 DEF Right, NamesAreFree
  <2>5. RootIsClean' /\ StagesAreRight' /\ ImageIsRight' /\ NotToBlame'
    BY <1>1, <2>1 DEF Right, RootIsClean, StagesAreRight, ImageIsRight, NotToBlame
  <2> QED BY <2>2, <2>3, <2>4, <2>5 DEF Right
<1> QED BY <1>3, <1>4

(* Nothing but the failure changes: the Dockerfile has a mistake.          *)
LEMMA RightFailed ==
    ASSUME Whole, phase' = "failed", UNCHANGED <<request, cache>>,
           SourcesAreClear => NotToBlame'
    PROVE  Saved' /\ (SourcesAreClear => Right')
<1>1. Saved'
  BY DEF Saved
<1>2. ASSUME SourcesAreClear PROVE Right'
  <2>1. CacheIsRight(cache)'
    BY <1>2 DEF Whole, Right
  <2>2. RootIsClean' /\ PlanIsRight' /\ StagesAreRight' /\ ImageIsRight' /\ NamesAreFree'
    BY DEF RootIsClean, PlanIsRight, StagesAreRight, ImageIsRight, NamesAreFree
  <2> QED BY <1>2, <2>1, <2>2 DEF Right
<1> QED BY <1>1, <1>2

LEMMA RightReject ==
    ASSUME Whole, StageIsRejected
    PROVE  Saved' /\ (SourcesAreClear => Right')
<1> DEFINE file == request.file
<1>1. /\ phase = "process" /\ at <= Len(file) /\ ~StageIsValid(at)
      /\ phase' = "failed" /\ UNCHANGED <<request, cache>>
  BY DEF StageIsRejected, Fail, storageVars
<1>2. request \in Requests /\ at \in 1..Len(file) /\ DOMAIN file = 1..Len(file) /\ \A i \in 1..(at - 1) : i \in 1..Len(file) /\ i # at
  BY <1>1, WholeFacts, FileFacts
<1>3. ASSUME SourcesAreClear, IsValid(request) PROVE FALSE
  <2>1. AliasesRight(plan, request, at - 1)
    BY <1>1, <1>3 DEF Whole, Right, PlanIsRight, Planned
  <2>2. ~IsNumber(file[at].alias)
    BY <1>2, <1>3 DEF IsValid
  <2>3. ASSUME file[at].alias # "" PROVE file[at].alias \notin plan.aliases
    <3>1. AliasOf(file, at) = file[at].alias
      BY <2>3 DEF AliasOf
    <3>2. \A i \in 1..(at - 1) : AliasOf(file, i) # AliasOf(file, at)
      BY <1>2, <1>3 DEF IsValid
    <3> QED BY <2>1, <3>1, <3>2 DEF AliasesRight, Aliases
  <2>4. ASSUME NEW s \in CopiesOf(file[at]) PROVE request.modify
    <3>1. s \in Range(file[at].steps) /\ s.kind = "COPYFROM"
      BY DEF CopiesOf
    <3> QED BY <1>2, <1>3, <3>1 DEF IsValid
  <2>5. file[at].steps[1].image \notin InvalidName
    <3>1. file[at].steps[1].image \in DOMAIN Registry \cup {Scratch}
      BY <1>2, <1>3 DEF IsValid
    <3> QED BY <3>1, NameAssumption
  <2>6. ASSUME NEW name \in ImagesAt(at) PROVE name \notin InvalidName
    <3>1. name \in CopiedFrom(file[at]) /\ name \notin plan.aliases
      BY DEF ImagesAt, AliasesAt
    <3>2. PICK s \in CopiesOf(file[at]) : s.from = name
      BY <3>1 DEF CopiedFrom
    <3>3. EarlierStages(file, at, name) = {}
      BY <2>1, <3>1, EarlierIs DEF AliasesRight
    <3>4. name \in DOMAIN Registry
      BY <1>2, <1>3, <3>2, <3>3 DEF IsValid
    <3> QED BY <3>4, NameAssumption
  <2> QED BY <1>1, <2>2, <2>3, <2>4, <2>5, <2>6 DEF StageIsValid
<1>4. SourcesAreClear => NotToBlame'
  BY <1>1, <1>3 DEF NotToBlame
<1> QED BY <1>1, <1>4, RightFailed

LEMMA RightEndPlan ==
    ASSUME Whole, EndPlan
    PROVE  Saved' /\ (SourcesAreClear => Right')
<1> DEFINE file == request.file
           L == Len(file)
<1>1. /\ phase = "process" /\ at > L /\ at' = 1
      /\ UNCHANGED <<request, plan, stagesDir, image, root, cache, manifests>>
  BY DEF EndPlan, storageVars
<1>2. request \in Requests /\ at - 1 = L /\ L \in Nat /\ L > 0
  <2>1. at <= L + 1
    BY <1>1, WholeFacts DEF Inv, Progress
  <2>2. request \in Requests /\ at \in Nat /\ L \in Nat /\ L > 0
    BY WholeFacts, FileFacts
  <2> HIDE DEF L
  <2> QED BY <1>1, <2>1, <2>2
<1>3. SourcesAreClear => Planned(plan, request, L) /\ stagesDir = <<>>
  BY <1>1, <1>2 DEF Whole, Right, PlanIsRight
<1>4. CASE request.target # "" /\ request.target \notin plan.aliases
  <2>1. phase' = "failed"
    BY <1>4 DEF EndPlan, Fail
  <2>2. SourcesAreClear => ~IsValid(request)
    <3>1. SourcesAreClear => plan.aliases = Aliases(request, L)
      BY <1>3 DEF Planned, AliasesRight
    <3> QED BY <1>2, <1>4, <3>1, FileFacts DEF IsValid, Aliases
  <2>3. SourcesAreClear => NotToBlame'
    BY <1>1, <2>2 DEF NotToBlame
  <2> QED BY <1>1, <2>1, <2>3, RightFailed
<1>5. CASE ~(request.target # "" /\ request.target \notin plan.aliases)
  <2>1. phase' = "build" /\ cause' = cause
    BY <1>5 DEF EndPlan
  <2>2. Saved'
    BY <2>1 DEF Saved
  <2>3. ASSUME SourcesAreClear PROVE Right'
    <3>1. Right
      BY <2>3 DEF Whole
    <3>2. CacheIsRight(cache)'
      BY <1>1, <3>1 DEF Right
    <3>3. StagesAreRight'
      <4>1. PICK done : Ordered(done, plan, request, L)
        BY <1>3, <2>3 DEF Planned
      <4>2. done[0] = 0 /\ (1 - 1 = 0) /\ (0 + 1 = 1)
        BY <4>1 DEF Ordered
      <4>3. DOMAIN <<>> = {} /\ stagesDir = <<>> /\ 1..(1 - 1) = {} /\ \A i \in 1..(1 - 1) : FALSE
        BY <1>3, <2>3
      <4>4. DirRight(plan, request, stagesDir, 1) /\ PutAside(plan, request, stagesDir, 1, 1)
        BY <4>3 DEF DirRight, PutAside
      <4>5. Known(plan, request, 1, 1)
        BY <4>3 DEF Known, Resolvable
      <4>6. AliasesRight(plan, request, L) /\ DirsRight(plan, request, L)
        BY <1>3, <2>3 DEF Planned
      <4>7. request.target # "" => request.target \in Aliases(request, L)
        BY <1>5, <4>6 DEF AliasesRight
      <4>8. BuildRight(plan, request, stagesDir, 1, 1)
        BY <4>3, <4>4, <4>5, <4>6, <4>7 DEF BuildRight
      <4>9. BuildRight(plan, request, stagesDir, done[1 - 1] + 1, 1)
        BY <4>2, <4>8
      <4> QED BY <1>1, <4>1, <4>9 DEF StagesAreRight
    <3>4. RootIsClean' /\ NamesAreFree'
      BY <1>1, <2>1, <3>1 DEF Right, RootIsClean, NamesAreFree
    <3>5. PlanIsRight' /\ ImageIsRight' /\ NotToBlame'
      BY <1>1, <2>1, <3>1 DEF Right, PlanIsRight, ImageIsRight, NotToBlame
    <3> QED BY <3>2, <3>3, <3>4, <3>5 DEF Right
  <2> QED BY <2>2, <2>3
<1> QED BY <1>4, <1>5

(* The names to save differ where the manifest store can tell. *)
LEMMA NamesDiffer ==
    ASSUME NEW r \in Requests, ManifestNamesAreClear(r),
           NEW m \in 1..Len(Names(r)), NEW k \in 1..Len(Names(r)), m # k
    PROVE  RepoTag[Names(r)[m]] # RepoTag[Names(r)[k]]
<1> DEFINE L == Len(Names(r))
           T == {RepoTag[n] : n \in Range(Names(r))}
           f == [i \in 1..L |-> RepoTag[Names(r)[i]]]
<1>1. L \in Nat /\ DOMAIN Names(r) = 1..L /\ Cardinality(T) = L
  BY NameIs DEF ManifestNamesAreClear
<1>2. \A t \in T : \E i \in 1..L : f[i] = t
  BY <1>1 DEF Range
<1>3. \A i \in 1..L : f[i] \in T
  BY NameIs
<1> HIDE DEF L, T
<1>4. f \in Surjection(1..L, T)
  BY <1>2, <1>3 DEF Surjection
<1>5. IsFiniteSet(1..L) /\ Cardinality(1..L) = L
  <2>1. IsFiniteSet(1..L) /\ Cardinality(1..L) = IF 1 > L THEN 0 ELSE (L - 1) + 1
    <3>1. 1 \in Int /\ L \in Int
      BY <1>1
    <3> QED BY <3>1, FS_Interval
  <2> QED BY <1>1, <2>1
<1>6. f \in Injection(1..L, T)
  BY <1>1, <1>4, <1>5, FS_SurjSameCardinalityImpliesInj
<1>7. f[m] # f[k]
  <2>1. m \in 1..L /\ k \in 1..L
    BY DEF L
  <2> HIDE DEF f
  <2> QED BY <1>6, <2>1 DEF Injection, IsInjective
<1> QED BY <1>7 DEF L

LEMMA RightSave ==
    ASSUME Whole, SaveManifest
    PROVE  Saved' /\ (SourcesAreClear => Right')
<1> DEFINE name == RepoTag[Names(request)[at]]
           L == Len(Names(request))
           Tag(m) == RepoTag[Names(request)[m]]
<1>1. phase = "save" /\ UNCHANGED <<request, plan, stagesDir, image, root, cache>>
  BY DEF SaveManifest
<1>2. request \in Requests /\ at \in 1..L /\ L \in Nat
  BY <1>1, WholeFacts, NameIs DEF Inv, Progress
<1>3. CASE name \in DOMAIN manifests
  <2>1. phase' = "failed"
    BY <1>3 DEF SaveManifest, Fail
  <2>2. ASSUME SourcesAreClear, ManifestNamesAreClear(request) PROVE FALSE
    <3>1. NamesAreFree
      BY <2>2 DEF Whole, Right
    <3> QED BY <1>1, <1>2, <1>3, <2>2, <3>1 DEF NamesAreFree
  <2>3. SourcesAreClear => NotToBlame'
    BY <1>1, <2>2 DEF NotToBlame
  <2> QED BY <1>1, <2>1, <2>3, RightFailed
<1>4. CASE name \notin DOMAIN manifests
  <2>1. /\ manifests' = Updated(manifests, One(name, image)) /\ at' = at + 1 /\ cause' = cause
        /\ phase' = IF at = L THEN "done" ELSE "save"
    BY <1>4 DEF SaveManifest
  <2> HIDE DEF name
  <2>2. /\ DOMAIN manifests' = DOMAIN manifests \cup {name} /\ manifests'[name] = image
        /\ \A n \in DOMAIN manifests : n # name => manifests'[n] = manifests[n]
    BY <2>1 DEF Updated, One
  <2>3. name = Tag(at)
    BY DEF name
  <2>4. Saved'
    <3> SUFFICES ASSUME NEW m \in 1..L, phase' = "save" => m < at + 1
                 PROVE  Tag(m) \in DOMAIN manifests' /\ manifests'[Tag(m)] = image
      BY <1>1, <2>1 DEF Saved
    <3>1. m < at \/ m = at
      BY <1>2, <2>1
    <3>2. CASE m < at
      <4>1. Tag(m) \in DOMAIN manifests /\ manifests[Tag(m)] = image
        BY <1>1, <3>2 DEF Whole, Saved
      <4> QED BY <1>4, <2>2, <4>1
    <3>3. CASE m = at
      BY <2>2, <2>3, <3>3
    <3> QED BY <3>1, <3>2, <3>3
  <2>5. ASSUME SourcesAreClear PROVE Right'
    <3>1. Right
      BY <2>5 DEF Whole
    <3>2. NamesAreFree'
      <4> SUFFICES ASSUME ManifestNamesAreClear(request), NEW m \in 1..L, phase' = "save", m >= at + 1
                   PROVE  Tag(m) \notin DOMAIN manifests'
        BY <1>1, <2>1 DEF NamesAreFree
      <4>1. m # at /\ m >= at
        BY <1>2
      <4>2. Tag(m) \notin DOMAIN manifests
        BY <1>1, <3>1, <4>1 DEF Right, NamesAreFree
      <4>3. Tag(m) # Tag(at)
        BY <1>2, <4>1, NamesDiffer
      <4> QED BY <2>2, <2>3, <4>2, <4>3
    <3>3. CacheIsRight(cache)' /\ NotToBlame'
      BY <1>1, <2>1, <3>1 DEF Right, NotToBlame
    <3>4. RootIsClean' /\ PlanIsRight' /\ StagesAreRight'
      BY <2>1 DEF RootIsClean, PlanIsRight, StagesAreRight
    <3>5. ImageIsRight'
      BY <1>1, <2>1, <3>1 DEF Right, ImageIsRight
    <3> QED BY <3>2, <3>3, <3>4, <3>5 DEF Right
  <2> QED BY <2>4, <2>5
<1> QED BY <1>3, <1>4

LEMMA RightEnd ==
    ASSUME Whole, EndBuild \/ Crash
    PROVE  Saved' /\ (SourcesAreClear => Right')
<1>1. phase' = "idle" /\ UNCHANGED <<request, cache>> /\ (cause' = cause \/ cause' = "killed")
  BY DEF EndBuild, Crash, storageVars
<1>2. Saved' /\ RootIsClean' /\ PlanIsRight' /\ StagesAreRight' /\ ImageIsRight' /\ NamesAreFree'
  BY <1>1 DEF Saved, RootIsClean, PlanIsRight, StagesAreRight, ImageIsRight, NamesAreFree
<1>3. SourcesAreClear => CacheIsRight(cache)' /\ NotToBlame'
  BY <1>1 DEF Whole, Right, NotToBlame
<1> QED BY <1>2, <1>3 DEF Right

-----------------------------------------------------------------------------
(* The stage whose turn it is. *)

LEMMA TurnOf ==
    ASSUME Whole, SourcesAreClear, phase = "build"
    PROVE  \E done : /\ Ordered(done, plan, request, Len(request.file))
                     /\ BuildRight(plan, request, stagesDir, done[at - 1] + 1, at)
                     /\ Turn(done, plan, request, done[at - 1] + 1, at)
<1>1. PICK done : /\ Ordered(done, plan, request, Len(request.file))
                  /\ BuildRight(plan, request, stagesDir, done[at - 1] + 1, at)
  BY DEF Whole, Right, StagesAreRight
<1>2. at \in 1..Len(plan.stages) /\ Len(plan.stages) \in Nat /\ request \in Requests
  BY StageFacts, WholeFacts
<1>3. Turn(done, plan, request, done[at - 1] + 1, at)
  BY <1>1, <1>2, TurnIs
<1> QED BY <1>1, <1>3

(* The stage whose turn it is has a meaning, and goes well if the          *)
(* Dockerfile has no mistake.                                              *)
LEMMA StageTurns ==
    ASSUME Whole, SourcesAreClear, SameAnnotations, NoSelfCopies, CopiesStay, phase = "build"
    PROVE  LET st == plan.stages[at]
           IN \E q, fs : /\ (ModifyFS(plan, st) => request.modify) => TurnMeans(st, q, fs)
                         /\ IsValid(request) /\ AliasesAreClear(request.file) => GoesWell(st, fs)
<1> DEFINE st == plan.stages[at]
           fits(q, fs) == /\ (ModifyFS(plan, st) => request.modify) => TurnMeans(st, q, fs)
                          /\ IsValid(request) /\ AliasesAreClear(request.file) => GoesWell(st, fs)
<1>1. PICK done : /\ BuildRight(plan, request, stagesDir, done[at - 1] + 1, at)
                  /\ Turn(done, plan, request, done[at - 1] + 1, at)
  BY TurnOf
<1> DEFINE k == done[at - 1] + 1
<1>2. BuildRight(plan, request, stagesDir, k, at)
  BY <1>1
<1>3. OwnTurn(plan, request, k, at) \/ \E name : PullTurn(plan, request, k, at, name)
  BY <1>1 DEF Turn
<1>4. request \in Requests /\ CacheIsRight(cache) /\ (request.modify => root = EmptyFS) /\ Host
  BY WholeFacts, HostIs DEF Whole, Right, RootIsClean
<1> HIDE DEF k
<1>5. CASE OwnTurn(plan, request, k, at)
  <2>1. fits(Meanings(request, k), Described(request.file)[k])
    BY <1>2, <1>4, <1>5, OwnMeans, OwnGoesWell
  <2> HIDE DEF fits
  <2>2. \E q, fs : fits(q, fs)
    BY <2>1
  <2> QED BY <2>2 DEF fits
<1>6. ASSUME NEW name, PullTurn(plan, request, k, at, name)
      PROVE  \E q, fs : fits(q, fs)
  <2>1. fits(PullSteps(name), ApplyLayers(EmptyFS, LayersOf(name)))
    BY <1>2, <1>4, <1>6, PullMeans, PullGoesWell
  <2> HIDE DEF fits
  <2> QED BY <2>1
<1> QED BY <1>3, <1>5, <1>6

(* Nothing that is cached changes. *)
CacheIsKept == \A id \in DOMAIN cache : cache'[id] = cache[id]

LEMMA RightFails ==
    ASSUME Whole, StageFails, SameAnnotations, NoSelfCopies, CopiesStay
    PROVE  Saved' /\ (SourcesAreClear => Right' /\ CacheIsKept)
<1> DEFINE st == plan.stages[at]
           N == Len(st.steps)
<1>1. phase = "build" /\ phase' = "failed" /\ request' = request
  BY DEF StageFails, Fail
<1>2. PICK n \in 0..N, j \in 1..N :
        /\ CanFetch(st, j) /\ ReachesNode(st, j, n)
        /\ cache' = BuildNodes(st, j, n).cache
        /\ cause' = IF ProgramFailsAfter(st, j, n) THEN "program" ELSE "outside"
  BY DEF StageFails, Fail
<1>3. IsStage(st) /\ N \in Nat /\ j \in Nat
  BY <1>1, StageFacts, WholeFacts
<1>4. Saved'
  BY <1>1 DEF Saved
<1>5. ASSUME SourcesAreClear PROVE Right' /\ CacheIsKept
  <2>1. PICK q, fs : /\ (ModifyFS(plan, st) => request.modify) => TurnMeans(st, q, fs)
                     /\ IsValid(request) /\ AliasesAreClear(request.file) => GoesWell(st, fs)
    BY <1>1, <1>5, StageTurns
  <2>2. Host
    BY HostIs, WholeFacts
  <2>3. CacheIsRight(cache') /\ CacheIsKept
    <3>1. CASE ModifyFS(plan, st) => request.modify
      BY <1>2, <1>3, <2>1, <2>2, <3>1, NodesGrow DEF CacheIsKept
    <3>2. CASE ~(ModifyFS(plan, st) => request.modify)
      <4>1. n = 0
        <5>1. n \in Nat
          BY <1>3
        <5> QED BY <1>2, <1>3, <3>2, <5>1, ModifiesWithLeave
      <4>2. BuildNodes(st, j, 0) = NoNodeBuilt(st, j)
        BY <1>3, BuildNodesFacts
      <4>3. cache' = cache
        BY <1>2, <4>1, <4>2 DEF NoNodeBuilt
      <4> QED BY <1>5, <4>3 DEF Whole, Right, CacheIsKept
    <3> QED BY <3>1, <3>2
  <2>4. ASSUME IsValid(request), AliasesAreClear(request.file)
        PROVE  ~ProgramFailsAfter(st, j, n)
    <3>1. GoesWell(st, fs) /\ TurnMeans(st, q, fs)
      BY <2>1, <2>4 DEF GoesWell
    <3> QED BY <1>2, <1>3, <2>2, <3>1, GoesOn
  <2>5. NotToBlame'
    BY <1>1, <1>2, <2>4 DEF NotToBlame
  <2>6. RootIsClean' /\ PlanIsRight' /\ StagesAreRight' /\ ImageIsRight' /\ NamesAreFree'
    BY <1>1 DEF RootIsClean, PlanIsRight, StagesAreRight, ImageIsRight, NamesAreFree
  <2> QED BY <2>3, <2>5, <2>6 DEF Right
<1> QED BY <1>4, <1>5

LEMMA FromIs ==
    ASSUME NEW file, NEW k \in DOMAIN file, file[k].steps[1].image \in DOMAIN Registry
    PROVE  file[k].steps[1].image \in ImagesOf(file)
<1>1. file[k].steps[1].image \in {file[i].steps[1].image : i \in DOMAIN file}
  OBVIOUS
<1> QED BY <1>1 DEF ImagesOf

(* What the FROM of a stage pulls is an image of the Dockerfile. *)
LEMMA PulledIs ==
    ASSUME NEW r \in Requests, NEW p, NEW k, NEW x,
           OwnTurn(p, r, k, x) \/ \E name : PullTurn(p, r, k, x, name),
           p.stages[x].steps[1].image \in DOMAIN Registry
    PROVE  p.stages[x].steps[1].image \in ImagesOf(r.file)
<1>1. DOMAIN r.file = 1..Len(r.file)
  BY FileFacts
<1>2. CASE OwnTurn(p, r, k, x)
  <2>1. k \in 1..Len(r.file) /\ p.stages[x] = OwnStage(r, k)
    BY <1>2 DEF OwnTurn
  <2>2. OwnStage(r, k).steps = r.file[k].steps
    BY <2>1, OwnFacts
  <2>3. p.stages[x].steps[1].image = r.file[k].steps[1].image
    BY <2>1, <2>2
  <2> QED BY <1>1, <2>1, <2>3, FromIs
<1>3. ASSUME NEW name, PullTurn(p, r, k, x, name)
      PROVE  p.stages[x].steps[1].image \in ImagesOf(r.file)
  <2>1. PICK seed \in Seq(Hash) : p.stages[x] = RemoteImageStage(name, seed)
    BY <1>3 DEF PullTurn
  <2>2. k \in 1..Len(r.file) /\ name \in CopiedFrom(r.file[k])
    BY <1>3 DEF PullTurn, Images
  <2>3. p.stages[x].steps[1].image = name
    BY <2>1 DEF RemoteImageStage, PlanStage, PullOf
  <2> QED BY <1>1, <2>2, <2>3 DEF ImagesOf
<1> QED BY <1>2, <1>3

LEMMA RightBuild ==
    ASSUME Whole, BuildStage, SameAnnotations, NoSelfCopies, CopiesStay
    PROVE  Saved' /\ (SourcesAreClear => Right' /\ CacheIsKept)
<1> DEFINE st == plan.stages[at]
           N == Len(st.steps)
           file == request.file
<1>1. phase = "build" /\ UNCHANGED <<request, cause, plan>>
  BY DEF BuildStage
<1>2. PICK j \in 1..N :
        /\ CanFetch(st, j) /\ ReachesNode(st, j, N + 1)
        /\ cache' = BuildNodes(st, j, N).cache
        /\ image' = FlattenSeq(BuildNodes(st, j, N).pairs)
        /\ stagesDir' = Checkpoint(st, BuildNodes(st, j, N).ctx.disk)
        /\ root' = CleanRoot(request, BuildNodes(st, j, N).ctx.disk)
        /\ workDirs' = [workDirs EXCEPT !.root = IF request.modify THEN {} ELSE @ \cup MadeBy(st.steps)]
        /\ manifests' = WithManifestOf(st.steps[1].image)
        /\ IF at = Len(plan.stages) \/ st.alias = request.target
           THEN phase' = "save" /\ at' = 1
           ELSE at' = at + 1 /\ phase' = phase
  BY DEF BuildStage
<1>3. /\ request \in Requests /\ at \in Nat /\ at > 0 /\ PlanType /\ Host
      /\ IsStage(st) /\ N \in Nat /\ j \in Nat
  BY <1>1, StageFacts, WholeFacts, HostIs
<1>4. Saved'
  <2>1. \A m \in 1..Len(Names(request)) : ~(m < 1)
    OBVIOUS
  <2> HIDE DEF st
  <2> QED BY <1>1, <1>2, <2>1 DEF Saved
<1>5. ASSUME SourcesAreClear PROVE Right' /\ CacheIsKept
  <2>1. /\ CacheIsRight(cache) /\ (request.modify => root = EmptyFS)
        /\ NamesAreFree /\ NotToBlame
    BY <1>1, <1>5 DEF Whole, Right, RootIsClean
  <2>2. PICK done : /\ Ordered(done, plan, request, Len(file))
                    /\ BuildRight(plan, request, stagesDir, done[at - 1] + 1, at)
                    /\ Turn(done, plan, request, done[at - 1] + 1, at)
    BY <1>1, <1>5, TurnOf
  <2> DEFINE k == done[at - 1] + 1
             built == BuildNodes(st, j, N)
             ends == at = Len(plan.stages) \/ st.alias = request.target
  <2>3. BuildRight(plan, request, stagesDir, k, at) /\ Turn(done, plan, request, k, at)
    BY <2>2
  <2> HIDE DEF k
  <2>4. /\ CacheIsRight(built.cache) /\ \A id \in DOMAIN cache : built.cache[id] = cache[id]
        /\ ~ends => BuildRight(plan, request, Checkpoint(st, built.ctx.disk), done[at] + 1, at + 1)
    <3>1. CASE OwnTurn(plan, request, k, at) /\ done[at] = k
      <4>1. st.alias = AliasOf(file, k)
        <5>1. k \in 1..Len(file) /\ st = OwnStage(request, k)
          BY <3>1 DEF OwnTurn
        <5>2. OwnStage(request, k).alias = AliasOf(file, k)
          BY <1>3, <5>1, OwnFacts
        <5> QED BY <5>1, <5>2
      <4>2. /\ CacheIsRight(built.cache) /\ \A id \in DOMAIN cache : built.cache[id] = cache[id]
            /\ AliasOf(file, k) # request.target =>
                  BuildRight(plan, request, Checkpoint(st, built.ctx.disk), k + 1, at + 1)
        BY <1>2, <1>3, <1>5, <2>1, <2>3, <3>1, OwnLeaves
      <4> HIDE DEF built
      <4> QED BY <3>1, <4>1, <4>2
    <3>2. CASE (\E name : PullTurn(plan, request, k, at, name)) /\ done[at] + 1 = k
      <4>1. PICK name : PullTurn(plan, request, k, at, name)
        BY <3>2
      <4>2. /\ CacheIsRight(built.cache) /\ \A id \in DOMAIN cache : built.cache[id] = cache[id]
            /\ BuildRight(plan, request, Checkpoint(st, built.ctx.disk), k, at + 1)
        BY <1>2, <1>3, <2>1, <2>3, <4>1, PullLeaves
      <4> HIDE DEF built
      <4> QED BY <3>2, <4>2
    <3> QED BY <2>3, <3>1, <3>2 DEF Turn
  <2>5. OwnTurn(plan, request, k, at) \/ \E name : PullTurn(plan, request, k, at, name)
    BY <2>3 DEF Turn
  <2>6. /\ cache' = built.cache /\ image' = FlattenSeq(built.pairs)
        /\ stagesDir' = Checkpoint(st, built.ctx.disk) /\ root' = CleanRoot(request, built.ctx.disk)
        /\ ends => phase' = "save" /\ at' = 1
        /\ ~ends => phase' = "build" /\ at' = at + 1
    BY <1>1, <1>2
  <2>7. ASSUME ends, AliasesAreClear(file), TargetIsCommitted(request)
        PROVE  ApplyLayers(EmptyFS, FlattenSeq(built.pairs)) = Described(file)[Target(request)]
    <3>1. /\ OwnTurn(plan, request, k, at) /\ k = Target(request)
          /\ MustCommit(st.steps, N, at = Len(plan.stages), st.force)
      BY <1>3, <2>3, <2>7, TargetIs
    <3>2. Commits(st, N)
      BY <3>1 DEF Commits
    <3>3. Commits(st, N) => ApplyLayers(EmptyFS, FlattenSeq(built.pairs)) = Described(file)[k]
      BY <1>2, <1>3, <1>5, <2>1, <2>3, <3>1, OwnLeaves
    <3> QED BY <3>1, <3>2, <3>3
  <2> HIDE DEF built, ends
  <2>8. CacheIsRight(cache)' /\ CacheIsKept
    BY <2>4, <2>6 DEF CacheIsKept
  <2>9. RootIsClean'
    BY <1>1, <2>6 DEF RootIsClean, CleanRoot
  <2>10. PlanIsRight'
    BY <2>6 DEF PlanIsRight
  <2>11. StagesAreRight'
    <3> SUFFICES ASSUME phase' = "build"
                 PROVE  \E d : /\ Ordered(d, plan, request, Len(file))
                               /\ BuildRight(plan, request, stagesDir', d[at' - 1] + 1, at')
      BY <1>1 DEF StagesAreRight
    <3>1. ~ends /\ at' = at + 1 /\ at' - 1 = at
      BY <1>3, <2>6
    <3> QED BY <2>2, <2>4, <2>6, <3>1
  <2>12. ImageIsRight'
    BY <1>1, <2>6, <2>7 DEF ImageIsRight
  <2>13. NamesAreFree'
    <3> DEFINE source == st.steps[1].image
    <3>1. manifests' = WithManifestOf(source)
      BY <1>2
    <3>2. source \in DOMAIN Registry => source \in ImagesOf(file)
      BY <1>3, <2>5, PulledIs
    <3> HIDE DEF source, st
    <3>3. DOMAIN manifests' \subseteq
             DOMAIN manifests \cup {RepoTag[i] : i \in {source} \cap ImagesOf(file)}
      BY <3>1, <3>2 DEF WithManifestOf, Updated, One
    <3> SUFFICES ASSUME ManifestNamesAreClear(request), NEW m \in 1..Len(Names(request))
                 PROVE  RepoTag[Names(request)[m]] \notin DOMAIN manifests'
      BY <1>1 DEF NamesAreFree
    <3>4. RepoTag[Names(request)[m]] \notin DOMAIN manifests
      BY <1>1, <2>1 DEF NamesAreFree
    <3>5. Names(request)[m] \in Range(Names(request))
      BY <1>3, NameIs
    <3>6. \A i \in ImagesOf(file) : RepoTag[Names(request)[m]] # RepoTag[i]
      BY <3>5 DEF ManifestNamesAreClear
    <3> QED BY <3>3, <3>4, <3>6
  <2>14. NotToBlame'
    BY <1>1, <2>1 DEF NotToBlame
  <2> QED BY <2>8, <2>9, <2>10, <2>11, <2>12, <2>13, <2>14 DEF Right
<1> QED BY <1>4, <1>5

-----------------------------------------------------------------------------
(* The invariant is inductive, and shows the properties.                   *)
LEMMA WholeAtFirst == Init => Whole
BY Initially, RightAtFirst DEF Whole

LEMMA WholeStep ==
    ASSUME SameAnnotations, NoSelfCopies, CopiesStay, Whole, [Next]_vars
    PROVE  Whole' /\ (SourcesAreClear => CacheIsKept)
<1>1. Inv'
  BY InvStep DEF Whole
<1>2. CASE \E r \in Requests : StartBuild(r)
  <2>1. PICK r \in Requests : StartBuild(r)
    BY <1>2
  <2>2. cache' = cache
    BY <2>1 DEF StartBuild
  <2> QED BY <1>1, <2>1, <2>2, RightStart DEF Whole, CacheIsKept
<1>3. CASE ProcessStage
  <2>1. cache' = cache
    BY <1>3 DEF ProcessStage, storageVars
  <2> QED BY <1>1, <1>3, <2>1, RightProcess DEF Whole, CacheIsKept
<1>4. CASE StageIsRejected
  <2>1. cache' = cache
    BY <1>4 DEF StageIsRejected, storageVars
  <2> QED BY <1>1, <1>4, <2>1, RightReject DEF Whole, CacheIsKept
<1>5. CASE EndPlan
  <2>1. cache' = cache
    BY <1>5 DEF EndPlan, storageVars
  <2> QED BY <1>1, <1>5, <2>1, RightEndPlan DEF Whole, CacheIsKept
<1>6. CASE BuildStage
  BY <1>1, <1>6, RightBuild DEF Whole
<1>7. CASE StageFails
  BY <1>1, <1>7, RightFails DEF Whole
<1>8. CASE SaveManifest
  <2>1. cache' = cache
    BY <1>8 DEF SaveManifest
  <2> QED BY <1>1, <1>8, <2>1, RightSave DEF Whole, CacheIsKept
<1>9. CASE EndBuild \/ Crash
  <2>1. cache' = cache
    BY <1>9 DEF EndBuild, Crash, storageVars
  <2> QED BY <1>1, <1>9, <2>1, RightEnd DEF Whole, CacheIsKept
<1>10. CASE UNCHANGED vars
  <2>1. UNCHANGED <<request, phase, cause, plan, at, stagesDir, root, cache, manifests, image>>
    BY <1>10 DEF vars, storageVars
  <2>2. Saved'
    BY <2>1 DEF Whole, Saved
  <2>3. SourcesAreClear => Right'
    BY <2>1 DEF Whole, Right, RootIsClean, PlanIsRight, StagesAreRight, ImageIsRight, NamesAreFree, NotToBlame
  <2> QED BY <1>1, <2>1, <2>2, <2>3 DEF Whole, CacheIsKept
<1> QED BY <1>2, <1>3, <1>4, <1>5, <1>6, <1>7, <1>8, <1>9, <1>10 DEF Next

LEMMA WholeShows == Whole => ImageIsTargetStage /\ FailsOnlyIfWrong
<1> SUFFICES ASSUME Whole PROVE ImageIsTargetStage /\ FailsOnlyIfWrong
  OBVIOUS
<1>1. FailsOnlyIfWrong
  BY DEF Whole, Right, NotToBlame, FailsOnlyIfWrong
<1>2. ASSUME phase = "done", AliasesAreClear(request.file), TargetIsCommitted(request), SourcesAreClear,
             NEW name \in Range(Names(request))
      PROVE  ApplyLayers(EmptyFS, manifests[RepoTag[name]]) = Described(request.file)[Target(request)]
  <2>1. PICK m \in 1..Len(Names(request)) : name = Names(request)[m]
    BY WholeFacts, NameIs DEF Range
  <2>2. manifests[RepoTag[name]] = image
    BY <1>2, <2>1 DEF Whole, Saved
  <2>3. ApplyLayers(EmptyFS, image) = Described(request.file)[Target(request)]
    BY <1>2 DEF Whole, Right, ImageIsRight
  <2> QED BY <2>2, <2>3
<1> QED BY <1>1, <1>2 DEF ImageIsTargetStage

(* Whatever the Dockerfiles and command lines, whatever earlier builds     *)
(* left in the cache, the root and the manifest store, whichever layers    *)
(* were fetched and wherever processes failed or were killed: the manifest *)
(* that a build saves under its names has the files that the Dockerfile    *)
(* describes for the target stage.  SameAnnotations, NoSelfCopies and      *)
(* CopiesStay are what IDs and layers rely on.                             *)
THEOREM ImageIsRightInTheEnd ==
    ASSUME SameAnnotations, NoSelfCopies, CopiesStay
    PROVE  Spec => []ImageIsTargetStage
<1>1. Whole /\ [Next]_vars => Whole'
  BY WholeStep
<1> QED BY <1>1, WholeAtFirst, WholeShows, PTL DEF Spec

(* A build of a Dockerfile without mistakes does not fail for a reason of  *)
(* the program's own: each stage finds the files it copies, the names are  *)
(* free and the root may be touched where that is needed.                  *)
THEOREM ProgramIsNotToBlame ==
    ASSUME SameAnnotations, NoSelfCopies, CopiesStay
    PROVE  Spec => []FailsOnlyIfWrong
<1>1. Whole /\ [Next]_vars => Whole'
  BY WholeStep
<1> QED BY <1>1, WholeAtFirst, WholeShows, PTL DEF Spec

(* No build, whichever of its nodes it skips and wherever it ends, gives   *)
(* an ID that is in the cache another layer.                               *)
THEOREM IdsAreKept ==
    ASSUME SameAnnotations, NoSelfCopies, CopiesStay
    PROVE  Spec => IdsKeepTheirLayers
<1>1. Whole /\ [Next]_vars => Whole'
  BY WholeStep
<1>2. Whole /\ [Next]_vars => [SourcesAreClear => \A id \in DOMAIN cache : cache'[id] = cache[id]]_vars
  BY WholeStep DEF CacheIsKept
<1> QED BY <1>1, <1>2, WholeAtFirst, PTL DEF Spec, IdsKeepTheirLayers

=============================================================================
