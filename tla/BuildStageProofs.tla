-------------------------- MODULE BuildStageProofs --------------------------
(***************************************************************************)
(* Proofs about BuildStage, for any stages, files and number of builds:    *)
(* an image has the files its stage describes, whatever earlier builds     *)
(* left in the cache, where no command removes what was copied.            *)
(***************************************************************************)
EXTENDS BuildStage, TLAPS, NaturalsInduction, WellFoundedInduction

-----------------------------------------------------------------------------
(* The inductive invariant. *)

(* Some steps change files; a commit makes layers of what the steps since  *)
(* the commit before changed.                                              *)
Changes(s, n) == s[n].kind \in {"COPY", "RUN"}
Committing(s, n, force) == n = 1 \/ s[n].commit \/ force
LastCommit(s, m, n, force) ==
    /\ Committing(s, m, force)
    /\ \A j \in (m + 1)..(n - 1) : ~Committing(s, j, force)

(* Before step n there is something to commit; after it there is. *)
Pending(s, n, force) ==
    \E k \in 2..(n - 1) : /\ Changes(s, k)
                          /\ \A j \in k..(n - 1) : ~Committing(s, j, force)
HasContent(s, n, force) == Changes(s, n) \/ Pending(s, n, force)
Contentful(s, n, force) == force \/ \A m \in 2..n : s[m].commit => HasContent(s, m, force)

(* None of the first n steps removes a file that was copied before.        *)
Stays(s, n) ==
    \A k \in 1..n : \A m \in 1..k : s[m].kind = "COPY" => Described(s, k)[s[m].dst] # NoFile

(* What is cached for step n makes the files after it out of those after   *)
(* the commit before, and is nothing only if there was nothing to commit.  *)
LayersOf(s, n, force, layers) ==
    Contentful(s, n - 1, force) =>
        /\ layers # <<>> <=> HasContent(s, n, force)
        /\ Stays(s, n) => \A m \in 1..(n - 1) : LastCommit(s, m, n, force) =>
              ApplyLayers(Described(s, m), layers) = Described(s, n)

CacheIsRight ==
    \A s \in Dockerfiles : \A n \in 2..Len(s) :
        CacheID(s, n, forceCommit) \in DOMAIN cache /\ Committing(s, n, forceCommit)
            => LayersOf(s, n, forceCommit, cache[CacheID(s, n, forceCommit)])

(* The nodes that have been gone through, and those still ahead. *)
FetchedIsRight ==
    phase \in {"pull", "build"} => \A k \in 2..Len(steps) :
        /\ digestPairs[k] # <<>> /\ (phase = "build" => k >= node) =>
              Committing(steps, k, forceCommit) /\ LayersOf(steps, k, forceCommit, digestPairs[k])
        /\ phase = "pull" /\ k >= node => digestPairs[k] = <<>>

(* A node has no layers where others after it have, or when it is done,    *)
(* only if it has none to commit.                                          *)
Chain ==
    phase \in {"pull", "build"} => \A j, k \in 2..Len(steps) :
        /\ Committing(steps, j, forceCommit) /\ Contentful(steps, j - 1, forceCommit)
        /\ digestPairs[j] = <<>>
        /\ j < node \/ (j < k /\ node <= k /\ digestPairs[k] # <<>>)
        => ~HasContent(steps, j, forceCommit)

(* A layer is ahead that has everything up to its step. *)
Ahead == \E k \in 2..Len(steps) : /\ k >= node /\ digestPairs[k] # <<>>
                                  /\ Contentful(steps, k, forceCommit)

NoPending(c) == c.copyOps = <<>> /\ ~c.mustScan

CopiesTo(ops, f) == {i \in DOMAIN ops : ops[i].dst = f}
WithCopies(mem, ops) ==
    [f \in File |-> IF CopiesTo(ops, f) = {} THEN mem[f] ELSE ops[Max(CopiesTo(ops, f))].src]

(* While a layer is ahead, everything has the files of the last commit. *)
WaitingContext ==
    /\ NoPending(ctx)
    /\ Stays(steps, node - 1) =>
          \A m \in 1..(node - 1) : LastCommit(steps, m, node, forceCommit) =>
              /\ ctx.mem = Described(steps, m)
              /\ ModifyFS => ctx.disk = Described(steps, m)

(* Afterwards the disk has what the steps did, MemFS what they committed,  *)
(* and the difference is what waits.                                       *)
RunningFiles ==
    /\ ModifyFS => ctx.disk = Described(steps, node - 1)
    /\ ~ctx.mustScan => WithCopies(ctx.mem, ctx.copyOps) = Described(steps, node - 1)
    /\ node <= Len(steps) => \A m \in 1..(node - 1) :
          LastCommit(steps, m, node, forceCommit) => ctx.mem = Described(steps, m)
RunningContext ==
    /\ Stays(steps, node - 1) => RunningFiles
    /\ node <= Len(steps) => (~NoPending(ctx) <=> Pending(steps, node, forceCommit))
    /\ node > Len(steps) /\ lastStage => NoPending(ctx)

ContextIsRight ==
    phase = "build" /\ node > 1 /\ Contentful(steps, node - 1, forceCommit) =>
        /\ Ahead => WaitingContext
        /\ ~Ahead => RunningContext

(* Nothing was done yet. *)
Fresh == phase = "pull" \/ (phase = "build" /\ node = 1) =>
            ctx = NewContext(EmptyFS) /\ diffIDs = <<>> /\ digestPairs[1] = <<>>

(* The config lists the layers of the nodes that are done: MemFS. *)
Listed ==
    /\ phase = "build" => /\ diffIDs = FlattenSeq(SubSeq(digestPairs, 1, node - 1))
                          /\ ApplyLayers(EmptyFS, diffIDs) = ctx.mem
    /\ phase = "built" => diffIDs = image

Built == ImageIsWhatIsDescribed

Context == [mem : FileSystem, copied : SUBSET File, disk : FileSystem,
            copyOps : Seq(CopyStep), mustScan : BOOLEAN]

(* The copies of the steps before a node. *)
Copies(n) == {steps[m] : m \in {k \in 1..(n - 1) : steps[k].kind = "COPY"}}

Types ==
    /\ builds \in 0..MaxBuilds
    /\ steps \in Dockerfiles
    /\ forceCommit \in BOOLEAN /\ lastStage \in BOOLEAN /\ copiedFrom \in BOOLEAN
    /\ phase \in {"idle", "pull", "build", "built", "failed"}
    /\ node \in 1..(Len(steps) + 1) /\ (phase = "pull" => node \in 2..Len(steps))
    /\ digestPairs \in [1..Len(steps) -> Seq(Layer)]
    /\ \A id \in DOMAIN cache : cache[id] \in Seq(Layer)
    /\ ctx \in Context
    /\ Range(ctx.copyOps) \subseteq Copies(node)
    /\ \A f \in ctx.copied : \E s \in Copies(node) : s.dst = f
    /\ ctx.mustScan => ModifyFS
    /\ diffIDs \in Seq(Layer)

TypesInv == Types /\ Fresh /\ Listed
StageInv == CacheIsRight /\ FetchedIsRight /\ Chain /\ ContextIsRight
Inv == TypesInv /\ StageInv /\ Built

-----------------------------------------------------------------------------
(* Numbers: induction over a set, and the greatest of some numbers.        *)

LEMMA Induction ==
    ASSUME NEW S, 0 \in S, \A n \in Nat : n \in S => n + 1 \in S
    PROVE  \A n \in Nat : n \in S
<1> SUFFICES ASSUME NEW k \in Nat, k \notin S PROVE FALSE
  OBVIOUS
<1> DEFINE T == {n \in Nat : n \notin S}
<1>1. T \subseteq Nat /\ T # {}
  OBVIOUS
<1>2. PICK x \in T : \A y \in T : <<y, x>> \notin OpToRel(<, Nat)
  BY <1>1, NatLessThanWellFounded, WFMin
<1>3. x \in Nat /\ x # 0 /\ x - 1 \in Nat /\ x - 1 < x
  OBVIOUS
<1>4. <<x - 1, x>> \in OpToRel(<, Nat)
  BY <1>3 DEF OpToRel
<1>5. x - 1 \in S
  BY <1>2, <1>3, <1>4
<1> QED BY <1>3, <1>5

LEMMA MaxFromZero ==
    ASSUME NEW n \in Nat, NEW T \in SUBSET (0..n), T # {}
    PROVE  Max(T) \in T /\ \A y \in T : Max(T) >= y
<1> DEFINE S == {k \in Nat : \A U \in SUBSET (0..k) :
                                U # {} => \E x \in U : \A y \in U : x >= y}
<1>1. 0 \in S
  <2>1. 0..0 = {0}
    OBVIOUS
  <2>2. \A U \in SUBSET {0} : U # {} => U = {0}
    OBVIOUS
  <2> QED BY <2>1, <2>2
<1>2. ASSUME NEW k \in Nat, k \in S
      PROVE  k + 1 \in S
  <2> SUFFICES ASSUME NEW U \in SUBSET (0..(k + 1)), U # {}
               PROVE  \E x \in U : \A y \in U : x >= y
    OBVIOUS
  <2>1. CASE k + 1 \in U
    BY <2>1
  <2>2. CASE k + 1 \notin U
    <3>1. U \in SUBSET (0..k)
      BY <2>2
    <3> QED BY <1>2, <3>1
  <2> QED BY <2>1, <2>2
<1> HIDE DEF S
<1>3. n \in S
  BY <1>1, <1>2, Induction
<1>4. \E x \in T : \A y \in T : x >= y
  BY <1>3 DEF S
<1> QED BY <1>4 DEF Max

LEMMA MaxFacts ==
    ASSUME NEW n \in Nat, NEW T \in SUBSET (1..n), T # {}
    PROVE  Max(T) \in T /\ \A y \in T : Max(T) >= y
<1>1. 1..n \subseteq 0..n
  OBVIOUS
<1>2. T \in SUBSET (0..n)
  BY <1>1
<1> QED BY <1>2, MaxFromZero

LEMMA LastCommitExists ==
    ASSUME NEW s, NEW force, NEW n \in Nat, n > 1
    PROVE  \E m \in 1..(n - 1) : LastCommit(s, m, n, force)
<1> DEFINE T == {m \in 1..(n - 1) : Committing(s, m, force)}
<1>1. T \in SUBSET (1..(n - 1)) /\ 1 \in T /\ n - 1 \in Nat
  BY DEF Committing
<1>2. Max(T) \in T /\ \A y \in T : Max(T) >= y
  BY <1>1, MaxFacts
<1> HIDE DEF T
<1>3. PICK m \in 1..(n - 1) : m = Max(T) /\ Committing(s, m, force)
  BY <1>2 DEF T
<1>4. ASSUME NEW j \in (m + 1)..(n - 1) PROVE ~Committing(s, j, force)
  <2>1. j \in 1..(n - 1) /\ ~(m >= j)
    OBVIOUS
  <2> QED BY <1>2, <1>3, <2>1 DEF T
<1> QED BY <1>3, <1>4 DEF LastCommit

-----------------------------------------------------------------------------
(* Layers over a file system.                                              *)

With(layers, f) == {i \in DOMAIN layers : f \in DOMAIN layers[i]}

LEMMA WithFacts ==
    ASSUME NEW layers \in Seq(Layer), NEW f
    PROVE  /\ With(layers, f) \in SUBSET (1..Len(layers))
           /\ With(layers, f) # {} => /\ Max(With(layers, f)) \in With(layers, f)
                                      /\ \A i \in With(layers, f) : Max(With(layers, f)) >= i
<1>1. With(layers, f) \in SUBSET (1..Len(layers)) /\ Len(layers) \in Nat
  BY DEF With
<1> QED BY <1>1, MaxFacts

LEMMA LayerFacts ==
    ASSUME NEW layer \in Layer
    PROVE  DOMAIN layer \subseteq File /\ \A f \in DOMAIN layer : layer[f] \in Content \cup {NoFile}
BY DEF Layer

LEMMA ApplyIs ==
    ASSUME NEW fs, NEW layers
    PROVE  ApplyLayers(fs, layers) =
              [f \in File |-> IF With(layers, f) = {} THEN fs[f]
                              ELSE layers[Max(With(layers, f))][f]]
BY DEF ApplyLayers, With

LEMMA ApplyType ==
    ASSUME NEW fs \in FileSystem, NEW layers \in Seq(Layer)
    PROVE  ApplyLayers(fs, layers) \in FileSystem
<1>1. ASSUME NEW f \in File, With(layers, f) # {}
      PROVE  layers[Max(With(layers, f))][f] \in Content \cup {NoFile}
  <2>1. Max(With(layers, f)) \in With(layers, f)
    BY <1>1, WithFacts
  <2> DEFINE i == Max(With(layers, f))
  <2> HIDE DEF i
  <2>2. i \in DOMAIN layers /\ f \in DOMAIN layers[i]
    BY <2>1 DEF With, i
  <2>3. layers[i] \in Layer
    BY <2>2
  <2> QED BY <2>2, <2>3, LayerFacts DEF i
<1> QED BY <1>1, ApplyIs DEF FileSystem

LEMMA ApplyNone ==
    ASSUME NEW fs \in FileSystem
    PROVE  ApplyLayers(fs, <<>>) = fs
<1>1. \A f : With(<<>>, f) = {}
  BY DEF With
<1> QED BY <1>1, ApplyIs DEF FileSystem

LEMMA ApplyOne ==
    ASSUME NEW fs, NEW layer
    PROVE  ApplyLayers(fs, <<layer>>) = [f \in File |-> IF f \in DOMAIN layer THEN layer[f] ELSE fs[f]]
<1>1. ASSUME NEW f \in File, f \in DOMAIN layer
      PROVE  With(<<layer>>, f) = {1} /\ Max({1}) = 1
  <2>1. With(<<layer>>, f) = {1}
    BY <1>1 DEF With
  <2>2. Max({1}) \in {1}
    BY MaxFacts
  <2> QED BY <2>1, <2>2
<1>2. ASSUME NEW f \in File, f \notin DOMAIN layer
      PROVE  With(<<layer>>, f) = {}
  BY <1>2 DEF With
<1>3. \A f \in File : (IF With(<<layer>>, f) = {} THEN fs[f] ELSE <<layer>>[Max(With(<<layer>>, f))][f])
                    = (IF f \in DOMAIN layer THEN layer[f] ELSE fs[f])
  BY <1>1, <1>2
<1> QED BY <1>3, ApplyIs

LEMMA ApplyMore ==
    ASSUME NEW fs \in FileSystem, NEW first \in Seq(Layer), NEW more \in Seq(Layer)
    PROVE  ApplyLayers(fs, first \o more) = ApplyLayers(ApplyLayers(fs, first), more)
<1> DEFINE all == first \o more
           N   == Len(first)
<1>1. /\ all \in Seq(Layer) /\ N \in Nat /\ Len(all) = N + Len(more) /\ Len(more) \in Nat
      /\ \A i \in 1..N : all[i] = first[i]
      /\ \A i \in 1..Len(more) : all[N + i] = more[i]
  OBVIOUS
<1> HIDE DEF all, N
<1>2. ASSUME NEW f \in File
      PROVE  (IF With(all, f) = {} THEN fs[f] ELSE all[Max(With(all, f))][f])
           = (IF With(more, f) = {} THEN ApplyLayers(fs, first)[f] ELSE more[Max(With(more, f))][f])
  <2>1. \A i : i \in With(all, f) <=> i \in 1..(N + Len(more)) /\ f \in DOMAIN all[i]
    BY <1>1 DEF With
  <2>2. \A i : i \in With(first, f) <=> i \in 1..N /\ f \in DOMAIN first[i]
    BY DEF With, N
  <2>3. \A i : i \in With(more, f) <=> i \in 1..Len(more) /\ f \in DOMAIN more[i]
    BY DEF With
  <2>4. ApplyLayers(fs, first)[f] = IF With(first, f) = {} THEN fs[f] ELSE first[Max(With(first, f))][f]
    BY ApplyIs
  <2>5. CASE With(more, f) # {}
    <3> DEFINE i == Max(With(more, f))
    <3>1. i \in With(more, f) /\ \A j \in With(more, f) : i >= j
      BY <2>5, WithFacts
    <3> HIDE DEF i
    <3> DEFINE k == Max(With(all, f))
    <3>2. N + i \in With(all, f)
      <4>1. i \in 1..Len(more) /\ f \in DOMAIN more[i]
        BY <2>3, <3>1
      <4>2. N + i \in 1..(N + Len(more)) /\ all[N + i] = more[i]
        BY <1>1, <4>1
      <4> QED BY <2>1, <4>1, <4>2
    <3>3. k \in With(all, f) /\ \A j \in With(all, f) : k >= j
      BY <1>1, <3>2, WithFacts
    <3> HIDE DEF k
    <3>4. i \in 1..Len(more) /\ k \in 1..(N + Len(more)) /\ k >= N + i
      BY <2>1, <2>3, <3>1, <3>2, <3>3
    <3>5. k - N \in 1..Len(more) /\ all[k] = more[k - N]
      <4>1. k - N \in 1..Len(more) /\ N + (k - N) = k
        BY <1>1, <3>4
      <4> QED BY <1>1, <4>1
    <3>6. k - N \in With(more, f)
      BY <2>1, <2>3, <3>3, <3>5
    <3>7. k = N + i
      BY <1>1, <3>1, <3>4, <3>6
    <3>8. all[k] = more[i] /\ With(all, f) # {}
      BY <1>1, <3>2, <3>4, <3>7
    <3> QED BY <2>5, <3>8 DEF i, k
  <2>6. CASE With(more, f) = {}
    <3>1. \A i : i \in With(all, f) <=> i \in With(first, f)
      <4>1. ASSUME NEW i, i \in With(all, f) PROVE i \in With(first, f)
        <5>1. i \in 1..(N + Len(more)) /\ f \in DOMAIN all[i]
          BY <2>1, <4>1
        <5>2. CASE i \in 1..N
          BY <1>1, <2>2, <5>1, <5>2
        <5>3. CASE i \notin 1..N
          <6>1. i - N \in 1..Len(more) /\ N + (i - N) = i
            BY <1>1, <5>1, <5>3
          <6>2. all[i] = more[i - N]
            BY <1>1, <6>1
          <6> QED BY <2>3, <2>6, <5>1, <6>1, <6>2
        <5> QED BY <5>2, <5>3
      <4>2. ASSUME NEW i, i \in With(first, f) PROVE i \in With(all, f)
        BY <1>1, <2>1, <2>2, <4>2
      <4> QED BY <4>1, <4>2
    <3>2. With(all, f) = With(first, f)
      BY <3>1
    <3>3. CASE With(first, f) = {}
      BY <2>4, <2>6, <3>2, <3>3
    <3>4. CASE With(first, f) # {}
      <4>1. Max(With(first, f)) \in With(first, f)
        BY <3>4, WithFacts
      <4>2. all[Max(With(first, f))] = first[Max(With(first, f))]
        BY <1>1, <2>2, <4>1
      <4> QED BY <2>4, <2>6, <3>2, <3>4, <4>2
    <3> QED BY <3>3, <3>4
  <2> QED BY <2>5, <2>6
<1> QED BY <1>2, ApplyIs DEF all

-----------------------------------------------------------------------------
(* What a stage describes.                                                 *)

After(s) == CHOOSE after : after = [k \in 0..Len(s) |->
                IF k = 0 THEN EmptyFS ELSE Effect(after[k - 1], s[k])]

LEMMA DescribedIs ==
    ASSUME NEW s, NEW n
    PROVE  Described(s, n) = After(s)[n]
BY DEF Described, After

LEMMA AfterIs ==
    ASSUME NEW s \in Seq(Step)
    PROVE  After(s) = [k \in 0..Len(s) |->
                IF k = 0 THEN EmptyFS ELSE Effect(After(s)[k - 1], s[k])]
<1> DEFINE Recursive(g, n) == g = [k \in 0..n |-> IF k = 0 THEN EmptyFS ELSE Effect(g[k - 1], s[k])]
           S == {n \in Nat : \E g : Recursive(g, n)}
<1>1. 0 \in S
  <2>1. Recursive([k \in 0..0 |-> EmptyFS], 0)
    OBVIOUS
  <2> HIDE DEF Recursive
  <2> QED BY <2>1
<1>2. ASSUME NEW n \in Nat, n \in S
      PROVE  n + 1 \in S
  <2>1. PICK g : g = [k \in 0..n |-> IF k = 0 THEN EmptyFS ELSE Effect(g[k - 1], s[k])]
    BY <1>2
  <2> DEFINE h == [k \in 0..(n + 1) |-> IF k = 0 THEN EmptyFS ELSE Effect(g[k - 1], s[k])]
  <2>2. \A k \in 0..n : h[k] = g[k]
    BY <2>1
  <2>3. \A k \in 0..(n + 1) : k # 0 => k - 1 \in 0..n
    OBVIOUS
  <2>4. Recursive(h, n + 1)
    BY <2>2, <2>3
  <2> HIDE DEF Recursive
  <2> QED BY <2>4
<1> HIDE DEF S
<1>3. Len(s) \in S
  BY <1>1, <1>2, Induction
<1>4. \E g : Recursive(g, Len(s))
  BY <1>3 DEF S
<1> QED BY <1>4 DEF After

LEMMA DescribedSteps ==
    ASSUME NEW s \in Seq(Step)
    PROVE  /\ Described(s, 0) = EmptyFS
           /\ \A n \in 1..Len(s) : Described(s, n) = Effect(Described(s, n - 1), s[n])
<1>1. \A n \in 1..Len(s) : n \in 0..Len(s) /\ n # 0
  OBVIOUS
<1>2. 0 \in 0..Len(s)
  OBVIOUS
<1> QED BY <1>1, <1>2, AfterIs, DescribedIs

LEMMA EffectType ==
    ASSUME NEW fs \in FileSystem, NEW s \in Step
    PROVE  Effect(fs, s) \in FileSystem
<1>1. CASE s \in FromStep
  <2>1. Effect(fs, s) = ApplyLayers(fs, s.layers) /\ s.layers \in Seq(Layer)
    BY <1>1 DEF Effect, FromStep
  <2> QED BY <2>1, ApplyType
<1>2. CASE s \in CopyStep
  <2>1. Effect(fs, s) = [fs EXCEPT ![s.dst] = s.src] /\ s.src \in Content
    BY <1>2 DEF Effect, CopyStep
  <2> QED BY <2>1 DEF FileSystem
<1>3. CASE s \in RunStep
  <2>1. Effect(fs, s) = [fs EXCEPT ![s.dst] = fs[s.src]] /\ s.src \in File
    BY <1>3 DEF Effect, RunStep
  <2> QED BY <2>1 DEF FileSystem
<1>4. CASE s \in EnvStep
  BY <1>4 DEF Effect, EnvStep
<1> QED BY <1>1, <1>2, <1>3, <1>4 DEF Step

LEMMA EmptyType == EmptyFS \in FileSystem
BY DEF EmptyFS, FileSystem

LEMMA DescribedType ==
    ASSUME NEW s \in Seq(Step)
    PROVE  \A n \in 0..Len(s) : Described(s, n) \in FileSystem
<1> DEFINE S == {n \in Nat : n <= Len(s) => Described(s, n) \in FileSystem}
<1>1. 0 \in S
  BY DescribedSteps, EmptyType
<1>2. ASSUME NEW n \in Nat, n \in S
      PROVE  n + 1 \in S
  <2> SUFFICES ASSUME n + 1 <= Len(s) PROVE Described(s, n + 1) \in FileSystem
    OBVIOUS
  <2>1. n + 1 \in 1..Len(s) /\ (n + 1) - 1 = n /\ n <= Len(s)
    OBVIOUS
  <2>2. Described(s, n + 1) = Effect(Described(s, n), s[n + 1])
    BY <2>1, DescribedSteps
  <2>3. s[n + 1] \in Step /\ Described(s, n) \in FileSystem
    BY <1>2, <2>1
  <2> QED BY <2>2, <2>3, EffectType
<1> HIDE DEF S
<1>3. \A n \in Nat : n \in S
  BY <1>1, <1>2, Induction
<1> QED BY <1>3 DEF S

(* The steps up to n are those of another stage. *)
SameUpTo(s, t, n) == n <= Len(s) /\ n <= Len(t) /\ \A k \in 1..n : s[k] = t[k]

LEMMA DescribedPrefix ==
    ASSUME NEW s \in Seq(Step), NEW t \in Seq(Step), NEW n \in Nat, SameUpTo(s, t, n)
    PROVE  \A m \in 0..n : Described(s, m) = Described(t, m)
<1> DEFINE S == {m \in Nat : m <= n => Described(s, m) = Described(t, m)}
<1>1. 0 \in S
  BY DescribedSteps
<1>2. ASSUME NEW m \in Nat, m \in S
      PROVE  m + 1 \in S
  <2> SUFFICES ASSUME m + 1 <= n PROVE Described(s, m + 1) = Described(t, m + 1)
    OBVIOUS
  <2>1. m + 1 \in 1..Len(s) /\ m + 1 \in 1..Len(t) /\ m + 1 \in 1..n /\ (m + 1) - 1 = m /\ m <= n
    BY DEF SameUpTo
  <2>2. /\ Described(s, m + 1) = Effect(Described(s, m), s[m + 1])
        /\ Described(t, m + 1) = Effect(Described(t, m), t[m + 1])
    BY <2>1, DescribedSteps
  <2> QED BY <1>2, <2>1, <2>2 DEF SameUpTo
<1> HIDE DEF S
<1>3. \A m \in Nat : m \in S
  BY <1>1, <1>2, Induction
<1> QED BY <1>3 DEF S

LEMMA SamePending ==
    ASSUME NEW s, NEW t, NEW n \in Nat, SameUpTo(s, t, n), NEW force, NEW m \in 1..n
    PROVE  /\ Committing(s, m, force) <=> Committing(t, m, force)
           /\ Pending(s, m, force) <=> Pending(t, m, force)
           /\ HasContent(s, m, force) <=> HasContent(t, m, force)
           /\ \A k \in 1..(m - 1) : LastCommit(s, k, m, force) <=> LastCommit(t, k, m, force)
<1>1. \A k \in 1..n : s[k] = t[k]
  BY DEF SameUpTo
<1>2. \A k \in 1..n : Committing(s, k, force) <=> Committing(t, k, force)
  BY <1>1 DEF Committing
<1>3. Pending(s, m, force) <=> Pending(t, m, force)
  <2>1. \A k \in 2..(m - 1) : k \in 1..n /\ \A j \in k..(m - 1) : j \in 1..n
    OBVIOUS
  <2> QED BY <1>1, <1>2, <2>1 DEF Pending, Changes
<1>4. \A k \in 1..(m - 1) : LastCommit(s, k, m, force) <=> LastCommit(t, k, m, force)
  <2>1. \A k \in 1..(m - 1) : k \in 1..n /\ \A j \in (k + 1)..(m - 1) : j \in 1..n
    OBVIOUS
  <2> QED BY <1>2, <2>1 DEF LastCommit
<1> QED BY <1>1, <1>2, <1>3, <1>4 DEF HasContent, Changes

LEMMA SameContentful ==
    ASSUME NEW s, NEW t, NEW n \in Nat, SameUpTo(s, t, n), NEW force, NEW m \in 0..n
    PROVE  Contentful(s, m, force) <=> Contentful(t, m, force)
<1>1. \A k \in 2..m : k \in 1..n /\ s[k] = t[k]
  BY DEF SameUpTo
<1>2. \A k \in 2..m : HasContent(s, k, force) <=> HasContent(t, k, force)
  BY <1>1, SamePending
<1> QED BY <1>1, <1>2 DEF Contentful

LEMMA SameStays ==
    ASSUME NEW s \in Seq(Step), NEW t \in Seq(Step), NEW n \in Nat, SameUpTo(s, t, n), Stays(t, n)
    PROVE  Stays(s, n)
<1> SUFFICES ASSUME NEW k \in 1..n, NEW m \in 1..k, s[m].kind = "COPY"
             PROVE  Described(s, k)[s[m].dst] # NoFile
  BY DEF Stays
<1>1. k \in 0..n /\ m \in 1..n
  OBVIOUS
<1>2. Described(s, k) = Described(t, k) /\ s[m] = t[m]
  BY <1>1, DescribedPrefix DEF SameUpTo
<1> QED BY <1>2 DEF Stays

LEMMA StaysBefore ==
    ASSUME NEW s, NEW n \in Nat, NEW m \in Nat, m <= n, Stays(s, n)
    PROVE  Stays(s, m)
<1>1. \A k \in 1..m : k \in 1..n
  OBVIOUS
<1> QED BY <1>1 DEF Stays

LEMMA SameLayers ==
    ASSUME NEW s \in Seq(Step), NEW t \in Seq(Step), NEW n \in Nat, n > 0, SameUpTo(s, t, n),
           NEW force, NEW layers, LayersOf(s, n, force, layers)
    PROVE  LayersOf(t, n, force, layers)
<1>1. n - 1 \in 0..n /\ n \in 1..n /\ n \in 0..n /\ \A m \in 1..(n - 1) : m \in 0..n
  OBVIOUS
<1>2. Contentful(s, n - 1, force) <=> Contentful(t, n - 1, force)
  BY <1>1, SameContentful
<1>3. /\ HasContent(s, n, force) <=> HasContent(t, n, force)
      /\ \A k \in 1..(n - 1) : LastCommit(s, k, n, force) <=> LastCommit(t, k, n, force)
  BY <1>1, SamePending
<1>4. /\ Described(s, n) = Described(t, n)
      /\ \A m \in 1..(n - 1) : Described(s, m) = Described(t, m)
  BY <1>1, DescribedPrefix
<1>5. Stays(t, n) => Stays(s, n)
  BY SameStays
<1> QED BY <1>2, <1>3, <1>4, <1>5 DEF LayersOf

-----------------------------------------------------------------------------
(* Cache IDs.                                                              *)

(* Copies that are hashed alike have the same #!COMMIT annotation: where   *)
(* it is edited, a cached layer is taken for another one (the run          *)
(* BuildStageCopies).                                                      *)
SameAnnotations ==
    \A s, t \in Dockerfiles : \A n \in DOMAIN s, m \in DOMAIN t :
        s[n].kind = "COPY" /\ t[m].kind = "COPY" /\ Hashed(s[n]) = Hashed(t[m])
            => s[n].commit = t[m].commit

LEMMA HashTells ==
    ASSUME NEW p \in Step, NEW q \in Step, Hashed(p) = Hashed(q),
           p.kind = "COPY" /\ q.kind = "COPY" => p.commit = q.commit
    PROVE  p = q
<1>1. CASE p.kind = "COPY" /\ q.kind = "COPY"
  <2>1. p \in CopyStep /\ q \in CopyStep
    BY <1>1 DEF Step, FromStep, RunStep, EnvStep
  <2>2. p.src = q.src /\ p.dst = q.dst /\ p.chown = q.chown /\ p.commit = q.commit
    BY <1>1 DEF Hashed
  <2> QED BY <1>1, <2>1, <2>2 DEF CopyStep
<1>2. CASE p.kind # "COPY" /\ q.kind # "COPY"
  BY <1>2 DEF Hashed
<1>3. CASE ~(p.kind = "COPY" <=> q.kind = "COPY")
  <2>1. ~(Len(Hashed(p)) = Len(Hashed(q)))
    BY <1>3 DEF Hashed
  <2> QED BY <2>1
<1> QED BY <1>1, <1>2, <1>3

LEMMA IdTells ==
    ASSUME SameAnnotations, NEW s \in Dockerfiles, NEW t \in Dockerfiles,
           NEW n \in DOMAIN s, NEW m \in DOMAIN t, NEW force,
           CacheID(s, n, force) = CacheID(t, m, force)
    PROVE  n = m /\ SameUpTo(s, t, n)
<1>1. s \in Seq(Step) /\ t \in Seq(Step)
  BY StageAssumption
<1>2. n \in 1..Len(s) /\ m \in 1..Len(t)
  BY <1>1
<1>3. [k \in 1..n |-> Hashed(s[k])] = [k \in 1..m |-> Hashed(t[k])]
  BY DEF CacheID
<1>4. n = m
  <2>1. 1..n = 1..m
    BY <1>3
  <2> QED BY <1>2, <2>1
<1>5. ASSUME NEW k \in 1..n PROVE s[k] = t[k]
  <2>1. Hashed(s[k]) = Hashed(t[k])
    BY <1>3, <1>4
  <2>2. k \in DOMAIN s /\ k \in DOMAIN t /\ s[k] \in Step /\ t[k] \in Step
    BY <1>1, <1>2, <1>4
  <2> QED BY <2>1, <2>2, HashTells DEF SameAnnotations
<1> QED BY <1>2, <1>4, <1>5 DEF SameUpTo

-----------------------------------------------------------------------------
(* What waits in a context, and what a commit makes of it.                 *)

LEMMA CopiesFacts ==
    ASSUME NEW ops \in Seq(CopyStep), NEW f
    PROVE  /\ CopiesTo(ops, f) \in SUBSET (1..Len(ops))
           /\ CopiesTo(ops, f) # {} => /\ Max(CopiesTo(ops, f)) \in CopiesTo(ops, f)
                                       /\ ops[Max(CopiesTo(ops, f))].src \in Content
<1>1. CopiesTo(ops, f) \in SUBSET (1..Len(ops)) /\ Len(ops) \in Nat
  BY DEF CopiesTo
<1>2. ASSUME NEW i \in 1..Len(ops) PROVE ops[i].src \in Content
  <2>1. ops[i] \in CopyStep
    OBVIOUS
  <2> QED BY <2>1 DEF CopyStep
<1> QED BY <1>1, <1>2, MaxFacts

LEMMA NoCopies ==
    ASSUME NEW mem \in FileSystem
    PROVE  WithCopies(mem, <<>>) = mem
<1>1. \A f : CopiesTo(<<>>, f) = {}
  BY DEF CopiesTo
<1> QED BY <1>1 DEF WithCopies, FileSystem

LEMMA OneMoreCopy ==
    ASSUME NEW mem \in FileSystem, NEW ops \in Seq(CopyStep), NEW s \in CopyStep
    PROVE  WithCopies(mem, Append(ops, s)) = Effect(WithCopies(mem, ops), s)
<1> DEFINE more == Append(ops, s)
           N == Len(ops)
<1>1. /\ more \in Seq(CopyStep) /\ N \in Nat /\ Len(more) = N + 1
      /\ \A i \in 1..N : more[i] = ops[i]
      /\ more[N + 1] = s
  OBVIOUS
<1>2. Effect(WithCopies(mem, ops), s) = [WithCopies(mem, ops) EXCEPT ![s.dst] = s.src]
  BY DEF Effect, CopyStep
<1>3. s.dst \in File
  BY DEF CopyStep
<1> HIDE DEF more
<1>4. ASSUME NEW f \in File
      PROVE  WithCopies(mem, more)[f] = Effect(WithCopies(mem, ops), s)[f]
  <2>1. WithCopies(mem, more)[f] = IF CopiesTo(more, f) = {} THEN mem[f] ELSE more[Max(CopiesTo(more, f))].src
    BY DEF WithCopies
  <2>2. WithCopies(mem, ops)[f] = IF CopiesTo(ops, f) = {} THEN mem[f] ELSE ops[Max(CopiesTo(ops, f))].src
    BY DEF WithCopies
  <2>3. CASE f = s.dst
    <3>1. N + 1 \in CopiesTo(more, f)
      BY <1>1, <2>3 DEF CopiesTo
    <3>2. CopiesTo(more, f) \in SUBSET (1..(N + 1)) /\ N + 1 \in Nat
      BY <1>1 DEF CopiesTo
    <3>3. Max(CopiesTo(more, f)) \in 1..(N + 1) /\ Max(CopiesTo(more, f)) >= N + 1
      BY <3>1, <3>2, MaxFacts
    <3>4. Max(CopiesTo(more, f)) = N + 1
      BY <1>1, <3>3
    <3>5. WithCopies(mem, more)[f] = s.src
      BY <1>1, <2>1, <3>1, <3>4
    <3> QED BY <1>2, <2>3, <3>5 DEF WithCopies
  <2>4. CASE f # s.dst
    <3>1. CopiesTo(more, f) = CopiesTo(ops, f)
      BY <1>1, <2>4 DEF CopiesTo
    <3>2. CopiesTo(ops, f) # {} => Max(CopiesTo(ops, f)) \in 1..N
      BY CopiesFacts
    <3>3. WithCopies(mem, more)[f] = WithCopies(mem, ops)[f]
      BY <1>1, <2>1, <2>2, <3>1, <3>2
    <3> QED BY <1>2, <2>4, <3>3 DEF WithCopies
  <2> QED BY <2>3, <2>4
<1>5. /\ WithCopies(mem, more) = [f \in File |-> WithCopies(mem, more)[f]]
      /\ Effect(WithCopies(mem, ops), s) = [f \in File |-> Effect(WithCopies(mem, ops), s)[f]]
  BY <1>2 DEF WithCopies
<1> QED BY <1>4, <1>5 DEF more

LEMMA CopyLayer ==
    ASSUME NEW c \in Context
    PROVE  /\ LayerByCopyOps(c) \in Layer
           /\ ApplyLayers(c.mem, <<LayerByCopyOps(c)>>) = WithCopies(c.mem, c.copyOps)
<1> DEFINE layer == LayerByCopyOps(c)
           changed == {f \in File : \E i \in CopiesTo(c.copyOps, f) : c.copyOps[i].src # c.mem[f]}
<1>1. c.copyOps \in Seq(CopyStep)
  BY DEF Context
<1>2. layer = [f \in changed |-> c.copyOps[Max(CopiesTo(c.copyOps, f))].src]
  BY DEF LayerByCopyOps, CopiesTo
<1> HIDE DEF layer
<1>3. \A f \in changed : CopiesTo(c.copyOps, f) # {}
  OBVIOUS
<1>4. layer \in Layer
  <2>1. layer \in [changed -> Content \cup {NoFile}]
    BY <1>1, <1>2, <1>3, CopiesFacts
  <2> QED BY <2>1 DEF Layer
<1>5. ASSUME NEW f \in File
      PROVE  (IF f \in DOMAIN layer THEN layer[f] ELSE c.mem[f]) = WithCopies(c.mem, c.copyOps)[f]
  <2>1. WithCopies(c.mem, c.copyOps)[f] = IF CopiesTo(c.copyOps, f) = {} THEN c.mem[f]
                                          ELSE c.copyOps[Max(CopiesTo(c.copyOps, f))].src
    BY DEF WithCopies
  <2>2. CASE f \in changed
    BY <1>2, <1>3, <2>1, <2>2
  <2>3. CASE f \notin changed
    <3>1. CopiesTo(c.copyOps, f) # {} => c.copyOps[Max(CopiesTo(c.copyOps, f))].src = c.mem[f]
      BY <1>1, <2>3, CopiesFacts
    <3> QED BY <1>2, <2>1, <2>3, <3>1
  <2> QED BY <2>2, <2>3
<1>6. WithCopies(c.mem, c.copyOps) = [f \in File |-> WithCopies(c.mem, c.copyOps)[f]]
  BY DEF WithCopies
<1> QED BY <1>4, <1>5, <1>6, ApplyOne DEF layer

LEMMA ScanLayer ==
    ASSUME NEW c \in Context
    PROVE  /\ LayerByScan(c) \in Layer
           /\ (\A f \in c.copied : c.disk[f] # NoFile) =>
                 ApplyLayers(c.mem, <<LayerByScan(c)>>) = c.disk
<1> DEFINE layer == LayerByScan(c)
           changed == {f \in File : c.disk[f] # c.mem[f] /\ (c.disk[f] = NoFile => f \notin c.copied)}
<1>1. layer = [f \in changed |-> c.disk[f]]
  BY DEF LayerByScan
<1>2. c.disk \in [File -> Content \cup {NoFile}]
  BY DEF Context, FileSystem
<1> HIDE DEF layer
<1>3. layer \in Layer
  <2>1. layer \in [changed -> Content \cup {NoFile}]
    BY <1>1, <1>2
  <2> QED BY <2>1 DEF Layer
<1>4. ASSUME \A f \in c.copied : c.disk[f] # NoFile
      PROVE  ApplyLayers(c.mem, <<layer>>) = c.disk
  <2>1. \A f \in File : (IF f \in DOMAIN layer THEN layer[f] ELSE c.mem[f]) = c.disk[f]
    BY <1>1, <1>4
  <2> QED BY <1>2, <2>1, ApplyOne
<1> QED BY <1>3, <1>4 DEF layer

LEMMA CommitFacts ==
    ASSUME NEW c \in Context, NEW s, s.kind # "FROM"
    PROVE  /\ NewLayers(c, s) \in Seq(Layer) /\ Len(NewLayers(c, s)) <= 1
           /\ NewLayers(c, s) # <<>> <=> ~NoPending(c)
           /\ (c.mustScan => \A f \in c.copied : c.disk[f] # NoFile) =>
                 ApplyLayers(c.mem, NewLayers(c, s)) =
                    IF c.mustScan THEN c.disk ELSE WithCopies(c.mem, c.copyOps)
           /\ Committed(c, s) \in Context
           /\ Committed(c, s).mem = ApplyLayers(c.mem, NewLayers(c, s))
           /\ Committed(c, s).disk = c.disk
           /\ NoPending(Committed(c, s))
           /\ \A f \in Committed(c, s).copied :
                 f \in c.copied \/ \E i \in DOMAIN c.copyOps : c.copyOps[i].dst = f
<1> DEFINE layers == NewLayers(c, s)
           copied == IF c.mustScan THEN c.copied \ DOMAIN LayerByScan(c)
                     ELSE c.copied \cup DOMAIN LayerByCopyOps(c)
           done == [mem |-> ApplyLayers(c.mem, layers), copied |-> copied, disk |-> c.disk,
                    copyOps |-> <<>>, mustScan |-> FALSE]
<1>1. /\ c.mustScan \in BOOLEAN /\ c.copyOps \in Seq(CopyStep) /\ c.mem \in FileSystem
      /\ c.copied \in SUBSET File /\ c.disk \in FileSystem
      /\ c = [mem |-> c.mem, copied |-> c.copied, disk |-> c.disk, copyOps |-> c.copyOps,
              mustScan |-> c.mustScan]
  BY DEF Context
<1>2. /\ copied \in SUBSET File
      /\ \A f \in copied : f \in c.copied \/ \E i \in DOMAIN c.copyOps : c.copyOps[i].dst = f
  BY <1>1 DEF LayerByCopyOps
<1> HIDE DEF copied
<1>3. ASSUME layers # <<>>
      PROVE  Committed(c, s) = done
  BY <1>1, <1>3 DEF Committed, copied
<1>4. ASSUME layers \in Seq(Layer), Committed(c, s) = done
      PROVE  /\ Committed(c, s) \in Context
             /\ Committed(c, s).mem = ApplyLayers(c.mem, layers)
             /\ Committed(c, s).disk = c.disk
             /\ NoPending(Committed(c, s))
             /\ \A f \in Committed(c, s).copied :
                   f \in c.copied \/ \E i \in DOMAIN c.copyOps : c.copyOps[i].dst = f
  <2>1. ApplyLayers(c.mem, layers) \in FileSystem /\ <<>> \in Seq(CopyStep)
    BY <1>1, <1>4, ApplyType
  <2> HIDE DEF layers
  <2>2. done \in Context
    BY <1>1, <1>2, <2>1 DEF Context
  <2> QED BY <1>2, <1>4, <2>2 DEF NoPending
<1>5. CASE c.mustScan
  <2>1. layers = <<LayerByScan(c)>>
    BY <1>5 DEF NewLayers
  <2>2. LayerByScan(c) \in Layer
    BY ScanLayer
  <2>3. /\ layers \in Seq(Layer) /\ Len(layers) <= 1 /\ layers # <<>>
    BY <2>1, <2>2
  <2>4. (\A f \in c.copied : c.disk[f] # NoFile) => ApplyLayers(c.mem, layers) = c.disk
    BY <2>1, ScanLayer
  <2>5. ~NoPending(c)
    BY <1>5 DEF NoPending
  <2> HIDE DEF layers, done
  <2>6. Committed(c, s) = done
    BY <1>3, <2>3
  <2> QED BY <1>4, <1>5, <2>3, <2>4, <2>5, <2>6 DEF layers
<1>6. CASE ~c.mustScan /\ c.copyOps # <<>>
  <2>1. layers = <<LayerByCopyOps(c)>>
    BY <1>6 DEF NewLayers
  <2>2. LayerByCopyOps(c) \in Layer
    BY CopyLayer
  <2>3. /\ layers \in Seq(Layer) /\ Len(layers) <= 1 /\ layers # <<>>
    BY <2>1, <2>2
  <2>4. ApplyLayers(c.mem, layers) = WithCopies(c.mem, c.copyOps)
    BY <2>1, CopyLayer
  <2>5. ~NoPending(c)
    BY <1>6 DEF NoPending
  <2> HIDE DEF layers, done
  <2>6. Committed(c, s) = done
    BY <1>3, <2>3
  <2> QED BY <1>4, <1>6, <2>3, <2>4, <2>5, <2>6 DEF layers
<1>7. CASE ~c.mustScan /\ c.copyOps = <<>>
  <2>1. layers = <<>>
    BY <1>7 DEF NewLayers
  <2>2. Committed(c, s) = c
    BY <2>1 DEF Committed
  <2>3. ApplyLayers(c.mem, <<>>) = c.mem /\ WithCopies(c.mem, <<>>) = c.mem
    BY <1>1, ApplyNone, NoCopies
  <2>4. NoPending(c) /\ layers \in Seq(Layer) /\ Len(layers) <= 1
    BY <1>7, <2>1 DEF NoPending
  <2> QED BY <1>7, <2>1, <2>2, <2>3, <2>4
<1> QED BY <1>1, <1>5, <1>6, <1>7

-----------------------------------------------------------------------------
(* Layers of nodes, one after the other.                                   *)

Joined(flatten, seqs, i) == IF i = 1 THEN seqs[i] ELSE flatten[i - 1] \o seqs[i]
Flattened(seqs) == CHOOSE flatten : flatten = [i \in 1..Len(seqs) |-> Joined(flatten, seqs, i)]

LEMMA FlattenIs ==
    ASSUME NEW seqs
    PROVE  FlattenSeq(seqs) = IF Len(seqs) = 0 THEN seqs ELSE Flattened(seqs)[Len(seqs)]
BY DEF FlattenSeq, Flattened, Joined

LEMMA FlattenedIs ==
    ASSUME NEW T, NEW seqs \in Seq(T)
    PROVE  Flattened(seqs) = [i \in 1..Len(seqs) |-> Joined(Flattened(seqs), seqs, i)]
<1> DEFINE Recursive(g, n) == g = [i \in 1..n |-> Joined(g, seqs, i)]
           S == {n \in Nat : \E g : Recursive(g, n)}
<1>1. 0 \in S
  <2>1. Recursive([i \in 1..0 |-> {}], 0)
    OBVIOUS
  <2> HIDE DEF Recursive
  <2> QED BY <2>1
<1>2. ASSUME NEW n \in Nat, n \in S
      PROVE  n + 1 \in S
  <2>1. PICK g : g = [i \in 1..n |-> Joined(g, seqs, i)]
    BY <1>2
  <2> DEFINE h == [i \in 1..(n + 1) |-> Joined(g, seqs, i)]
  <2>2. \A i \in 1..n : h[i] = g[i]
    BY <2>1
  <2>3. ASSUME NEW i \in 1..(n + 1) PROVE Joined(g, seqs, i) = Joined(h, seqs, i)
    <3>1. i # 1 => i - 1 \in 1..n
      OBVIOUS
    <3>2. i # 1 => h[i - 1] = g[i - 1]
      BY <2>2, <3>1
    <3> HIDE DEF h
    <3> QED BY <3>2 DEF Joined
  <2>4. Recursive(h, n + 1)
    BY <2>2, <2>3
  <2> HIDE DEF Recursive
  <2> QED BY <2>4
<1> HIDE DEF S
<1>3. Len(seqs) \in S
  BY <1>1, <1>2, Induction
<1>4. \E g : Recursive(g, Len(seqs))
  BY <1>3 DEF S
<1> QED BY <1>4 DEF Flattened

LEMMA FlattenAppend ==
    ASSUME NEW T, NEW seqs \in Seq(Seq(T)), NEW x \in Seq(T)
    PROVE  FlattenSeq(Append(seqs, x)) = FlattenSeq(seqs) \o x
<1> DEFINE more == Append(seqs, x)
           N == Len(seqs)
<1>1. /\ more \in Seq(Seq(T)) /\ N \in Nat /\ Len(more) = N + 1
      /\ \A i \in 1..N : more[i] = seqs[i]
      /\ more[N + 1] = x
  OBVIOUS
<1>2. /\ Flattened(seqs) = [i \in 1..N |-> Joined(Flattened(seqs), seqs, i)]
      /\ Flattened(more) = [i \in 1..(N + 1) |-> Joined(Flattened(more), more, i)]
  BY <1>1, FlattenedIs
<1> HIDE DEF more, N
<1> DEFINE S == {n \in Nat : n \in 1..N => Flattened(more)[n] = Flattened(seqs)[n]}
<1>3. 0 \in S
  OBVIOUS
<1>4. ASSUME NEW n \in Nat, n \in S
      PROVE  n + 1 \in S
  <2> SUFFICES ASSUME n + 1 \in 1..N PROVE Flattened(more)[n + 1] = Flattened(seqs)[n + 1]
    OBVIOUS
  <2>1. n + 1 \in 1..(N + 1) /\ (n + 1) - 1 = n /\ (n + 1 # 1 => n \in 1..N)
    BY <1>1
  <2>2. more[n + 1] = seqs[n + 1] /\ (n + 1 # 1 => Flattened(more)[n] = Flattened(seqs)[n])
    BY <1>1, <1>4, <2>1
  <2>3. Joined(Flattened(more), more, n + 1) = Joined(Flattened(seqs), seqs, n + 1)
    BY <2>1, <2>2 DEF Joined
  <2> QED BY <1>2, <2>1, <2>3
<1> HIDE DEF S
<1>5. \A n \in 1..N : Flattened(more)[n] = Flattened(seqs)[n]
  <2>1. \A n \in Nat : n \in S
    BY <1>3, <1>4, Induction
  <2> QED BY <2>1 DEF S
<1>6. FlattenSeq(more) = Flattened(more)[N + 1]
  BY <1>1, FlattenIs
<1>7. CASE N = 0
  <2>1. seqs = <<>> /\ FlattenSeq(seqs) = <<>>
    BY <1>7, FlattenIs DEF N
  <2>2. FlattenSeq(more) = x
    BY <1>1, <1>2, <1>6, <1>7 DEF Joined
  <2> QED BY <2>1, <2>2 DEF more
<1>8. CASE N # 0
  <2>1. FlattenSeq(seqs) = Flattened(seqs)[N]
    BY <1>8, FlattenIs DEF N
  <2>2. N + 1 \in 1..(N + 1) /\ N + 1 # 1 /\ (N + 1) - 1 = N /\ N \in 1..N
    BY <1>1, <1>8
  <2>3. Joined(Flattened(more), more, N + 1) = Flattened(more)[N] \o x
    BY <1>1, <2>2 DEF Joined
  <2>4. Flattened(more)[N + 1] = Flattened(more)[N] \o x
    BY <1>2, <2>2, <2>3
  <2> QED BY <1>5, <1>6, <2>1, <2>2, <2>4 DEF more
<1> QED BY <1>7, <1>8

LEMMA FlattenNone == FlattenSeq(<<>>) = <<>>
<1>1. Len(<<>>) = 0
  OBVIOUS
<1> QED BY <1>1, FlattenIs

-----------------------------------------------------------------------------
(* Types, and what the config lists.                                       *)

LEMMA ExecuteFacts ==
    ASSUME NEW c \in Context, NEW s \in Step, NEW onDisk \in BOOLEAN
    PROVE  /\ Execute(c, s, onDisk) \in Context
           /\ Execute(c, s, onDisk).mem = IF s.kind = "FROM" THEN Effect(c.mem, s) ELSE c.mem
           /\ Execute(c, s, onDisk).copied = c.copied
           /\ Execute(c, s, onDisk).disk = IF onDisk THEN Effect(c.disk, s) ELSE c.disk
           /\ Execute(c, s, onDisk).copyOps = IF s.kind = "COPY" THEN Append(c.copyOps, s) ELSE c.copyOps
           /\ Execute(c, s, onDisk).mustScan = IF s.kind = "RUN" THEN TRUE ELSE c.mustScan
<1> DEFINE disk == IF onDisk THEN Effect(c.disk, s) ELSE c.disk
<1>1. /\ c.mem \in FileSystem /\ c.disk \in FileSystem
      /\ c.copyOps \in Seq(CopyStep) /\ c.mustScan \in BOOLEAN /\ c.copied \in SUBSET File
      /\ c = [mem |-> c.mem, copied |-> c.copied, disk |-> c.disk, copyOps |-> c.copyOps,
              mustScan |-> c.mustScan]
  BY DEF Context
<1>2. disk \in FileSystem /\ Effect(c.mem, s) \in FileSystem
  BY <1>1, EffectType
<1>3. CASE s.kind = "FROM"
  <2>1. Execute(c, s, onDisk) = [mem |-> Effect(c.mem, s), copied |-> c.copied, disk |-> disk,
                                 copyOps |-> c.copyOps, mustScan |-> c.mustScan]
    BY <1>1, <1>3 DEF Execute
  <2> QED BY <1>1, <1>2, <1>3, <2>1 DEF Context
<1>4. CASE s.kind = "COPY"
  <2>1. Execute(c, s, onDisk) = [mem |-> c.mem, copied |-> c.copied, disk |-> disk,
                                 copyOps |-> Append(c.copyOps, s), mustScan |-> c.mustScan]
    BY <1>1, <1>4 DEF Execute
  <2>2. s \in CopyStep
    BY <1>4 DEF Step, FromStep, RunStep, EnvStep
  <2>3. Append(c.copyOps, s) \in Seq(CopyStep)
    BY <1>1, <2>2
  <2> QED BY <1>1, <1>2, <1>4, <2>1, <2>3 DEF Context
<1>5. CASE s.kind = "RUN"
  <2>1. Execute(c, s, onDisk) = [mem |-> c.mem, copied |-> c.copied, disk |-> disk,
                                 copyOps |-> c.copyOps, mustScan |-> TRUE]
    BY <1>1, <1>5 DEF Execute
  <2> QED BY <1>1, <1>2, <1>5, <2>1 DEF Context
<1>6. CASE s.kind \notin {"FROM", "COPY", "RUN"}
  <2>1. Execute(c, s, onDisk) = c /\ Effect(c.disk, s) = c.disk
    BY <1>6 DEF Execute, Effect
  <2> QED BY <1>1, <1>6, <2>1
<1> QED BY <1>3, <1>4, <1>5, <1>6

LEMMA CachedFacts ==
    ASSUME NEW c \in Context, NEW layers \in Seq(Layer), NEW onDisk \in BOOLEAN
    PROVE  /\ ApplyCached(c, layers, onDisk) \in Context
           /\ ApplyCached(c, layers, onDisk).mem = ApplyLayers(c.mem, layers)
           /\ ApplyCached(c, layers, onDisk).disk = IF onDisk THEN ApplyLayers(c.disk, layers) ELSE c.disk
           /\ ApplyCached(c, layers, onDisk).copied \subseteq c.copied
           /\ ApplyCached(c, layers, onDisk).copyOps = c.copyOps
           /\ ApplyCached(c, layers, onDisk).mustScan = c.mustScan
<1> DEFINE disk == IF onDisk THEN ApplyLayers(c.disk, layers) ELSE c.disk
           copied == {f \in c.copied : ApplyLayers(c.mem, layers)[f] = c.mem[f]}
<1>1. /\ c.mem \in FileSystem /\ c.disk \in FileSystem /\ c.copied \in SUBSET File
      /\ c = [mem |-> c.mem, copied |-> c.copied, disk |-> c.disk, copyOps |-> c.copyOps,
              mustScan |-> c.mustScan]
  BY DEF Context
<1>2. ApplyLayers(c.mem, layers) \in FileSystem /\ disk \in FileSystem
  BY <1>1, ApplyType
<1>3. copied \in SUBSET File /\ copied \subseteq c.copied
  BY <1>1
<1>4. ApplyCached(c, layers, onDisk) = [mem |-> ApplyLayers(c.mem, layers), copied |-> copied, disk |-> disk,
                                        copyOps |-> c.copyOps, mustScan |-> c.mustScan]
  <2>1. ApplyCached(c, layers, onDisk) =
           [c EXCEPT !.mem = ApplyLayers(c.mem, layers), !.copied = copied, !.disk = disk]
    BY DEF ApplyCached
  <2> HIDE DEF disk, copied
  <2> QED BY <1>1, <2>1
<1> HIDE DEF copied
<1> QED BY <1>2, <1>3, <1>4 DEF Context

LEMMA StageFacts ==
    ASSUME NEW s \in Dockerfiles
    PROVE  /\ s \in Seq(Step) /\ Len(s) \in Nat /\ Len(s) > 0 /\ DOMAIN s = 1..Len(s)
           /\ \A n \in 1..Len(s) : s[n] \in Step /\ (s[n].kind = "FROM" <=> n = 1)
           /\ s[1] \in FromStep
<1>1. s \in Seq(Step) /\ Len(s) > 0 /\ DOMAIN s = 1..Len(s) /\ Len(s) \in Nat
  BY StageAssumption
<1>2. \A n \in 1..Len(s) : s[n] \in Step /\ (s[n].kind = "FROM" <=> n = 1)
  BY <1>1, StageAssumption
<1>3. 1 \in 1..Len(s)
  BY <1>1
<1>4. s[1] \in FromStep
  BY <1>2, <1>3 DEF Step, CopyStep, RunStep, EnvStep
<1> QED BY <1>1, <1>2, <1>4

LEMMA NewContextType == NewContext(EmptyFS) \in Context
<1>1. <<>> \in Seq(CopyStep)
  OBVIOUS
<1> QED BY <1>1, EmptyType DEF NewContext, Context

LEMMA TypesInit == Init => Types
<1> SUFFICES ASSUME Init PROVE Types
  OBVIOUS
<1>1. steps \in Dockerfiles /\ DOMAIN steps = 1..Len(steps) /\ Len(steps) \in Nat
  BY StageFacts DEF Init
<1>2. <<>> \in Seq(Layer)
  OBVIOUS
<1>3. digestPairs \in [1..Len(steps) -> Seq(Layer)]
  BY <1>1, <1>2 DEF Init
<1>4. Range(ctx.copyOps) = {} /\ ctx.copied = {} /\ ctx.mustScan = FALSE
  BY DEF Init, NewContext, Range
<1> QED BY <1>1, <1>2, <1>3, <1>4, NewContextType, StageAssumption DEF Types, Init

(* What a context has from copies of the steps before a node. *)
CopiesAreEarlier(c, n) ==
    /\ Range(c.copyOps) \subseteq Copies(n)
    /\ \A f \in c.copied : \E s \in Copies(n) : s.dst = f

LEMMA EarlierNext ==
    ASSUME NEW c, NEW n \in Nat, CopiesAreEarlier(c, n)
    PROVE  CopiesAreEarlier(c, n + 1)
<1>1. \A k \in 1..(n - 1) : k \in 1..((n + 1) - 1)
  OBVIOUS
<1>2. Copies(n) \subseteq Copies(n + 1)
  BY <1>1 DEF Copies
<1> QED BY <1>2 DEF CopiesAreEarlier

(* The node actions leave the types of the rest alone. *)
LEMMA TypesNode ==
    ASSUME Types, NEW layers \in Seq(Layer), EndNode(layers),
           digestPairs' \in [1..Len(steps) -> Seq(Layer)],
           \A id \in DOMAIN cache' : cache'[id] \in Seq(Layer),
           ctx' \in Context, CopiesAreEarlier(ctx', node + 1), ctx'.mustScan => ModifyFS
    PROVE  Types'
<1>1. ModifyFS' <=> ModifyFS
  BY DEF EndNode, planVars, ModifyFS
<1>2. diffIDs' \in Seq(Layer)
  BY DEF Types, EndNode, WithLayersOf
<1>3. Len(steps) \in Nat /\ node \in 1..Len(steps)
  BY StageFacts DEF Types, EndNode
<1>4. node' \in 1..(Len(steps) + 1)
  BY <1>3 DEF EndNode
<1>5. /\ Range(ctx'.copyOps) \subseteq Copies(node)'
      /\ \A f \in ctx'.copied : \E s \in Copies(node)' : s.dst = f
  <2>1. Copies(node)' = Copies(node + 1)
    BY DEF EndNode, planVars, Copies
  <2> QED BY <2>1 DEF CopiesAreEarlier
<1> QED BY <1>1, <1>2, <1>4, <1>5 DEF Types, EndNode, planVars

LEMMA ModifyType == Types => ModifyFS \in BOOLEAN
BY DEF ModifyFS, Types

LEMMA NodeFacts ==
    ASSUME Types, node <= Len(steps)
    PROVE  /\ node \in 1..Len(steps) /\ steps \in Seq(Step) /\ Len(steps) \in Nat
           /\ DOMAIN steps = 1..Len(steps)
           /\ steps[node] \in Step /\ (steps[node].kind = "FROM" <=> node = 1)
           /\ digestPairs[node] \in Seq(Layer)
<1>1. node \in 1..Len(steps) /\ steps \in Dockerfiles
  BY StageFacts DEF Types
<1> QED BY <1>1, StageFacts DEF Types

LEMMA CachedTypes == Types /\ UseCachedNode => Types'
<1> SUFFICES ASSUME Types, UseCachedNode PROVE Types'
  OBVIOUS
<1>1. node <= Len(steps) /\ digestPairs[node] \in Seq(Layer)
  BY NodeFacts DEF UseCachedNode, EndNode
<1>2. ctx' = ApplyCached(ctx, digestPairs[node], ModifyFS) /\ ctx \in Context
  BY DEF UseCachedNode, Types
<1>3. /\ ctx' \in Context /\ ctx'.copyOps = ctx.copyOps /\ ctx'.mustScan = ctx.mustScan
      /\ ctx'.copied \subseteq ctx.copied
  BY <1>1, <1>2, CachedFacts, ModifyType
<1>4. CopiesAreEarlier(ctx', node)
  BY <1>3 DEF Types, CopiesAreEarlier
<1>5. CopiesAreEarlier(ctx', node + 1)
  BY <1>1, <1>4, NodeFacts, EarlierNext
<1> QED BY <1>1, <1>3, <1>5, TypesNode DEF UseCachedNode, Types

LEMMA SkipTypes == Types /\ SkipNode => Types'
<1> SUFFICES ASSUME Types, SkipNode PROVE Types'
  OBVIOUS
<1>1. <<>> \in Seq(Layer) /\ node <= Len(steps)
  BY DEF SkipNode, EndNode
<1>2. CopiesAreEarlier(ctx', node)
  BY DEF SkipNode, Types, CopiesAreEarlier
<1>3. CopiesAreEarlier(ctx', node + 1)
  BY <1>1, <1>2, NodeFacts, EarlierNext
<1> QED BY <1>1, <1>3, TypesNode DEF SkipNode, Types

(* What was executed is typed, and only a stage on disk has run commands. *)
LEMMA ExecuteTypes ==
    ASSUME Types, node <= Len(steps)
    PROVE  /\ Execute(ctx, steps[node], ModifyFS) \in Context
           /\ CopiesAreEarlier(Execute(ctx, steps[node], ModifyFS), node + 1)
           /\ Execute(ctx, steps[node], ModifyFS).mustScan => ModifyFS
<1> DEFINE executed == Execute(ctx, steps[node], ModifyFS)
<1>1. /\ executed \in Context
      /\ executed.copyOps = IF steps[node].kind = "COPY" THEN Append(ctx.copyOps, steps[node]) ELSE ctx.copyOps
      /\ executed.mustScan = IF steps[node].kind = "RUN" THEN TRUE ELSE ctx.mustScan
      /\ executed.copied = ctx.copied
  BY NodeFacts, ModifyType, ExecuteFacts DEF Types
<1> HIDE DEF executed
<1>2. executed.mustScan => ModifyFS
  BY <1>1, NodeFacts DEF Types, ModifyFS, RequireOnDisk
<1>3. CopiesAreEarlier(ctx, node + 1)
  <2>1. CopiesAreEarlier(ctx, node)
    BY DEF Types, CopiesAreEarlier
  <2> QED BY <2>1, NodeFacts, EarlierNext
<1>4. Range(Append(ctx.copyOps, steps[node])) \subseteq Range(ctx.copyOps) \cup {steps[node]}
  <2>1. ctx.copyOps \in Seq(CopyStep)
    BY DEF Types, Context
  <2> HIDE DEF Types
  <2> QED BY <2>1 DEF Range
<1>5. steps[node].kind = "COPY" => steps[node] \in Copies(node + 1)
  <2>1. node \in 1..((node + 1) - 1)
    BY NodeFacts
  <2> QED BY <2>1 DEF Copies
<1>6. CopiesAreEarlier(executed, node + 1)
  BY <1>1, <1>3, <1>4, <1>5 DEF CopiesAreEarlier
<1> QED BY <1>1, <1>2, <1>6 DEF executed

LEMMA ExecuteNodeTypes == Types /\ ExecuteNode => Types'
<1> SUFFICES ASSUME Types, ExecuteNode PROVE Types'
  OBVIOUS
<1>1. <<>> \in Seq(Layer)
  OBVIOUS
<1>2. node <= Len(steps) /\ ctx' = Execute(ctx, steps[node], ModifyFS)
  BY DEF ExecuteNode, EndNode
<1> QED BY <1>1, <1>2, ExecuteTypes, TypesNode DEF ExecuteNode, Types

(* A commit, in terms of what was executed. *)
LEMMA CommitTypes == Types /\ CommitNode => Types'
<1> SUFFICES ASSUME Types, CommitNode PROVE Types'
  OBVIOUS
<1> DEFINE executed == Execute(ctx, steps[node], ModifyFS)
           layers == NewLayers(executed, steps[node])
<1>1. /\ EndNode(layers) /\ node <= Len(steps)
      /\ digestPairs' = [digestPairs EXCEPT ![node] = layers]
      /\ ctx' = Committed(executed, steps[node])
      /\ cache' = Pushed(ID, layers)
  BY DEF CommitNode, EndNode
<1>2. /\ executed \in Context /\ CopiesAreEarlier(executed, node + 1)
      /\ executed.mustScan => ModifyFS
  BY <1>1, ExecuteTypes
<1> HIDE DEF executed
<1>3. layers \in Seq(Layer) /\ ctx' \in Context /\ CopiesAreEarlier(ctx', node + 1)
      /\ (ctx'.mustScan => ModifyFS)
  <2>1. CASE node = 1
    <3>1. layers = steps[node].layers /\ ctx' = executed
      BY <1>1, <2>1, NodeFacts DEF NewLayers, Committed
    <3>2. layers \in Seq(Layer)
      BY <2>1, <3>1, StageFacts DEF Types, FromStep
    <3> QED BY <1>2, <3>1, <3>2
  <2>2. CASE node # 1
    <3>1. steps[node].kind # "FROM"
      BY <1>1, <2>2, NodeFacts
    <3>2. /\ layers \in Seq(Layer) /\ ctx' \in Context /\ NoPending(ctx')
          /\ \A f \in ctx'.copied :
                f \in executed.copied \/ \E i \in DOMAIN executed.copyOps : executed.copyOps[i].dst = f
      BY <1>1, <1>2, <3>1, CommitFacts
    <3>3. Range(<<>>) = {}
      BY DEF Range
    <3>4. CopiesAreEarlier(ctx', node + 1)
      BY <1>2, <3>2, <3>3 DEF CopiesAreEarlier, NoPending, Range
    <3> QED BY <3>2, <3>4 DEF NoPending
  <2> QED BY <2>1, <2>2
<1> HIDE DEF layers
<1>4. digestPairs' \in [1..Len(steps) -> Seq(Layer)]
  BY <1>1, <1>3 DEF Types
<1>5. \A id \in DOMAIN cache' : cache'[id] \in Seq(Layer)
  BY <1>1, <1>3 DEF Types, Pushed
<1> QED BY <1>1, <1>3, <1>4, <1>5, TypesNode

LEMMA StartTypes ==
    ASSUME Types, NEW s \in Dockerfiles, NEW last \in BOOLEAN, StartBuild(s, last)
    PROVE  Types'
<1>1. steps' = s /\ DOMAIN s = 1..Len(s) /\ Len(s) \in Nat /\ Len(s) > 0
  BY StageFacts DEF StartBuild
<1>2. <<>> \in Seq(Layer) /\ digestPairs' = [n \in 1..Len(s) |-> <<>>]
  BY <1>1 DEF StartBuild
<1>3. digestPairs' \in [1..Len(s) -> Seq(Layer)]
  BY <1>2
<1>4. ctx' \in Context /\ Range(ctx'.copyOps) = {} /\ ctx'.copied = {} /\ ctx'.mustScan = FALSE
  BY NewContextType DEF StartBuild, NewContext, Range
<1>5. node' \in 1..(Len(s) + 1) /\ (phase' = "pull" => node' \in 2..Len(s)) /\ phase' \in {"pull", "build"}
  BY <1>1 DEF StartBuild
<1>6. builds' \in 0..MaxBuilds
  BY StageAssumption DEF StartBuild, Types
<1> QED BY <1>1, <1>2, <1>3, <1>4, <1>5, <1>6 DEF StartBuild, Types

LEMMA PullTypes == Types /\ Fresh /\ (PullCacheLayer \/ PullMisses) => Types'
<1> SUFFICES ASSUME Types, Fresh, PullCacheLayer \/ PullMisses PROVE Types'
  OBVIOUS
<1>1. Len(steps) \in Nat /\ Len(steps) > 0 /\ node \in 2..Len(steps)
  BY StageFacts DEF Types, PullCacheLayer, PullMisses
<1>2. node' \in 1..(Len(steps) + 1) /\ (phase' = "pull" => node' \in 2..Len(steps)) /\ phase' \in {"pull", "build"}
  BY <1>1 DEF PullCacheLayer, PullMisses, NextPull
<1>3. digestPairs' \in [1..Len(steps) -> Seq(Layer)]
  BY DEF Types, PullCacheLayer, PullMisses
<1>4. UNCHANGED <<cache, builds, planVars, ctx, diffIDs>>
  BY DEF PullCacheLayer, PullMisses
<1>5. ModifyFS' <=> ModifyFS
  BY <1>4 DEF planVars, ModifyFS
<1>6. Range(ctx'.copyOps) = {} /\ ctx'.copied = {}
  BY <1>4 DEF Fresh, PullCacheLayer, PullMisses, NewContext, Range
<1> QED BY <1>2, <1>3, <1>4, <1>5, <1>6 DEF Types, planVars

LEMMA EndTypes == Types /\ (BuildFails \/ FinishBuild) => Types'
<1> SUFFICES ASSUME Types, BuildFails \/ FinishBuild PROVE Types'
  OBVIOUS
<1>1. Len(steps) \in Nat /\ Len(steps) > 0 /\ DOMAIN steps = 1..Len(steps)
  BY StageFacts DEF Types
<1>2. node' \in 1..(Len(steps) + 1) /\ phase' \in {"built", "failed"}
  BY <1>1 DEF Types, BuildFails, FinishBuild
<1>3. <<>> \in Seq(Layer)
  OBVIOUS
<1>4. digestPairs' \in [1..Len(steps) -> Seq(Layer)]
  BY <1>1, <1>3 DEF Types, BuildFails, FinishBuild
<1>5. diffIDs' \in Seq(Layer)
  BY <1>3 DEF Types, BuildFails, FinishBuild
<1>6. ModifyFS' <=> ModifyFS
  BY DEF planVars, ModifyFS, BuildFails, FinishBuild
<1>7. /\ ctx' \in Context /\ (ctx'.mustScan => ModifyFS)
      /\ Range(ctx'.copyOps) \subseteq Copies(node)'
      /\ \A f \in ctx'.copied : \E s \in Copies(node)' : s.dst = f
  <2>1. CASE BuildFails
    BY <2>1, NewContextType DEF BuildFails, NewContext, Range
  <2>2. CASE FinishBuild
    BY <2>2 DEF FinishBuild, Types, planVars, Copies
  <2> QED BY <2>1, <2>2
<1>8. UNCHANGED <<cache, builds, planVars>>
  BY DEF BuildFails, FinishBuild
<1> QED BY <1>2, <1>4, <1>5, <1>6, <1>7, <1>8 DEF Types, planVars

LEMMA ASequence ==
    ASSUME NEW T, NEW n \in Nat, NEW s \in [1..n -> T]
    PROVE  s \in Seq(T) /\ Len(s) = n
OBVIOUS

LEMMA NodeLayers ==
    ASSUME Types, node <= Len(steps), NEW layers \in Seq(Layer),
           NEW pairs \in [1..Len(steps) -> Seq(Layer)], pairs[node] = layers,
           \A k \in 1..(node - 1) : pairs[k] = digestPairs[k]
    PROVE  /\ SubSeq(digestPairs, 1, node - 1) \in Seq(Seq(Layer))
           /\ SubSeq(pairs, 1, node) = Append(SubSeq(digestPairs, 1, node - 1), layers)
<1> DEFINE done == SubSeq(digestPairs, 1, node - 1)
           now  == SubSeq(pairs, 1, node)
           T    == Seq(Layer)
<1>1. Len(steps) \in Nat /\ node \in 1..Len(steps)
  BY NodeFacts
<1> HIDE DEF T
<1>2. pairs \in Seq(T) /\ Len(pairs) = Len(steps) /\ digestPairs \in Seq(T) /\ Len(digestPairs) = Len(steps)
  <2>1. pairs \in [1..Len(steps) -> T] /\ digestPairs \in [1..Len(steps) -> T]
    BY DEF Types, T
  <2> QED BY <1>1, <2>1, ASequence
<1>3. /\ done \in Seq(T) /\ Len(done) = node - 1 /\ \A k \in 1..(node - 1) : done[k] = digestPairs[k]
      /\ now \in Seq(T) /\ Len(now) = node /\ \A k \in 1..node : now[k] = pairs[k]
  BY <1>1, <1>2
<1> HIDE DEF done, now
<1>4. now = Append(done, layers)
  <2>1. layers \in T
    BY DEF T
  <2>2. Append(done, layers) \in Seq(T) /\ Len(Append(done, layers)) = node
        /\ \A k \in 1..node : Append(done, layers)[k] = now[k]
    BY <1>1, <1>3, <2>1
  <2> QED BY <1>3, <2>2
<1> QED BY <1>3, <1>4 DEF done, now, T

LEMMA ListedNode ==
    ASSUME Types, Listed, NEW layers \in Seq(Layer), EndNode(layers),
           digestPairs' \in [1..Len(steps) -> Seq(Layer)], digestPairs'[node] = layers,
           \A k \in 1..(node - 1) : digestPairs'[k] = digestPairs[k],
           ctx'.mem = ApplyLayers(ctx.mem, layers)
    PROVE  Listed'
<1>1. node <= Len(steps) /\ phase = "build" /\ phase' = "build" /\ node' - 1 = node
  BY DEF EndNode, Types
<1>2. /\ SubSeq(digestPairs, 1, node - 1) \in Seq(Seq(Layer))
      /\ SubSeq(digestPairs', 1, node) = Append(SubSeq(digestPairs, 1, node - 1), layers)
  BY <1>1, NodeLayers
<1>3. diffIDs' = diffIDs \o layers
  BY DEF EndNode, WithLayersOf
<1>4. diffIDs' = FlattenSeq(SubSeq(digestPairs', 1, node' - 1))
  BY <1>1, <1>2, <1>3, FlattenAppend DEF Listed
<1>5. ApplyLayers(EmptyFS, diffIDs') = ctx'.mem
  BY <1>1, <1>3, ApplyMore, EmptyType DEF Listed, Types
<1> QED BY <1>1, <1>4, <1>5 DEF Listed

LEMMA SkippedNode ==
    ASSUME Types, Listed, EndNode(<<>>), ~Cached, UNCHANGED digestPairs, ctx'.mem = ctx.mem
    PROVE  Listed'
<1>1. <<>> \in Seq(Layer) /\ digestPairs[node] = <<>> /\ ctx.mem \in FileSystem
  BY DEF Cached, Types, Context
<1>2. ctx'.mem = ApplyLayers(ctx.mem, <<>>)
  BY <1>1, ApplyNone
<1> QED BY <1>1, <1>2, ListedNode DEF Types

LEMMA CachedListed == Types /\ Listed /\ UseCachedNode => Listed'
<1> SUFFICES ASSUME Types, Listed, UseCachedNode PROVE Listed'
  OBVIOUS
<1>1. node <= Len(steps) /\ digestPairs[node] \in Seq(Layer)
  BY NodeFacts DEF UseCachedNode, EndNode
<1>2. ctx'.mem = ApplyLayers(ctx.mem, digestPairs[node])
  BY <1>1, CachedFacts, ModifyType DEF UseCachedNode, Types
<1> QED BY <1>1, <1>2, ListedNode DEF UseCachedNode, Types

(* A commit, in terms of what was executed: MemFS gets the new layers. *)
LEMMA CommitIs ==
    ASSUME Types, CommitNode,
           NEW executed, executed = Execute(ctx, steps[node], ModifyFS),
           NEW layers, layers = NewLayers(executed, steps[node])
    PROVE  /\ EndNode(layers) /\ node <= Len(steps)
           /\ ctx' = Committed(executed, steps[node])
           /\ digestPairs' = [digestPairs EXCEPT ![node] = layers]
           /\ cache' = Pushed(ID, layers)
           /\ layers \in Seq(Layer) /\ (node # 1 => Len(layers) <= 1)
           /\ ctx' \in Context
           /\ ctx'.mem = ApplyLayers(ctx.mem, layers)
<1>1. /\ EndNode(layers) /\ node <= Len(steps)
      /\ digestPairs' = [digestPairs EXCEPT ![node] = layers]
      /\ ctx' = Committed(executed, steps[node])
      /\ cache' = Pushed(ID, layers)
  BY DEF CommitNode, EndNode
<1>2. /\ executed \in Context
      /\ executed.mem = IF steps[node].kind = "FROM" THEN Effect(ctx.mem, steps[node]) ELSE ctx.mem
  BY <1>1, NodeFacts, ModifyType, ExecuteFacts DEF Types
<1>3. ctx' \in Context
  BY CommitTypes DEF Types
<1>4. CASE node = 1
  <2>1. steps[node].kind = "FROM" /\ steps[node] \in FromStep
    BY <1>1, <1>4, NodeFacts, StageFacts DEF Types
  <2>2. layers = steps[node].layers /\ ctx' = executed
    BY <1>1, <2>1 DEF NewLayers, Committed
  <2>3. Effect(ctx.mem, steps[node]) = ApplyLayers(ctx.mem, layers)
    BY <2>1, <2>2 DEF Effect
  <2> QED BY <1>1, <1>2, <1>3, <1>4, <2>1, <2>2, <2>3 DEF FromStep
<1>5. CASE node # 1
  <2>1. steps[node].kind # "FROM"
    BY <1>1, <1>5, NodeFacts
  <2>2. /\ layers \in Seq(Layer) /\ Len(layers) <= 1
        /\ ctx'.mem = ApplyLayers(executed.mem, layers)
    BY <1>1, <1>2, <2>1, CommitFacts
  <2>3. ctx'.mem = ApplyLayers(ctx.mem, layers)
    BY <1>2, <2>1, <2>2
  <2> QED BY <1>1, <1>3, <2>2, <2>3
<1> QED BY <1>4, <1>5

LEMMA CommitListed == Types /\ Listed /\ CommitNode => Listed'
<1> SUFFICES ASSUME Types, Listed, CommitNode PROVE Listed'
  OBVIOUS
<1> DEFINE executed == Execute(ctx, steps[node], ModifyFS)
           layers == NewLayers(executed, steps[node])
<1>1. /\ EndNode(layers) /\ node <= Len(steps) /\ layers \in Seq(Layer)
      /\ digestPairs' = [digestPairs EXCEPT ![node] = layers]
      /\ ctx'.mem = ApplyLayers(ctx.mem, layers)
  BY CommitIs
<1> HIDE DEF executed, layers
<1>2. node \in 1..Len(steps) /\ digestPairs \in [1..Len(steps) -> Seq(Layer)]
  BY <1>1, NodeFacts DEF Types
<1>3. /\ digestPairs' \in [1..Len(steps) -> Seq(Layer)] /\ digestPairs'[node] = layers
      /\ \A k \in 1..(node - 1) : digestPairs'[k] = digestPairs[k]
  BY <1>1, <1>2
<1> QED BY <1>1, <1>3, ListedNode

LEMMA ExecuteListed == Types /\ Listed /\ (ExecuteNode \/ SkipNode) => Listed'
<1> SUFFICES ASSUME Types, Listed, ExecuteNode \/ SkipNode PROVE Listed'
  OBVIOUS
<1>1. EndNode(<<>>) /\ ~Cached /\ UNCHANGED digestPairs /\ node <= Len(steps)
  BY DEF ExecuteNode, SkipNode, EndNode
<1>2. ctx'.mem = ctx.mem
  <2>1. CASE SkipNode
    BY <2>1 DEF SkipNode
  <2>2. CASE ExecuteNode
    <3>1. steps[node].kind # "FROM"
      BY <1>1, <2>2, NodeFacts DEF ExecuteNode, Commits, MustCommit
    <3> QED BY <1>1, <2>2, <3>1, NodeFacts, ModifyType, ExecuteFacts DEF ExecuteNode, Types
  <2> QED BY <2>1, <2>2
<1> QED BY <1>1, <1>2, SkippedNode

LEMMA FirstListed ==
    ASSUME node' = 1, diffIDs' = <<>>, ctx'.mem = EmptyFS, phase' # "built",
           digestPairs' \in [1..Len(steps') -> Seq(Layer)], Len(steps') \in Nat
    PROVE  Listed'
<1>1. SubSeq(digestPairs', 1, 0) = <<>>
  <2> DEFINE T == Seq(Layer)
  <2> HIDE DEF T
  <2>1. digestPairs' \in [1..Len(steps') -> T]
    BY DEF T
  <2>2. digestPairs' \in Seq(T)
    BY <2>1, ASequence
  <2> QED BY <2>2
<1>2. FlattenSeq(SubSeq(digestPairs', 1, node' - 1)) = <<>>
  <2>1. node' - 1 = 0
    OBVIOUS
  <2> QED BY <1>1, <2>1, FlattenNone
<1>3. ApplyLayers(EmptyFS, diffIDs') = ctx'.mem
  BY ApplyNone, EmptyType
<1> QED BY <1>2, <1>3 DEF Listed

LEMMA FreshListed ==
    ASSUME Types', Fresh', node' = 1 \/ phase' # "build", phase' # "built"
    PROVE  Listed'
<1>1. CASE phase' = "build"
  <2>1. ctx'.mem = EmptyFS /\ diffIDs' = <<>> /\ node' = 1
    BY <1>1 DEF Fresh, NewContext
  <2>2. digestPairs' \in [1..Len(steps') -> Seq(Layer)] /\ Len(steps') \in Nat
    BY StageFacts DEF Types
  <2> QED BY <2>1, <2>2, FirstListed
<1>2. CASE phase' # "build"
  BY <1>2 DEF Listed
<1> QED BY <1>1, <1>2

LEMMA FirstNode == Types => 1 \in 1..Len(steps) /\ 1 \in DOMAIN steps
BY StageFacts DEF Types

LEMMA TypesInvStep == TypesInv /\ [Next]_vars => TypesInv'
<1> SUFFICES ASSUME TypesInv, [Next]_vars PROVE TypesInv'
  OBVIOUS
<1> USE DEF TypesInv
<1>1. ASSUME NEW s \in Dockerfiles, NEW last \in BOOLEAN, StartBuild(s, last)
      PROVE  TypesInv'
  <2>1. Types'
    BY <1>1, StartTypes
  <2>2. 1 \in DOMAIN s
    BY StageFacts
  <2>3. Fresh' /\ node' \in {1, 2} /\ phase' \in {"pull", "build"} /\ (node' = 1 \/ phase' # "build")
    BY <1>1, <2>2 DEF StartBuild, Fresh
  <2> QED BY <2>1, <2>3, FreshListed
<1>2. CASE PullCacheLayer \/ PullMisses
  <2>1. Types'
    BY <1>2, PullTypes
  <2>2. phase = "pull" /\ node \in 2..Len(steps) /\ UNCHANGED <<ctx, diffIDs>>
    BY <1>2 DEF PullCacheLayer, PullMisses, Types
  <2>3. digestPairs'[1] = digestPairs[1]
    BY <1>2, <2>2, FirstNode DEF PullCacheLayer, PullMisses, Types
  <2>4. phase' # "built" /\ (node' = 1 \/ phase' # "build")
    BY <1>2 DEF PullCacheLayer, PullMisses, NextPull
  <2>5. Fresh'
    BY <2>2, <2>3 DEF Fresh
  <2> QED BY <2>1, <2>4, <2>5, FreshListed
<1>3. CASE UseCachedNode \/ SkipNode \/ ExecuteNode \/ CommitNode
  <2>1. phase' = "build" /\ node' # 1 /\ node' \in Nat
    BY <1>3 DEF UseCachedNode, SkipNode, ExecuteNode, CommitNode, EndNode, Types
  <2>2. Fresh'
    BY <2>1 DEF Fresh
  <2> QED BY <1>3, <2>2, CachedTypes, SkipTypes, ExecuteNodeTypes, CommitTypes,
             CachedListed, ExecuteListed, CommitListed
<1>4. CASE BuildFails
  <2>1. Types' /\ phase' = "failed"
    BY <1>4, EndTypes DEF BuildFails
  <2> QED BY <2>1 DEF Fresh, Listed
<1>5. CASE FinishBuild
  <2>1. Types' /\ phase' = "built"
    BY <1>5, EndTypes DEF FinishBuild
  <2>2. phase = "build" /\ node - 1 = Len(steps) /\ image' = FlattenSeq(digestPairs) /\ diffIDs' = diffIDs
    BY <1>5, StageFacts DEF FinishBuild, Types
  <2>3. SubSeq(digestPairs, 1, Len(steps)) = digestPairs
    <3> DEFINE T == Seq(Layer)
    <3> HIDE DEF T
    <3>1. digestPairs \in [1..Len(steps) -> T] /\ Len(steps) \in Nat
      BY StageFacts DEF Types, T
    <3>2. digestPairs \in Seq(T) /\ Len(digestPairs) = Len(steps)
      BY <3>1, ASequence
    <3> QED BY <3>1, <3>2
  <2> QED BY <2>1, <2>2, <2>3 DEF Fresh, Listed
<1>6. CASE UNCHANGED vars
  BY <1>6 DEF vars, planVars, Types, Fresh, Listed, ModifyFS, Copies
<1> QED BY <1>1, <1>2, <1>3, <1>4, <1>5, <1>6 DEF Next

LEMMA TypesInvInit == Init => TypesInv
<1>1. Init => Fresh /\ Listed
  BY DEF Init, Fresh, Listed
<1> QED BY <1>1, TypesInit DEF TypesInv

(* In every state the config lists the layers of the nodes that are done,  *)
(* and MemFS is their union, whatever is annotated (build_stage.go build). *)
THEOREM TypesInvariance == Spec => []TypesInv
BY TypesInvInit, TypesInvStep, PTL DEF Spec

(* All variables keep their types, and only a stage that is on disk has    *)
(* changes to scan for: build_node.go Build.                               *)
THEOREM TypeCorrect == Spec => []TypeOK
<1>1. TypesInv => TypeOK
  <2> SUFFICES ASSUME TypesInv PROVE TypeOK
    OBVIOUS
  <2>1. \A n \in DOMAIN steps : Range(digestPairs[n]) \subseteq Layer
    <3>1. \A q \in Seq(Layer) : Range(q) \subseteq Layer
      BY DEF Range
    <3> QED BY <3>1, StageFacts DEF TypesInv, Types
  <2>2. DOMAIN digestPairs = DOMAIN steps
    BY StageFacts DEF TypesInv, Types
  <2>3. Range(ctx.copyOps) \subseteq Range(steps)
    <3>1. \A k \in 1..(node - 1) : k \in DOMAIN steps
      BY StageFacts DEF TypesInv, Types
    <3>2. Copies(node) \subseteq Range(steps)
      BY <3>1 DEF Copies, Range
    <3> QED BY <3>2 DEF TypesInv, Types
  <2> QED BY <2>1, <2>2, <2>3 DEF TypesInv, Types, TypeOK, Context
<1> QED BY <1>1, TypesInvariance, PTL

(* The config of an image lists the layers of its manifest, in order:      *)
(* build_stage.go build collects the one as nodes end, and                 *)
(* GetDistributionManifest the other from the nodes.                       *)
THEOREM ConfigsMatchManifests == Spec => []ConfigMatchesManifest
<1>1. TypesInv => ConfigMatchesManifest
  BY DEF TypesInv, Listed, ConfigMatchesManifest
<1> QED BY <1>1, TypesInvariance, PTL

-----------------------------------------------------------------------------
(* Commits, and what there is to commit.                                   *)

LEMMA PendingNext ==
    ASSUME NEW s, NEW force, NEW n \in Nat, n >= 2
    PROVE  Pending(s, n + 1, force) <=> ~Committing(s, n, force) /\ HasContent(s, n, force)
<1>1. ASSUME Pending(s, n + 1, force)
      PROVE  ~Committing(s, n, force) /\ HasContent(s, n, force)
  <2>1. PICK k \in 2..n : Changes(s, k) /\ \A j \in k..n : ~Committing(s, j, force)
    BY <1>1 DEF Pending
  <2>2. ~Committing(s, n, force)
    BY <2>1
  <2>3. CASE k = n
    BY <2>1, <2>2, <2>3 DEF HasContent
  <2>4. CASE k # n
    <3>1. k \in 2..(n - 1) /\ \A j \in k..(n - 1) : j \in k..n
      BY <2>4
    <3>2. Pending(s, n, force)
      BY <2>1, <3>1 DEF Pending
    <3> QED BY <2>2, <3>2 DEF HasContent
  <2> QED BY <2>3, <2>4
<1>2. ASSUME ~Committing(s, n, force), HasContent(s, n, force)
      PROVE  Pending(s, n + 1, force)
  <2>1. (n + 1) - 1 = n
    OBVIOUS
  <2>2. CASE Changes(s, n)
    <3>1. n \in 2..n /\ \A j \in n..n : j = n
      OBVIOUS
    <3> QED BY <1>2, <2>1, <2>2, <3>1 DEF Pending
  <2>3. CASE Pending(s, n, force)
    <3>1. PICK k \in 2..(n - 1) : Changes(s, k) /\ \A j \in k..(n - 1) : ~Committing(s, j, force)
      BY <2>3 DEF Pending
    <3>2. k \in 2..n /\ \A j \in k..n : j = n \/ j \in k..(n - 1)
      OBVIOUS
    <3> QED BY <1>2, <2>1, <3>1, <3>2 DEF Pending
  <2> QED BY <1>2, <2>2, <2>3 DEF HasContent
<1> QED BY <1>1, <1>2

LEMMA LastCommitNext ==
    ASSUME NEW s, NEW force, NEW n \in Nat, NEW m \in 1..n
    PROVE  LastCommit(s, m, n + 1, force) <=>
              IF Committing(s, n, force) THEN m = n ELSE m < n /\ LastCommit(s, m, n, force)
<1>1. (n + 1) - 1 = n
  OBVIOUS
<1>2. CASE m = n
  <2>1. \A j \in (m + 1)..n : FALSE
    BY <1>2
  <2> QED BY <1>1, <1>2, <2>1 DEF LastCommit
<1>3. CASE m < n
  <2>1. n \in (m + 1)..n /\ \A j \in (m + 1)..n : j = n \/ j \in (m + 1)..(n - 1)
    BY <1>3
  <2>2. \A j \in (m + 1)..(n - 1) : j \in (m + 1)..n
    OBVIOUS
  <2> QED BY <1>1, <1>3, <2>1, <2>2 DEF LastCommit
<1> QED BY <1>2, <1>3

LEMMA ContentfulNext ==
    ASSUME NEW s, NEW force \in BOOLEAN, NEW n \in Nat, n >= 2
    PROVE  Contentful(s, n, force) <=>
              /\ Contentful(s, n - 1, force)
              /\ force \/ (s[n].commit => HasContent(s, n, force))
<1>1. n \in 2..n /\ \A m \in 2..n : m = n \/ m \in 2..(n - 1)
  OBVIOUS
<1>2. \A m \in 2..(n - 1) : m \in 2..n
  OBVIOUS
<1> QED BY <1>1, <1>2 DEF Contentful

LEMMA ContentfulBefore ==
    ASSUME NEW s, NEW force \in BOOLEAN, NEW n \in Nat, NEW m \in Nat, m <= n, Contentful(s, n, force)
    PROVE  Contentful(s, m, force)
<1>1. \A k \in 2..m : k \in 2..n
  OBVIOUS
<1> QED BY <1>1 DEF Contentful

(* The chain has content as long as its commits have. *)
LEMMA ContentfulChain ==
    ASSUME NEW s, NEW force \in BOOLEAN, NEW n \in Nat, n >= 2, Contentful(s, n - 1, force),
           NEW g \in Nat, g >= n - 1,
           \A k \in n..g : s[k].commit /\ Contentful(s, k - 1, force) => HasContent(s, k, force)
    PROVE  Contentful(s, g, force)
<1> DEFINE S == {k \in Nat : k >= n - 1 /\ k <= g => Contentful(s, k, force)}
<1>1. 0 \in S
  OBVIOUS
<1>2. ASSUME NEW k \in Nat, k \in S
      PROVE  k + 1 \in S
  <2> SUFFICES ASSUME k + 1 >= n - 1, k + 1 <= g PROVE Contentful(s, k + 1, force)
    OBVIOUS
  <2>1. CASE k + 1 = n - 1
    BY <2>1
  <2>2. CASE k + 1 # n - 1
    <3>1. k + 1 \in n..g /\ (k + 1) - 1 = k /\ k + 1 >= 2 /\ k >= n - 1 /\ k <= g
      BY <2>2
    <3>2. Contentful(s, k, force)
      BY <1>2, <3>1
    <3>3. s[k + 1].commit => HasContent(s, k + 1, force)
      BY <3>1, <3>2
    <3> QED BY <3>1, <3>2, <3>3, ContentfulNext
  <2> QED BY <2>1, <2>2
<1> HIDE DEF S
<1>3. g \in S
  BY <1>1, <1>2, Induction
<1> QED BY <1>3 DEF S

LEMMA DescribedSame ==
    ASSUME NEW s \in Dockerfiles, NEW n \in 2..Len(s), ~Changes(s, n)
    PROVE  Described(s, n) = Described(s, n - 1)
<1>1. s \in Seq(Step) /\ n \in 1..Len(s) /\ s[n].kind # "FROM"
  BY StageFacts
<1>2. Described(s, n) = Effect(Described(s, n - 1), s[n])
  BY <1>1, DescribedSteps
<1> QED BY <1>1, <1>2 DEF Effect, Changes

(* With nothing to commit, the files are those of the last commit. *)
LEMMA NothingPending ==
    ASSUME NEW s \in Dockerfiles, NEW force, NEW n \in 2..(Len(s) + 1),
           NEW m \in 1..(n - 1), LastCommit(s, m, n, force), ~Pending(s, n, force)
    PROVE  Described(s, n - 1) = Described(s, m)
<1>1. Len(s) \in Nat
  BY StageFacts
<1>2. ASSUME NEW k \in (m + 1)..(n - 1)
      PROVE  Described(s, k) = Described(s, k - 1)
  <2>1. k \in 2..(n - 1) /\ k \in 2..Len(s) /\ \A j \in k..(n - 1) : j \in (m + 1)..(n - 1)
    BY <1>1
  <2>2. ~Changes(s, k)
    BY <2>1 DEF LastCommit, Pending
  <2> QED BY <2>1, <2>2, DescribedSame
<1> DEFINE S == {k \in Nat : k \in m..(n - 1) => Described(s, k) = Described(s, m)}
<1>3. 0 \in S
  OBVIOUS
<1>4. ASSUME NEW k \in Nat, k \in S
      PROVE  k + 1 \in S
  <2> SUFFICES ASSUME k + 1 \in m..(n - 1) PROVE Described(s, k + 1) = Described(s, m)
    OBVIOUS
  <2>1. CASE k + 1 = m
    BY <2>1
  <2>2. CASE k + 1 # m
    <3>1. k + 1 \in (m + 1)..(n - 1) /\ (k + 1) - 1 = k /\ k \in m..(n - 1)
      BY <2>2
    <3> QED BY <1>2, <1>4, <3>1
  <2> QED BY <2>1, <2>2
<1> HIDE DEF S
<1>5. n - 1 \in Nat /\ n - 1 \in m..(n - 1)
  BY <1>1
<1>6. n - 1 \in S
  BY <1>3, <1>4, <1>5, Induction
<1> QED BY <1>5, <1>6 DEF S

-----------------------------------------------------------------------------
(* Layers ahead, and nodes that are skipped.                               *)

LEMMA SkippedFacts ==
    ASSUME Types
    PROVE  Skipped <=> /\ 1 < node
                       /\ \E g \in 2..Len(steps) : /\ g > node /\ steps[g].commit
                             /\ \A k \in 2..g : steps[k].commit => digestPairs[k] # <<>>
<1> DEFINE T == {n \in 2..Len(steps) : /\ steps[n].commit
                                       /\ \A k \in 2..n : steps[k].commit => digestPairs[k] # <<>>}
           L == Max({0} \cup T)
<1>1. Len(steps) \in Nat /\ node \in Nat
  BY StageFacts DEF Types
<1>2. {0} \cup T \in SUBSET (0..Len(steps)) /\ {0} \cup T # {}
  BY <1>1
<1>3. L \in {0} \cup T /\ \A y \in {0} \cup T : L >= y
  BY <1>1, <1>2, MaxFromZero
<1>4. Skipped <=> 1 < node /\ node < L
  BY DEF Skipped, LatestFetched
<1> HIDE DEF L
<1>5. ASSUME 1 < node, node < L
      PROVE  \E g \in T : g > node
  <2>1. L \in T /\ L > node
    BY <1>1, <1>2, <1>3, <1>5
  <2> QED BY <2>1
<1>6. ASSUME NEW g \in T, g > node
      PROVE  node < L
  <2>1. L >= g /\ g \in Nat /\ L \in Nat
    BY <1>1, <1>2, <1>3
  <2> QED BY <1>1, <1>6, <2>1
<1> QED BY <1>4, <1>5, <1>6

LEMMA EmptyWhenAhead ==
    ASSUME Types, Chain, phase = "build", node \in 2..Len(steps), ~Cached,
           Committing(steps, node, forceCommit), Contentful(steps, node - 1, forceCommit),
           NEW k \in 2..Len(steps), k > node, digestPairs[k] # <<>>
    PROVE  ~HasContent(steps, node, forceCommit)
BY DEF Chain, Cached, Types

LEMMA NoLayerAhead ==
    ASSUME Types, FetchedIsRight, Chain, phase = "build", node \in 2..Len(steps),
           ~Cached, ~Skipped, ~forceCommit
    PROVE  ~Ahead
<1> SUFFICES ASSUME NEW k \in 2..Len(steps), k >= node, digestPairs[k] # <<>>,
                    Contentful(steps, k, forceCommit)
             PROVE  FALSE
  BY DEF Ahead
<1>1. Len(steps) \in Nat /\ k > node /\ node \in Nat
  BY StageFacts DEF Types, Cached
<1>2. Committing(steps, k, forceCommit)
  BY DEF FetchedIsRight
<1>3. steps[k].commit
  BY <1>1, <1>2 DEF Committing
<1>4. PICK j \in 2..k : steps[j].commit /\ digestPairs[j] = <<>>
  BY <1>1, <1>3, SkippedFacts
<1>5. j \in 2..Len(steps) /\ j < k /\ j \in Nat /\ k \in Nat
  BY <1>1, <1>4
<1>6. Contentful(steps, j - 1, forceCommit) /\ HasContent(steps, j, forceCommit)
  <2>1. Contentful(steps, j, forceCommit)
    BY <1>5, ContentfulBefore DEF Types
  <2> QED BY <1>4, <1>5, <2>1, ContentfulNext DEF Types
<1>7. Committing(steps, j, forceCommit)
  BY <1>4 DEF Committing
<1> QED BY <1>1, <1>4, <1>5, <1>6, <1>7 DEF Chain

LEMMA SkippedIsAhead ==
    ASSUME Types, FetchedIsRight, phase = "build", node \in 2..Len(steps),
           Skipped, Contentful(steps, node - 1, forceCommit)
    PROVE  \E k \in 2..Len(steps) : /\ k > node /\ digestPairs[k] # <<>>
                                    /\ Contentful(steps, k, forceCommit)
<1>1. PICK g \in 2..Len(steps) : /\ g > node /\ steps[g].commit
                                 /\ \A k \in 2..g : steps[k].commit => digestPairs[k] # <<>>
  BY SkippedFacts
<1>2. Len(steps) \in Nat /\ node \in Nat /\ g \in Nat
  BY StageFacts DEF Types
<1>3. digestPairs[g] # <<>>
  BY <1>1, <1>2
<1>4. ASSUME NEW k \in node..g, steps[k].commit, Contentful(steps, k - 1, forceCommit)
      PROVE  HasContent(steps, k, forceCommit)
  <2>1. k \in 2..g /\ k \in 2..Len(steps) /\ k >= node
    BY <1>2
  <2>2. digestPairs[k] # <<>>
    BY <1>1, <1>4, <2>1
  <2>3. LayersOf(steps, k, forceCommit, digestPairs[k])
    BY <2>1, <2>2 DEF FetchedIsRight
  <2> QED BY <1>4, <2>2, <2>3 DEF LayersOf
<1>5. Contentful(steps, g, forceCommit)
  <2>1. node >= 2 /\ g >= node - 1 /\ forceCommit \in BOOLEAN
    BY <1>1, <1>2 DEF Types
  <2> HIDE DEF Types
  <2> QED BY <1>2, <1>4, <2>1, ContentfulChain
<1> QED BY <1>1, <1>3, <1>5

LEMMA ChainNode ==
    ASSUME Types, Chain, NEW layers, EndNode(layers),
           \A k \in 2..Len(steps) : k # node => digestPairs'[k] = digestPairs[k],
           /\ node >= 2 /\ digestPairs'[node] = <<>>
           /\ Committing(steps, node, forceCommit) /\ Contentful(steps, node - 1, forceCommit)
           => ~HasContent(steps, node, forceCommit)
    PROVE  Chain'
<1>1. /\ steps' = steps /\ forceCommit' = forceCommit /\ phase = "build" /\ node' = node + 1
      /\ node \in Nat /\ Len(steps) \in Nat
  BY StageFacts DEF EndNode, planVars, Types
<1>2. SUFFICES ASSUME NEW j \in 2..Len(steps), NEW k \in 2..Len(steps),
                      Committing(steps, j, forceCommit), Contentful(steps, j - 1, forceCommit),
                      digestPairs'[j] = <<>>,
                      j < node + 1 \/ (j < k /\ node + 1 <= k /\ digestPairs'[k] # <<>>)
               PROVE  ~HasContent(steps, j, forceCommit)
  BY <1>1 DEF Chain
<1>3. CASE j = node
  BY <1>1, <1>2, <1>3
<1>4. CASE j # node
  <2>1. digestPairs[j] = <<>>
    BY <1>2, <1>4
  <2>2. j < node \/ (j < k /\ node <= k /\ digestPairs[k] # <<>>)
    BY <1>1, <1>2, <1>4
  <2> QED BY <1>1, <1>2, <2>1, <2>2 DEF Chain
<1> QED BY <1>3, <1>4

LEMMA FetchedNode ==
    ASSUME Types, FetchedIsRight, NEW layers, EndNode(layers),
           \A k \in 2..Len(steps) : k # node => digestPairs'[k] = digestPairs[k]
    PROVE  FetchedIsRight'
<1>1. /\ steps' = steps /\ forceCommit' = forceCommit /\ phase = "build" /\ phase' = "build"
      /\ node' = node + 1 /\ node \in Nat /\ Len(steps) \in Nat
  BY StageFacts DEF EndNode, planVars, Types
<1>2. \A k \in 2..Len(steps) : k >= node + 1 => k # node /\ k >= node
  BY <1>1
<1> QED BY <1>1, <1>2 DEF FetchedIsRight

(* Everything has the files of the node that ends. *)
LEMMA SettledContext ==
    ASSUME Types, NEW layers, EndNode(layers),
           Committing(steps, node, forceCommit) \/ node = Len(steps),
           NoPending(ctx'),
           Stays(steps, node) => /\ ctx'.mem = Described(steps, node)
                                 /\ ModifyFS => ctx'.disk = Described(steps, node)
    PROVE  ContextIsRight'
<1>1. /\ steps' = steps /\ forceCommit' = forceCommit /\ (ModifyFS' <=> ModifyFS)
      /\ node' = node + 1 /\ node' - 1 = node
      /\ node \in Nat /\ Len(steps) \in Nat /\ node \in 1..Len(steps)
  BY StageFacts DEF EndNode, planVars, Types, ModifyFS
<1>2. Described(steps, node) \in FileSystem
  <2>1. steps \in Seq(Step) /\ node \in 0..Len(steps)
    BY <1>1, StageFacts DEF Types
  <2> QED BY <2>1, DescribedType
<1>3. Stays(steps, node) => WithCopies(ctx'.mem, ctx'.copyOps) = Described(steps, node)
  BY <1>2, NoCopies DEF NoPending
<1>4. CASE Committing(steps, node, forceCommit)
  <2>1. \A m \in 1..node : LastCommit(steps, m, node + 1, forceCommit) => m = node
    BY <1>1, <1>4, LastCommitNext
  <2>2. ~Pending(steps, node + 1, forceCommit)
    <3>1. CASE node >= 2
      BY <1>1, <1>4, <3>1, PendingNext
    <3>2. CASE node = 1
      BY <3>2 DEF Pending
    <3> QED BY <1>1, <3>1, <3>2
  <2>3. WaitingContext'
    BY <1>1, <2>1 DEF WaitingContext
  <2>4. RunningContext'
    BY <1>1, <1>3, <2>1, <2>2 DEF RunningContext, RunningFiles
  <2> QED BY <2>3, <2>4 DEF ContextIsRight
<1>5. CASE node = Len(steps)
  <2>1. ~Ahead'
    BY <1>1, <1>5 DEF Ahead
  <2>2. RunningContext'
    BY <1>1, <1>3, <1>5 DEF RunningContext, RunningFiles
  <2> QED BY <2>1, <2>2 DEF ContextIsRight
<1> QED BY <1>4, <1>5

(* A layer is still ahead of a node that had nothing to commit. *)
LEMMA StillWaiting ==
    ASSUME Types, NEW layers, EndNode(layers), node >= 2,
           WaitingContext, UNCHANGED ctx, Ahead',
           Committing(steps, node, forceCommit) => ~HasContent(steps, node, forceCommit)
    PROVE  ContextIsRight'
<1>1. /\ steps' = steps /\ forceCommit' = forceCommit /\ (ModifyFS' <=> ModifyFS)
      /\ node' = node + 1 /\ node' - 1 = node
      /\ node \in Nat /\ Len(steps) \in Nat /\ node \in 2..Len(steps) /\ steps \in Dockerfiles
  BY StageFacts DEF EndNode, planVars, Types, ModifyFS
<1>2. PICK m \in 1..(node - 1) : LastCommit(steps, m, node, forceCommit)
  <2>1. node > 1
    BY <1>1
  <2> QED BY <1>1, <2>1, LastCommitExists
<1>3. NoPending(ctx)
  BY DEF WaitingContext
<1>4. ASSUME Stays(steps, node), NEW l \in 1..node, LastCommit(steps, l, node + 1, forceCommit)
      PROVE  ctx.mem = Described(steps, l) /\ (ModifyFS => ctx.disk = Described(steps, l))
  <2> Stays(steps, node - 1)
    <3>1. node - 1 \in Nat /\ node - 1 <= node
      BY <1>1
    <3> QED BY <1>1, <1>4, <3>1, StaysBefore
  <2>1. CASE Committing(steps, node, forceCommit)
    <3>1. l = node
      BY <1>1, <1>4, <2>1, LastCommitNext
    <3>2. ~Changes(steps, node) /\ ~Pending(steps, node, forceCommit)
      BY <2>1 DEF HasContent
    <3>3. Described(steps, node) = Described(steps, node - 1)
      BY <1>1, <3>2, DescribedSame
    <3>4. Described(steps, node - 1) = Described(steps, m)
      <4>1. node \in 2..(Len(steps) + 1)
        BY <1>1
      <4> QED BY <1>1, <1>2, <3>2, <4>1, NothingPending
    <3>5. ctx.mem = Described(steps, m) /\ (ModifyFS => ctx.disk = Described(steps, m))
      BY <1>2 DEF WaitingContext
    <3> QED BY <3>1, <3>3, <3>4, <3>5
  <2>2. CASE ~Committing(steps, node, forceCommit)
    <3>1. l \in 1..(node - 1) /\ LastCommit(steps, l, node, forceCommit)
      BY <1>1, <1>4, <2>2, LastCommitNext
    <3> QED BY <3>1 DEF WaitingContext
  <2> QED BY <2>1, <2>2
<1>5. WaitingContext'
  BY <1>1, <1>3, <1>4 DEF WaitingContext
<1> QED BY <1>5 DEF ContextIsRight

-----------------------------------------------------------------------------
(* The nodes preserve the invariant.                                       *)

LEMMA CacheSame ==
    ASSUME CacheIsRight, UNCHANGED <<cache, forceCommit>>
    PROVE  CacheIsRight'
BY DEF CacheIsRight

LEMMA NodeBounds ==
    ASSUME Types, NEW layers, EndNode(layers)
    PROVE  /\ steps \in Dockerfiles /\ steps' = steps /\ forceCommit' = forceCommit
           /\ forceCommit \in BOOLEAN /\ phase = "build"
           /\ Len(steps) \in Nat /\ node \in 1..Len(steps) /\ node \in Nat
           /\ node' = node + 1 /\ node' - 1 = node
           /\ node # 1 => node \in 2..Len(steps) /\ node >= 2 /\ node > 1
BY StageFacts DEF EndNode, planVars, Types

(* A context matters only while the commits have content. *)
LEMMA ContentlessContext ==
    ASSUME Types, NEW layers, EndNode(layers), ~Contentful(steps, node, forceCommit)
    PROVE  ContextIsRight'
BY NodeBounds DEF ContextIsRight

LEMMA UseCachedRight == TypesInv /\ StageInv /\ UseCachedNode => StageInv'
<1> SUFFICES ASSUME TypesInv, StageInv, UseCachedNode PROVE StageInv'
  OBVIOUS
<1> DEFINE layers == digestPairs[node]
<1>1. EndNode(layers) /\ layers # <<>> /\ UNCHANGED <<cache, digestPairs>> /\ Types
  BY DEF UseCachedNode, Cached, TypesInv
<1> HIDE DEF layers
<1>2. /\ steps \in Dockerfiles /\ steps' = steps /\ forceCommit' = forceCommit
      /\ forceCommit \in BOOLEAN /\ phase = "build"
      /\ Len(steps) \in Nat /\ node \in Nat /\ node' = node + 1
      /\ node # 1 => node \in 2..Len(steps) /\ node >= 2 /\ node > 1
  BY <1>1, NodeBounds
<1>3. node # 1
  BY <1>1, <1>2 DEF TypesInv, Fresh, layers
<1>4. CacheIsRight' /\ FetchedIsRight'
  BY <1>1, <1>2, CacheSame, FetchedNode DEF StageInv
<1>5. Chain'
  BY <1>1, <1>2, ChainNode DEF StageInv, layers
<1>6. ContextIsRight'
  <2>1. CASE ~Contentful(steps, node, forceCommit)
    BY <1>1, <2>1, ContentlessContext
  <2>2. CASE Contentful(steps, node, forceCommit)
    <3>1. Contentful(steps, node - 1, forceCommit) /\ Ahead
      BY <1>1, <1>2, <1>3, <2>2, ContentfulNext DEF Ahead, layers
    <3>2. WaitingContext
      BY <1>2, <1>3, <3>1 DEF StageInv, ContextIsRight
    <3>3. Committing(steps, node, forceCommit) /\ LayersOf(steps, node, forceCommit, layers)
      BY <1>1, <1>2, <1>3 DEF StageInv, FetchedIsRight, layers
    <3>4. PICK m \in 1..(node - 1) : LastCommit(steps, m, node, forceCommit)
      BY <1>2, <1>3, LastCommitExists
    <3>5. Stays(steps, node) => ApplyLayers(Described(steps, m), layers) = Described(steps, node)
      BY <3>1, <3>3, <3>4 DEF LayersOf
    <3>6. /\ NoPending(ctx)
          /\ Stays(steps, node) => /\ ctx.mem = Described(steps, m)
                                   /\ ModifyFS => ctx.disk = Described(steps, m)
      <4>1. Stays(steps, node) => Stays(steps, node - 1)
        <5>1. node - 1 \in Nat /\ node - 1 <= node
          BY <1>2, <1>3
        <5> QED BY <1>2, <5>1, StaysBefore
      <4> QED BY <3>2, <3>4, <4>1 DEF WaitingContext
    <3>7. ctx' = ApplyCached(ctx, layers, ModifyFS) /\ ctx \in Context /\ layers \in Seq(Layer)
          /\ ModifyFS \in BOOLEAN
      BY <1>1, <1>2, <1>3, ModifyType DEF UseCachedNode, Types, layers
    <3>8. /\ ctx'.mem = ApplyLayers(ctx.mem, layers)
          /\ ctx'.disk = IF ModifyFS THEN ApplyLayers(ctx.disk, layers) ELSE ctx.disk
          /\ ctx'.copyOps = ctx.copyOps /\ ctx'.mustScan = ctx.mustScan
      BY <3>7, CachedFacts
    <3> QED BY <1>1, <3>3, <3>5, <3>6, <3>8, SettledContext DEF NoPending
  <2> QED BY <2>1, <2>2
<1> QED BY <1>4, <1>5, <1>6 DEF StageInv

LEMMA SkipRight == TypesInv /\ StageInv /\ SkipNode => StageInv'
<1> SUFFICES ASSUME TypesInv, StageInv, SkipNode PROVE StageInv'
  OBVIOUS
<1>1. EndNode(<<>>) /\ ~Cached /\ Skipped /\ UNCHANGED <<cache, digestPairs, ctx>> /\ Types
  BY DEF SkipNode, TypesInv
<1>2. /\ steps \in Dockerfiles /\ steps' = steps /\ forceCommit' = forceCommit
      /\ forceCommit \in BOOLEAN /\ phase = "build"
      /\ Len(steps) \in Nat /\ node \in Nat /\ node' = node + 1
      /\ node # 1 => node \in 2..Len(steps) /\ node >= 2 /\ node > 1
  BY <1>1, NodeBounds
<1>3. node # 1
  BY <1>1 DEF Skipped
<1>4. CacheIsRight' /\ FetchedIsRight'
  BY <1>1, <1>2, CacheSame, FetchedNode DEF StageInv
<1>5. ASSUME Committing(steps, node, forceCommit), Contentful(steps, node - 1, forceCommit)
      PROVE  ~HasContent(steps, node, forceCommit)
  <2>1. PICK k \in 2..Len(steps) : k > node /\ digestPairs[k] # <<>>
    BY <1>1, <1>2, <1>3, <1>5, SkippedIsAhead DEF StageInv
  <2> QED BY <1>1, <1>2, <1>3, <1>5, <2>1, EmptyWhenAhead DEF StageInv
<1>6. Chain'
  BY <1>1, <1>2, <1>5, ChainNode DEF StageInv
<1>7. ContextIsRight'
  <2>1. CASE ~Contentful(steps, node, forceCommit)
    BY <1>1, <2>1, ContentlessContext
  <2>2. CASE Contentful(steps, node, forceCommit)
    <3>1. Contentful(steps, node - 1, forceCommit)
      BY <1>2, <1>3, <2>2, ContentfulNext
    <3>2. PICK k \in 2..Len(steps) : /\ k > node /\ digestPairs[k] # <<>>
                                     /\ Contentful(steps, k, forceCommit)
      BY <1>1, <1>2, <1>3, <3>1, SkippedIsAhead DEF StageInv
    <3>3. Ahead /\ Ahead'
      <4>1. k >= node /\ k >= node + 1
        BY <1>2, <3>2
      <4> QED BY <1>1, <1>2, <3>2, <4>1 DEF Ahead
    <3>4. WaitingContext
      BY <1>2, <1>3, <3>1, <3>3 DEF StageInv, ContextIsRight
    <3> QED BY <1>1, <1>2, <1>3, <1>5, <3>1, <3>3, <3>4, StillWaiting
  <2> QED BY <2>1, <2>2
<1> QED BY <1>4, <1>6, <1>7 DEF StageInv

LEMMA NotEmpty ==
    ASSUME NEW T, NEW seq \in Seq(T), NEW x \in T
    PROVE  Append(seq, x) # <<>>
<1>1. Len(Append(seq, x)) = Len(seq) + 1 /\ Len(seq) \in Nat
  OBVIOUS
<1>2. Len(<<>>) = 0
  OBVIOUS
<1> QED BY <1>1, <1>2

(* What a step does to a context that has everything before it. *)
LEMMA ExecutedContext ==
    ASSUME Types, RunningContext, node \in 2..Len(steps),
           NEW c, c = Execute(ctx, steps[node], ModifyFS)
    PROVE  /\ c.mem = ctx.mem /\ c.copied = ctx.copied
           /\ ~NoPending(c) <=> HasContent(steps, node, forceCommit)
           /\ Stays(steps, node - 1) =>
                 /\ ModifyFS => c.disk = Described(steps, node)
                 /\ ~c.mustScan => WithCopies(c.mem, c.copyOps) = Described(steps, node)
<1> DEFINE s == steps[node]
<1>1. /\ Len(steps) \in Nat /\ node \in 1..Len(steps) /\ node <= Len(steps) /\ s \in Step /\ s.kind # "FROM"
      /\ steps \in Seq(Step)
  BY StageFacts DEF Types
<1>2. /\ ctx \in Context /\ ctx.mem \in FileSystem /\ ctx.copyOps \in Seq(CopyStep) /\ ctx.mustScan \in BOOLEAN
  BY DEF Types, Context
<1>3. /\ c.mem = ctx.mem /\ c.copied = ctx.copied
      /\ c.disk = IF ModifyFS THEN Effect(ctx.disk, s) ELSE ctx.disk
      /\ c.copyOps = IF s.kind = "COPY" THEN Append(ctx.copyOps, s) ELSE ctx.copyOps
      /\ c.mustScan = IF s.kind = "RUN" THEN TRUE ELSE ctx.mustScan
  BY <1>1, <1>2, ModifyType, ExecuteFacts
<1>4. Described(steps, node) = Effect(Described(steps, node - 1), s)
  BY <1>1, DescribedSteps
<1>5. ~NoPending(ctx) <=> Pending(steps, node, forceCommit)
  BY <1>1 DEF RunningContext
<1> DEFINE stays == Stays(steps, node - 1)
<1>6. stays => RunningFiles
  BY DEF RunningContext
<1> HIDE DEF stays
<1>7. stays /\ ModifyFS => c.disk = Described(steps, node)
  BY <1>3, <1>4, <1>6 DEF RunningFiles
<1>8. CASE s.kind = "COPY"
  <2>1. s \in CopyStep
    BY <1>1, <1>8 DEF Step, FromStep, RunStep, EnvStep
  <2>2. c.copyOps = Append(ctx.copyOps, s) /\ c.mustScan = ctx.mustScan
    BY <1>3, <1>8
  <2>3. WithCopies(c.mem, c.copyOps) = Effect(WithCopies(ctx.mem, ctx.copyOps), s)
    BY <1>2, <1>3, <2>1, <2>2, OneMoreCopy
  <2>4. stays /\ ~c.mustScan => WithCopies(c.mem, c.copyOps) = Described(steps, node)
    BY <1>4, <1>6, <2>2, <2>3 DEF RunningFiles
  <2>5. ~NoPending(c) /\ HasContent(steps, node, forceCommit)
    <3>1. Append(ctx.copyOps, s) # <<>>
      BY <1>2, <2>1, NotEmpty
    <3> QED BY <1>8, <2>2, <3>1 DEF NoPending, HasContent, Changes
  <2> QED BY <1>3, <1>7, <2>4, <2>5 DEF stays
<1>9. CASE s.kind = "RUN"
  <2>1. ~NoPending(c) /\ HasContent(steps, node, forceCommit) /\ c.mustScan
    BY <1>3, <1>9 DEF NoPending, HasContent, Changes
  <2> QED BY <1>3, <1>7, <2>1 DEF stays
<1>10. CASE s.kind \notin {"COPY", "RUN"}
  <2>1. c.copyOps = ctx.copyOps /\ c.mustScan = ctx.mustScan
    BY <1>3, <1>10
  <2>2. Described(steps, node) = Described(steps, node - 1)
    BY <1>1, <1>10, DescribedSame DEF Changes, Types
  <2>3. NoPending(c) <=> NoPending(ctx)
    BY <2>1 DEF NoPending
  <2>4. HasContent(steps, node, forceCommit) <=> Pending(steps, node, forceCommit)
    BY <1>10 DEF HasContent, Changes
  <2>5. stays /\ ~c.mustScan => WithCopies(c.mem, c.copyOps) = Described(steps, node)
    BY <1>3, <1>6, <2>1, <2>2 DEF RunningFiles
  <2> QED BY <1>3, <1>5, <1>7, <2>3, <2>4, <2>5 DEF stays
<1> QED BY <1>8, <1>9, <1>10

LEMMA ExecuteRight == TypesInv /\ StageInv /\ ExecuteNode => StageInv'
<1> SUFFICES ASSUME TypesInv, StageInv, ExecuteNode PROVE StageInv'
  OBVIOUS
<1>1. /\ EndNode(<<>>) /\ ~Cached /\ ~Skipped /\ UNCHANGED <<cache, digestPairs>> /\ Types
      /\ ctx' = Execute(ctx, steps[node], ModifyFS)
  BY DEF ExecuteNode, TypesInv
<1>2. /\ steps \in Dockerfiles /\ steps' = steps /\ forceCommit' = forceCommit
      /\ forceCommit \in BOOLEAN /\ phase = "build"
      /\ Len(steps) \in Nat /\ node \in Nat /\ node' = node + 1 /\ node' - 1 = node
      /\ node # 1 => node \in 2..Len(steps) /\ node >= 2 /\ node > 1
  BY <1>1, NodeBounds
<1>3. /\ node # 1 /\ ~Committing(steps, node, forceCommit) /\ ~forceCommit
      /\ ~(lastStage /\ node = Len(steps))
  BY DEF ExecuteNode, Commits, MustCommit, Committing
<1>4. CacheIsRight' /\ FetchedIsRight' /\ Chain'
  BY <1>1, <1>2, <1>3, CacheSame, FetchedNode, ChainNode DEF StageInv
<1>5. ~Ahead /\ ~Ahead'
  <2>1. ~Ahead
    BY <1>1, <1>2, <1>3, NoLayerAhead DEF StageInv
  <2>2. \A k \in 2..Len(steps) : k >= node + 1 => k >= node
    BY <1>2
  <2> QED BY <1>1, <1>2, <2>1, <2>2 DEF Ahead
<1>6. ContextIsRight'
  <2>1. CASE ~Contentful(steps, node, forceCommit)
    BY <1>1, <2>1, ContentlessContext
  <2>2. CASE Contentful(steps, node, forceCommit)
    <3>1. RunningContext
      BY <1>2, <1>3, <1>5, <2>2, ContentfulNext DEF StageInv, ContextIsRight
    <3>2. /\ ctx'.mem = ctx.mem
          /\ ~NoPending(ctx') <=> HasContent(steps, node, forceCommit)
          /\ Stays(steps, node - 1) =>
                /\ ModifyFS => ctx'.disk = Described(steps, node)
                /\ ~ctx'.mustScan => WithCopies(ctx'.mem, ctx'.copyOps) = Described(steps, node)
      BY <1>1, <1>2, <1>3, <3>1, ExecutedContext
    <3>3. Pending(steps, node + 1, forceCommit) <=> HasContent(steps, node, forceCommit)
      BY <1>2, <1>3, PendingNext
    <3>4. ASSUME Stays(steps, node - 1), NEW m \in 1..node, LastCommit(steps, m, node + 1, forceCommit)
          PROVE  ctx'.mem = Described(steps, m)
      <4>1. m \in 1..(node - 1) /\ LastCommit(steps, m, node, forceCommit) /\ node <= Len(steps)
        BY <1>2, <1>3, <3>4, LastCommitNext
      <4> QED BY <3>1, <3>2, <3>4, <4>1 DEF RunningContext, RunningFiles
    <3>5. ModifyFS' <=> ModifyFS
      BY <1>1 DEF EndNode, planVars, ModifyFS
    <3>6. node + 1 > Len(steps) => ~lastStage'
      BY <1>1, <1>2, <1>3 DEF EndNode, planVars
    <3>7. Stays(steps, node) => Stays(steps, node - 1)
      <4>1. node - 1 \in Nat /\ node - 1 <= node
        BY <1>2, <1>3
      <4> QED BY <1>2, <4>1, StaysBefore
    <3>8. Stays(steps, node) => RunningFiles'
      BY <1>2, <3>2, <3>4, <3>5, <3>7 DEF RunningFiles
    <3>9. RunningContext'
      BY <1>2, <3>2, <3>3, <3>6, <3>8 DEF RunningContext
    <3> QED BY <1>5, <3>9 DEF ContextIsRight
  <2> QED BY <2>1, <2>2
<1> QED BY <1>4, <1>6 DEF StageInv

(* What a commit pushes to the cache is right for every stage of that ID. *)
LEMMA PushedRight ==
    ASSUME SameAnnotations, Types, CacheIsRight, NEW layers, EndNode(layers),
           cache' = Pushed(ID, layers),
           node >= 2 => LayersOf(steps, node, forceCommit, layers)
    PROVE  CacheIsRight'
<1>1. /\ steps \in Dockerfiles /\ forceCommit' = forceCommit
      /\ Len(steps) \in Nat /\ node \in 1..Len(steps) /\ DOMAIN steps = 1..Len(steps) /\ steps \in Seq(Step)
  BY NodeBounds, StageFacts
<1>2. SUFFICES ASSUME NEW s \in Dockerfiles, NEW n \in 2..Len(s),
                      CacheID(s, n, forceCommit) \in DOMAIN cache', Committing(s, n, forceCommit)
               PROVE  LayersOf(s, n, forceCommit, cache'[CacheID(s, n, forceCommit)])
  BY <1>1 DEF CacheIsRight
<1>3. s \in Seq(Step) /\ Len(s) \in Nat /\ n \in DOMAIN s /\ n \in Nat
  BY StageFacts
<1>4. CASE cache' # cache /\ CacheID(s, n, forceCommit) = ID
  <2>1. node = n /\ SameUpTo(steps, s, node)
    BY <1>1, <1>3, <1>4, IdTells DEF ID
  <2>2. cache'[CacheID(s, n, forceCommit)] = layers
    BY <1>2, <1>4 DEF Pushed
  <2>3. LayersOf(steps, n, forceCommit, layers) /\ n > 0
    BY <1>3, <2>1
  <2> QED BY <1>1, <1>3, <2>1, <2>2, <2>3, SameLayers
<1>5. CASE cache' = cache \/ CacheID(s, n, forceCommit) # ID
  <2>1. /\ CacheID(s, n, forceCommit) \in DOMAIN cache
        /\ cache'[CacheID(s, n, forceCommit)] = cache[CacheID(s, n, forceCommit)]
    BY <1>2, <1>5 DEF Pushed
  <2> QED BY <1>2, <2>1 DEF CacheIsRight
<1> QED BY <1>4, <1>5

LEMMA CommitFirst ==
    ASSUME SameAnnotations, TypesInv, StageInv, CommitNode, node = 1
    PROVE  StageInv'
<1> DEFINE executed == Execute(ctx, steps[node], ModifyFS)
           layers == NewLayers(executed, steps[node])
<1>1. /\ EndNode(layers) /\ layers \in Seq(Layer) /\ Types
      /\ digestPairs' = [digestPairs EXCEPT ![node] = layers]
      /\ ctx' = Committed(executed, steps[node])
      /\ cache' = Pushed(ID, layers)
      /\ ctx'.mem = ApplyLayers(ctx.mem, layers)
  BY CommitIs DEF TypesInv
<1>2. /\ steps \in Dockerfiles /\ phase = "build" /\ Len(steps) \in Nat /\ 1 \in 1..Len(steps)
      /\ steps[1] \in FromStep /\ steps[1] \in Step /\ steps[1].kind = "FROM" /\ steps \in Seq(Step)
  BY <1>1, NodeBounds, StageFacts DEF FromStep
<1>3. /\ \A k \in 2..Len(steps) : k # node => digestPairs'[k] = digestPairs[k]
      /\ ~(node >= 2)
  BY <1>1 DEF Types
<1>4. ctx = NewContext(EmptyFS) /\ ctx.mem = EmptyFS /\ ctx.disk = EmptyFS /\ ctx \in Context
  BY <1>1, <1>2 DEF TypesInv, Fresh, NewContext, Types
<1>5. /\ executed.disk = IF ModifyFS THEN Effect(EmptyFS, steps[1]) ELSE EmptyFS
      /\ executed.mem = Effect(EmptyFS, steps[1])
      /\ executed.copyOps = <<>> /\ executed.mustScan = FALSE
  <2>1. ModifyFS \in BOOLEAN /\ steps[node] = steps[1]
    BY <1>1, ModifyType
  <2>2. ctx.copyOps = <<>> /\ ctx.mustScan = FALSE
    BY <1>4 DEF NewContext
  <2>3. executed = Execute(ctx, steps[1], ModifyFS)
    BY <2>1
  <2> HIDE DEF executed, layers
  <2>4. /\ executed.mem = IF steps[1].kind = "FROM" THEN Effect(ctx.mem, steps[1]) ELSE ctx.mem
        /\ executed.disk = IF ModifyFS THEN Effect(ctx.disk, steps[1]) ELSE ctx.disk
        /\ executed.copyOps = IF steps[1].kind = "COPY" THEN Append(ctx.copyOps, steps[1]) ELSE ctx.copyOps
        /\ executed.mustScan = IF steps[1].kind = "RUN" THEN TRUE ELSE ctx.mustScan
    BY <1>2, <1>4, <2>1, <2>3, ExecuteFacts
  <2> QED BY <1>2, <1>4, <2>2, <2>4
<1>6. ctx' = executed
  BY <1>1, <1>2 DEF Committed
<1> HIDE DEF executed, layers
<1>7. Effect(EmptyFS, steps[1]) = Described(steps, 1)
  <2>1. 1 - 1 = 0
    OBVIOUS
  <2> QED BY <1>2, <2>1, DescribedSteps
<1>8. ContextIsRight'
  BY <1>1, <1>5, <1>6, <1>7, SettledContext DEF NoPending, Committing
<1>9. CacheIsRight'
  BY <1>1, <1>3, PushedRight DEF StageInv
<1> QED BY <1>1, <1>3, <1>8, <1>9, FetchedNode, ChainNode DEF StageInv

(* While a layer is ahead, a commit has nothing to commit. *)
LEMMA CommitAhead ==
    ASSUME Types, StageInv, CommitNode, node # 1, Ahead,
           Contentful(steps, node - 1, forceCommit),
           NEW executed, executed = Execute(ctx, steps[node], ModifyFS),
           NEW layers, layers = NewLayers(executed, steps[node])
    PROVE  LayersOf(steps, node, forceCommit, layers) /\ ContextIsRight'
<1>1. /\ EndNode(layers) /\ ~Cached /\ Commits
      /\ digestPairs' = [digestPairs EXCEPT ![node] = layers]
      /\ ctx' = Committed(executed, steps[node])
  BY DEF CommitNode
<1>2. /\ steps \in Dockerfiles /\ steps' = steps /\ forceCommit' = forceCommit
      /\ forceCommit \in BOOLEAN /\ phase = "build"
      /\ Len(steps) \in Nat /\ node \in Nat /\ node' = node + 1
      /\ node \in 2..Len(steps) /\ node >= 2 /\ node > 1 /\ node \in 1..Len(steps)
  BY <1>1, NodeBounds
<1>3. PICK k \in 2..Len(steps) : /\ k >= node /\ digestPairs[k] # <<>>
                                 /\ Contentful(steps, k, forceCommit)
  BY DEF Ahead
<1>4. k > node
  BY <1>1, <1>2, <1>3 DEF Cached
<1>5. Committing(steps, node, forceCommit)
  <2>1. node # Len(steps)
    BY <1>2, <1>4
  <2> QED BY <1>1, <2>1 DEF Commits, MustCommit, Committing
<1>6. ~HasContent(steps, node, forceCommit)
  BY <1>1, <1>2, <1>3, <1>4, <1>5, EmptyWhenAhead DEF StageInv
<1>7. WaitingContext
  BY <1>2 DEF StageInv, ContextIsRight
<1>8. executed = ctx /\ steps[node].kind \notin {"FROM", "COPY", "RUN"}
  <2>1. steps[node].kind \notin {"FROM", "COPY", "RUN"}
    BY <1>2, <1>6, StageFacts DEF HasContent, Changes
  <2> QED BY <2>1 DEF Execute
<1>9. layers = <<>> /\ ctx' = ctx
  BY <1>1, <1>7, <1>8 DEF WaitingContext, NoPending, NewLayers, Committed
<1>10. LayersOf(steps, node, forceCommit, layers)
  <2>1. ASSUME NEW m \in 1..(node - 1), LastCommit(steps, m, node, forceCommit)
        PROVE  ApplyLayers(Described(steps, m), layers) = Described(steps, node)
    <3>1. ~Changes(steps, node) /\ ~Pending(steps, node, forceCommit)
      BY <1>6 DEF HasContent
    <3>2. Described(steps, node) = Described(steps, node - 1)
      BY <1>2, <3>1, DescribedSame
    <3>3. Described(steps, node - 1) = Described(steps, m)
      <4>1. node \in 2..(Len(steps) + 1)
        BY <1>2
      <4> QED BY <1>2, <2>1, <3>1, <4>1, NothingPending
    <3>4. Described(steps, m) \in FileSystem
      <4>1. m \in 0..Len(steps) /\ steps \in Seq(Step)
        BY <1>2, StageFacts
      <4> QED BY <4>1, DescribedType
    <3> QED BY <1>9, <3>2, <3>3, <3>4, ApplyNone
  <2> QED BY <1>6, <1>9, <2>1 DEF LayersOf
<1>11. Ahead'
  <2>1. k >= node + 1 /\ k # node
    BY <1>2, <1>4
  <2>2. digestPairs'[k] = digestPairs[k]
    BY <1>1, <1>2, <2>1 DEF Types
  <2> QED BY <1>2, <1>3, <2>1, <2>2 DEF Ahead
<1> QED BY <1>1, <1>2, <1>6, <1>7, <1>9, <1>10, <1>11, StillWaiting

(* Afterwards it makes a layer of what the steps did since the last one. *)
LEMMA CommitRunning ==
    ASSUME Types, StageInv, CommitNode, node # 1, ~Ahead,
           Contentful(steps, node - 1, forceCommit),
           NEW executed, executed = Execute(ctx, steps[node], ModifyFS),
           NEW layers, layers = NewLayers(executed, steps[node])
    PROVE  LayersOf(steps, node, forceCommit, layers) /\ ContextIsRight'
<1>1. /\ EndNode(layers) /\ ~Cached /\ Commits /\ node <= Len(steps)
      /\ ctx' = Committed(executed, steps[node])
  BY DEF CommitNode, EndNode
<1>2. /\ steps \in Dockerfiles /\ phase = "build"
      /\ Len(steps) \in Nat /\ node \in Nat
      /\ node \in 2..Len(steps) /\ node >= 2 /\ node > 1 /\ node \in 1..Len(steps)
  BY <1>1, NodeBounds
<1>3. RunningContext
  BY <1>2 DEF StageInv, ContextIsRight
<1>4. steps[node].kind # "FROM"
  BY <1>2, StageFacts
<1>5. executed \in Context /\ (executed.mustScan => ModifyFS)
  BY <1>1, ExecuteTypes
<1>6. /\ executed.mem = ctx.mem /\ executed.copied = ctx.copied
      /\ ~NoPending(executed) <=> HasContent(steps, node, forceCommit)
      /\ Stays(steps, node - 1) =>
            /\ ModifyFS => executed.disk = Described(steps, node)
            /\ ~executed.mustScan => WithCopies(executed.mem, executed.copyOps) = Described(steps, node)
  BY <1>2, <1>3, ExecutedContext
<1>7. /\ layers # <<>> <=> ~NoPending(executed)
      /\ (executed.mustScan => \A f \in executed.copied : executed.disk[f] # NoFile) =>
            ApplyLayers(executed.mem, layers) =
               IF executed.mustScan THEN executed.disk ELSE WithCopies(executed.mem, executed.copyOps)
      /\ ctx'.mem = ApplyLayers(executed.mem, layers)
      /\ ctx'.disk = executed.disk
      /\ NoPending(ctx')
  BY <1>1, <1>4, <1>5, CommitFacts
<1>8. ASSUME Stays(steps, node)
      PROVE  /\ ApplyLayers(ctx.mem, layers) = Described(steps, node)
             /\ ModifyFS => executed.disk = Described(steps, node)
             /\ RunningFiles
  <2>1. Stays(steps, node - 1)
    <3>1. node - 1 \in Nat /\ node - 1 <= node
      BY <1>2
    <3> QED BY <1>2, <1>8, <3>1, StaysBefore
  <2>2. ASSUME executed.mustScan, NEW f \in executed.copied
        PROVE  executed.disk[f] # NoFile
    <3>1. PICK m \in 1..(node - 1) : steps[m].kind = "COPY" /\ steps[m].dst = f
      BY <1>6, <2>2 DEF Types, Copies
    <3>2. node \in 1..node /\ m \in 1..node
      BY <1>2
    <3>3. Described(steps, node)[f] # NoFile
      BY <1>8, <3>1, <3>2 DEF Stays
    <3> QED BY <1>5, <1>6, <2>1, <2>2, <3>3
  <2>3. ApplyLayers(ctx.mem, layers) = Described(steps, node)
    BY <1>5, <1>6, <1>7, <2>1, <2>2
  <2> QED BY <1>3, <1>6, <2>1, <2>3 DEF RunningContext
<1>9. LayersOf(steps, node, forceCommit, layers)
  <2>1. Stays(steps, node) => \A m \in 1..(node - 1) :
           LastCommit(steps, m, node, forceCommit) => ctx.mem = Described(steps, m)
    BY <1>1, <1>8 DEF RunningFiles
  <2> QED BY <1>6, <1>7, <1>8, <2>1 DEF LayersOf
<1>10. Stays(steps, node) => /\ ctx'.mem = Described(steps, node)
                             /\ ModifyFS => ctx'.disk = Described(steps, node)
  BY <1>6, <1>7, <1>8
<1>11. Committing(steps, node, forceCommit) \/ node = Len(steps)
  BY <1>1 DEF Commits, MustCommit, Committing
<1> QED BY <1>1, <1>7, <1>9, <1>10, <1>11, SettledContext

LEMMA CommitRight ==
    ASSUME SameAnnotations, TypesInv, StageInv, CommitNode
    PROVE  StageInv'
<1>1. CASE node = 1
  BY <1>1, CommitFirst
<1>2. CASE node # 1
  <2> DEFINE executed == Execute(ctx, steps[node], ModifyFS)
             layers == NewLayers(executed, steps[node])
  <2>1. /\ EndNode(layers) /\ Types
        /\ digestPairs' = [digestPairs EXCEPT ![node] = layers]
        /\ cache' = Pushed(ID, layers)
    BY CommitIs DEF TypesInv
  <2>2. Contentful(steps, node - 1, forceCommit) =>
           LayersOf(steps, node, forceCommit, layers) /\ ContextIsRight'
    BY <1>2, <2>1, CommitAhead, CommitRunning
  <2> HIDE DEF layers
  <2>3. LayersOf(steps, node, forceCommit, layers)
    BY <2>2 DEF LayersOf
  <2>4. /\ node \in 1..Len(steps) /\ Len(steps) \in Nat /\ node \in Nat /\ forceCommit \in BOOLEAN
        /\ node >= 2
    BY <1>2, <2>1, NodeBounds
  <2>5. ContextIsRight'
    <3>1. CASE ~Contentful(steps, node, forceCommit)
      BY <2>1, <3>1, ContentlessContext
    <3>2. CASE Contentful(steps, node, forceCommit)
      BY <2>2, <2>4, <3>2, ContentfulNext
    <3> QED BY <3>1, <3>2
  <2>6. CacheIsRight'
    BY <2>1, <2>3, PushedRight DEF StageInv
  <2>7. digestPairs'[node] = layers /\ \A k \in 2..Len(steps) : k # node => digestPairs'[k] = digestPairs[k]
    BY <2>1, <2>4 DEF Types
  <2>8. FetchedIsRight' /\ Chain'
    BY <2>1, <2>3, <2>7, FetchedNode, ChainNode DEF StageInv, LayersOf
  <2> QED BY <2>5, <2>6, <2>8 DEF StageInv
<1> QED BY <1>1, <1>2

-----------------------------------------------------------------------------
(* So do the start and the end of a build, and what it pulls.              *)

LEMMA StartRight ==
    ASSUME TypesInv, StageInv, NEW s \in Dockerfiles, NEW last \in BOOLEAN, StartBuild(s, last)
    PROVE  StageInv' /\ Built'
<1>1. /\ steps' = s /\ phase' \in {"pull", "build"} /\ (phase' = "build" => node' = 1)
      /\ (phase' = "pull" => node' = 2)
      /\ UNCHANGED <<cache, forceCommit>>
  BY DEF StartBuild
<1>2. \A k \in 2..Len(s) : digestPairs'[k] = <<>> /\ k >= 2
  BY StageFacts DEF StartBuild
<1>3. CacheIsRight'
  BY <1>1, CacheSame DEF StageInv
<1>4. FetchedIsRight' /\ Chain'
  BY <1>1, <1>2 DEF FetchedIsRight, Chain
<1>5. ContextIsRight' /\ Built'
  BY <1>1 DEF ContextIsRight, Built, ImageIsWhatIsDescribed
<1> QED BY <1>3, <1>4, <1>5 DEF StageInv

LEMMA PullRight == TypesInv /\ StageInv /\ PullCacheLayer => StageInv' /\ Built'
<1> SUFFICES ASSUME TypesInv, StageInv, PullCacheLayer PROVE StageInv' /\ Built'
  OBVIOUS
<1>1. /\ phase = "pull" /\ node \in 2..Len(steps) /\ node \in Nat /\ Len(steps) \in Nat
      /\ steps \in Dockerfiles /\ UNCHANGED <<cache, forceCommit, steps>>
      /\ digestPairs' = IF Pulls THEN [digestPairs EXCEPT ![node] = cache[ID]] ELSE digestPairs
      /\ (Pulls => ID \in DOMAIN cache)
  BY StageFacts DEF PullCacheLayer, TypesInv, Types, planVars
<1>2. /\ phase' = "pull" => node' = node + 1
      /\ phase' # "pull" => phase' = "build" /\ node' = 1
  BY <1>1 DEF PullCacheLayer, NextPull
<1>3. Pulls <=> Committing(steps, node, forceCommit)
  BY <1>1 DEF Pulls, Committing, TypesInv, Types
<1>4. /\ \A k \in 2..Len(steps) : k # node => digestPairs'[k] = digestPairs[k]
      /\ digestPairs'[node] = IF Pulls THEN cache[ID] ELSE <<>>
      /\ \A k \in 2..Len(steps) : k >= node => digestPairs[k] = <<>>
  BY <1>1 DEF TypesInv, Types, StageInv, FetchedIsRight
<1>5. Pulls => LayersOf(steps, node, forceCommit, cache[ID])
  BY <1>1, <1>3 DEF StageInv, CacheIsRight, ID
<1>6. CacheIsRight'
  BY <1>1, CacheSame DEF StageInv
<1>7. FetchedIsRight'
  <2>1. ASSUME NEW k \in 2..Len(steps), digestPairs'[k] # <<>>
        PROVE  Committing(steps, k, forceCommit) /\ LayersOf(steps, k, forceCommit, digestPairs'[k])
    <3>1. CASE k = node
      BY <1>3, <1>4, <1>5, <2>1, <3>1
    <3>2. CASE k # node
      BY <1>1, <1>4, <2>1, <3>2 DEF StageInv, FetchedIsRight
    <3> QED BY <3>1, <3>2
  <2>2. ASSUME NEW k \in 2..Len(steps), phase' = "pull", k >= node'
        PROVE  digestPairs'[k] = <<>>
    <3>1. k # node /\ k >= node
      BY <1>1, <1>2, <2>2
    <3> QED BY <1>4, <3>1
  <2> QED BY <1>1, <2>1, <2>2 DEF FetchedIsRight
<1>8. Chain'
  <2> SUFFICES ASSUME NEW j \in 2..Len(steps), NEW k \in 2..Len(steps),
                      Committing(steps, j, forceCommit), Contentful(steps, j - 1, forceCommit),
                      digestPairs'[j] = <<>>,
                      j < node' \/ (j < k /\ node' <= k /\ digestPairs'[k] # <<>>)
               PROVE  ~HasContent(steps, j, forceCommit)
    BY <1>1 DEF Chain
  <2>1. CASE j = node
    BY <1>3, <1>4, <1>5, <2>1 DEF LayersOf
  <2>2. CASE j # node
    <3>1. digestPairs[j] = <<>>
      BY <1>4, <2>2
    <3>2. j < node
      <4>1. CASE j < node'
        BY <1>1, <1>2, <2>2, <4>1
      <4>2. CASE j < k /\ digestPairs'[k] # <<>>
        <5>1. ~(k > node)
          BY <1>1, <1>4, <4>2
        <5> QED BY <1>1, <4>2, <5>1
      <4> QED BY <4>1, <4>2
    <3> QED BY <1>1, <3>1, <3>2 DEF StageInv, Chain
  <2> QED BY <2>1, <2>2
<1>9. ContextIsRight' /\ Built'
  BY <1>2 DEF ContextIsRight, Built, ImageIsWhatIsDescribed
<1> QED BY <1>6, <1>7, <1>8, <1>9 DEF StageInv

LEMMA MissRight == TypesInv /\ StageInv /\ PullMisses => StageInv' /\ Built'
<1> SUFFICES ASSUME TypesInv, StageInv, PullMisses PROVE StageInv' /\ Built'
  OBVIOUS
<1>1. /\ phase = "pull" /\ node \in 2..Len(steps) /\ node \in Nat /\ Len(steps) \in Nat
      /\ phase' = "build" /\ node' = 1
      /\ UNCHANGED <<cache, forceCommit, steps, digestPairs>>
  BY StageFacts DEF PullMisses, TypesInv, Types, planVars
<1>2. CacheIsRight' /\ FetchedIsRight'
  BY <1>1, CacheSame DEF StageInv, FetchedIsRight
<1>3. Chain'
  <2> SUFFICES ASSUME NEW j \in 2..Len(steps), NEW k \in 2..Len(steps),
                      Committing(steps, j, forceCommit), Contentful(steps, j - 1, forceCommit),
                      digestPairs[j] = <<>>, j < k, digestPairs[k] # <<>>
               PROVE  ~HasContent(steps, j, forceCommit)
    BY <1>1 DEF Chain
  <2>1. ~(k >= node)
    BY <1>1 DEF StageInv, FetchedIsRight
  <2>2. j < node
    BY <1>1, <2>1
  <2> QED BY <1>1, <2>2 DEF StageInv, Chain
<1>4. ContextIsRight' /\ Built'
  BY <1>1 DEF ContextIsRight, Built, ImageIsWhatIsDescribed
<1> QED BY <1>2, <1>3, <1>4 DEF StageInv

LEMMA AllContentful ==
    ASSUME Types, forceCommit \/ EveryCommitHasContent, NEW n \in 0..Len(steps)
    PROVE  Contentful(steps, n, forceCommit)
<1>1. CASE forceCommit
  BY <1>1 DEF Contentful
<1>2. CASE ~forceCommit
  <2> SUFFICES ASSUME NEW m \in 2..n, steps[m].commit PROVE HasContent(steps, m, forceCommit)
    BY DEF Contentful
  <2>1. m \in 2..Len(steps) /\ Len(steps) \in Nat
    BY StageFacts DEF Types
  <2>2. PICK k \in 2..m : steps[k].kind \in {"COPY", "RUN"} /\ \A j \in k..(m - 1) : ~steps[j].commit
    BY <1>2, <2>1 DEF EveryCommitHasContent
  <2>3. CASE k = m
    BY <2>2, <2>3 DEF HasContent, Changes
  <2>4. CASE k # m
    <3>1. k \in 2..(m - 1) /\ \A j \in k..(m - 1) : j # 1
      BY <2>1, <2>4
    <3> QED BY <1>2, <2>2, <3>1 DEF HasContent, Pending, Changes, Committing
  <2> QED BY <2>3, <2>4
<1> QED BY <1>1, <1>2

LEMMA AllStay ==
    ASSUME Types, CopiesStay, NEW n \in 0..Len(steps)
    PROVE  Stays(steps, n)
<1>1. \A k \in 1..n : k \in DOMAIN steps
  BY StageFacts DEF Types
<1> QED BY <1>1 DEF CopiesStay, Stays

LEMMA FinishRight == TypesInv /\ StageInv /\ FinishBuild => StageInv' /\ Built'
<1> SUFFICES ASSUME TypesInv, StageInv, FinishBuild PROVE StageInv' /\ Built'
  OBVIOUS
<1>1. /\ phase = "build" /\ node = Len(steps) + 1 /\ phase' = "built" /\ Types
      /\ UNCHANGED <<cache, planVars, ctx, diffIDs>>
  BY DEF FinishBuild, TypesInv
<1>2. Len(steps) \in Nat /\ Len(steps) > 0 /\ node - 1 = Len(steps) /\ node > 1 /\ Len(steps) \in 0..Len(steps)
  BY <1>1, StageFacts DEF Types
<1>3. StageInv'
  BY <1>1, CacheSame DEF StageInv, FetchedIsRight, Chain, ContextIsRight, planVars
<1>4. ASSUME lastStage, forceCommit \/ EveryCommitHasContent, CopiesStay
      PROVE  ApplyLayers(EmptyFS, image') = Described(steps, Len(steps))
  <2>1. Contentful(steps, node - 1, forceCommit)
    BY <1>1, <1>2, <1>4, AllContentful
  <2>2. ~Ahead
    BY <1>1, <1>2 DEF Ahead
  <2>3. RunningContext
    BY <1>1, <1>2, <2>1, <2>2 DEF StageInv, ContextIsRight
  <2>4. NoPending(ctx)
    BY <1>1, <1>2, <1>4, <2>3 DEF RunningContext
  <2> Stays(steps, Len(steps))
    BY <1>1, <1>2, <1>4, AllStay
  <2>5. ctx.mem = Described(steps, Len(steps))
    <3>1. WithCopies(ctx.mem, <<>>) = ctx.mem
      BY <1>1, NoCopies DEF Types, Context
    <3> QED BY <1>2, <2>3, <2>4, <3>1 DEF RunningContext, RunningFiles, NoPending
  <2>6. image' = diffIDs
    BY <1>1, TypesInvStep DEF TypesInv, Listed, Next
  <2> QED BY <1>1, <2>5, <2>6 DEF TypesInv, Listed
<1>5. Built'
  BY <1>1, <1>4 DEF Built, ImageIsWhatIsDescribed, EveryCommitHasContent, CopiesStay, planVars
<1> QED BY <1>3, <1>5

LEMMA InvInit == Init => Inv
<1> SUFFICES ASSUME Init PROVE Inv
  OBVIOUS
<1>1. CacheIsRight
  BY DEF Init, CacheIsRight
<1>2. FetchedIsRight /\ Chain /\ ContextIsRight /\ Built
  BY DEF Init, FetchedIsRight, Chain, ContextIsRight, Built, ImageIsWhatIsDescribed
<1> QED BY <1>1, <1>2, TypesInvInit DEF Inv, StageInv

LEMMA InvStep ==
    ASSUME SameAnnotations, Inv, [Next]_vars
    PROVE  Inv'
<1>1. TypesInv'
  BY TypesInvStep DEF Inv
<1> SUFFICES StageInv' /\ Built'
  BY <1>1 DEF Inv
<1>2. ASSUME NEW s \in Dockerfiles, NEW last \in BOOLEAN, StartBuild(s, last)
      PROVE  StageInv' /\ Built'
  BY <1>2, StartRight DEF Inv
<1>3. CASE PullCacheLayer \/ PullMisses
  BY <1>3, PullRight, MissRight DEF Inv
<1>4. CASE UseCachedNode \/ SkipNode \/ ExecuteNode \/ CommitNode
  <2>1. phase' = "build"
    BY <1>4 DEF UseCachedNode, SkipNode, ExecuteNode, CommitNode, EndNode
  <2>2. Built'
    BY <2>1 DEF Built, ImageIsWhatIsDescribed
  <2> QED BY <1>4, <2>2, UseCachedRight, SkipRight, ExecuteRight, CommitRight DEF Inv
<1>5. CASE BuildFails
  BY <1>5, CacheSame DEF Inv, StageInv, FetchedIsRight, Chain, ContextIsRight, Built,
                         ImageIsWhatIsDescribed, BuildFails, planVars
<1>6. CASE FinishBuild
  BY <1>6, FinishRight DEF Inv
<1>7. CASE UNCHANGED vars
  <2>1. UNCHANGED <<cache, steps, forceCommit, lastStage, copiedFrom, phase, node, digestPairs, ctx, image>>
    BY <1>7 DEF vars, planVars
  <2>2. CacheIsRight' /\ FetchedIsRight' /\ Chain'
    BY <2>1 DEF Inv, StageInv, CacheIsRight, FetchedIsRight, Chain
  <2>3. ContextIsRight'
    BY <2>1 DEF Inv, StageInv, ContextIsRight, Ahead, WaitingContext, RunningContext, RunningFiles, ModifyFS
  <2>4. Built'
    BY <2>1 DEF Inv, Built, ImageIsWhatIsDescribed, EveryCommitHasContent, CopiesStay
  <2> QED BY <2>2, <2>3, <2>4 DEF StageInv
<1> QED BY <1>2, <1>3, <1>4, <1>5, <1>6, <1>7 DEF Next

(* In every state what is cached, fetched and waiting has the files of the *)
(* steps it stands for (build_stage.go pullCacheLayers and build).         *)
THEOREM Invariance ==
    ASSUME SameAnnotations
    PROVE  Spec => []Inv
BY InvInit, InvStep, PTL DEF Spec

(* An image has the files that its Dockerfile describes, whatever earlier  *)
(* builds left in the cache: build_node.go Build and build_stage.go        *)
(* pullCacheLayers, with docs/CACHE.md.  Not so without the hypothesis     *)
(* (the run BuildStageCopies), nor for a stage with a command that removes *)
(* a file copied before, which the property leaves out (CopiesStay).       *)
THEOREM ImagesAreDescribed ==
    ASSUME SameAnnotations
    PROVE  Spec => []ImageIsWhatIsDescribed
<1>1. Inv => ImageIsWhatIsDescribed
  BY DEF Inv, Built
<1> QED BY <1>1, Invariance, PTL

(* A step that runs on disk finds there what all steps before it left,     *)
(* those too that were skipped or came from the cache; for the stages of   *)
(* the property (CopiesStay).                                              *)
THEOREM StepsSeeTheirFiles ==
    ASSUME SameAnnotations
    PROVE  Spec => []StepsSeeWhatIsDescribed
<1>1. Inv => StepsSeeWhatIsDescribed
  <2> SUFFICES ASSUME Inv, phase = "build", node <= Len(steps), ModifyFS,
                      forceCommit \/ EveryCommitHasContent, CopiesStay, ~Cached, ~Skipped
               PROVE  ctx.disk = Described(steps, node - 1)
    BY DEF StepsSeeWhatIsDescribed
  <2>1. /\ steps \in Dockerfiles /\ Len(steps) \in Nat /\ node \in 1..Len(steps) /\ node \in Nat /\ Types
        /\ node # 1 => node \in 2..Len(steps) /\ node > 1
    BY StageFacts DEF Inv, TypesInv, Types
  <2>2. CASE node = 1
    <3>1. ctx.disk = EmptyFS
      BY <2>2 DEF Inv, TypesInv, Fresh, NewContext
    <3>2. node - 1 = 0
      BY <2>2
    <3> QED BY <2>1, <3>1, <3>2, DescribedSteps, StageFacts
  <2>3. CASE node # 1
    <3>1. Contentful(steps, node - 1, forceCommit)
      <4>1. node - 1 \in 0..Len(steps)
        BY <2>1
      <4> QED BY <2>1, <4>1, AllContentful
    <3> Stays(steps, node - 1)
      <4>1. node - 1 \in 0..Len(steps)
        BY <2>1
      <4> QED BY <2>1, <4>1, AllStay
    <3>2. CASE ~Ahead
      BY <2>1, <2>3, <3>1, <3>2 DEF Inv, StageInv, ContextIsRight, RunningContext, RunningFiles
    <3>3. CASE Ahead
      <4>1. forceCommit
        BY <2>1, <2>3, <3>3, NoLayerAhead DEF Inv, StageInv
      <4>2. WaitingContext
        BY <2>1, <2>3, <3>1, <3>3 DEF Inv, StageInv, ContextIsRight
      <4>3. LastCommit(steps, node - 1, node, forceCommit) /\ node - 1 \in 1..(node - 1)
        BY <2>1, <2>3, <4>1 DEF LastCommit, Committing
      <4> QED BY <4>2, <4>3 DEF WaitingContext
    <3> QED BY <3>2, <3>3
  <2> QED BY <2>2, <2>3
<1> QED BY <1>1, Invariance, PTL

=============================================================================
