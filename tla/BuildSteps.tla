----------------------------- MODULE BuildSteps -----------------------------
(***************************************************************************)
(* lib/builder/step and the parts of lib/builder/build_node.go that run    *)
(* them: what the steps of a stage do to its build context, what they      *)
(* commit, and which of them a build skips.  No state of its own: a build  *)
(* context is a value that BuildStage and BuildPlan pass along.            *)
(*                                                                         *)
(* A file system is a function from paths to contents, a layer a function  *)
(* from some of the paths.  Two files with the same header (size, mode,    *)
(* time) are taken to have the same content.                               *)
(***************************************************************************)
EXTENDS Integers, Sequences, SequencesExt, FiniteSetsExt, TLC

CONSTANTS
    File,         \* paths
    Content,      \* contents of a file
    NoFile        \* the content of a path without a file, and a whiteout

ASSUME NoFileAssumption == NoFile \notin Content

Layer == UNION {[fs -> Content \cup {NoFile}] : fs \in SUBSET File}
FileSystem == [File -> Content \cup {NoFile}]

EmptyFS == [f \in File |-> NoFile]

(* Layers are unpacked one over the other: the last one that has a file    *)
(* decides.                                                                *)
ApplyLayers(fs, layers) ==
    LET With(f) == {i \in DOMAIN layers : f \in DOMAIN layers[i]}
    IN  [f \in File |-> IF With(f) = {} THEN fs[f] ELSE layers[Max(With(f))][f]]

(* What a step does to the file system it runs on.  The command of a RUN   *)
(* makes its target a copy of another file, or removes it if there is none.*)
Effect(fs, s) == CASE s.kind = "FROM" -> ApplyLayers(fs, s.layers)
                   [] s.kind = "COPY" -> [fs EXCEPT ![s.dst] = s.src]
                   [] s.kind = "RUN" -> [fs EXCEPT ![s.dst] = fs[s.src]]
                   [] OTHER -> fs

(* A build context: MemFS, what waits to be committed, and the local file  *)
(* system.  MemFS knows the file behind each of its nodes, and looks there *)
(* when it asks whether the node is still on disk; for the copied ones     *)
(* that is the file they were copied from.                                 *)
NewContext(disk) ==
    [mem |-> EmptyFS, copied |-> {}, disk |-> disk, copyOps |-> <<>>, mustScan |-> FALSE]

-----------------------------------------------------------------------------
(* Mutants: the form a definition below would take with a plausible bug. *)

(* RUN does not ask for its files. *)
OnlyChownOnDisk(s) == s.kind = "COPY" /\ s.chown

(* A cached layer goes into MemFS only. *)
ApplyInMemoryOnly(c, layers, modifyFS) ==
    [c EXCEPT !.mem = ApplyLayers(@, layers),
              !.copied = {f \in @ : ApplyLayers(c.mem, layers)[f] = c.mem[f]}]

-----------------------------------------------------------------------------
RequireOnDisk(s) == s.kind = "RUN" \/ (s.kind = "COPY" /\ s.chown)

(* Only commands and copies touch files; a copy is noted down, and made on *)
(* disk where the stage is on disk.                                        *)
Execute(c, s, modifyFS) ==
    LET onDisk == [c EXCEPT !.disk = IF modifyFS THEN Effect(@, s) ELSE @]
    IN CASE s.kind = "FROM" -> [onDisk EXCEPT !.mem = Effect(@, s)]
         [] s.kind = "COPY" -> [onDisk EXCEPT !.copyOps = Append(@, s)]
         [] s.kind = "RUN" -> [onDisk EXCEPT !.mustScan = TRUE]
         [] OTHER -> c

(* AddLayerByScan: what differs between disk and MemFS, deletions too; but *)
(* a copied file that was deleted is not missed, as its source is there.   *)
LayerByScan(c) ==
    LET changed == {f \in File : /\ c.disk[f] # c.mem[f]
                                 /\ c.disk[f] = NoFile => f \notin c.copied}
    IN [f \in changed |-> c.disk[f]]

(* AddLayerByCopyOps takes each operation in turn, if it changes MemFS: a  *)
(* file is in the layer if one of them does, as the last one has it.       *)
LayerByCopyOps(c) ==
    LET CopiesTo(f) == {i \in DOMAIN c.copyOps : c.copyOps[i].dst = f}
        changed == {f \in File : \E i \in CopiesTo(f) : c.copyOps[i].src # c.mem[f]}
    IN  [f \in changed |-> c.copyOps[Max(CopiesTo(f))].src]

(* Commit of a step: what waits in the context becomes a layer, whose      *)
(* files are nodes of their own or, if it is made by copies, copied ones;  *)
(* nothing is forgotten if there is none.  FROM commits the layers of its  *)
(* image.                                                                  *)
NewLayers(c, s) ==
    CASE s.kind = "FROM" -> s.layers
      [] s.kind # "FROM" /\ c.mustScan -> <<LayerByScan(c)>>
      [] s.kind # "FROM" /\ ~c.mustScan /\ c.copyOps # <<>> -> <<LayerByCopyOps(c)>>
      [] OTHER -> <<>>
Committed(c, s) ==
    IF s.kind = "FROM" \/ NewLayers(c, s) = <<>> THEN c
    ELSE [c EXCEPT !.mem = ApplyLayers(@, NewLayers(c, s)),
                   !.copied = IF c.mustScan THEN @ \ DOMAIN LayerByScan(c)
                              ELSE @ \cup DOMAIN LayerByCopyOps(c),
                   !.copyOps = <<>>, !.mustScan = FALSE]

(* applyLayer: into MemFS, where what is not as before gets a node of its  *)
(* own, and unpacked where the stage is on disk.                           *)
ApplyCached(c, layers, modifyFS) ==
    [c EXCEPT !.mem = ApplyLayers(@, layers),
              !.copied = {f \in @ : ApplyLayers(c.mem, layers)[f] = c.mem[f]},
              !.disk = IF modifyFS THEN ApplyLayers(@, layers) ELSE @]

(* The last node whose layer was pulled before the chain breaks.  Nodes    *)
(* that carry no annotation are passed over, also if they were pulled.     *)
LatestFetched(s, fetched) ==
    Max({0} \cup {n \in 2..Len(s) :
        /\ s[n].commit
        /\ \A k \in 2..n : s[k].commit => fetched[k] # <<>>})

(* A layer is in the image because its step is annotated, belongs to FROM, *)
(* ends the last stage, or because every step commits.                     *)
MustCommit(s, n, last, force) == s[n].commit \/ n = 1 \/ (last /\ n = Len(s)) \/ force

=============================================================================
