---------------------------- MODULE MCBuildPlan ----------------------------
(* Dockerfiles of two and three stages over two files, for BuildPlan. *)
EXTENDS BuildPlan

CONSTANTS f, g, a, b, o, p

Images == ("base" :> <<(f :> o)>>) @@ ("tool" :> <<(g :> a), (g :> p)>>)
          @@ ("r1/app" :> <<(f :> b)>>)
(* "none" and "0" exist in no registry. *)
SavedAs == ("base" :> "base") @@ ("tool" :> "tool") @@ ("r1/app" :> "app")
           @@ ("r2/app" :> "app") @@ ("r2/copy" :> "copy")

(* "none" could be an image, "no image" could not. *)
NoNames == {"no image"}
Dirs == ("base" :> "/work") @@ ("r1/app" :> "/srv")

OldRoot == (f :> a) @@ (g :> NoFile)

From(img) == [kind |-> "FROM", image |-> img, commit |-> FALSE]
Copy(src, dst) == [kind |-> "COPY", src |-> src, dst |-> dst, chown |-> FALSE, commit |-> FALSE]
Run(src, dst, commit) == [kind |-> "RUN", src |-> src, dst |-> dst, commit |-> commit]
CopyFrom(from, src, dst) ==
    [kind |-> "COPYFROM", from |-> from, src |-> src, dst |-> dst, commit |-> TRUE]

Stage(alias, img, steps) == [alias |-> alias, steps |-> <<From(img)>> \o steps]

Firsts == {Stage(alias, "base", steps) : alias \in {"", "x"}, steps \in {<<>>, <<Run(f, g, FALSE)>>}}
          \cup {Stage(alias, "r1/app", <<Copy(b, f)>>) : alias \in {"", "x"}}
Copies == {<<Copy(a, g)>>, <<CopyFrom("x", f, g)>>, <<CopyFrom("0", f, f), Run(f, f, TRUE)>>,
           <<CopyFrom("tool", g, f), CopyFrom("base", f, g)>>, <<CopyFrom("no image", f, g)>>}
Seconds == {Stage(alias, "base", steps) : alias \in {"", "y"}, steps \in Copies}
Thirds == {Stage("tool", Scratch, <<CopyFrom("x", g, f), CopyFrom("y", g, g)>>),
           Stage("z", Scratch, <<CopyFrom("x", f, f), CopyFrom("y", g, g)>>)}

TwoStages == {<<s, t>> : s \in Firsts,
              t \in {s \in Seconds : s.alias = ""} \cup {Stage(alias, "none", <<Run(f, g, TRUE)>>) : alias \in {"x", "7", "y"}}}
ThreeStages == {<<s, t, u>> : s \in Firsts, t \in {s \in Seconds : s.alias = "y"}, u \in Thirds}

Command(file, target, force, modify, preserve, name, replicas) ==
    [file |-> file, target |-> target, force |-> force, modify |-> modify,
     preserve |-> preserve, name |-> name, replicas |-> replicas]

Commands ==
    {Command(file, target, force, TRUE, force, "r1/app", <<"r2/copy">>) :
        file \in TwoStages, target \in {""}, force \in BOOLEAN}
    \cup {Command(file, "x", TRUE, TRUE, TRUE, "r1/app", <<"r2/copy">>) : file \in TwoStages}
    \cup {Command(file, target, TRUE, TRUE, FALSE, "r1/app", <<"r2/copy">>) :
        file \in ThreeStages, target \in {"", "tool"}}
    \cup {Command(<<s>>, "", TRUE, FALSE, FALSE, "r1/app", <<"r2/copy">>) : s \in Firsts \cup Seconds}

(* An image and its replica that differ in their registries only, for      *)
(* ReplicasAreSaved.                                                       *)
Replicas ==
    {Command(<<s>>, "", TRUE, TRUE, FALSE, "r1/app", <<"r2/app">>) : s \in Firsts}

(* A name that is copied from moves from a stage to the image of that      *)
(* name, for SourcesAreClear.                                              *)
Renamed ==
    {Command(<<Stage(alias, "base", <<Run(f, g, FALSE)>>), Stage("", "base", <<CopyFrom("tool", g, f)>>)>>,
             "", TRUE, TRUE, FALSE, "r1/app", <<"r2/copy">>) : alias \in {"tool", "x"}}

(* What the theorems of BuildPlanProofs ask of command lines.              *)
ASSUME CommandsAssumption == SameAnnotations /\ NoSelfCopies /\ CopiesStay

=============================================================================
