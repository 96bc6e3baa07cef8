---------------------------- MODULE MCBuildStage ----------------------------
(* Stages of a few steps over two files, for the runs of BuildStage. *)
EXTENDS BuildStage

CONSTANTS f, g, a, b, o

From == [kind |-> "FROM", commit |-> FALSE, layers |-> <<(f :> o)>>]
Copy(src, dst, chown, commit) ==
    [kind |-> "COPY", src |-> src, dst |-> dst, chown |-> chown, commit |-> commit]
Run(src, dst, commit) == [kind |-> "RUN", src |-> src, dst |-> dst, commit |-> commit]
Env(commit) == [kind |-> "ENV", commit |-> commit]

Stages(S, n) == {<<From>> \o s : s \in [1..n -> S]}

(* A copy has the same annotation wherever it occurs. *)
AnnotatedStages ==
    Stages({Copy(a, f, FALSE, FALSE), Copy(b, f, FALSE, TRUE), Copy(a, g, TRUE, TRUE),
            Run(f, g, FALSE), Run(g, f, TRUE)}, 3)
    \cup Stages({Copy(a, f, FALSE, FALSE), Copy(b, f, FALSE, TRUE), Env(TRUE)}, 4)

(* The annotation of a copy is edited. *)
EditedCopies == Stages({Copy(a, f, FALSE, c) : c \in BOOLEAN}
                       \cup {Copy(b, g, FALSE, c) : c \in BOOLEAN}, 2)

=============================================================================
