------------------------------- MODULE MCMemFS -------------------------------
(* Values for TLC: two names at the root, one below each; base images with *)
(* a directory, a hard link and a whiteout; one file and two directories   *)
(* to copy.                                                                *)
EXTENDS MemFS

A == <<"a">>  AX == <<"a", "x">>  B == <<"b">>

MCPathOrder == <<A, AX, B>>

MCTarLayers ==
    {A :> Dir(0) @@ AX :> File(0, "c1"),
     A :> File(0, "c1") @@ B :> Hard(0, A),
     A :> Dir(0) @@ AX :> Whiteout @@ B :> Link(0, "a")}

MCSources ==
    {[base |-> "x", tree |-> <<>> :> File(-1, "c2")],
     [base |-> "d", tree |-> <<>> :> Dir(-1) @@ <<"x">> :> File(-1, "c2")],
     [base |-> "d", tree |-> <<>> :> Dir(-1) @@ A :> Dir(-1) @@ AX :> File(-1, "c2")]}
=============================================================================
