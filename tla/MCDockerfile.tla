----------------------------- MODULE MCDockerfile -----------------------------
(* Files of two stages: global ARGs, two lines and a command in the first  *)
(* stage and one line and a command in the second; and of one stage with   *)
(* three lines, some of them of the directives the others do without.      *)
EXTENDS Dockerfile, TLC

MCNames == {"a", "b", "e", "p", "h", "i", "HOME"}
MCHostEnv == [h |-> <<"host">>, HOME |-> <<"/root">>]
MCPassed == [b |-> <<"given">>, e |-> <<>>]
MCScratch == <<"scratch">>
Config(e, dir, fields) == [env |-> e, dir |-> dir, fields |-> fields, maps |-> Empty]
MCImages ==
    (<<"base">> :> Config([p |-> <<"bin">>], <<"/", "srv">>, [cmd |-> <<"sh">>, user |-> <<"u", ":", "g">>]))
    @@ (MCScratch :> Config([p |-> <<"usr">>], <<>>, Empty))

L(d, key, value) == [d |-> d, key |-> key, value |-> value]
Variables == {L("arg", "a", <<>>), L("arg", "b", <<"x">>), L("arg", "h", <<"b">>),
              L("env", "a", <<"y">>), L("env", "a", <<"p", "z">>), L("env", "b", <<"a", "b">>),
              L("env", "h", <<"a">>), L("env", "p", <<"z">>), L("env", "a", <<"\"", "y", "\"">>),
              L("arg", "e", <<"x">>), L("env", "HOME", <<"b">>)}
Settings == {L("workdir", "", <<"/", "d">>), L("workdir", "", <<"a">>),
             L("user", "", <<"b">>), L("cmd", "", <<"a", "x">>), L("maintainer", "", <<"a">>),
             L("label", "k", <<"b">>), L("label", "k", <<"e">>)}
Others == {L("entrypoint", "", <<"b", "x">>), L("healthcheck", "", <<"a">>), L("stopsignal", "", <<"9">>),
           L("expose", "", <<"b">>), L("expose", "", <<"80">>), L("volume", "", <<"/", "a">>)}
Run == L("run", "", <<"a", "b", "e", "p", "h", "HOME">>)
From(image) == L("from", "", image)
AllLines == Variables \cup Settings

MCFiles ==
    {globals \o <<From(i1), l1, l2, Run, From(<<"base">>), l3, Run>> :
        globals \in {<<>>, <<L("arg", "a", <<"x">>), L("arg", "i", <<"base">>)>>},
        i1 \in {<<"base">>, MCScratch, <<"i">>},
        l1 \in AllLines, l2 \in AllLines, l3 \in AllLines}
    \cup {<<From(<<"base">>), l1, l2, Run, l3, Run>> :
              l1 \in AllLines, l2 \in AllLines, l3 \in AllLines}
    \cup {<<From(<<"base">>), l1, l2, l3, Run>> :
              l1 \in Variables, l2 \in Others, l3 \in Others}
    \cup {<<l, From(<<"base">>)>> : l \in AllLines \cup Others}
    \cup {<<L("arg", "a", <<"x">>)>>, <<>>}
===============================================================================
