---------------------------- MODULE MCDockerfileText ----------------------------
(* Texts of a few pieces in all their combinations.                        *)
EXTENDS DockerfileText

A == <<"a">>
B == <<"b">>
(* e acute and a grave, and the characters that their bytes are as runes:  *)
(* a letter, a sign and a space.                                           *)
MCBytes == [eacute |-> <<"xC3", "xA9">>, agrave |-> <<"xC3", "xA0">>]
MCNameRunes == {"a", "b", "c", "xC3"}
MCSpaceRunes == {" ", "xA0"}
MCVars == (A :> B) @@ (B :> <<"c", "/">>) @@ (<<"a", "b">> :> <<>>)    \* c is not set

Rune(r) == Plain(<<r>>)
Special == {"$"}
UpTo(S, n) == UNION {[1..k -> S] : k \in 0..n}

(* Keys: nested up to three deep, with a $name at the end if at all. *)
Nested == LET one == {InBraces(Rune(r)) : r \in {"a", "c"}}
          IN one \cup {InBraces(p) : p \in one} \cup {InBraces(Joined(<<Rune("a"), p>>)) : p \in one}
Keys == {Joined(ps) : ps \in UpTo({Rune("a"), Rune("b")}, 2)
                             \cup {<<p>> : p \in Nested} \cup {<<p, Rune("b")>> : p \in Nested}
                             \cup {<<Rune("a"), p>> : p \in Nested}}
        \cup {Joined(<<p, Name(n)>>) : p \in Nested \cup {Rune("a"), Plain(<<>>)}, n \in {A, <<"c">>}}
Defaults == {Joined(<<Rune("/"), Rune("eacute")>>), Escaped("}", {"}"}), Joined(<<Escaped("a", {}), Rune("$")>>)}
Simple == {Rune(r) : r \in {"c", "/", "}"}} \cup {Rune("eacute")} \cup {Escaped("$", Special), Escaped("a", Special)}
          \cup {Name(n) : n \in {A, <<"a", "b">>, <<"c">>}}
Variables == {InBraces(k) : k \in Keys}
             \cup UNION {{OrDefault(k, d), IfSet(k, d)} :
                         k \in {key \in Keys : key.meaning # <<>>}, d \in Defaults}
VarTexts == {Text("vars", Joined(ps)) : ps \in {t \in
                {<<p, v>> : p \in Simple, v \in Variables}
                \cup {<<v, p>> : p \in Simple, v \in Variables}
                \cup UpTo(Simple, 3) : Separated(t)}}

Values == {Joined(ps) : ps \in UpTo({Rune("b"), Rune("="), Rune("eacute"), Escaped(" ", {" ", "\""}),
                                     Escaped("\"", {" ", "\""}), Escaped("b", {})}, 2)}
QuotedValues == {Quoted(Joined(ps)) : ps \in UpTo({Rune("b"), Rune(" "), Rune("agrave"), Escaped("\"", {"\""}),
                                                   Escaped("\\", {})}, 2)}
KeyValTexts == LET kvs == {KeyVal(k, v) : k \in {A, <<"a", "c">>},
                                          v \in QuotedValues \cup {w \in Values : w.runes # <<>>}}
                   short == {kv \in kvs : Len(kv.runes) <= 4}
               IN {Text("keyvals", KeyVals(ps)) : ps \in {<<p, q>> : p \in kvs, q \in short}
                                                        \cup UpTo(short, 2)}

Plains == {Rune("a"), Plain(<<"=", "b">>), Joined(<<Escaped("b", {}), Rune("a")>>)}
Words == Plains \cup {Joined(<<Escaped(" ", {" ", "\""}), Rune("c")>>),
                      Joined(<<Escaped("\"", {" ", "\""}), Rune("c")>>)}
ArgTexts == {Text("args", Joined(<<Argument(p), Gap, Gap, Argument(q), Gap, Argument(w)>>)) :
                p \in Words \cup QuotedValues, q \in QuotedValues, w \in Words}
            \* the last byte of the character ends the word
            \cup {Text("args", Joined(<<Argument(p), Gap, Piece(<<"a", "agrave", "b">>,
                                      << <<"a", "xC3">>, <<"b">> >>)>>)) : p \in Words}

(* For a shell everything but the spaces between words is kept. *)
Shells == Plains \cup {Plain(q.runes) : q \in QuotedValues}
Operators == {Plain(<<"&">>), Plain(<<"|", "|">>), Plain(<<";">>)}
ShellTexts == {Text("shell", Joined(<<Argument(p)>> \o before \o <<Argument(o)>> \o after)) :
                  p \in Shells, o \in Operators, before \in {<<>>, <<Gap>>},
                  after \in {<<Gap>>, <<Argument(Plain(<<"=", "b">>))>>}
                            \cup {<<Gap, Argument(q)>> : q \in Shells}}

Bad(reader, ts) == {Malformed(reader, t) : t \in ts}
BadVars == {<<"$", "{", "a">>, <<"$", "{", "$", "a">>, <<"$", "{", "a", ":", "a", "}">>,
            <<"$", "{", "a", ":", "-", "}">>, <<"$", "{", ":", "-", "a", "}">>}
BadKeyVals == {A, <<"a", "=">>, <<"a", " ", "=", "b">>, <<"=", "b">>, <<"a", "=", "\"", "b">>,
               <<"a", "=", "\"", "b", "\"", "c", "=", "b">>}
BadArgs == {<<"\"", "a">>, <<"\"", "a", "\"", "b">>}

MCTexts == [vars |-> VarTexts \cup Bad("vars", BadVars),
            keyvals |-> KeyValTexts \cup Bad("keyvals", BadKeyVals),
            args |-> ArgTexts \cup Bad("args", BadArgs),
            shell |-> ShellTexts \cup Bad("shell", BadArgs)]
=================================================================================
