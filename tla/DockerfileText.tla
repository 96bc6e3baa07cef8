---------------------------- MODULE DockerfileText ----------------------------
(***************************************************************************)
(* The three readers of the Dockerfile parser (lib/parser/dockerfile) that *)
(* take a text rune by rune: replaceVariables, parseKeyVals, splitArgs     *)
(* (twice, as words and as a shell command).  Each is an automaton; a      *)
(* state here is a record whose mode is the Go type of the state.  The     *)
(* second half of the module writes texts down with what they mean.  What  *)
(* they mean is what docs/PARSER.md says, but for three things:            *)
(*   - ${v:-d} and ${v:+d}, which it has the other way round (line 16): the *)
(*     module takes Docker's rule, as replace_variables_test.go does;      *)
(*   - a variable that is not set is not passed through as it is written   *)
(*     (line 21) where other variables are in its name: these are replaced; *)
(*   - a character that is not ASCII is read byte by byte, and each byte   *)
(*     comes out as the character of its number.                           *)
(***************************************************************************)
EXTENDS Integers, Sequences, SequencesExt, TLC

CONSTANTS
    Vars,       \* the variables to replace: a function from names to values
    NameRunes,  \* letters, digits, '-', '_' and '.', and bytes that are such as runes
    SpaceRunes, \* unicode.IsSpace: the blank, and bytes that are such as runes
    Bytes,      \* the characters that are not ASCII, each with its bytes
    Texts       \* for each reader the texts it reads: [reader, runes, meaning]

VARIABLES
    text,       \* the text
    rest,       \* the bytes of it that have not been read
    state       \* of the reader; of mode "done" or "error" at the end

vars == <<text, rest, state>>

IsSpace(r) == r \in SpaceRunes
IsOperator(r) == r \in {"&", "|", ";"}
Error == [mode |-> "error"]
Done(output) == [mode |-> "done", output |-> output]
Go(s, mode) == [s EXCEPT !.mode = mode]

-----------------------------------------------------------------------------
(* replaceVariables *)

Unbraced(name) == <<"$">> \o name
Braced(name) == <<"$", "{">> \o name \o <<"}">>

(* Mutant: a variable that is not known is taken for empty. *)
ResolveToNothing(s, unknown) ==
    IF s.var \in DOMAIN Vars THEN Vars[s.var] ELSE IF s.cmd = "-" THEN s.default ELSE <<>>

(* resolveCurrVar: the value, the default, or what was written. *)
Resolve(s, unknown) ==
    LET known == s.var \in DOMAIN Vars
    IN IF s.cmd = "-" THEN IF known THEN Vars[s.var] ELSE s.default
       ELSE IF s.cmd = "+" THEN IF known THEN s.default ELSE <<>>
       ELSE IF known THEN Vars[s.var] ELSE unknown

ReplaceVariables == [mode |-> "none", result |-> <<>>, var |-> <<>>, inProgress |-> <<>>,
                     cmd |-> "", default |-> <<>>, escaped |-> FALSE]

Append1(s, t) == [s EXCEPT !.result = @ \o t]
Reset(s) == [s EXCEPT !.var = <<>>, !.cmd = "", !.default = <<>>]
Resolved(s, unknown) == Reset(Append1(s, Resolve(s, unknown)))

None(s, r) ==
    IF s.escaped
    THEN Append1([s EXCEPT !.escaped = FALSE], IF r = "$" THEN <<r>> ELSE <<"\\", r>>)
    ELSE IF r = "\\" THEN [s EXCEPT !.escaped = TRUE]
    ELSE IF r = "$" THEN Go(s, "dollar")
    ELSE Append1(s, <<r>>)

Dollar(s, r) ==
    IF r = "{" THEN Go(s, "bracket") ELSE Go([s EXCEPT !.var = Append(@, r)], "var")

(* The variable that ends gives a part of the name of the one around it. *)
Return(s, unknown) ==
    [s EXCEPT !.var = Last(s.inProgress) \o Resolve(s, unknown), !.inProgress = Front(@)]

Var(s, r) ==
    IF r \in NameRunes THEN [s EXCEPT !.var = Append(@, r)]
    ELSE IF s.inProgress = <<>>
    THEN LET w == Resolved(s, Unbraced(s.var))
         IN IF r = "\\" THEN Go([w EXCEPT !.escaped = TRUE], "none")
            ELSE IF r = "$" THEN Go(w, "dollar")
            ELSE Go(Append1(w, <<r>>), "none")
    ELSE LET u == Return(s, Unbraced(s.var))
         IN IF r = "}" /\ u.inProgress = <<>> THEN Go(Resolved(u, Braced(u.var)), "none")
            ELSE IF r # ":" THEN Go(u, "bracket")
            ELSE IF u.inProgress = <<>> THEN Go(u, "colon") ELSE Error

VarBracket(s, r) ==
    IF r = "$" THEN Go([s EXCEPT !.inProgress = Append(@, s.var), !.var = <<>>], "dollar")
    ELSE IF r = ":" THEN IF s.var = <<>> THEN Error ELSE Go(s, "colon")
    ELSE IF r # "}" THEN [s EXCEPT !.var = Append(@, r)]
    ELSE IF s.inProgress = <<>> THEN Go(Resolved(s, Braced(s.var)), "none")
    ELSE Return(s, Braced(s.var))

VarColon(s, r) ==
    IF s.cmd = "" THEN IF r \in {"-", "+"} THEN [s EXCEPT !.cmd = r] ELSE Error
    ELSE IF s.escaped
    THEN [s EXCEPT !.escaped = FALSE, !.default = @ \o (IF r = "}" THEN <<r>> ELSE <<"\\", r>>)]
    ELSE IF r = "\\" THEN [s EXCEPT !.escaped = TRUE]
    ELSE IF r # "}" THEN [s EXCEPT !.default = Append(@, r)]
    ELSE IF s.default = <<>> THEN Error
    ELSE Go(Resolved(s, <<>>), "none")

EndOfReplace(s) ==
    CASE s.mode = "none" -> Done(s.result)
      [] s.mode = "dollar" -> Done(s.result \o <<"$">>)
      [] s.mode = "var" /\ s.inProgress = <<>> -> Done(s.result \o Resolve(s, Unbraced(s.var)))
      [] OTHER -> Error

-----------------------------------------------------------------------------
(* parseKeyVals *)

NoVals == [k \in {} |-> <<>>]
ParseKeyVals == [mode |-> "space", vars |-> NoVals, key |-> <<>>, val |-> <<>>, escaped |-> FALSE]

Consume(s) == [s EXCEPT !.vars = (s.key :> s.val) @@ @, !.key = <<>>, !.val = <<>>]
AddToVal(s, t) == [s EXCEPT !.val = @ \o t, !.escaped = FALSE]

Space(s, r) ==
    IF IsSpace(r) THEN s
    ELSE IF r \in NameRunes THEN Go([s EXCEPT !.key = <<r>>], "key") ELSE Error

Key(s, r) ==
    IF r = "=" THEN Go(s, "equals")
    ELSE IF r \in NameRunes THEN [s EXCEPT !.key = Append(@, r)] ELSE Error

Equals(s, r) ==
    IF r = "\"" THEN Go(s, "quote")
    ELSE IF r = "\\" THEN Go([s EXCEPT !.escaped = TRUE], "val")
    ELSE Go(AddToVal(s, <<r>>), "val")

Val(s, r) ==
    IF s.escaped THEN AddToVal(s, IF IsSpace(r) \/ r = "\"" THEN <<r>> ELSE <<"\\", r>>)
    ELSE IF r = "\\" THEN [s EXCEPT !.escaped = TRUE]
    ELSE IF ~IsSpace(r) THEN AddToVal(s, <<r>>)
    ELSE IF s.val = <<>> THEN Error ELSE Go(Consume(s), "space")

ValQuote(s, r) ==
    IF s.escaped THEN AddToVal(s, IF r = "\"" THEN <<r>> ELSE <<"\\", r>>)
    ELSE IF r = "\\" THEN [s EXCEPT !.escaped = TRUE]
    ELSE IF r = "\"" THEN Go(Consume(s), "end quote")
    ELSE AddToVal(s, <<r>>)

ValEndQuote(s, r) == IF IsSpace(r) THEN Go(s, "space") ELSE Error

EndOfKeyVals(s) ==
    CASE s.mode \in {"space", "end quote"} -> Done(s.vars)
      [] s.mode = "val" /\ s.val # <<>> -> Done(Consume(s).vars)
      [] OTHER -> Error

-----------------------------------------------------------------------------
(* splitArgs *)

SplitArgs(forShell) ==
    [mode |-> "arg space", args |-> <<>>, arg |-> <<>>, escaped |-> FALSE, forShell |-> forShell]

AddToArg(s, t) == [s EXCEPT !.arg = @ \o t, !.escaped = FALSE]
TakeArg(s) == [s EXCEPT !.args = Append(@, s.arg), !.arg = <<>>]
KeptQuote(s) == IF s.forShell THEN AddToArg(s, <<"\"">>) ELSE s

(* A shell operator ends the word before it. *)
Operator(s, r) == Go([(IF s.arg = <<>> THEN s ELSE TakeArg(s)) EXCEPT !.arg = <<r>>], "shell")

ArgSpace(s, r) ==
    IF IsSpace(r) THEN s
    ELSE IF r = "\"" THEN Go(KeptQuote(s), "arg quote")
    ELSE IF r = "\\" THEN Go([s EXCEPT !.escaped = TRUE], "arg")
    ELSE IF s.forShell /\ IsOperator(r) THEN Operator(s, r)
    ELSE Go(AddToArg(s, <<r>>), "arg")

Arg(s, r) ==
    IF s.escaped THEN AddToArg(s, IF IsSpace(r) \/ r = "\"" THEN <<r>> ELSE <<"\\", r>>)
    ELSE IF IsSpace(r) THEN Go(TakeArg(s), "arg space")
    ELSE IF s.forShell /\ IsOperator(r) THEN Operator(s, r)
    ELSE AddToArg(s, <<r>>)

ArgQuote(s, r) ==
    IF s.escaped THEN AddToArg(s, IF r = "\"" /\ ~s.forShell THEN <<r>> ELSE <<"\\", r>>)
    ELSE IF r = "\\" THEN [s EXCEPT !.escaped = TRUE]
    ELSE IF r = "\"" THEN Go(TakeArg(KeptQuote(s)), "arg end quote")
    ELSE AddToArg(s, <<r>>)

ArgEndQuote(s, r) ==
    IF IsSpace(r) THEN Go(s, "arg space")
    ELSE IF (s.forShell /\ r = "&") \/ r \in {"|", ";"} THEN Operator(s, r) ELSE Error

(* After an operator the first rune of a word is kept in the state that is *)
(* between words.                                                          *)
ShellCharacters(s, r) ==
    IF ~s.forShell THEN Error
    ELSE IF IsOperator(r) THEN AddToArg(s, <<r>>)
    ELSE IF IsSpace(r) THEN Go(TakeArg(s), "arg space")
    ELSE Go(AddToArg(TakeArg(s), <<r>>), "arg space")

EndOfArgs(s) ==
    CASE s.mode = "arg" -> Done(TakeArg(s).args)
      [] s.mode = "arg quote" -> Error
      [] OTHER -> Done(s.args)

-----------------------------------------------------------------------------
(* The loop over a text: rune(input[i]) is a byte of it, not a rune. *)

BytesOf(runes) ==
    FlattenSeq([i \in DOMAIN runes |-> IF runes[i] \in DOMAIN Bytes THEN Bytes[runes[i]] ELSE <<runes[i]>>])

NextRune(s, r) ==
    CASE s.mode = "none" -> None(s, r)
      [] s.mode = "dollar" -> Dollar(s, r)
      [] s.mode = "var" -> Var(s, r)
      [] s.mode = "bracket" -> VarBracket(s, r)
      [] s.mode = "colon" -> VarColon(s, r)
      [] s.mode = "space" -> Space(s, r)
      [] s.mode = "key" -> Key(s, r)
      [] s.mode = "equals" -> Equals(s, r)
      [] s.mode = "val" -> Val(s, r)
      [] s.mode = "quote" -> ValQuote(s, r)
      [] s.mode = "end quote" -> ValEndQuote(s, r)
      [] s.mode = "arg space" -> ArgSpace(s, r)
      [] s.mode = "arg" -> Arg(s, r)
      [] s.mode = "arg quote" -> ArgQuote(s, r)
      [] s.mode = "arg end quote" -> ArgEndQuote(s, r)
      [] s.mode = "shell" -> ShellCharacters(s, r)

Start(reader) ==
    CASE reader = "vars" -> ReplaceVariables
      [] reader = "keyvals" -> ParseKeyVals
      [] reader = "args" -> SplitArgs(FALSE)
      [] reader = "shell" -> SplitArgs(TRUE)

End(reader, s) ==
    CASE reader = "vars" -> EndOfReplace(s)
      [] reader = "keyvals" -> EndOfKeyVals(s)
      [] OTHER -> EndOfArgs(s)

Finished == state.mode \in {"done", "error"}

Init ==
    /\ \E reader \in DOMAIN Texts : text \in Texts[reader]
    /\ rest = BytesOf(text.runes)
    /\ state = Start(text.reader)

ReadRune ==
    /\ ~Finished /\ rest # <<>>
    /\ state' = NextRune(state, Head(rest))
    /\ rest' = Tail(rest)
    /\ UNCHANGED text

EndOfInput ==
    /\ ~Finished /\ rest = <<>>
    /\ state' = End(text.reader, state)
    /\ UNCHANGED <<text, rest>>

Next == ReadRune \/ EndOfInput

Spec == Init /\ [][Next]_vars

-----------------------------------------------------------------------------
(* The texts and what they mean.  A piece of a text has the runes it is    *)
(* written with and the runes it stands for.                               *)

Piece(runes, meaning) == [runes |-> runes, meaning |-> meaning]
Plain(runes) == Piece(runes, BytesOf(runes))
Escaped(r, specials) == Piece(<<"\\", r>>, IF r \in specials THEN <<r>> ELSE <<"\\", r>>)
Joined(ps) == Piece(FlattenSeq([i \in DOMAIN ps |-> ps[i].runes]),
                    FlattenSeq([i \in DOMAIN ps |-> ps[i].meaning]))

ValueOr(name, other) == IF name \in DOMAIN Vars THEN Vars[name] ELSE other

(* $name, ${key}, ${key:-default} and ${key:+default}; a name that is not  *)
(* known stays as it is written, but for the variables in it.              *)
Name(name) == Piece(Unbraced(name), ValueOr(name, Unbraced(name)))
InBraces(key) == Piece(Braced(key.runes), ValueOr(key.meaning, Braced(key.meaning)))
OrDefault(key, default) ==
    Piece(Braced(key.runes \o <<":", "-">> \o default.runes), ValueOr(key.meaning, default.meaning))
IfSet(key, default) ==
    Piece(Braced(key.runes \o <<":", "+">> \o default.runes),
          IF key.meaning \in DOMAIN Vars THEN default.meaning ELSE <<>>)

(* $name ends at a rune that is not in a name. *)
EndsInName(p) == p.runes[1] = "$" /\ p.runes[2] # "{"
Separated(ps) ==
    \A i \in 1..(Len(ps) - 1) : EndsInName(ps[i]) => BytesOf(ps[i + 1].runes)[1] \notin NameRunes

Quoted(p) == Piece(<<"\"">> \o p.runes \o <<"\"">>, p.meaning)
KeyVal(key, value) == Piece(key \o <<"=">> \o value.runes, key :> value.meaning)
KeyVals(kvs) ==                                             \* the last value of a key counts
    Piece(FlattenSeq([i \in DOMAIN kvs |-> kvs[i].runes \o <<" ">>]),
          FoldLeft(LAMBDA f, kv : kv.meaning @@ f, NoVals, kvs))
(* A list of arguments is joined from arguments, operators and spaces.     *)
Argument(p) == Piece(p.runes, <<p.meaning>>)
Gap == Piece(<<" ">>, <<>>)

Text(reader, p) == [reader |-> reader, runes |-> p.runes, meaning |-> Done(p.meaning)]
Malformed(reader, runes) == [reader |-> reader, runes |-> runes, meaning |-> Error]

-----------------------------------------------------------------------------
(* Properties *)

(* However runes are quoted, escaped, nested and joined, a reader ends     *)
(* with what the text means: every variable that is set is replaced, and   *)
(* only those; keys, values and arguments come out whole and in order,     *)
(* without their quotes and escapes unless a shell is to read them; and it *)
(* refuses the malformed texts, and only those (replaceVariables,          *)
(* parseKeyVals, splitArgs).                                               *)
ReadAsMeant == Finished => state = text.meaning
=============================================================================
