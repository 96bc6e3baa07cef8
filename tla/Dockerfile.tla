------------------------------ MODULE Dockerfile ------------------------------
(***************************************************************************)
(* What the directives of a Dockerfile say, followed from the file to the  *)
(* image config and to the commands: ParseFile with its parsing state      *)
(* (lib/parser/dockerfile), which replaces the variables it knows, and     *)
(* the steps of the stages (lib/builder/step), which expand what is left   *)
(* from the environment of the process.                                    *)
(*                                                                         *)
(* A line is [d, key, value]: its directive, the name that an ARG, ENV or  *)
(* LABEL line is about, and a value.  A value is a sequence of atoms; an   *)
(* atom in Names is a reference to the variable of that name, and quotes   *)
(* and colons are atoms too.  How lines are read from text is in           *)
(* DockerfileText, layers are left to BuildStage.                          *)
(***************************************************************************)
EXTENDS Integers, Sequences, FiniteSets, SequencesExt

CONSTANTS
    Names,      \* of variables
    HostEnv,    \* the environment makisu is started in
    Images,     \* the configs of the images that can be pulled
    Scratch,    \* the name of the image without layers
    Passed,     \* the values of --build-arg
    Unset,      \* what an ARG line has that is given no value
    Files,      \* sequences of lines
    EveryFile   \* whether files that are read twice differently are built too

VARIABLES
    file,       \* the Dockerfile
    next,       \* the line to parse
    globalArgs, stageVars, stages,      \* the parsing state
    phase,      \* "parse", "build", "done" or "failed"
    stage,      \* the stage that is built
    node,       \* its last step that is finished: 0 is FROM, -1 none
    ctxVars,    \* the StageVars of its context
    env,        \* the environment of the process
    config,     \* the config after that step
    images,     \* the configs of the stages that are finished
    seen        \* what the last command was run with

parsed == <<next, globalArgs, stageVars, stages>>
built == <<stage, node, ctxVars, env, config, images, seen>>
vars == <<file, phase, parsed, built>>

Empty == [n \in {} |-> <<>>]
Set(f, name, value) == [n \in DOMAIN f \cup {name} |-> IF n = name THEN value ELSE f[n]]
Merge(old, new) == [n \in DOMAIN old \cup DOMAIN new |-> IF n \in DOMAIN new THEN new[n] ELSE old[n]]

(* replaceVariables leaves what it does not know. *)
Replace(value, known) ==
    FlattenSeq([i \in DOMAIN value |->
                IF value[i] \in DOMAIN known THEN known[value[i]] ELSE <<value[i]>>])

(* os.ExpandEnv takes what is not set for empty. *)
Expand(value, known) ==
    FlattenSeq([i \in DOMAIN value |->
                IF value[i] \in DOMAIN known THEN known[value[i]]
                ELSE IF value[i] \in Names THEN <<>> ELSE <<value[i]>>])

Replaced == {"cmd", "entrypoint", "healthcheck", "user"}    \* the last one counts
Verbatim == {"maintainer", "stopsignal"}                    \* so it does, without variables
Gathered == {"expose", "volume"}                            \* all of them count
NeedsValue == {"from", "env", "user", "workdir", "label", "expose", "volume"}

-----------------------------------------------------------------------------
(* ParseFile *)

Start ==
    /\ file \in Files
    /\ next = 1 /\ globalArgs = Empty /\ stageVars = Empty /\ stages = <<>>
    /\ phase = "parse"
    /\ stage = 1 /\ node = -1 /\ ctxVars = Empty /\ env = HostEnv
    /\ config = [env |-> Empty, dir |-> <<>>, fields |-> Empty, maps |-> Empty]
    /\ images = <<>> /\ seen = <<>>

Line == file[next]
Parses(directives) ==
    /\ phase = "parse" /\ next <= Len(file) /\ Line.d \in directives
    /\ next' = next + 1
    /\ UNCHANGED <<file, built>>

BeforeFrom == stages = <<>>
AddToCurrStage(d) ==
    stages' = [stages EXCEPT ![Len(stages)].directives = Append(@, d)]

(* The value that is passed counts before the default, and a global one    *)
(* before both.                                                            *)
Resolved(name, default) ==
    IF ~BeforeFrom /\ name \in DOMAIN globalArgs THEN globalArgs[name]
    ELSE IF name \in DOMAIN Passed THEN Passed[name]
    ELSE IF default = <<>> THEN Unset ELSE default

(* Where a default comes out empty, "key=" is taken for the name.          *)
ParseArg ==
    /\ Parses({"arg"})
    /\ LET default == Replace(Line.value, IF BeforeFrom THEN globalArgs ELSE stageVars)
           value == IF Line.value # <<>> /\ default = <<>> THEN Unset ELSE Resolved(Line.key, default)
           Given(f) == IF value = Unset THEN f ELSE Set(f, Line.key, value)
       IN IF BeforeFrom
          THEN globalArgs' = Given(globalArgs) /\ UNCHANGED <<stageVars, stages>>
          ELSE /\ stageVars' = Given(stageVars)
               /\ AddToCurrStage([Line EXCEPT !.value = value])
               /\ UNCHANGED globalArgs
    /\ UNCHANGED phase

(* Mutant: the variables of the stage before are still known. *)
VarsKept == stageVars

VarsOfNewStage == Empty

replaceVarsCurrStage == Replace(Line.value, stageVars)

ParseFrom ==
    /\ Parses({"from"}) /\ Replace(Line.value, globalArgs) # <<>>
    /\ stages' = Append(stages, [from |-> Replace(Line.value, globalArgs), directives |-> <<>>])
    /\ stageVars' = VarsOfNewStage
    /\ UNCHANGED <<globalArgs, phase>>

ParseEnv ==
    /\ Parses({"env"}) /\ ~BeforeFrom
    /\ replaceVarsCurrStage # <<>>
    /\ stageVars' = Set(stageVars, Line.key, replaceVarsCurrStage)
    /\ AddToCurrStage([Line EXCEPT !.value = replaceVarsCurrStage])
    /\ UNCHANGED <<globalArgs, phase>>

ParseLine(d, value) ==
    /\ Parses({d}) /\ ~BeforeFrom
    /\ d \in NeedsValue => value # <<>>
    /\ AddToCurrStage([Line EXCEPT !.value = value])
    /\ UNCHANGED <<globalArgs, stageVars, phase>>

ParseRun == ParseLine("run", replaceVarsCurrStage)
ParseWorkdir == ParseLine("workdir", replaceVarsCurrStage)
ParseUser == ParseLine("user", replaceVarsCurrStage)
ParseCmd == ParseLine("cmd", replaceVarsCurrStage)
ParseEntrypoint == ParseLine("entrypoint", replaceVarsCurrStage)
ParseHealthcheck == ParseLine("healthcheck", replaceVarsCurrStage)
ParseLabel == ParseLine("label", replaceVarsCurrStage)
ParseExpose == ParseLine("expose", replaceVarsCurrStage)
ParseVolume == ParseLine("volume", replaceVarsCurrStage)
ParseMaintainer == ParseLine("maintainer", Line.value)
ParseStopsignal == ParseLine("stopsignal", Line.value)

ParseFails ==
    /\ phase = "parse" /\ next <= Len(file)
    /\ \/ Line.d \notin {"arg", "from"} /\ BeforeFrom
       \/ Line.d = "from" /\ Replace(Line.value, globalArgs) = <<>>
       \/ Line.d \in NeedsValue \ {"from"} /\ replaceVarsCurrStage = <<>>
    /\ phase' = "failed"
    /\ UNCHANGED <<file, parsed, built>>

EndOfFile ==
    /\ phase = "parse" /\ next > Len(file)
    /\ phase' = "build"
    /\ UNCHANGED <<file, parsed, built>>

-----------------------------------------------------------------------------
(* Execute of the plan: the nodes of a stage, stage by stage *)

Stage == stages[stage]
Directive == Stage.directives[node + 1]

(* A file without stages is not refused: there is no last one to save.     *)
NoStage ==
    /\ phase = "build" /\ stages = <<>>
    /\ phase' = "failed"
    /\ UNCHANGED <<file, parsed, built>>

(* strconv.Unquote, of a text in quotes with no quotes in it. *)
Quote == "\""
Unquote(value) ==
    LET inner == SubSeq(value, 2, Len(value) - 1)
    IN IF value = <<Quote>> \o inner \o <<Quote>> /\ Quote \notin ToSet(inner) THEN inner ELSE value

(* The variables of the stage enter the environment in the order of a Go   *)
(* map, each expanded from the environment as it is by then.               *)
SetEnvFromContext ==
    LET unquoted == [n \in DOMAIN ctxVars |-> Unquote(ctxVars[n])]
    IN IF \A n \in DOMAIN ctxVars : ToSet(ctxVars[n]) \cap Names = {}
       THEN {Merge(env, unquoted)}
       ELSE {FoldLeft(LAMBDA e, n : Set(e, n, Expand(unquoted[n], e)), env, order) :
                order \in SetToSeqs(DOMAIN ctxVars)}

Building(directives) ==
    /\ phase = "build" /\ node >= 0 /\ node < Len(Stage.directives)
    /\ Directive.d \in directives
    /\ node' = node + 1
    /\ UNCHANGED <<file, phase, parsed, stage, images>>

(* ApplyCtxAndConfig, for a step of one of these directives. *)
Applies(directives) ==
    /\ Building(directives)
    /\ env' \in SetEnvFromContext

(* FROM: the variables of the image are those of the stage; scratch has a  *)
(* config and no variables.                                                *)
BuildFrom ==
    /\ phase = "build" /\ node = -1 /\ stages # <<>> /\ Stage.from \in DOMAIN Images
    /\ node' = 0
    /\ config' = Images[Stage.from]
    /\ ctxVars' = IF Stage.from = Scratch THEN Empty ELSE Images[Stage.from].env
    /\ UNCHANGED <<file, phase, parsed, stage, env, images, seen>>

PullFails ==
    /\ phase = "build" /\ node = -1 /\ stages # <<>> /\ Stage.from \notin DOMAIN Images
    /\ phase' = "failed"
    /\ UNCHANGED <<file, parsed, built>>

BuildArg ==
    /\ Applies({"arg"})
    /\ ctxVars' = IF Directive.value = Unset THEN ctxVars
                  ELSE Set(ctxVars, Directive.key, Directive.value)
    /\ UNCHANGED <<config, seen>>

BuildEnv ==
    /\ Applies({"env"})
    /\ ctxVars' = Set(ctxVars, Directive.key, Directive.value)
    /\ config' = [config EXCEPT !.env = Set(@, Directive.key, Expand(Directive.value, env'))]
    /\ UNCHANGED seen

Root == <<"/">>
IsAbs(path) == path # <<>> /\ path[1] = "/"

BuildWorkdir ==
    /\ Applies({"workdir"})
    /\ LET dir == Expand(Directive.value, env')
       IN config' = [config EXCEPT !.dir = IF IsAbs(dir) THEN dir ELSE @ \o dir]
    /\ UNCHANGED <<ctxVars, seen>>

UserOf(c) == IF "user" \in DOMAIN c.fields THEN c.fields["user"] ELSE <<>>

(* ExecCommand appends the home of the user, who is named before a colon.  *)
Home(user) ==
    LET colons == {i \in DOMAIN user : user[i] = ":"}
    IN <<"/home/">> \o SubSeq(user, 1, Min(colons \cup {Len(user) + 1}) - 1)
WithHome(e, user) == IF user = <<>> THEN e ELSE Set(e, "HOME", Home(user))

(* What the parser left of the command is expanded by its shell. *)
BuildRun ==
    /\ Applies({"run"})
    /\ LET e == WithHome(env', UserOf(config))
       IN seen' = [env |-> e, user |-> UserOf(config),
                   dir |-> IF config.dir = <<>> THEN Root ELSE config.dir,
                   cmd |-> Expand(Directive.value, e)]
    /\ UNCHANGED <<ctxVars, config>>

SetField(d) ==
    /\ Applies({d})
    /\ config' = [config EXCEPT !.fields = Set(@, d, Directive.value)]
    /\ UNCHANGED <<ctxVars, seen>>

BuildUser == SetField("user")
BuildCmd == SetField("cmd")
BuildEntrypoint == SetField("entrypoint")
BuildHealthcheck == SetField("healthcheck")
BuildMaintainer == SetField("maintainer")
BuildStopsignal == SetField("stopsignal")

MergeMap(d, key, value) ==
    /\ Applies({d})
    /\ config' = [config EXCEPT !.maps = Set(@, <<d, key>>, value)]
    /\ UNCHANGED <<ctxVars, seen>>

BuildLabel == MergeMap("label", Directive.key, Directive.value)
BuildExpose == MergeMap("expose", Directive.value, <<>>)
BuildVolume == MergeMap("volume", Directive.value, <<>>)

(* Mutant: the next stage starts in the environment of this one. *)
EnvKept == env

EnvOfNextStage == HostEnv

EndOfStage ==
    /\ phase = "build" /\ node >= 0 /\ node = Len(Stage.directives)
    /\ images' = Append(images, config)
    /\ env' = EnvOfNextStage
    /\ ctxVars' = Empty
    /\ IF stage = Len(stages) THEN phase' = "done" /\ UNCHANGED <<stage, node>>
       ELSE phase' = phase /\ stage' = stage + 1 /\ node' = -1
    /\ UNCHANGED <<file, parsed, config, seen>>

ParseOther == \/ ParseRun \/ ParseWorkdir \/ ParseUser \/ ParseCmd \/ ParseEntrypoint
              \/ ParseHealthcheck \/ ParseLabel \/ ParseExpose \/ ParseVolume
              \/ ParseMaintainer \/ ParseStopsignal

BuildOther == \/ BuildUser \/ BuildCmd \/ BuildEntrypoint \/ BuildHealthcheck
              \/ BuildMaintainer \/ BuildStopsignal
              \/ BuildLabel \/ BuildExpose \/ BuildVolume

Next == \/ ParseArg \/ ParseFrom \/ ParseEnv \/ ParseOther \/ ParseFails \/ EndOfFile
        \/ NoStage \/ BuildFrom \/ PullFails \/ BuildArg \/ BuildEnv \/ BuildWorkdir \/ BuildRun
        \/ BuildOther \/ EndOfStage

-----------------------------------------------------------------------------
(* What a Dockerfile means, line by line: there is one scope of variables, *)
(* and a line is read in the scope that the lines before it leave.         *)

FromLines(f) == {i \in DOMAIN f : f[i].d = "from"}
FromLine(f, k) == CHOOSE i \in FromLines(f) : Cardinality(FromLines(f) \cap 1..i) = k
Body(f, k) ==
    SubSeq(f, FromLine(f, k) + 1,
           IF k = Cardinality(FromLines(f)) THEN Len(f) ELSE FromLine(f, k + 1) - 1)
Globals(f) == SubSeq(f, 1, Min(FromLines(f)) - 1)

(* An ARG takes what is passed, unless it has a default that is empty.     *)
TakesPassed(l, scope) ==
    l.key \in DOMAIN Passed /\ (l.value = <<>> \/ Replace(l.value, scope) # <<>>)

GlobalScope(f) ==
    LET Given(scope, l) ==
            IF TakesPassed(l, scope) THEN Set(scope, l.key, Passed[l.key])
            ELSE IF Replace(l.value, scope) = <<>> THEN scope ELSE Set(scope, l.key, Expand(l.value, scope))
    IN FoldLeft(Given, Empty, Globals(f))

Base(f, k) == Images[Expand(f[FromLine(f, k)].value, GlobalScope(f))]

(* The variables after the first i lines of a stage, as they are read. *)
ScopeFrom(start, f, k, i, Read(_, _)) ==
    LET Given(scope, l) ==
            CASE l.d = "arg" /\ TakesPassed(l, scope) -> Set(scope, l.key, Passed[l.key])
              [] l.d = "arg" /\ l.value = <<>> /\ l.key \notin DOMAIN Passed /\ l.key \in DOMAIN GlobalScope(f)
                    -> Set(scope, l.key, GlobalScope(f)[l.key])
              [] l.d = "env" \/ (l.d = "arg" /\ ~TakesPassed(l, scope) /\ Replace(l.value, scope) # <<>>)
                    -> Set(scope, l.key, Read(l.value, scope))
              [] OTHER -> scope
    IN FoldLeft(Given, start, SubSeq(Body(f, k), 1, i))
Scope(f, k, i) ==
    ScopeFrom(IF Base(f, k) = Images[Scratch] THEN Empty ELSE Base(f, k).env, f, k, i, Expand)

(* Those of them that its lines set: the parser writes them into a line.   *)
Written(f, k, i) ==
    LET scope == Scope(f, k, i)
    IN [n \in {l.key : l \in {Body(f, k)[j] : j \in {m \in 1..i : Body(f, k)[m].d \in {"arg", "env"}}}}
               \cap DOMAIN scope |-> scope[n]]

ValueOf(f, k, j) ==
    LET l == Body(f, k)[j]
    IN IF l.d \in Verbatim THEN l.value ELSE Expand(l.value, Scope(f, k, j - 1))

(* What the image had, and over it the last of the lines about each key. *)
Overlay(f, k, i, base, directives, Key(_)) ==
    LET Lines(x) == {j \in 1..i : Body(f, k)[j].d \in directives /\ Key(Body(f, k)[j]) = x}
    IN [x \in DOMAIN base \cup {Key(Body(f, k)[j]) : j \in {n \in 1..i : Body(f, k)[n].d \in directives}}
            |-> IF Lines(x) = {} THEN base[x] ELSE ValueOf(f, k, Max(Lines(x)))]

(* Working directories add up from the last absolute one. *)
DirOf(f, k, i) ==
    LET dirs == {j \in 1..i : Body(f, k)[j].d = "workdir"}
        start == Max({0} \cup {j \in dirs : IsAbs(ValueOf(f, k, j))})
    IN (IF start = 0 THEN Base(f, k).dir ELSE <<>>)
       \o FlattenSeq([j \in 1..i |-> IF j \in dirs /\ j >= start THEN ValueOf(f, k, j) ELSE <<>>])

Described(f, k, i) ==
    [env |-> Overlay(f, k, i, Base(f, k).env, {"env"}, LAMBDA l : l.key),
     dir |-> DirOf(f, k, i),
     fields |-> Overlay(f, k, i, Base(f, k).fields, Replaced \cup Verbatim, LAMBDA l : l.d),
     maps |-> Merge(Overlay(f, k, i, Base(f, k).maps, {"label"}, LAMBDA l : <<l.d, l.key>>),
                    [x \in {<<Body(f, k)[j].d, ValueOf(f, k, j)>> :
                              j \in {n \in 1..i : Body(f, k)[n].d \in Gathered}} |-> <<>>])]

Malformed(f) ==
    \/ FromLines(f) = {}
    \/ \E i \in 1..(Min(FromLines(f)) - 1) : f[i].d # "arg"
    \/ \E i \in FromLines(f) : Expand(f[i].value, GlobalScope(f)) \notin DOMAIN Images
    \/ \E k \in 1..Cardinality(FromLines(f)) : \E j \in DOMAIN Body(f, k) :
          /\ Body(f, k)[j].d \in NeedsValue
          /\ Replace(Body(f, k)[j].value, ScopeFrom(Empty, f, k, j - 1, Replace)) = <<>>

(* The program reads a line twice, when the file is parsed and when the    *)
(* step is built.  Both readings agree as long as a stage sets no variable *)
(* that a line before it reads, or the host has it, but for commands;      *)
(* no config field is given a variable that only the image sets, an ARG of *)
(* a stage with a default is not a global one too, and there is a          *)
(* directory a relative one is in.                                         *)
Refs(l) == ToSet(l.value) \cap Names
MaySet(l, name) == l.d \in {"arg", "env"} /\ l.key = name

ReadOnce(f, k) ==
    LET b == Body(f, k)
        Known(j) == {n \in Names : \E i \in 1..(j - 1) : MaySet(b[i], n) /\ n \in DOMAIN Scope(f, k, i)}
        Given == DOMAIN Passed \cup DOMAIN GlobalScope(f)
        whole[j \in 0..Len(b)] ==
            IF j = 0 THEN {}
            ELSE IF b[j].d \notin {"arg", "env"} THEN whole[j - 1]
            ELSE IF b[j].d = "arg" /\ b[j].value = <<>> /\ b[j].key \notin Given THEN whole[j - 1]
            ELSE IF Refs(b[j]) \subseteq whole[j - 1] THEN whole[j - 1] \cup {b[j].key}
            ELSE whole[j - 1] \ {b[j].key}
    IN \A j \in DOMAIN b :
          /\ b[j].d # "run" => \A n \in Refs(b[j]) \ Known(j) :
                n \notin DOMAIN HostEnv /\ \A i \in j..Len(b) : ~MaySet(b[i], n)
          /\ b[j].d \in Replaced \cup Gathered \cup {"label"} => Refs(b[j]) \subseteq whole[j - 1] \cap Known(j)
          /\ b[j].d = "arg" /\ b[j].value # <<>> => b[j].key \notin DOMAIN GlobalScope(f)
          /\ b[j].d = "workdir" /\ DirOf(f, k, j - 1) = <<>> => IsAbs(ValueOf(f, k, j))

ReadAlike(f) ==
    /\ \A i \in DOMAIN Globals(f) : Refs(Globals(f)[i]) \subseteq {Globals(f)[j].key : j \in 1..(i - 1)}
    /\ \A k \in 1..Cardinality(FromLines(f)) : ReadOnce(f, k)

Init == Start /\ (~EveryFile /\ ~Malformed(file) => ReadAlike(file))

Spec == Init /\ [][Next]_vars

-----------------------------------------------------------------------------
(* Properties *)

(* However the lines use each other's variables, the config of a stage is  *)
(* what its own lines say, in their order and in the scope of the stage,   *)
(* over the config of its image: the environment the parser and the steps  *)
(* work out together, the working directory, and every other field.  No    *)
(* variable of another stage gets in, and no ARG gets into the image.  A   *)
(* build of a well formed file does not fail.                              *)
ImagesAreDescribed ==
    /\ \A k \in DOMAIN images : images[k] = Described(file, k, Len(Body(file, k)))
    /\ phase = "failed" => Malformed(file)

(* A command runs with the variables of its stage as the lines before it   *)
(* leave them, those of its image included, without the quotes they may    *)
(* have; over the environment makisu was started in, whatever the stages   *)
(* before have set; with the home of its user, if one is named, whatever   *)
(* the lines say of HOME (ExecCommand); and with nothing else.  In its     *)
(* text the variables that the lines set are written out, HOME too, and    *)
(* the shell finds the others.  It runs as the user and in the directory   *)
(* the lines before it name.                                               *)
CommandsSeeTheirStage ==
    phase = "build" /\ node > 0 /\ Stage.directives[node].d = "run" =>
        LET c == Described(file, stage, node - 1)
            scope == Scope(file, stage, node - 1)
            unquoted == [n \in DOMAIN scope |-> Unquote(scope[n])]
            e == WithHome(Merge(HostEnv, unquoted), UserOf(c))
        IN seen = [env |-> e,
                   user |-> UserOf(c),
                   dir |-> IF c.dir = <<>> THEN Root ELSE c.dir,
                   cmd |-> Expand(Body(file, stage)[node].value,
                                  Merge(e, Written(file, stage, node - 1)))]
=============================================================================
