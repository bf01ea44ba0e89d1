------------------------------ MODULE MCParse ------------------------------
(* Every source of at most MaxLength statements over a small alphabet, and *)
(* the longer sources in which forks, conditional text, filters and code   *)
(* meet, each under several command lines.                                 *)
EXTENDS Parse

CONSTANTS b1, b2,        \* build IDs
          x, y,          \* settings
          f1,            \* an output format
          M,             \* a macro of the source
          l1,
          MaxLength,
          MaxBuilds      \* bound on the builds of one target

Option_(k) == [kind |-> k]

Dir(op, arg) == [kind |-> "directive", d |-> [op |-> op, arg |-> arg, at |-> NoLine]]

DefineAs(name, body) ==
    [kind |-> "directive", d |-> [op |-> "define", arg |-> name, body |-> body, at |-> NoLine]]

Define(name) == DefineAs(name, "nonzero")

Bare(op) == [kind |-> "directive", d |-> [op |-> op, at |-> NoLine]]

Build(b) == [kind |-> "build", id |-> b]

Builds(entries) == [kind |-> "builds", entries |-> entries]

Settings(rows) == [kind |-> "settings", rows |-> rows]

Plain(name) == [name |-> name, defines |-> <<>>]

Defining(name) == [name |-> name, defines |-> <<[name |-> M, body |-> "nonzero"]>>]

CodeAt(l) ==
    [kind |-> "code",
     text |-> [uses |-> M, misfits |-> {}, reads |-> [b \in Bodies \cup {"undefined"} |-> l]]]

\* A line whose address is a macro; "zero" stands for one that takes arguments.
MacroCode(l) ==
    [kind |-> "code",
     text |-> [uses |-> M, misfits |-> {"zero"},
               reads |-> [b \in Bodies \cup {"undefined"} |->
                             IF b = "nonzero" THEN l ELSE [l EXCEPT !.addr = NoAddress]]]]

Byte == [kind |-> "data", width |-> 1, valid |-> TRUE]

Patch == CodeAt([form |-> "at", addr |-> 0, item |-> Byte])

PatchAtM == MacroCode([form |-> "at", addr |-> 1, item |-> Byte])

Bare_(item) == CodeAt([form |-> "plain", item |-> item])

Label == Bare_([kind |-> "label", name |-> l1])

Origin == CodeAt([form |-> "origin", addr |-> 0])

TwoBuilds == Builds(<<[id |-> b1, defines |-> <<>>],
                      [id |-> b2, defines |-> <<[name |-> M, body |-> "nonzero"]>>]>>)

OneRow == Settings(<<<<Plain(x), Defining(y)>>>>)

TwoRows == Settings(<<<<Plain(x), Defining(y)>>, <<Plain(y), Plain(x)>>>>)

EmptyRow == Settings(<<<<Plain(x), Defining(y)>>, <<>>>>)

Format == [kind |-> "format", value |-> f1]

Alphabet ==
    {Option_("version"), Build(b1), TwoBuilds, Builds(<<>>), OneRow, TwoRows, EmptyRow, Format,
     Dir("ifdef", M), Bare("else"), Define(M), Patch, PatchAtM, Bare("error")}

SkipIf(name, body) == <<Dir("ifdef", name)>> \o body \o <<Bare("endif")>>

\* Longer sources, each for an interaction the short ones cannot hold.
Curated == {
    \* one target has no build ID, the other none of the version
    <<Option_("name")>> \o SkipIf(EMULATOR, <<Build(b1)>>) \o SkipIf(HARDWARE, <<Option_("version")>>) \o <<Patch>>,
    \* a build ID for one target only, and code under an origin in the forks
    SkipIf(HARDWARE, <<TwoBuilds>>) \o <<Origin, Label, Bare_(Byte), Bare_(Byte)>>,
    \* code and a label shared by forks made later, then told apart by a macro
    <<Origin, Label, TwoBuilds, Bare_(Byte)>> \o SkipIf(M, <<Bare_(Byte)>>) \o <<OneRow, Label>>,
    \* choices in two statements, the second only where the first defined M
    <<Build(b1), OneRow>> \o SkipIf(M, <<TwoRows>>) \o <<Patch>>,
    \* as above, the choice being impossible in one branch
    <<Build(b1), OneRow>> \o SkipIf(M, <<EmptyRow>>) \o <<Patch>>,
    \* a fork inside an open block that no line closes
    <<Dir("ifdef", EMULATOR), TwoBuilds, Bare("else"), Build(b1), OneRow, Patch>>,
    \* a macro that forks define or redefine, used by a line of code
    <<Define(M), TwoBuilds, PatchAtM, OneRow, PatchAtM, Option_("version")>>,
    <<DefineAs(M, "zero"), TwoBuilds, PatchAtM, Option_("version")>>,
    \* errors and warnings no label tells apart, one of them in text no build reads
    <<Bare("error"), Build(b1), Bare("warning"), Option_("version"), Patch>>,
    SkipIf(M, <<Bare("warning")>>) \o <<TwoBuilds, Bare("error"), Option_("version"), Patch>>,
    \* the same choice twice
    <<Build(b1), Settings(<<<<Plain(x), Plain(x)>>>>), Patch>>,
    \* forks of forks of forks
    <<TwoBuilds, OneRow>> \o SkipIf(M, <<OneRow, Format, Format>>) \o <<Option_("version"), Patch>> }

\* How many builds a statement makes of one, at most.
Fan(st) == IF st \in {TwoBuilds, OneRow, EmptyRow} THEN 2 ELSE IF st = TwoRows THEN 4 ELSE 1

Fans(p) == FoldLeft(LAMBDA n, st : n * Fan(st), 1, p)

Programs ==
    {p \in UNION {[1..n -> Alphabet] : n \in 0..MaxLength} : Fans(p) <= MaxBuilds} \cup Curated

CommandLine(targets, defines, options) ==
    [targets |-> targets, defines |-> defines, forced |-> [build |-> NoBuild, options |-> options]]

Both == <<"Emulator", "Hardware">>

Commands == {
    CommandLine(Both, <<>>, <<>>),
    CommandLine(Both, <<>>, <<y>>),
    CommandLine(<<"Hardware">>, <<[name |-> M, body |-> "nonzero"]>>, <<y, x>>),
    CommandLine(<<"Hardware">>, <<[name |-> HARDWARE, body |-> "zero"]>>, <<x, y>>) }

MCSetups ==
    {[program |-> p, targets |-> c.targets, defines |-> c.defines, forced |-> c.forced] :
        p \in Programs, c \in Commands}
=============================================================================
