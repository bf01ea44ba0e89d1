----------------------------- MODULE SubState -----------------------------
(***************************************************************************)
(* One build still possible while a source is parsed: ParseSubState of     *)
(* src/parse.rs, and what one statement makes of it.  A statement returns  *)
(* [more, self, new]: whether to read on, the sub-state itself, and the    *)
(* forks it made.  Positions are statement numbers; 0 is the command line. *)
(*                                                                         *)
(* `said` collects the diagnostics of the statement being executed.        *)
(***************************************************************************)
EXTENDS PreprocessorState, CodeLines, SequencesExt

CONSTANTS EMULATOR, HARDWARE,   \* the macros the build targets define
          NoBuild, NoFormat

ASSUME TargetMacrosAreNames == {EMULATOR, HARDWARE} \subseteq Names

Targets == {"Emulator", "Hardware"}

TargetMacro == [Emulator |-> EMULATOR, Hardware |-> HARDWARE]

NewSubState ==
    [pos |-> 1, defines |-> NoDefines, activity |-> <<>>, target |-> "Emulator",
     named |-> FALSE, versioned |-> FALSE, build |-> NoBuild, buildAt |-> NoLine,
     settings |-> <<>>, format |-> NoFormat, formatAt |-> NoLine, code |-> NoCode,
     said |-> {}]

Say(s, D) == [s EXCEPT !.said = @ \cup D]

Silent(s) == [s EXCEPT !.said = {}]

Continue(s) == [more |-> TRUE, self |-> s, new |-> <<>>]

\* Dropping the build ID is what makes finish() return nothing.
EarlyExit(s) == [s EXCEPT !.build = NoBuild]

Stop(s) == [more |-> FALSE, self |-> EarlyExit(s), new |-> <<>>]

-----------------------------------------------------------------------------
(* Directives, and the definitions a fork starts with.                     *)

ExecDirective(s, d) ==
    [Say(s, ExecDiags(s.defines, s.activity, d)) EXCEPT
        !.defines  = ExecDefines(s.defines, d),
        !.activity = ExecActivity(s.defines, s.activity, d)]

Definition(def, line) == [op |-> "define", arg |-> def.name, body |-> def.body, at |-> line]

\* What is defined after the first n of defs.
DefinedBy(defines, defs, line) ==
    LET after[n \in 0..Len(defs)] ==
            IF n = 0 THEN defines ELSE ExecDefines(after[n - 1], Definition(defs[n], line))
    IN  after

DefineAll(s, defs, line) ==
    LET after == DefinedBy(s.defines, defs, line)
        said  == UNION {ExecDiags(after[n - 1], s.activity, Definition(defs[n], line)) : n \in 1..Len(defs)}
    IN  [Say(s, said) EXCEPT !.defines = after[Len(defs)]]

\* The closures the three forking statements hand to make_forks.
ForkTarget(s, target, line) ==
    DefineAll([s EXCEPT !.target = target],
              <<[name |-> TargetMacro[target], body |-> "nonzero"]>>, line)

ForkBuild(s, entry, line) ==
    DefineAll([s EXCEPT !.build = entry.id, !.buildAt = line], entry.defines, line)

ForkSetting(s, setting, line) ==
    DefineAll([s EXCEPT !.settings = Append(@, setting.name)], setting.defines, line)

Fork(kind, s, value, line) ==
    CASE kind = "target"  -> ForkTarget(s, value, line)
      [] kind = "build"   -> ForkBuild(s, value, line)
      [] kind = "setting" -> ForkSetting(s, value, line)

-----------------------------------------------------------------------------
(* make_forks: the first value goes to the sub-state itself, the others to *)
(* copies taken before it changes.  No value at all ends the build.        *)

\* Mutant: the copies are taken after the first value is applied.
MakeForks_Late(kind, s, values, line) ==
    IF values = <<>> THEN Stop(s)
    ELSE LET self == Fork(kind, s, values[1], line)
         IN  [more |-> TRUE, self |-> self,
              new |-> [i \in 1..(Len(values) - 1) |-> Fork(kind, self, values[i + 1], line)]]

MakeForks(kind, s, values, line) ==
    IF values = <<>> THEN Stop(s)
    ELSE [more |-> TRUE,
          self |-> Fork(kind, s, values[1], line),
          new  |-> [i \in 1..(Len(values) - 1) |-> Fork(kind, s, values[i + 1], line)]]

\* Mutant: the diagnostics met while defining a copy's macros are lost.
AllSaid_OwnOnly(r) == r.self.said

AllSaid(r) == r.self.said \cup UNION {r.new[i].said : i \in 1..Len(r.new)}

\* Mutant: the forks of the rows before the empty one are kept.
Abandon_KeepsForks(r) == [r EXCEPT !.more = FALSE, !.self = EarlyExit(@)]

\* A row nothing can be chosen from: the forks made so far are truncated away.
Abandon(r) == Stop(Say(r.self, AllSaid(r)))

\* One row of make_deep_forks: every fork made so far forks again, then the sub-state.
ForkRow(kind, r, row, line) ==
    LET others == [i \in 1..Len(r.new) |-> MakeForks(kind, r.new[i], row, line)]
        own    == MakeForks(kind, r.self, row, line)
    IN  IF row = <<>> THEN Abandon(r)
        ELSE [more |-> TRUE,
              self |-> own.self,
              new  |-> [i \in 1..Len(others) |-> others[i].self] \o
                       FlattenSeq([i \in 1..Len(others) |-> others[i].new]) \o own.new]

\* What is left after the first n rows.
ForkedBy(kind, s, rows, line) ==
    LET after[n \in 0..Len(rows)] ==
            IF n = 0 THEN Continue(s)
            ELSE IF after[n - 1].more THEN ForkRow(kind, after[n - 1], rows[n], line)
            ELSE after[n - 1]
    IN  after

MakeDeepForks(kind, s, rows, line) == ForkedBy(kind, s, rows, line)[Len(rows)]

-----------------------------------------------------------------------------
\* Iterator::filter and Vec::retain: what of seq is in S.
Retain(seq, S) ==
    LET kept[n \in 0..Len(seq)] ==
            IF n = 0 THEN <<>>
            ELSE IF seq[n] \in S THEN Append(kept[n - 1], seq[n])
            ELSE kept[n - 1]
    IN  kept[Len(seq)]

(* The statements.  An option in skipped text is read and ignored.         *)

Duplicate(kind, line, original) == {[kind |-> kind, at |-> line, original |-> original]}

TargetBuild(s, option, forced, line) ==
    IF s.build # NoBuild
      THEN Continue(Say(s, Duplicate("DuplicateBuildId", line, s.buildAt)))
    ELSE IF forced.build # NoBuild /\ option.id # forced.build THEN Stop(s)
    ELSE Continue([s EXCEPT !.build = option.id, !.buildAt = line])

TargetBuilds(s, option, forced, line) ==
    IF s.build # NoBuild
      THEN Continue(Say(s, Duplicate("DuplicateBuildId", line, s.buildAt)))
    ELSE MakeForks("build", s,
                   Retain(option.entries,
                          {entry \in ToSet(option.entries) : forced.build \in {NoBuild, entry.id}}),
                   line)

\* Mutant: every statement restarts at the first --setting.
Offered_FromFirst(rows, chosen, options) ==
    [i \in 1..Len(rows) |->
        Retain(rows[i], {setting \in ToSet(rows[i]) :
                            i <= Len(options) => setting.name = options[i]})]

\* --setting values go to the rows in order, those already chosen before this statement counted.
Offered(rows, chosen, options) ==
    [i \in 1..Len(rows) |->
        Retain(rows[i], {setting \in ToSet(rows[i]) :
                            chosen + i <= Len(options) => setting.name = options[chosen + i]})]

UserSettings(s, option, forced, line) ==
    MakeDeepForks("setting", s, Offered(option.rows, Len(s.settings), forced.options), line)

OutputFormat(s, option, line) ==
    Continue(IF s.format # NoFormat
             THEN Say(s, Duplicate("DuplicateOutputFormat", line, s.formatAt))
             ELSE [s EXCEPT !.format = option.value, !.formatAt = line])

ExecOption(s, option, forced, line) ==
    CASE option.kind = "name"     -> Continue([s EXCEPT !.named = TRUE])
      [] option.kind = "version"  -> Continue([s EXCEPT !.versioned = TRUE])
      [] option.kind = "build"    -> TargetBuild(s, option, forced, line)
      [] option.kind = "builds"   -> TargetBuilds(s, option, forced, line)
      [] option.kind = "settings" -> UserSettings(s, option, forced, line)
      [] option.kind = "format"   -> OutputFormat(s, option, line)

(* The text of a line of code is what it reads as for each way the macro   *)
(* it uses may be defined; `misfits` are the definitions with another      *)
(* number of arguments than the line gives, which stay unexpanded.         *)

IsCodeText(text) ==
    /\ text.uses \in Names
    /\ text.misfits \subseteq Bodies
    /\ DOMAIN text.reads = Bodies \cup {"undefined"}

\* preprocess_line, and the parsed form of what it returns.
Preprocessed(defines, text) == text.reads[defines[text.uses].body]

MacroDiags(defines, text, line) ==
    LET used == defines[text.uses]
    IN  When(used.body \in text.misfits,
             [kind |-> "WrongNumberOfMacroArgs", at |-> line, original |-> used.at])

ExecCodeLine(s, text, line) ==
    LET r == ExecCode(s.code, Preprocessed(s.defines, text), line)
    IN  Say([s EXCEPT !.code = r.code], MacroDiags(s.defines, text, line) \cup r.diags)

HasCode(s) == s.code.output # <<>> \/ s.code.labels # NoCode.labels

\* finish(): a build without a build ID leaves nothing.
Finish(s) ==
    IF s.build = NoBuild THEN <<>>
    ELSE <<[target |-> s.target, build |-> s.build, settings |-> s.settings, format |-> s.format,
            named |-> s.named, versioned |-> s.versioned,
            output |-> s.code.output, labels |-> s.code.labels]>>
=============================================================================
