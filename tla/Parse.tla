------------------------------- MODULE Parse -------------------------------
(***************************************************************************)
(* The parser: one source, read by many builds at once (src/parse.rs, and  *)
(* compile_in_memory of src/main.rs).  In a round every sub-state runs on  *)
(* a thread of the pool until it forks or ends.  The mutex around the      *)
(* diagnostics is held for the whole run of a sub-state, so the runs of a  *)
(* round follow one another, in an order only the scheduler knows.  The    *)
(* forks of a round are the sub-states of the next, in their parents'      *)
(* order.                                                                  *)
(***************************************************************************)
EXTENDS SubState

CONSTANT Setups       \* the sources and command lines to parse

IsList(s) == s \in Seq(ToSet(s))

OptionKinds == {"name", "version", "build", "builds", "settings", "format"}

\* What the types of option.rs and PreParsedStatement say; a build ID is never missing.
IsStatement(st) ==
    /\ st.kind \in OptionKinds \cup {"directive", "code"}
    /\ st.kind = "build" => st.id # NoBuild
    /\ st.kind = "builds" => IsList(st.entries) /\ \A i \in DOMAIN st.entries : st.entries[i].id # NoBuild
    /\ st.kind = "code" => IsCodeText(st.text)
    /\ st.kind = "settings" => IsList(st.rows) /\ \A i \in DOMAIN st.rows : IsList(st.rows[i])

\* main builds for the target it was given, or for both.
IsSetup(c) ==
    /\ IsList(c.program) /\ \A i \in DOMAIN c.program : IsStatement(c.program[i])
    /\ IsList(c.targets) /\ c.targets # <<>>
    /\ IsList(c.forced.options)

ASSUME SetupsAreSources == \A c \in Setups : IsSetup(c)

VARIABLES setup,      \* the source and the command line; never change
          active,     \* ParseState.active_states of this round
          todo,       \* the sub-states that have not run in this round
          running,    \* the sub-state that holds the mutex, 0 if none
          forks,      \* what each sub-state leaves to the next round
          results,    \* the result each sub-state ended with, if any
          finished,   \* ParseState.finished_results
          diags,      \* parse_diags, the BTreeSet of compile_in_memory
          recorded,   \* history: every diagnostic handed to record_diagnostic
          phase       \* "start", "rounds", "parsed", or the outcome

vars == <<setup, active, todo, running, forks, results, finished, diags, recorded, phase>>

Outcomes == {"ok", "no output", "failed", "panicked"}

Statements == setup.program

-----------------------------------------------------------------------------
(* The BTreeSet compares diagnostics by their labels only: of two with the *)
(* same labels the first recorded stays.  In the model a position stands   *)
(* for a span of its own per kind of diagnostic, so only the diagnostics   *)
(* without any label can meet: the derived Diagnostic gives a span without *)
(* #[label] none, as those of #warning and #error.                         *)

Unlabelled == {"MissingModVersion", "MissingBuildId", "UserWarning", "UserError"}

Labels(d) == IF d.kind \in Unlabelled THEN <<>> ELSE <<d>>

Insert(D, S) == D \cup {d \in S : \A e \in D : Labels(e) # Labels(d)}

Warnings == {"MissingModVersion", "UserWarning"}

\* Mutant: a diagnostic without an explicit severity is not counted.
IsError_Explicit(d) == d.kind \in {}

IsError(d) == d.kind \notin Warnings

-----------------------------------------------------------------------------
NoForks(n) == [i \in 1..n |-> <<>>]

Init ==
    /\ setup \in Setups
    /\ active = <<>> /\ todo = {} /\ running = 0
    /\ forks = <<>> /\ results = <<>>
    /\ finished = <<>> /\ diags = {} /\ recorded = {}
    /\ phase = "start"

StartRound(states) ==
    /\ active' = states
    /\ todo' = 1..Len(states)
    /\ running' = 0
    /\ forks' = NoForks(Len(states))
    /\ results' = NoForks(Len(states))

\* parse_statements before its first step: -D definitions, then one fork per target.
Start ==
    /\ phase = "start"
    /\ LET first == DefineAll(NewSubState, setup.defines, 0)
           r     == MakeForks("target", first, setup.targets, 0)
           all   == <<r.self>> \o r.new
       IN  /\ StartRound([i \in 1..Len(all) |-> Silent(all[i])])
           /\ recorded' = AllSaid(r)
           /\ diags' = Insert({}, AllSaid(r))
    /\ phase' = "rounds"
    /\ UNCHANGED <<setup, finished>>

\* A thread of the pool takes a sub-state of the round and the mutex.
TakeLock(i) ==
    /\ phase = "rounds" /\ running = 0 /\ i \in todo
    /\ running' = i
    /\ todo' = todo \ {i}
    /\ UNCHANGED <<setup, active, forks, results, finished, diags, recorded, phase>>

Running == phase = "rounds" /\ running # 0

Current == active[running]

AtEnd == Current.pos > Len(Statements)

Statement == Statements[Current.pos]

Line == Current.pos

\* Mutant: a statement in skipped text is not consumed.
Consumed_IfActive(s) == IF Active(s.activity) THEN [s EXCEPT !.pos = @ + 1] ELSE s

\* self.statements.next()
Consumed(s) == [s EXCEPT !.pos = @ + 1]

Record(D) ==
    /\ recorded' = recorded \cup D
    /\ diags' = Insert(diags, D)

\* What ParseSubState::step does after each step_once, and the assertion it makes.
AfterStep(r) ==
    /\ Record(AllSaid(r))
    /\ active' = [active EXCEPT ![running] = Silent(r.self)]
    /\ IF r.more
       THEN /\ forks' = [forks EXCEPT ![running] =
                           IF r.new = <<>> THEN <<>>
                           ELSE [i \in 1..Len(r.new) |-> Silent(r.new[i])] \o <<Silent(r.self)>>]
            /\ running' = IF r.new = <<>> THEN running ELSE 0
            /\ UNCHANGED <<results, phase>>
       ELSE /\ results' = [results EXCEPT ![running] = Finish(r.self)]
            /\ running' = 0
            /\ phase' = IF r.new = <<>> THEN phase ELSE "panicked"
            /\ UNCHANGED forks
    /\ UNCHANGED <<setup, todo, finished>>

Reading(kinds) == Running /\ ~AtEnd /\ Statement.kind \in kinds

SkippedStatement ==
    /\ Reading(OptionKinds \cup {"code"})
    /\ ~Active(Current.activity)
    /\ AfterStep(Continue(Consumed(Current)))

Option(kind) ==
    /\ Reading({kind})
    /\ Active(Current.activity)
    /\ AfterStep(ExecOption(Consumed(Current), Statement, setup.forced, Line))

Directive ==
    /\ Reading({"directive"})
    /\ AfterStep(Continue(ExecDirective(Consumed(Current), [Statement.d EXCEPT !.at = Line])))

Code ==
    /\ Reading({"code"})
    /\ Active(Current.activity)
    /\ AfterStep(Continue(ExecCodeLine(Consumed(Current), Statement.text, Line)))

\* The end of the source: open blocks first, then what a build with code lacks.
EndOfInput ==
    /\ Running /\ AtEnd
    /\ LET open    == ToSet(EndReports(Current.activity))
           version == When(HasCode(Current) /\ ~Current.versioned, [kind |-> "MissingModVersion"])
           build   == When(HasCode(Current) /\ Current.build = NoBuild, [kind |-> "MissingBuildId"])
       IN  /\ recorded' = recorded \cup open \cup version \cup build
           /\ diags' = Insert(Insert(Insert(diags, open), version), build)
    /\ results' = [results EXCEPT ![running] = Finish(Current)]
    /\ running' = 0
    /\ UNCHANGED <<setup, active, todo, forks, finished, phase>>

\* ParseState::step gathers the round in the order of its sub-states.
EndRound ==
    /\ phase = "rounds" /\ running = 0 /\ todo = {}
    /\ finished' = finished \o FlattenSeq(results)
    /\ StartRound(FlattenSeq(forks))
    /\ phase' = IF active' = <<>> THEN "parsed" ELSE "rounds"
    /\ UNCHANGED <<setup, diags, recorded>>

\* The rest of compile_in_memory.
Report ==
    /\ phase = "parsed"
    /\ phase' = IF \E d \in diags : IsError(d) THEN "failed"
                ELSE IF finished = <<>> THEN "no output" ELSE "ok"
    /\ UNCHANGED <<setup, active, todo, running, forks, results, finished, diags, recorded>>

RunSubState ==
    \/ SkippedStatement \/ Directive \/ Code \/ EndOfInput
    \/ Option("name") \/ Option("version") \/ Option("build") \/ Option("builds")
    \/ Option("settings") \/ Option("format")

Done == phase \in Outcomes /\ UNCHANGED vars

Next ==
    \/ Start
    \/ \E i \in todo : TakeLock(i)
    \/ RunSubState
    \/ EndRound
    \/ Report
    \/ Done

\* The pool runs every job it is given, and the main thread waits for it.
Spec == Init /\ [][Next]_vars /\ WF_vars(Next)

-----------------------------------------------------------------------------
(* The reference: every build the source of c describes, read on its own   *)
(* from the first statement to the last.  A statement can go one way or,   *)
(* when it offers a choice, several; a world is one way through the        *)
(* source, and all that was said on it.  Nothing is filtered until the     *)
(* end.                                                                    *)

Way(s, alive) == [state |-> s, alive |-> alive]

\* A way for each value; when there is none, the build is dead.
Branch(kind, way, values, line) ==
    IF ~way.alive \/ values = <<>> THEN {Way(way.state, FALSE)}
    ELSE {Way(Fork(kind, way.state, v, line), TRUE) : v \in ToSet(values)}

\* The ways after a choice in each of the first n rows.
Branched(kind, s, rows, line) ==
    LET after[n \in 0..Len(rows)] ==
            IF n = 0 THEN {Way(s, TRUE)}
            ELSE UNION {Branch(kind, x, rows[n], line) : x \in after[n - 1]}
    IN  after

NothingForced == [build |-> NoBuild, options |-> <<>>]

\* The ways statement number `line` can go for a build in state s.
Ways(c, s, line) ==
    LET st   == c.program[line]
        here == [s EXCEPT !.pos = line + 1]
    IN  IF st.kind = "directive"
          THEN {Way(ExecDirective(here, [st.d EXCEPT !.at = line]), TRUE)}
        ELSE IF ~Active(here.activity) THEN {Way(here, TRUE)}
        ELSE IF st.kind = "code" THEN {Way(ExecCodeLine(here, st.text, line), TRUE)}
        ELSE IF st.kind = "settings"
          THEN Branched("setting", here, st.rows, line)[Len(st.rows)]
        ELSE IF st.kind = "builds" /\ here.build = NoBuild
          THEN Branch("build", Way(here, TRUE), st.entries, line)
        ELSE {Way(ExecOption(here, st, NothingForced, line).self, TRUE)}

World(way, said) ==
    [state |-> Silent(way.state), alive |-> way.alive, said |-> said \cup way.state.said]

StepWorld(c, w, line) ==
    IF w.alive THEN {World(way, w.said) : way \in Ways(c, w.state, line)} ELSE {w}

\* What the n statements after the first k make of the worlds ws.
Read(c, ws, k) ==
    LET after[n \in 0..Len(c.program)] ==
            IF n = 0 THEN ws ELSE UNION {StepWorld(c, w, k + n) : w \in after[n - 1]}
    IN  after

FirstWorlds(c) ==
    LET start == DefineAll(NewSubState, c.defines, 0)
    IN  {World(way, {}) : way \in Branch("target", Way(start, TRUE), c.targets, 0)}

Worlds == Read(setup, FirstWorlds(setup), 0)[Len(Statements)]

\* The command line asks for this world: --setting values name its choices in order.
Asked(w) ==
    /\ w.alive
    /\ setup.forced.build \in {NoBuild, w.state.build}
    /\ \A i \in 1..Len(w.state.settings) :
          i <= Len(setup.forced.options) => w.state.settings[i] = setup.forced.options[i]

\* What reading world w alone reports.
Reports(w) ==
    w.said \cup
    IF ~w.alive THEN {}
    ELSE ToSet(EndReports(w.state.activity)) \cup
         When(HasCode(w.state) /\ ~w.state.versioned, [kind |-> "MissingModVersion"]) \cup
         When(HasCode(w.state) /\ w.state.build = NoBuild, [kind |-> "MissingBuildId"])

\* No statement offers the same choice twice.
ChoicesDiffer ==
    /\ IsInjective(setup.targets)
    /\ \A i \in DOMAIN Statements :
          LET st == Statements[i]
          IN  /\ st.kind = "builds" =>
                    \A a, b \in DOMAIN st.entries : st.entries[a].id = st.entries[b].id => a = b
              /\ st.kind = "settings" =>
                    \A r \in DOMAIN st.rows : \A a, b \in DOMAIN st.rows[r] :
                        st.rows[r][a].name = st.rows[r][b].name => a = b

-----------------------------------------------------------------------------
(* Each sub-state of a round is waiting, or running, or has left exactly   *)
(* one of forks, a result, or nothing; it runs once.  The types are those  *)
(* of ParseState and ParseSubState.                                        *)
TypeOK ==
    /\ phase \in {"start", "rounds", "parsed"} \cup Outcomes
    /\ DOMAIN forks = DOMAIN active /\ DOMAIN results = DOMAIN active
    /\ todo \subseteq DOMAIN active
    /\ running \in {0} \cup (DOMAIN active \ todo)
    /\ \A i \in DOMAIN active :
          /\ active[i].pos \in 1..(Len(Statements) + 1)
          /\ i \in todo \cup {running} => forks[i] = <<>> /\ results[i] = <<>>
          /\ forks[i] = <<>> \/ results[i] = <<>>
          /\ Len(results[i]) <= 1
    /\ diags \subseteq recorded

(* Whatever the order the sub-states of a round run in, the parser ends    *)
(* with every build the source describes and the command line asks for,    *)
(* with the code each would have read on its own, and each exactly once    *)
(* unless a statement offers the same choice twice: copies share nothing,  *)
(* choices already made do not shift the --setting values, and an          *)
(* abandoned build takes no other with it.                                 *)
ResultsAreTheWorlds ==
    phase = "parsed" =>
        LET expected == UNION {ToSet(Finish(w.state)) : w \in {x \in Worlds : Asked(x)}}
        IN  ToSet(finished) = expected /\ (ChoicesDiffer => Len(finished) = Cardinality(expected))

(* Reading many builds at once loses no diagnostic of a build that was     *)
(* asked for and invents none: everything recorded is something one of the *)
(* builds described would meet on its own.                                 *)
DiagnosticsAreTheWorlds ==
    phase = "parsed" =>
        /\ UNION {Reports(w) : w \in {x \in Worlds : Asked(x)}} \subseteq recorded
        /\ recorded \subseteq UNION {Reports(w) : w \in Worlds}

(* The types; and the assertion of ParseSubState::step holds: a sub-state  *)
(* that ends leaves no forks behind.                                       *)
NoPanic == TypeOK /\ phase # "panicked"

(* A program is generated in spite of an error only when neither the error *)
(* nor some warning points at the source, so that the set can take the one *)
(* for the other: #error, or a build ID that is missing, behind #warning   *)
(* or a version that is missing.                                           *)
ErrorsFailTheBuild ==
    phase \in {"ok", "no output"} =>
        \A d \in recorded :
            \/ d.kind \in Warnings
            \/ Labels(d) = <<>> /\ \E w \in recorded : Labels(w) = <<>> /\ w.kind \in Warnings

(* Every source is read to an outcome: no round waits on a sub-state that  *)
(* never runs, and no sub-state stays on a statement.                      *)
Termination == <>(phase \in Outcomes)
=============================================================================
