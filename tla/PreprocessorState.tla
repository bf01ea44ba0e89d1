------------------------- MODULE PreprocessorState -------------------------
(***************************************************************************)
(* The state of the preprocessor and what one directive does to it         *)
(* (src/preprocessor/main.rs).  The parser keeps one such state per fork   *)
(* and copies it when a fork is made, so the state is a value here and the *)
(* handler a group of operators: module Preprocessor drives one state,     *)
(* module Parse one per fork.                                              *)
(*                                                                         *)
(* Positions in the source are line numbers.  A condition of #if or #elif  *)
(* is abstracted to what evaluating it yields: a macro's name stands for   *)
(* that macro's expansion, or for 0 when it is not defined (expr.rs), and  *)
(* Malformed for an expression the evaluator refuses.                      *)
(***************************************************************************)
EXTENDS Naturals, Sequences, FiniteSets

CONSTANTS Names,      \* macro names
          Malformed   \* the expression that does not evaluate

ASSUME MalformedIsNoName == Malformed \notin Names

Conditions == Names \cup {Malformed}

Bodies == {"nonzero", "zero", "malformed"}

Undefined == [body |-> "undefined", at |-> 0]

Defines == [Names -> {Undefined} \cup [body : Bodies, at : Nat]]

NoDefines == [n \in Names |-> Undefined]

Tags == {"ResolvedTrue", "ResolvedFalse", "InactivePendingEndif"}

ActivityState == [tag : Tags, at : Nat]

Openers == {"if", "ifdef", "ifndef"}

Branches == {"elif", "elifdef", "elifndef"}

Directives(lines) ==
    [op : {"if", "elif"}, arg : Conditions, at : lines] \cup
    [op : {"ifdef", "ifndef", "elifdef", "elifndef"}, arg : Names, at : lines] \cup
    [op : {"else", "endif", "error", "warning"}, at : lines] \cup
    [op : {"define"}, arg : Names, body : Bodies, at : lines] \cup
    [op : {"undef"}, arg : Names, at : lines]

-----------------------------------------------------------------------------
State(activity) == IF activity = <<>> THEN "Root" ELSE activity[Len(activity)].tag

Active(activity) == State(activity) \in {"Root", "ResolvedTrue"}

PushState(activity, s) == Append(activity, s)

\* Mutant: the branch is replaced, the position still that of the opener.
ReplaceState_KeepsOpener(activity, s) ==
    [activity EXCEPT ![Len(activity)].tag = s.tag]

ReplaceState(activity, s) ==
    IF activity = <<>> THEN PushState(activity, s) ELSE [activity EXCEPT ![Len(activity)] = s]

PopState(activity) == SubSeq(activity, 1, Len(activity) - 1)

Defined(defines, n) == defines[n] # Undefined

\* What evaluating condition e yields: "nonzero", "zero" or "malformed".
Evaluate(defines, e) ==
    IF e = Malformed THEN "malformed"
    ELSE IF Defined(defines, e) THEN defines[e].body ELSE "zero"

\* The closure exec builds for its condition; an #else needs none.
Resolve(defines, d) ==
    \/ d.op \in {"if", "elif"} /\ Evaluate(defines, d.arg) = "nonzero"
    \/ d.op \in {"ifdef", "elifdef"} /\ Defined(defines, d.arg)
    \/ d.op \in {"ifndef", "elifndef"} /\ ~Defined(defines, d.arg)
    \/ d.op = "else"

\* Mutant: the condition is evaluated before the state is looked at.
Consults_Always(activity, d) == d.op \in Openers \cup Branches

\* Whether exec calls that closure, and with it the expression evaluator.
Consults(activity, d) ==
    \/ d.op \in Openers /\ Active(activity)
    \/ d.op \in Branches /\ State(activity) = "ResolvedFalse"

OpenTag(activity, truth) ==
    IF ~Active(activity) THEN "InactivePendingEndif"
    ELSE IF truth THEN "ResolvedTrue" ELSE "ResolvedFalse"

\* Mutants: a second true branch is taken as well; a taken block can be reopened by #else.
BranchTag_TakesTwo(activity, truth) ==
    IF State(activity) = "InactivePendingEndif" THEN "InactivePendingEndif"
    ELSE IF truth THEN "ResolvedTrue" ELSE "ResolvedFalse"

BranchTag_ForgetsTaken(activity, truth) ==
    IF State(activity) = "ResolvedFalse" /\ truth THEN "ResolvedTrue" ELSE "ResolvedFalse"

BranchTag(activity, truth) ==
    IF State(activity) # "ResolvedFalse" THEN "InactivePendingEndif"
    ELSE IF truth THEN "ResolvedTrue" ELSE "ResolvedFalse"

\* #else replaces the state as an #elif whose condition holds does.
ExecActivity(defines, activity, d) ==
    IF d.op \in Openers
      THEN PushState(activity, [tag |-> OpenTag(activity, Resolve(defines, d)), at |-> d.at])
    ELSE IF d.op \in Branches \cup {"else"} /\ State(activity) # "Root"
      THEN ReplaceState(activity, [tag |-> BranchTag(activity, Resolve(defines, d)), at |-> d.at])
    ELSE IF d.op = "endif" /\ State(activity) # "Root" THEN PopState(activity)
    ELSE activity

\* #define and #undef do not look at the activity: they act in skipped text too.
ExecDefines(defines, d) ==
    IF d.op = "define" THEN [defines EXCEPT ![d.arg] = [body |-> d.body, at |-> d.at]]
    ELSE IF d.op = "undef" THEN [defines EXCEPT ![d.arg] = Undefined]
    ELSE defines

Diag(kind, at) == [kind |-> kind, at |-> at]

When(condition, diag) == IF condition THEN {diag} ELSE {}

\* The diagnostics one directive records; `original` is the other line a label points at.
ExecDiags(defines, activity, d) ==
    When(d.op \in Branches \cup {"else", "endif"} /\ State(activity) = "Root",
         Diag("MissingIf", d.at)) \cup
    When(d.op \in {"if", "elif"} /\ Consults(activity, d) /\ Evaluate(defines, d.arg) = "malformed",
         Diag("Expr", d.at)) \cup
    When(d.op = "define" /\ Defined(defines, d.arg),
         [kind |-> "DuplicateDefine", at |-> d.at, original |-> defines[d.arg].at]) \cup
    When(d.op = "warning", Diag("UserWarning", d.at)) \cup
    When(d.op = "error", Diag("UserError", d.at))

\* end(): one report per block still open, the innermost first.
EndReports(activity) ==
    [i \in 1..Len(activity) |->
        Diag("Unterminated", activity[Len(activity) + 1 - i].at)]
=============================================================================
