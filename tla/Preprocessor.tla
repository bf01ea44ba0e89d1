---------------------------- MODULE Preprocessor ----------------------------
(***************************************************************************)
(* One preprocessor fed the directives of a source, line by line, in any   *)
(* order a source can hold them, then ended.  `chains` is a history the    *)
(* code does not keep: for each open block the branches met so far, with   *)
(* what each condition was worth at its line.  Every property relates the  *)
(* code's stack of resolved states to that history.                        *)
(***************************************************************************)
EXTENDS PreprocessorState

CONSTANT MaxLines     \* bound on the directives of a source

ASSUME MaxLinesIsNat == MaxLines \in Nat

VARIABLES line,       \* directives executed so far
          defines,    \* PreprocessorState.defines
          activity,   \* PreprocessorState.activity, outermost block first
          reported,   \* the diagnostics of the latest call, in the order recorded
          ended,      \* whether end() has consumed the state
          chains      \* history: the branches of every open block

vars == <<line, defines, activity, reported, ended, chains>>

Branch == [worth : Bodies, at : Nat]

TypeOK ==
    /\ line \in Nat
    /\ defines \in Defines
    /\ activity \in Seq(ActivityState)
    /\ ended \in BOOLEAN
    /\ chains \in Seq(Seq(Branch))

Init ==
    /\ line = 0
    /\ defines = NoDefines
    /\ activity = <<>>
    /\ reported = <<>>
    /\ ended = FALSE
    /\ chains = <<>>

\* exec records at most one diagnostic per directive.
DiagSeq(S) == IF S = {} THEN <<>> ELSE <<CHOOSE k \in S : TRUE>>

\* PreprocessorState::exec on one directive, and the history it leaves.
Exec(d) ==
    /\ activity' = ExecActivity(defines, activity, d)
    /\ defines' = ExecDefines(defines, d)
    /\ reported' = DiagSeq(ExecDiags(defines, activity, d))
    /\ line' = line + 1
    /\ ended' = ended

\* What the condition of directive d is worth here, whether or not the code asks.
Worth(d) ==
    IF d.op \in {"if", "elif"} THEN Evaluate(defines, d.arg)
    ELSE IF Resolve(defines, d) THEN "nonzero" ELSE "zero"

BranchOf(d) == [worth |-> Worth(d), at |-> d.at]

Next1(ops) == {d \in Directives({line + 1}) : d.op \in ops}

CanRead == ~ended /\ line < MaxLines

OpenBlock ==
    /\ CanRead
    /\ \E d \in Next1(Openers) :
        /\ Exec(d)
        /\ chains' = Append(chains, <<BranchOf(d)>>)

NextBranch ==
    /\ CanRead
    /\ chains # <<>>
    /\ \E d \in Next1(Branches \cup {"else"}) :
        /\ Exec(d)
        /\ chains' = [chains EXCEPT ![Len(chains)] = Append(@, BranchOf(d))]

EndIf ==
    /\ CanRead
    /\ chains # <<>>
    /\ \E d \in Next1({"endif"}) :
        /\ Exec(d)
        /\ chains' = SubSeq(chains, 1, Len(chains) - 1)

StrayDirective ==
    /\ CanRead
    /\ chains = <<>>
    /\ \E d \in Next1(Branches \cup {"else", "endif"}) : Exec(d)
    /\ UNCHANGED chains

Definition ==
    /\ CanRead
    /\ \E d \in Next1({"define", "undef"}) : Exec(d)
    /\ UNCHANGED chains

UserMessage ==
    /\ CanRead
    /\ \E d \in Next1({"error", "warning"}) : Exec(d)
    /\ UNCHANGED chains

\* end() takes the state: what is left is the default one.
End ==
    /\ ~ended
    /\ reported' = EndReports(activity)
    /\ ended' = TRUE
    /\ UNCHANGED <<line, defines, activity, chains>>

Next == OpenBlock \/ NextBranch \/ EndIf \/ StrayDirective \/ Definition \/ UserMessage \/ End

Spec == Init /\ [][Next]_vars

-----------------------------------------------------------------------------
Latest(chain) == chain[Len(chain)]

Taken(branch) == branch.worth = "nonzero"

\* The latest branch of the block is the first whose condition held.
Chosen(chain) ==
    Taken(Latest(chain)) /\ \A j \in 1..(Len(chain) - 1) : ~Taken(chain[j])

\* No branch of the block has been taken yet.
Untaken(chain) == \A j \in 1..Len(chain) : ~Taken(chain[j])

\* The text around block i of the blocks cs is compiled.
OuterLive(cs, i) == \A k \in 1..(i - 1) : Chosen(cs[k])

Follows(act, cs) ==
    /\ Len(act) = Len(cs)
    /\ \A i \in 1..Len(cs) :
        /\ cs[i] # <<>>
        /\ act[i].at = Latest(cs[i]).at
        /\ act[i].tag = "ResolvedTrue" <=> OuterLive(cs, i) /\ Chosen(cs[i])
        /\ act[i].tag = "ResolvedFalse" <=> OuterLive(cs, i) /\ Untaken(cs[i])

(* Each entry of the stack says of its block, whatever the nesting and the *)
(* order of directives: ResolvedTrue, this branch is compiled;             *)
(* ResolvedFalse, a later branch still may be; InactivePendingEndif, none. *)
(* Its position is that of the block's latest directive.                   *)
StackFollowsHistory == Follows(activity, chains)

(* A line is compiled exactly when, in every block around it, the branch   *)
(* it is in is the first whose condition held: active() answers that from  *)
(* the top of a stack of three-valued states alone.                        *)
ActiveIffSelected == Active(activity) <=> \A i \in 1..Len(chains) : Chosen(chains[i])

(* end() reports every block that is still open, once, innermost first, at *)
(* the latest directive of the block (#elif and #else move the report).    *)
UnterminatedReport ==
    ended =>
        /\ Len(reported) = Len(chains)
        /\ \A i \in 1..Len(chains) :
            reported[i] = [kind |-> "Unterminated",
                           at |-> Latest(chains[Len(chains) + 1 - i]).at]

\* The latest directive began a branch, and its condition can matter.
BeganLiveBranch ==
    /\ ~ended
    /\ chains # <<>>
    /\ Latest(Latest(chains)).at = line
    /\ OuterLive(chains, Len(chains))
    /\ \A j \in 1..(Len(Latest(chains)) - 1) : ~Taken(Latest(chains)[j])

ExprReported == \E i \in 1..Len(reported) : reported[i].kind = "Expr"

(* A condition that does not evaluate is an error exactly where its value  *)
(* can matter: the text around the block is compiled and no earlier branch *)
(* of it was taken.  In skipped text it is never reported; where it counts *)
(* it never goes unreported, and never selects its branch.                 *)
BadConditionReportedWhereItMatters ==
    ExprReported <=> BeganLiveBranch /\ Latest(Latest(chains)).worth = "malformed"
=============================================================================
