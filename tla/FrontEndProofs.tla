--------------------------- MODULE FrontEndProofs ---------------------------
(***************************************************************************)
(* Proofs about what comes before the parser.                              *)
(*                                                                         *)
(* Preprocessor, for every set of macro names and every length of source:  *)
(* the inductive invariant is StackFollowsHistory, by which each entry of  *)
(* the stack is a function of the history of its block and of the blocks   *)
(* around it.                                                              *)
(*                                                                         *)
(* PreParse, for every set of files: the invariant is NothingDropped, with *)
(* what a text is; the work is in the scans, which always hand on to a     *)
(* place further along.                                                    *)
(*                                                                         *)
(* Macros, for every set of macros and every line: the invariant is        *)
(* MacrosInv, by which the text and the vector of its places stay of one   *)
(* length, and what the search has passed is expanded or reported.         *)
(***************************************************************************)
EXTENDS Preprocessor, PreParse, Macros, SequenceTheorems, WellFoundedInduction, TLAPS


LEMMA DirectiveShape ==
    ASSUME NEW l \in Nat, NEW d \in Directives({l})
    PROVE  /\ d.at = l
           /\ d.op \in {"if", "elif"} => d.arg \in Conditions
           /\ d.op \in {"ifdef", "elifdef", "ifndef", "elifndef"} => d.arg \in Names
           /\ d.op = "define" => d.arg \in Names /\ d.body \in Bodies
           /\ d.op = "undef" => d.arg \in Names
  BY DEF Directives

LEMMA EvaluateType ==
    ASSUME NEW defs \in Defines, NEW e \in Conditions
    PROVE  Evaluate(defs, e) \in Bodies
  <1>1. CASE e = Malformed
    BY <1>1 DEF Evaluate, Bodies
  <1>2. CASE e # Malformed
    <2>1. e \in Names
      BY <1>2 DEF Conditions
    <2>2. CASE defs[e] = Undefined
      BY <1>2, <2>2 DEF Evaluate, Defined, Bodies
    <2>3. CASE defs[e] # Undefined
      <3>1. defs[e] \in [body : Bodies, at : Nat]
        BY <2>1, <2>3 DEF Defines
      <3> QED BY <1>2, <2>3, <3>1 DEF Evaluate, Defined
    <2> QED BY <2>2, <2>3
  <1> QED BY <1>1, <1>2

\* The history records what exec resolves.
LEMMA WorthIsResolved ==
    ASSUME NEW l \in Nat, NEW d \in Directives({l}), defines \in Defines,
           d.op \in Openers \cup Branches \cup {"else"}
    PROVE  /\ BranchOf(d) \in Branch
           /\ BranchOf(d).at = l
           /\ Taken(BranchOf(d)) <=> Resolve(defines, d)
           /\ Resolve(defines, d) \in BOOLEAN
  <1>1. CASE d.op \in {"if", "elif"}
    <2>1. Evaluate(defines, d.arg) \in Bodies
      BY <1>1, DirectiveShape, EvaluateType
    <2>2. Worth(d) = Evaluate(defines, d.arg)
      BY <1>1 DEF Worth
    <2>3. Resolve(defines, d) = (Evaluate(defines, d.arg) = "nonzero")
      BY <1>1 DEF Resolve
    <2> QED BY <2>1, <2>2, <2>3, DirectiveShape DEF BranchOf, Branch, Taken
  <1>2. CASE d.op \notin {"if", "elif"}
    <2>1. Worth(d) = IF Resolve(defines, d) THEN "nonzero" ELSE "zero"
      BY <1>2 DEF Worth
    <2>2. Resolve(defines, d) \in BOOLEAN
      BY <1>2 DEF Resolve, Defined
    <2> QED BY <2>1, <2>2, DirectiveShape DEF BranchOf, Branch, Taken, Bodies
  <1> QED BY <1>1, <1>2

-----------------------------------------------------------------------------
(* What each kind of directive does to the stack.                          *)

LEMMA StateType ==
    ASSUME NEW act \in Seq(ActivityState)
    PROVE  /\ State(act) \in Tags \cup {"Root"}
           /\ State(act) = "Root" <=> act = <<>>
  <1>1. CASE act = <<>>
    BY <1>1 DEF State
  <1>2. CASE act # <<>>
    <2>1. act[Len(act)] \in ActivityState
      BY <1>2
    <2> QED BY <1>2, <2>1 DEF State, ActivityState, Tags
  <1> QED BY <1>1, <1>2

LEMMA OpenerActivity ==
    ASSUME NEW defs \in Defines, NEW act \in Seq(ActivityState),
           NEW l \in Nat, NEW d \in Directives({l}), d.op \in Openers
    PROVE  /\ ExecActivity(defs, act, d) =
                 Append(act, [tag |-> OpenTag(act, Resolve(defs, d)), at |-> l])
           /\ [tag |-> OpenTag(act, Resolve(defs, d)), at |-> l] \in ActivityState
           /\ ExecDefines(defs, d) = defs
  <1>1. OpenTag(act, Resolve(defs, d)) \in Tags
    BY DEF OpenTag, Tags
  <1>2. d.at = l
    BY DirectiveShape
  <1>3. ExecActivity(defs, act, d) = PushState(act, [tag |-> OpenTag(act, Resolve(defs, d)), at |-> d.at])
    BY DEF ExecActivity, Openers, Branches
  <1>4. ExecDefines(defs, d) = defs
    BY DEF ExecDefines, Openers
  <1> QED BY <1>1, <1>2, <1>3, <1>4 DEF PushState, ActivityState

LEMMA BranchActivity ==
    ASSUME NEW defs \in Defines, NEW act \in Seq(ActivityState), act # <<>>,
           NEW l \in Nat, NEW d \in Directives({l}), d.op \in Branches \cup {"else"}
    PROVE  /\ ExecActivity(defs, act, d) =
                 [act EXCEPT ![Len(act)] = [tag |-> BranchTag(act, Resolve(defs, d)), at |-> l]]
           /\ [tag |-> BranchTag(act, Resolve(defs, d)), at |-> l] \in ActivityState
           /\ ExecDefines(defs, d) = defs
  <1>1. BranchTag(act, Resolve(defs, d)) \in Tags
    BY DEF BranchTag, Tags
  <1>2. d.at = l
    BY DirectiveShape
  <1>3. State(act) # "Root" /\ d.op \notin Openers
    BY StateType DEF Openers, Branches
  <1>4. ExecActivity(defs, act, d) =
            ReplaceState(act, [tag |-> BranchTag(act, Resolve(defs, d)), at |-> d.at])
    BY <1>3 DEF ExecActivity
  <1>5. ExecDefines(defs, d) = defs
    BY DEF ExecDefines, Branches
  <1> QED BY <1>1, <1>2, <1>4, <1>5 DEF ReplaceState, ActivityState

LEMMA EndIfActivity ==
    ASSUME NEW defs \in Defines, NEW act \in Seq(ActivityState), act # <<>>,
           NEW d, d.op = "endif"
    PROVE  /\ ExecActivity(defs, act, d) = SubSeq(act, 1, Len(act) - 1)
           /\ ExecDefines(defs, d) = defs
  <1>1. State(act) # "Root" /\ d.op \notin Openers /\ d.op \notin Branches \cup {"else"}
    BY StateType DEF Openers, Branches
  <1>2. ExecActivity(defs, act, d) = PopState(act)
    BY <1>1 DEF ExecActivity
  <1>3. ExecDefines(defs, d) = defs
    BY DEF ExecDefines
  <1> QED BY <1>2, <1>3 DEF PopState

LEMMA OtherActivity ==
    ASSUME NEW defs \in Defines, NEW act \in Seq(ActivityState),
           NEW l \in Nat, NEW d \in Directives({l}),
           \/ d.op \in {"define", "undef", "error", "warning"}
           \/ act = <<>> /\ d.op \in Branches \cup {"else", "endif"}
    PROVE  /\ ExecActivity(defs, act, d) = act
           /\ ExecDefines(defs, d) \in Defines
  <1>1. d.op \notin Openers /\ (State(act) = "Root" \/ d.op \notin Branches \cup {"else", "endif"})
    BY StateType DEF Openers, Branches
  <1>2. ExecActivity(defs, act, d) = act
    BY <1>1 DEF ExecActivity
  <1>3. ExecDefines(defs, d) \in Defines
    <2>1. CASE d.op = "define"
      <3>1. [body |-> d.body, at |-> d.at] \in [body : Bodies, at : Nat]
        BY <2>1, DirectiveShape
      <3> QED BY <2>1, <3>1, DirectiveShape DEF ExecDefines, Defines
    <2>2. CASE d.op = "undef"
      BY <2>2, DirectiveShape DEF ExecDefines, Defines
    <2>3. CASE d.op \notin {"define", "undef"}
      BY <2>3 DEF ExecDefines
    <2> QED BY <2>1, <2>2, <2>3
  <1> QED BY <1>2, <1>3

-----------------------------------------------------------------------------
(* Sequences used as stacks.                                               *)

LEMMA ReplaceTop ==
    ASSUME NEW S, NEW s \in Seq(S), s # <<>>, NEW e \in S, NEW t,
           t = [s EXCEPT ![Len(s)] = e]
    PROVE  /\ t \in Seq(S) /\ Len(t) = Len(s) /\ t[Len(s)] = e
           /\ \A i \in 1..Len(s) : i # Len(s) => t[i] = s[i]
  OBVIOUS

LEMMA DropTop ==
    ASSUME NEW S, NEW s \in Seq(S), s # <<>>
    PROVE  /\ SubSeq(s, 1, Len(s) - 1) \in Seq(S)
           /\ Len(SubSeq(s, 1, Len(s) - 1)) = Len(s) - 1
           /\ \A i \in 1..(Len(s) - 1) : SubSeq(s, 1, Len(s) - 1)[i] = s[i]
  <1>1. PICK m \in Nat : Len(s) = m + 1
    <2>1. Len(s) \in Nat /\ Len(s) # 0
      OBVIOUS
    <2>2. Len(s) - 1 \in Nat /\ Len(s) = (Len(s) - 1) + 1
      BY <2>1
    <2> QED BY <2>2
  <1>2. \A i \in 1..m : s[i] \in S
    BY <1>1
  <1>3. /\ SubSeq(s, 1, m) \in Seq(S)
        /\ Len(SubSeq(s, 1, m)) = IF 1 <= m THEN m - 1 + 1 ELSE 0
        /\ \A i \in 1..(m - 1 + 1) : SubSeq(s, 1, m)[i] = s[1 + i - 1]
    BY <1>2, SubSeqProperties
  <1>4. /\ Len(SubSeq(s, 1, m)) = m
        /\ \A i \in 1..m : SubSeq(s, 1, m)[i] = s[i]
    BY <1>3
  <1>5. Len(s) - 1 = m
    BY <1>1
  <1> QED BY <1>3, <1>4, <1>5

-----------------------------------------------------------------------------
(* The stack follows the history through a push, a replacement and a pop.  *)

LEMMA ChainType ==
    ASSUME NEW cs \in Seq(Seq(Branch)), NEW i \in 1..Len(cs), cs[i] # <<>>
    PROVE  cs[i] \in Seq(Branch) /\ Len(cs[i]) \in Nat \ {0} /\ Latest(cs[i]) \in Branch
  BY DEF Latest

LEMMA FollowsActive ==
    ASSUME NEW act \in Seq(ActivityState), NEW cs \in Seq(Seq(Branch)), Follows(act, cs)
    PROVE  Active(act) <=> \A k \in 1..Len(cs) : Chosen(cs[k])
  <1>1. CASE cs = <<>>
    BY <1>1 DEF Follows, Active, State
  <1>2. CASE cs # <<>>
    <2>1. Len(cs) \in 1..Len(cs) /\ Len(act) = Len(cs) /\ act # <<>>
      BY <1>2 DEF Follows
    <2>2. State(act) = act[Len(cs)].tag
      BY <2>1 DEF State
    <2>3. State(act) # "Root"
      BY <2>1, StateType
    <2>4. Active(act) <=> OuterLive(cs, Len(cs)) /\ Chosen(cs[Len(cs)])
      BY <2>1, <2>2, <2>3 DEF Follows, Active
    <2>5. OuterLive(cs, Len(cs)) <=> \A k \in 1..(Len(cs) - 1) : Chosen(cs[k])
      BY DEF OuterLive
    <2>6. 1..Len(cs) = 1..(Len(cs) - 1) \cup {Len(cs)}
      BY <2>1
    <2> QED BY <2>4, <2>5, <2>6
  <1> QED BY <1>1, <1>2

LEMMA FollowsPush ==
    ASSUME NEW act \in Seq(ActivityState), NEW cs \in Seq(Seq(Branch)), Follows(act, cs),
           NEW b \in Branch
    PROVE  Follows(Append(act, [tag |-> OpenTag(act, Taken(b)), at |-> b.at]),
                   Append(cs, <<b>>))
  <1> DEFINE n == Len(cs)
             e == [tag |-> OpenTag(act, Taken(b)), at |-> b.at]
             act2 == Append(act, e)
             cs2 == Append(cs, <<b>>)
  <1>1. n \in Nat /\ Len(act) = n /\ Len(act2) = n + 1 /\ Len(cs2) = n + 1
    BY DEF Follows
  <1>2. act2[n + 1] = e /\ cs2[n + 1] = <<b>>
    BY <1>1
  <1>3. \A i \in 1..n : act2[i] = act[i] /\ cs2[i] = cs[i]
    BY <1>1
  <1>4. ASSUME NEW i \in 1..(n + 1)
        PROVE  OuterLive(cs2, i) <=> OuterLive(cs, i)
    <2> HIDE DEF cs2
    <2>1. \A k \in 1..(i - 1) : k \in 1..n
      BY <1>1
    <2>2. \A k \in 1..(i - 1) : cs2[k] = cs[k]
      BY <1>3, <2>1
    <2> QED BY <2>2 DEF OuterLive
  <1>5. OuterLive(cs, n + 1) <=> Active(act)
    BY <1>1, FollowsActive, SMTT(20) DEF OuterLive
  <1>6. (Chosen(<<b>>) <=> Taken(b)) /\ (Untaken(<<b>>) <=> ~Taken(b)) /\ Latest(<<b>>) = b
    BY DEF Chosen, Untaken, Latest
  <1>7. /\ e.tag = "ResolvedTrue" <=> Active(act) /\ Taken(b)
        /\ e.tag = "ResolvedFalse" <=> Active(act) /\ ~Taken(b)
    BY DEF OpenTag
  <1> HIDE DEF act2, cs2, e
  <1>8. ASSUME NEW i \in 1..Len(cs2)
        PROVE  /\ cs2[i] # <<>>
               /\ act2[i].at = Latest(cs2[i]).at
               /\ act2[i].tag = "ResolvedTrue" <=> OuterLive(cs2, i) /\ Chosen(cs2[i])
               /\ act2[i].tag = "ResolvedFalse" <=> OuterLive(cs2, i) /\ Untaken(cs2[i])
    <2>1. CASE i \in 1..n
      BY <1>1, <1>3, <1>4, <2>1 DEF Follows
    <2>2. CASE i = n + 1
      <3>1. e.at = b.at
        BY DEF e
      <3>2. OuterLive(cs2, n + 1) <=> Active(act)
        BY <1>1, <1>4, <1>5
      <3>3. /\ Chosen(cs2[n + 1]) <=> Taken(b)
            /\ Untaken(cs2[n + 1]) <=> ~Taken(b)
            /\ Latest(cs2[n + 1]) = b
            /\ cs2[n + 1] # <<>>
        BY <1>2, <1>6
      <3> QED BY <1>2, <1>7, <2>2, <3>1, <3>2, <3>3
    <2> QED BY <1>1, <2>1, <2>2
  <1>9. Follows(act2, cs2)
    BY <1>1, <1>8 DEF Follows
  <1> QED BY <1>9 DEF act2, cs2, e

LEMMA ChosenAppend ==
    ASSUME NEW c \in Seq(Branch), NEW b \in Branch
    PROVE  /\ Chosen(Append(c, b)) <=> Taken(b) /\ Untaken(c)
           /\ Untaken(Append(c, b)) <=> ~Taken(b) /\ Untaken(c)
           /\ Latest(Append(c, b)) = b
           /\ Append(c, b) # <<>>
  <1> DEFINE d == Append(c, b)
  <1>1. Len(d) = Len(c) + 1 /\ Len(c) \in Nat /\ d[Len(c) + 1] = b
    OBVIOUS
  <1>2. \A j \in 1..Len(c) : d[j] = c[j]
    OBVIOUS
  <1> HIDE DEF d
  <1>3. 1..(Len(d) - 1) = 1..Len(c) /\ 1..Len(d) = 1..Len(c) \cup {Len(c) + 1}
    BY <1>1
  <1>4. (Chosen(d) <=> Taken(b) /\ Untaken(c)) /\ (Untaken(d) <=> ~Taken(b) /\ Untaken(c))
    BY <1>1, <1>2, <1>3 DEF Chosen, Untaken, Latest
  <1>5. Latest(d) = b /\ d # <<>>
    BY <1>1 DEF Latest
  <1> QED BY <1>4, <1>5 DEF d

LEMMA FollowsReplace ==
    ASSUME NEW act \in Seq(ActivityState), NEW cs \in Seq(Seq(Branch)), Follows(act, cs),
           cs # <<>>, NEW b \in Branch
    PROVE  Follows([act EXCEPT ![Len(act)] = [tag |-> BranchTag(act, Taken(b)), at |-> b.at]],
                   [cs EXCEPT ![Len(cs)] = Append(@, b)])
  <1> DEFINE n == Len(cs)
             e == [tag |-> BranchTag(act, Taken(b)), at |-> b.at]
             act2 == [act EXCEPT ![Len(act)] = e]
             cs2 == [cs EXCEPT ![Len(cs)] = Append(@, b)]
  <1>1. n \in 1..n /\ Len(act) = n /\ Len(act2) = n /\ Len(cs2) = n
    BY DEF Follows
  <1>2. act2[n] = e /\ cs2[n] = Append(cs[n], b)
    BY <1>1
  <1>3. \A i \in 1..(n - 1) : act2[i] = act[i] /\ cs2[i] = cs[i]
    BY <1>1
  <1>4. ASSUME NEW i \in 1..n
        PROVE  OuterLive(cs2, i) <=> OuterLive(cs, i)
    <2> HIDE DEF cs2
    <2>1. \A k \in 1..(i - 1) : k \in 1..(n - 1)
      BY <1>1
    <2>2. \A k \in 1..(i - 1) : cs2[k] = cs[k]
      BY <1>3, <2>1
    <2> QED BY <2>2 DEF OuterLive
  <1>5. cs[n] \in Seq(Branch)
    BY <1>1
  <1>6. State(act) = "ResolvedFalse" <=> OuterLive(cs, n) /\ Untaken(cs[n])
    BY <1>1 DEF Follows, State
  <1>7. /\ e.tag = "ResolvedTrue" <=> State(act) = "ResolvedFalse" /\ Taken(b)
        /\ e.tag = "ResolvedFalse" <=> State(act) = "ResolvedFalse" /\ ~Taken(b)
        /\ e.at = b.at
    BY DEF BranchTag
  <1> HIDE DEF act2, cs2, e
  <1>8. ASSUME NEW i \in 1..Len(cs2)
        PROVE  /\ cs2[i] # <<>>
               /\ act2[i].at = Latest(cs2[i]).at
               /\ act2[i].tag = "ResolvedTrue" <=> OuterLive(cs2, i) /\ Chosen(cs2[i])
               /\ act2[i].tag = "ResolvedFalse" <=> OuterLive(cs2, i) /\ Untaken(cs2[i])
    <2>1. CASE i \in 1..(n - 1)
      BY <1>1, <1>3, <1>4, <2>1 DEF Follows
    <2>2. CASE i = n
      <3>1. /\ Chosen(cs2[n]) <=> Taken(b) /\ Untaken(cs[n])
            /\ Untaken(cs2[n]) <=> ~Taken(b) /\ Untaken(cs[n])
            /\ Latest(cs2[n]) = b
            /\ cs2[n] # <<>>
        BY <1>2, <1>5, ChosenAppend
      <3>2. OuterLive(cs2, n) <=> OuterLive(cs, n)
        BY <1>1, <1>4
      <3> QED BY <1>2, <1>6, <1>7, <2>2, <3>1, <3>2
    <2> QED BY <1>1, <2>1, <2>2
  <1>9. Follows(act2, cs2)
    BY <1>1, <1>8 DEF Follows
  <1> QED BY <1>9 DEF act2, cs2, e

LEMMA FollowsPop ==
    ASSUME NEW act \in Seq(ActivityState), NEW cs \in Seq(Seq(Branch)), Follows(act, cs),
           cs # <<>>
    PROVE  Follows(SubSeq(act, 1, Len(act) - 1), SubSeq(cs, 1, Len(cs) - 1))
  <1> DEFINE n == Len(cs)
             act2 == SubSeq(act, 1, Len(act) - 1)
             cs2 == SubSeq(cs, 1, Len(cs) - 1)
  <1>1. n \in Nat \ {0} /\ Len(act) = n /\ Len(act2) = n - 1 /\ Len(cs2) = n - 1
    BY DEF Follows
  <1>2. \A i \in 1..(n - 1) : act2[i] = act[i] /\ cs2[i] = cs[i]
    BY <1>1
  <1> HIDE DEF act2, cs2
  <1>3. ASSUME NEW i \in 1..(n - 1)
        PROVE  OuterLive(cs2, i) <=> OuterLive(cs, i)
    <2>1. \A k \in 1..(i - 1) : k \in 1..(n - 1)
      BY <1>1
    <2>2. \A k \in 1..(i - 1) : cs2[k] = cs[k]
      BY <1>2, <2>1
    <2> QED BY <2>2 DEF OuterLive
  <1>4. ASSUME NEW i \in 1..Len(cs2)
        PROVE  /\ cs2[i] # <<>>
               /\ act2[i].at = Latest(cs2[i]).at
               /\ act2[i].tag = "ResolvedTrue" <=> OuterLive(cs2, i) /\ Chosen(cs2[i])
               /\ act2[i].tag = "ResolvedFalse" <=> OuterLive(cs2, i) /\ Untaken(cs2[i])
    <2>1. i \in 1..(n - 1) /\ i \in 1..n
      BY <1>1
    <2> QED BY <1>2, <1>3, <2>1 DEF Follows
  <1>5. Follows(act2, cs2)
    BY <1>1, <1>4 DEF Follows
  <1> QED BY <1>5 DEF act2, cs2

-----------------------------------------------------------------------------
(* The inductive invariant, and the invariants it implies.                 *)

Positions == \A i \in 1..Len(chains) : Latest(chains[i]).at \in 0..line

Reports ==
    /\ ended => reported = EndReports(activity)
    /\ ~ended => BadConditionReportedWhereItMatters

IInv == TypeOK /\ StackFollowsHistory /\ Positions /\ Reports

LEMMA InitIInv == Init => IInv
  <1> SUFFICES ASSUME Init PROVE IInv
    OBVIOUS
  <1>1. TypeOK
    <2>1. <<>> \in Seq(ActivityState) /\ <<>> \in Seq(Seq(Branch))
      OBVIOUS
    <2>2. NoDefines \in Defines
      BY DEF NoDefines, Defines
    <2> QED BY <2>1, <2>2 DEF Init, TypeOK
  <1>2. StackFollowsHistory /\ Positions
    BY DEF Init, StackFollowsHistory, Follows, Positions
  <1>3. Reports
    BY DEF Init, Reports, BadConditionReportedWhereItMatters, ExprReported, BeganLiveBranch
  <1> QED BY <1>1, <1>2, <1>3 DEF IInv

LEMMA OpenBlockStep ==
    ASSUME TypeOK, StackFollowsHistory, Positions, OpenBlock
    PROVE  TypeOK' /\ StackFollowsHistory' /\ Positions'
  <1>1. PICK d \in Next1(Openers) : Exec(d) /\ chains' = Append(chains, <<BranchOf(d)>>)
    BY DEF OpenBlock
  <1>2. line \in Nat /\ line + 1 \in Nat /\ d \in Directives({line + 1}) /\ d.op \in Openers
    BY DEF TypeOK, Next1
  <1> DEFINE b == BranchOf(d)
  <1>3. /\ b \in Branch
        /\ b.at = line + 1
        /\ Taken(b) <=> Resolve(defines, d)
        /\ Resolve(defines, d) \in BOOLEAN
    BY <1>2, WorthIsResolved DEF TypeOK
  <1>4. /\ activity' = Append(activity, [tag |-> OpenTag(activity, Resolve(defines, d)), at |-> line + 1])
        /\ [tag |-> OpenTag(activity, Resolve(defines, d)), at |-> line + 1] \in ActivityState
        /\ defines' = defines
    BY <1>1, <1>2, OpenerActivity DEF TypeOK, Exec
  <1>5. OpenTag(activity, Resolve(defines, d)) = OpenTag(activity, Taken(b))
    BY <1>3 DEF OpenTag
  <1>6. StackFollowsHistory'
    BY <1>1, <1>3, <1>4, <1>5, FollowsPush DEF StackFollowsHistory, TypeOK
  <1>7. TypeOK'
    BY <1>1, <1>2, <1>3, <1>4 DEF TypeOK, Exec
  <1>8. Positions'
    <2> SUFFICES ASSUME NEW i \in 1..Len(chains') PROVE Latest(chains'[i]).at \in 0..line'
      BY DEF Positions
    <2>1. CASE i \in 1..Len(chains)
      BY <1>1, <1>2, <2>1 DEF Positions, Exec, TypeOK
    <2>2. CASE i = Len(chains) + 1
      <3>1. Latest(chains'[i]) = b
        BY <1>1, <2>2 DEF TypeOK, Latest
      <3> QED BY <1>1, <1>2, <1>3, <3>1 DEF Exec
    <2> QED BY <1>1, <2>1, <2>2 DEF TypeOK
  <1> QED BY <1>6, <1>7, <1>8

LEMMA NextBranchStep ==
    ASSUME TypeOK, StackFollowsHistory, Positions, NextBranch
    PROVE  TypeOK' /\ StackFollowsHistory' /\ Positions'
  <1>1. PICK d \in Next1(Branches \cup {"else"}) :
            /\ Exec(d)
            /\ chains' = [chains EXCEPT ![Len(chains)] = Append(@, BranchOf(d))]
    BY DEF NextBranch
  <1>2. /\ line \in Nat /\ line + 1 \in Nat
        /\ d \in Directives({line + 1}) /\ d.op \in Branches \cup {"else"}
    BY DEF TypeOK, Next1
  <1> DEFINE b == BranchOf(d)
             n == Len(chains)
  <1>3. /\ b \in Branch
        /\ b.at = line + 1
        /\ Taken(b) <=> Resolve(defines, d)
        /\ Resolve(defines, d) \in BOOLEAN
    BY <1>2, WorthIsResolved DEF TypeOK
  <1>4. chains # <<>> /\ n \in 1..n /\ activity # <<>> /\ Len(activity) = n
    BY DEF NextBranch, StackFollowsHistory, Follows, TypeOK
  <1>5. /\ activity' = [activity EXCEPT ![Len(activity)] =
                            [tag |-> BranchTag(activity, Resolve(defines, d)), at |-> line + 1]]
        /\ [tag |-> BranchTag(activity, Resolve(defines, d)), at |-> line + 1] \in ActivityState
        /\ defines' = defines
    BY <1>1, <1>2, <1>4, BranchActivity, ZenonT(60) DEF TypeOK, Exec
  <1>6. BranchTag(activity, Resolve(defines, d)) = BranchTag(activity, Taken(b))
    BY <1>3 DEF BranchTag
  <1>7. StackFollowsHistory'
    BY <1>1, <1>3, <1>4, <1>5, <1>6, FollowsReplace DEF StackFollowsHistory, TypeOK
  <1>8. /\ chains' \in Seq(Seq(Branch)) /\ Len(chains') = n /\ chains'[n] = Append(chains[n], b)
        /\ \A i \in 1..n : i # n => chains'[i] = chains[i]
    <2>1. chains[n] \in Seq(Branch) /\ chains \in Seq(Seq(Branch))
      BY <1>4 DEF TypeOK
    <2>2. Append(chains[n], b) \in Seq(Branch)
      BY <1>3, <2>1
    <2>3. chains' = [chains EXCEPT ![Len(chains)] = Append(chains[n], b)]
      BY <1>1
    <2> HIDE DEF b
    <2> QED BY <1>4, <2>1, <2>2, <2>3, ReplaceTop
  <1>9. TypeOK'
    <2>1. activity' \in Seq(ActivityState)
      BY <1>4, <1>5, ReplaceTop DEF TypeOK
    <2> QED BY <1>1, <1>2, <1>5, <1>8, <2>1 DEF TypeOK, Exec
  <1>10. Positions'
    <2> SUFFICES ASSUME NEW i \in 1..Len(chains') PROVE Latest(chains'[i]).at \in 0..line'
      BY DEF Positions
    <2>1. CASE i # n
      <3>1. i \in 1..n /\ chains'[i] = chains[i]
        BY <1>8, <2>1
      <3> QED BY <1>1, <1>2, <3>1 DEF Positions, Exec
    <2>2. CASE i = n
      <3>1. chains[n] \in Seq(Branch)
        BY <1>4 DEF TypeOK
      <3>2. Latest(Append(chains[n], b)) = b
        BY <1>3, <3>1, ChosenAppend
      <3>3. Latest(chains'[i]) = b
        BY <1>8, <2>2, <3>2
      <3> HIDE DEF b
      <3> QED BY <1>1, <1>2, <1>3, <3>3 DEF Exec
    <2> QED BY <2>1, <2>2
  <1> QED BY <1>7, <1>9, <1>10

LEMMA EndIfStep ==
    ASSUME TypeOK, StackFollowsHistory, Positions, EndIf
    PROVE  TypeOK' /\ StackFollowsHistory' /\ Positions'
  <1>1. PICK d \in Next1({"endif"}) :
            Exec(d) /\ chains' = SubSeq(chains, 1, Len(chains) - 1)
    BY DEF EndIf
  <1>2. line \in Nat /\ line' = line + 1 /\ d.op = "endif"
    BY <1>1 DEF TypeOK, Next1, Exec
  <1>3. chains # <<>> /\ Len(chains) \in Nat \ {0} /\ activity # <<>>
    BY DEF EndIf, StackFollowsHistory, Follows, TypeOK
  <1>4. activity' = SubSeq(activity, 1, Len(activity) - 1) /\ defines' = defines
    BY <1>1, <1>2, <1>3, EndIfActivity DEF TypeOK, Exec
  <1>5. StackFollowsHistory'
    BY <1>1, <1>3, <1>4, FollowsPop DEF StackFollowsHistory, TypeOK
  <1>6. /\ chains' \in Seq(Seq(Branch)) /\ Len(chains') = Len(chains) - 1
        /\ \A i \in 1..(Len(chains) - 1) : chains'[i] = chains[i]
    <2>1. chains \in Seq(Seq(Branch))
      BY DEF TypeOK
    <2>2. /\ SubSeq(chains, 1, Len(chains) - 1) \in Seq(Seq(Branch))
          /\ Len(SubSeq(chains, 1, Len(chains) - 1)) = Len(chains) - 1
          /\ \A i \in 1..(Len(chains) - 1) : SubSeq(chains, 1, Len(chains) - 1)[i] = chains[i]
      BY <1>3, <2>1, DropTop
    <2> QED BY <1>1, <2>2
  <1>7. activity' \in Seq(ActivityState)
    BY <1>3, <1>4 DEF TypeOK
  <1>8. TypeOK'
    BY <1>1, <1>2, <1>4, <1>6, <1>7 DEF TypeOK, Exec
  <1>9. Positions'
    BY <1>2, <1>3, <1>6 DEF Positions
  <1> QED BY <1>5, <1>8, <1>9

LEMMA OtherStep ==
    ASSUME TypeOK, StackFollowsHistory, Positions, StrayDirective \/ Definition \/ UserMessage
    PROVE  /\ TypeOK' /\ StackFollowsHistory' /\ Positions'
           /\ activity' = activity /\ chains' = chains /\ line' = line + 1 /\ ended' = ended
  <1>1. PICK d \in Directives({line + 1}) :
            /\ Exec(d)
            /\ chains' = chains
            /\ \/ d.op \in {"define", "undef", "error", "warning"}
               \/ chains = <<>> /\ d.op \in Branches \cup {"else", "endif"}
    BY DEF StrayDirective, Definition, UserMessage, Next1
  <1>2. line \in Nat /\ line + 1 \in Nat /\ (chains = <<>> => activity = <<>>)
    BY DEF StackFollowsHistory, Follows, TypeOK
  <1>3. activity' = activity /\ defines' \in Defines
    BY <1>1, <1>2, OtherActivity DEF TypeOK, Exec
  <1>4. line' = line + 1 /\ ended' = ended
    BY <1>1 DEF Exec
  <1>5. TypeOK' /\ StackFollowsHistory' /\ Positions'
    BY <1>1, <1>2, <1>3, <1>4 DEF TypeOK, StackFollowsHistory, Follows, Positions
  <1> QED BY <1>1, <1>3, <1>4, <1>5

LEMMA ExprDiagnosed ==
    ASSUME NEW defs, NEW act \in Seq(ActivityState), NEW d
    PROVE  LET r == DiagSeq(ExecDiags(defs, act, d))
           IN  (\E i \in 1..Len(r) : r[i].kind = "Expr") <=>
                  /\ d.op \in {"if", "elif"}
                  /\ Consults(act, d)
                  /\ Evaluate(defs, d.arg) = "malformed"
  <1> DEFINE D == ExecDiags(defs, act, d)
             Bad == /\ d.op \in {"if", "elif"}
                    /\ Consults(act, d)
                    /\ Evaluate(defs, d.arg) = "malformed"
  <1>1. CASE Bad
    <2>1. D = {Diag("Expr", d.at)}
      <3>1. ~(d.op \in Branches \cup {"else", "endif"} /\ State(act) = "Root")
        BY <1>1 DEF Consults, Openers, Branches
      <3>2. d.op \notin {"define", "warning", "error"}
        BY <1>1
      <3> QED BY <1>1, <3>1, <3>2 DEF ExecDiags, When
    <2>2. DiagSeq(D) = <<Diag("Expr", d.at)>>
      BY <2>1 DEF DiagSeq
    <2>3. Diag("Expr", d.at).kind = "Expr"
      BY DEF Diag
    <2> HIDE DEF D
    <2>4. \E i \in 1..Len(DiagSeq(D)) : DiagSeq(D)[i].kind = "Expr"
      BY <2>2, <2>3
    <2> QED BY <1>1, <2>4 DEF D
  <1>2. CASE ~Bad
    <2>1. \A k \in D : k.kind # "Expr"
      BY <1>2 DEF ExecDiags, When, Diag
    <2> HIDE DEF D
    <2>2. \A i \in 1..Len(DiagSeq(D)) : DiagSeq(D)[i] \in D
      BY DEF DiagSeq
    <2>3. ~\E i \in 1..Len(DiagSeq(D)) : DiagSeq(D)[i].kind = "Expr"
      BY <2>1, <2>2
    <2> QED BY <1>2, <2>3 DEF D
  <1> QED BY <1>1, <1>2

LEMMA OpenBlockReports ==
    ASSUME TypeOK, StackFollowsHistory, OpenBlock
    PROVE  BadConditionReportedWhereItMatters'
  <1>1. PICK d \in Next1(Openers) : Exec(d) /\ chains' = Append(chains, <<BranchOf(d)>>)
    BY DEF OpenBlock
  <1> DEFINE b == BranchOf(d)
             n == Len(chains)
  <1>2. /\ line + 1 \in Nat /\ d \in Directives({line + 1}) /\ d.op \in Openers
        /\ b \in Branch /\ b.at = line + 1
    BY WorthIsResolved DEF TypeOK, Next1
  <1>3. ExprReported' <=> /\ d.op \in {"if", "elif"}
                          /\ Consults(activity, d)
                          /\ Evaluate(defines, d.arg) = "malformed"
    BY <1>1, ExprDiagnosed, ZenonT(60) DEF ExprReported, Exec, TypeOK
  <1>4. Consults(activity, d) <=> Active(activity)
    BY <1>2 DEF Consults, Openers, Branches
  <1>5. b.worth = "malformed" <=>
            d.op \in {"if", "elif"} /\ Evaluate(defines, d.arg) = "malformed"
    BY DEF BranchOf, Worth
  <1> HIDE DEF b
  <1>6. /\ chains' # <<>> /\ Latest(chains') = <<b>> /\ Len(chains') = n + 1 /\ n \in Nat
        /\ \A k \in 1..n : chains'[k] = chains[k]
    BY <1>1 DEF TypeOK, Latest, b
  <1>7. Latest(<<b>>) = b /\ Len(<<b>>) = 1
    BY DEF Latest
  <1>8. OuterLive(chains', n + 1) <=> Active(activity)
    BY <1>6, FollowsActive DEF OuterLive, TypeOK, StackFollowsHistory
  <1>9. ~ended' /\ line' = line + 1
    BY <1>1 DEF OpenBlock, CanRead, Exec
  <1>10. BeganLiveBranch' <=> Active(activity)
    BY <1>2, <1>6, <1>7, <1>8, <1>9 DEF BeganLiveBranch
  <1> QED BY <1>3, <1>4, <1>5, <1>6, <1>7, <1>10 DEF BadConditionReportedWhereItMatters

LEMMA NextBranchReports ==
    ASSUME TypeOK, StackFollowsHistory, NextBranch
    PROVE  BadConditionReportedWhereItMatters'
  <1>1. PICK d \in Next1(Branches \cup {"else"}) :
            /\ Exec(d)
            /\ chains' = [chains EXCEPT ![Len(chains)] = Append(@, BranchOf(d))]
    BY DEF NextBranch
  <1> DEFINE b == BranchOf(d)
             n == Len(chains)
  <1>2. /\ line + 1 \in Nat /\ d \in Directives({line + 1}) /\ d.op \in Branches \cup {"else"}
        /\ b \in Branch /\ b.at = line + 1
    BY WorthIsResolved DEF TypeOK, Next1
  <1>3. ExprReported' <=> /\ d.op \in {"if", "elif"}
                          /\ Consults(activity, d)
                          /\ Evaluate(defines, d.arg) = "malformed"
    BY <1>1, ExprDiagnosed DEF ExprReported, Exec, TypeOK
  <1>4. d.op = "elif" => (Consults(activity, d) <=> State(activity) = "ResolvedFalse")
    BY DEF Consults, Openers, Branches
  <1>5. /\ d.op # "if"
        /\ b.worth = "malformed" <=> d.op = "elif" /\ Evaluate(defines, d.arg) = "malformed"
    BY <1>2 DEF BranchOf, Worth, Branches
  <1>6. n \in 1..n /\ chains # <<>> /\ chains[n] \in Seq(Branch) /\ activity # <<>> /\ Len(activity) = n
    BY DEF NextBranch, StackFollowsHistory, Follows, TypeOK
  <1> HIDE DEF b
  <1>7. /\ chains' \in Seq(Seq(Branch)) /\ Len(chains') = n /\ chains'[n] = Append(chains[n], b)
        /\ \A i \in 1..n : i # n => chains'[i] = chains[i]
    <2>1. Append(chains[n], b) \in Seq(Branch)
      BY <1>2, <1>6
    <2>2. chains' = [chains EXCEPT ![Len(chains)] = Append(chains[n], b)]
      BY <1>1 DEF b
    <2> QED BY <1>6, <2>1, <2>2, ReplaceTop DEF TypeOK
  <1>8. State(activity) = "ResolvedFalse" <=> OuterLive(chains, n) /\ Untaken(chains[n])
    BY <1>6 DEF StackFollowsHistory, Follows, State
  <1>9. OuterLive(chains', n) <=> OuterLive(chains, n)
    BY <1>6, <1>7 DEF OuterLive
  <1>10. ~ended' /\ line' = line + 1
    BY <1>1 DEF NextBranch, CanRead, Exec
  <1>11. Latest(chains') = Append(chains[n], b) /\ chains' # <<>>
    BY <1>6, <1>7 DEF Latest
  <1>12. Latest(Latest(chains')) = b
    BY <1>2, <1>6, <1>11, ChosenAppend
  <1>13. (\A j \in 1..(Len(Latest(chains')) - 1) : ~Taken(Latest(chains')[j])) <=> Untaken(chains[n])
    <2>1. Len(Append(chains[n], b)) - 1 = Len(chains[n])
      BY <1>6
    <2>2. \A j \in 1..Len(chains[n]) : Append(chains[n], b)[j] = chains[n][j]
      BY <1>6
    <2> QED BY <1>11, <2>1, <2>2 DEF Untaken
  <1>14. BeganLiveBranch' <=> State(activity) = "ResolvedFalse"
    BY <1>2, <1>7, <1>8, <1>9, <1>10, <1>11, <1>12, <1>13 DEF BeganLiveBranch
  <1> QED BY <1>3, <1>4, <1>5, <1>12, <1>14 DEF BadConditionReportedWhereItMatters

LEMMA NoBranchReports ==
    ASSUME TypeOK, Positions, Positions', NEW d, Exec(d), ~ended, d.op \notin {"if", "elif"},
           \A i \in 1..Len(chains') : i \in 1..Len(chains) /\ chains'[i] = chains[i],
           chains' \in Seq(Seq(Branch))
    PROVE  BadConditionReportedWhereItMatters'
  <1>1. ~ExprReported'
    BY ExprDiagnosed DEF ExprReported, Exec, TypeOK
  <1>2. line \in Nat /\ line' = line + 1
    BY DEF TypeOK, Exec
  <1>3. ~BeganLiveBranch'
    <2>1. CASE chains' = <<>>
      BY <2>1 DEF BeganLiveBranch
    <2>2. CASE chains' # <<>>
      <3>1. Len(chains') \in 1..Len(chains')
        BY <2>2
      <3>2. Latest(chains') = chains[Len(chains')] /\ Len(chains') \in 1..Len(chains)
        BY <3>1 DEF Latest
      <3>3. Latest(Latest(chains')).at \in 0..line
        BY <3>2 DEF Positions
      <3> QED BY <1>2, <3>3 DEF BeganLiveBranch
    <2> QED BY <2>1, <2>2
  <1> QED BY <1>1, <1>3 DEF BadConditionReportedWhereItMatters

LEMMA EndStep ==
    ASSUME TypeOK, StackFollowsHistory, Positions, End
    PROVE  IInv'
  <1>1. TypeOK' /\ StackFollowsHistory' /\ Positions'
    BY DEF End, TypeOK, StackFollowsHistory, Follows, Positions
  <1>2. Reports'
    BY DEF End, Reports
  <1> QED BY <1>1, <1>2 DEF IInv

LEMMA Stutter ==
    ASSUME IInv, UNCHANGED vars
    PROVE  IInv'
  <1>1. TypeOK' /\ StackFollowsHistory' /\ Positions'
    BY DEF IInv, vars, TypeOK, StackFollowsHistory, Follows, Positions
  <1>2. Reports'
    BY DEF IInv, vars, Reports, BadConditionReportedWhereItMatters, ExprReported, BeganLiveBranch
  <1> QED BY <1>1, <1>2 DEF IInv

LEMMA NextIInv == IInv /\ [Next]_vars => IInv'
  <1> SUFFICES ASSUME IInv, [Next]_vars PROVE IInv'
    OBVIOUS
  <1> USE DEF IInv
  <1>1. CASE OpenBlock
    <2>1. ended' = FALSE
      BY <1>1 DEF OpenBlock, CanRead, Exec, TypeOK
    <2> QED BY <1>1, <2>1, OpenBlockStep, OpenBlockReports DEF Reports
  <1>2. CASE NextBranch
    <2>1. ended' = FALSE
      BY <1>2 DEF NextBranch, CanRead, Exec, TypeOK
    <2> QED BY <1>2, <2>1, NextBranchStep, NextBranchReports DEF Reports
  <1>3. CASE EndIf
    <2>1. PICK d \in Next1({"endif"}) : Exec(d) /\ chains' = SubSeq(chains, 1, Len(chains) - 1)
      BY <1>3 DEF EndIf
    <2>2. ~ended /\ ended' = FALSE /\ d.op \notin {"if", "elif"}
      BY <1>3, <2>1 DEF EndIf, CanRead, Exec, TypeOK, Next1
    <2>3. TypeOK' /\ StackFollowsHistory' /\ Positions'
      BY <1>3, EndIfStep
    <2>4. \A i \in 1..Len(chains') : i \in 1..Len(chains) /\ chains'[i] = chains[i]
      <3>1. chains # <<>> /\ chains \in Seq(Seq(Branch)) /\ Len(chains) \in Nat \ {0}
        BY <1>3 DEF EndIf, TypeOK
      <3>2. Len(chains') = Len(chains) - 1 /\ \A i \in 1..(Len(chains) - 1) : chains'[i] = chains[i]
        BY <2>1, <3>1, DropTop
      <3> QED BY <3>1, <3>2
    <2>5. BadConditionReportedWhereItMatters'
      BY <2>1, <2>2, <2>3, <2>4, NoBranchReports DEF TypeOK
    <2> QED BY <2>2, <2>3, <2>5 DEF Reports
  <1>4. CASE StrayDirective \/ Definition \/ UserMessage
    <2>1. TypeOK' /\ StackFollowsHistory' /\ Positions' /\ chains' = chains
      BY <1>4, OtherStep
    <2>2. PICK d : /\ Exec(d)
                   /\ d.op \in {"define", "undef", "error", "warning", "else", "endif"} \cup Branches
                   /\ chains = <<>> \/ d.op \in {"define", "undef", "error", "warning"}
                   /\ ~ended
      BY <1>4 DEF StrayDirective, Definition, UserMessage, Next1, CanRead
    <2>3. ended' = FALSE
      BY <2>2 DEF Exec, TypeOK
    <2>4. BadConditionReportedWhereItMatters'
      <3>1. CASE d.op \notin {"if", "elif"}
        BY <2>1, <2>2, <3>1, NoBranchReports DEF TypeOK
      <3>2. CASE d.op \in {"if", "elif"}
        <4>1. chains' = <<>> /\ activity = <<>> /\ d.op = "elif"
          BY <2>1, <2>2, <3>2 DEF StackFollowsHistory, Follows, TypeOK, Branches
        <4>2. ~Consults(activity, d)
          BY <4>1 DEF Consults, State, Openers
        <4>3. ~ExprReported'
          BY <2>2, <4>2, ExprDiagnosed DEF ExprReported, Exec, TypeOK
        <4> QED BY <4>1, <4>3 DEF BadConditionReportedWhereItMatters, BeganLiveBranch
      <3> QED BY <3>1, <3>2
    <2> QED BY <2>1, <2>3, <2>4 DEF Reports
  <1>5. CASE End
    BY <1>5, EndStep
  <1>6. CASE UNCHANGED vars
    BY <1>6, Stutter
  <1> QED BY <1>1, <1>2, <1>3, <1>4, <1>5, <1>6 DEF Next

THEOREM Inductive == Spec => []IInv
  BY InitIInv, NextIInv, PTL DEF Spec

(* Type correctness: the stack never holds the Root state that end()       *)
(* declares unreachable.                                                   *)
THEOREM TypeCorrect == Spec => []TypeOK
  <1>1. IInv => TypeOK
    BY DEF IInv
  <1> QED BY <1>1, Inductive, PTL

(* The stack of resolved states is a function of the source read so far.   *)
THEOREM StackIsResolved == Spec => []StackFollowsHistory
  <1>1. IInv => StackFollowsHistory
    BY DEF IInv
  <1> QED BY <1>1, Inductive, PTL

(* active() answers from the top of the stack what conditional compilation *)
(* asks of the whole history: every branch around the line is selected.    *)
THEOREM ActivityIsSelection == Spec => []ActiveIffSelected
  <1>1. IInv => ActiveIffSelected
    BY FollowsActive DEF IInv, ActiveIffSelected, TypeOK, StackFollowsHistory
  <1> QED BY <1>1, Inductive, PTL

(* end() reports exactly the open blocks, each at its latest directive.    *)
THEOREM EndReportsOpenBlocks == Spec => []UnterminatedReport
  <1>1. IInv => UnterminatedReport
    <2> SUFFICES ASSUME IInv, ended
                 PROVE  /\ Len(reported) = Len(chains)
                        /\ \A i \in 1..Len(chains) :
                             reported[i] = [kind |-> "Unterminated",
                                            at |-> Latest(chains[Len(chains) + 1 - i]).at]
      BY DEF UnterminatedReport
    <2>1. /\ reported = EndReports(activity) /\ Len(activity) = Len(chains) /\ Len(chains) \in Nat
          /\ \A i \in 1..Len(chains) : activity[i].at = Latest(chains[i]).at
      BY DEF IInv, Reports, StackFollowsHistory, Follows, TypeOK
    <2>2. \A i \in 1..Len(chains) : Len(chains) + 1 - i \in 1..Len(chains)
      BY <2>1
    <2> QED BY <2>1, <2>2 DEF EndReports, Diag
  <1> QED BY <1>1, Inductive, PTL

(* A condition that does not evaluate is reported exactly where its value  *)
(* can matter.                                                             *)
THEOREM BadConditionsReported == Spec => []BadConditionReportedWhereItMatters
  <1>1. IInv => BadConditionReportedWhereItMatters
    <2> SUFFICES ASSUME IInv, ended PROVE BadConditionReportedWhereItMatters
      BY DEF IInv, Reports
    <2>1. reported = EndReports(activity) /\ Len(activity) \in Nat
      BY DEF IInv, Reports, TypeOK
    <2>2. Len(reported) = Len(activity) /\ \A i \in 1..Len(activity) : reported[i].kind = "Unterminated"
      BY <2>1 DEF EndReports, Diag
    <2>3. ~ExprReported
      BY <2>2 DEF ExprReported
    <2> QED BY <2>3 DEF BadConditionReportedWhereItMatters, BeganLiveBranch
  <1> QED BY <1>1, Inductive, PTL

-----------------------------------------------------------------------------
(* Of the pre-parser's texts: least and greatest numbers, and induction.   *)

LEMMA LeastOf ==
    ASSUME NEW S \in SUBSET Nat, S # {}
    PROVE  \E m \in S : \A k \in S : m <= k
<1>1. IsWellFoundedOn(OpToRel(<, Nat), Nat)
    BY NatLessThanWellFounded
<1>2. PICK m \in S : \A k \in S : ~(<<k, m>> \in OpToRel(<, Nat))
    BY <1>1, WFMin
<1>3. \A k \in S : ~(k < m)
    BY <1>2 DEF OpToRel
<1>. QED
    BY <1>3

LEMMA GreatestOf ==
    ASSUME NEW top \in Nat, NEW S \in SUBSET (0..top), S # {}
    PROVE  \E m \in S : \A k \in S : k <= m
<1> DEFINE U == {n \in Nat : \A k \in S : k <= n}
<1>1. top \in U
    OBVIOUS
<1>2. PICK n \in U : \A k \in U : n <= k
    BY <1>1, LeastOf
<1>3. CASE n \in S
    BY <1>3
<1>4. CASE n \notin S
    <2>1. \A k \in S : k \in Nat /\ k <= n /\ k # n
        BY <1>4
    <2>2. n # 0
        <3>1. PICK k \in S : TRUE
            OBVIOUS
        <3>. QED
            BY <2>1, <3>1
    <2>3. n - 1 \in U
        BY <2>1, <2>2
    <2>. QED
        BY <1>2, <2>3
<1>. QED
    BY <1>3, <1>4

\* Induction over the naturals, for the numbers a set holds.
LEMMA Induction ==
    ASSUME NEW S \in SUBSET Nat, 0 \in S, \A n \in S : n + 1 \in S
    PROVE  S = Nat
<1> DEFINE Bad == Nat \ S
<1> SUFFICES ASSUME Bad # {} PROVE FALSE
    OBVIOUS
<1>1. PICK m \in Bad : \A n \in Bad : m <= n
    BY LeastOf
<1>2. m \in Nat /\ m \notin S /\ m # 0
    OBVIOUS
<1>3. m - 1 \in Nat /\ ~(m <= m - 1) /\ (m - 1) + 1 = m
    BY <1>2
<1>4. m - 1 \in S
    BY <1>1, <1>3
<1>. QED
    BY <1>2, <1>3, <1>4

-----------------------------------------------------------------------------
(* Values made one after the other: given what each is made of the one     *)
(* before it, there is a function of them all.                             *)

Follow(g, first, step, n) ==
    g[0] = first /\ \A m \in 1..n : g[m] = step[m][g[m - 1]]

LEMMA ThereIsARow ==
    ASSUME NEW X, NEW first \in X, NEW step \in [Nat -> [X -> X]], NEW n \in Nat
    PROVE  \E g \in [0..n -> X] : Follow(g, first, step, n)
<1> DEFINE S == {k \in Nat : \E g \in [0..k -> X] : Follow(g, first, step, k)}
<1>1. 0 \in S
    <2>1. [m \in 0..0 |-> first] \in [0..0 -> X] /\ Follow([m \in 0..0 |-> first], first, step, 0)
        BY DEF Follow
    <2>. QED
        BY <2>1
<1>2. ASSUME NEW k \in S PROVE k + 1 \in S
    <2>1. PICK g \in [0..k -> X] : Follow(g, first, step, k)
        OBVIOUS
    <2> DEFINE h == [m \in 0..(k + 1) |-> IF m = k + 1 THEN step[k + 1][g[k]] ELSE g[m]]
    <2>2. k \in Nat /\ k \in 0..k /\ 0 \in 0..k
        OBVIOUS
    <2>3. g[k] \in X /\ step[k + 1] \in [X -> X] /\ step[k + 1][g[k]] \in X
        BY <2>2
    <2>4. h \in [0..(k + 1) -> X]
        BY <2>2, <2>3
    <2>5. \A m \in 0..k : h[m] = g[m]
        BY <2>2
    <2>6. h[k + 1] = step[k + 1][h[k]]
        BY <2>2
    <2> HIDE DEF h
    <2>7. ASSUME NEW m \in 1..(k + 1) PROVE h[m] = step[m][h[m - 1]]
        <3>1. CASE m = k + 1
            <4>1. m - 1 = k
                BY <3>1, <2>2
            <4>. QED
                BY <3>1, <4>1, <2>6
        <3>2. CASE m # k + 1
            <4>1. m \in 1..k /\ m \in 0..k /\ m - 1 \in 0..k
                BY <3>2, <2>2
            <4>. QED
                BY <4>1, <2>1, <2>5 DEF Follow
        <3>. QED
            BY <3>1, <3>2
    <2>8. h[0] = first
        BY <2>1, <2>2, <2>5 DEF Follow
    <2>9. Follow(h, first, step, k + 1)
        BY <2>7, <2>8 DEF Follow
    <2>. QED
        BY <2>2, <2>4, <2>9
<1> HIDE DEF S
<1>3. S \in SUBSET Nat
    BY DEF S
<1>4. S = Nat
    BY <1>1, <1>2, <1>3, Induction
<1>. QED
    BY <1>4 DEF S

-----------------------------------------------------------------------------
(* Sequences of any elements.                                              *)

LEMMA ConcatIs ==
    ASSUME NEW T, NEW s \in Seq(T), NEW t \in Seq(T)
    PROVE  /\ s \o t \in Seq(T) /\ Len(s \o t) = Len(s) + Len(t)
           /\ \A k \in 1..Len(s) : (s \o t)[k] = s[k]
           /\ \A k \in 1..Len(t) : (s \o t)[Len(s) + k] = t[k]
  OBVIOUS

LEMMA SameSequence ==
    ASSUME NEW T, NEW s \in Seq(T), NEW t \in Seq(T), Len(s) = Len(t),
           \A k \in 1..Len(s) : s[k] = t[k]
    PROVE  s = t
  OBVIOUS

-----------------------------------------------------------------------------
(* FlattenSeq.                                                             *)

Flattens(s, f) == f = [i \in 1..Len(s) |-> IF i = 1 THEN s[i] ELSE f[i - 1] \o s[i]]

LEMMA FlattenIs ==
    ASSUME NEW T, NEW s \in Seq(Seq(T)), s # <<>>
    PROVE  \E f \in [1..Len(s) -> Seq(T)] : Flattens(s, f) /\ FlattenSeq(s) = f[Len(s)]
<1> DEFINE n == Len(s)
           step == [m \in Nat |-> [x \in Seq(T) |-> IF m \in 2..n THEN x \o s[m] ELSE s[1]]]
<1>1. n \in Nat /\ n # 0 /\ \A i \in 1..n : s[i] \in Seq(T)
    OBVIOUS
<1>2. step \in [Nat -> [Seq(T) -> Seq(T)]]
    <2>1. ASSUME NEW m \in Nat, NEW x \in Seq(T)
          PROVE  (IF m \in 2..n THEN x \o s[m] ELSE s[1]) \in Seq(T)
        <3>1. CASE m \in 2..n
            <4>1. s[m] \in Seq(T)
                BY <3>1, <1>1
            <4>2. \A y \in Seq(T) : x \o y \in Seq(T)
                OBVIOUS
            <4>. QED
                BY <3>1, <4>1, <4>2
        <3>2. CASE m \notin 2..n
            BY <3>2, <1>1
        <3>. QED
            BY <3>1, <3>2
    <2>. QED
        BY <2>1
<1>3. PICK g \in [0..n -> Seq(T)] : Follow(g, <<>>, step, n)
    <2> HIDE DEF step, n
    <2>1. <<>> \in Seq(T)
        OBVIOUS
    <2>. QED
        BY <1>1, <1>2, <2>1, ThereIsARow
<1> DEFINE f == [i \in 1..n |-> g[i]]
<1>4. Flattens(s, f)
    <2>1. ASSUME NEW i \in 1..n PROVE f[i] = IF i = 1 THEN s[i] ELSE f[i - 1] \o s[i]
        <3>1. g[i] = step[i][g[i - 1]]
            BY <1>3 DEF Follow
        <3>2. i \in Nat /\ i - 1 \in 0..n /\ g[i - 1] \in Seq(T)
            <4> HIDE DEF n, step, f
            <4>1. n \in Nat
                BY <1>1
            <4>2. i \in Nat /\ i - 1 \in 0..n
                BY <4>1
            <4>. QED
                BY <4>2
        <3>3. g[i] = IF i \in 2..n THEN g[i - 1] \o s[i] ELSE s[1]
            BY <3>1, <3>2
        <3>4. CASE i = 1
            BY <3>3, <3>4
        <3>5. CASE i # 1
            <4>1. i \in 2..n /\ i - 1 \in 1..n
                BY <3>5
            <4>. QED
                BY <3>3, <3>5, <4>1
        <3>. QED
            BY <3>4, <3>5
    <2>. QED
        BY <2>1 DEF Flattens
<1>5. f \in [1..n -> Seq(T)]
    BY <1>1
<1> DEFINE F == CHOOSE h : Flattens(s, h)
<1> HIDE DEF f
<1>6. Flattens(s, F)
    BY <1>4
<1>7. FlattenSeq(s) = F[n]
    BY <1>1 DEF FlattenSeq, Flattens
<1> HIDE DEF F
<1>8. \A i \in 1..n : F[i] = f[i]
    <2> DEFINE S == {k \in Nat : k \in 1..n => F[k] = f[k]}
    <2>1. 0 \in S
        OBVIOUS
    <2>2. ASSUME NEW k \in S PROVE k + 1 \in S
        <3>1. SUFFICES ASSUME k + 1 \in 1..n PROVE F[k + 1] = f[k + 1]
            OBVIOUS
        <3>2. /\ F[k + 1] = IF k + 1 = 1 THEN s[k + 1] ELSE F[(k + 1) - 1] \o s[k + 1]
              /\ f[k + 1] = IF k + 1 = 1 THEN s[k + 1] ELSE f[(k + 1) - 1] \o s[k + 1]
            BY <1>4, <1>6, <3>1 DEF Flattens
        <3>3. CASE k = 0
            BY <3>2, <3>3
        <3>4. CASE k # 0
            <4>1. k \in 1..n /\ (k + 1) - 1 = k /\ k + 1 # 1
                BY <3>1, <3>4
            <4>2. F[k] = f[k]
                BY <4>1
            <4>. QED
                BY <3>2, <4>1, <4>2
        <3>. QED
            BY <3>3, <3>4
    <2> HIDE DEF S
    <2>3. S \in SUBSET Nat
        BY DEF S
    <2>4. S = Nat
        BY <2>1, <2>2, <2>3, Induction
    <2>. QED
        BY <2>4, SMTT(20) DEF S
<1>9. n \in 1..n
    BY <1>1
<1>. QED
    BY <1>4, <1>5, <1>7, <1>8, <1>9

LEMMA FlattenNone == FlattenSeq(<<>>) = <<>>
    BY DEF FlattenSeq

LEMMA FlattenType ==
    ASSUME NEW T, NEW s \in Seq(Seq(T))
    PROVE  FlattenSeq(s) \in Seq(T)
<1>1. CASE s = <<>>
    <2>1. <<>> \in Seq(T)
        OBVIOUS
    <2>. QED
        BY <1>1, <2>1, FlattenNone
<1>2. CASE s # <<>>
    <2>1. PICK f \in [1..Len(s) -> Seq(T)] : FlattenSeq(s) = f[Len(s)]
        BY <1>2, FlattenIs
    <2>2. Len(s) \in 1..Len(s)
        BY <1>2
    <2>. QED
        BY <2>1, <2>2
<1>. QED
    BY <1>1, <1>2
-----------------------------------------------------------------------------
(* Scans: a function of places that hands on to a place further along, or  *)
(* stops.                                                                  *)

IsScan(f, X, stop, value, next) ==
    f = [x \in X |-> IF x \in stop THEN value[x] ELSE f[next[x]]]

LEMMA ThereIsAScan ==
    ASSUME NEW X, NEW V, NEW top \in Nat, NEW rank \in [X -> 0..top], NEW stop \in SUBSET X,
           NEW value \in [X -> V], NEW next \in [X -> X],
           \A x \in X \ stop : rank[next[x]] < rank[x]
    PROVE  \E f \in [X -> V] : IsScan(f, X, stop, value, next)
<1> DEFINE Good(f, n) ==
               \A x \in X : rank[x] < n => f[x] = IF x \in stop THEN value[x] ELSE f[next[x]]
           S == {n \in Nat : \E f \in [X -> V] : Good(f, n)}
<1>1. 0 \in S
    <2>1. ~(\E x \in X : rank[x] < 0)
        OBVIOUS
    <2>. QED
        BY <2>1
<1>2. ASSUME NEW n \in S PROVE n + 1 \in S
    <2>1. PICK f \in [X -> V] : Good(f, n)
        OBVIOUS
    <2> DEFINE g == [x \in X |-> IF x \in stop THEN value[x] ELSE f[next[x]]]
    <2>2. g \in [X -> V]
        OBVIOUS
    <2>3. \A x \in X : rank[x] < n => g[x] = f[x]
        BY <2>1
    <2>4. ASSUME NEW x \in X, rank[x] < n + 1, x \notin stop PROVE g[next[x]] = f[next[x]]
        <3>1. rank[next[x]] < rank[x] /\ next[x] \in X /\ rank[x] \in Nat /\ rank[next[x]] \in Nat /\ n \in Nat
            BY <2>4
        <3>2. rank[next[x]] < n
            BY <3>1, <2>4
        <3>. QED
            BY <3>1, <3>2, <2>3
    <2>5. Good(g, n + 1)
        BY <2>4
    <2>6. n + 1 \in Nat
        OBVIOUS
    <2> HIDE DEF g, Good
    <2>. QED
        BY <2>2, <2>5, <2>6
<1>3. S \in SUBSET Nat
    OBVIOUS
<1> HIDE DEF S
<1>4. top + 1 \in S
    BY <1>1, <1>2, <1>3, Induction
<1>5. PICK f \in [X -> V] : Good(f, top + 1)
    BY <1>4 DEF S
<1>6. \A x \in X : rank[x] < top + 1
    OBVIOUS
<1>. QED
    BY <1>5, <1>6 DEF IsScan

LEMMA ScanKeeps ==
    ASSUME NEW X, NEW top \in Nat, NEW rank \in [X -> 0..top], NEW stop \in SUBSET X,
           NEW value, NEW next \in [X -> X],
           \A x \in X \ stop : rank[next[x]] < rank[x],
           NEW f, IsScan(f, X, stop, value, next),
           NEW P,
           \A x \in stop : <<x, value[x]>> \in P,
           \A x \in X \ stop : \A v : <<next[x], v>> \in P => <<x, v>> \in P
    PROVE  \A x \in X : <<x, f[x]>> \in P
<1> DEFINE S == {n \in Nat : \A x \in X : rank[x] < n => <<x, f[x]>> \in P}
<1>1. 0 \in S
    <2>1. ~(\E x \in X : rank[x] < 0)
        OBVIOUS
    <2>. QED
        BY <2>1
<1>2. ASSUME NEW n \in S PROVE n + 1 \in S
    <2>1. ASSUME NEW x \in X, rank[x] < n + 1 PROVE <<x, f[x]>> \in P
        <3>1. CASE x \in stop
            BY <3>1 DEF IsScan
        <3>2. CASE x \notin stop
            <4>1. rank[next[x]] < rank[x] /\ next[x] \in X /\ rank[x] \in Nat /\ rank[next[x]] \in Nat /\ n \in Nat
                BY <3>2
            <4>2. rank[next[x]] < n
                BY <4>1, <2>1
            <4>3. <<next[x], f[next[x]]>> \in P
                BY <4>1, <4>2
            <4>4. f[x] = f[next[x]]
                BY <3>2 DEF IsScan
            <4>. QED
                BY <3>2, <4>3, <4>4
        <3>. QED
            BY <3>1, <3>2
    <2>. QED
        BY <2>1
<1>3. S \in SUBSET Nat
    OBVIOUS
<1> HIDE DEF S
<1>4. top + 1 \in S
    BY <1>1, <1>2, <1>3, Induction
<1>. QED
    BY <1>4 DEF S

-----------------------------------------------------------------------------
(* The text of a file, and where its lines and words end.                  *)

LEMMA MinIs ==
    ASSUME NEW S \in SUBSET Nat, S # {}
    PROVE  Min(S) \in S /\ \A k \in S : Min(S) <= k
  BY LeastOf DEF Min

LEMMA MaxIs ==
    ASSUME NEW top \in Nat, NEW S \in SUBSET (0..top), S # {}
    PROVE  Max(S) \in S /\ \A k \in S : k <= Max(S)
<1>1. PICK m \in S : \A k \in S : k <= m
    BY GreatestOf
<1>2. \A k \in S : k \in Nat
    OBVIOUS
<1>. QED
    BY <1>1, <1>2 DEF Max

IsText == input \in Seq(Symbols)

LEMMA LineEndIs ==
    ASSUME IsText, NEW p \in Nat, p # 0, Size # 0
    PROVE  /\ LineEnd(p) \in Nat /\ LineEnd(p) <= Size
           /\ p <= Size => p <= LineEnd(p)
           /\ p > Size => LineEnd(p) = Size
           /\ \A i \in p..(LineEnd(p) - 1) : input[i] # "nl"
           /\ LineEnd(p) # Size => input[LineEnd(p)] = "nl"
<1> DEFINE S == {i \in p..Size : input[i] = "nl"} \cup {Size}
<1>1. Size \in Nat
    BY DEF Size, IsText
<1>2. S \in SUBSET Nat /\ S # {} /\ \A i \in S : i <= Size /\ (p <= Size => p <= i)
    BY <1>1
<1>3. LineEnd(p) \in S /\ \A k \in S : LineEnd(p) <= k
    <2> HIDE DEF S
    <2>1. Min(S) \in S /\ \A k \in S : Min(S) <= k
        BY <1>2, MinIs
    <2>. QED
        BY <2>1 DEF LineEnd, S
<1> HIDE DEF LineEnd
<1>. QED
    BY <1>1, <1>2, <1>3

LEMMA StartIs ==
    ASSUME IsText, NEW p \in Nat, p # 0, p <= Size + 1
    PROVE  /\ Start(p) \in p..(Size + 1)
           /\ \A i \in p..(Start(p) - 1) : input[i] \in Blank
           /\ Start(p) # Size + 1 => input[Start(p)] \notin Blank
<1> DEFINE S == {i \in p..Size : input[i] \notin Blank} \cup {Size + 1}
<1>1. Size \in Nat
    BY DEF Size, IsText
<1>2. S \in SUBSET Nat /\ S # {} /\ \A i \in S : i \in p..(Size + 1)
    BY <1>1
<1>3. Start(p) \in S /\ \A k \in S : Start(p) <= k
    <2> HIDE DEF S
    <2>1. Min(S) \in S /\ \A k \in S : Min(S) <= k
        BY <1>2, MinIs
    <2>. QED
        BY <2>1 DEF Start, S
<1> HIDE DEF Start
<1>. QED
    BY <1>1, <1>2, <1>3

LEMMA ValueStartIs ==
    ASSUME IsText, NEW p \in 1..(Size + 1)
    PROVE  ValueStart(p) \in 1..(Size + 1) /\ p <= ValueStart(p)
<1> DEFINE S == {i \in p..Size : input[i] # "sp"} \cup {Size + 1}
<1>1. Size \in Nat
    BY DEF Size, IsText
<1>2. S \in SUBSET Nat /\ S # {} /\ \A i \in S : i \in p..(Size + 1)
    BY <1>1
<1>3. ValueStart(p) \in S
    <2> HIDE DEF S
    <2>1. Min(S) \in S
        BY <1>2, MinIs
    <2>. QED
        BY <2>1 DEF ValueStart, S
<1> DEFINE v == ValueStart(p)
<1>4. v \in p..(Size + 1)
    BY <1>2, <1>3
<1> HIDE DEF v
<1>5. v \in 1..(Size + 1) /\ p <= v
    BY <1>1, <1>4
<1>. QED
    BY <1>5 DEF v

\* From a symbol that is not blank.
LEMMA TrimEndIs ==
    ASSUME IsText, NEW p \in 1..Size, NEW q \in p..Size, input[p] \notin Blank
    PROVE  /\ TrimEnd(p, q) \in p..q
           /\ \A i \in (TrimEnd(p, q) + 1)..q : input[i] \in Blank
<1> DEFINE S == {i \in p..q : input[i] \notin Blank} \cup {p - 1}
<1>1. Size \in Nat /\ p \in Nat /\ q \in Nat
    BY DEF Size, IsText
<1>2. S \in SUBSET (0..q) /\ S # {} /\ p \in S
    BY <1>1
<1>3. TrimEnd(p, q) \in S /\ \A k \in S : k <= TrimEnd(p, q)
    <2> HIDE DEF S
    <2>1. Max(S) \in S /\ \A k \in S : k <= Max(S)
        BY <1>1, <1>2, MaxIs
    <2>. QED
        BY <2>1 DEF TrimEnd, S
<1> HIDE DEF TrimEnd
<1>. QED
    BY <1>1, <1>2, <1>3
\* A position behind the quote at p.
LEMMA SkipStringIs ==
    ASSUME IsText, NEW p \in 1..Size, NEW q \in p..Size
    PROVE  SkipString(p, q) \in (p + 1)..(q + 2)
<1> DEFINE D == (p + 1)..(q + 2)
           stop == {i \in D : i > q \/ input[i] = input[p]}
           value == [i \in D |-> i]
           next == [i \in D |-> IF i \in stop THEN i ELSE IF input[i] = "\\" THEN i + 2 ELSE i + 1]
           rank == [i \in D |-> q + 2 - i]
           P == {x \in D \X D : x[2] >= x[1]}
           Is(f) == f = [i \in D |-> IF i > q \/ input[i] = input[p] THEN i
                                     ELSE IF input[i] = "\\" THEN f[i + 2] ELSE f[i + 1]]
           close == CHOOSE f : Is(f)
<1>1. Size \in Nat /\ p \in Nat /\ q \in Nat /\ p <= q /\ q + 2 \in Nat
    BY DEF Size, IsText
<1>2. /\ rank \in [D -> 0..(q + 2)] /\ stop \in SUBSET D
      /\ value \in [D -> D] /\ next \in [D -> D]
    BY <1>1
<1>3. \A i \in D \ stop : rank[next[i]] < rank[i]
    BY <1>1
<1>4. \A f : IsScan(f, D, stop, value, next) <=> Is(f)
    <2>1. ASSUME NEW f, NEW i \in D
          PROVE  (IF i \in stop THEN value[i] ELSE f[next[i]])
                     = IF i > q \/ input[i] = input[p] THEN i
                       ELSE IF input[i] = "\\" THEN f[i + 2] ELSE f[i + 1]
        BY <1>1
    <2> HIDE DEF stop, value, next, D
    <2>. QED
        BY <2>1 DEF IsScan
<1>5. \A i \in stop : <<i, value[i]>> \in P
    BY <1>1
<1>6. \A i \in D \ stop : \A v : <<next[i], v>> \in P => <<i, v>> \in P
    BY <1>1
<1> HIDE DEF D, stop, value, next, rank, P, Is
<1>7. \E f \in [D -> D] : IsScan(f, D, stop, value, next)
    BY <1>1, <1>2, <1>3, ThereIsAScan
<1>8. IsScan(close, D, stop, value, next)
    BY <1>4, <1>7
<1> HIDE DEF close
<1>13. q + 2 \in Nat /\ rank \in [D -> 0..(q + 2)] /\ stop \in SUBSET D /\ next \in [D -> D]
    BY <1>1, <1>2
<1>9. \A i \in D : <<i, close[i]>> \in P
    BY <1>3, <1>5, <1>6, <1>8, <1>13, ScanKeeps
<1>10. p + 1 \in D
    BY <1>1 DEF D
<1>11. close[p + 1] \in D
    BY <1>9, <1>10 DEF P
<1>12. SkipString(p, q) = close[p + 1]
    BY DEF SkipString, close, Is, D
<1>. QED
    BY <1>11, <1>12 DEF D

\* The mark of a comment behind p, or the end.
LEMMA CommentStartIs ==
    ASSUME IsText, NEW p \in 1..Size, NEW q \in p..Size, input[p] # "//"
    PROVE  /\ CommentStart(p, q) \in (p + 1)..(q + 1)
           /\ CommentStart(p, q) # q + 1 => input[CommentStart(p, q)] = "//"
<1> DEFINE D == p..(q + 3)
           stop == {i \in D : i > q \/ input[i] = "//"}
           value == [i \in D |-> IF i > q THEN q + 1 ELSE i]
           next == [i \in D |-> IF i \in stop THEN i
                                ELSE IF input[i] \in Quotes THEN SkipString(i, q) + 1 ELSE i + 1]
           rank == [i \in D |-> q + 3 - i]
           P == {x \in D \X D : /\ x[2] \in p..(q + 1) /\ (x[1] <= q + 1 => x[2] >= x[1])
                                /\ (x[1] > q + 1 => x[2] = q + 1)
                                /\ (x[2] # q + 1 => input[x[2]] = "//")}
           Is(f) == f = [i \in D |-> IF i > q THEN q + 1
                                     ELSE IF input[i] = "//" THEN i
                                     ELSE IF input[i] \in Quotes THEN f[SkipString(i, q) + 1] ELSE f[i + 1]]
           scan == CHOOSE f : Is(f)
<1>1. Size \in Nat /\ p \in Nat /\ q \in Nat /\ p <= q /\ q + 3 \in Nat /\ q <= Size /\ p # 0
    BY DEF Size, IsText
<1>15. \A i \in D : i <= q => SkipString(i, q) \in (i + 1)..(q + 2)
    <2>1. ASSUME NEW i \in D, i <= q PROVE SkipString(i, q) \in (i + 1)..(q + 2)
        <3>1. i \in 1..Size /\ q \in i..Size
            BY <1>1, <2>1
        <3>. QED
            BY <3>1, SkipStringIs
    <2>. QED
        BY <2>1
<1>16. \A i \in D \ stop : next[i] \in (i + 1)..(q + 3) /\ i <= q
    BY <1>1, <1>15
<1>2. /\ rank \in [D -> 0..(q + 3)] /\ stop \in SUBSET D
      /\ value \in [D -> D]
    BY <1>1
<1>17. next \in [D -> D]
    BY <1>1, <1>16
<1>3. \A i \in D \ stop : rank[next[i]] < rank[i]
    <2> HIDE DEF next, stop
    <2>. QED
        BY <1>1, <1>16
<1>4. \A f : IsScan(f, D, stop, value, next) <=> Is(f)
    <2>1. ASSUME NEW f, NEW i \in D
          PROVE  (IF i \in stop THEN value[i] ELSE f[next[i]])
                     = IF i > q THEN q + 1
                       ELSE IF input[i] = "//" THEN i
                       ELSE IF input[i] \in Quotes THEN f[SkipString(i, q) + 1] ELSE f[i + 1]
        BY <1>1
    <2> HIDE DEF stop, value, next, D
    <2>. QED
        BY <2>1 DEF IsScan
<1>5. \A i \in stop : <<i, value[i]>> \in P
    BY <1>1
<1>6. \A i \in D \ stop : \A v : <<next[i], v>> \in P => <<i, v>> \in P
    <2> HIDE DEF next, stop
    <2>. QED
        BY <1>1, <1>16
<1>7. p \notin stop /\ p \in D /\ next[p] \in (p + 1)..(q + 3)
    BY <1>1, <1>16
<1> HIDE DEF D, stop, value, next, rank, P, Is
<1>8. \E f \in [D -> D] : IsScan(f, D, stop, value, next)
    BY <1>1, <1>2, <1>17, <1>3, ThereIsAScan
<1>9. IsScan(scan, D, stop, value, next)
    BY <1>4, <1>8
<1> HIDE DEF scan
<1>18. q + 3 \in Nat /\ rank \in [D -> 0..(q + 3)] /\ stop \in SUBSET D /\ next \in [D -> D]
    BY <1>1, <1>2, <1>17
<1>10. \A i \in D : <<i, scan[i]>> \in P
    BY <1>3, <1>5, <1>6, <1>9, <1>18, ScanKeeps
<1>11. scan[p] = scan[next[p]] /\ next[p] \in D
    BY <1>7, <1>9, <1>2, <1>17 DEF IsScan
<1>12. <<next[p], scan[p]>> \in P
    BY <1>10, <1>11
<1>13. scan[p] \in (p + 1)..(q + 1) /\ (scan[p] # q + 1 => input[scan[p]] = "//")
    BY <1>1, <1>7, <1>12 DEF P
<1>14. CommentStart(p, q) = scan[p]
    BY DEF CommentStart, scan, Is, D
<1>. QED
    BY <1>13, <1>14
\* The value of an option is not read backwards.
LEMMA ValueEndIs ==
    ASSUME IsText, NEW p \in 1..(Size + 1)
    PROVE  ValueEnd(p) \in Nat /\ p <= ValueEnd(p)
<1> DEFINE D == p..(Size + 3)
           X == D \X Nat
           V == p..(Size + 4)
           Stops(i, d) == i > Size \/ (input[i] = "close" /\ d <= 1) \/ (input[i] \in Blank /\ d = 0)
           stop == {x \in X : Stops(x[1], x[2])}
           Onward(i, d) == IF input[i] = "open" THEN <<i + 1, d + 1>>
                           ELSE IF input[i] = "close" THEN <<i + 1, d - 1>>
                           ELSE IF input[i] \in Quotes THEN <<SkipString(i, Size) + 1, d>>
                           ELSE <<i + 1, d>>
           value == [x \in X |-> IF x[1] > Size THEN x[1] ELSE x[1] + 1]
           next == [x \in X |-> IF x \in stop THEN x
                                ELSE Onward(x[1], x[2])]
           rank == [x \in X |-> Size + 3 - x[1]]
           P == {y \in X \X V : y[2] >= y[1][1]}
           Body(f, x) == LET i == x[1]
                             depth == x[2]
                         IN  IF i > Size THEN i
                             ELSE CASE input[i] = "open" -> f[<<i + 1, depth + 1>>]
                                    [] input[i] = "close" -> IF depth <= 1 THEN i + 1 ELSE f[<<i + 1, depth - 1>>]
                                    [] input[i] \in Quotes -> f[<<SkipString(i, Size) + 1, depth>>]
                                    [] input[i] \in Blank /\ depth = 0 -> i + 1
                                    [] OTHER -> f[<<i + 1, depth>>]
           Is(f) == f = [x \in X |-> Body(f, x)]
           scan == CHOOSE f : Is(f)
<1> HIDE DEF Body, Is, P, scan, stop, value, next, rank, Stops, Onward
<1>20. \A x \in X : x[1] \in D /\ x[2] \in Nat /\ x = <<x[1], x[2]>>
    OBVIOUS
<1>21. \A x \in X : x \in stop <=> Stops(x[1], x[2])
    BY DEF stop
<1>22. \A x \in X : next[x] = IF x \in stop THEN x ELSE Onward(x[1], x[2])
    BY DEF next
<1>23. \A x \in X : value[x] = IF x[1] > Size THEN x[1] ELSE x[1] + 1
    BY DEF value
<1>24. stop \subseteq X
    BY DEF stop
<1>25. \A x \in X : rank[x] = Size + 3 - x[1]
    BY DEF rank
<1>26. X = D \X Nat
    OBVIOUS
<1> HIDE DEF X
<1>1. Size \in Nat /\ p \in Nat /\ p <= Size + 1 /\ p # 0 /\ Size + 3 \in Nat
    BY DEF Size, IsText
<1>2. \A i \in D : i <= Size => SkipString(i, Size) \in (i + 1)..(Size + 2)
    <2>1. ASSUME NEW i \in D, i <= Size PROVE SkipString(i, Size) \in (i + 1)..(Size + 2)
        <3>1. i \in 1..Size /\ Size \in i..Size
            BY <1>1, <2>1
        <3>. QED
            BY <3>1, SkipStringIs
    <2>. QED
        BY <2>1
<1>3. ASSUME NEW x \in X \ stop PROVE next[x] \in X /\ next[x][1] > x[1] /\ x[1] <= Size
    <2> DEFINE i == x[1]
               d == x[2]
    <2>1. i \in D /\ d \in Nat /\ i \in Nat
        BY <1>1, <1>20
    <2>7. ~Stops(i, d)
        BY <1>21
    <2>2. next[x] = Onward(i, d)
        BY <1>22
    <2> HIDE DEF i, d
    <2>3. ~(i > Size) /\ (input[i] = "close" => ~(d <= 1))
        BY <2>7 DEF Stops
    <2>4. i <= Size /\ i + 1 \in D /\ d + 1 \in Nat /\ i + 1 > i /\ (input[i] = "close" => d - 1 \in Nat)
        BY <2>1, <2>3, <1>1
    <2>5. SkipString(i, Size) + 1 \in D /\ SkipString(i, Size) + 1 > i
        BY <2>1, <2>4, <1>1, <1>2
    <2> HIDE DEF D
    <2>6. Onward(i, d) \in D \X Nat /\ Onward(i, d)[1] > i
        BY <2>1, <2>4, <2>5 DEF Onward
    <2>. QED
        BY <2>2, <2>4, <2>6, <1>26 DEF i
<1>4. rank \in [X -> 0..(Size + 3)] /\ stop \in SUBSET X
    <2>1. \A x \in X : Size + 3 - x[1] \in 0..(Size + 3)
        BY <1>1, <1>20
    <2>. QED
        BY <2>1, <1>24 DEF rank
<1>5. value \in [X -> V]
    <2>1. ASSUME NEW x \in X PROVE (IF x[1] > Size THEN x[1] ELSE x[1] + 1) \in V
        BY <1>1, <1>20
    <2>. QED
        BY <2>1 DEF value
<1>6. next \in [X -> X]
    <2>1. ASSUME NEW x \in X PROVE next[x] \in X
        BY <1>3, <1>22
    <2>2. next = [x \in X |-> next[x]]
        BY DEF next
    <2>. QED
        BY <2>1, <2>2
<1>7. \A x \in X \ stop : rank[next[x]] < rank[x]
    <2>1. ASSUME NEW x \in X \ stop PROVE rank[next[x]] < rank[x]
        <3>1. next[x] \in X /\ next[x][1] > x[1] /\ x \in X
            BY <1>3
        <3>2. next[x][1] \in Nat /\ x[1] \in Nat
            BY <3>1, <1>1, <1>20
        <3>3. rank[next[x]] = Size + 3 - next[x][1] /\ rank[x] = Size + 3 - x[1]
            BY <3>1, <1>25
        <3>. QED
            BY <3>1, <3>2, <3>3, <1>1
    <2>. QED
        BY <2>1
<1>8. \A f : IsScan(f, X, stop, value, next) <=> Is(f)
    <2>1. ASSUME NEW f, NEW x \in X
          PROVE  (IF x \in stop THEN value[x] ELSE f[next[x]]) = Body(f, x)
        <3> DEFINE i == x[1]
                   d == x[2]
        <3>1. i \in Nat /\ d \in Nat
            BY <1>1, <1>20
        <3>2. x \in stop <=> Stops(i, d)
            BY <1>21
        <3>3. value[x] = IF i > Size THEN i ELSE i + 1
            BY <1>23
        <3>4. x \notin stop => next[x] = Onward(i, d)
            BY <1>22
        <3> HIDE DEF i, d
        <3>5. (IF x \in stop THEN value[x] ELSE f[next[x]])
                     = IF i > Size THEN i
                       ELSE CASE input[i] = "open" -> f[<<i + 1, d + 1>>]
                              [] input[i] = "close" -> IF d <= 1 THEN i + 1 ELSE f[<<i + 1, d - 1>>]
                              [] input[i] \in Quotes -> f[<<SkipString(i, Size) + 1, d>>]
                              [] input[i] \in Blank /\ d = 0 -> i + 1
                              [] OTHER -> f[<<i + 1, d>>]
            <4>1. CASE i > Size
                BY <4>1, <3>2, <3>3 DEF Stops
            <4>2. CASE i <= Size /\ input[i] = "open"
                <5>1. x \notin stop
                    BY <4>2, <3>1, <3>2, <1>1 DEF Stops, Blank
                <5>2. next[x] = <<i + 1, d + 1>>
                    BY <4>2, <5>1, <3>4 DEF Onward
                <5>. QED
                    BY <4>2, <5>1, <5>2, <3>1, <1>1 DEF Blank, Quotes
            <4>3. CASE i <= Size /\ input[i] = "close" /\ d <= 1
                <5>1. x \in stop /\ input[i] # "open"
                    BY <4>3, <3>2 DEF Stops
                <5>. QED
                    BY <4>3, <5>1, <3>1, <3>3, <1>1 DEF Blank, Quotes
            <4>4. CASE i <= Size /\ input[i] = "close" /\ ~(d <= 1)
                <5>1. x \notin stop
                    BY <4>4, <3>1, <3>2, <1>1 DEF Stops, Blank
                <5>2. next[x] = <<i + 1, d - 1>>
                    BY <4>4, <5>1, <3>4 DEF Onward
                <5>. QED
                    BY <4>4, <5>1, <5>2, <3>1, <1>1 DEF Blank, Quotes
            <4>5. CASE i <= Size /\ input[i] \in Quotes
                <5>1. x \notin stop /\ input[i] # "open" /\ input[i] # "close"
                    BY <4>5, <3>1, <3>2, <1>1 DEF Stops, Blank, Quotes
                <5>2. next[x] = <<SkipString(i, Size) + 1, d>>
                    BY <4>5, <5>1, <3>4 DEF Onward
                <5>. QED
                    BY <4>5, <5>1, <5>2, <3>1, <1>1 DEF Blank, Quotes
            <4>6. CASE i <= Size /\ input[i] \in Blank /\ d = 0
                <5>1. x \in stop /\ input[i] # "open" /\ input[i] # "close" /\ input[i] \notin Quotes
                    BY <4>6, <3>1, <3>2, <1>1 DEF Stops, Blank, Quotes
                <5>. QED
                    BY <4>6, <5>1, <3>1, <3>3, <1>1
            <4>7. CASE i <= Size /\ input[i] \notin {"open", "close"} /\ input[i] \notin Quotes /\ ~(input[i] \in Blank /\ d = 0)
                <5>1. x \notin stop
                    BY <4>7, <3>1, <3>2, <1>1 DEF Stops
                <5>2. next[x] = <<i + 1, d>>
                    BY <4>7, <5>1, <3>4 DEF Onward
                <5>. QED
                    BY <4>7, <5>1, <5>2, <3>1, <1>1 DEF Blank, Quotes
            <4>. QED
                BY <4>1, <4>2, <4>3, <4>4, <4>5, <4>6, <4>7, <3>1, <1>1
        <3>. QED
            BY <3>5 DEF Body, i, d
    <2>. QED
        BY <2>1 DEF IsScan, Is
<1>9. \A x \in stop : <<x, value[x]>> \in P
    <2>1. ASSUME NEW x \in stop PROVE <<x, value[x]>> \in P
        <3>1. x \in X /\ x[1] \in Nat
            BY <1>1, <1>20, <1>24
        <3>2. value[x] \in V /\ value[x] >= x[1]
            BY <3>1, <1>5, <1>23
        <3> HIDE DEF V
        <3>. QED
            BY <3>1, <3>2 DEF P
    <2>. QED
        BY <2>1
<1>10. \A x \in X \ stop : \A v : <<next[x], v>> \in P => <<x, v>> \in P
    <2>1. ASSUME NEW x \in X \ stop, NEW v, <<next[x], v>> \in P PROVE <<x, v>> \in P
        <3>1. next[x] \in X /\ next[x][1] > x[1] /\ x \in X
            BY <1>3
        <3>2. v \in V /\ v >= next[x][1]
            BY <2>1 DEF P
        <3>3. next[x][1] \in Nat /\ x[1] \in Nat /\ v \in Nat
            BY <3>1, <3>2, <1>1, <1>20
        <3>4. v >= x[1]
            BY <3>1, <3>2, <3>3
        <3> HIDE DEF V
        <3>. QED
            BY <3>1, <3>2, <3>4 DEF P
    <2>. QED
        BY <2>1
<1>11. <<p, 0>> \in X
    BY <1>1, <1>26
<1>12. \A x, v : <<x, v>> \in P => v \in V /\ v >= x[1]
    BY DEF P
<1>13. V \subseteq Nat
    BY <1>1
<1> HIDE DEF V
<1>14. \E f \in [X -> V] : IsScan(f, X, stop, value, next)
    BY <1>1, <1>4, <1>5, <1>6, <1>7, ThereIsAScan
<1>15. IsScan(scan, X, stop, value, next)
    BY <1>8, <1>14 DEF scan
<1>16. Size + 3 \in Nat /\ rank \in [X -> 0..(Size + 3)] /\ stop \in SUBSET X /\ next \in [X -> X]
    BY <1>1, <1>4, <1>6
<1>17. \A x \in X : <<x, scan[x]>> \in P
    BY <1>7, <1>9, <1>10, <1>15, <1>16, ScanKeeps
<1>18. ValueEnd(p) = scan[<<p, 0>>]
    BY DEF ValueEnd, scan, Is, Body, X, D
<1>27. <<<<p, 0>>, scan[<<p, 0>>]>> \in P
    BY <1>11, <1>17
<1>28. scan[<<p, 0>>] \in V /\ scan[<<p, 0>>] >= <<p, 0>>[1]
    BY <1>12, <1>27
<1>19. scan[<<p, 0>>] \in V /\ scan[<<p, 0>>] >= p
    BY <1>28
<1>. QED
    BY <1>1, <1>13, <1>18, <1>19
-----------------------------------------------------------------------------
(* The invariant of the pre-parser.                                        *)

Statements == [kind : {"option", "directive", "code"}, first : Nat, last : Nat]

\* What has been read is blank, in a statement or behind the mark of a comment.
Accounted(i) ==
    \/ input[i] \in Blank
    \/ \E k \in DOMAIN statements : i \in statements[k].first..statements[k].last
    \/ \E j \in 1..i : input[j] = "//" /\ "nl" \notin {input[n] : n \in j..i}

PreParseInv ==
    /\ IsText
    /\ statements \in Seq(Statements)
    /\ NothingDropped

\* A step that reads up to q: a statement of p..e, or none.
Reads(q) ==
    /\ q \in Nat /\ pos <= q /\ q <= Size
    /\ input' = input /\ pos' = q + 1 /\ state' = state
    /\ \A i \in pos..q : Accounted(i)'

Cuts(p, e, q) ==
    /\ p \in Nat /\ e \in Nat /\ pos <= p /\ p <= e /\ e <= q
    /\ \E kind \in {"option", "directive", "code"} : statements' = Append(statements, Statement(kind, p, e))

LEMMA AppendIs ==
    ASSUME NEW T, NEW s \in Seq(T), NEW x \in T
    PROVE  /\ Append(s, x) \in Seq(T) /\ Len(Append(s, x)) = Len(s) + 1 /\ Len(s) \in Nat
           /\ \A k \in 1..Len(s) : Append(s, x)[k] = s[k]
           /\ Append(s, x)[Len(s) + 1] = x
  OBVIOUS

\* What was accounted for stays so.
LEMMA StaysAccounted ==
    ASSUME PreParseInv, input' = input, NEW i \in 1..(pos - 1),
           \/ statements' = statements
           \/ \E x \in Statements : statements' = Append(statements, x)
    PROVE  Accounted(i)'
<1>1. Accounted(i)
    BY DEF PreParseInv, NothingDropped, Accounted
<1>2. \A k \in DOMAIN statements : k \in DOMAIN statements' /\ statements'[k] = statements[k]
    <2>1. CASE statements' = statements
        BY <2>1
    <2>2. CASE \E x \in Statements : statements' = Append(statements, x)
        <3>1. PICK x \in Statements : statements' = Append(statements, x)
            BY <2>2
        <3>2. statements \in Seq(Statements)
            BY DEF PreParseInv
        <3> HIDE DEF Statements
        <3>3. /\ Append(statements, x) \in Seq(Statements)
              /\ Len(Append(statements, x)) = Len(statements) + 1 /\ Len(statements) \in Nat
              /\ \A k \in 1..Len(statements) : Append(statements, x)[k] = statements[k]
            BY <3>2, AppendIs
        <3>4. DOMAIN statements = 1..Len(statements) /\ DOMAIN statements' = 1..(Len(statements) + 1)
            BY <3>1, <3>2, <3>3
        <3>5. \A k \in 1..Len(statements) : k \in 1..(Len(statements) + 1)
            BY <3>3
        <3>. QED
            BY <3>1, <3>3, <3>4, <3>5
    <2>. QED
        BY <2>1, <2>2
<1>. QED
    BY <1>1, <1>2 DEF Accounted, Blank

LEMMA ReadsKeeps ==
    ASSUME PreParseInv, NEW q, Reads(q),
           \/ statements' = statements
           \/ \E p, e : Cuts(p, e, q)
    PROVE  PreParseInv'
<1>1. Size \in Nat /\ pos \in Nat /\ pos # 0 /\ q \in Nat /\ pos <= q /\ q <= Size /\ pos' = q + 1
    BY DEF Reads, PreParseInv, NothingDropped, TypeOKPreParse, IsText, Size
<1>2. IsText' /\ Size' = Size
    BY DEF Reads, PreParseInv, IsText, Size
<1>3. \A p, e, kind : Cuts(p, e, q) /\ kind \in {"option", "directive", "code"} => Statement(kind, p, e) \in Statements
    BY DEF Cuts, Statement, Statements
<1>4. statements' = statements \/ \E x \in Statements : statements' = Append(statements, x)
    BY <1>3 DEF Cuts
<1>5. \A i \in 1..(pos' - 1) : Accounted(i)'
    <2>1. ASSUME NEW i \in 1..(pos' - 1) PROVE Accounted(i)'
        <3>1. CASE i < pos
            <4>1. i \in 1..(pos - 1) /\ input' = input
                BY <3>1, <1>1 DEF Reads
            <4>. QED
                BY <4>1, <1>4, StaysAccounted
        <3>2. CASE ~(i < pos)
            <4>1. i \in pos..q
                BY <3>2, <1>1
            <4>. QED
                BY <4>1 DEF Reads
        <3>. QED
            BY <3>1, <3>2
    <2>. QED
        BY <2>1
<1>6. statements \in Seq(Statements) /\ Len(statements) \in Nat /\ DOMAIN statements = 1..Len(statements)
    BY DEF PreParseInv
<1> DEFINE Stands(k) == /\ statements[k].kind \in {"option", "directive", "code"}
                        /\ statements[k].first >= (IF k = 1 THEN 1 ELSE statements[k - 1].last + 1)
                        /\ statements[k].last \in statements[k].first..(pos - 1)
<1>7. \A k \in DOMAIN statements : Stands(k)
    BY DEF PreParseInv, NothingDropped, TypeOKPreParse
<1>8. statements' \in Seq(Statements) /\ \A k \in DOMAIN statements' : Stands(k)'
    <2>1. CASE statements' = statements
        <3>1. \A k \in 1..Len(statements) : statements[k] \in Statements
            BY <1>6
        <3>2. ASSUME NEW k \in DOMAIN statements PROVE Stands(k)'
            <4>1. statements[k].first \in Nat /\ statements[k].last \in Nat
                BY <3>1, <1>6 DEF Statements
            <4>. QED
                BY <4>1, <2>1, <1>1, <1>7
        <3> HIDE DEF Stands
        <3>. QED
            BY <2>1, <3>2, <1>6
    <2>2. CASE \E p, e : Cuts(p, e, q)
        <3>1. PICK p, e : Cuts(p, e, q)
            BY <2>2
        <3>2. PICK kind \in {"option", "directive", "code"} : statements' = Append(statements, Statement(kind, p, e))
            BY <3>1 DEF Cuts
        <3> DEFINE x == Statement(kind, p, e)
                   n == Len(statements)
        <3>3. x \in Statements /\ x.kind = kind /\ x.first = p /\ x.last = e
            BY <1>3, <3>1 DEF Statement
        <3>4. p \in Nat /\ e \in Nat /\ pos <= p /\ p <= e /\ e <= q
            BY <3>1 DEF Cuts
        <3>5. \A k \in 1..n : statements[k] \in Statements
            BY <1>6
        <3> HIDE DEF x, Stands
        <3>6. /\ statements' \in Seq(Statements) /\ DOMAIN statements' = 1..(n + 1)
              /\ \A k \in 1..n : statements'[k] = statements[k]
              /\ statements'[n + 1] = x
            <4> HIDE DEF Statements
            <4>1. /\ Append(statements, x) \in Seq(Statements)
                  /\ Len(Append(statements, x)) = n + 1
                  /\ \A k \in 1..n : Append(statements, x)[k] = statements[k]
                  /\ Append(statements, x)[n + 1] = x
                BY <1>6, <3>3, AppendIs
            <4>2. statements' = Append(statements, x)
                BY <3>2 DEF x
            <4>3. DOMAIN Append(statements, x) = 1..Len(Append(statements, x))
                BY <4>1
            <4> HIDE DEF n
            <4>. QED
                BY <4>1, <4>2, <4>3
        <3>7. ASSUME NEW k \in 1..(n + 1) PROVE Stands(k)'
            <4>1. CASE k = n + 1 /\ n = 0
                BY <4>1, <3>3, <3>4, <3>6, <1>1 DEF Stands
            <4>2. CASE k = n + 1 /\ n # 0
                <5>1. n \in 1..n /\ k - 1 = n /\ k # 1 /\ n \in Nat
                    BY <4>2, <1>6
                <5>2. statements[n].last \in Nat /\ statements[n].last <= pos - 1
                    BY <5>1, <1>1, <1>6, <1>7, <3>5 DEF Stands, Statements
                <5>3. statements'[k - 1] = statements[n] /\ statements'[k] = x
                    BY <4>2, <5>1, <3>6
                <5>4. p >= statements[n].last + 1 /\ e \in p..(q + 1 - 1)
                    BY <5>2, <3>4, <1>1
                <5>. QED
                    BY <5>1, <5>3, <5>4, <3>3, <1>1 DEF Stands
            <4>3. CASE k # n + 1
                <5>1. k \in 1..n /\ n \in Nat
                    BY <4>3, <1>6
                <5>2. statements'[k] = statements[k] /\ Stands(k) /\ statements[k] \in Statements
                    BY <5>1, <1>6, <1>7, <3>5, <3>6
                <5>3. statements[k].first \in Nat /\ statements[k].last \in Nat
                    BY <5>2 DEF Statements
                <5>4. k # 1 => k - 1 \in 1..n /\ statements'[k - 1] = statements[k - 1]
                    BY <5>1, <3>6
                <5>. QED
                    BY <5>1, <5>2, <5>3, <5>4, <1>1 DEF Stands
            <4>. QED
                BY <4>1, <4>2, <4>3
        <3>. QED
            BY <3>6, <3>7
    <2>. QED
        BY <2>1, <2>2
<1>9. TypeOKPreParse'
    <2>1. pos' \in 1..(Size' + 1) /\ state' \in {"reading", "done", "panicked"}
        BY <1>1, <1>2 DEF Reads, PreParseInv, NothingDropped, TypeOKPreParse
    <2>. QED
        BY <2>1, <1>8 DEF TypeOKPreParse
<1>10. NothingDropped'
    BY <1>5, <1>9 DEF NothingDropped, Accounted
<1>. QED
    BY <1>2, <1>8, <1>10 DEF PreParseInv
LEMMA PreParseTypes ==
    ASSUME PreParseInv
    PROVE  IsText /\ Size \in Nat /\ pos \in Nat /\ pos # 0 /\ pos <= Size + 1
  BY DEF PreParseInv, NothingDropped, TypeOKPreParse, IsText, Size

\* Where the next thing begins that is not blank.
LEMMA BeginsAt ==
    ASSUME PreParseInv, Start(pos) <= Size
    PROVE  /\ Start(pos) \in 1..Size /\ pos <= Start(pos) /\ Size # 0
           /\ input[Start(pos)] \notin Blank
           /\ \A i \in pos..(Start(pos) - 1) : input[i] \in Blank
<1>1. /\ Start(pos) \in pos..(Size + 1)
      /\ \A i \in pos..(Start(pos) - 1) : input[i] \in Blank
      /\ Start(pos) # Size + 1 => input[Start(pos)] \notin Blank
    BY PreParseTypes, StartIs
<1>. QED
    BY <1>1, PreParseTypes

\* Behind the mark of a comment is only comment, up to the end of the line.
LEMMA CommentIs ==
    ASSUME IsText, NEW p \in 1..Size, NEW m \in p..LineEnd(p), input[m] = "//",
           input' = input, NEW i \in m..LineEnd(p)
    PROVE  Accounted(i)'
<1>1. Size \in Nat /\ p \in Nat /\ p # 0 /\ p <= Size /\ Size # 0
    BY DEF IsText, Size
<1>2. /\ LineEnd(p) \in Nat /\ LineEnd(p) <= Size /\ p <= LineEnd(p)
      /\ \A n \in p..(LineEnd(p) - 1) : input[n] # "nl"
      /\ LineEnd(p) # Size => input[LineEnd(p)] = "nl"
    BY <1>1, LineEndIs
<1>3. m \in 1..i /\ i \in Nat /\ p <= m /\ m \in Nat /\ i <= LineEnd(p)
    BY <1>1, <1>2
<1>4. CASE input[i] = "nl"
    BY <1>4 DEF Accounted, Blank
<1>5. CASE input[i] # "nl"
    <2>1. \A n \in m..i : input[n] # "nl"
        <3>1. ASSUME NEW n \in m..i PROVE input[n] # "nl"
            <4>1. n \in p..(LineEnd(p) - 1) \/ n = i
                BY <1>1, <1>2, <1>3
            <4>. QED
                BY <4>1, <1>2, <1>5
        <3>. QED
            BY <3>1
    <2>. QED
        BY <2>1, <1>3 DEF Accounted
<1>. QED
    BY <1>4, <1>5

\* What is in the statement just added.
LEMMA AddedIs ==
    ASSUME NEW x \in Statements, statements \in Seq(Statements), statements' = Append(statements, x),
           NEW i \in x.first..x.last
    PROVE  Accounted(i)'
<1>1. /\ Append(statements, x) \in Seq(Statements) /\ Len(Append(statements, x)) = Len(statements) + 1
      /\ Len(statements) \in Nat /\ Append(statements, x)[Len(statements) + 1] = x
    <2> HIDE DEF Statements
    <2>. QED
        BY AppendIs
<1>2. DOMAIN Append(statements, x) = 1..(Len(statements) + 1) /\ Len(statements) + 1 \in 1..(Len(statements) + 1)
    BY <1>1
<1>. QED
    BY <1>1, <1>2 DEF Accounted

LEMMA SkipCommentKeeps ==
    ASSUME PreParseInv, SkipComment
    PROVE  PreParseInv'
<1> DEFINE p == Start(pos)
           q == LineEnd(p)
<1>1. p <= Size /\ input[p] = "//" /\ pos' = q + 1 /\ input' = input /\ statements' = statements /\ state' = state
    BY DEF SkipComment, At
<1>2. p \in 1..Size /\ pos <= p /\ Size # 0 /\ \A i \in pos..(p - 1) : input[i] \in Blank
    BY <1>1, BeginsAt
<1>3. IsText /\ Size \in Nat /\ pos \in Nat /\ pos # 0 /\ p \in Nat
    BY <1>2, PreParseTypes
<1> HIDE DEF p
<1>4. q \in Nat /\ q <= Size /\ p <= q
    BY <1>1, <1>2, <1>3, LineEndIs
<1>5. ASSUME NEW i \in pos..q PROVE Accounted(i)'
    <2>1. CASE i < p
        <3>1. i \in pos..(p - 1)
            BY <2>1, <1>3
        <3>. QED
            BY <3>1, <1>1, <1>2 DEF Accounted
    <2>2. CASE ~(i < p)
        <3>1. i \in p..LineEnd(p) /\ p \in p..LineEnd(p)
            BY <2>2, <1>3, <1>4
        <3>. QED
            BY <3>1, <1>1, <1>2, <1>3, CommentIs
    <2>. QED
        BY <2>1, <2>2
<1> HIDE DEF q
<1>6. Reads(q)
    BY <1>1, <1>2, <1>3, <1>4, <1>5 DEF Reads
<1>. QED
    BY <1>1, <1>6, ReadsKeeps

\* A statement from p to the last symbol before m that is not blank.
LEMMA StatementReads ==
    ASSUME PreParseInv, NEW p, p = Start(pos), p <= Size, NEW q \in p..Size, NEW m \in p..q,
           NEW kind \in {"option", "directive", "code"},
           statements' = Append(statements, Statement(kind, p, TrimEnd(p, m))),
           pos' = q + 1, input' = input, state' = state,
           \A i \in (m + 1)..q : Accounted(i)'
    PROVE  PreParseInv'
<1> DEFINE e == TrimEnd(p, m)
           x == Statement(kind, p, e)
<1>1. p \in 1..Size /\ pos <= p /\ input[p] \notin Blank /\ \A i \in pos..(p - 1) : input[i] \in Blank
    BY BeginsAt
<1>2. IsText /\ Size \in Nat /\ pos \in Nat /\ p \in Nat /\ q \in Nat /\ m \in Nat /\ m \in p..Size
    BY <1>1, PreParseTypes
<1>3. e \in p..m /\ \A i \in (e + 1)..m : input[i] \in Blank
    BY <1>1, <1>2, TrimEndIs
<1> HIDE DEF e
<1>4. e \in Nat /\ p <= e /\ e <= m /\ m <= q /\ p <= m /\ q <= Size
    BY <1>2, <1>3
<1>5. x \in Statements /\ x.first = p /\ x.last = e
    BY <1>2, <1>4 DEF Statement, Statements
<1>6. ASSUME NEW i \in pos..q PROVE Accounted(i)'
    <2>1. CASE i < p
        <3>1. i \in pos..(p - 1)
            BY <2>1, <1>2
        <3>. QED
            BY <3>1, <1>1 DEF Accounted
    <2>2. CASE i >= p /\ i <= e
        <3>1. i \in p..e /\ statements \in Seq(Statements)
            BY <2>2, <1>2, <1>4 DEF PreParseInv
        <3>2. statements' = Append(statements, x)
            BY DEF e
        <3> HIDE DEF x, Statements
        <3>. QED
            BY <3>1, <3>2, <1>5, AddedIs
    <2>3. CASE i > e /\ i <= m
        <3>1. i \in (e + 1)..m
            BY <2>3, <1>2, <1>4
        <3>. QED
            BY <3>1, <1>3 DEF Accounted
    <2>4. CASE i > m
        BY <2>4, <1>2
    <2>. QED
        BY <2>1, <2>2, <2>3, <2>4, <1>2, <1>4
<1>7. Reads(q)
    BY <1>1, <1>2, <1>4, <1>6 DEF Reads
<1>8. Cuts(p, e, q)
    BY <1>1, <1>2, <1>4 DEF Cuts, e
<1>. QED
    BY <1>7, <1>8, ReadsKeeps

LEMMA ReadOptionKeeps ==
    ASSUME PreParseInv, ReadOption
    PROVE  PreParseInv'
<1> DEFINE p == Start(pos)
           v == ValueStart(p + 1)
           end == ValueEnd(v)
           q == LineEnd(end)
<1>1. /\ p <= Size /\ end <= Size + 1 /\ pos' = q + 1 /\ input' = input /\ state' = state
      /\ statements' = Append(statements, Statement("option", p, TrimEnd(p, q)))
    BY DEF ReadOption, At
<1>2. p \in 1..Size /\ Size \in Nat /\ Size # 0 /\ IsText
    BY <1>1, BeginsAt, PreParseTypes
<1>3. v \in 1..(Size + 1) /\ p + 1 <= v
    <2>1. p + 1 \in 1..(Size + 1)
        BY <1>2
    <2>. QED
        BY <1>2, <2>1, ValueStartIs
<1> HIDE DEF v
<1>4. end \in Nat /\ p + 1 <= end
    <2>1. end \in Nat /\ v <= end
        BY <1>2, <1>3, ValueEndIs
    <2>. QED
        BY <1>2, <1>3, <2>1
<1> HIDE DEF end
<1>5. end # 0
    BY <1>2, <1>4
<1>6. q \in Nat /\ q <= Size /\ (end <= Size => end <= q) /\ (end > Size => q = Size)
    BY <1>2, <1>4, <1>5, LineEndIs
<1> HIDE DEF q
<1>7. q \in p..Size /\ q \in p..q /\ \A i \in (q + 1)..q : FALSE
    BY <1>1, <1>2, <1>4, <1>6
<1>8. \A i \in (q + 1)..q : Accounted(i)'
    BY <1>7
<1> HIDE DEF p
<1>9. p = Start(pos)
    BY DEF p
<1>. QED
    BY <1>1, <1>7, <1>8, <1>9, StatementReads

LEMMA ReadLineKeeps ==
    ASSUME PreParseInv, NEW kind \in {"directive", "code"},
           Start(pos) <= Size, input[Start(pos)] # "//", ReadLine(kind)
    PROVE  PreParseInv'
<1> DEFINE p == Start(pos)
           q == LineEnd(p)
           c == CommentStart(p, q)
<1>1. /\ pos' = q + 1 /\ input' = input /\ state' = state
      /\ statements' = Append(statements, Statement(kind, p, TrimEnd(p, c - 1)))
    BY DEF ReadLine
<1>2. p \in 1..Size /\ Size \in Nat /\ Size # 0 /\ IsText /\ p \in Nat /\ p # 0 /\ p <= Size
    BY BeginsAt, PreParseTypes
<1>3. q \in Nat /\ q <= Size /\ p <= q
    BY <1>2, LineEndIs
<1>4. q \in p..Size /\ input[p] # "//"
    BY <1>2, <1>3
<1>5. c \in (p + 1)..(q + 1) /\ (c # q + 1 => input[c] = "//")
    <2> HIDE DEF p, q
    <2>. QED
        BY <1>2, <1>4, CommentStartIs
<1> HIDE DEF c
<1>6. c - 1 \in p..q /\ c \in Nat
    BY <1>2, <1>3, <1>5
<1>7. ASSUME NEW i \in ((c - 1) + 1)..q PROVE Accounted(i)'
    <2>1. c # q + 1 /\ c \in p..q /\ i \in c..q
        BY <1>2, <1>3, <1>5, <1>6
    <2>. QED
        BY <2>1, <1>1, <1>2, <1>5, CommentIs
<1>8. kind \in {"option", "directive", "code"}
    OBVIOUS
<1>9. p = Start(pos)
    OBVIOUS
<1> HIDE DEF p, q
<1>. QED
    BY <1>1, <1>2, <1>4, <1>6, <1>7, <1>8, <1>9, StatementReads

LEMMA PreParseInit ==
    ASSUME InitPreParse
    PROVE  PreParseInv
<1> DEFINE texts == [k \in DOMAIN file |-> file[k].text]
<1>1. file \in Seq(Entry)
    BY FilesAreEntries DEF InitPreParse
<1>2. texts \in Seq(Seq(Symbols))
    <2>1. Len(file) \in Nat /\ DOMAIN file = 1..Len(file) /\ \A k \in 1..Len(file) : file[k] \in Entry
        BY <1>1
    <2>2. \A k \in 1..Len(file) : file[k].text \in Seq(Symbols)
        BY <2>1 DEF Entry
    <2> DEFINE Q == Seq(Symbols)
    <2> HIDE DEF Q
    <2>3. \A k \in 1..Len(file) : file[k].text \in Q
        BY <2>2 DEF Q
    <2>4. texts \in [1..Len(file) -> Q]
        BY <2>1, <2>3
    <2>5. texts \in Seq(Q)
        BY <2>1, <2>4
    <2>. QED
        BY <2>5 DEF Q
<1> HIDE DEF texts
<1>3. IsText
    BY <1>2, FlattenType DEF InitPreParse, IsText, texts
<1>4. Size \in Nat /\ pos = 1 /\ statements = <<>> /\ state = "reading"
    BY <1>3 DEF InitPreParse, Size, IsText
<1>5. TypeOKPreParse
    BY <1>4 DEF TypeOKPreParse
<1>6. NothingDropped
    BY <1>4, <1>5 DEF NothingDropped
<1>. QED
    BY <1>3, <1>4, <1>6 DEF PreParseInv

LEMMA PreParseStep ==
    ASSUME PreParseInv, [NextPreParse]_preParseVars
    PROVE  PreParseInv'
<1>1. CASE SkipComment
    BY <1>1, SkipCommentKeeps
<1>2. CASE ReadOption
    BY <1>2, ReadOptionKeeps
<1>3. CASE ReadDirective
    BY <1>3, ReadLineKeeps DEF ReadDirective, At
<1>4. CASE ReadCode
    BY <1>4, ReadLineKeeps DEF ReadCode, At
<1>5. CASE PanicInOption \/ EndOfFile
    <2>1. input' = input /\ pos' = pos /\ statements' = statements /\ state' \in {"reading", "done", "panicked"}
        BY <1>5 DEF PanicInOption, EndOfFile
    <2>. QED
        BY <2>1 DEF PreParseInv, IsText, NothingDropped, TypeOKPreParse, Size, Blank
<1>6. CASE UNCHANGED preParseVars
    BY <1>6 DEF preParseVars, PreParseInv, IsText, NothingDropped, TypeOKPreParse, Size, Blank
<1>. QED
    BY <1>1, <1>2, <1>3, <1>4, <1>5, <1>6 DEF NextPreParse, Finished

\* For any files: the invariant of the pre-parser, by which what is cut off is cut off
\* in order and everything before pos is accounted for.
THEOREM PreParseInvariance == SpecPreParse => []PreParseInv
<1>1. InitPreParse => PreParseInv
    BY PreParseInit
<1>2. PreParseInv /\ [NextPreParse]_preParseVars => PreParseInv'
    BY PreParseStep
<1>. QED
    BY <1>1, <1>2, PTL DEF SpecPreParse

\* For any files: the statements stand one behind the other in the text, and what of
\* the text is in none of them is blank or behind the mark of a comment.
THEOREM PreParseDropsNothing == SpecPreParse => []NothingDropped
<1>1. PreParseInv => NothingDropped
    BY DEF PreParseInv
<1>. QED
    BY <1>1, PreParseInvariance, PTL
-----------------------------------------------------------------------------
(* Expansion: the use that is looked at, and its arguments.                *)

Pasts == {SubSeq(origins, ends[1], ends[2]) : ends \in Nat \X Int}

Argument == [value : Seq(Tokens), at : Nat, past : Pasts]

\* What the text and its places are, and that there are as many.
Aligned ==
    /\ text \in Seq(Tokens) /\ offsets \in Seq(Nat) /\ Len(offsets) = Len(text)
    /\ \A name \in DOMAIN macros : macros[name] \in MacroDefine

LEMMA FirstUseIs ==
    ASSUME text \in Seq(Tokens), skip \in Nat \ {0}
    PROVE  /\ FirstUse # NoUse => FirstUse \in skip..Len(text) /\ IsUse(FirstUse)
           /\ \A j \in skip..Len(text) : IsUse(j) => FirstUse # NoUse /\ FirstUse <= j
<1> DEFINE uses == {i \in skip..Len(text) : IsUse(i)}
<1>1. FirstUse = IF uses = {} THEN NoUse ELSE CHOOSE i \in uses : \A j \in uses : i <= j
    BY DEF FirstUse
<1>2. uses \in SUBSET Nat /\ \A j \in uses : j # 0
    OBVIOUS
<1>3. \A j : j \in uses <=> j \in skip..Len(text) /\ IsUse(j)
    OBVIOUS
<1> HIDE DEF uses
<1>4. CASE uses = {}
    BY <1>1, <1>3, <1>4
<1>5. CASE uses # {}
    <2>1. \E m \in uses : \A k \in uses : m <= k
        BY <1>2, <1>5, LeastOf
    <2>2. FirstUse \in uses /\ \A k \in uses : FirstUse <= k
        BY <1>1, <1>5, <2>1
    <2>. QED
        BY <1>2, <1>3, <2>2 DEF NoUse
<1>. QED
    BY <1>4, <1>5

LEMMA UseEndIs ==
    ASSUME text \in Seq(Tokens), NEW i \in 1..Len(text), IsUse(i), IsClosed(i)
    PROVE  /\ UseEnd(i) \in i..Len(text)
           /\ macros[text[i]].call => UseEnd(i) \in (i + 2)..Len(text)
<1>1. CASE macros[text[i]].call
    <2>1. Closing(i) # {}
        BY <1>1 DEF IsClosed
    <2>2. Closing(i) \subseteq (i + 2)..Len(text) /\ Closing(i) \in SUBSET Nat
        BY DEF Closing
    <2> DEFINE C == Closing(i)
    <2> HIDE DEF C
    <2>3. \E m \in C : \A k \in C : m <= k
        BY <2>1, <2>2, LeastOf DEF C
    <2>4. UseEnd(i) = CHOOSE j \in C : \A k \in C : j <= k
        BY <1>1 DEF UseEnd, C
    <2>5. UseEnd(i) \in C
        BY <2>3, <2>4
    <2>6. UseEnd(i) \in (i + 2)..Len(text)
        BY <2>2, <2>5 DEF C
    <2>7. \A j \in (i + 2)..Len(text) : j \in i..Len(text)
        OBVIOUS
    <2>. QED
        BY <2>6, <2>7
<1>2. CASE ~macros[text[i]].call
    <2>1. UseEnd(i) = i
        BY <1>2 DEF UseEnd
    <2>. QED
        BY <1>2, <2>1
<1>. QED
    BY <1>1, <1>2

LEMMA ArgumentsAre ==
    ASSUME Aligned, NEW i \in 1..Len(text), UseEnd(i) \in (i + 2)..Len(text)
    PROVE  Arguments(i) \in Seq(Argument)
<1> DEFINE last == UseEnd(i)
           end(k) == Min({j \in k..last : text[j] = "comma" \/ j = last})
           from(k) ==
               IF k = i + 2 \/ text[k - 1] = "comma"
               THEN <<[value |-> SubSeq(text, k, end(k) - 1), at |-> offsets[k],
                       past |-> SubSeq(origins, k, end(k) - 1)]>>
               ELSE <<>>
           pieces == [n \in 1..(last - i - 1) |-> from(i + 1 + n)]
           Q == Seq(Argument)
<1>1. Arguments(i) = IF last = i + 2 THEN <<>> ELSE FlattenSeq(pieces)
    BY DEF Arguments
<1>2. last \in Nat /\ last <= Len(text) /\ i \in Nat /\ i + 2 <= last
    OBVIOUS
<1>3. ASSUME NEW k \in (i + 2)..last PROVE from(k) \in Q
    <2>1. k \in Nat /\ k <= last /\ 1 <= k /\ k \in 1..Len(offsets)
        BY <1>2 DEF Aligned
    <2> DEFINE E == {j \in k..last : text[j] = "comma" \/ j = last}
               x == [value |-> SubSeq(text, k, end(k) - 1), at |-> offsets[k],
                     past |-> SubSeq(origins, k, end(k) - 1)]
    <2>2. last \in E /\ E \in SUBSET Nat /\ E \subseteq k..last
        BY <1>2, <2>1
    <2>3. end(k) \in E
        <3> HIDE DEF E
        <3>1. Min(E) \in E
            BY <2>2, MinIs
        <3>. QED
            BY <3>1 DEF E
    <2>4. end(k) \in Nat /\ k <= end(k) /\ end(k) <= last
        BY <2>2, <2>3, <2>1, <1>2
    <2> HIDE DEF end, last, E
    <2>5. end(k) - 1 \in Int /\ end(k) - 1 <= Len(text)
        BY <2>4, <1>2
    <2>6. SubSeq(text, k, end(k) - 1) \in Seq(Tokens)
        BY <2>1, <2>5 DEF Aligned
    <2>7. offsets[k] \in Nat
        BY <2>1 DEF Aligned
    <2>8. SubSeq(origins, k, end(k) - 1) \in Pasts
        <3> DEFINE e == end(k) - 1
        <3>1. k \in Nat /\ e \in Int
            BY <2>1, <2>5
        <3> HIDE DEF e
        <3>2. SubSeq(origins, k, e) \in Pasts
            <4> DEFINE ends == <<k, e>>
            <4>1. ends \in Nat \X Int /\ ends[1] = k /\ ends[2] = e
                BY <3>1
            <4> HIDE DEF ends
            <4>2. SubSeq(origins, ends[1], ends[2]) \in Pasts
                BY <4>1 DEF Pasts
            <4>. QED
                BY <4>1, <4>2
        <3>. QED
            BY <3>2 DEF e
    <2>9. x \in Argument
        BY <2>6, <2>7, <2>8 DEF Argument
    <2> HIDE DEF x
    <2>10. <<x>> \in Seq(Argument) /\ <<>> \in Seq(Argument)
        BY <2>9
    <2>. QED
        BY <2>10 DEF x
<1> HIDE DEF last, end, from
<1>4. \A n \in 1..(last - i - 1) : i + 1 + n \in (i + 2)..last
    BY <1>2
<1> HIDE DEF Q
<1> DEFINE m == last - i - 1
<1>5. m \in Nat /\ pieces \in [1..m -> Q]
    BY <1>2, <1>3, <1>4
<1> HIDE DEF pieces, m
<1>6. pieces \in Seq(Q)
    BY <1>5
<1>7. FlattenSeq(pieces) \in Seq(Argument)
    BY <1>6, FlattenType DEF Q
<1>8. <<>> \in Seq(Argument)
    OBVIOUS
<1>. QED
    BY <1>1, <1>7, <1>8

-----------------------------------------------------------------------------
(* Expansion: what replaces a use, and its places.                         *)

\* Pieces of equal lengths come to texts of equal lengths.
LEMMA FlattenLengths ==
    ASSUME NEW T, NEW U, NEW s \in Seq(Seq(T)), NEW t \in Seq(Seq(U)), Len(s) = Len(t),
           \A k \in 1..Len(s) : Len(s[k]) = Len(t[k])
    PROVE  Len(FlattenSeq(s)) = Len(FlattenSeq(t))
<1>1. CASE s = <<>>
    <2>1. t = <<>>
        BY <1>1
    <2>2. FlattenSeq(s) = <<>> /\ FlattenSeq(t) = <<>>
        BY <1>1, <2>1, FlattenNone
    <2>. QED
        BY <2>2
<1>2. CASE s # <<>>
    <2> DEFINE n == Len(s)
    <2>1. t # <<>> /\ n \in Nat /\ n # 0 /\ n = Len(t)
        BY <1>2
    <2>2. PICK f \in [1..n -> Seq(T)] : Flattens(s, f) /\ FlattenSeq(s) = f[n]
        BY <1>2, FlattenIs
    <2>3. PICK g \in [1..Len(t) -> Seq(U)] : Flattens(t, g) /\ FlattenSeq(t) = g[Len(t)]
        BY <2>1, FlattenIs
    <2>4. g \in [1..n -> Seq(U)] /\ FlattenSeq(t) = g[n]
        BY <2>1, <2>3
    <2>5. \A k \in 1..n : s[k] \in Seq(T) /\ t[k] \in Seq(U) /\ Len(s[k]) = Len(t[k])
        BY <2>1
    <2>6. ASSUME NEW k \in 1..n
          PROVE  /\ f[k] = IF k = 1 THEN s[k] ELSE f[k - 1] \o s[k]
                 /\ g[k] = IF k = 1 THEN t[k] ELSE g[k - 1] \o t[k]
        BY <2>1, <2>2, <2>3 DEF Flattens
    <2> HIDE DEF n
    <2> DEFINE S == {k \in Nat : k \in 1..n => Len(f[k]) = Len(g[k])}
    <2>7. 0 \in S
        OBVIOUS
    <2>8. ASSUME NEW k \in S PROVE k + 1 \in S
        <3>1. SUFFICES ASSUME k + 1 \in 1..n PROVE Len(f[k + 1]) = Len(g[k + 1])
            OBVIOUS
        <3>2. CASE k = 0
            <4>1. k + 1 = 1 /\ 1 \in 1..n
                BY <3>1, <3>2
            <4>2. f[1] = s[1] /\ g[1] = t[1] /\ Len(s[1]) = Len(t[1])
                BY <2>5, <2>6, <4>1
            <4>. QED
                BY <4>1, <4>2
        <3>3. CASE k # 0
            <4>1. k \in 1..n /\ (k + 1) - 1 = k /\ k + 1 # 1
                BY <2>1, <3>1, <3>3
            <4>2. /\ f[k] \in Seq(T) /\ g[k] \in Seq(U) /\ Len(f[k]) = Len(g[k])
                  /\ s[k + 1] \in Seq(T) /\ t[k + 1] \in Seq(U) /\ Len(s[k + 1]) = Len(t[k + 1])
                BY <2>2, <2>4, <2>5, <3>1, <4>1
            <4>3. f[k + 1] = f[k] \o s[k + 1] /\ g[k + 1] = g[k] \o t[k + 1]
                BY <2>6, <3>1, <4>1
            <4>4. /\ Len(f[k] \o s[k + 1]) = Len(f[k]) + Len(s[k + 1])
                  /\ Len(g[k] \o t[k + 1]) = Len(g[k]) + Len(t[k + 1])
                BY <4>2, ConcatIs, ZenonT(60)
            <4>. QED
                BY <4>2, <4>3, <4>4
        <3>. QED
            BY <3>2, <3>3
    <2> HIDE DEF S
    <2>9. S \in SUBSET Nat
        BY DEF S
    <2>10. S = Nat
        BY <2>7, <2>8, <2>9, Induction
    <2>11. n \in 1..n /\ n \in S
        BY <2>1, <2>10
    <2>. QED
        BY <2>2, <2>4, <2>11 DEF S
<1>. QED
    BY <1>1, <1>2

LEMMA ParamIndexIs ==
    ASSUME NEW def \in MacroDefine, NEW token, IsParam(def, token)
    PROVE  ParamIndex(def, token) \in 1..Len(def.params)
<1> DEFINE S == {n \in 1..Len(def.params) : def.params[n] = token}
<1>1. def.params \in Seq(Tokens) /\ Len(def.params) \in Nat /\ DOMAIN def.params = 1..Len(def.params)
    BY DEF MacroDefine
<1>2. S # {}
    BY <1>1 DEF IsParam, ToSet
<1>3. S \in SUBSET (0..Len(def.params))
    BY <1>1
<1>4. PICK m \in S : \A k \in S : k <= m
    BY <1>1, <1>2, <1>3, GreatestOf
<1>5. m \in DOMAIN def.params /\ def.params[m] = token
      /\ \A k \in DOMAIN def.params : def.params[k] = token => k <= m
    BY <1>1, <1>4
<1> HIDE DEF S
<1>6. ParamIndex(def, token) \in DOMAIN def.params
    BY <1>5 DEF ParamIndex
<1>. QED
    BY <1>1, <1>6

\* A macro's expansion is a text, and there is a place for each of its tokens.
LEMMA SubstitutedIs ==
    ASSUME NEW def \in MacroDefine, NEW args \in Seq(Argument),
           def.call => Len(args) = Len(def.params)
    PROVE  /\ Substituted(def, args) \in Seq(Tokens)
           /\ SubstitutedOffsets(def, args) \in Seq(Nat)
           /\ Len(Substituted(def, args)) = Len(SubstitutedOffsets(def, args))
<1> DEFINE n == Len(def.body)
           arg(k) == args[ParamIndex(def, def.body[k])]
           text1(k) == IF IsParam(def, def.body[k]) THEN arg(k).value ELSE <<def.body[k]>>
           place1(k) == IF IsParam(def, def.body[k]) THEN LenVec(arg(k).at, Len(arg(k).value))
                        ELSE <<def.at + k - 1>>
           texts == [k \in 1..n |-> text1(k)]
           places == [k \in 1..n |-> place1(k)]
           Q == Seq(Tokens)
           R == Seq(Nat)
<1>1. /\ def.body \in Seq(Tokens) /\ n \in Nat /\ DOMAIN def.body = 1..n /\ def.at \in Nat
      /\ \A k \in 1..n : def.body[k] \in Tokens
    BY DEF MacroDefine
<1>2. Substituted(def, args) = FlattenSeq(texts) /\ SubstitutedOffsets(def, args) = FlattenSeq(places)
    BY <1>1 DEF Substituted, SubstitutedOffsets
<1>3. ASSUME NEW k \in 1..n
      PROVE  text1(k) \in Q /\ place1(k) \in R /\ Len(text1(k)) = Len(place1(k))
    <2>1. CASE IsParam(def, def.body[k])
        <3>1. ParamIndex(def, def.body[k]) \in 1..Len(args)
            BY <2>1, ParamIndexIs DEF IsParam
        <3>2. arg(k) \in Argument
            BY <3>1
        <3> DEFINE v == arg(k).value
                   a == arg(k).at
        <3>3. v \in Seq(Tokens) /\ Len(v) \in Nat /\ a \in Nat
            BY <3>2 DEF Argument
        <3>4. text1(k) = v /\ place1(k) = LenVec(a, Len(v))
            BY <2>1
        <3> HIDE DEF text1, place1, v, a, arg, n
        <3>5. \A j \in 1..Len(v) : a + j - 1 \in Nat
            BY <3>3
        <3>6. LenVec(a, Len(v)) \in Seq(Nat) /\ Len(LenVec(a, Len(v))) = Len(v)
            BY <3>3, <3>5 DEF LenVec
        <3>. QED
            BY <3>3, <3>4, <3>6
    <2>2. CASE ~IsParam(def, def.body[k])
        <3>1. text1(k) = <<def.body[k]>> /\ place1(k) = <<def.at + k - 1>>
            BY <2>2
        <3>2. def.body[k] \in Tokens /\ def.at + k - 1 \in Nat
            BY <1>1
        <3> HIDE DEF text1, place1
        <3>3. <<def.body[k]>> \in Q /\ <<def.at + k - 1>> \in R
            BY <3>2
        <3>4. Len(<<def.body[k]>>) = 1 /\ Len(<<def.at + k - 1>>) = 1
            OBVIOUS
        <3>. QED
            BY <3>1, <3>3, <3>4
    <2>. QED
        BY <2>1, <2>2
<1> HIDE DEF text1, place1, n, Q, R
<1>4. texts \in [1..n -> Q] /\ places \in [1..n -> R]
    BY <1>3
<1>5. texts \in Seq(Q) /\ places \in Seq(R) /\ Len(texts) = n /\ Len(places) = n
    BY <1>1, <1>4
<1>6. \A k \in 1..n : Len(texts[k]) = Len(places[k])
    BY <1>3
<1> HIDE DEF texts, places
<1>7. FlattenSeq(texts) \in Seq(Tokens) /\ FlattenSeq(places) \in Seq(Nat)
    BY <1>5, FlattenType DEF Q, R
<1>8. Len(FlattenSeq(texts)) = Len(FlattenSeq(places))
    <2>1. texts \in Seq(Seq(Tokens)) /\ places \in Seq(Seq(Nat)) /\ Len(texts) = Len(places)
        BY <1>5 DEF Q, R
    <2>2. \A k \in 1..Len(texts) : Len(texts[k]) = Len(places[k])
        BY <1>5, <1>6
    <2>. QED
        BY <2>1, <2>2, FlattenLengths
<1>. QED
    BY <1>2, <1>7, <1>8

LEMMA SpliceIs ==
    ASSUME NEW T, NEW s \in Seq(T), NEW t \in Seq(T), NEW i \in 1..Len(s), NEW j \in i..Len(s)
    PROVE  /\ Splice(s, i, j, t) \in Seq(T)
           /\ Len(Splice(s, i, j, t)) = (i - 1) + Len(t) + (Len(s) - j)
           /\ \A k \in 1..(i - 1) : Splice(s, i, j, t)[k] = s[k]
<1> DEFINE before == SubSeq(s, 1, i - 1)
           behind == SubSeq(s, j + 1, Len(s))
<1>1. i \in Nat /\ j \in Nat /\ Len(s) \in Nat /\ i <= j /\ j <= Len(s) /\ 1 <= i
    OBVIOUS
<1>2. before \in Seq(T) /\ Len(before) = i - 1 /\ \A k \in 1..(i - 1) : before[k] = s[k]
    BY <1>1
<1>3. behind \in Seq(T) /\ Len(behind) = Len(s) - j
    BY <1>1
<1>4. Splice(s, i, j, t) = (before \o t) \o behind
    BY DEF Splice
<1> HIDE DEF before, behind
<1>5. /\ before \o t \in Seq(T) /\ Len(before \o t) = (i - 1) + Len(t)
      /\ \A k \in 1..(i - 1) : (before \o t)[k] = before[k]
    <2>1. /\ before \o t \in Seq(T) /\ Len(before \o t) = Len(before) + Len(t)
          /\ \A k \in 1..Len(before) : (before \o t)[k] = before[k]
        BY <1>2, ConcatIs
    <2>. QED
        BY <1>2, <2>1
<1> DEFINE u == before \o t
<1>6. u \in Seq(T) /\ Len(u) = (i - 1) + Len(t) /\ \A k \in 1..(i - 1) : u[k] = s[k]
    BY <1>2, <1>5
<1> HIDE DEF u
<1>7. /\ u \o behind \in Seq(T) /\ Len(u \o behind) = Len(u) + Len(behind)
      /\ \A k \in 1..Len(u) : (u \o behind)[k] = u[k]
    BY <1>3, <1>6, ConcatIs
<1>8. Len(t) \in Nat /\ \A k \in 1..(i - 1) : k \in 1..Len(u)
    BY <1>1, <1>6
<1>. QED
    BY <1>3, <1>4, <1>6, <1>7, <1>8 DEF u

-----------------------------------------------------------------------------
(* The invariant of expansion.                                             *)

\* A macro without parameters that the search has passed is in a reported call.
PassedReported ==
    \A i \in 1..(skip - 1) :
        text[i] \in DOMAIN macros /\ ~macros[text[i]].call => \E d \in diags : i \in d.first..d.last

ReportsType == \A d \in diags : d.first \in Nat /\ d.last \in Nat

MacrosInv ==
    /\ Aligned
    /\ TypeOKMacros
    /\ ReportsType
    /\ PassedReported
    /\ done => NothingLeftUnexpanded

\* What PassedIsSettled asks of a step.
Settled == skip' >= skip /\ SubSeq(text', 1, skip - 1) = SubSeq(text, 1, skip - 1)

LEMMA MacrosInit == InitMacros => MacrosInv
<1> SUFFICES ASSUME InitMacros PROVE MacrosInv
    OBVIOUS
<1>1. text \in Seq(Tokens) /\ \A name \in DOMAIN macros : macros[name] \in MacroDefine
    BY TextsAreTokens DEF InitMacros
<1>2. Len(text) \in Nat /\ Len(text) = Len(written) /\ skip = 1 /\ diags = {} /\ done = FALSE
    BY <1>1 DEF InitMacros
<1>3. \A k \in 1..Len(text) : 1 + k - 1 \in Nat
    BY <1>2
<1>4. offsets \in Seq(Nat) /\ Len(offsets) = Len(text)
    BY <1>2, <1>3 DEF InitMacros, LenVec
<1>5. Aligned
    BY <1>1, <1>4 DEF Aligned
<1>6. TypeOKMacros
    <2>1. DOMAIN text = 1..Len(text) /\ offsets \in [1..Len(text) -> Nat]
        BY <1>1, <1>4
    <2>2. 1 \in 1..(Len(text) + 1)
        BY <1>2
    <2>. QED
        BY <1>2, <1>4, <2>1, <2>2 DEF TypeOKMacros
<1>7. ReportsType /\ PassedReported
    BY <1>2 DEF ReportsType, PassedReported
<1>. QED
    BY <1>2, <1>5, <1>6, <1>7 DEF MacrosInv

\* The places before the use that is looked at are passed over rightly.
LEMMA UpToTheUse ==
    ASSUME MacrosInv, FirstUse # NoUse, NEW i \in 1..(FirstUse - 1),
           text[i] \in DOMAIN macros, ~macros[text[i]].call
    PROVE  \E d \in diags : i \in d.first..d.last
<1>1. text \in Seq(Tokens) /\ skip \in Nat \ {0} /\ Len(text) \in Nat
    BY DEF MacrosInv, Aligned, TypeOKMacros
<1>2. FirstUse \in skip..Len(text)
    BY <1>1, FirstUseIs
<1>3. CASE i < skip
    <2>1. i \in 1..(skip - 1)
        BY <1>1, <1>2, <1>3
    <2>. QED
        BY <2>1 DEF MacrosInv, PassedReported
<1>4. CASE ~(i < skip)
    <2>1. i \in skip..Len(text) /\ ~(FirstUse <= i)
        BY <1>1, <1>2, <1>4
    <2>2. IsUse(i)
        BY DEF IsUse
    <2>. QED
        BY <1>1, <2>1, <2>2, FirstUseIs
<1>. QED
    BY <1>3, <1>4

LEMMA ExpandKeeps ==
    ASSUME MacrosInv, Expand
    PROVE  MacrosInv' /\ Settled
<1> DEFINE i == FirstUse
           def == macros[text[i]]
           args == IF def.call THEN Arguments(i) ELSE <<>>
           j == UseEnd(i)
           t == Substituted(def, args)
           o == SubstitutedOffsets(def, args)
<1>1. /\ Aligned /\ TypeOKMacros /\ ReportsType
      /\ text \in Seq(Tokens) /\ offsets \in Seq(Nat) /\ Len(offsets) = Len(text)
      /\ skip \in 1..(Len(text) + 1) /\ Len(text) \in Nat /\ skip \in Nat \ {0}
    BY DEF MacrosInv, Aligned, TypeOKMacros
<1>2. /\ ~done /\ i # NoUse /\ IsClosed(i) /\ Accepts(def, i)
      /\ text' = Splice(text, i, j, t) /\ offsets' = Splice(offsets, i, j, o)
      /\ skip' = i /\ macros' = macros /\ diags' = diags /\ done' = done
    BY DEF Expand, Uses
<1>3. i \in skip..Len(text) /\ IsUse(i)
    BY <1>1, <1>2, FirstUseIs
<1>4. i \in 1..Len(text) /\ i \in Nat
    BY <1>1, <1>3
<1>5. j \in i..Len(text) /\ (def.call => j \in (i + 2)..Len(text))
    BY <1>1, <1>2, <1>3, <1>4, UseEndIs
<1>6. def \in MacroDefine
    BY <1>1, <1>3 DEF Aligned, IsUse
<1>7. args \in Seq(Argument) /\ (def.call => Len(args) = Len(def.params))
    <2>1. CASE def.call
        <3>1. Arguments(i) \in Seq(Argument)
            BY <1>1, <1>4, <1>5, <2>1, ArgumentsAre
        <3>. QED
            BY <1>2, <2>1, <3>1 DEF Accepts
    <2>2. CASE ~def.call
        <3>1. <<>> \in Seq(Argument)
            OBVIOUS
        <3>. QED
            BY <2>2, <3>1
    <2>. QED
        BY <2>1, <2>2
<1> HIDE DEF i, j, args, def
<1>8. t \in Seq(Tokens) /\ o \in Seq(Nat) /\ Len(t) = Len(o)
    BY <1>6, <1>7, SubstitutedIs
<1> HIDE DEF t, o
<1>9. /\ text' \in Seq(Tokens) /\ Len(text') = (i - 1) + Len(t) + (Len(text) - j)
      /\ \A k \in 1..(i - 1) : text'[k] = text[k]
    <2>1. /\ Splice(text, i, j, t) \in Seq(Tokens)
          /\ Len(Splice(text, i, j, t)) = (i - 1) + Len(t) + (Len(text) - j)
          /\ \A k \in 1..(i - 1) : Splice(text, i, j, t)[k] = text[k]
        BY <1>1, <1>4, <1>5, <1>8, SpliceIs, ZenonT(60)
    <2>. QED
        BY <1>2, <2>1
<1>10. offsets' \in Seq(Nat) /\ Len(offsets') = (i - 1) + Len(o) + (Len(offsets) - j)
    <2>1. i \in 1..Len(offsets) /\ j \in i..Len(offsets) /\ offsets \in Seq(Nat) /\ o \in Seq(Nat)
        BY <1>1, <1>4, <1>5, <1>8
    <2>2. /\ Splice(offsets, i, j, o) \in Seq(Nat)
          /\ Len(Splice(offsets, i, j, o)) = (i - 1) + Len(o) + (Len(offsets) - j)
        BY <2>1, SpliceIs, ZenonT(60)
    <2>. QED
        BY <1>2, <2>2
<1>11. Aligned'
    BY <1>1, <1>2, <1>8, <1>9, <1>10 DEF Aligned
<1>12. skip' \in 1..(Len(text') + 1) /\ skip <= i /\ Len(text') \in Nat /\ skip - 1 <= Len(text')
    <2>1. Len(t) \in Nat /\ j \in Nat /\ j <= Len(text) /\ i >= 1 /\ skip <= i
        BY <1>1, <1>3, <1>4, <1>5, <1>8
    <2>2. Len(text') \in Nat /\ i <= Len(text') + 1
        BY <1>1, <1>4, <1>9, <2>1
    <2>. QED
        BY <1>1, <1>2, <1>4, <2>1, <2>2
<1>13. TypeOKMacros'
    <2>1. \A d \in diags : d.last < i
        BY <1>1, <1>4, <1>12 DEF TypeOKMacros, ReportsType
    <2>2. DOMAIN text' = 1..Len(text') /\ offsets' \in [1..Len(offsets') -> Nat] /\ Len(offsets') = Len(text')
        BY <1>9, <1>10, <1>11 DEF Aligned
    <2>3. done' \in BOOLEAN
        BY <1>1, <1>2 DEF TypeOKMacros
    <2>. QED
        BY <1>2, <1>12, <2>1, <2>2, <2>3 DEF TypeOKMacros
<1>14. PassedReported'
    <2>1. ASSUME NEW k \in 1..(i - 1), text'[k] \in DOMAIN macros, ~macros[text'[k]].call
          PROVE  \E d \in diags : k \in d.first..d.last
        <3>1. text'[k] = text[k]
            BY <1>9
        <3>. QED
            BY <1>2, <2>1, <3>1, UpToTheUse DEF i
    <2>. QED
        BY <1>2, <2>1 DEF PassedReported
<1>15. ReportsType' /\ ~done'
    BY <1>1, <1>2 DEF ReportsType
<1>16. Settled
    <2>1. \A k \in 1..(skip - 1) : text'[k] = text[k]
        BY <1>1, <1>4, <1>9, <1>12
    <2>2. SubSeq(text', 1, skip - 1) = [k \in 1..(skip - 1) |-> text'[k]]
          /\ SubSeq(text, 1, skip - 1) = [k \in 1..(skip - 1) |-> text[k]]
        BY <1>1, <1>9, <1>12
    <2>3. skip' >= skip
        BY <1>2, <1>12, <1>1, <1>4
    <2>. QED
        BY <2>1, <2>2, <2>3 DEF Settled
<1>. QED
    BY <1>11, <1>13, <1>14, <1>15, <1>16 DEF MacrosInv

LEMMA RefuseCallKeeps ==
    ASSUME MacrosInv, RefuseCall
    PROVE  MacrosInv' /\ Settled
<1> DEFINE i == FirstUse
           j == UseEnd(i)
           x == [name |-> text[i], first |-> i, last |-> j, at |-> offsets[i]]
<1>1. /\ Aligned /\ TypeOKMacros /\ ReportsType
      /\ text \in Seq(Tokens)
      /\ skip \in 1..(Len(text) + 1) /\ Len(text) \in Nat /\ skip \in Nat \ {0}
    BY DEF MacrosInv, Aligned, TypeOKMacros
<1>2. /\ ~done /\ i # NoUse /\ IsClosed(i)
      /\ diags' = diags \cup {x} /\ skip' = j + 1
      /\ macros' = macros /\ text' = text /\ offsets' = offsets /\ done' = done
    BY DEF RefuseCall, Uses
<1>3. i \in skip..Len(text) /\ IsUse(i)
    BY <1>1, <1>2, FirstUseIs
<1>4. i \in 1..Len(text) /\ i \in Nat /\ skip <= i
    BY <1>1, <1>3
<1>5. j \in i..Len(text)
    BY <1>1, <1>2, <1>3, <1>4, UseEndIs
<1>6. x.first = i /\ x.last = j
    OBVIOUS
<1> HIDE DEF i, j, x
<1>7. j \in Nat /\ i <= j /\ j <= Len(text)
    BY <1>1, <1>4, <1>5
<1>8. Aligned' /\ ReportsType'
    BY <1>1, <1>2, <1>4, <1>6, <1>7 DEF Aligned, ReportsType
<1>9. TypeOKMacros'
    <2>1. \A d \in diags : d.last < j + 1
        BY <1>1, <1>4, <1>7 DEF TypeOKMacros, ReportsType
    <2>2. x.last < j + 1
        BY <1>6, <1>7
    <2>. QED
        BY <1>1, <1>2, <1>7, <2>1, <2>2 DEF TypeOKMacros
<1>10. PassedReported'
    <2>1. ASSUME NEW k \in 1..j, text[k] \in DOMAIN macros, ~macros[text[k]].call
          PROVE  \E d \in diags' : k \in d.first..d.last
        <3>1. CASE k < i
            <4>1. k \in 1..(i - 1)
                BY <1>4, <3>1
            <4>. QED
                BY <1>2, <2>1, <4>1, UpToTheUse DEF i
        <3>2. CASE ~(k < i)
            <4>1. k \in x.first..x.last
                BY <1>4, <1>6, <1>7, <3>2
            <4>. QED
                BY <1>2, <4>1
        <3>. QED
            BY <3>1, <3>2
    <2>2. (j + 1) - 1 = j
        BY <1>7
    <2>. QED
        BY <1>2, <2>1, <2>2 DEF PassedReported
<1>11. Settled
    BY <1>1, <1>2, <1>4, <1>7 DEF Settled
<1>. QED
    BY <1>2, <1>8, <1>9, <1>10, <1>11 DEF MacrosInv

\* What is left does not depend on where the search is.
LEMMA NothingLeftStays ==
    ASSUME NothingLeftUnexpanded, macros' = macros, text' = text, diags' = diags
    PROVE  NothingLeftUnexpanded'
<1>1. ASSUME NEW token, NEW a, NEW b PROVE Count(token, a, b)' = Count(token, a, b)
    BY DEF Count
<1>2. ASSUME NEW j PROVE Closing(j)' = Closing(j)
    BY <1>1 DEF Closing
<1>3. ASSUME NEW j PROVE IsClosed(j)' <=> IsClosed(j)
    BY <1>2 DEF IsClosed
<1>4. ASSUME NEW j PROVE IsUse(j)' <=> IsUse(j)
    BY DEF IsUse
<1>. QED
    BY <1>3, <1>4 DEF NothingLeftUnexpanded

LEMMA ReturnKeeps ==
    ASSUME MacrosInv, Return
    PROVE  MacrosInv' /\ Settled
<1>1. /\ Aligned /\ TypeOKMacros /\ ReportsType /\ PassedReported
      /\ text \in Seq(Tokens) /\ DOMAIN text = 1..Len(text)
      /\ skip \in 1..(Len(text) + 1) /\ Len(text) \in Nat /\ skip \in Nat \ {0}
    BY DEF MacrosInv, Aligned, TypeOKMacros
<1>2. /\ FirstUse # NoUse => ~IsClosed(FirstUse)
      /\ macros' = macros /\ text' = text /\ offsets' = offsets /\ skip' = skip /\ diags' = diags
      /\ done' = TRUE
    BY DEF Return
<1>3. Aligned' /\ TypeOKMacros' /\ ReportsType' /\ PassedReported'
    BY <1>1, <1>2 DEF Aligned, TypeOKMacros, ReportsType, PassedReported
<1>4. Settled
    BY <1>1, <1>2 DEF Settled
<1>5. ASSUME NEW i \in 1..Len(text), text[i] \in DOMAIN macros, ~macros[text[i]].call
      PROVE  \/ \E d \in diags : i \in d.first..d.last
             \/ \E j \in 1..(i - 1) : IsUse(j) /\ ~IsClosed(j)
    <2>1. IsUse(i) /\ IsClosed(i)
        BY <1>5 DEF IsUse, IsClosed
    <2>2. CASE i < skip
        <3>1. i \in 1..(skip - 1)
            BY <1>1, <2>2
        <3>. QED
            BY <1>1, <1>5, <3>1 DEF PassedReported
    <2>3. CASE ~(i < skip)
        <3>1. i \in skip..Len(text)
            BY <1>1, <2>3
        <3>2. FirstUse # NoUse /\ FirstUse <= i
            BY <1>1, <2>1, <3>1, FirstUseIs
        <3>3. FirstUse \in skip..Len(text) /\ IsUse(FirstUse) /\ ~IsClosed(FirstUse)
            BY <1>1, <1>2, <3>2, FirstUseIs
        <3>4. FirstUse # i
            BY <2>1, <3>3
        <3>5. FirstUse \in 1..(i - 1)
            BY <1>1, <3>2, <3>3, <3>4
        <3>. QED
            BY <3>3, <3>5
    <2>. QED
        BY <2>2, <2>3
<1>6. NothingLeftUnexpanded
    BY <1>1, <1>5 DEF NothingLeftUnexpanded
<1>7. NothingLeftUnexpanded'
    BY <1>2, <1>6, NothingLeftStays
<1>. QED
    BY <1>3, <1>4, <1>7 DEF MacrosInv

LEMMA MacrosStep ==
    ASSUME MacrosInv, [NextMacros]_macroVars
    PROVE  MacrosInv' /\ (Settled \/ UNCHANGED macroVars)
<1>1. CASE NextMacros
    BY <1>1, ExpandKeeps, RefuseCallKeeps, ReturnKeeps DEF NextMacros
<1>2. CASE UNCHANGED macroVars
    <2>1. /\ macros' = macros /\ text' = text /\ offsets' = offsets
          /\ skip' = skip /\ diags' = diags /\ done' = done
        BY <1>2 DEF macroVars
    <2>2. (done => NothingLeftUnexpanded)'
        BY <2>1, NothingLeftStays DEF MacrosInv
    <2>. QED
        BY <1>2, <2>1, <2>2 DEF MacrosInv, Aligned, TypeOKMacros, ReportsType, PassedReported
<1>. QED
    BY <1>1, <1>2

\* For any macros and any line: the search never leaves the text, the text and the
\* vector of places are of one length through every splice, and what the search has
\* passed is expanded but for calls that were reported.
THEOREM MacrosInvariance == SpecMacros => []MacrosInv
<1>1. MacrosInv /\ [NextMacros]_macroVars => MacrosInv'
    BY MacrosStep
<1>. QED
    BY <1>1, MacrosInit, PTL DEF SpecMacros

\* Text the search has passed is settled, whatever the macros: no expansion reaches
\* back behind the start of the use it replaces.
THEOREM ExpansionSettles == SpecMacros => PassedIsSettled
<1>1. MacrosInv /\ [NextMacros]_macroVars
        => [skip' >= skip /\ SubSeq(text', 1, skip - 1) = SubSeq(text, 1, skip - 1)]_macroVars
    BY MacrosStep DEF Settled
<1>. QED
    BY <1>1, MacrosInvariance, PTL DEF SpecMacros, PassedIsSettled

\* When the loop ends no macro without parameters is left, but inside a call that was
\* reported or behind one that is never closed.
THEOREM ExpansionIsComplete == SpecMacros => [](done => NothingLeftUnexpanded)
<1>1. MacrosInv => (done => NothingLeftUnexpanded)
    BY DEF MacrosInv
<1>. QED
    BY <1>1, MacrosInvariance, PTL
=============================================================================
