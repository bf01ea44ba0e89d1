----------------------------- MODULE Condition -----------------------------
(***************************************************************************)
(* What #if and #elif make of their condition: resolve, src/preprocessor/  *)
(* main.rs.  The macros in it are expanded first, then what is left is     *)
(* evaluated, and a position in what is left is taken back to the source   *)
(* by the offsets the expansion kept.                                      *)
(***************************************************************************)
EXTENDS Macros, Expr

CONSTANT Profiles   \* the builds: with overflow checks, or without

VARIABLES checks,   \* of this build; never changes
          result    \* of the evaluation; NotYet before it

conditionVars == <<macroVars, checks, result>>

NotYet == Error("not yet", 0)

InitCondition == InitMacros /\ checks \in Profiles /\ result = NotYet

\* preprocess_line
ExpandMacros ==
    /\ NextMacros
    /\ UNCHANGED <<checks, result>>

EvaluateText ==
    /\ done /\ result = NotYet
    /\ result' = Evaluate(text, DOMAIN macros, checks)
    /\ UNCHANGED <<macroVars, checks>>

Resolved == result # NotYet /\ UNCHANGED conditionVars

NextCondition == ExpandMacros \/ EvaluateText \/ Resolved

SpecCondition == InitCondition /\ [][NextCondition]_conditionVars

-----------------------------------------------------------------------------
(* The meaning of a text whose calls are in order: each use on its own,    *)
(* whatever follows it, its arguments cut at the commas outside their own  *)
(* parentheses.                                                            *)
RECURSIVE Meaning(_)
Meaning(s) ==
    LET depth(i, j) == Cardinality({k \in i..j : s[k] = "("}) - Cardinality({k \in i..j : s[k] = ")"})
        closing == {j \in 3..Len(s) : depth(2, j) = 0}
        last == CHOOSE j \in closing : \A k \in closing : j <= k
        cuts == SetToSortSeq({2, last} \cup {k \in 3..last : s[k] = "comma" /\ depth(2, k) = 1}, <)
        def == macros[s[1]]
        args == IF last = 3 THEN <<>>
                ELSE [n \in 1..(Len(cuts) - 1) |-> [value |-> SubSeq(s, cuts[n] + 1, cuts[n + 1] - 1)]]
    IN  IF s = <<>> THEN <<>>
        ELSE IF s[1] \notin DOMAIN macros \/ (def.call /\ (Len(s) = 1 \/ s[2] # "("))
             THEN <<s[1]>> \o Meaning(Tail(s))
        ELSE IF ~def.call THEN Meaning(def.body) \o Meaning(Tail(s))
        ELSE Meaning(Substituted(def, args)) \o Meaning(SubSeq(s, last + 1, Len(s)))

\* Some comma of the line stands within two pairs of parentheses or more.
NestedComma ==
    \E k \in DOMAIN written :
        /\ written[k] = "comma"
        /\ LET before == SubSeq(written, 1, k)
           IN  Len(SelectSeq(before, LAMBDA t : t = "(")) > Len(SelectSeq(before, LAMBDA t : t = ")")) + 1

(* What a text means, read from its operators inwards: it is cut at the    *)
(* last of the loosest operators outside parentheses.  The set is empty    *)
(* for a text that is no expression.                                       *)

Undefined == 2^Width

InRange(x) == IF x = Wrap(x) THEN x ELSE Undefined

Exact(op, a, b) ==
    IF Undefined \in {a, b} THEN Undefined
    ELSE CASE op = "!=" -> Truth(a # b)
           [] op \in {"+", "-", "*"} ->
                InRange(IF op = "+" THEN a + b ELSE IF op = "-" THEN a - b ELSE a * b)
           [] op \in {"/", "%"} ->
                IF b = 0 THEN Undefined
                ELSE IF op = "/" THEN InRange(Quotient(a, b))
                ELSE IF InRange(Quotient(a, b)) = Undefined THEN Undefined
                ELSE a - b * Quotient(a, b)
           [] op = "<<" -> IF b \notin 0..(Width - 1) THEN Undefined ELSE Wrap(a * 2^b)
           [] op = ">>" -> IF b \notin 0..(Width - 1) THEN Undefined ELSE a \div 2^b
           [] OTHER -> Binary(op, a, b, FALSE, 1).value

ExactPrefix(op, a) ==
    IF a = Undefined THEN Undefined
    ELSE CASE op = "+" -> a [] op = "-" -> InRange(0 - a) [] op = "~" -> -1 - a [] op = "!" -> Truth(a = 0)

EndsOperand == Names \cup DOMAIN Literals \cup {")"}

LevelOf(op) == CHOOSE k \in DOMAIN Levels : op \in Levels[k]

Depth(s) ==
    Len(SelectSeq(s, LAMBDA t : t = "(")) - Len(SelectSeq(s, LAMBDA t : t = ")"))

\* The operators of s outside parentheses, with something before them to take.
Cuts(s) ==
    {k \in 2..(Len(s) - 1) :
        /\ \E l \in DOMAIN Levels : s[k] \in Levels[l]
        /\ s[k - 1] \in EndsOperand
        /\ Depth(SubSeq(s, 1, k)) = 0}

LoosestOf(s, cuts) ==
    CHOOSE k \in cuts : \A j \in cuts :
        LevelOf(s[k]) < LevelOf(s[j]) \/ (LevelOf(s[k]) = LevelOf(s[j]) /\ j <= k)

RECURSIVE MeaningOf(_)
MeaningOf(s) ==
    LET cuts == Cuts(s)
        k == LoosestOf(s, cuts)
    IN  IF s = <<>> THEN {}
        ELSE IF Len(s) = 1 THEN
            IF s[1] \in Names THEN {0} ELSE IF s[1] \in DOMAIN Literals THEN {Literals[s[1]]} ELSE {}
        ELSE IF cuts # {} THEN
            {Exact(s[k], a, b) : a \in MeaningOf(SubSeq(s, 1, k - 1)), b \in MeaningOf(SubSeq(s, k + 1, Len(s)))}
        ELSE IF s[1] \in UnaryOps THEN {ExactPrefix(s[1], a) : a \in MeaningOf(Tail(s))}
        ELSE IF s[Len(s)] # ")" THEN {}
        ELSE IF s[1] = "(" THEN MeaningOf(SubSeq(s, 2, Len(s) - 1))
        ELSE IF Len(s) = 4 /\ s[1] = "defined" /\ s[2] = "(" /\ s[3] \in Names
             THEN {Truth(s[3] \in DOMAIN macros)}
        ELSE {}

ConditionMeaning(s) == IF s = <<>> THEN {0} ELSE MeaningOf(s)

\* Some end makes an expression of s: an operand, where one is missing, and the
\* parentheses left open.
CanGoOn(s) ==
    \E e \in {<<>>, <<"1">>, <<"defined">>} :
        ConditionMeaning(s \o e \o [k \in 1..Depth(s) |-> ")"]) # {}

-----------------------------------------------------------------------------
(* Expanding in place, left to right, comes to what each use means by      *)
(* itself, unless a call was refused or left open or a nested comma cut an *)
(* argument in two; and even then no other use is passed over.             *)
ExpansionIsMeaning ==
    done =>
        /\ NothingLeftUnexpanded
        /\ diags = {} /\ ~NestedComma /\ (\A j \in DOMAIN text : IsUse(j) => IsClosed(j)) =>
              text = Meaning(written)

(* An error has a place.                                                   *)
TypeOKCondition ==
    /\ checks \in BOOLEAN
    /\ result.tag \in {"value", "panic", "not yet", "Eol", "UnknownToken", "UnexpectedToken",
                       "UnknownFunction", "UnexpectedTrailer"}
    /\ result.value \in Smallest..(-1 - Smallest)
    /\ result.tag \notin {"value", "panic", "not yet"} => result.pos \in DOMAIN offsets

(* Where the arithmetic has a result the evaluator finds it, whatever the  *)
(* build: ten loops that call each other agree with the precedences. The   *)
(* program stops in the middle only over arithmetic without a result, in a *)
(* part of the text that is an expression of its own.                      *)
ValueIsMeaning ==
    result # NotYet /\ "!=" \notin ToSet(text) =>
        /\ \A v \in ConditionMeaning(text) : v # Undefined => result.tag = "value" /\ result.value = v
        /\ result.tag = "panic" =>
              \E i \in DOMAIN text : \E j \in i..Len(text) : Undefined \in MeaningOf(SubSeq(text, i, j))

(* The types; and an error is shown at the first token that no expression  *)
(* goes on with, or at the name of a function that is not there; and only  *)
(* what is no expression is in error.                                      *)
ErrorIsWhereItStops ==
    /\ TypeOKCondition
    /\ result.tag = "value" => ConditionMeaning(text) # {}
    /\ result.tag = "Eol" => ConditionMeaning(text) = {} /\ CanGoOn(text)
    /\ result.tag \in {"UnknownToken", "UnexpectedToken", "UnexpectedTrailer"} =>
            CanGoOn(SubSeq(text, 1, result.pos - 1)) /\ ~CanGoOn(SubSeq(text, 1, result.pos))
    /\ result.tag = "UnknownFunction" =>
            CanGoOn(SubSeq(text, 1, result.pos)) /\ ~CanGoOn(SubSeq(text, 1, result.pos + 1))

=============================================================================
