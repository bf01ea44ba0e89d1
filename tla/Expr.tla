------------------------------- MODULE Expr -------------------------------
(***************************************************************************)
(* The evaluator of #if and #elif: evaluate, src/preprocessor/expr.rs.  A  *)
(* parser by recursive descent, one function for each precedence, that     *)
(* computes the value as it goes: nothing is skipped, not the right of &&. *)
(*                                                                         *)
(* Text is a sequence of tokens.  An outcome is a value and the position   *)
(* after it, an error at a position, or a panic.                           *)
(***************************************************************************)
EXTENDS Integers, Sequences, Bitwise

CONSTANTS Width,     \* of an ExprValue; 64 in the code
          Literals,  \* tokens that are numbers, to their values
          Names,     \* tokens that are identifiers, "defined" among them
          Bad        \* tokens that are neither: unknown, or too large a number

ASSUME WidthAssumption == Width \in Nat \ {0}

Smallest == 0 - 2^(Width - 1)

Wrap(x) == ((x - Smallest) % 2^Width) + Smallest

Bits(x) == x % 2^Width

Truth(b) == IF b THEN 1 ELSE 0

Magnitude(x) == IF x < 0 THEN 0 - x ELSE x

\* Division drops the fraction.
Quotient(a, b) ==
    LET q == Magnitude(a) \div Magnitude(b) IN IF (a < 0) = (b < 0) THEN q ELSE 0 - q

Value(v, pos) == [tag |-> "value", value |-> v, pos |-> pos]
Error(kind, pos) == [tag |-> kind, value |-> 0, pos |-> pos]
Panic == [tag |-> "panic", value |-> 0, pos |-> 0]

\* In a build with overflow checks a result out of range is a panic.
Checked(x, checks, pos) == IF checks /\ x # Wrap(x) THEN Panic ELSE Value(Wrap(x), pos)

\* The amount of a shift is taken modulo the width where it is not checked.
Shifted(op, a, b, checks, pos) ==
    IF checks /\ b \notin 0..(Width - 1) THEN Panic
    ELSE Value(IF op = "<<" THEN Wrap(a * 2^(b % Width)) ELSE a \div 2^(b % Width), pos)

\* Mutant: no quotient by -1.
Divided_MinusOne(op, a, b, pos) ==
    IF b \in {0, -1} THEN Panic
    ELSE Value(IF op = "/" THEN Quotient(a, b) ELSE a - b * Quotient(a, b), pos)

\* Both builds check these.
Divided(op, a, b, pos) ==
    IF b = 0 \/ (a = Smallest /\ b = -1) THEN Panic
    ELSE Value(IF op = "/" THEN Quotient(a, b) ELSE a - b * Quotient(a, b), pos)

\* The operators of each loop, logical_or first.
Levels == << {"||"}, {"&&"}, {"|"}, {"^"}, {"&"}, {"==", "!="},
             {"<", ">", "<=", ">="}, {"<<", ">>"}, {"+", "-"}, {"*", "/", "%"} >>

Binary(op, a, b, checks, pos) ==
    CASE op = "||" -> Value(Truth(a # 0 \/ b # 0), pos)
      [] op = "&&" -> Value(Truth(a # 0 /\ b # 0), pos)
      [] op = "|"  -> Value(Wrap(Bits(a) | Bits(b)), pos)
      [] op = "^"  -> Value(Wrap(Bits(a) ^^ Bits(b)), pos)
      [] op = "&"  -> Value(Wrap(Bits(a) & Bits(b)), pos)
      [] op \in {"==", "!="} -> Value(Truth(a = b), pos)    \* both arms compute result == right
      [] op = "<"  -> Value(Truth(a < b), pos)
      [] op = ">"  -> Value(Truth(a > b), pos)
      [] op = "<=" -> Value(Truth(a <= b), pos)
      [] op = ">=" -> Value(Truth(a >= b), pos)
      [] op \in {"<<", ">>"} -> Shifted(op, a, b, checks, pos)
      [] op = "+"  -> Checked(a + b, checks, pos)
      [] op = "-"  -> Checked(a - b, checks, pos)
      [] op = "*"  -> Checked(a * b, checks, pos)
      [] op \in {"/", "%"} -> Divided(op, a, b, pos)

UnaryOps == {"+", "-", "~", "!"}

Prefixed(op, a, checks, pos) ==
    CASE op = "+" -> Value(a, pos)
      [] op = "-" -> Checked(0 - a, checks, pos)
      [] op = "~" -> Value(-1 - a, pos)
      [] op = "!" -> Value(Truth(a = 0), pos)

-----------------------------------------------------------------------------
\* lex_peek: the token there, if it is one of these.
Sees(s, p, tokens) == p <= Len(s) /\ s[p] \in tokens

Unreadable(s, p) == Sees(s, p, Bad)

\* lex_expect: what is wrong with the token there.
Unexpected(s, p) ==
    IF p > Len(s) THEN Error("Eol", Len(s))
    ELSE IF Unreadable(s, p) THEN Error("UnknownToken", p)
    ELSE Error("UnexpectedToken", p)

\* lex_expect of ")", behind a value.
Closed(s, result) ==
    IF result.tag # "value" THEN result
    ELSE IF Sees(s, result.pos, {")"}) THEN Value(result.value, result.pos + 1)
    ELSE Unexpected(s, result.pos)

\* defined(NAME), from behind its parenthesis.
Defined(s, p, defined) ==
    IF Sees(s, p, Names) THEN Closed(s, Value(Truth(s[p] \in defined), p + 1)) ELSE Unexpected(s, p)

\* An identifier that is not followed by a parenthesis is 0.
Identifier(s, p, defined) ==
    IF Unreadable(s, p + 1) THEN Error("UnknownToken", p + 1)
    ELSE IF ~Sees(s, p + 1, {"("}) THEN Value(0, p + 1)
    ELSE IF s[p] = "defined" THEN Defined(s, p + 2, defined)
    ELSE Error("UnknownFunction", p)

RECURSIVE Level(_, _, _, _, _), Rest(_, _, _, _, _), Unary(_, _, _, _)

Primary(s, p, defined, checks) ==
    IF Sees(s, p, Names) THEN Identifier(s, p, defined)
    ELSE IF Sees(s, p, DOMAIN Literals) THEN Value(Literals[s[p]], p + 1)
    ELSE IF Sees(s, p, {"("}) THEN Closed(s, Level(1, s, p + 1, defined, checks))
    ELSE Unexpected(s, p)

Unary(s, p, defined, checks) ==
    IF ~Sees(s, p, UnaryOps) THEN Primary(s, p, defined, checks)
    ELSE LET right == Unary(s, p + 1, defined, checks)
         IN  IF right.tag # "value" THEN right ELSE Prefixed(s[p], right.value, checks, right.pos)

\* Mutant: the right side goes on at the same level, so that 3 - 2 - 1 is 2.
Rest_FromTheRight(level, left, s, defined, checks) ==
    IF left.tag # "value" THEN left
    ELSE IF Unreadable(s, left.pos) THEN Error("UnknownToken", left.pos)
    ELSE IF ~Sees(s, left.pos, Levels[level]) THEN left
    ELSE LET right == Level(level, s, left.pos + 1, defined, checks)
         IN  IF right.tag # "value" THEN right
             ELSE Binary(s[left.pos], left.value, right.value, checks, right.pos)

\* The loop of one level, left to right.
Rest(level, left, s, defined, checks) ==
    IF left.tag # "value" THEN left
    ELSE IF Unreadable(s, left.pos) THEN Error("UnknownToken", left.pos)
    ELSE IF ~Sees(s, left.pos, Levels[level]) THEN left
    ELSE LET right == Level(level + 1, s, left.pos + 1, defined, checks)
         IN  IF right.tag # "value" THEN right
             ELSE Rest(level, Binary(s[left.pos], left.value, right.value, checks, right.pos),
                       s, defined, checks)

Level(level, s, p, defined, checks) ==
    IF level > Len(Levels) THEN Unary(s, p, defined, checks)
    ELSE Rest(level, Level(level + 1, s, p, defined, checks), s, defined, checks)

\* Mutant: what follows the expression is not looked at.
Evaluate_Trailer(s, defined, checks) ==
    IF s = <<>> THEN Value(0, 1) ELSE Level(1, s, 1, defined, checks)

\* No text is 0; nothing may follow.
Evaluate(s, defined, checks) ==
    LET result == Level(1, s, 1, defined, checks)
    IN  IF s = <<>> THEN Value(0, 1)
        ELSE IF result.tag = "value" /\ result.pos <= Len(s) THEN Error("UnexpectedTrailer", result.pos)
        ELSE result
=============================================================================
