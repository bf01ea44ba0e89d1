---------------------------- MODULE MCCondition ----------------------------
(* Every condition of up to four tokens of a few kinds, calls of macros    *)
(* with up to five more, and longer ones made of numbers and operators, in *)
(* words of four bits.                                                     *)
EXTENDS Condition

MCLiterals == [t \in {"0", "1", "3", "5", "MIN"} |->
    IF t = "0" THEN 0 ELSE IF t = "1" THEN 1 ELSE IF t = "3" THEN 3 ELSE IF t = "5" THEN 5 ELSE -8]

MCNames == {"defined", "A", "B", "F", "G", "H", "Z", "x"}

MCBad == {"$", "comma"}

Object(body, at) == [call |-> FALSE, params |-> <<>>, body |-> body, at |-> at]

Function(params, body, at) == [call |-> TRUE, params |-> params, body |-> body, at |-> at]

\* Macros that use each other, with no, one and two parameters; H makes one argument of
\* two.
Nested == [m \in {"A", "B", "F", "G", "H", "Z"} |->
    IF m = "A" THEN Object(<<"B", "+", "B">>, 100)
    ELSE IF m = "B" THEN Object(<<"1">>, 200)
    ELSE IF m = "F" THEN Function(<<"x">>, <<"x", "*", "A">>, 300)
    ELSE IF m = "G" THEN Function(<<"x", "y">>, <<"F", "(", "y", ")", "x">>, 400)
    ELSE IF m = "H" THEN Function(<<"x", "y">>, <<"F", "(", "x", "+", "y", ")">>, 600)
    ELSE Function(<<>>, <<>>, 500)]

MCMacroSets == {Nested}

TextsOf(tokens, n) == UNION {[1..k -> tokens] : k \in 0..n}

Operators == UNION {Levels[k] : k \in DOMAIN Levels}

MCTokens == MCNames \cup MCBad \cup DOMAIN MCLiterals \cup UnaryOps \cup Operators \cup {"(", ")", "y"}

Operands == {<<"0">>, <<"1">>, <<"5">>, <<"MIN">>}

\* Two operators between three numbers; a sign before one; parentheses.
Chains == {a \o <<o>> \o b \o <<p>> \o c :
    a, c \in {<<"1">>, <<"5">>, <<"MIN">>, <<"3">>}, b \in Operands, o, p \in Operators}

Signs == {a \o <<o>> \o <<u>> \o b : a, b \in Operands, o \in Operators, u \in UnaryOps}

Nests == {<<"(">> \o a \o <<o>> \o b \o <<")", p>> \o b : a, b \in Operands, o, p \in {"-", "<<", "&", "/", "||"}}

Expressions ==
    TextsOf({"defined", "x", "(", ")", "1", "-", "&&", "$"}, 4) \cup
    {<<"defined", "(">> \o t : t \in TextsOf({"x", "A", "F", ")", "1", "$"}, 3)} \cup
    Chains \cup Signs \cup Nests

Calls ==
    TextsOf({"A", "F", "G", "Z", "(", ")", "comma", "1"}, 4) \cup
    {<<"F", "(">> \o t : t \in TextsOf({"A", "F", "(", ")", "-"}, 4)} \cup
    {<<f, "(">> \o t : f \in {"F", "G", "H"}, t \in TextsOf({"A", "F", "(", ")", "comma"}, 5)}

MCLines == Expressions \cup Calls

MCProfiles == BOOLEAN
=============================================================================
