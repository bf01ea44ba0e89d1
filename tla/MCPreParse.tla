---------------------------- MODULE MCPreParse ----------------------------
(* Files of three entries of every kind, with and without a newline at the *)
(* end, and every text of up to four symbols.                              *)
EXTENDS PreParse

AnEntry(kind, length, text) == [kind |-> kind, length |-> length, text |-> text, derails |-> FALSE]

Scalar == AnEntry("option", 2, <<"opt", "w", "nl">>)

\* // it's a list
OddComment ==
    [kind |-> "option", length |-> 6, text |-> <<"opt", "open", "//", "single", "nl", "close", "nl">>, derails |-> TRUE]

Entries == {
    Scalar, OddComment,
    AnEntry("option", 3, <<"opt", "sp", "w", "nl">>),
    AnEntry("option", 4, <<"opt", "w", "sp", "//", "nl">>),
    AnEntry("option", 5, <<"opt", "double", "single", "//", "double", "nl">>),
    AnEntry("option", 8, <<"opt", "open", "single", "close", "\\", "single", "single", "close", "nl">>),
    AnEntry("option", 10, <<"opt", "open", "nl", "open", "w", "close", "sp", "//", "nl", "close", "nl">>),
    AnEntry("code", 1, <<"w", "nl">>),
    AnEntry("code", 5, <<"w", "double", "single", "//", "double", "sp", "//", "single", "nl">>),
    AnEntry("code", 3, <<"close", "opt", "w", "nl">>),
    AnEntry("directive", 2, <<"#", "w", "sp", "//", "w", "nl">>),
    AnEntry("none", 0, <<"//", "opt", "single", "nl">>),
    AnEntry("none", 0, <<"sp", "nl">>)}

\* Without the newline at the end of the file.
Unended(f) == [f EXCEPT ![Len(f)].text = Front(@)]

Raw(t) == <<[kind |-> "none", length |-> 0, text |-> t, derails |-> TRUE]>>

MCFiles ==
    LET written == UNION {[1..n -> Entries] : n \in 1..3}
    IN  written \cup {Unended(f) : f \in written} \cup {Raw(t) : t \in UNION {[1..n -> Symbols] : n \in 0..4}}
        \cup {Raw(<<"opt">> \o t) : t \in [1..4 -> {"w", "open", "close", "single", "\\", "nl"}]}

TwoOptions == {<<Scalar, Scalar>>}
=============================================================================
