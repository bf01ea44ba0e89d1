-------------------------- MODULE MCPchtxtImport --------------------------
(* Every file of up to three lines of every kind, and of four of those     *)
(* that decide what is enabled and where it goes.                          *)
EXTENDS PchtxtImport

Patch(offset, size, string) ==
    [kind |-> "patch", offset |-> offset, size |-> size, string |-> string]

\* The bytes are values of their own.
NoBytes == {}

\* Of a patch of two words on the second line, the second.
MCLost == {[k \in 1..4 |-> <<2, 4 + k>>]}

Plain(kind) == [kind |-> kind]

Shifts == {[kind |-> "shift", by |-> s] : s \in {4, -10}}

\* Words; .int, .short and .byte; within the header; nothing; a string.
Values == {Patch(12, 8, FALSE), Patch(13, 7, FALSE), Patch(2, 1, FALSE), Patch(9, 0, FALSE)}

Deciding ==
    {Plain("enable"), Plain("disable"), Plain("stop"), [kind |-> "nsobid", valid |-> TRUE]}
        \cup Shifts \cup (Values \ {Patch(9, 0, FALSE)})

AllLines ==
    Deciding \cup Values \cup {Plain(k) : k \in BadLines} \cup
    {Plain(k) : k \in {"comment", "information", "big", "little", "print_values"}} \cup
    {[kind |-> "nsobid", valid |-> FALSE], Patch(9, 9, FALSE), Patch(16, 3, TRUE)}

FilesOf(lines, n) == [1..n -> lines]

MCFiles == UNION {FilesOf(AllLines, n) : n \in 0..3} \cup FilesOf(Deciding, 4) \cup
           {<<Plain("enable")>> \o f : f \in FilesOf(Deciding, 4)}
=============================================================================
