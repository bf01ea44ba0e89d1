-------------------------- MODULE MCPchtxtWriter --------------------------
(* Every patch of up to three bytes of every class; longer ones of the few *)
(* that decide how a hunk is cut; one with a hole.                         *)
EXTENDS PchtxtWriter

MCBytes == Control \cup {"n", "v", "backslash", "quote", "lead", "trail"}

FromZero(n, bytes) == [0..(n - 1) -> bytes]

Few == {"nul", "control", "v"}

Holes == {[a \in {0, 1, 3, 4, 5} |-> IF a = h THEN "backslash" ELSE IF a = z THEN "nul" ELSE "n"] :
            h \in {0, 1, 3, 4, 5}, z \in {1, 5}}

MCPatches ==
    UNION {FromZero(n, MCBytes) : n \in 1..3} \cup
    {p \in FromZero(5, {"nul", "vtab", "n", "backslash", "lead", "trail"}) : p[4] = "nul"} \cup
    FromZero(6, Few) \cup Holes
=============================================================================
