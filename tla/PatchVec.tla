----------------------------- MODULE PatchVec -----------------------------
(***************************************************************************)
(* PatchVec of src/output.rs: the bytes a patch sets, by address.  The     *)
(* BTreeMap is a function on the addresses it holds.  A PatchVec is only   *)
(* ever built and then read, so it is a value here: module Assemble builds *)
(* one, module Ips reads one.                                              *)
(***************************************************************************)
EXTENDS Integers, Sequences, FiniteSets

CONSTANTS Top,      \* u32::MAX
          Bytes     \* the values of a byte

ASSUME TopIsNat == Top \in Nat

Addresses == 0..Top

IsPatchVec(data) == data \in [DOMAIN data -> Bytes] /\ DOMAIN data \subseteq Addresses

NoPatch == [a \in {} |-> 0]

\* u32 addition, as a release build does it.
Plus(a, n) == (a + n) % (Top + 1)

PutByte(data, address, byte) ==
    [a \in DOMAIN data \cup {address} |-> IF a = address THEN byte ELSE data[a]]

\* put: a byte after the other, each at the address after the last.
Put(data, address, bytes) ==
    LET at(i) == Plus(address, i - 1)
        written == {at(i) : i \in DOMAIN bytes}
        latest(a) == CHOOSE i \in DOMAIN bytes :
                        at(i) = a /\ \A j \in DOMAIN bytes : at(j) = a => j <= i
    IN  [a \in DOMAIN data \cup written |-> IF a \in written THEN bytes[latest(a)] ELSE data[a]]

HasEditAt(data, address) == address \in DOMAIN data

\* Mutant: the neighbour on the wrong side is looked at.
HasHunkStartingAt_WrongSide(data, address) == address \in DOMAIN data /\ address + 1 \notin DOMAIN data

HasHunkStartingAt(data, address) ==
    address \in DOMAIN data /\ (address = 0 \/ address - 1 \notin DOMAIN data)

-----------------------------------------------------------------------------
(* iter_hunks: the iterator holds the addresses from `from` on.            *)

Remaining(data, from) == {a \in DOMAIN data : a >= from}

NextBase(data, from) ==
    CHOOSE a \in Remaining(data, from) : \A b \in Remaining(data, from) : a <= b

HunkLength(data, base, max) ==
    CHOOSE n \in 1..max :
        /\ base..(base + n - 1) \subseteq DOMAIN data
        /\ n = max \/ base + n \notin DOMAIN data

Hunk(data, base, max) == [i \in 1..HunkLength(data, base, max) |-> data[base + i - 1]]
=============================================================================
