---------------------------- MODULE CodeSection ----------------------------
(***************************************************************************)
(* The code lines of one build, in any order a source can hold them.  The  *)
(* parser keeps the address of the next item and the line that last ended  *)
(* an origin; the properties relate both, and everything emitted, to the   *)
(* whole sequence of lines executed.                                       *)
(***************************************************************************)
EXTENDS CodeLines, FiniteSets

CONSTANTS Lines,        \* the lines a source is made of
          MaxLines      \* bound on the lines of a source

ASSUME MaxLinesIsNat == MaxLines \in Nat
ASSUME LinesAreCode == Lines \subseteq CodeLine(Nat, Nat)

VARIABLES code,         \* code_output, code_multi, code_multi_ended and code_labels
          source,       \* history: the lines executed
          reported      \* every diagnostic recorded

vars == <<code, source, reported>>

Emitted == [address : 0..MaxAddr, width : Nat, kind : {"data", "string", "asm"}, at : 1..MaxLines]

TypeOK ==
    /\ code.output \in Seq(Emitted)
    /\ code.multi \in {NoAddress} \cup 0..MaxAddr
    /\ code.ended \in 0..MaxLines
    /\ code.labels \in [LabelNames -> {NoLabel} \cup [at : 1..MaxLines, address : 0..MaxAddr]]

Init == code = NoCode /\ source = <<>> /\ reported = {}

Here == Len(source) + 1

Exec(l) ==
    LET r == ExecCode(code, l, Here)
    IN  /\ code' = r.code
        /\ reported' = reported \cup r.diags
        /\ source' = Append(source, l)

Of(form) == {l \in Lines : l.form = form}

Origin == Here <= MaxLines /\ \E l \in Of("origin") : Exec(l)

AddressedItem == Here <= MaxLines /\ \E l \in Of("at") : Exec(l)

PlainItem == Here <= MaxLines /\ code.multi # NoAddress /\ \E l \in Of("plain") : Exec(l)

ItemWithoutOrigin == Here <= MaxLines /\ code.multi = NoAddress /\ \E l \in Of("plain") : Exec(l)

Next == Origin \/ AddressedItem \/ PlainItem \/ ItemWithoutOrigin

Spec == Init /\ [][Next]_vars

-----------------------------------------------------------------------------
\* The lines that set an address of their own.
IsAssignment(k) == source[k].form \in {"origin", "at"}

SameRun(j, k) == \A i \in (j + 1)..k : ~IsAssignment(i)

ErrorAt(k) == \E d \in reported : d.at = k

EmittedAt(k) == \E i \in 1..Len(code.output) : code.output[i].at = k

(* The types; and nothing is emitted past the last address a patch may     *)
(* hold, so that adding the length of the NSO header never leaves 32 bits, *)
(* for the first byte of an item or for its last.                          *)
WithinAddressSpace ==
    /\ TypeOK
    /\ \A i \in 1..Len(code.output) :
          code.output[i].address + code.output[i].width <= MaxAddr + 1

(* Items that follow one another with no address in between are laid out   *)
(* one after the other, without a hole and without an overlap.             *)
RunsAreContiguous ==
    \A i \in 1..(Len(code.output) - 1) :
        SameRun(code.output[i].at, code.output[i + 1].at) =>
            code.output[i + 1].address = code.output[i].address + code.output[i].width

(* A label names the address of the item that follows it, whatever lies in *)
(* between, as long as no new address does.                                *)
LabelNamesNextItem ==
    \A n \in LabelNames, i \in 1..Len(code.output) :
        LET label == code.labels[n]
            item  == code.output[i]
        IN  (/\ label # NoLabel
             /\ source[label.at].form = "plain"
             /\ label.at < item.at
             /\ SameRun(label.at, item.at)
             /\ \A j \in (label.at + 1)..(item.at - 1) : ~EmittedAt(j))
            => label.address = item.address

(* No line is dropped in silence: an item is emitted, a label defined, or  *)
(* an error reported at that line.                                         *)
NothingDropped ==
    \A k \in 1..Len(source) :
        \/ ErrorAt(k)
        \/ EmittedAt(k)
        \/ source[k].form = "origin"
        \/ \E n \in LabelNames : code.labels[n].at = k

\* Line k ends an origin in force.
EndsOrigin(k) ==
    \/ IsAssignment(k)
    \/ \E d \in reported : d.kind = "CodeOverflow" /\ d.at = k
    \/ \E i \in 1..Len(code.output) :
          code.output[i].at = k /\ code.output[i].address + code.output[i].width = MaxAddr + 1

(* Code without an origin is told which line took its origin away, if one  *)
(* was ever in force: that line follows the origin's, it sets an address   *)
(* of its own or reaches the end of the address space, and no later line   *)
(* put an origin in force again.                                           *)
GoodOrigin(k) == source[k].form = "origin" /\ ~ErrorAt(k)

ClearedFromIsTheCulprit ==
    \A d \in reported : d.kind = "NoOriginCode" =>
        IF d.cleared = NoLine THEN \A k \in 1..(d.at - 1) : ~GoodOrigin(k)
        ELSE /\ d.cleared \in 1..(d.at - 1)
             /\ EndsOrigin(d.cleared)
             /\ \A k \in d.cleared..(d.at - 1) : ~GoodOrigin(k)
             /\ \E k \in 1..(d.cleared - 1) : GoodOrigin(k) /\ SameRun(k, d.cleared - 1)
=============================================================================
