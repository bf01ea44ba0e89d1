----------------------------- MODULE Assemble -----------------------------
(***************************************************************************)
(* Assembler::assemble of src/assemble.rs: the code of one build turned    *)
(* into a PatchVec.  Instructions that follow one another in memory are    *)
(* assembled by one call of Keystone; when the call fails, one by one.     *)
(*                                                                         *)
(* A byte is a record of where it comes from: the item, its place in it,   *)
(* and, for an instruction, the address it was assembled for.              *)
(***************************************************************************)
EXTENDS PatchVec

CONSTANTS Codes,       \* the lists of items to assemble
          HeaderLen    \* CodeAddress::NSO_HEADER_LEN

ASSUME HeaderFits == HeaderLen \in 1..Top

AsmWidth == 4

\* What parse_code pushes: an item ends within the addresses code may have (MAX_ALLOWED_ADDR).
Item ==
    {i \in [kind : {"data", "string", "asm"}, address : 0..(Top - HeaderLen), width : Nat,
            valid : BOOLEAN, text : Seq(Bytes)] :
        /\ i.kind = "asm" => i.width = AsmWidth
        /\ i.kind = "string" => i.width = Len(i.text)
        /\ i.address + i.width <= Top - HeaderLen + 1}

ASSUME CodesAreItems == \A c \in Codes : c \in Seq(Item)

VARIABLES code,        \* the items; never change
          next,        \* the item the iterator is at
          patch,       \* result
          reported,    \* the items InvalidAsm was recorded for, in order
          first, end,  \* asm_lines while it is drained: the items from first to end - 1
          done

vars == <<code, next, patch, reported, first, end, done>>

-----------------------------------------------------------------------------
NsoAddress(address) == Plus(address, HeaderLen)

\* The little-endian bytes of a number, or the text of a string.
Literal(i) == [k \in 1..code[i].width |-> [item |-> i, byte |-> k, for |-> code[i].address]]

Nul(i) == [item |-> i, byte |-> 0, for |-> code[i].address]

\* Mutant: only the first line of a run is looked at.
Assembles_First(i, n) == code[i].valid

\* Keystone: what items i.. of length n assemble to at an address; an error if any is invalid.
Assembles(i, n) == \A k \in i..(i + n - 1) : code[k].valid

Encode(i, n, address) ==
    [k \in 1..(n * AsmWidth) |->
        LET line == i + (k - 1) \div AsmWidth
        IN  [item |-> line, byte |-> ((k - 1) % AsmWidth) + 1, for |-> address + (line - i) * AsmWidth]]

\* Mutant: instructions are taken together wherever they are.
Follows_Anywhere(i, k) == code[k].kind = "asm"

\* Item k belongs to the run that starts at item i.
Follows(i, k) ==
    code[k].kind = "asm" /\ code[k].address = code[i].address + (k - i) * AsmWidth

\* How many items from `next` on are assembled together.
RunLength ==
    CHOOSE n \in 1..(Len(code) - next + 1) :
        /\ \A k \in next..(next + n - 1) : Follows(next, k)
        /\ next + n \in DOMAIN code => ~Follows(next, next + n)

-----------------------------------------------------------------------------
Init ==
    /\ code \in Codes
    /\ next = 1
    /\ patch = NoPatch
    /\ reported = <<>>
    /\ first = 1 /\ end = 1
    /\ done = FALSE

At(kind) == ~done /\ next >= end /\ next \in DOMAIN code /\ code[next].kind = kind

Here == NsoAddress(code[next].address)

EmitData ==
    /\ At("data")
    /\ patch' = Put(patch, Here, Literal(next))
    /\ next' = next + 1
    /\ UNCHANGED <<code, reported, first, end, done>>

\* The text, and a NUL after it.
EmitString ==
    /\ At("string")
    /\ patch' = PutByte(Put(patch, Here, Literal(next)), Plus(Here, code[next].width), Nul(next))
    /\ next' = next + 1
    /\ UNCHANGED <<code, reported, first, end, done>>

AssembleRun ==
    /\ At("asm")
    /\ Assembles(next, RunLength)
    /\ patch' = Put(patch, Here, Encode(next, RunLength, code[next].address))
    /\ next' = next + RunLength
    /\ UNCHANGED <<code, reported, first, end, done>>

\* The call failed: the lines are assembled again, each by itself.
AssembleLines ==
    /\ At("asm")
    /\ ~Assembles(next, RunLength)
    /\ first' = next /\ end' = next + RunLength
    /\ UNCHANGED <<code, next, patch, reported, done>>

Draining == ~done /\ next < end

Offset == (next - first) * AsmWidth

\* One line, assembled for its place in the run.
AssembleLine ==
    /\ Draining
    /\ Assembles(next, 1)
    /\ patch' = Put(patch, Plus(NsoAddress(code[first].address), Offset),
                    Encode(next, 1, code[first].address + Offset))
    /\ next' = next + 1
    /\ UNCHANGED <<code, reported, first, end, done>>

\* A run of one line is reported without a second call.
ReportLine ==
    /\ Draining
    /\ ~Assembles(next, 1)
    /\ reported' = Append(reported, next)
    /\ next' = next + 1
    /\ UNCHANGED <<code, patch, first, end, done>>

Return ==
    /\ ~done /\ next > Len(code)
    /\ done' = TRUE
    /\ UNCHANGED <<code, next, patch, reported, first, end>>

Next ==
    EmitData \/ EmitString \/ AssembleRun \/ AssembleLines \/ AssembleLine \/ ReportLine \/ Return

Spec == Init /\ [][Next]_vars

-----------------------------------------------------------------------------
Bad(i) == code[i].kind = "asm" /\ ~code[i].valid

\* The bytes of item i in the patch, 0 standing for the one after the last of a string.
Places(i) ==
    IF Bad(i) THEN {}
    ELSE (IF code[i].kind = "string" THEN 0 ELSE 1)..code[i].width

Cell(i, k) == Plus(NsoAddress(code[i].address), IF k = 0 THEN code[i].width ELSE k - 1)

Cells(i) == {Cell(i, k) : k \in Places(i)}

TypeOK ==
    /\ next \in 1..(Len(code) + 1)
    /\ first \in 1..(Len(code) + 1) /\ end \in 1..(Len(code) + 1)
    /\ DOMAIN patch \subseteq Addresses
    /\ \A a \in DOMAIN patch : patch[a].item \in 1..(next - 1)
    /\ \A n \in DOMAIN reported : reported[n] \in 1..(next - 1)

(* The types; and whatever runs the instructions were assembled in, and    *)
(* whichever lines failed, every byte of the patch is the byte some item   *)
(* has there, an instruction assembled for its own address, and of several *)
(* items that meet at an address the last one of the source wins.          *)
EachByteFromTheLatestItem ==
    /\ TypeOK
    /\ DOMAIN patch = UNION {Cells(i) : i \in 1..(next - 1)}
    /\ \A a \in DOMAIN patch :
          LET b == patch[a]
          IN  /\ a = Cell(b.item, b.byte)
              /\ b.for = code[b.item].address
              /\ \A j \in (b.item + 1)..(next - 1) : a \notin Cells(j)

(* Exactly the instructions that do not assemble are reported, once each,  *)
(* in the order of the source: a bad line takes no other line of its run   *)
(* with it and hides behind none.                                          *)
BadLinesReported ==
    /\ {reported[n] : n \in DOMAIN reported} = {i \in 1..(next - 1) : Bad(i)}
    /\ \A m, n \in DOMAIN reported : m < n => reported[m] < reported[n]
=============================================================================
