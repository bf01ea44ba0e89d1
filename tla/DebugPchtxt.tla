---------------------------- MODULE DebugPchtxt ----------------------------
(***************************************************************************)
(* pchtxt generate: Assembler::assemble_debug_pchtxt of src/assemble.rs    *)
(* writes the code of a build item by item, beside its source, and the     *)
(* file is read back as pchtxt compile reads it.  The patch must be the    *)
(* one assemble makes of the same code, which takes instructions together. *)
(*                                                                         *)
(* The source between the lines is left out: it is written as comments.    *)
(* The source of a line stands behind its value, and what it holds is no   *)
(* comment to a reader who looks for the end of a string.                  *)
(***************************************************************************)
EXTENDS Assemble, PchtxtText

CONSTANT Comments    \* " // " and the source of a line with a string in it

ASSUME CommentsAreText == "nul" \in Bytes /\ Comments \subseteq Seq(Tokens)

VARIABLES item,      \* of the code, the next to be written
          file,      \* lines with an address and a value
          refused,   \* the items InvalidAsm was recorded for
          line,      \* the next to be read back
          back       \* the patch read back

debug == <<item, file, refused, line, back>>

InitDebug ==
    /\ Init
    /\ item = 1 /\ file = <<>> /\ refused = <<>>
    /\ line = 1 /\ back = NoPatch

AssembleCode ==
    /\ Next
    /\ UNCHANGED debug

Line(form, value) ==
    [item |-> item, form |-> form, address |-> code[item].address, value |-> value]

Hex(bytes) == Line("hex", bytes)

Writes(kind) == done /\ item \in DOMAIN code /\ code[item].kind = kind

Write(l) == file' = Append(file, l) /\ item' = item + 1 /\ UNCHANGED <<vars, line, back>>

\* Mutant: the digits of the number are written as they are read.
WriteData_BigEndian ==
    /\ Writes("data")
    /\ Write(Hex(Reverse(Literal(item))))
    /\ UNCHANGED refused

\* swap_bytes: the digits are written from the lowest byte on.
WriteData ==
    /\ Writes("data")
    /\ Write(Hex(Literal(item)))
    /\ UNCHANGED refused

WriteText ==
    /\ Writes("string")
    /\ \E comment \in Comments :
          Write(Line("string", WriteString(Append(code[item].text, "nul")) \o comment))
    /\ UNCHANGED refused

\* Mutant: an error ends the line only.
WriteAsm_Silent ==
    /\ Writes("asm")
    /\ Write(Hex(IF Assembles(item, 1) THEN Encode(item, 1, code[item].address) ELSE <<>>))
    /\ UNCHANGED refused

\* Each instruction by itself; the value of one in error stays empty.
WriteAsm ==
    /\ Writes("asm")
    /\ IF Assembles(item, 1)
       THEN Write(Hex(Encode(item, 1, code[item].address))) /\ UNCHANGED refused
       ELSE Write(Hex(<<>>)) /\ refused' = Append(refused, item)

\* "@flag offset_shift 0x100"
Shift(address) == Plus(address, HeaderLen)

\* The k-th byte of what a string is read as: the one of the item there, or another.
ByteRead(i, k, c) ==
    IF k <= code[i].width /\ c = code[i].text[k] THEN Literal(i)[k]
    ELSE IF k = code[i].width + 1 /\ c = "nul" THEN Nul(i)
    ELSE [Nul(i) EXCEPT !.byte = code[i].width + k]

BytesRead(l) ==
    LET text == ReadString(l.value)
    IN  IF l.form = "hex" THEN l.value
        ELSE [k \in 1..Len(text) |-> ByteRead(l.item, k, text[k])]

\* A string without an end is an error, and not read.
IsRead(l) == l.form = "hex" \/ IsClosed(l.value)

ReadBack ==
    /\ done /\ item > Len(code) /\ line \in DOMAIN file
    /\ back' = IF IsRead(file[line])
               THEN Put(back, Shift(file[line].address), BytesRead(file[line]))
               ELSE back
    /\ line' = line + 1
    /\ UNCHANGED <<vars, item, file, refused>>

AllReadBack == done /\ item > Len(code) /\ line > Len(file)

DoneDebug == AllReadBack /\ UNCHANGED <<vars, debug>>

NextDebug == AssembleCode \/ WriteData \/ WriteText \/ WriteAsm \/ ReadBack \/ DoneDebug

SpecDebug == InitDebug /\ [][NextDebug]_<<vars, debug>>

-----------------------------------------------------------------------------
\* An empty string, one that ends in a backslash, one with a vertical tab in it.
Unlucky(i) ==
    /\ code[i].kind = "string"
    /\ \/ code[i].text = <<>>
       \/ Last(code[i].text) = "backslash"
       \/ \E k \in DOMAIN code[i].text : code[i].text[k] = "vtab"

(* The file that is made "for debugging purposes" (main.rs:88) shows what  *)
(* build puts in the patch: the same errors in the same order, and byte    *)
(* for byte the same patch, also where items overlap and lines fail, but   *)
(* for the three kinds of string that the reader takes for another one, or *)
(* for the source behind it.                                               *)
DebugIsThePatch ==
    AllReadBack =>
        /\ refused = reported
        /\ (\A i \in DOMAIN code : ~Unlucky(i)) => back = patch
=============================================================================
