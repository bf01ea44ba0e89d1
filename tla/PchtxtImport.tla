--------------------------- MODULE PchtxtImport ---------------------------
(***************************************************************************)
(* The two commands that read a pchtxt, src/pchtxt.rs, side by side over   *)
(* one file: pchtxt_to_patches (`pchtxt compile` and `minify`), which      *)
(* collects the bytes of the enabled patches, and pchtxt_to_nxpch          *)
(* (`import`), which writes source code, with the disabled patches under   *)
(* #if 0.  PchtxtParseIter cuts the file for both.                         *)
(*                                                                         *)
(* A line is its kind and what the kind is told apart by; a patch has as   *)
(* many bytes as its size says, each a value of its own.  Of the comments  *)
(* only that they are no code is kept.  Capstone, which finds the text of  *)
(* an instruction, and Keystone, which assembles it, are outside the       *)
(* repository: that they undo one another is assumed of the words not in   *)
(* Lost.                                                                   *)
(***************************************************************************)
EXTENDS PatchVec

CONSTANTS Files,        \* the files to read, as sequences of lines
          Lost,         \* the words whose text does not assemble to them
          Header        \* 0x100: where the code of an NSO begins

ASSUME HeaderIsAligned == Header \in Addresses /\ Header % 4 = 0

\* What PchtxtParseIter makes of a line; a shift is an i32.
IsLine(l) ==
    /\ l.kind = "shift" => l.by \in -(Top + 1)..Top
    /\ l.kind = "patch" => l.offset \in Addresses /\ l.size \in Nat /\ (l.string => l.size > 1)

ASSUME FilesAreLines ==
    \A f \in Files : f \in Seq({f[i] : i \in DOMAIN f}) /\ \A i \in DOMAIN f : IsLine(f[i])

VARIABLES file,     \* never changes
          pos,      \* the line read next
          bin,      \* what pchtxt_to_patches has so far
          src,      \* what pchtxt_to_nxpch has so far
          done

vars == <<file, pos, bin, src, done>>

NoBuild == 0

\* The kinds PchtxtParseIter gives up on; with a diagnostic, but for a line too short to say.
BadLines == {"short", "bad flag", "bad address", "unterminated", "odd hex", "not hex"}

\* A build ID is looked for on the first line only; elsewhere its line begins as no other @ does.
Kind(n) ==
    IF file[n].kind = "nsobid" /\ n > 1 THEN "disable"
    ELSE IF file[n].kind \in BadLines THEN "ignored"
    ELSE file[n].kind

\* checked_add_signed, or else wrapping_add_signed.
Shifted(offset, shift) == (offset + shift + Top + 1) % (Top + 1)

Overflows(offset, shift) == offset + shift \notin Addresses

BytesOf(n) == [i \in 1..file[n].size |-> <<n, i>>]

Diag(n, kind) == [line |-> n, kind |-> kind]

\* What the iterator itself says of a line, in both commands.
ReaderDiags(n) ==
    IF file[n].kind \in BadLines \ {"short"} THEN {Diag(n, file[n].kind)}
    ELSE IF Kind(n) = "nsobid" /\ ~file[n].valid THEN {Diag(n, "bad build")}
    ELSE IF Kind(n) = "big" THEN {Diag(n, "big")}
    ELSE {}

-----------------------------------------------------------------------------
(* The lines of source that a patch becomes.                               *)

Item(form, address, bytes) == [kind |-> "item", form |-> form, address |-> address, bytes |-> bytes]

\* A word for an instruction; .long, .int, .short and .byte, the widest that is left
\* bytes for.
Width(form, left) ==
    IF form = "word" THEN 4 ELSE IF left >= 8 THEN 8 ELSE IF left >= 4 THEN 4 ELSE IF left >= 2 THEN 2 ELSE 1

\* Mutant: every piece is given the address of the patch.
NextPiece_SameAddress(form, address, bytes, at) ==
    Item(form, address, SubSeq(bytes, at + 1, at + Width(form, Len(bytes) - at)))

\* The next of the lines of a patch, `at` bytes of it being written.
NextPiece(form, address, bytes, at) ==
    Item(form, address + at, SubSeq(bytes, at + 1, at + Width(form, Len(bytes) - at)))

\* One round of the loop.
Round(form, address, bytes, r) ==
    IF r.at >= Len(bytes) THEN r
    ELSE [at    |-> r.at + Width(form, Len(bytes) - r.at),
          lines |-> Append(r.lines, NextPiece(form, address, bytes, r.at))]

\* What is written after n rounds.
Rounds(form, address, bytes) ==
    LET after[n \in 0..Len(bytes)] ==
            IF n = 0 THEN [at |-> 0, lines |-> <<>>] ELSE Round(form, address, bytes, after[n - 1])
    IN  after

Pieces(form, address, bytes) == Rounds(form, address, bytes)[Len(bytes)].lines

\* A string is written without a directive, and without its NUL.
Source(n, address) ==
    LET bytes == BytesOf(n)
    IN  IF bytes = <<>> THEN <<[kind |-> "comment"]>>
        ELSE IF file[n].string THEN <<Item("string", address, bytes)>>
        ELSE IF address % 4 = 0 /\ Len(bytes) % 4 = 0 THEN Pieces("word", address, bytes)
        ELSE Pieces("data", address, bytes)

-----------------------------------------------------------------------------
Init ==
    /\ file \in Files
    /\ pos = 1
    /\ bin = [enabled |-> FALSE, shift |-> 0, patch |-> NoPatch, build |-> NoBuild, diags |-> {}]
    /\ src = [status |-> "pre-enabled", shift |-> 0, out |-> <<>>, diags |-> {}]
    /\ done = FALSE

Reads(kinds) == ~done /\ pos \in DOMAIN file /\ Kind(pos) \in kinds

\* The diagnostics of the line, and on to the next.
Advance(b, s) ==
    /\ bin' = [b EXCEPT !.diags = @ \cup ReaderDiags(pos)]
    /\ src' = [s EXCEPT !.diags = @ \cup ReaderDiags(pos)]
    /\ pos' = pos + 1
    /\ UNCHANGED <<file, done>>

Emit(text) == [src EXCEPT !.out = @ \o text]

ReadBuildId ==
    /\ Reads({"nsobid"})
    /\ Advance([bin EXCEPT !.build = pos], Emit(<<[kind |-> "option", build |-> pos]>>))

ReadNote ==
    /\ Reads({"ignored", "comment", "big", "little", "print_values"})
    /\ Advance(bin, Emit(<<[kind |-> "comment"]>>))

ReadInformation ==
    /\ Reads({"information"})
    /\ Advance([bin EXCEPT !.diags = @ \cup {Diag(pos, "information")}],
               Emit(<<[kind |-> "warning"]>>))

\* Mutant: a second @enabled ends a block that is not open.
ReadEnable_AlwaysEnds ==
    /\ Reads({"enable"})
    /\ Advance([bin EXCEPT !.enabled = TRUE, !.diags = @ \cup {Diag(pos, "enabled")}],
               [Emit(<<[kind |-> "endif"]>>) EXCEPT !.status = "enabled"])

ReadEnable ==
    /\ Reads({"enable"})
    /\ Advance([bin EXCEPT !.enabled = TRUE, !.diags = @ \cup {Diag(pos, "enabled")}],
               [Emit(<<[kind |-> IF src.status = "disabled" THEN "endif" ELSE "comment"]>>)
                    EXCEPT !.status = "enabled"])

ReadDisable ==
    /\ Reads({"disable"})
    /\ Advance([bin EXCEPT !.enabled = FALSE],
               [Emit(<<[kind |-> IF src.status = "disabled" THEN "comment" ELSE "if"]>>)
                    EXCEPT !.status = "disabled"])

ReadShift ==
    /\ Reads({"shift"})
    /\ Advance([bin EXCEPT !.shift = file[pos].by],
               [Emit(<<[kind |-> "comment"]>>) EXCEPT !.shift = file[pos].by])

\* The importer shifts and reports a disabled patch too, and drops one within the header.
ReadPatch ==
    /\ Reads({"patch"})
    /\ LET offset  == Shifted(file[pos].offset, bin.shift)
           reports == IF Overflows(file[pos].offset, bin.shift) THEN {Diag(pos, "overflow")} ELSE {}
           header  == IF offset < Header THEN {Diag(pos, "header")} ELSE {}
           block   == IF src.status = "pre-enabled" THEN <<[kind |-> "if"]>> ELSE <<>>
       IN  Advance(
            IF bin.enabled
            THEN [bin EXCEPT !.patch = Put(@, offset, BytesOf(pos)), !.diags = @ \cup reports]
            ELSE bin,
            [src EXCEPT !.out = @ \o block \o
                                (IF header # {} THEN <<>> ELSE Source(pos, offset - Header)),
                        !.status = IF block # <<>> THEN "disabled" ELSE @,
                        !.diags = @ \cup reports \cup header])

\* Nothing after @stop is read; the importer keeps it as comments.
ReadStop ==
    /\ Reads({"stop"})
    /\ bin' = bin
    /\ src' = Emit([n \in 1..(Len(file) - pos + 1) |-> [kind |-> "comment"]])
    /\ pos' = Len(file) + 1
    /\ UNCHANGED <<file, done>>

EndOfFile ==
    /\ ~done /\ pos > Len(file)
    /\ bin' = IF bin.build = NoBuild THEN [bin EXCEPT !.diags = @ \cup {Diag(0, "no build")}] ELSE bin
    /\ src' = IF src.status = "disabled" THEN Emit(<<[kind |-> "endif"]>>) ELSE src
    /\ done' = TRUE
    /\ UNCHANGED <<file, pos>>

Finished == done /\ UNCHANGED vars

Next ==
    \/ ReadBuildId \/ ReadNote \/ ReadInformation \/ ReadEnable \/ ReadDisable \/ ReadShift
    \/ ReadPatch \/ ReadStop \/ EndOfFile \/ Finished

Spec == Init /\ [][Next]_vars

-----------------------------------------------------------------------------
(* The source, compiled: how many blocks are open after a line, the patch  *)
(* so far, the later item over the earlier; whether an item went past the  *)
(* last address, which stops the build; and whether one did not assemble   *)
(* to the bytes it was written for, but to an error or to others.          *)

\* A quoted text without .string is an instruction to parse_code.
Unlike(l) == l.form = "string" \/ (l.form = "word" /\ l.bytes \in Lost)

CompileLine(c, l) ==
    CASE l.kind = "if"    -> [c EXCEPT !.depth = @ + 1]
      [] l.kind = "endif" -> [c EXCEPT !.depth = @ - 1]
      [] l.kind = "item" /\ c.depth = 0 ->
            IF Unlike(l) THEN [c EXCEPT !.unlike = TRUE]
            ELSE [c EXCEPT !.patch = Put(@, l.address + Header, l.bytes),
                           !.crosses = @ \/ l.address + Header + Len(l.bytes) - 1 > Top]
      [] OTHER -> c

Compiled(out) ==
    LET after[n \in 0..Len(out)] ==
            IF n = 0 THEN [depth |-> 0, patch |-> NoPatch, crosses |-> FALSE, unlike |-> FALSE]
            ELSE CompileLine(after[n - 1], out[n])
    IN  after

Depth(n) == Compiled(src.out)[n].depth

AllCompiled == Compiled(src.out)[Len(src.out)]

InHeader == \E d \in src.diags : d.kind = "header"

(* The types; and both commands are shifted alike, and agree on what is    *)
(* enabled.                                                                *)
TypeOK ==
    /\ pos \in 1..(Len(file) + 1)
    /\ bin.enabled \in BOOLEAN /\ DOMAIN bin.patch \subseteq Addresses
    /\ bin.build \in {NoBuild, 1}
    /\ src.status \in {"pre-enabled", "enabled", "disabled"}
    /\ src.shift = bin.shift
    /\ bin.enabled <=> src.status = "enabled"

(* The types; and the blocks of the source: #if 0 and #endif take turns,   *)
(* and none is open at the end.                                            *)
BlocksBalance ==
    /\ TypeOK
    /\ \A n \in 0..Len(src.out) : Depth(n) \in 0..1
    /\ Depth(Len(src.out)) = IF src.status = "disabled" /\ ~done THEN 1 ELSE 0

\* What a reader of the file means by an enabled patch.
EnabledAt(n) ==
    /\ \A k \in 1..(n - 1) : Kind(k) # "stop"
    /\ \E k \in 1..(n - 1) : /\ Kind(k) = "enable"
                             /\ \A j \in (k + 1)..(n - 1) : Kind(j) # "disable"

On(n) == Kind(n) = "patch" /\ EnabledAt(n)

LostWord(n) ==
    \E k \in 0..(file[n].size \div 4 - 1) : SubSeq(BytesOf(n), 4 * k + 1, 4 * k + 4) \in Lost

(* Wherever both are in the file, the source compiled is the patch: same   *)
(* bytes, same places, the same lines left out, the same one winning where *)
(* two meet.  Not so when an enabled string was read, which the importer   *)
(* writes as an instruction: such a source never compiles to the patch;    *)
(* nor need it for a word that is lost on Capstone or Keystone, and for a  *)
(* patch within the header, which the importer reports.                    *)
ImportAgrees ==
    ~AllCompiled.crosses /\ ~InHeader =>
        /\ (\A n \in 1..(pos - 1) : On(n) => ~file[n].string /\ ~LostWord(n)) =>
              ~AllCompiled.unlike /\ AllCompiled.patch = bin.patch
        /\ (\E n \in 1..(pos - 1) : On(n) /\ file[n].string) => AllCompiled.unlike
        /\ bin.build # NoBuild =>
              \E n \in DOMAIN src.out : src.out[n].kind = "option" /\ src.out[n].build = bin.build
=============================================================================
