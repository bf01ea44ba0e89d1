--------------------------- MODULE PchtxtWriter ---------------------------
(***************************************************************************)
(* generate_pchtxt of src/output.rs, and the file read back by             *)
(* pchtxt_to_patches of src/pchtxt.rs: what `pchtxt minify` does to its    *)
(* own output.  A hunk is cut at its NULs; a piece that ends in one may be *)
(* written as a string.  Then neighbours are joined wherever the text of   *)
(* the two as one hex value is shorter than as two lines.                  *)
(*                                                                         *)
(* A line of the file is its address and its text; a hex value is the      *)
(* bytes it spells, two characters each.                                   *)
(***************************************************************************)
EXTENDS PchtxtText

CONSTANTS Patches,      \* the patches to write
          MaxHunk,      \* 4080
          LineCost      \* 10: an address, a space and an end of line

ASSUME LimitsArePositive == MaxHunk \in Nat \ {0} /\ LineCost \in Nat \ {0}

ASSUME PatchesArePatchVecs == \A p \in Patches : IsPatchVec(p)

VARIABLES data,     \* the patch; never changes
          next,     \* the address the next hunk is looked for from
          base,     \* the address of the first of the pieces
          pieces,   \* of the hunk, those not yet written
          at,       \* hunk_idx of the joining loop
          phase,    \* where the writer is, then the reader
          lines,    \* the file
          line,     \* the line to be read
          back      \* the patch the reader has collected

writerVars == <<data, next, base, pieces, at, phase, lines, line, back>>

Piece(bytes) == [bytes |-> bytes, length |-> StringLength(bytes)]

\* split_inclusive(0): a byte after the other, a new piece after each NUL.
CutAtNuls(hunk) ==
    LET upTo[n \in 0..Len(hunk)] ==
            IF n = 0 THEN <<>>
            ELSE IF n = 1 \/ hunk[n - 1] = "nul" THEN Append(upTo[n - 1], <<hunk[n]>>)
            ELSE [upTo[n - 1] EXCEPT ![Len(upTo[n - 1])] = Append(@, hunk[n])]
    IN  upTo[Len(hunk)]

\* Control characters before a string are cut off it.
CutLeading(bytes) ==
    LET texts == {i \in DOMAIN bytes : bytes[i] \notin Control}
        first == CHOOSE i \in texts : \A j \in texts : i <= j
        right == SubSeq(bytes, first, Len(bytes))
    IN  IF \/ StringLength(bytes) # NoString \/ Last(bytes) # "nul"
           \/ texts = {} \/ first = 1 \/ StringLength(right) = NoString
        THEN <<Piece(bytes)>>
        ELSE <<[bytes |-> SubSeq(bytes, 1, first - 1), length |-> NoString], Piece(right)>>

Cut(hunk) ==
    LET cut == CutAtNuls(hunk)
    IN  FlattenSeq([k \in DOMAIN cut |-> CutLeading(cut[k])])

TextLength(piece) == IF piece.length # NoString THEN piece.length ELSE HexLength(piece.bytes)

IsShorterJoined(p, q) ==
    HexLength(p.bytes) + HexLength(q.bytes) < TextLength(p) + LineCost + TextLength(q)

Line(address, piece) ==
    IF piece.length # NoString
    THEN [address |-> address, form |-> "string", text |-> WriteString(piece.bytes)]
    ELSE [address |-> address, form |-> "hex", text |-> piece.bytes]

-----------------------------------------------------------------------------
InitWriter ==
    /\ data \in Patches
    /\ next = 0 /\ base = 0
    /\ pieces = <<>> /\ at = 1
    /\ phase = "hunks"
    /\ lines = <<>> /\ line = 1
    /\ back = NoPatch

TakeHunk ==
    /\ phase = "hunks" /\ Remaining(data, next) # {}
    /\ LET from == NextBase(data, next)
           hunk == Hunk(data, from, MaxHunk)
       IN  /\ base' = from
           /\ next' = from + Len(hunk)
           /\ pieces' = Cut(hunk)
    /\ at' = 1
    /\ phase' = "joining"
    /\ UNCHANGED <<data, lines, line, back>>

\* Mutant: the length of the first stays.
JoinNext_KeepsLength ==
    /\ phase = "joining" /\ at < Len(pieces)
    /\ IsShorterJoined(pieces[at], pieces[at + 1])
    /\ pieces' = ReplaceAt(RemoveAt(pieces, at + 1), at,
                    [pieces[at] EXCEPT !.bytes = @ \o pieces[at + 1].bytes])
    /\ UNCHANGED <<data, next, base, at, phase, lines, line, back>>

\* The joined piece is taken for no string without another look.
JoinNext ==
    /\ phase = "joining" /\ at < Len(pieces)
    /\ IsShorterJoined(pieces[at], pieces[at + 1])
    /\ pieces' = ReplaceAt(RemoveAt(pieces, at + 1), at,
                    [bytes |-> pieces[at].bytes \o pieces[at + 1].bytes, length |-> NoString])
    /\ UNCHANGED <<data, next, base, at, phase, lines, line, back>>

KeepApart ==
    /\ phase = "joining" /\ at < Len(pieces)
    /\ ~IsShorterJoined(pieces[at], pieces[at + 1])
    /\ at' = at + 1
    /\ UNCHANGED <<data, next, base, pieces, phase, lines, line, back>>

StartWriting ==
    /\ phase = "joining" /\ at >= Len(pieces)
    /\ phase' = "writing"
    /\ UNCHANGED <<data, next, base, pieces, at, lines, line, back>>

\* Mutant: the address moves on by the characters written.
WriteLine_ByText ==
    /\ phase = "writing" /\ pieces # <<>>
    /\ lines' = Append(lines, Line(base, Head(pieces)))
    /\ base' = Plus(base, Len(Line(base, Head(pieces)).text))
    /\ pieces' = Tail(pieces)
    /\ UNCHANGED <<data, next, at, phase, line, back>>

WriteLine ==
    /\ phase = "writing" /\ pieces # <<>>
    /\ lines' = Append(lines, Line(base, Head(pieces)))
    /\ base' = Plus(base, Len(Head(pieces).bytes))
    /\ pieces' = Tail(pieces)
    /\ UNCHANGED <<data, next, at, phase, line, back>>

HunkWritten ==
    /\ phase = "writing" /\ pieces = <<>>
    /\ phase' = "hunks"
    /\ UNCHANGED <<data, next, base, pieces, at, lines, line, back>>

FileWritten ==
    /\ phase = "hunks" /\ Remaining(data, next) = {}
    /\ phase' = "reading"
    /\ UNCHANGED <<data, next, base, pieces, at, lines, line, back>>

\* Everything after @enabled is read into the patch, unless the line is in error.
IsRead(l) == l.form = "hex" \/ IsClosed(l.text)

ReadBytes(l) == IF l.form = "hex" THEN l.text ELSE ReadString(l.text)

ReadLine ==
    /\ phase = "reading" /\ line \in DOMAIN lines
    /\ back' = IF IsRead(lines[line])
               THEN Put(back, lines[line].address, ReadBytes(lines[line]))
               ELSE back
    /\ line' = line + 1
    /\ UNCHANGED <<data, next, base, pieces, at, phase, lines>>

AllRead == phase = "reading" /\ line > Len(lines)

Done == AllRead /\ UNCHANGED writerVars

NextWriter ==
    \/ TakeHunk \/ JoinNext \/ KeepApart \/ StartWriting \/ WriteLine \/ HunkWritten
    \/ FileWritten \/ ReadLine \/ Done

SpecWriter == InitWriter /\ [][NextWriter]_writerVars

-----------------------------------------------------------------------------
\* The bytes of the pieces still to be written.
Pending == FlattenSeq([k \in DOMAIN pieces |-> pieces[k].bytes])

\* The bytes of the patch d a line stands for: of a string, those up to the first NUL.
Said(d, l) ==
    LET nul == CHOOSE a \in DOMAIN d :
                 /\ a >= l.address /\ d[a] = "nul"
                 /\ \A b \in DOMAIN d : b \in l.address..a /\ d[b] = "nul" => b = a
        n   == IF l.form = "hex" THEN Len(l.text) ELSE nul - l.address + 1
    IN  [i \in 1..n |-> d[l.address + i - 1]]

Place(d, l) == l.address..(l.address + Len(Said(d, l)) - 1)

(* The types; and the pieces are never empty, so the loop that joins them  *)
(* never subtracts one from none.                                          *)
TypeOKWriter ==
    /\ IsPatchVec(data) /\ IsPatchVec(back)
    /\ next \in 0..(Top + 1) /\ base \in Addresses
    /\ at \in Nat \ {0}
    /\ phase \in {"hunks", "joining", "writing", "reading"}
    /\ phase = "joining" => at <= Len(pieces)
    /\ \A k \in DOMAIN pieces : pieces[k].bytes # <<>>
    /\ line \in 1..(Len(lines) + 1)

(* The types; and the length kept with a piece is the one its bytes have,  *)
(* after every cut and every join: "Always None because such a joined hunk *)
(* will always have a 0 byte in the middle" (output.rs:163).               *)
CachedLengthIsRight ==
    TypeOKWriter /\ \A k \in DOMAIN pieces : pieces[k].length = StringLength(pieces[k].bytes)

(* Wherever the writer is, each byte the hunks so far took from the patch  *)
(* is in one line, or in the pieces in hand: nothing twice, nothing lost;  *)
(* and a line is the text of what stands at its address.                   *)
NothingDropped ==
    LET here == base..(base + Len(Pending) - 1)
    IN  /\ {a \in DOMAIN data : a < next} = here \cup UNION {Place(data, lines[k]) : k \in DOMAIN lines}
        /\ \A k \in DOMAIN lines : \A a \in Place(data, lines[k]) :
              a \notin here /\ \A j \in 1..(k - 1) : a \notin Place(data, lines[j])
        /\ \A i \in DOMAIN Pending : Pending[i] = data[base + i - 1]
        /\ \A k \in DOMAIN lines :
              LET said == Said(data, lines[k])
              IN  lines[k].text = IF lines[k].form = "hex" THEN said ELSE WriteString(said)

\* An empty string, one that ends in a backslash, one with a vertical tab in it.
Unlucky(l) ==
    /\ l.form = "string"
    /\ LET said == Said(data, l)
           n    == Len(said)
       IN  n = 1 \/ said[n - 1] = "backslash" \/ \E i \in 1..n : said[i] = "vtab"

(* What is read back is the patch, unless some line is one of the three    *)
(* kinds of string the reader understands differently.                     *)
ReadsBackUnlessUnlucky ==
    AllRead => (back = data <=> \A k \in DOMAIN lines : ~Unlucky(lines[k]))
=============================================================================
