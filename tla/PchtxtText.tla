---------------------------- MODULE PchtxtText ----------------------------
(***************************************************************************)
(* The value of a pchtxt line, as text: how generate_pchtxt and            *)
(* EscapePchtxtStringChar (src/output.rs, src/utils.rs) write one and how  *)
(* PchtxtParseIter (src/pchtxt.rs) reads one.                              *)
(*                                                                         *)
(* A byte is the class the code puts it in: "nul", the other control       *)
(* characters ("control"), of which "newline" stands for the six that both *)
(* sides escape alike and "vtab" is the seventh the writer escapes; the    *)
(* quote, the backslash, the letters of two escapes, and the two bytes     *)
(* of a character outside ASCII.  Text is a sequence of the same.          *)
(***************************************************************************)
EXTENDS PatchVec, SequencesExt

NoString == 0       \* the length of what cannot be written as a string

Control == {"nul", "control", "vtab", "newline"}

\* EscapePchtxtStringChar.
Letter(c) ==
    IF c = "newline" THEN "n" ELSE IF c = "vtab" THEN "v" ELSE c

IsEscaped(c) == c \in {"newline", "vtab", "backslash", "quote"}

\* The letter of an escape is a byte as well.
ASSUME LettersAreBytes == \A c \in Bytes : Letter(c) \in Bytes

Tokens == Bytes \cup {"backslash", "quote"}

\* Mutant: the backslash is written as it is.
Escape_Backslash(c) == IF IsEscaped(c) /\ c # "backslash" THEN <<"backslash", Letter(c)>> ELSE <<c>>

Escape(c) == IF IsEscaped(c) THEN <<"backslash", Letter(c)>> ELSE <<c>>

\* str::from_utf8: the two bytes of a character go together.
IsUtf8(bytes) ==
    \A i \in DOMAIN bytes :
        /\ bytes[i] = "lead" => i < Len(bytes) /\ bytes[i + 1] = "trail"
        /\ bytes[i] = "trail" => i > 1 /\ bytes[i - 1] = "lead"

\* hunk_len_as_string: with its quotes and escapes, without the NUL.
StringLength(hunk) ==
    LET body == SubSeq(hunk, 1, Len(hunk) - 1)
    IN  IF \/ hunk = <<>> \/ Last(hunk) # "nul"
           \/ \E i \in DOMAIN body : body[i] \in Control /\ ~IsEscaped(body[i])
           \/ ~IsUtf8(hunk)
        THEN NoString
        ELSE 2 + Len(FlattenSeq([i \in DOMAIN body |-> Escape(body[i])]))

HexLength(hunk) == 2 * Len(hunk)

\* What follows the address when a string is written.
WriteString(hunk) ==
    <<"quote">> \o FlattenSeq([i \in 1..(Len(hunk) - 1) |-> Escape(hunk[i])]) \o <<"quote">>

-----------------------------------------------------------------------------
(* The reader's side.                                                      *)

\* The quotes that may close the string: array_windows().skip(1).
ClosingQuotes(text) == {i \in 3..Len(text) : text[i] = "quote" /\ text[i - 1] # "backslash"}

IsClosed(text) == ClosingQuotes(text) # {}

CloseAt(text) == CHOOSE i \in ClosingQuotes(text) : \A j \in ClosingQuotes(text) : i <= j

\* The reader knows the letters of the six escapes; any other stands for itself.
Unescape(c) == IF c = "n" THEN "newline" ELSE c

\* The string between the quotes, unescaped, and the NUL.
ReadString(text) ==
    LET value == SubSeq(text, 2, CloseAt(text) - 1)
        from[i \in 1..(Len(value) + 1)] ==
            IF i > Len(value) THEN <<"nul">>
            ELSE IF value[i] = "backslash" THEN <<Unescape(value[i + 1])>> \o from[i + 2]
            ELSE <<value[i]>> \o from[i + 1]
    IN  from[1]
=============================================================================
