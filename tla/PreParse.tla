----------------------------- MODULE PreParse -----------------------------
(***************************************************************************)
(* Cutting a source file into options, directives and lines of code:       *)
(* PreParsedCode::parse, src/pre_parse.rs.                                 *)
(*                                                                         *)
(* The file is a sequence of symbols: "opt" is an option's name with its   *)
(* equals sign, "//" the start of a comment, "open" and "close" stand for  *)
(* both kinds of brackets, "sp" for a space or a tab, and "w" for any text *)
(* that is none of the others.                                             *)
(***************************************************************************)
EXTENDS Naturals, Sequences, SequencesExt, FiniteSetsExt

CONSTANTS Files   \* what is written: sequences of entries with their text

Symbols == {"opt", "#", "//", "open", "close", "single", "double", "\\", "sp", "nl", "w"}

\* An entry of a file is a text, the kind of statement it is, "none" for a comment or
\* an empty line, and how much of the text the statement is.
Entry == [kind : {"option", "directive", "code", "none"}, length : Nat, text : Seq(Symbols), derails : BOOLEAN]

ASSUME FilesAreEntries == \A f \in Files : f \in Seq(Entry)

VARIABLES file,        \* never changes
          input,       \* its text; never changes
          pos,         \* where current begins
          statements,  \* what has been cut off, also what is then refused
          state        \* "reading", "done" or "panicked"

preParseVars == <<file, input, pos, statements, state>>

Blank == {"sp", "nl"}

Quotes == {"single", "double"}

Size == Len(input)

\* find('\n'), or the last symbol
LineEnd(p) == Min({i \in p..Size : input[i] = "nl"} \cup {Size})

\* trim_start
Start(p) == Min({i \in p..Size : input[i] \notin Blank} \cup {Size + 1})

\* trim_end of p..q
TrimEnd(p, q) == Max({i \in p..q : input[i] \notin Blank} \cup {p - 1})

\* skip_string: the quote that closes the one at p, or a position behind q.
SkipString(p, q) ==
    LET close[i \in (p + 1)..(q + 2)] ==
            IF i > q \/ input[i] = input[p] THEN i
            ELSE IF input[i] = "\\" THEN close[i + 2] ELSE close[i + 1]
    IN  close[p + 1]

\* The blanks behind the equals sign are taken with it.
ValueStart(p) == Min({i \in p..Size : input[i] # "sp"} \cup {Size + 1})

\* The loop of json5_trim: where it stops looking, which may be too far.
ValueEnd(p) ==
    LET scan[x \in (p..(Size + 3)) \X Nat] ==
            LET i == x[1]
                depth == x[2]
            IN  IF i > Size THEN i
                ELSE CASE input[i] = "open" -> scan[<<i + 1, depth + 1>>]
                       [] input[i] = "close" -> IF depth <= 1 THEN i + 1 ELSE scan[<<i + 1, depth - 1>>]
                       [] input[i] \in Quotes -> scan[<<SkipString(i, Size) + 1, depth>>]
                       [] input[i] \in Blank /\ depth = 0 -> i + 1
                       [] OTHER -> scan[<<i + 1, depth>>]
    IN  scan[<<p, 0>>]

\* Mutant: a comment is found in a string.
CommentStart_InStrings(p, q) == Min({i \in p..q : input[i] = "//"} \cup {q + 1})

\* find_up_to_comment: the first comment of p..q that is not in a string.
CommentStart(p, q) ==
    LET scan[i \in p..(q + 3)] ==
            IF i > q THEN q + 1
            ELSE IF input[i] = "//" THEN i
            ELSE IF input[i] \in Quotes THEN scan[SkipString(i, q) + 1] ELSE scan[i + 1]
    IN  scan[p]

-----------------------------------------------------------------------------
InitPreParse ==
    /\ file \in Files
    /\ input = FlattenSeq([k \in DOMAIN file |-> file[k].text])
    /\ pos = 1
    /\ statements = <<>>
    /\ state = "reading"

At(symbols) == state = "reading" /\ Start(pos) <= Size /\ input[Start(pos)] \in symbols

Statement(kind, first, last) == [kind |-> kind, first |-> first, last |-> last]

SkipComment ==
    /\ At({"//"})
    /\ pos' = LineEnd(Start(pos)) + 1
    /\ UNCHANGED <<file, input, statements, state>>

\* Mutant: what is behind the value on its line is dropped.
ReadOption_ValueAlone ==
    /\ At({"opt"})
    /\ LET p == Start(pos)
           end == ValueEnd(ValueStart(p + 1))
       IN  /\ end <= Size + 1
           /\ statements' = Append(statements, Statement("option", p, TrimEnd(p, end - 1)))
           /\ pos' = LineEnd(end) + 1
    /\ UNCHANGED <<file, input, state>>

\* The value goes on to the end of the line it ends on, by the newline behind ValueEnd.
ReadOption ==
    /\ At({"opt"})
    /\ LET p == Start(pos)
           end == ValueEnd(ValueStart(p + 1))
       IN  /\ end <= Size + 1
           /\ statements' = Append(statements, Statement("option", p, TrimEnd(p, LineEnd(end))))
           /\ pos' = LineEnd(end) + 1
    /\ UNCHANGED <<file, input, state>>

\* s[idx..] with idx behind the end
PanicInOption ==
    /\ At({"opt"})
    /\ ValueEnd(ValueStart(Start(pos) + 1)) > Size + 1
    /\ state' = "panicked"
    /\ UNCHANGED <<file, input, pos, statements>>

ReadLine(kind) ==
    LET p == Start(pos)
        q == LineEnd(p)
    IN  /\ statements' = Append(statements, Statement(kind, p, TrimEnd(p, CommentStart(p, q) - 1)))
        /\ pos' = q + 1
        /\ UNCHANGED <<file, input, state>>

ReadDirective == At({"#"}) /\ ReadLine("directive")

ReadCode == state = "reading" /\ Start(pos) <= Size /\ ~At({"//", "opt", "#"}) /\ ReadLine("code")

EndOfFile ==
    /\ state = "reading" /\ Start(pos) > Size
    /\ state' = "done"
    /\ UNCHANGED <<file, input, pos, statements>>

Finished == state # "reading" /\ UNCHANGED preParseVars

NextPreParse ==
    \/ SkipComment \/ ReadOption \/ PanicInOption \/ ReadDirective \/ ReadCode
    \/ EndOfFile \/ Finished

SpecPreParse == InitPreParse /\ [][NextPreParse]_preParseVars

-----------------------------------------------------------------------------
EntryStart(k) == 1 + Len(FlattenSeq([j \in 1..(k - 1) |-> file[j].text]))

StatementsOfFile ==
    FlattenSeq([k \in DOMAIN file |->
        IF file[k].kind = "none" THEN <<>>
        ELSE <<Statement(file[k].kind, EntryStart(k), EntryStart(k) + file[k].length - 1)>>])

\* A value without brackets that ends its line, with text on the next.
SwallowsNext(k) ==
    /\ file[k].kind = "option" /\ Last(SelectSeq(file[k].text, LAMBDA t : t # "nl")) # "close"
    /\ \A i \in DOMAIN file[k].text : file[k].text[i] = "sp" => i = 2
    /\ k < Len(file) /\ ToSet(file[k + 1].text) \ Blank # {}

\* A comment within a value, with a quote or a bracket in it.
Derails(k) == file[k].derails

(* The types; and what is cut off is cut off in order, without overlap.    *)
TypeOKPreParse ==
    /\ pos \in 1..(Size + 1)
    /\ state \in {"reading", "done", "panicked"}
    /\ \A k \in DOMAIN statements :
        /\ statements[k].kind \in {"option", "directive", "code"}
        /\ statements[k].first >= (IF k = 1 THEN 1 ELSE statements[k - 1].last + 1)
        /\ statements[k].last \in statements[k].first..(pos - 1)

(* What the reader finds is what was written, whatever stands in strings   *)
(* and comments, values over many lines and a last line without its end;   *)
(* but for values that end at a newline with text behind it, and for       *)
(* comments that look like the ends of strings and lists.                  *)
FindsTheStatements ==
    state # "reading" /\ (\A k \in DOMAIN file : ~SwallowsNext(k) /\ ~Derails(k)) =>
        state = "done" /\ statements = StatementsOfFile

(* The types, by which statements stand one behind the other; and no       *)
(* symbol is lost in any text: what is in no statement is blank, or behind *)
(* the mark of a comment on its line.                                      *)
NothingDropped ==
    /\ TypeOKPreParse
    /\ \A i \in 1..(pos - 1) :
          \/ input[i] \in Blank
          \/ \E k \in DOMAIN statements : i \in statements[k].first..statements[k].last
          \/ \E j \in 1..i : input[j] = "//" /\ "nl" \notin {input[n] : n \in j..i}

(* sample.nxpch:3-4 has mod_version on the line after mod_name = "...":    *)
(* an option is a statement of its own.                                    *)
OptionsAreStatements ==
    state = "done" =>
        Len(SelectSeq(statements, LAMBDA t : t.kind = "option")) = Len(SelectSeq(file, LAMBDA e : e.kind = "option"))
=============================================================================
