------------------------------ MODULE Macros ------------------------------
(***************************************************************************)
(* The expansion of macros in a line: MacroDefine::expand_all_in and what  *)
(* it calls, src/preprocessor/macros.rs.  The leftmost use is replaced,    *)
(* and the search goes on from the start of what replaced it.  Beside the  *)
(* text goes a vector that says where in the source each part of it stands,*)
(* by which errors in the expanded text are shown.                         *)
(*                                                                         *)
(* Text is a sequence of tokens: names, parentheses, commas and others.    *)
(* The places of the source are numbers; the line takes the first, and     *)
(* the body of every macro has places of its own.                          *)
(***************************************************************************)
EXTENDS Naturals, Sequences, FiniteSets, SequencesExt

CONSTANTS Tokens,       \* what texts are made of
          Lines,        \* the texts to expand
          MacroSets,    \* the macros defined: functions from names
          MaxLength     \* bounds the text, for macros that never stop growing

\* at is the place of the body's first token.
MacroDefine == [call : BOOLEAN, params : Seq(Tokens), body : Seq(Tokens), at : Nat]

ASSUME TextsAreTokens ==
    /\ Lines \subseteq Seq(Tokens)
    /\ \A set \in MacroSets : \A name \in DOMAIN set : set[name] \in MacroDefine

VARIABLES macros,   \* never changes
          written,  \* the line; never changes
          text,     \* result
          offsets,  \* for each token of text, its place
          origins,  \* history: where it really comes from, and whether torn off
          skip,     \* where the next use is looked for
          diags,    \* the calls with a wrong number of arguments
          done

macroVars == <<macros, written, text, offsets, origins, skip, diags, done>>

NoUse == 0

LenVec(start, len) == [k \in 1..len |-> start + k - 1]

-----------------------------------------------------------------------------
(* find_first_macro_use                                                    *)

\* A function-like macro without a parenthesis after it is not used.
IsUse(i) ==
    /\ text[i] \in DOMAIN macros
    /\ macros[text[i]].call => i < Len(text) /\ text[i + 1] = "("

FirstUse ==
    LET uses == {i \in skip..Len(text) : IsUse(i)}
    IN  IF uses = {} THEN NoUse ELSE CHOOSE i \in uses : \A j \in uses : i <= j

Count(token, i, j) == Cardinality({k \in i..j : text[k] = token})

\* The parentheses after position i that close the one next to it.
Closing(i) == {j \in (i + 2)..Len(text) : Count("(", i + 1, j) = Count(")", i + 1, j)}

IsClosed(i) == macros[text[i]].call => Closing(i) # {}

\* The last position of the use at i.
UseEnd(i) ==
    IF macros[text[i]].call THEN CHOOSE j \in Closing(i) : \A k \in Closing(i) : j <= k ELSE i

\* The text between the parentheses, cut at every comma; none between "(" and ")".
Arguments(i) ==
    LET last == UseEnd(i)
        end(k) == Min({j \in k..last : text[j] = "comma" \/ j = last})
        from(k) ==
            IF k = i + 2 \/ text[k - 1] = "comma"
            THEN <<[value |-> SubSeq(text, k, end(k) - 1), at |-> offsets[k],
                    past |-> SubSeq(origins, k, end(k) - 1)]>>
            ELSE <<>>
    IN  IF last = i + 2 THEN <<>> ELSE FlattenSeq([n \in 1..(last - i - 1) |-> from(i + 1 + n)])

-----------------------------------------------------------------------------
(* expand_parsed                                                           *)

Accepts(def, i) == def.call => Len(Arguments(i)) = Len(def.params)

IsParam(def, token) == def.call /\ token \in ToSet(def.params)

\* Of two parameters of one name the last counts.
ParamIndex(def, token) ==
    CHOOSE n \in DOMAIN def.params :
        def.params[n] = token /\ \A m \in DOMAIN def.params : def.params[m] = token => m <= n

Substituted(def, args) ==
    FlattenSeq([k \in DOMAIN def.body |->
        IF IsParam(def, def.body[k]) THEN args[ParamIndex(def, def.body[k])].value ELSE <<def.body[k]>>])

\* Mutant: what replaces a parameter is given the places of the body.
SubstitutedOffsets_Body(def, args) ==
    FlattenSeq([k \in DOMAIN def.body |->
        IF IsParam(def, def.body[k])
        THEN LenVec(def.at + k - 1, Len(args[ParamIndex(def, def.body[k])].value))
        ELSE <<def.at + k - 1>>])

\* An argument is taken to stand in one piece in the source.
SubstitutedOffsets(def, args) ==
    FlattenSeq([k \in DOMAIN def.body |->
        IF IsParam(def, def.body[k])
        THEN LET arg == args[ParamIndex(def, def.body[k])] IN LenVec(arg.at, Len(arg.value))
        ELSE <<def.at + k - 1>>])

\* The history of what is substituted.  A token is torn off when it does not stand as far
\* behind the first of its argument in the source as it does in the argument.
Arrived(past) ==
    [n \in DOMAIN past |->
        [place |-> past[n].place, torn |-> past[1].torn \/ past[n].place # past[1].place + n - 1]]

SubstitutedOrigins(def, args) ==
    FlattenSeq([k \in DOMAIN def.body |->
        IF IsParam(def, def.body[k]) THEN Arrived(args[ParamIndex(def, def.body[k])].past)
        ELSE <<[place |-> def.at + k - 1, torn |-> FALSE]>>])

\* replace_range, splice
Splice(s, i, j, t) == SubSeq(s, 1, i - 1) \o t \o SubSeq(s, j + 1, Len(s))

-----------------------------------------------------------------------------
InitMacros ==
    /\ macros \in MacroSets /\ written \in Lines
    /\ text = written
    /\ offsets = LenVec(1, Len(written))
    /\ origins = [k \in DOMAIN written |-> [place |-> k, torn |-> FALSE]]
    /\ skip = 1
    /\ diags = {}
    /\ done = FALSE

Uses(i) == ~done /\ i = FirstUse /\ i # NoUse /\ IsClosed(i)

\* Mutants: the search goes on behind what was substituted, or from the start of the
\* line.
Expand_Restarts ==
    LET i == FirstUse IN
    /\ Uses(i) /\ Len(text) <= MaxLength
    /\ LET def  == macros[text[i]]
           args == IF def.call THEN Arguments(i) ELSE <<>>
       IN  /\ Accepts(def, i)
           /\ text' = Splice(text, i, UseEnd(i), Substituted(def, args))
           /\ offsets' = Splice(offsets, i, UseEnd(i), SubstitutedOffsets(def, args))
           /\ origins' = Splice(origins, i, UseEnd(i), SubstitutedOrigins(def, args))
    /\ skip' = 1
    /\ UNCHANGED <<macros, written, diags, done>>

Expand_SkipsBody ==
    LET i == FirstUse IN
    /\ Uses(i) /\ Len(text) <= MaxLength
    /\ LET def  == macros[text[i]]
           args == IF def.call THEN Arguments(i) ELSE <<>>
       IN  /\ Accepts(def, i)
           /\ text' = Splice(text, i, UseEnd(i), Substituted(def, args))
           /\ offsets' = Splice(offsets, i, UseEnd(i), SubstitutedOffsets(def, args))
           /\ origins' = Splice(origins, i, UseEnd(i), SubstitutedOrigins(def, args))
           /\ skip' = i + Len(Substituted(def, args))
    /\ UNCHANGED <<macros, written, diags, done>>

\* "Advance to the start so we expand macros inside a macro"
Expand ==
    LET i == FirstUse IN
    /\ Uses(i) /\ Len(text) <= MaxLength
    /\ LET def  == macros[text[i]]
           args == IF def.call THEN Arguments(i) ELSE <<>>
       IN  /\ Accepts(def, i)
           /\ text' = Splice(text, i, UseEnd(i), Substituted(def, args))
           /\ offsets' = Splice(offsets, i, UseEnd(i), SubstitutedOffsets(def, args))
           /\ origins' = Splice(origins, i, UseEnd(i), SubstitutedOrigins(def, args))
    /\ skip' = i
    /\ UNCHANGED <<macros, written, diags, done>>

\* Mutant: the rest of the line is left alone.
RefuseCall_Skips ==
    LET i == FirstUse IN
    /\ Uses(i) /\ ~Accepts(macros[text[i]], i)
    /\ diags' = diags \cup {[name |-> text[i], first |-> i, last |-> UseEnd(i), at |-> offsets[i]]}
    /\ skip' = Len(text) + 1
    /\ UNCHANGED <<macros, written, text, offsets, origins, done>>

\* A wrong number of arguments: reported, and left as it is.
RefuseCall ==
    LET i == FirstUse IN
    /\ Uses(i) /\ ~Accepts(macros[text[i]], i)
    /\ diags' = diags \cup {[name |-> text[i], first |-> i, last |-> UseEnd(i), at |-> offsets[i]]}
    /\ skip' = UseEnd(i) + 1
    /\ UNCHANGED <<macros, written, text, offsets, origins, done>>

\* No use is left, or the first one's parenthesis is never closed.
Return ==
    /\ ~done
    /\ FirstUse # NoUse => ~IsClosed(FirstUse)
    /\ done' = TRUE
    /\ UNCHANGED <<macros, written, text, offsets, origins, skip, diags>>

NextMacros == Expand \/ RefuseCall \/ Return

SpecMacros == InitMacros /\ [][NextMacros]_macroVars

-----------------------------------------------------------------------------
\* The token at a place of the source.
TokenAt(place) ==
    IF place \in DOMAIN written THEN written[place]
    ELSE LET m == CHOOSE m \in DOMAIN macros : place - macros[m].at + 1 \in DOMAIN macros[m].body
         IN  macros[m].body[place - macros[m].at + 1]

(* There is a place for every token of the text.                           *)
TypeOKMacros ==
    /\ Len(offsets) = Len(text) /\ offsets \in [DOMAIN text -> Nat]
    /\ skip \in 1..(Len(text) + 1)
    /\ \A d \in diags : d.last < skip
    /\ done \in BOOLEAN

(* The types; and each token is shown at the place of the source it comes  *)
(* from, through every substitution: two vectors spliced with the same     *)
(* range.  Not so a token torn off the first of its argument, as y is when *)
(* a body hands F(x + y) on: it is shown as if the argument stood there in *)
(* one piece.                                                              *)
OffsetsFollow ==
    TypeOKMacros /\ \A i \in DOMAIN text :
        /\ TokenAt(origins[i].place) = text[i]
        /\ origins[i].torn \/ offsets[i] = origins[i].place

(* What is left of a macro without parameters when the loop ends is inside *)
(* a call that was reported, or behind one that is never closed.           *)
NothingLeftUnexpanded ==
    \A i \in DOMAIN text :
        (text[i] \in DOMAIN macros /\ ~macros[text[i]].call) =>
            \/ \E d \in diags : i \in d.first..d.last
            \/ \E j \in 1..(i - 1) : IsUse(j) /\ ~IsClosed(j)

(* Text the search has passed is settled.                                  *)
PassedIsSettled ==
    [][skip' >= skip /\ SubSeq(text', 1, skip - 1) = SubSeq(text, 1, skip - 1)]_macroVars
=============================================================================
