------------------------- MODULE CodeSectionProofs -------------------------
(***************************************************************************)
(* Proofs about CodeSection, for any lines, any address space and sources  *)
(* of any length.  First what a line does, in four shapes (ExecShape), and *)
(* what it leaves alone (Growth, StableStep); then IInv, a lemma for each  *)
(* of its parts; the properties follow from it.                            *)
(***************************************************************************)
EXTENDS CodeSection, SequenceTheorems, TLAPS

Labels == [LabelNames -> {NoLabel} \cup [at : 1..MaxLines, address : 0..MaxAddr]]

Codes ==
    [output : Seq(Emitted), multi : {NoAddress} \cup 0..MaxAddr, ended : 0..MaxLines, labels : Labels]

Entry(a, width, kind, line) == [address |-> a, width |-> width, kind |-> kind, at |-> line]

-----------------------------------------------------------------------------
(* What one item does, at an address a.                                    *)

\* Diagnostics of the item itself, at its line.
ItemErrors(diags, line) == \A d \in diags : d.at = line /\ d.kind # "NoOriginCode"

\* Four ways: an error, a label, an item beyond the last address, an item.
Refused(c, a, line, r) == r.code = c /\ r.next = a /\ \E d \in r.diags : d.at = line

Named(c, a, line, r) ==
    /\ r.next = a
    /\ \E n \in LabelNames :
           /\ c.labels[n] = NoLabel
           /\ r.code = [c EXCEPT !.labels[n] = [at |-> line, address |-> a]]

Parsed(c, a, line, r) ==
    \/ Refused(c, a, line, r)
    \/ Named(c, a, line, r)
    \/ /\ r.code = c /\ r.next = NoAddress
       /\ \E d \in r.diags : d.kind = "CodeOverflow" /\ d.at = line
    \/ \E w \in Nat, k \in {"data", "string", "asm"} :
           /\ a + w <= MaxAddr + 1
           /\ r.code = [c EXCEPT !.output = Append(@, Entry(a, w, k, line))]
           /\ r.next = IF a + w <= MaxAddr THEN a + w ELSE NoAddress

LEMMA LabelCases ==
    ASSUME NEW c \in Codes, NEW a \in 0..MaxAddr, NEW name \in LabelNames \cup {BadLabel}, NEW line \in Nat,
           NEW r, r = DefineLabel(c, a, name, line)
    PROVE  ItemErrors(r.diags, line) /\ Parsed(c, a, line, r)
<1>1. CASE name = BadLabel
    <2>1. r = [code |-> c, next |-> a, diags |-> Complain("InvalidLabel", line)]
        BY <1>1 DEF DefineLabel
    <2>2. r.code = c /\ r.next = a /\ r.diags = {[kind |-> "InvalidLabel", at |-> line]}
        BY <2>1 DEF Complain
    <2>. QED
        BY <2>2 DEF Refused, Parsed, ItemErrors
<1>2. CASE name # BadLabel /\ c.labels[name] # NoLabel
    <2>1. r = [code |-> c, next |-> a,
               diags |-> {[kind |-> "DuplicateLabels", at |-> line, original |-> c.labels[name].at]}]
        BY <1>2 DEF DefineLabel
    <2>2. /\ r.code = c /\ r.next = a
          /\ r.diags = {[kind |-> "DuplicateLabels", at |-> line, original |-> c.labels[name].at]}
        BY <2>1
    <2>. QED
        BY <2>2 DEF Refused, Parsed, ItemErrors
<1>3. CASE name # BadLabel /\ c.labels[name] = NoLabel
    <2>1. r = [code |-> [c EXCEPT !.labels[name] = [at |-> line, address |-> a]], next |-> a, diags |-> {}]
        BY <1>3 DEF DefineLabel
    <2>2. r.code = [c EXCEPT !.labels[name] = [at |-> line, address |-> a]] /\ r.next = a /\ r.diags = {}
        BY <2>1
    <2>. QED
        BY <1>3, <2>2 DEF ItemErrors, Named, Parsed
<1>. QED
    BY <1>1, <1>2, <1>3

LEMMA EmitCases ==
    ASSUME NEW c \in Codes, NEW a \in 0..MaxAddr, NEW item \in Items(Nat), NEW line \in Nat,
           item.kind \in {"data", "string", "asm"},
           NEW r, r = EmitItem(c, a, item, line)
    PROVE  ItemErrors(r.diags, line) /\ Parsed(c, a, line, r)
<1>. USE MaxAddrIsNat
<1> DEFINE w == ValueWidth(item)
           literal == IF item.valid THEN {} ELSE Complain("InvalidLiteral", line)
<1>1. item.width \in Nat
    BY DEF Items, AsmWidth
<1>2. w \in Nat
    BY <1>1 DEF ValueWidth
<1>3. ItemErrors(literal, line)
    BY DEF Complain, ItemErrors
<1>4. CASE w > RemainingBytes(a)
    <2>1. r = [code |-> c, next |-> NoAddress, diags |-> literal \cup Complain("CodeOverflow", line)]
        BY <1>4 DEF EmitItem
    <2>2. [kind |-> "CodeOverflow", at |-> line] \in r.diags
        BY <2>1 DEF Complain
    <2>3. ItemErrors(r.diags, line)
        BY <1>3, <2>1 DEF Complain, ItemErrors
    <2>. QED
        BY <2>1, <2>2, <2>3 DEF Parsed
<1>5. CASE ~(w > RemainingBytes(a))
    <2>1. r = [code |-> [c EXCEPT !.output = Append(@, Entry(a, w, item.kind, line))],
               next |-> Increment(a, w), diags |-> literal]
        BY <1>5 DEF EmitItem, Entry
    <2>2. a + w <= MaxAddr + 1
        BY <1>2, <1>5 DEF RemainingBytes
    <2>3. Increment(a, w) = IF a + w <= MaxAddr THEN a + w ELSE NoAddress
        BY DEF Increment, NewAddress
    <2>4. /\ r.code = [c EXCEPT !.output = Append(@, Entry(a, w, item.kind, line))]
          /\ r.next = IF a + w <= MaxAddr THEN a + w ELSE NoAddress
          /\ ItemErrors(r.diags, line)
        BY <1>3, <2>1, <2>3
    <2>. HIDE DEF w, literal
    <2>. QED
        BY <1>2, <2>2, <2>4 DEF Parsed
<1>. QED
    BY <1>4, <1>5

LEMMA ParseCodeCases ==
    ASSUME NEW c \in Codes, NEW a \in 0..MaxAddr, NEW item \in Items(Nat), NEW line \in Nat,
           NEW r, r = ParseCode(c, a, item, line)
    PROVE  ItemErrors(r.diags, line) /\ Parsed(c, a, line, r)
<1>1. CASE item.kind = "label"
    <2>1. r = DefineLabel(c, a, item.name, line)
        BY <1>1 DEF ParseCode
    <2>2. item.name \in LabelNames \cup {BadLabel}
        BY <1>1 DEF Items
    <2>. QED
        BY <2>1, <2>2, LabelCases
<1>2. CASE item.kind = "incomplete"
    <2>1. r = [code |-> c, next |-> a, diags |-> Complain("MissingDataValue", line)]
        BY <1>2 DEF ParseCode
    <2>2. r.code = c /\ r.next = a /\ r.diags = {[kind |-> "MissingDataValue", at |-> line]}
        BY <2>1 DEF Complain
    <2>. QED
        BY <2>2 DEF Refused, Parsed, ItemErrors
<1>3. CASE item.kind = "unknown"
    <2>1. r = [code |-> c, next |-> a, diags |-> Complain("UnknownDataDirective", line)]
        BY <1>3 DEF ParseCode
    <2>2. r.code = c /\ r.next = a /\ r.diags = {[kind |-> "UnknownDataDirective", at |-> line]}
        BY <2>1 DEF Complain
    <2>. QED
        BY <2>2 DEF Refused, Parsed, ItemErrors
<1>4. CASE item.kind \in {"data", "string", "asm"}
    <2>1. r = EmitItem(c, a, item, line)
        BY <1>4 DEF ParseCode
    <2>. QED
        BY <1>4, <2>1, EmitCases
<1>5. item.kind \in {"label", "incomplete", "unknown", "data", "string", "asm"}
    BY DEF Items
<1>. QED
    BY <1>1, <1>2, <1>3, <1>4, <1>5

LEMMA ParsedType ==
    ASSUME NEW c \in Codes, NEW a \in 0..MaxAddr, NEW line \in 1..MaxLines, NEW r, Parsed(c, a, line, r)
    PROVE  /\ r.code \in Codes
           /\ r.code.multi = c.multi /\ r.code.ended = c.ended
           /\ r.next \in {NoAddress} \cup 0..MaxAddr
<1>. USE MaxAddrIsNat, MaxLinesIsNat
<1>1. CASE Named(c, a, line, r)
    <2>1. PICK n \in LabelNames : r.code = [c EXCEPT !.labels[n] = [at |-> line, address |-> a]]
        BY <1>1 DEF Named
    <2>2. [c.labels EXCEPT ![n] = [at |-> line, address |-> a]] \in Labels
        BY DEF Codes, Labels
    <2>3. r.code = [c EXCEPT !.labels = [c.labels EXCEPT ![n] = [at |-> line, address |-> a]]]
        BY <2>1
    <2>4. r.next = a
        BY <1>1 DEF Named
    <2>. QED
        BY <2>2, <2>3, <2>4 DEF Codes
<1>2. CASE Refused(c, a, line, r) \/ (r.code = c /\ r.next = NoAddress)
    BY <1>2 DEF Refused
<1>3. ASSUME NEW w \in Nat, NEW k \in {"data", "string", "asm"}, a + w <= MaxAddr + 1,
             r.code = [c EXCEPT !.output = Append(@, Entry(a, w, k, line))],
             r.next = IF a + w <= MaxAddr THEN a + w ELSE NoAddress
      PROVE  /\ r.code \in Codes
             /\ r.code.multi = c.multi /\ r.code.ended = c.ended
             /\ r.next \in {NoAddress} \cup 0..MaxAddr
    <2>1. Entry(a, w, k, line) \in Emitted
        BY DEF Entry, Emitted
    <2>2. Append(c.output, Entry(a, w, k, line)) \in Seq(Emitted)
        BY <2>1 DEF Codes
    <2>3. r.next \in {NoAddress} \cup 0..MaxAddr
        BY <1>3
    <2>. QED
        BY <1>3, <2>2, <2>3 DEF Codes
<1>. QED
    BY <1>1, <1>2, <1>3 DEF Parsed

-----------------------------------------------------------------------------
(* What one line does: the four shapes of a step.  `new` holds the         *)
(* diagnostics of the line l.                                              *)

Types ==
    /\ code \in Codes
    /\ source \in Seq(Lines)
    /\ Len(source) <= MaxLines

Complained(new) == \E d \in new : d.at = Here

Kept == code'.output = code.output /\ code'.labels = code.labels

LabelledAt(a) ==
    /\ code'.output = code.output
    /\ \E n \in LabelNames :
          /\ code.labels[n] = NoLabel
          /\ code'.labels = [code.labels EXCEPT ![n] = [at |-> Here, address |-> a]]

EmittedTo(a, w) ==
    /\ a + w <= MaxAddr + 1
    /\ code'.labels = code.labels
    /\ \E k \in {"data", "string", "asm"} : code'.output = Append(code.output, Entry(a, w, k, Here))

Cut == code'.ended = IF code.multi # NoAddress THEN Here ELSE code.ended

Stays == code'.multi = code.multi /\ code'.ended = code.ended

Ends == code'.multi = NoAddress /\ code'.ended = Here

OriginStep(l, new) ==
    /\ l.form = "origin" /\ l.addr \in 0..MaxAddr
    /\ new = {}
    /\ Kept /\ Cut /\ code'.multi = l.addr

CutStep(l, new) ==
    /\ l.form = "origin" \/ l.form = "at"
    /\ ItemErrors(new, Here)
    /\ l.form = "origin" => Complained(new)
    /\ Cut /\ code'.multi = NoAddress
    /\ \/ Kept /\ Complained(new)
       \/ \E a \in 0..MaxAddr : LabelledAt(a)
       \/ \E a \in 0..MaxAddr, w \in Nat : EmittedTo(a, w)

PlainStep(l, new) ==
    /\ l.form = "plain" /\ code.multi # NoAddress
    /\ ItemErrors(new, Here)
    /\ \/ Kept /\ Complained(new) /\ Stays
       \/ LabelledAt(code.multi) /\ Stays
       \/ Kept /\ (\E d \in new : d.kind = "CodeOverflow" /\ d.at = Here) /\ Ends
       \/ \E w \in Nat :
             /\ EmittedTo(code.multi, w)
             /\ IF code.multi + w <= MaxAddr
                  THEN code'.multi = code.multi + w /\ code'.ended = code.ended ELSE Ends

BareStep(l, new) ==
    /\ l.form = "plain" /\ code.multi = NoAddress
    /\ new = {[kind |-> "NoOriginCode", at |-> Here, cleared |-> code.ended]}
    /\ Kept /\ Stays

Executed(l, new) ==
    /\ source' = Append(source, l)
    /\ reported' = reported \cup new
    /\ Types'
    /\ OriginStep(l, new) \/ CutStep(l, new) \/ PlainStep(l, new) \/ BareStep(l, new)

LEMMA LineShape ==
    ASSUME NEW l \in Lines
    PROVE  /\ l.form \in {"origin", "at", "plain"}
           /\ l.form \in {"origin", "at"} => l.addr \in Nat \cup {NoAddress}
           /\ l.form \in {"at", "plain"} => l.item \in Items(Nat)
<1>1. l \in CodeLine(Nat, Nat)
    BY LinesAreCode
<1>. HIDE DEF Items
<1>. QED
    BY <1>1 DEF CodeLine

LEMMA BadAddresses ==
    ASSUME NEW a \in Nat \cup {NoAddress}, NEW line \in Nat, NEW bad, bad = BadAddress(a, line)
    PROVE  /\ bad = {} => a \in 0..MaxAddr
           /\ bad # {} => ItemErrors(bad, line) /\ \E d \in bad : d.at = line
<1>. USE MaxAddrIsNat
<1>1. CASE a = NoAddress
    <2>1. bad = {[kind |-> "InvalidCodeAddress", at |-> line]}
        BY <1>1 DEF BadAddress, Complain
    <2>2. [kind |-> "InvalidCodeAddress", at |-> line] \in bad
        BY <2>1
    <2>3. bad # {}
        BY <2>2
    <2>4. ItemErrors(bad, line)
        BY <2>1 DEF ItemErrors
    <2>5. \E d \in bad : d.at = line
        BY <2>2
    <2>. QED
        BY <2>3, <2>4, <2>5
<1>2. CASE a # NoAddress /\ NewAddress(a) = NoAddress
    <2>1. bad = {[kind |-> "UnsupportedCodeAddress", at |-> line]}
        BY <1>2 DEF BadAddress, Complain
    <2>2. [kind |-> "UnsupportedCodeAddress", at |-> line] \in bad
        BY <2>1
    <2>3. bad # {}
        BY <2>2
    <2>4. ItemErrors(bad, line)
        BY <2>1 DEF ItemErrors
    <2>5. \E d \in bad : d.at = line
        BY <2>2
    <2>. QED
        BY <2>3, <2>4, <2>5
<1>3. CASE a # NoAddress /\ NewAddress(a) # NoAddress
    <2>1. bad = {}
        BY <1>3 DEF BadAddress
    <2>2. a <= MaxAddr
        BY <1>3 DEF NewAddress
    <2>. QED
        BY <1>3, <2>1, <2>2
<1>. QED
    BY <1>1, <1>2, <1>3

LEMMA CutShape ==
    ASSUME NEW c \in Codes, NEW line \in 1..MaxLines, NEW cut, cut = EndMulti(c, line)
    PROVE  /\ cut \in Codes
           /\ cut.output = c.output /\ cut.labels = c.labels /\ cut.multi = NoAddress
           /\ cut.ended = IF c.multi # NoAddress THEN line ELSE c.ended
<1>. USE MaxLinesIsNat
<1>1. cut = [c EXCEPT !.ended = IF c.multi # NoAddress THEN line ELSE c.ended, !.multi = NoAddress]
    BY DEF EndMulti
<1>2. (IF c.multi # NoAddress THEN line ELSE c.ended) \in 0..MaxLines
    BY DEF Codes
<1>. QED
    BY <1>1, <1>2 DEF Codes

(* What an item does to the code collected, field by field.                *)
LEMMA EffectOf ==
    ASSUME NEW c \in Codes, c.output = code.output, c.labels = code.labels,
           NEW a \in 0..MaxAddr, NEW r, Parsed(c, a, Here, r),
           code'.output = r.code.output, code'.labels = r.code.labels, c.labels \in Labels
    PROVE  \/ Kept /\ r.next = a /\ \E d \in r.diags : d.at = Here
           \/ LabelledAt(a) /\ r.next = a
           \/ Kept /\ r.next = NoAddress /\ \E d \in r.diags : d.kind = "CodeOverflow" /\ d.at = Here
           \/ \E w \in Nat : /\ EmittedTo(a, w)
                             /\ r.next = IF a + w <= MaxAddr THEN a + w ELSE NoAddress
<1>1. CASE Refused(c, a, Here, r)
    BY <1>1 DEF Refused, Kept
<1>2. CASE Named(c, a, Here, r)
    <2>1. PICK n \in LabelNames :
              /\ c.labels[n] = NoLabel
              /\ r.code = [c EXCEPT !.labels[n] = [at |-> Here, address |-> a]]
        BY <1>2 DEF Named
    <2>2. r.code = [c EXCEPT !.labels = [c.labels EXCEPT ![n] = [at |-> Here, address |-> a]]]
        BY <2>1
    <2>3. r.code.labels = [c.labels EXCEPT ![n] = [at |-> Here, address |-> a]] /\ r.code.output = c.output
        BY <2>2 DEF Codes
    <2>4. r.next = a
        BY <1>2 DEF Named
    <2>. QED
        BY <2>1, <2>3, <2>4 DEF LabelledAt
<1>3. CASE /\ r.code = c /\ r.next = NoAddress
           /\ \E d \in r.diags : d.kind = "CodeOverflow" /\ d.at = Here
    BY <1>3 DEF Kept
<1>4. ASSUME NEW w \in Nat, NEW k \in {"data", "string", "asm"}, a + w <= MaxAddr + 1,
             r.code = [c EXCEPT !.output = Append(@, Entry(a, w, k, Here))],
             r.next = IF a + w <= MaxAddr THEN a + w ELSE NoAddress
      PROVE  EmittedTo(a, w)
    <2>1. r.code.output = Append(c.output, Entry(a, w, k, Here)) /\ r.code.labels = c.labels
        BY <1>4 DEF Codes
    <2>. QED
        BY <1>4, <2>1 DEF EmittedTo
<1>. QED
    BY <1>1, <1>2, <1>3, <1>4 DEF Parsed

LEMMA AssignmentShape ==
    ASSUME code \in Codes, Here \in 1..MaxLines, NEW l \in Lines, l.form \in {"origin", "at"},
           NEW x, x = ExecAssignment(code, l, Here), code' = x.code
    PROVE  code' \in Codes /\ (OriginStep(l, x.diags) \/ CutStep(l, x.diags))
<1>. USE MaxAddrIsNat, MaxLinesIsNat
<1> DEFINE cut == EndMulti(code, Here)
           bad == BadAddress(l.addr, Here)
<1>1. /\ cut \in Codes
      /\ cut.output = code.output /\ cut.labels = code.labels /\ cut.multi = NoAddress
      /\ cut.ended = IF code.multi # NoAddress THEN Here ELSE code.ended
    BY CutShape
<1>2. l.addr \in Nat \cup {NoAddress}
    BY LineShape
<1>3. /\ bad = {} => l.addr \in 0..MaxAddr
      /\ bad # {} => ItemErrors(bad, Here) /\ \E d \in bad : d.at = Here
    <2>1. Here \in Nat
        OBVIOUS
    <2>. QED
        BY <1>2, <2>1, BadAddresses
<1>4. CASE bad # {}
    <2>1. x.code = cut /\ x.diags = bad
        BY <1>4 DEF ExecAssignment
    <2>2. Kept /\ Cut /\ code'.multi = NoAddress
        BY <1>1, <2>1 DEF Kept, Cut
    <2>. QED
        BY <1>1, <1>3, <1>4, <2>1, <2>2 DEF CutStep, Complained
<1>5. CASE bad = {} /\ l.form = "origin"
    <2>1. x.code = [cut EXCEPT !.multi = l.addr] /\ x.diags = {}
        BY <1>5 DEF ExecAssignment
    <2>. HIDE DEF cut
    <2>2. /\ code' \in Codes
          /\ code'.output = cut.output /\ code'.labels = cut.labels /\ code'.ended = cut.ended
          /\ code'.multi = l.addr
        BY <1>1, <1>3, <1>5, <2>1 DEF Codes
    <2>. QED
        BY <1>1, <1>3, <1>5, <2>1, <2>2 DEF OriginStep, Kept, Cut
<1>6. CASE bad = {} /\ l.form = "at"
    <2> DEFINE r == ParseCode(cut, l.addr, l.item, Here)
    <2>1. x.code = r.code /\ x.diags = r.diags
        BY <1>6 DEF ExecAssignment
    <2>2. l.item \in Items(Nat)
        BY <1>6, LineShape
    <2>3. l.addr \in 0..MaxAddr
        BY <1>3, <1>6
    <2>4. ItemErrors(r.diags, Here) /\ Parsed(cut, l.addr, Here, r)
        BY <1>1, <2>2, <2>3, ParseCodeCases
    <2>. HIDE DEF r, cut
    <2>5. r.code \in Codes /\ r.code.multi = cut.multi /\ r.code.ended = cut.ended
        BY <1>1, <2>3, <2>4, ParsedType
    <2>6. \/ Kept /\ \E d \in r.diags : d.at = Here
          \/ LabelledAt(l.addr)
          \/ \E w \in Nat : EmittedTo(l.addr, w)
        <3>1. cut.labels \in Labels
            BY <1>1 DEF Codes
        <3>. QED
            BY <1>1, <2>1, <2>3, <2>4, <3>1, EffectOf
    <2>7. Cut /\ code'.multi = NoAddress
        BY <1>1, <2>1, <2>5 DEF Cut
    <2>. QED
        BY <1>6, <2>1, <2>3, <2>4, <2>5, <2>6, <2>7 DEF CutStep, Complained
<1>. QED
    BY <1>4, <1>5, <1>6

LEMMA UnderOriginShape ==
    ASSUME code \in Codes, Here \in 1..MaxLines, NEW l \in Lines, l.form = "plain", code.multi # NoAddress,
           NEW x, x = ExecUnderOrigin(code, l, Here), code' = x.code
    PROVE  code' \in Codes /\ PlainStep(l, x.diags)
<1>. USE MaxAddrIsNat, MaxLinesIsNat
<1> DEFINE a == code.multi
           r == ParseCode(code, a, l.item, Here)
<1>1. l.item \in Items(Nat) /\ a \in 0..MaxAddr
    BY LineShape DEF Codes
<1>2. ItemErrors(r.diags, Here) /\ Parsed(code, a, Here, r)
    BY <1>1, ParseCodeCases
<1>3. /\ x.code = [r.code EXCEPT !.multi = r.next,
                                !.ended = IF r.next = NoAddress THEN Here ELSE r.code.ended]
      /\ x.diags = r.diags
    BY DEF ExecUnderOrigin
<1>. HIDE DEF r
<1>4. r.code \in Codes /\ r.code.ended = code.ended /\ r.next \in {NoAddress} \cup 0..MaxAddr
    BY <1>1, <1>2, ParsedType
<1>5. /\ code' \in Codes
      /\ code'.output = r.code.output /\ code'.labels = r.code.labels
      /\ code'.multi = r.next
      /\ code'.ended = IF r.next = NoAddress THEN Here ELSE code.ended
    <2>1. (IF r.next = NoAddress THEN Here ELSE r.code.ended) \in 0..MaxLines
        BY <1>4 DEF Codes
    <2>2. code' = [r.code EXCEPT !.multi = r.next, !.ended = IF r.next = NoAddress THEN Here ELSE r.code.ended]
        BY <1>3
    <2>. QED
        BY <1>4, <2>1, <2>2 DEF Codes
<1>6. \/ Kept /\ r.next = a /\ \E d \in r.diags : d.at = Here
      \/ LabelledAt(a) /\ r.next = a
      \/ Kept /\ r.next = NoAddress /\ \E d \in r.diags : d.kind = "CodeOverflow" /\ d.at = Here
      \/ \E w \in Nat : /\ EmittedTo(a, w)
                        /\ r.next = IF a + w <= MaxAddr THEN a + w ELSE NoAddress
    <2>1. code.labels \in Labels
        BY DEF Codes
    <2>. QED
        BY <1>1, <1>2, <1>5, <2>1, EffectOf
<1>7. r.next = a => Stays
    BY <1>5 DEF Stays
<1>8. r.next = NoAddress => Ends
    BY <1>5 DEF Ends
<1>9. ASSUME NEW w \in Nat, r.next = IF a + w <= MaxAddr THEN a + w ELSE NoAddress
      PROVE  IF a + w <= MaxAddr THEN code'.multi = a + w /\ code'.ended = code.ended ELSE Ends
    BY <1>1, <1>5, <1>9 DEF Ends, NoAddress
<1>. QED
    BY <1>2, <1>3, <1>5, <1>6, <1>7, <1>8, <1>9 DEF PlainStep, Complained

LEMMA ExecShape ==
    ASSUME Types, Next
    PROVE  \E l \in Lines : \E new : Executed(l, new)
<1>. USE MaxLinesIsNat
<1>1. PICK l \in Lines : Here <= MaxLines /\ Exec(l)
    BY DEF Next, Origin, AddressedItem, PlainItem, ItemWithoutOrigin, Of
<1> DEFINE x == ExecCode(code, l, Here)
<1>2. code' = x.code /\ source' = Append(source, l) /\ reported' = reported \cup x.diags
    BY <1>1 DEF Exec
<1>3. Here \in 1..MaxLines
    BY <1>1 DEF Here, Types
<1>4. source' \in Seq(Lines) /\ Len(source') <= MaxLines
    BY <1>1, <1>2 DEF Types, Here
<1>5. CASE l.form \in {"origin", "at"}
    <2>1. x = ExecAssignment(code, l, Here)
        BY <1>5 DEF ExecCode
    <2>. HIDE DEF x
    <2>2. code' \in Codes /\ (OriginStep(l, x.diags) \/ CutStep(l, x.diags))
        BY <1>2, <1>3, <1>5, <2>1, AssignmentShape DEF Types
    <2>. QED
        BY <1>2, <1>4, <2>2 DEF Executed, Types
<1>6. CASE l.form = "plain" /\ code.multi # NoAddress
    <2>1. x = ExecUnderOrigin(code, l, Here)
        BY <1>6 DEF ExecCode
    <2>. HIDE DEF x
    <2>2. code' \in Codes /\ PlainStep(l, x.diags)
        BY <1>2, <1>3, <1>6, <2>1, UnderOriginShape DEF Types
    <2>. QED
        BY <1>2, <1>4, <2>2 DEF Executed, Types
<1>7. CASE l.form = "plain" /\ code.multi = NoAddress
    <2>1. /\ x.code = code
          /\ x.diags = {[kind |-> "NoOriginCode", at |-> Here, cleared |-> code.ended]}
        BY <1>7 DEF ExecCode
    <2>. HIDE DEF x
    <2>2. BareStep(l, x.diags)
        BY <1>2, <1>7, <2>1 DEF BareStep, Kept, Stays
    <2>. QED
        BY <1>2, <1>4, <2>1, <2>2 DEF Executed, Types
<1>. QED
    BY <1>5, <1>6, <1>7, LineShape

-----------------------------------------------------------------------------
(* What a step leaves alone: the lines, items, labels and diagnostics      *)
(* there already.                                                          *)

LEMMA SourceGrows ==
    ASSUME Types, NEW l \in Lines, source' = Append(source, l)
    PROVE  /\ Len(source) \in Nat /\ Len(source') = Here
           /\ source'[Here] = l
           /\ \A k \in 1..Len(source) : source'[k] = source[k]
  BY DEF Types, Here

LEMMA OutputGrows ==
    ASSUME Types, NEW a \in 0..MaxAddr, NEW w \in Nat, EmittedTo(a, w)
    PROVE  /\ Len(code'.output) = Len(code.output) + 1
           /\ \A i \in 1..Len(code.output) : code'.output[i] = code.output[i]
           /\ code'.output[Len(code.output) + 1].at = Here
           /\ code'.output[Len(code.output) + 1].address = a
           /\ code'.output[Len(code.output) + 1].width = w
<1>. USE MaxAddrIsNat
<1>1. PICK k \in {"data", "string", "asm"} : code'.output = Append(code.output, Entry(a, w, k, Here))
    BY DEF EmittedTo
<1>2. code.output \in Seq(Emitted)
    BY DEF Types, Codes
<1> DEFINE e == Entry(a, w, k, Here)
<1>3. e.at = Here /\ e.address = a /\ e.width = w
    BY DEF Entry
<1>. HIDE DEF e
<1>4. /\ Len(code'.output) = Len(code.output) + 1
      /\ code'.output[Len(code.output) + 1] = e
      /\ \A i \in 1..Len(code.output) : code'.output[i] = code.output[i]
    <2>1. code'.output = Append(code.output, e)
        BY <1>1 DEF e
    <2>. QED
        BY <1>2, <2>1
<1>. QED
    BY <1>3, <1>4

\* The two things a step may add, an item or a label.
SameOutput == code'.output = code.output

OneMore ==
    /\ code'.labels = code.labels
    /\ Len(code'.output) = Len(code.output) + 1
    /\ \A i \in 1..Len(code.output) : code'.output[i] = code.output[i]
    /\ code'.output[Len(code.output) + 1].at = Here
    /\ code'.output[Len(code.output) + 1].address + code'.output[Len(code.output) + 1].width <= MaxAddr + 1

LabelsGrow == \A n \in LabelNames :
    \/ code'.labels[n] = code.labels[n]
    \/ SameOutput /\ code.labels[n] = NoLabel /\ code'.labels[n].at = Here

LEMMA Growth ==
    ASSUME Types, NEW l \in Lines, NEW new, Executed(l, new)
    PROVE  /\ \A d \in new : d.at = Here
           /\ SameOutput \/ OneMore
           /\ LabelsGrow
<1>. USE MaxAddrIsNat
<1>1. \A d \in new : d.at = Here
    BY DEF Executed, OriginStep, CutStep, PlainStep, BareStep, ItemErrors
<1>2. ASSUME Kept PROVE SameOutput /\ LabelsGrow
    BY <1>2 DEF Kept, SameOutput, LabelsGrow
<1>3. ASSUME NEW a \in 0..MaxAddr, LabelledAt(a) PROVE SameOutput /\ LabelsGrow
    <2>1. PICK n \in LabelNames :
              /\ code.labels[n] = NoLabel
              /\ code'.labels = [code.labels EXCEPT ![n] = [at |-> Here, address |-> a]]
        BY <1>3 DEF LabelledAt
    <2>2. code.labels \in Labels
        BY DEF Types, Codes
    <2>3. SameOutput
        BY <1>3 DEF LabelledAt, SameOutput
    <2>4. ASSUME NEW m \in LabelNames
          PROVE  code'.labels[m] = code.labels[m] \/ (code.labels[m] = NoLabel /\ code'.labels[m].at = Here)
        BY <2>1, <2>2 DEF Labels
    <2>. QED
        BY <2>3, <2>4 DEF LabelsGrow
<1>4. ASSUME NEW a \in 0..MaxAddr, NEW w \in Nat, EmittedTo(a, w) PROVE OneMore /\ LabelsGrow
    <2>1. code'.labels = code.labels /\ a + w <= MaxAddr + 1
        BY <1>4 DEF EmittedTo
    <2>. QED
        BY <1>4, <2>1, OutputGrows DEF OneMore, LabelsGrow
<1>5. code.multi # NoAddress => code.multi \in 0..MaxAddr
    BY DEF Types, Codes
<1>6. CASE OriginStep(l, new) \/ BareStep(l, new)
    BY <1>1, <1>2, <1>6 DEF OriginStep, BareStep
<1>7. CASE CutStep(l, new)
    BY <1>1, <1>2, <1>3, <1>4, <1>7 DEF CutStep
<1>8. CASE PlainStep(l, new)
    BY <1>1, <1>2, <1>3, <1>4, <1>5, <1>8 DEF PlainStep
<1>. QED
    BY <1>6, <1>7, <1>8 DEF Executed

-----------------------------------------------------------------------------
(* The inductive invariant.                                                *)

\* Nothing speaks of a line that has not been executed, and items follow the lines.
PastLines ==
    /\ \A d \in reported : d.at \in 1..Len(source)
    /\ \A n \in LabelNames : code.labels[n].at \in 0..Len(source)
    /\ \A i \in 1..Len(code.output) : code.output[i].at \in 1..Len(source)
    /\ \A i, j \in 1..Len(code.output) : i < j => code.output[i].at < code.output[j].at

WithinSpace ==
    \A i \in 1..Len(code.output) : code.output[i].address + code.output[i].width <= MaxAddr + 1

LEMMA PastLinesStep ==
    ASSUME Types, PastLines, NEW l \in Lines, NEW new, Executed(l, new)
    PROVE  PastLines'
<1> DEFINE N == Len(source)
           M == Len(code.output)
<1>1. N \in Nat /\ Len(source') = N + 1 /\ Here = N + 1
    BY SourceGrows DEF Executed, Here
<1>2. /\ \A d \in new : d.at = Here
      /\ SameOutput \/ OneMore
      /\ LabelsGrow
    BY Growth
<1>3. M \in Nat
    BY DEF Types, Codes
<1>4. \A d \in reported' : d.at \in 1..Len(source')
    BY <1>1, <1>2 DEF PastLines, Executed
<1>5. \A n \in LabelNames : code'.labels[n].at \in 0..Len(source')
    BY <1>1, <1>2 DEF PastLines, LabelsGrow
<1>6. \A i \in 1..Len(code'.output) : code'.output[i].at \in 1..Len(source')
    <2>1. CASE SameOutput
        BY <1>1, <2>1 DEF SameOutput, PastLines
    <2>2. CASE OneMore
        <3>1. TAKE i \in 1..Len(code'.output)
        <3>2. CASE i = M + 1
            BY <1>1, <2>2, <3>2 DEF OneMore
        <3>3. CASE i # M + 1
            <4>1. i \in 1..M
                BY <1>3, <2>2, <3>3 DEF OneMore
            <4>2. code'.output[i] = code.output[i]
                BY <2>2, <4>1 DEF OneMore
            <4>. QED
                BY <1>1, <4>1, <4>2 DEF PastLines
        <3>. QED
            BY <3>2, <3>3
    <2>. QED
        BY <1>2, <2>1, <2>2
<1>7. \A i, j \in 1..Len(code'.output) : i < j => code'.output[i].at < code'.output[j].at
    <2>1. CASE SameOutput
        BY <2>1 DEF SameOutput, PastLines
    <2>2. CASE OneMore
        <3>1. SUFFICES ASSUME NEW i \in 1..Len(code'.output), NEW j \in 1..Len(code'.output), i < j
                       PROVE  code'.output[i].at < code'.output[j].at
            OBVIOUS
        <3>2. i \in 1..M /\ code'.output[i] = code.output[i] /\ code.output[i].at \in 1..N
            BY <1>3, <2>2, <3>1 DEF OneMore, PastLines
        <3>3. CASE j = M + 1
            BY <1>1, <2>2, <3>2, <3>3 DEF OneMore
        <3>4. CASE j # M + 1
            BY <1>3, <2>2, <3>1, <3>2, <3>4 DEF OneMore, PastLines
        <3>. QED
            BY <3>3, <3>4
    <2>. QED
        BY <1>2, <2>1, <2>2
<1>. QED
    BY <1>4, <1>5, <1>6, <1>7 DEF PastLines

LEMMA WithinSpaceStep ==
    ASSUME Types, WithinSpace, NEW l \in Lines, NEW new, Executed(l, new)
    PROVE  WithinSpace'
<1>1. SameOutput \/ OneMore
    BY Growth
<1>2. Len(code.output) \in Nat
    BY DEF Types, Codes
<1>3. CASE SameOutput
    BY <1>3 DEF SameOutput, WithinSpace
<1>4. CASE OneMore
    <2>1. SUFFICES ASSUME NEW i \in 1..Len(code'.output)
                   PROVE  code'.output[i].address + code'.output[i].width <= MaxAddr + 1
        BY DEF WithinSpace
    <2>2. CASE i = Len(code.output) + 1
        BY <1>4, <2>2 DEF OneMore
    <2>3. CASE i # Len(code.output) + 1
        BY <1>2, <1>4, <2>1, <2>3 DEF OneMore, WithinSpace
    <2>. QED
        BY <2>2, <2>3
<1>. QED
    BY <1>1, <1>3, <1>4

\* What is said of the lines before this one stays true.
Stable ==
    /\ \A k \in 1..Len(source) :
          /\ IsAssignment(k)' <=> IsAssignment(k)
          /\ ErrorAt(k)' <=> ErrorAt(k)
          /\ EmittedAt(k)' <=> EmittedAt(k)
          /\ GoodOrigin(k)' <=> GoodOrigin(k)
          /\ EndsOrigin(k) => EndsOrigin(k)'
    /\ \A j \in Nat, k \in 0..Len(source) : SameRun(j, k)' <=> SameRun(j, k)

LEMMA StableStep ==
    ASSUME Types, PastLines, NEW l \in Lines, NEW new, Executed(l, new)
    PROVE  Stable
<1> DEFINE N == Len(source)
           M == Len(code.output)
<1>1. /\ N \in Nat /\ Len(source') = N + 1 /\ Here = N + 1
      /\ \A k \in 1..N : source'[k] = source[k]
    BY SourceGrows DEF Executed, Here
<1>2. /\ \A d \in new : d.at = Here
      /\ SameOutput \/ OneMore
    BY Growth
<1>3. M \in Nat
    BY DEF Types, Codes
<1>4. \A k \in 1..N : IsAssignment(k)' <=> IsAssignment(k)
    BY <1>1 DEF IsAssignment
<1>5. \A k \in 1..N : ErrorAt(k)' <=> ErrorAt(k)
    BY <1>1, <1>2 DEF ErrorAt, Executed
<1>6. \A k \in 1..N : GoodOrigin(k)' <=> GoodOrigin(k)
    BY <1>1, <1>5 DEF GoodOrigin
<1>7. /\ \A i \in 1..M : i \in 1..Len(code'.output) /\ code'.output[i] = code.output[i]
      /\ \A i \in 1..Len(code'.output) : i \in 1..M \/ code'.output[i].at = Here
    <2>1. CASE SameOutput
        BY <2>1 DEF SameOutput
    <2>2. CASE OneMore
        BY <1>3, <2>2 DEF OneMore
    <2>. QED
        BY <1>2, <2>1, <2>2
<1>8. \A k \in 1..N : EmittedAt(k)' <=> EmittedAt(k)
    <2>1. SUFFICES ASSUME NEW k \in 1..N PROVE EmittedAt(k)' <=> EmittedAt(k)
        OBVIOUS
    <2>2. k # Here
        BY <1>1
    <2>. QED
        BY <1>7, <2>2 DEF EmittedAt
<1>9. \A k \in 1..N : EndsOrigin(k) => EndsOrigin(k)'
    BY <1>4, <1>7 DEF EndsOrigin, Executed
<1>10. \A j \in Nat, k \in 0..N : SameRun(j, k)' <=> SameRun(j, k)
    <2>1. SUFFICES ASSUME NEW j \in Nat, NEW k \in 0..N PROVE SameRun(j, k)' <=> SameRun(j, k)
        OBVIOUS
    <2>2. \A i \in (j + 1)..k : i \in 1..N
        BY <1>1
    <2>. QED
        BY <1>4, <2>2 DEF SameRun
<1>. QED
    BY <1>4, <1>5, <1>6, <1>8, <1>9, <1>10 DEF Stable

\* The next address is where the last item of the run ends.
LastEnds ==
    LET last == code.output[Len(code.output)]
    IN  code.multi # NoAddress /\ Len(code.output) > 0 /\ SameRun(last.at, Len(source)) =>
            code.multi = last.address + last.width

(* A run that has reached the new line: it is a bare item, and the run had *)
(* reached the line before.                                                *)
LEMMA RunLines ==
    ASSUME Types, PastLines, NEW l \in Lines, NEW new, Executed(l, new),
           NEW k \in 1..Len(source), \A i \in (k + 1)..Here : ~IsAssignment(i)'
    PROVE  l.form = "plain" /\ SameRun(k, Len(source))
<1>1. /\ Len(source) \in Nat /\ Here = Len(source) + 1
      /\ source'[Here] = l
    BY SourceGrows DEF Executed, Here
<1>2. PICK h \in Nat : h = Here
    BY <1>1
<1>3. ~IsAssignment(h)'
    BY <1>1, <1>2
<1>4. l.form = "plain"
    BY <1>1, <1>2, <1>3, LineShape DEF IsAssignment
<1>5. ASSUME NEW i \in (k + 1)..Len(source)
      PROVE  ~IsAssignment(i)
    <2>1. i \in 1..Len(source) /\ ~IsAssignment(i)'
        BY <1>1
    <2>. QED
        BY <2>1, StableStep DEF Stable
<1>. QED
    BY <1>4, <1>5 DEF SameRun

(* A run among the lines before was one before the step.                   *)
LEMMA OldRun ==
    ASSUME Types, PastLines, NEW l \in Lines, NEW new, Executed(l, new),
           NEW j \in 1..Len(source), NEW k \in 1..Len(source), \A i \in (j + 1)..k : ~IsAssignment(i)'
    PROVE  SameRun(j, k)
<1>1. Len(source) \in Nat
    BY DEF Types
<1>2. ASSUME NEW i \in (j + 1)..k
      PROVE  ~IsAssignment(i)
    <2>1. i \in 1..Len(source) /\ ~IsAssignment(i)'
        BY <1>1
    <2>. QED
        BY <2>1, StableStep DEF Stable
<1>. QED
    BY <1>2 DEF SameRun

LEMMA LastEndsStep ==
    ASSUME Types, PastLines, LastEnds, NEW l \in Lines, NEW new, Executed(l, new)
    PROVE  LastEnds'
<1>. USE MaxAddrIsNat
<1> DEFINE last == code.output[Len(code.output)]
<1>1. /\ Len(source) \in Nat /\ Len(source') = Here /\ Here = Len(source) + 1
    BY SourceGrows DEF Executed, Here
<1>2. Len(code.output) \in Nat
    BY DEF Types, Codes
<1>3. ASSUME code'.output = code.output, code'.multi = code.multi \/ l.form = "origin"
      PROVE  LastEnds'
    <2>1. SUFFICES ASSUME code'.multi # NoAddress, Len(code.output) > 0,
                          \A i \in (last.at + 1)..Here : ~IsAssignment(i)'
                   PROVE  code'.multi = last.address + last.width
        BY <1>1, <1>3 DEF LastEnds, SameRun
    <2>2. last.at \in 1..Len(source)
        BY <1>2, <2>1 DEF PastLines
    <2>3. l.form = "plain" /\ SameRun(last.at, Len(source))
        BY <2>1, <2>2, RunLines
    <2>. QED
        BY <1>3, <2>1, <2>3 DEF LastEnds
<1>4. ASSUME code'.multi = NoAddress
      PROVE  LastEnds'
    BY <1>4 DEF LastEnds
<1>5. ASSUME NEW w \in Nat, EmittedTo(code.multi, w), code.multi # NoAddress, code'.multi = code.multi + w
      PROVE  LastEnds'
    <2>1. code.multi \in 0..MaxAddr
        BY <1>5 DEF Types, Codes
    <2>2. /\ Len(code'.output) = Len(code.output) + 1
          /\ code'.output[Len(code.output) + 1].address = code.multi
          /\ code'.output[Len(code.output) + 1].width = w
        BY <1>5, <2>1, OutputGrows
    <2>. QED
        BY <1>5, <2>2 DEF LastEnds
<1>6. CASE PlainStep(l, new)
    BY <1>3, <1>4, <1>5, <1>6 DEF PlainStep, Kept, Stays, Ends, LabelledAt
<1>7. CASE OriginStep(l, new)
    BY <1>3, <1>7 DEF OriginStep, Kept
<1>8. CASE CutStep(l, new) \/ BareStep(l, new)
    BY <1>4, <1>8 DEF CutStep, BareStep, Stays
<1>. QED
    BY <1>6, <1>7, <1>8 DEF Executed

LEMMA ContiguousStep ==
    ASSUME Types, PastLines, LastEnds, RunsAreContiguous, NEW l \in Lines, NEW new, Executed(l, new)
    PROVE  RunsAreContiguous'
<1>. USE MaxAddrIsNat
<1> DEFINE M == Len(code.output)
<1>1. /\ Len(source) \in Nat /\ Here = Len(source) + 1
    BY SourceGrows DEF Executed, Here
<1>2. M \in Nat
    BY DEF Types, Codes
<1>4. ASSUME NEW i \in 1..(M - 1), \A h \in (code.output[i].at + 1)..code.output[i + 1].at : ~IsAssignment(h)'
      PROVE  code.output[i + 1].address = code.output[i].address + code.output[i].width
    <2>1. i \in 1..M /\ i + 1 \in 1..M
        BY <1>2
    <2>2. code.output[i].at \in 1..Len(source) /\ code.output[i + 1].at \in 1..Len(source)
        BY <2>1 DEF PastLines
    <2>. QED
        BY <1>4, <2>2, OldRun DEF RunsAreContiguous
<1>5. CASE code'.output = code.output
    BY <1>4, <1>5 DEF RunsAreContiguous, SameRun
<1>6. ASSUME NEW a \in 0..MaxAddr, NEW w \in Nat, EmittedTo(a, w), l.form = "plain" => a = code.multi
      PROVE  RunsAreContiguous'
    <2>1. /\ Len(code'.output) = M + 1
          /\ \A i \in 1..M : code'.output[i] = code.output[i]
          /\ code'.output[M + 1].at = Here
          /\ code'.output[M + 1].address = a
        BY <1>6, OutputGrows
    <2>2. SUFFICES ASSUME NEW i \in 1..M,
                          \A h \in (code'.output[i].at + 1)..code'.output[i + 1].at : ~IsAssignment(h)'
                   PROVE  code'.output[i + 1].address = code'.output[i].address + code'.output[i].width
        BY <1>2, <2>1 DEF RunsAreContiguous, SameRun
    <2>3. code'.output[i] = code.output[i]
        BY <2>1
    <2>4. CASE i = M
        <3>1. code.output[M].at \in 1..Len(source)
            BY <2>2, <2>4 DEF PastLines
        <3>2. l.form = "plain" /\ SameRun(code.output[M].at, Len(source))
            BY <2>1, <2>2, <2>3, <2>4, <3>1, RunLines
        <3>3. a # NoAddress
            BY DEF NoAddress
        <3>. QED
            BY <1>2, <1>6, <2>1, <2>3, <2>4, <3>2, <3>3 DEF LastEnds
    <2>5. CASE i # M
        <3>1. i \in 1..(M - 1) /\ i + 1 \in 1..M
            BY <1>2, <2>5
        <3>2. code'.output[i + 1] = code.output[i + 1]
            BY <2>1, <3>1
        <3>. QED
            BY <1>4, <2>2, <2>3, <3>1, <3>2
    <2>. QED
        BY <2>4, <2>5
<1>7. CASE PlainStep(l, new)
    <2>1. code.multi \in 0..MaxAddr
        BY <1>7 DEF PlainStep, Types, Codes
    <2>. QED
        BY <1>5, <1>6, <1>7, <2>1 DEF PlainStep, Kept, LabelledAt
<1>8. CASE CutStep(l, new)
    BY <1>5, <1>6, <1>8 DEF CutStep, Kept, LabelledAt
<1>9. CASE OriginStep(l, new) \/ BareStep(l, new)
    BY <1>5, <1>9 DEF OriginStep, BareStep, Kept
<1>. QED
    BY <1>7, <1>8, <1>9 DEF Executed

\* A label that no item has followed names the next address.
PendingLabel ==
    \A n \in LabelNames :
        LET label == code.labels[n]
        IN  (/\ code.multi # NoAddress
             /\ label # NoLabel
             /\ source[label.at].form = "plain"
             /\ SameRun(label.at, Len(source))
             /\ \A j \in (label.at + 1)..Len(source) : ~EmittedAt(j))
            => label.address = code.multi

LEMMA LabelLine ==
    ASSUME Types, PastLines, NEW n \in LabelNames, code.labels[n] # NoLabel
    PROVE  code.labels[n].at \in 1..Len(source)
<1>1. code.labels[n] \in [at : 1..MaxLines, address : 0..MaxAddr]
    BY DEF Types, Codes, Labels
<1>2. code.labels[n].at \in 0..Len(source) /\ code.labels[n].at # 0
    BY <1>1 DEF PastLines
<1>. QED
    BY <1>2 DEF Types

LEMMA NoneEmittedBefore ==
    ASSUME Types, PastLines, NEW l \in Lines, NEW new, Executed(l, new),
           NEW j \in 1..Len(source), NEW k \in 1..Here, \A i \in (j + 1)..(k - 1) : ~EmittedAt(i)'
    PROVE  \A i \in (j + 1)..(k - 1) : ~EmittedAt(i)
<1>1. Len(source) \in Nat /\ Here = Len(source) + 1
    BY DEF Types, Here
<1>2. SUFFICES ASSUME NEW i \in (j + 1)..(k - 1) PROVE ~EmittedAt(i)
    OBVIOUS
<1>3. i \in 1..Len(source) /\ ~EmittedAt(i)'
    BY <1>1
<1>. QED
    BY <1>3, StableStep DEF Stable

LEMMA PendingLabelStep ==
    ASSUME Types, PastLines, PendingLabel, NEW l \in Lines, NEW new, Executed(l, new)
    PROVE  PendingLabel'
<1>. USE MaxAddrIsNat
<1>1. /\ Len(source) \in Nat /\ Len(source') = Here /\ Here = Len(source) + 1
      /\ \A k \in 1..Len(source) : source'[k] = source[k]
    BY SourceGrows DEF Executed, Here
<1>2. ASSUME code'.multi = NoAddress
      PROVE  PendingLabel'
    BY <1>2 DEF PendingLabel
<1>3. ASSUME NEW n \in LabelNames, code'.labels[n] = code.labels[n],
             code'.multi # NoAddress, code.labels[n] # NoLabel,
             source'[code.labels[n].at].form = "plain",
             \A i \in (code.labels[n].at + 1)..Here : ~IsAssignment(i)',
             \A j \in (code.labels[n].at + 1)..Here : ~EmittedAt(j)',
             code'.multi = code.multi \/ l.form = "origin"
      PROVE  code.labels[n].address = code'.multi
    <2> DEFINE at == code.labels[n].at
    <2>1. at \in 1..Len(source)
        BY <1>3, LabelLine
    <2>2. source[at].form = "plain"
        BY <1>1, <1>3, <2>1
    <2>3. l.form = "plain" /\ SameRun(at, Len(source))
        BY <1>3, <2>1, RunLines
    <2>4. \A i \in (at + 1)..(Here - 1) : ~EmittedAt(i)
        <3>1. \A i \in (at + 1)..(Here - 1) : ~EmittedAt(i)'
            BY <1>1, <1>3
        <3>2. Here \in 1..Here
            BY <1>1
        <3>. QED
            BY <2>1, <3>1, <3>2, NoneEmittedBefore
    <2>5. Here - 1 = Len(source)
        BY <1>1
    <2>. QED
        BY <1>3, <2>2, <2>3, <2>4, <2>5 DEF PendingLabel
<1>4. ASSUME Kept, code'.multi = code.multi \/ l.form = "origin"
      PROVE  PendingLabel'
    <2>1. \A n \in LabelNames : code'.labels[n] = code.labels[n]
        BY <1>4 DEF Kept
    <2>. QED
        BY <1>1, <1>3, <1>4, <2>1 DEF PendingLabel, SameRun
<1>5. ASSUME LabelledAt(code.multi), code'.multi = code.multi
      PROVE  PendingLabel'
    <2>1. PICK n \in LabelNames : code'.labels = [code.labels EXCEPT ![n] = [at |-> Here, address |-> code.multi]]
        BY <1>5 DEF LabelledAt
    <2>2. code.labels \in Labels
        BY DEF Types, Codes
    <2>3. code'.labels[n].address = code.multi
        BY <2>1, <2>2 DEF Labels
    <2>4. \A m \in LabelNames : m # n => code'.labels[m] = code.labels[m]
        BY <2>1, <2>2 DEF Labels
    <2>. QED
        BY <1>1, <1>3, <1>5, <2>3, <2>4 DEF PendingLabel, SameRun
<1>6. ASSUME NEW w \in Nat, EmittedTo(code.multi, w), code.multi # NoAddress
      PROVE  PendingLabel'
    <2>1. code.multi \in 0..MaxAddr
        BY <1>6 DEF Types, Codes
    <2>2. /\ Len(code'.output) = Len(code.output) + 1
          /\ code'.output[Len(code.output) + 1].at = Here
        BY <1>6, <2>1, OutputGrows
    <2>3. Len(code.output) \in Nat /\ code'.labels = code.labels
        BY <1>6 DEF Types, Codes, EmittedTo
    <2>4. \A h \in Nat : h = Here => EmittedAt(h)'
        BY <2>2, <2>3 DEF EmittedAt
    <2>5. ASSUME NEW n \in LabelNames, code.labels[n] # NoLabel,
                 \A j \in (code.labels[n].at + 1)..Here : ~EmittedAt(j)'
          PROVE  FALSE
        <3>1. code.labels[n].at \in 1..Len(source)
            BY <2>5, LabelLine
        <3>2. Here \in Nat /\ Here \in (code.labels[n].at + 1)..Here
            BY <1>1, <3>1
        <3>. QED
            BY <2>4, <2>5, <3>2
    <2>. QED
        BY <1>1, <2>3, <2>5 DEF PendingLabel
<1>7. CASE PlainStep(l, new)
    BY <1>2, <1>4, <1>5, <1>6, <1>7 DEF PlainStep, Stays, Ends
<1>8. CASE OriginStep(l, new)
    BY <1>4, <1>8 DEF OriginStep
<1>9. CASE CutStep(l, new) \/ BareStep(l, new)
    BY <1>2, <1>9 DEF CutStep, BareStep, Stays
<1>. QED
    BY <1>7, <1>8, <1>9 DEF Executed

LEMMA LabelNamesStep ==
    ASSUME Types, PastLines, PendingLabel, LabelNamesNextItem, NEW l \in Lines, NEW new, Executed(l, new)
    PROVE  LabelNamesNextItem'
<1>. USE MaxAddrIsNat
<1> DEFINE M == Len(code.output)
<1>1. /\ Len(source) \in Nat /\ Len(source') = Here /\ Here = Len(source) + 1
      /\ \A k \in 1..Len(source) : source'[k] = source[k]
    BY SourceGrows DEF Executed, Here
<1>2. M \in Nat
    BY DEF Types, Codes
<1>3. ASSUME NEW n \in LabelNames, NEW i \in 1..M, code.labels[n] # NoLabel,
             source'[code.labels[n].at].form = "plain", code.labels[n].at < code.output[i].at,
             \A h \in (code.labels[n].at + 1)..code.output[i].at : ~IsAssignment(h)',
             \A j \in (code.labels[n].at + 1)..(code.output[i].at - 1) : ~EmittedAt(j)'
      PROVE  code.labels[n].address = code.output[i].address
    <2> DEFINE at == code.labels[n].at
               to == code.output[i].at
    <2>1. at \in 1..Len(source) /\ to \in 1..Len(source) /\ to \in 1..Here
        BY <1>1, <1>3, LabelLine DEF PastLines
    <2>2. source[at].form = "plain"
        BY <1>1, <1>3, <2>1
    <2>3. SameRun(at, to)
        BY <1>3, <2>1, OldRun
    <2>4. \A j \in (at + 1)..(to - 1) : ~EmittedAt(j)
        BY <1>3, <2>1, NoneEmittedBefore
    <2>. QED
        BY <1>3, <2>2, <2>3, <2>4 DEF LabelNamesNextItem
<1>4. ASSUME SameOutput
      PROVE  LabelNamesNextItem'
    <2>1. SUFFICES ASSUME NEW n \in LabelNames, NEW i \in 1..M, code'.labels[n] # NoLabel,
                          source'[code'.labels[n].at].form = "plain", code'.labels[n].at < code.output[i].at,
                          \A h \in (code'.labels[n].at + 1)..code.output[i].at : ~IsAssignment(h)',
                          \A j \in (code'.labels[n].at + 1)..(code.output[i].at - 1) : ~EmittedAt(j)'
                   PROVE  code'.labels[n].address = code.output[i].address
        BY <1>4 DEF SameOutput, LabelNamesNextItem, SameRun
    <2>2. CASE code'.labels[n] = code.labels[n]
        BY <1>3, <2>1, <2>2
    <2>3. CASE code'.labels[n].at = Here
        <3>1. code.output[i].at \in 1..Len(source)
            BY DEF PastLines
        <3>. QED
            BY <1>1, <2>1, <2>3, <3>1
    <2>. QED
        BY <2>2, <2>3, Growth DEF LabelsGrow
<1>5. ASSUME NEW a \in 0..MaxAddr, NEW w \in Nat, EmittedTo(a, w), l.form = "plain" => a = code.multi
      PROVE  LabelNamesNextItem'
    <2>1. /\ Len(code'.output) = M + 1
          /\ \A i \in 1..M : code'.output[i] = code.output[i]
          /\ code'.output[M + 1].at = Here
          /\ code'.output[M + 1].address = a
          /\ code'.labels = code.labels
        BY <1>5, OutputGrows DEF EmittedTo
    <2>2. SUFFICES ASSUME NEW n \in LabelNames, NEW i \in 1..(M + 1), code.labels[n] # NoLabel,
                          source'[code.labels[n].at].form = "plain",
                          code.labels[n].at < code'.output[i].at,
                          \A h \in (code.labels[n].at + 1)..code'.output[i].at : ~IsAssignment(h)',
                          \A j \in (code.labels[n].at + 1)..(code'.output[i].at - 1) : ~EmittedAt(j)'
                   PROVE  code.labels[n].address = code'.output[i].address
        BY <2>1 DEF LabelNamesNextItem, SameRun
    <2>3. CASE i = M + 1
        <3> DEFINE at == code.labels[n].at
        <3>1. at \in 1..Len(source) /\ source[at].form = "plain"
            BY <1>1, <2>2, LabelLine
        <3>2. l.form = "plain" /\ SameRun(at, Len(source))
            BY <2>1, <2>2, <2>3, <3>1, RunLines
        <3>3. \A j \in (at + 1)..(Here - 1) : ~EmittedAt(j)
            <4>1. \A j \in (at + 1)..(Here - 1) : ~EmittedAt(j)'
                BY <2>1, <2>2, <2>3
            <4>2. Here \in 1..Here
                BY <1>1
            <4>. QED
                BY <3>1, <4>1, <4>2, NoneEmittedBefore
        <3>4. Here - 1 = Len(source) /\ a # NoAddress
            BY <1>1 DEF NoAddress
        <3>5. code.labels[n].address = a
            BY <1>5, <2>2, <3>1, <3>2, <3>3, <3>4 DEF PendingLabel
        <3>. QED
            BY <2>1, <2>3, <3>5
    <2>4. CASE i # M + 1
        <3>1. i \in 1..M
            BY <1>2, <2>4
        <3>. QED
            BY <1>3, <2>1, <2>2, <3>1
    <2>. QED
        BY <2>3, <2>4
<1>6. CASE PlainStep(l, new)
    <2>1. code.multi \in 0..MaxAddr
        BY <1>6 DEF PlainStep, Types, Codes
    <2>. QED
        BY <1>4, <1>5, <1>6, <2>1 DEF PlainStep, Kept, LabelledAt, SameOutput
<1>7. CASE CutStep(l, new)
    BY <1>4, <1>5, <1>7 DEF CutStep, Kept, LabelledAt, SameOutput
<1>8. CASE OriginStep(l, new) \/ BareStep(l, new)
    BY <1>4, <1>8 DEF OriginStep, BareStep, Kept, SameOutput
<1>. QED
    BY <1>6, <1>7, <1>8 DEF Executed

LEMMA NothingDroppedStep ==
    ASSUME Types, PastLines, NothingDropped, NEW l \in Lines, NEW new, Executed(l, new)
    PROVE  NothingDropped'
<1>. USE MaxAddrIsNat
<1>1. /\ Len(source) \in Nat /\ Len(source') = Here /\ Here = Len(source) + 1
      /\ source'[Here] = l
      /\ \A k \in 1..Len(source) : source'[k] = source[k]
    BY SourceGrows DEF Executed, Here
<1> DEFINE Answered(k) ==
        ErrorAt(k) \/ EmittedAt(k) \/ source[k].form = "origin" \/ \E n \in LabelNames : code.labels[n].at = k
<1>2. ASSUME NEW k \in 1..Len(source)
      PROVE  Answered(k)'
    <2>1. Answered(k)
        BY DEF NothingDropped
    <2>2. CASE ErrorAt(k) \/ EmittedAt(k)
        BY <2>2, StableStep DEF Stable
    <2>3. CASE source[k].form = "origin"
        BY <1>1, <2>3
    <2>4. ASSUME NEW n \in LabelNames, code.labels[n].at = k
          PROVE  code'.labels[n].at = k
        <3>1. code.labels[n] # NoLabel
            BY <2>4 DEF NoLabel, NoLine
        <3>. QED
            BY <2>4, <3>1, Growth DEF LabelsGrow
    <2>. QED
        BY <2>1, <2>2, <2>3, <2>4
<1>3. ASSUME NEW h \in Nat, h = Here
      PROVE  Answered(h)'
    <2>1. ASSUME Complained(new)
          PROVE  Answered(h)'
        BY <1>3, <2>1 DEF Complained, ErrorAt, Executed
    <2>2. ASSUME NEW a \in 0..MaxAddr, LabelledAt(a)
          PROVE  Answered(h)'
        <3>1. PICK n \in LabelNames : code'.labels = [code.labels EXCEPT ![n] = [at |-> Here, address |-> a]]
            BY <2>2 DEF LabelledAt
        <3>2. code'.labels[n].at = Here
            BY <3>1 DEF Types, Codes, Labels
        <3>. QED
            BY <1>3, <3>2
    <2>3. ASSUME NEW a \in 0..MaxAddr, NEW w \in Nat, EmittedTo(a, w)
          PROVE  Answered(h)'
        <3>1. /\ Len(code'.output) = Len(code.output) + 1
              /\ code'.output[Len(code.output) + 1].at = Here
              /\ Len(code.output) \in Nat
            BY <2>3, OutputGrows DEF Types, Codes
        <3>2. EmittedAt(h)'
            BY <1>3, <3>1 DEF EmittedAt
        <3>. QED
            BY <3>2
    <2>4. CASE OriginStep(l, new)
        BY <1>1, <1>3, <2>4 DEF OriginStep
    <2>5. CASE CutStep(l, new)
        BY <2>1, <2>2, <2>3, <2>5 DEF CutStep
    <2>6. CASE PlainStep(l, new)
        <3>1. code.multi \in 0..MaxAddr
            BY <2>6 DEF PlainStep, Types, Codes
        <3>. QED
            BY <2>1, <2>2, <2>3, <2>6, <3>1 DEF PlainStep, Complained
    <2>7. CASE BareStep(l, new)
        BY <2>1, <2>7 DEF BareStep, Complained
    <2>. QED
        BY <2>4, <2>5, <2>6, <2>7 DEF Executed
<1>. QED
    BY <1>1, <1>2, <1>3 DEF NothingDropped

\* The line e, before line N + 1, is the one that took the origin away.
Culprit(e, N) ==
    IF e = NoLine THEN \A k \in 1..N : ~GoodOrigin(k)
    ELSE /\ e \in 1..N
         /\ EndsOrigin(e)
         /\ \A k \in e..N : ~GoodOrigin(k)
         /\ \E k \in 1..(e - 1) : GoodOrigin(k) /\ SameRun(k, e - 1)

\* The parser remembers it, and where an origin in force comes from.
EndedIsTheCulprit ==
    \A N \in Nat, e \in 0..MaxLines :
        N = Len(source) /\ e = code.ended =>
            IF code.multi = NoAddress THEN Culprit(e, N)
            ELSE \E k \in 1..N : GoodOrigin(k) /\ SameRun(k, N)

LEMMA CulpritStays ==
    ASSUME Types, PastLines, NEW l \in Lines, NEW new, Executed(l, new),
           NEW N \in 0..Len(source), NEW e, Culprit(e, N)
    PROVE  Culprit(e, N)'
<1>1. Len(source) \in Nat
    BY DEF Types
<1>2. Stable
    BY StableStep
<1>3. CASE e = NoLine
    BY <1>1, <1>2, <1>3 DEF Culprit, Stable
<1>4. CASE e # NoLine
    <2>1. /\ e \in 1..N /\ EndsOrigin(e)
          /\ \A k \in e..N : ~GoodOrigin(k)
          /\ \E k \in 1..(e - 1) : GoodOrigin(k) /\ SameRun(k, e - 1)
        BY <1>4 DEF Culprit
    <2>2. EndsOrigin(e)' /\ \A k \in e..N : ~GoodOrigin(k)'
        BY <1>1, <1>2, <2>1 DEF Stable
    <2>3. PICK k \in 1..(e - 1) : GoodOrigin(k) /\ SameRun(k, e - 1)
        BY <2>1
    <2>4. k \in Nat /\ k \in 1..Len(source) /\ e - 1 \in 0..Len(source)
        BY <1>1, <2>1, <2>3
    <2>5. GoodOrigin(k)'
        BY <1>2, <2>3, <2>4 DEF Stable
    <2>6. \A i \in (k + 1)..(e - 1) : ~IsAssignment(i)'
        <3>1. SUFFICES ASSUME NEW i \in (k + 1)..(e - 1) PROVE ~IsAssignment(i)'
            OBVIOUS
        <3>2. i \in 1..Len(source) /\ ~IsAssignment(i)
            BY <2>3, <2>4 DEF SameRun
        <3>. QED
            BY <1>2, <3>2 DEF Stable
    <2>7. SameRun(k, e - 1)'
        BY <2>6 DEF SameRun
    <2>. QED
        BY <1>4, <2>1, <2>2, <2>3, <2>5, <2>7 DEF Culprit
<1>. QED
    BY <1>3, <1>4

LEMMA EndedStep ==
    ASSUME Types, PastLines, EndedIsTheCulprit, NEW l \in Lines, NEW new, Executed(l, new)
    PROVE  EndedIsTheCulprit'
<1>. USE MaxAddrIsNat
<1>1. PICK N \in Nat :
          /\ N = Len(source) /\ Len(source') = N + 1 /\ Here = N + 1
          /\ source'[N + 1] = l
    BY SourceGrows DEF Executed, Here
<1>2. Stable
    BY StableStep
<1>3. code.ended \in 0..MaxLines
    BY DEF Types, Codes
<1>4. PICK e \in 0..MaxLines : e = code.ended
    BY <1>3
<1>5. ASSUME ~GoodOrigin(N + 1)', code.multi = NoAddress, code'.multi = NoAddress, code'.ended = code.ended
      PROVE  EndedIsTheCulprit'
    <2>1. Culprit(e, N)
        BY <1>1, <1>4, <1>5 DEF EndedIsTheCulprit
    <2>2. Culprit(e, N)'
        BY <1>1, <2>1, CulpritStays
    <2>3. e = NoLine => \A k \in 1..(N + 1) : ~GoodOrigin(k)'
        BY <1>5, <2>2 DEF Culprit
    <2>4. e # NoLine => /\ e \in 1..(N + 1) /\ EndsOrigin(e)'
                        /\ \A k \in e..(N + 1) : ~GoodOrigin(k)'
                        /\ \E k \in 1..(e - 1) : GoodOrigin(k)' /\ SameRun(k, e - 1)'
        BY <1>5, <2>2 DEF Culprit
    <2>5. Culprit(e, N + 1)'
        BY <2>3, <2>4 DEF Culprit
    <2>. QED
        BY <1>1, <1>4, <1>5, <2>5 DEF EndedIsTheCulprit
\* The origin in force still is, one line later.
<1>6. ASSUME code.multi # NoAddress
      PROVE  \E k \in 1..N : GoodOrigin(k)' /\ SameRun(k, N)'
    <2>1. PICK k \in 1..N : GoodOrigin(k) /\ SameRun(k, N)
        BY <1>1, <1>4, <1>6 DEF EndedIsTheCulprit
    <2>. QED
        BY <1>1, <1>2, <2>1 DEF Stable
<1>7. ASSUME code'.multi # NoAddress, code.multi # NoAddress, l.form = "plain"
      PROVE  EndedIsTheCulprit'
    <2>1. PICK k \in 1..N : GoodOrigin(k)' /\ SameRun(k, N)'
        BY <1>6, <1>7
    <2>2. ~IsAssignment(N + 1)'
        BY <1>1, <1>7 DEF IsAssignment
    <2>3. SameRun(k, N + 1)'
        <3>1. \A i \in (k + 1)..N : ~IsAssignment(i)'
            BY <2>1 DEF SameRun
        <3>2. \A i \in (k + 1)..(N + 1) : ~IsAssignment(i)'
            BY <2>2, <3>1
        <3>. QED
            BY <3>2 DEF SameRun
    <2>. QED
        BY <1>1, <1>7, <2>1, <2>3 DEF EndedIsTheCulprit
<1>8. ASSUME ~GoodOrigin(N + 1)', EndsOrigin(N + 1)', code.multi # NoAddress, Ends
      PROVE  EndedIsTheCulprit'
    <2>1. Culprit(N + 1, N + 1)'
        <3>1. (N + 1) - 1 = N /\ N + 1 # NoLine /\ N + 1 \in 1..(N + 1)
            BY DEF NoLine
        <3>2. \A k \in (N + 1)..(N + 1) : ~GoodOrigin(k)'
            BY <1>8
        <3>. QED
            BY <1>6, <1>8, <3>1, <3>2 DEF Culprit
    <2>. QED
        BY <1>1, <1>8, <2>1 DEF EndedIsTheCulprit, Ends
<1>9. l.form # "origin" \/ Complained(new) => ~GoodOrigin(N + 1)'
    BY <1>1 DEF GoodOrigin, ErrorAt, Complained, Executed
<1>10. CASE OriginStep(l, new)
    <2>1. code'.multi # NoAddress
        BY <1>10 DEF OriginStep, NoAddress
    <2>2. ~ErrorAt(N + 1)'
        BY <1>1, <1>10 DEF OriginStep, Executed, PastLines, ErrorAt
    <2>3. GoodOrigin(N + 1)'
        BY <1>1, <1>10, <2>2 DEF OriginStep, GoodOrigin
    <2>4. SameRun(N + 1, N + 1)'
        BY DEF SameRun
    <2>. QED
        BY <1>1, <2>1, <2>3, <2>4 DEF EndedIsTheCulprit
<1>11. CASE CutStep(l, new)
    <2>1. ~GoodOrigin(N + 1)'
        BY <1>9, <1>11 DEF CutStep
    <2>2. EndsOrigin(N + 1)'
        BY <1>1, <1>11 DEF CutStep, EndsOrigin, IsAssignment
    <2>3. CASE code.multi = NoAddress
        BY <1>5, <1>11, <2>1, <2>3 DEF CutStep, Cut
    <2>4. CASE code.multi # NoAddress
        BY <1>8, <1>11, <2>1, <2>2, <2>4 DEF CutStep, Cut, Ends
    <2>. QED
        BY <2>3, <2>4
<1>12. CASE PlainStep(l, new)
    <2>1. ~GoodOrigin(N + 1)' /\ l.form = "plain" /\ code.multi # NoAddress
        BY <1>9, <1>12 DEF PlainStep
    <2>2. ASSUME Stays
          PROVE  EndedIsTheCulprit'
        BY <1>7, <2>1, <2>2 DEF Stays
    <2>3. ASSUME \E d \in new : d.kind = "CodeOverflow" /\ d.at = Here, Ends
          PROVE  EndedIsTheCulprit'
        <3>1. EndsOrigin(N + 1)'
            BY <1>1, <2>3 DEF EndsOrigin, Executed
        <3>. QED
            BY <1>8, <2>1, <2>3, <3>1
    <2>4. ASSUME NEW w \in Nat, EmittedTo(code.multi, w),
                 IF code.multi + w <= MaxAddr
                  THEN code'.multi = code.multi + w /\ code'.ended = code.ended ELSE Ends
          PROVE  EndedIsTheCulprit'
        <3>1. code.multi \in 0..MaxAddr
            BY <2>1 DEF Types, Codes
        <3>2. CASE code.multi + w <= MaxAddr
            <4>1. code'.multi # NoAddress
                BY <2>4, <3>1, <3>2 DEF NoAddress
            <4>. QED
                BY <1>7, <2>1, <4>1
        <3>3. CASE ~(code.multi + w <= MaxAddr)
            <4>1. /\ Len(code'.output) = Len(code.output) + 1
                  /\ code'.output[Len(code.output) + 1].at = Here
                  /\ code'.output[Len(code.output) + 1].address = code.multi
                  /\ code'.output[Len(code.output) + 1].width = w
                  /\ Len(code.output) \in Nat
                BY <2>4, <3>1, OutputGrows DEF Types, Codes
            <4>2. code.multi + w = MaxAddr + 1
                BY <2>4, <3>1, <3>3 DEF EmittedTo
            <4>3. \E i \in 1..Len(code'.output) :
                      /\ code'.output[i].at = N + 1
                      /\ code'.output[i].address + code'.output[i].width = MaxAddr + 1
                <5>1. Len(code.output) + 1 \in 1..Len(code'.output)
                    BY <4>1
                <5>. QED
                    BY <1>1, <4>1, <4>2, <5>1
            <4>4. EndsOrigin(N + 1)'
                BY <4>3 DEF EndsOrigin
            <4>. QED
                BY <1>8, <2>1, <2>4, <3>3, <4>4
        <3>. QED
            BY <3>2, <3>3
    <2>. QED
        BY <1>12, <2>2, <2>3, <2>4 DEF PlainStep
<1>13. CASE BareStep(l, new)
    BY <1>5, <1>9, <1>13 DEF BareStep, Stays
<1>. QED
    BY <1>10, <1>11, <1>12, <1>13 DEF Executed

LEMMA ClearedStep ==
    ASSUME Types, PastLines, EndedIsTheCulprit, ClearedFromIsTheCulprit,
           NEW l \in Lines, NEW new, Executed(l, new)
    PROVE  ClearedFromIsTheCulprit'
<1>1. SUFFICES ASSUME NEW d \in reported', d.kind = "NoOriginCode"
               PROVE  Culprit(d.cleared, d.at - 1)'
    BY DEF ClearedFromIsTheCulprit, Culprit
<1>2. Len(source) \in Nat /\ Here = Len(source) + 1 /\ code.ended \in 0..MaxLines
    BY DEF Types, Codes, Here
<1>3. CASE d \in reported
    <2>1. Culprit(d.cleared, d.at - 1)
        BY <1>1, <1>3 DEF ClearedFromIsTheCulprit, Culprit
    <2>2. d.at - 1 \in 0..Len(source)
        BY <1>2, <1>3 DEF PastLines
    <2>. QED
        BY <2>1, <2>2, CulpritStays
<1>4. CASE d \in new
    <2>1. BareStep(l, new)
        BY <1>1, <1>4 DEF Executed, OriginStep, CutStep, PlainStep, ItemErrors
    <2>2. code.multi = NoAddress /\ d.cleared = code.ended /\ d.at - 1 = Len(source)
        BY <1>2, <1>4, <2>1 DEF BareStep
    <2>3. Culprit(d.cleared, d.at - 1)
        BY <1>2, <2>2 DEF EndedIsTheCulprit
    <2>4. d.at - 1 \in 0..Len(source)
        BY <1>2, <2>2
    <2>. QED
        BY <2>3, <2>4, CulpritStays
<1>. QED
    BY <1>1, <1>3, <1>4 DEF Executed

IInv ==
    /\ Types
    /\ PastLines
    /\ WithinSpace
    /\ LastEnds /\ RunsAreContiguous
    /\ PendingLabel /\ LabelNamesNextItem
    /\ NothingDropped
    /\ EndedIsTheCulprit /\ ClearedFromIsTheCulprit

LEMMA InitIInv ==
    ASSUME Init
    PROVE  IInv
<1>. USE MaxAddrIsNat, MaxLinesIsNat
<1>1. /\ source = <<>> /\ reported = {}
      /\ code.output = <<>> /\ code.multi = NoAddress /\ code.ended = NoLine
      /\ code.labels = [n \in LabelNames |-> NoLabel]
    BY DEF Init, NoCode
<1>2. Types
    BY DEF Init, NoCode, NoLine, Types, Codes, Labels
<1>3. PastLines
    BY <1>1 DEF PastLines, NoLabel, NoLine
<1>4. WithinSpace /\ RunsAreContiguous /\ LabelNamesNextItem
    BY <1>1 DEF WithinSpace, RunsAreContiguous, LabelNamesNextItem
<1>5. LastEnds /\ PendingLabel
    BY <1>1 DEF LastEnds, PendingLabel
<1>6. NothingDropped /\ ClearedFromIsTheCulprit
    BY <1>1 DEF NothingDropped, ClearedFromIsTheCulprit
<1>7. EndedIsTheCulprit
    BY <1>1 DEF EndedIsTheCulprit, Culprit
<1>. QED
    BY <1>2, <1>3, <1>4, <1>5, <1>6, <1>7 DEF IInv

LEMMA NextIInv ==
    ASSUME IInv, [Next]_vars
    PROVE  IInv'
<1>1. CASE Next
    <2>1. PICK l \in Lines : \E new : Executed(l, new)
        BY <1>1, ExecShape DEF IInv
    <2>2. PICK new : Executed(l, new)
        BY <2>1
    <2>3. Types'
        BY <2>2 DEF Executed
    <2>4. PastLines'
        BY <2>2, PastLinesStep DEF IInv
    <2>5. WithinSpace'
        BY <2>2, WithinSpaceStep DEF IInv
    <2>6. LastEnds'
        BY <2>2, LastEndsStep DEF IInv
    <2>7. RunsAreContiguous'
        BY <2>2, ContiguousStep DEF IInv
    <2>8. PendingLabel'
        BY <2>2, PendingLabelStep DEF IInv
    <2>9. LabelNamesNextItem'
        BY <2>2, LabelNamesStep DEF IInv
    <2>10. NothingDropped'
        BY <2>2, NothingDroppedStep DEF IInv
    <2>11. EndedIsTheCulprit'
        BY <2>2, EndedStep DEF IInv
    <2>12. ClearedFromIsTheCulprit'
        BY <2>2, ClearedStep DEF IInv
    <2>. QED
        BY <2>3, <2>4, <2>5, <2>6, <2>7, <2>8, <2>9, <2>10, <2>11, <2>12 DEF IInv
<1>2. CASE UNCHANGED vars
    <2>1. code' = code /\ source' = source /\ reported' = reported
        BY <1>2 DEF vars
    <2>2. (Types /\ PastLines /\ WithinSpace)'
        BY <2>1 DEF IInv, Types, PastLines, WithinSpace
    <2>3. (LastEnds /\ RunsAreContiguous /\ PendingLabel /\ LabelNamesNextItem)'
        BY <2>1 DEF IInv, LastEnds, RunsAreContiguous, PendingLabel, LabelNamesNextItem,
                    SameRun, IsAssignment, EmittedAt
    <2>4. NothingDropped'
        BY <2>1 DEF IInv, NothingDropped, ErrorAt, EmittedAt
    <2>5. (EndedIsTheCulprit /\ ClearedFromIsTheCulprit)'
        BY <2>1 DEF IInv, EndedIsTheCulprit, ClearedFromIsTheCulprit, Culprit, EndsOrigin, GoodOrigin,
                    ErrorAt, SameRun, IsAssignment
    <2>. QED
        BY <2>2, <2>3, <2>4, <2>5 DEF IInv
<1>. QED
    BY <1>1, <1>2

(* The parts of IInv hold one another up: no line before the ones named is *)
(* needed but through them.                                                *)
THEOREM IInvHolds == Spec => []IInv
<1>1. Init => IInv
    BY InitIInv
<1>2. IInv /\ [Next]_vars => IInv'
    BY NextIInv
<1>. QED
    BY <1>1, <1>2, PTL DEF Spec

-----------------------------------------------------------------------------
(* The properties, for any set of lines, any address space and sources of  *)
(* any length.                                                             *)

(* An item never reaches past the last address a patch may hold: EmitItem  *)
(* compares its width with the bytes that remain.                          *)
THEOREM SpaceIsKept == Spec => []WithinAddressSpace
<1>1. IInv => WithinAddressSpace
    BY DEF IInv, Types, Codes, Labels, TypeOK, WithinSpace, WithinAddressSpace
<1>. QED
    BY <1>1, IInvHolds, PTL

(* Items of one run touch: the next address is where the last item ended   *)
(* (LastEnds), and lines that are not items do not move it.                *)
THEOREM RunsTouch == Spec => []RunsAreContiguous
<1>1. IInv => RunsAreContiguous
    BY DEF IInv
<1>. QED
    BY <1>1, IInvHolds, PTL

(* A label names the item after it: until an item follows, a label of the  *)
(* run in force names the next address (PendingLabel).                     *)
THEOREM LabelsName == Spec => []LabelNamesNextItem
<1>1. IInv => LabelNamesNextItem
    BY DEF IInv
<1>. QED
    BY <1>1, IInvHolds, PTL

(* Every line executed leaves a trace: an item, a label, or an error.      *)
THEOREM NoLineIsDropped == Spec => []NothingDropped
<1>1. IInv => NothingDropped
    BY DEF IInv
<1>. QED
    BY <1>1, IInvHolds, PTL

(* The line reported with code that has no origin is the one that took it  *)
(* away: the parser's code_multi_ended is that line in every state in      *)
(* which no origin is in force (EndedIsTheCulprit).                        *)
THEOREM CulpritIsNamed == Spec => []ClearedFromIsTheCulprit
<1>1. IInv => ClearedFromIsTheCulprit
    BY DEF IInv
<1>. QED
    BY <1>1, IInvHolds, PTL
=============================================================================
