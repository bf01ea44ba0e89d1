----------------------------- MODULE CodeLines -----------------------------
(***************************************************************************)
(* What one line of code does to the code a build has collected so far     *)
(* (src/parse.rs).  Like the preprocessor's state, the collected code is   *)
(* copied at every fork, so it is a value and the handler a group of       *)
(* operators; module CodeSection drives one, module Parse one per fork.    *)
(*                                                                         *)
(* A line is `.origin = ADDR`, `ADDR = item`, or a bare item; an item is a *)
(* label, a data directive, a string or an instruction.  Positions are     *)
(* line numbers.  Widths are bytes; an address is a code address, before   *)
(* the length of the NSO header is added.                                  *)
(***************************************************************************)
EXTENDS Integers, Sequences

CONSTANTS LabelNames,   \* names a label may have
          MaxAddr       \* CodeAddress::MAX_ALLOWED_ADDR

ASSUME MaxAddrIsNat == MaxAddr \in Nat

NoAddress == -1         \* no origin in force; in a line, text that is not an address

NoLine == 0

AsmWidth == 4

NoLabel == [at |-> NoLine, address |-> NoAddress]

BadLabel == "not a label name"

Items(widths) ==
    [kind : {"label"}, name : LabelNames \cup {BadLabel}] \cup
    [kind : {"incomplete", "unknown"}] \cup
    [kind : {"data", "string"}, width : widths, valid : BOOLEAN] \cup
    {[kind |-> "asm", width |-> AsmWidth, valid |-> TRUE]}

CodeLine(addresses, widths) ==
    [form : {"origin"}, addr : addresses \cup {NoAddress}] \cup
    [form : {"at"}, addr : addresses \cup {NoAddress}, item : Items(widths)] \cup
    [form : {"plain"}, item : Items(widths)]

NoCode == [output |-> <<>>, multi |-> NoAddress, ended |-> NoLine,
           labels |-> [n \in LabelNames |-> NoLabel]]

-----------------------------------------------------------------------------
NewAddress(a) == IF a <= MaxAddr THEN a ELSE NoAddress

\* Mutant: the byte count is off by one.
RemainingBytes_OneMore(a) == MaxAddr - a + 2

RemainingBytes(a) == MaxAddr - a + 1

\* Mutant: every item takes an instruction's room.
Increment_Words(a, n) == NewAddress(a + AsmWidth)

Increment(a, n) == NewAddress(a + n)

\* A string whose text does not parse becomes the empty one; a bad number becomes 0.
ValueWidth(item) == IF item.kind = "string" /\ ~item.valid THEN 0 ELSE item.width

Emits(item) == item.kind \in {"data", "string", "asm"}

Complain(kind, line) == {[kind |-> kind, at |-> line]}

\* Mutant: the line is remembered even when no origin is in force.
EndMulti_Always(c, line) == [c EXCEPT !.ended = line, !.multi = NoAddress]

\* end_multi_code: an origin in force stops being so, because of this line.
EndMulti(c, line) ==
    [c EXCEPT !.ended = IF c.multi # NoAddress THEN line ELSE @, !.multi = NoAddress]

\* Mutants: a label takes the room of an instruction; a second declaration is ignored.
DefineLabel_TakesRoom(c, a, name, line) ==
    [code |-> IF name = BadLabel THEN c ELSE [c EXCEPT !.labels[name] = [at |-> line, address |-> a]],
     next |-> Increment(a, AsmWidth), diags |-> {}]

DefineLabel_FirstWins(c, a, name, line) ==
    IF name = BadLabel THEN [code |-> c, next |-> a, diags |-> Complain("InvalidLabel", line)]
    ELSE IF c.labels[name] # NoLabel THEN [code |-> c, next |-> a, diags |-> {}]
    ELSE [code |-> [c EXCEPT !.labels[name] = [at |-> line, address |-> a]], next |-> a, diags |-> {}]

DefineLabel(c, a, name, line) ==
    IF name = BadLabel
      THEN [code |-> c, next |-> a, diags |-> Complain("InvalidLabel", line)]
    ELSE IF c.labels[name] # NoLabel
      THEN [code |-> c, next |-> a,
            diags |-> {[kind |-> "DuplicateLabels", at |-> line, original |-> c.labels[name].at]}]
    ELSE [code |-> [c EXCEPT !.labels[name] = [at |-> line, address |-> a]], next |-> a, diags |-> {}]

EmitItem(c, a, item, line) ==
    LET width   == ValueWidth(item)
        literal == IF item.valid THEN {} ELSE Complain("InvalidLiteral", line)
    IN  IF width > RemainingBytes(a)
          THEN [code |-> c, next |-> NoAddress,
                diags |-> literal \cup Complain("CodeOverflow", line)]
        ELSE [code  |-> [c EXCEPT !.output =
                            Append(@, [address |-> a, width |-> width, kind |-> item.kind, at |-> line])],
              next  |-> Increment(a, width),
              diags |-> literal]

\* parse_code: the code after the item, the address of the next one, what was reported.
ParseCode(c, a, item, line) ==
    CASE item.kind = "label"      -> DefineLabel(c, a, item.name, line)
      [] item.kind = "incomplete" -> [code |-> c, next |-> a, diags |-> Complain("MissingDataValue", line)]
      [] item.kind = "unknown"    -> [code |-> c, next |-> a, diags |-> Complain("UnknownDataDirective", line)]
      [] OTHER                    -> EmitItem(c, a, item, line)

\* The diagnostics of an address that is no address, or one past the last allowed.
BadAddress(a, line) ==
    IF a = NoAddress THEN Complain("InvalidCodeAddress", line)
    ELSE IF NewAddress(a) = NoAddress THEN Complain("UnsupportedCodeAddress", line) ELSE {}

\* `.origin = ADDR` and `ADDR = item` both end the origin in force before anything else.
ExecAssignment(c, l, line) ==
    LET cut == EndMulti(c, line)
        bad == BadAddress(l.addr, line)
    IN  IF bad # {} THEN [code |-> cut, diags |-> bad]
        ELSE IF l.form = "origin" THEN [code |-> [cut EXCEPT !.multi = l.addr], diags |-> {}]
        ELSE LET r == ParseCode(cut, l.addr, l.item, line)
             IN  [code |-> r.code, diags |-> r.diags]

ExecUnderOrigin(c, l, line) ==
    LET r == ParseCode(c, c.multi, l.item, line)
    IN  [code  |-> [r.code EXCEPT !.multi = r.next, !.ended = IF r.next = NoAddress THEN line ELSE @],
         diags |-> r.diags]

\* The Code arm of step_once.
ExecCode(c, l, line) ==
    IF l.form \in {"origin", "at"} THEN ExecAssignment(c, l, line)
    ELSE IF c.multi # NoAddress THEN ExecUnderOrigin(c, l, line)
    ELSE [code |-> c, diags |-> {[kind |-> "NoOriginCode", at |-> line, cleared |-> c.ended]}]
=============================================================================
