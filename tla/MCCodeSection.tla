--------------------------- MODULE MCCodeSection ---------------------------
(* An address space of ten bytes: an instruction fits twice, and an item   *)
(* can end short of the last address, on it or past it.                    *)
EXTENDS CodeSection

CONSTANT l1

Asm == [kind |-> "asm", width |-> AsmWidth, valid |-> TRUE]

Byte(valid) == [kind |-> "data", width |-> 1, valid |-> valid]

Label(n) == [kind |-> "label", name |-> n]

MCLines ==
    [form : {"origin"}, addr : {0, 5, MaxAddr, MaxAddr + 1, NoAddress}] \cup
    [form : {"at"}, addr : {0, MaxAddr + 1, NoAddress}, item : {Asm}] \cup
    [form : {"at"}, addr : {MaxAddr}, item : {Asm, Label(l1)}] \cup
    [form : {"plain"}, item : {Asm, Byte(TRUE), Byte(FALSE), Label(l1), Label(BadLabel),
                               [kind |-> "incomplete"], [kind |-> "unknown"],
                               [kind |-> "string", width |-> 2, valid |-> TRUE],
                               [kind |-> "string", width |-> 2, valid |-> FALSE]}]
=============================================================================
