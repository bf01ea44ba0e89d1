---------------------------- MODULE MCAssemble ----------------------------
(* Every list of at most MaxItems items of the addresses and widths below, *)
(* the last address of the address space included, each string of a kind   *)
(* the reader treats in its own way, behind it source with a quote or none *)
(* (a string may come of a macro).                                         *)
EXTENDS DebugPchtxt

CONSTANTS MaxItems

MaxAddr == Top - HeaderLen

MCBytes == {"nul", "n", "v", "quote", "backslash", "vtab", "newline"}

MCComments == {<<"n">>, <<"n", "quote", "v", "quote">>}

Texts == {<<>>, <<"quote", "newline">>, <<"n", "backslash">>, <<"vtab", "nul">>}

String(address, text) ==
    [kind |-> "string", address |-> address, width |-> Len(text), valid |-> TRUE, text |-> text]

Items == {i \in
    [kind : {"asm"}, address : {0, 1, 4, 8}, width : {AsmWidth}, valid : BOOLEAN, text : {<<>>}] \cup
    [kind : {"data"}, address : {3, 9}, width : {2}, valid : {TRUE}, text : {<<>>}] \cup
    {String(2, t) : t \in Texts} \cup {String(MaxAddr - 1, <<"quote", "newline">>)} :
    i \in Item}

MCCodes == UNION {[1..n -> Items] : n \in 0..MaxItems}
=============================================================================
