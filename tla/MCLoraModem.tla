---------------------------- MODULE MCLoraModem -----------------------------
(* Two values of every setting for LoraModem, the default and another, and *)
(* the PAN ID 0xffff.                                                      *)
EXTENDS LoraModem
TwoOfEach == [ch |-> {5, 20}, sf |-> {7, 12}, pan |-> {43981, 4660, Erased}]
=============================================================================
