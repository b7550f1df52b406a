---------------------------- MODULE MCLoraSerial ----------------------------
(* Hosts for LoraSerial.  With a ring of 2 a gap that begins after the "=" *)
(* of a line may end before data of the same line or of a later one: a     *)
(* rate is set, characters are waited for, the modem restarts early enough *)
(* for two more lines, or with another rate.                               *)
EXTENDS LoraSerial
FourLines == << <<"o", "6", "5">>, <<"o", "e">>, <<"8">>, <<"1">> >>
=============================================================================
