----------------------------- MODULE ByteChannel -----------------------------
(***************************************************************************)
(* What the UART receive path promises to getJsonData, whatever buffers it *)
(* uses: the wire numbers its bytes; each is accepted into a queue or lost *)
(* on arrival; accepted bytes come out once each, in the order they came,  *)
(* one or more at a time.                                                  *)
(***************************************************************************)
EXTENDS Naturals, Sequences

VARIABLES arrived,     \* bytes that have arrived
          accepted,    \* those that entered the channel, in order
          delivered    \* those that left it

vars == <<arrived, accepted, delivered>>

Init == arrived = 0 /\ accepted = <<>> /\ delivered = <<>>

Accept(eol) ==
  /\ arrived' = arrived + 1
  /\ accepted' = Append(accepted, [id |-> arrived', eol |-> eol])
  /\ UNCHANGED delivered

Lose == arrived' = arrived + 1 /\ UNCHANGED <<accepted, delivered>>

(* The next n accepted bytes leave the channel. *)
Deliver(n) ==
  /\ delivered' = delivered \o SubSeq(accepted, Len(delivered) + 1, Len(delivered) + n)
  /\ UNCHANGED <<arrived, accepted>>

Next ==
  \/ \E eol \in BOOLEAN : Accept(eol)
  \/ Lose
  \/ \E n \in 1..(Len(accepted) - Len(delivered)) : Deliver(n)

Spec == Init /\ [][Next]_vars
=============================================================================
