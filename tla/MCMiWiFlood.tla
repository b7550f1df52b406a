---------------------------- MODULE MCMiWiFlood -----------------------------
(* Nets for MiWiFlood.  Ring: three modems that all hear each other, the   *)
(* third with the address of the first, which restarts, losing frames at   *)
(* any time.  Pair: two, one restarts, and the numbers come round.  Line:  *)
(* four that lose no frames but those they overwrite.                      *)
EXTENDS MiWiFlood
Ring == [links |-> {{1, 2}, {2, 3}, {1, 3}}, addr |-> <<1, 2, 1, 4>>, lossy |-> TRUE,
         restarting |-> {1}, broadcasts |-> 2]
Pair == [links |-> {{1, 2}}, addr |-> <<1, 2, 3, 4>>, lossy |-> TRUE,
         restarting |-> {1}, broadcasts |-> 3]
Line == [links |-> {{1, 2}, {2, 3}, {3, 4}}, addr |-> <<1, 2, 3, 4>>, lossy |-> FALSE,
         restarting |-> {}, broadcasts |-> 2]
RingPairLine == {Ring, Pair, Line}
=============================================================================
