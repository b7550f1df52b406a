------------------------------ MODULE NodeUart ------------------------------
(***************************************************************************)
(* What the interrupt side of the nRF node's UART (UartRx) and the thread  *)
(* behind it (JsonFrame) both know of: the size of a receive buffer.       *)
(***************************************************************************)
EXTENDS Naturals

CONSTANT UART_BUF_SIZE   \* capacity of one buffer

ASSUMPTION SizeAssumption == UART_BUF_SIZE \in Nat \ {0}
=============================================================================
