------------------------------ MODULE MCUartRx ------------------------------
(* Three heap blocks against up to four owners, buffers of two bytes and     *)
(* enough bytes to fill, end, lose and requeue several of them.              *)
EXTENDS UartRx

CONSTANTS b1, b2, b3

MCBuf == {b1, b2, b3}
=============================================================================
