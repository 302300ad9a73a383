----------------------------- MODULE MC_ComRxFlow -----------------------------
(* Model-checking instance of ComRxFlow: a 4-byte RXQUE with the low-water *)
(* mark at 1 and the high-water mark at 3, a skid of one byte (which fits  *)
(* above the high-water mark), reads of 1 or 3 bytes, XON/XOFF and RTS     *)
(* handshake both on, slow handshake on or off at start, one overrun       *)
(* switching it on, one framing error tolerated, 6 bytes from the remote   *)
(* and 2 UART errors.                                                        *)
EXTENDS ComRxFlow

MC_ReadSizes == {1, 3}
MC_SlowInit == {FALSE, TRUE}
=============================================================================
