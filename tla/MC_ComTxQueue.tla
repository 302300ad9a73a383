---------------------------- MODULE MC_ComTxQueue ----------------------------
(* Model-checking instance of ComTxQueue: a 5-slot ring whose ComWriteMax  *)
(* leaves 3 slots of slack (TXQ_SIZE-250 in the code), writes of 1 and 2  *)
(* bytes, a 1-byte ACK from service_receive, 16-bit unsigned arithmetic  *)
(* and at most 7 bytes written.  The cfg lets one THRE interrupt be lost *)
(* and takes idle method -i1.  With writes of 2 bytes and a 1-byte ACK, a *)
(* writer that ignores ComWriteMax finds the ring full.                   *)
EXTENDS ComTxQueue

MC_TXQ_SIZE == 5
MC_WRITE_MAX == 2
MC_WriteSizes == {1, 2}
MC_UWIDTH == 65536
=============================================================================
