------------------------------ MODULE MC_Fossil ------------------------------
(* Model-checking instance of Fossil: a 3-byte driver buffer, writes of 1  *)
(* and 3 bytes (a 3-byte write never fits into a buffer with a byte in it,  *)
(* so fSendBlk takes it in pieces), a 1-byte ACK and at most 7 bytes; on    *)
(* the receive side a 2-byte input buffer, ComReadStr of 1 or 2 bytes and   *)
(* at most 3 bytes from the remote.                                        *)
EXTENDS Fossil

MC_WriteSizes == {1, 3}
MC_ReadSizes == {1, 2}
=============================================================================
