------------------------------ MODULE MC_Brand ------------------------------
(* Model-checking instance of Brand: a 128-byte lvp, a 32-byte EXE header,  *)
(* the 166-byte copyright of SETCRC.C, 8 KB CRC chunks and user numbers 0,  *)
(* 17 and 1234.  EXEs of 20000 and 65000 bytes are linked, the second     *)
(* close to the 16-bit limit of the offsets determine_local_userid keeps.   *)
EXTENDS Brand

MC_Uids == {0, 17, 1234}
MC_LinkedSmall == {20000, 65000}
=============================================================================
