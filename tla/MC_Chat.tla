------------------------------- MODULE MC_Chat -------------------------------
(* Model-checking instance of Chat: a chat text of 5 bytes (4 characters    *)
(* and the NUL), a 4-column chat-out window and a word-wrap column of 2, so *)
(* that wrapping, word wrap and a full text all happen within a few keys.   *)
EXTENDS Chat

MC_Keys == {"a", "SP", "CR", "BS", "BEL", "ESC"}
=============================================================================
