------------------------------ MODULE MC_HsLink ------------------------------
(* Model-checking instance of HsLink: batches of 0, 1 or 2 files, at most  *)
(* one file from the remote, a cancel after 3 CAN keys (6 in the code: the *)
(* count only scales the run of keys) and at most 5 keys typed.             *)
EXTENDS HsLink

MC_NFiles == {0, 1, 2}
MC_NFilesPass == {0, 2}
MC_Keys == {"CAN", "CTRLD", "FKEY", "OTHER"}
=============================================================================
