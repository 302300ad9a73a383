------------------------------ MODULE MC_HsStart ------------------------------
(* Model-checking instance of HsStart.  The port: an IRQ on either PIC, a  *)
(* UART with or without a FIFO (on or off as found), -D16550 or not, a    *)
(* -B speed of 9600 or 230400 (whose divisor 115200/230400 is 0), and the  *)
(* divisor latch found holding 12 (9600 bps).                              *)
(* The heap: a largest free block of 46080 bytes; mem_avail itself is     *)
(* checked over every largest free block up to 51200 bytes in steps of    *)
(* 128 and the edges of the smallest and the largest request.             *)
(* terminal_mode receives up to four of 'S', '*' and STX (enough for the  *)
(* sequence after a false start, 'S S * STX'); HS/Term receives up to four *)
(* of STX and 'R' and reads up to two keys, among them Ctrl-B (the byte    *)
(* value of STX) and Ctrl-Z.                                               *)
EXTENDS HsStart

MC_Speeds == {9600, 230400}
MC_Divisors == {12}

MC_Heaps == {46080}
MC_SweepHeaps == {k * 128 : k \in 0..400} \cup {2303, 2304, 46079, 46080}
MC_TmBytes == {"S", "*", "STX"}
MC_HtBytes == {"STX", "R"}
MC_HtKeys == {"STX", "SUB", "x"}
=============================================================================
