------------------------------- MODULE TxFifo -------------------------------
(***************************************************************************)
(* What the transmit queue of the HS/Link COM driver promises its callers: *)
(* the bytes handed to ComWriteStr leave the UART in the order they were   *)
(* written, none twice and none invented, except that discard_TxQue may    *)
(* throw away everything still queued and replace it by two END bytes.     *)
(* Bytes are numbered 1, 2, ... in the order they are written (tok).       *)
(***************************************************************************)
EXTENDS Naturals, Sequences

CONSTANT MaxTok          \* bound on the number of bytes ever written

VARIABLES queue,         \* bytes accepted and not yet transmitted
          lastTx,        \* the byte the UART transmitted last (0: none)
          tok            \* number of bytes written so far

vars == <<queue, lastTx, tok>>

Init == queue = <<>> /\ lastTx = 0 /\ tok = 0

\* n freshly numbered bytes are appended to the queue
Put(n) == /\ tok + n <= MaxTok
          /\ queue' = queue \o [i \in 1..n |-> tok + i]
          /\ tok' = tok + n
          /\ UNCHANGED lastTx

\* the oldest queued byte is transmitted
Take == /\ queue /= <<>>
        /\ lastTx' = Head(queue)
        /\ queue' = Tail(queue)
        /\ UNCHANGED tok

\* the queue is thrown away and n fresh bytes (the END markers) replace it
Replace(n) == /\ tok + n <= MaxTok
              /\ queue' = [i \in 1..n |-> tok + i]
              /\ tok' = tok + n
              /\ UNCHANGED lastTx

Next == \/ \E n \in 1..MaxTok : Put(n) \/ Replace(n)
        \/ Take

Spec == Init /\ [][Next]_vars
=============================================================================
