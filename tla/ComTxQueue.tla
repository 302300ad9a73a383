----------------------------- MODULE ComTxQueue -----------------------------
(***************************************************************************)
(* The transmit side of the interrupt driven COM driver (HSCOMM.C): the    *)
(* TXQUE ring written by ComWriteStr from the single protocol thread and   *)
(* drained by the transmit interrupt, which the remote can pause with XOFF *)
(* or by dropping CTS.  When ComWriteStr finds the ring full it idles once *)
(* (ComIdle + service_receive, which may itself send an ACK through        *)
(* ComWriteStr) and then copies its bytes in.  discard_TxQue, run by     *)
(* every keyboard poll of ComIdle once the remote has cancelled, throws    *)
(* the ring away and queues two END bytes.                                 *)
(* Written bytes are numbered 1, 2, ... (tok) so that what the UART sends  *)
(* can be compared with what was written.                                  *)
(*                                                                         *)
(* Output is driven by transmit-ready (THRE) interrupts: ComWriteStr       *)
(* forces one with LL_startTransmit unless ComLL.XmitActive is 1.  A THRE  *)
(* interrupt can be lost, leaving XmitActive at 1 with nothing to send the *)
(* next byte; ComIdle, at its keyboard poll (at most twice a second, or at *)
(* once when HSIDLE's idle() asks for it), detects a queue that has not   *)
(* moved since the last poll and restarts the transmitter.                 *)
(***************************************************************************)
EXTENDS Naturals, FiniteSets

CONSTANTS TXQ_SIZE,      \* slots in TXQUE
          WriteSizes,    \* byte counts the protocol passes to ComWriteStr
          AckLen,        \* bytes of the reply service_receive may send
          DiscardMin,    \* discard_TxQue clears only above this count (100)
          UWIDTH,        \* 2^16: range of the 16-bit unsigned arithmetic
          WRITE_MAX,     \* ComWriteMax(): TXQ_SIZE-250 in the code
          MaxTok,        \* bound on the number of bytes ever written
          MaxLostIrq,    \* bound on the number of THRE interrupts lost
          IdleMethod     \* WS.Option.IdleMethod (-i0 .. -i4)

ASSUME /\ TXQ_SIZE \in Nat \ {0}
       /\ WriteSizes \subseteq Nat \ {0}
       /\ AckLen \in Nat
       /\ DiscardMin \in Nat
       /\ UWIDTH > TXQ_SIZE
       /\ IdleMethod \in 0..4

VARIABLES slot,          \* TXQUE_qdata: the token stored in each slot
          next_in,       \* TXQUE.qnext_in
          next_out,      \* TXQUE.qnext_out
          qcount,        \* TXQUE.qcount
          txoff,         \* ComLL.TXoffActive: the remote sent XOFF
          cts,           \* CTS line from the modem
          lost,          \* the latched 'lost' of ComCarrierLost
          pc,            \* where the protocol thread is in ComWriteStr/ComFlush
          pending,       \* count of the ComWriteStr call waiting for room
          tok,           \* number of bytes written so far
          lastTx,        \* token of the byte the UART sent last (0: none)
          xmit,          \* ComLL.XmitActive: 0 idle, 1 interrupts running,
                         \* 2 a lost THRE interrupt was detected
          irq,           \* a THRE interrupt is on its way
          ptxq,          \* ptxq_count: TXQUE.qcount at the last poll
          pollDue,       \* TIMER_UP(poll_timeout) in ComIdle
          nlost,         \* THRE interrupts lost so far
          rcancel        \* WS.cancel_link = CANCEL_REMOTE

vars == <<slot, next_in, next_out, qcount, txoff, cts, lost, pc, pending,
          tok, lastTx, xmit, irq, ptxq, pollDue, nlost, rcancel>>

\* The two END_PACKET_CHR bytes discard_TxQue queues.  Writers keep room
\* for them below MaxTok, so that a discard is never cut off by the bound.
ENDS == 2

Slots == 0..TXQ_SIZE-1

\* Token placed in slot i by writing n bytes at next_in: the last of the n
\* bytes that lands there, if any.
Landing(i, n) == {k \in 0..n-1 : (next_in + k) % TXQ_SIZE = i}

TypeOK ==
    /\ slot \in [Slots -> 0..MaxTok]
    /\ next_in \in Slots /\ next_out \in Slots
    /\ qcount \in Nat
    /\ txoff \in BOOLEAN /\ cts \in BOOLEAN /\ lost \in BOOLEAN
    /\ pc \in {"run", "full", "svc", "resume", "flush"}
    /\ pending \in {0} \cup WriteSizes
    /\ tok \in 0..MaxTok /\ lastTx \in 0..MaxTok
    /\ xmit \in 0..2 /\ irq \in BOOLEAN /\ ptxq \in Nat
    /\ pollDue \in BOOLEAN /\ nlost \in 0..MaxLostIrq
    /\ rcancel \in BOOLEAN

-----------------------------------------------------------------------------
(* Mutants: plausible slips in the ring arithmetic (see PROJECT.json).     *)

RingPutWrapEarly(n) ==
    /\ slot' = [i \in Slots |->
                  LET ks == {k \in 0..n-1 : (next_in + k) % TXQ_SIZE = i}
                  IN IF ks = {} THEN slot[i]
                     ELSE tok + 1 + CHOOSE k \in ks : \A j \in ks : j <= k]
    /\ next_in' = IF next_in + n >= TXQ_SIZE - 1 THEN 0 ELSE next_in + n
    /\ qcount' = qcount + n
    /\ tok' = tok + n

RingPutNoWrap(n) ==
    /\ slot' = [i \in Slots |->
                  LET ks == {k \in 0..n-1 : (next_in + k) % TXQ_SIZE = i}
                  IN IF ks = {} THEN slot[i]
                     ELSE tok + 1 + CHOOSE k \in ks : \A j \in ks : j <= k]
    /\ next_in' = next_in + n
    /\ qcount' = qcount + n
    /\ tok' = tok + n

-----------------------------------------------------------------------------
(* The block move and the byte-by-byte copy of ComWriteStr: n numbered     *)
(* bytes are stored from qnext_in on, wrapping at the end of the ring, and *)
(* qnext_in and qcount are advanced (with interrupts disabled).            *)
RingPut(n) ==
    /\ slot' = [i \in Slots |->
                  IF Landing(i, n) = {} THEN slot[i]
                  ELSE tok + 1 + CHOOSE k \in Landing(i, n) :
                                   \A j \in Landing(i, n) : j <= k]
    /\ next_in' = (next_in + n) % TXQ_SIZE
    /\ qcount' = qcount + n
    /\ tok' = tok + n

\* The "wait here if output buffer is full" test of ComWriteStr, computed in
\* 16-bit unsigned arithmetic as the C expression is.
RingFull(n) == qcount > (TXQ_SIZE - 1 - n) % UWIDTH

\* ComLL.XmitHeld: the remote holds our output with XOFF or by dropping CTS.
XmitHeld == txoff \/ ~cts

\* LL_startTransmit(): force a THRE interrupt to get output rolling.
LL_startTransmit == xmit' = 1 /\ irq' = TRUE

\* The end of every ComWriteStr that wrote: 'if (ComLL.XmitActive != 1)
\* LL_startTransmit(); ptxq_count = 0;'.
WriteKick ==
    /\ IF xmit /= 1 THEN LL_startTransmit ELSE UNCHANGED <<xmit, irq>>
    /\ ptxq' = 0

\* discard_TxQue: above DiscardMin queued bytes the ring is reset and the
\* two END_PACKET_CHR bytes are queued by ComWriteChar (whose kick finds
\* XmitActive already 1 and only clears ptxq_count); otherwise nothing.
\* ComCancelXoff sends our XON, which is the receive side's business.
DiscardRing ==
    IF qcount > DiscardMin
    THEN /\ slot' = [i \in Slots |-> IF i < ENDS THEN tok + 1 + i ELSE slot[i]]
         /\ next_in' = ENDS % TXQ_SIZE /\ next_out' = 0 /\ qcount' = ENDS
         /\ tok' = tok + ENDS
         /\ ptxq' = 0
    ELSE /\ UNCHANGED <<slot, next_in, next_out, qcount, tok>>
         /\ ptxq' = qcount

RingVars == <<slot, next_in, next_out, qcount, tok>>

\* idle() of HSIDLE.C: 1 (check the keyboard now) only under -i1 with a key
\* waiting; -i0 returns at once and -i2..-i4 give the time slice to
\* DESQview, DoubleDOS or Windows, which changes nothing HSLINK reads.
IdleReturn(key) == IdleMethod = 1 /\ key

\* Mutant (see PROJECT.json).
ComIdleTxNoSnapshot ==
    \E key \in BOOLEAN :
      LET paused == XmitHeld /\ xmit /= 1 /\ qcount /= 0
          x1 == IF paused THEN 1 ELSE xmit
          i1 == irq \/ paused
      IN IF pollDue \/ IdleReturn(key)
         THEN \E thre \in (IF i1 THEN BOOLEAN ELSE {TRUE}) :
                LET stalled == ~XmitHeld /\ qcount /= 0 /\ qcount = ptxq /\ thre
                    x2 == IF stalled /\ x1 = 1 THEN 2 ELSE x1
                    restart == x2 /= 1 /\ qcount /= 0
                IN /\ pollDue' = FALSE
                   /\ xmit' = IF restart THEN 1 ELSE x2
                   /\ irq' = (i1 \/ restart)
                   /\ IF rcancel THEN DiscardRing
                      ELSE UNCHANGED <<ptxq, slot, next_in, next_out, qcount,
                                       tok>>
         ELSE /\ xmit' = x1 /\ irq' = i1
              /\ UNCHANGED <<pollDue, ptxq>> /\ UNCHANGED RingVars

\* ComIdle()'s transmit side: restart output after a flow pause; dispose
\* of idle time (idle()); unless the poll timer is up or idle() asked for
\* it, return; else re-arm the timer, and if the queue is not held, not
\* empty, has not moved since the last poll and the UART's THR is empty,
\* take it for a lost THRE interrupt (XmitActive = 2); remember qcount;
\* restart output if the transmitter is not active; after a remote cancel,
\* discard_TxQue.  (Its receive side and keyboard are the ComRxFlow and
\* HsLink models; the keyboard cancel's discard and CAN burst are left to
\* HsLink.)
ComIdleTx ==
    \E key \in BOOLEAN :
      LET paused == XmitHeld /\ xmit /= 1 /\ qcount /= 0
          x1 == IF paused THEN 1 ELSE xmit
          i1 == irq \/ paused
      IN IF pollDue \/ IdleReturn(key)
         THEN \E thre \in (IF i1 THEN BOOLEAN ELSE {TRUE}) :
                LET stalled == ~XmitHeld /\ qcount /= 0 /\ qcount = ptxq /\ thre
                    x2 == IF stalled /\ x1 = 1 THEN 2 ELSE x1
                    restart == x2 /= 1 /\ qcount /= 0
                IN /\ pollDue' = FALSE
                   /\ xmit' = IF restart THEN 1 ELSE x2
                   /\ irq' = (i1 \/ restart)
                   /\ IF rcancel THEN DiscardRing
                      ELSE ptxq' = qcount /\ UNCHANGED RingVars
         ELSE /\ xmit' = x1 /\ irq' = i1
              /\ UNCHANGED <<pollDue, ptxq>> /\ UNCHANGED RingVars

\* ComWriteStr(src, n) entered by the protocol thread: either the bytes go
\* in at once, or the call goes to its single idle pass.
ComWriteStr(n) ==
    /\ pc = "run"
    /\ tok + n + ENDS <= MaxTok
    /\ IF RingFull(n)
       THEN /\ pc' = "full" /\ pending' = n
            /\ UNCHANGED <<slot, next_in, qcount, tok, xmit, irq, ptxq>>
       ELSE /\ RingPut(n) /\ WriteKick
            /\ UNCHANGED <<pc, pending>>
    /\ UNCHANGED <<next_out, txoff, cts, lost, lastTx, pollDue, nlost, rcancel>>

\* The idle pass of a full ComWriteStr: ComIdle(140) ...
ComWriteStrIdle ==
    /\ pc = "full" /\ pc' = "svc"
    /\ ComIdleTx
    /\ UNCHANGED <<txoff, cts, lost, pending, lastTx, nlost, rcancel>>

\* ... then service_receive, which may answer a received packet with an ACK
\* written through a nested ComWriteStr.
ServiceReceive ==
    /\ pc = "svc" /\ pc' = "resume"
    /\ \/ UNCHANGED <<slot, next_in, qcount, tok, xmit, irq, ptxq>>
       \/ /\ AckLen > 0 /\ tok + pending + AckLen + ENDS <= MaxTok
          /\ RingPut(AckLen) /\ WriteKick
    /\ UNCHANGED <<next_out, txoff, cts, lost, pending, lastTx, pollDue, nlost,
                   rcancel>>

\* After the idle pass ComWriteStr returns without writing if the carrier is
\* gone, and otherwise copies its bytes whether or not room was made.
ComWriteStrCopy ==
    /\ pc = "resume"
    /\ pc' = "run" /\ pending' = 0
    /\ IF lost THEN UNCHANGED <<slot, next_in, qcount, tok, xmit, irq, ptxq>>
               ELSE RingPut(pending) /\ WriteKick
    /\ UNCHANGED <<next_out, txoff, cts, lost, lastTx, pollDue, nlost, rcancel>>

\* ComFlush(cancel): a non-zero cancel forgets a pending XOFF from the remote;
\* then the thread idles until the ring is empty or the carrier is lost.
ComFlushStart(cancel) ==
    /\ pc = "run"
    /\ pc' = "flush"
    /\ txoff' = (txoff /\ ~cancel)
    /\ UNCHANGED <<slot, next_in, next_out, qcount, cts, lost, pending,
                   tok, lastTx, xmit, irq, ptxq, pollDue, nlost, rcancel>>

\* One ComIdle(110+cancel) of ComFlush's loop.
FlushIdle ==
    /\ pc = "flush" /\ qcount /= 0 /\ ~lost
    /\ ComIdleTx
    /\ UNCHANGED <<txoff, cts, lost, pc, pending, lastTx, nlost, rcancel>>

ComFlushEnd ==
    /\ pc = "flush"
    /\ qcount = 0 \/ lost
    /\ pc' = "run"
    /\ UNCHANGED <<slot, next_in, next_out, qcount, txoff, cts, lost,
                   pending, tok, lastTx, xmit, irq, ptxq, pollDue, nlost,
                   rcancel>>

\* The ComIdle calls of the protocol's own waits between writes.
ProtocolIdle ==
    /\ pc = "run"
    /\ ComIdleTx
    /\ UNCHANGED <<txoff, cts, lost, pc, pending, lastTx, nlost, rcancel>>

-----------------------------------------------------------------------------
(* The environment: the transmit interrupt, the remote's flow control and *)
(* the BIOS clock.                                                         *)

\* THRE interrupt: unless held by XOFF or CTS the handler sends the byte at
\* qnext_out, and the next THRE interrupt follows; with nothing to send, or
\* held, the transmitter goes idle.
UartTx ==
    /\ irq
    /\ IF qcount > 0 /\ ~XmitHeld
       THEN /\ lastTx' = slot[next_out]
            /\ next_out' = (next_out + 1) % TXQ_SIZE
            /\ qcount' = qcount - 1
            /\ UNCHANGED <<xmit, irq>>
       ELSE /\ xmit' = 0 /\ irq' = FALSE
            /\ UNCHANGED <<lastTx, next_out, qcount>>
    /\ UNCHANGED <<slot, next_in, txoff, cts, lost, pc, pending, tok, ptxq,
                   pollDue, nlost, rcancel>>

\* A THRE interrupt is lost: XmitActive stays 1 and nothing sends.
LoseThre ==
    /\ irq /\ nlost < MaxLostIrq
    /\ irq' = FALSE /\ nlost' = nlost + 1
    /\ UNCHANGED <<slot, next_in, next_out, qcount, txoff, cts, lost, pc,
                   pending, tok, lastTx, xmit, ptxq, pollDue, rcancel>>

\* The BIOS clock passes poll_timeout (KEYBOARD_POLL_TIME after the poll).
Tick ==
    /\ ~pollDue /\ pollDue' = TRUE
    /\ UNCHANGED <<slot, next_in, next_out, qcount, txoff, cts, lost, pc,
                   pending, tok, lastTx, xmit, irq, ptxq, nlost, rcancel>>

\* The remote sends XON/XOFF or changes CTS.
RemoteFlow ==
    /\ \E x, c \in BOOLEAN : txoff' = x /\ cts' = c
    /\ <<txoff', cts'>> /= <<txoff, cts>>
    /\ UNCHANGED <<slot, next_in, next_out, qcount, lost, pc, pending, tok,
                   lastTx, xmit, irq, ptxq, pollDue, nlost, rcancel>>

\* The engine's service_receive takes the remote's cancel packet and calls
\* set_cancel_link(CANCEL_REMOTE), which stays set.
RemoteCancel ==
    /\ ~rcancel /\ rcancel' = TRUE
    /\ UNCHANGED <<slot, next_in, next_out, qcount, txoff, cts, lost, pc,
                   pending, tok, lastTx, xmit, irq, ptxq, pollDue, nlost>>

\* ComCarrierLost finds RLSD low in the MSR and latches 'lost'.  Its
\* exemption while received bytes are pending concerns RXQUE, which this
\* module leaves out, so the moment it latches is left open.
CarrierLost ==
    /\ ~lost /\ lost' = TRUE
    /\ UNCHANGED <<slot, next_in, next_out, qcount, txoff, cts, pc, pending,
                   tok, lastTx, xmit, irq, ptxq, pollDue, nlost, rcancel>>

-----------------------------------------------------------------------------
\* com_reinit() and the statics: XmitActive 0, empty ring, ptxq_count 0 and
\* poll_timeout 0 (the first poll is due at once).
Init ==
    /\ slot = [i \in Slots |-> 0]
    /\ next_in = 0 /\ next_out = 0 /\ qcount = 0
    /\ txoff = FALSE /\ cts = TRUE /\ lost = FALSE
    /\ pc = "run" /\ pending = 0
    /\ tok = 0 /\ lastTx = 0
    /\ xmit = 0 /\ irq = FALSE /\ ptxq = 0 /\ pollDue = TRUE /\ nlost = 0
    /\ rcancel = FALSE

\* The protocol engine (HDK, not in this repository) waits in its idle loop
\* until ComWritePending() <= ComWriteMax() before it writes a packet, so
\* that ComWriteStr never finds the ring full (spec: write_when_space).
WriteWhenSpace(n) ==
    /\ qcount <= WRITE_MAX
    /\ ComWriteStr(n)

Environment ==
    UartTx \/ LoseThre \/ Tick \/ RemoteFlow \/ RemoteCancel \/ CarrierLost

\* Every caller of ComWriteStr, whether or not it checked ComWriteMax first.
Next ==
    \/ \E n \in WriteSizes : ComWriteStr(n)
    \/ ComWriteStrIdle
    \/ ServiceReceive
    \/ ComWriteStrCopy
    \/ \E cancel \in BOOLEAN : ComFlushStart(cancel)
    \/ FlushIdle
    \/ ComFlushEnd
    \/ ProtocolIdle
    \/ Environment

Spec == Init /\ [][Next]_vars

\* Only writers that respect ComWriteMax.
GuardedNext ==
    \/ \E n \in WriteSizes : WriteWhenSpace(n)
    \/ \E cancel \in BOOLEAN : ComFlushStart(cancel)
    \/ FlushIdle
    \/ ComFlushEnd
    \/ ProtocolIdle
    \/ Environment

\* The interrupt handler runs whenever an interrupt is due, the clock keeps
\* ticking and the protocol thread keeps running its flush loop; the remote
\* and the protocol's choice to write or flush get no fairness.
GuardedSpec ==
    /\ Init /\ [][GuardedNext]_vars
    /\ WF_vars(UartTx) /\ WF_vars(Tick)
    /\ WF_vars(FlushIdle) /\ WF_vars(ComFlushEnd)

-----------------------------------------------------------------------------
(* Properties.                                                             *)

\* The bytes in the ring, oldest first, as the transmit interrupt will see
\* them.
RingContents == [i \in 1..qcount |-> slot[(next_out + i - 1) % TXQ_SIZE]]

Fifo == INSTANCE TxFifo WITH queue <- RingContents

\* TXQUE behaves as a FIFO queue (TxFifo): what ComWriteStr, its nested ACK
\* write and discard_TxQue put into the ring is sent by the transmit
\* interrupt in order, once, and nothing else is sent.
TxFifoRefined == Fifo!Spec

\* ComWriteStr never puts more bytes into TXQUE than it has slots, whatever
\* the remote's flow control and the service_receive inside the wait do.
NoTxOverflow == qcount <= TXQ_SIZE

\* ComFlush returns once the remote stops holding our output for good, even
\* when a THRE interrupt was lost on the way: ComIdle's keyboard poll finds
\* the queue unmoved since the previous poll and restarts the transmitter.
FlushReturns == (<>[]~XmitHeld) => (pc = "flush" ~> pc = "run")
=============================================================================
