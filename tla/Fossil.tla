------------------------------- MODULE Fossil -------------------------------
(***************************************************************************)
(* The FOSSIL variant of the COM library (FOSSIL.C): the same Com* calls   *)
(* as HSCOMM.C, implemented over a resident FOSSIL driver that owns the    *)
(* output buffer.  Modelled here: the driver's output buffer and its       *)
(* transmitter, held by the remote's flow control; ComWriteStr, which      *)
(* retries fSendBlk until the driver has taken every byte; ComWriteChar,   *)
(* which between retries idles, runs service_receive (which may write an   *)
(* ACK of its own) and gives up on a lost carrier; ComIdle's RTS release   *)
(* and its discard on a remote cancel; ComFlush with ComWritePending's     *)
(* 'fudge'; and the ComIoStart/ComIoEnd slow-handshake region, which here  *)
(* only lowers and raises RTS.  Bytes are numbered in the order the driver *)
(* accepts them, so that the buffer can be compared with TxFifo.           *)
(***************************************************************************)
EXTENDS Integers, Sequences

CONSTANTS OBUF,          \* fInfo.obufr: size of the driver's output buffer
          Slack,         \* what the driver adds to obufr-ofree when empty
          WriteSizes,    \* counts the protocol passes to ComWriteStr
          AckLen,        \* bytes of the reply service_receive may write
          RtsHandshake,  \* WS.Option.RtsHandshake
          RequireCarrier,\* WS.Option.RequireCarrier
          MaxTok,        \* bound on the bytes written
          IBUF,          \* fInfo.ibufr: size of the driver's input buffer
          ReadSizes,     \* bufsiz the engine passes to ComReadStr
          MaxRx          \* bound on the bytes the remote sends

ASSUME /\ OBUF >= 2 /\ Slack \in {0, 1}
       /\ WriteSizes \subseteq Nat \ {0} /\ AckLen \in Nat \ {0}
       /\ {RtsHandshake, RequireCarrier} \subseteq BOOLEAN

VARIABLES obuf,     \* bytes in the driver's output buffer, oldest first
          tok,      \* bytes the driver has accepted so far
          lastTx,   \* the byte the driver transmitted last (0: none)
          held,     \* the remote holds our transmitter (CTS low or XOFF)
          carrier,  \* carrier detect
          lost,     \* ComCarrierLost's static latch
          cancel,   \* WS.cancel_link
          pc,       \* where the protocol thread is
          wlen,     \* count passed to the ComWriteStr in progress
          wrem,     \* its bytes not yet taken by the driver
          wbase,    \* tok when it started
          fudge,    \* ComWritePending's static fudge
          iolevel,  \* WS.IoLevel
          slow,     \* WS.Option.SlowHandshake
          rts,      \* RtsActive
          ibuf,     \* bytes in the driver's input buffer, oldest first
          rtok,     \* bytes the remote has sent so far
          rgot      \* bytes the protocol has read so far

rxvars == <<ibuf, rtok, rgot>>

vars == <<obuf, tok, lastTx, held, carrier, lost, cancel, pc, wlen, wrem,
          wbase, fudge, iolevel, slow, rts, rxvars>>

\* "chr": ComWriteChar's idle pass is next; "chrack": the ACK written by
\* service_receive inside it; "chrchk": its carrier check and retry.
\* "rd": ComReadChar's wait loop; "rdchk": its carrier check.
PCs == {"run", "blk", "chridle", "chrack", "chrchk", "flush", "hold", "io",
        "rd", "rdchk"}

Writing == pc \in {"blk", "chridle", "chrack", "chrchk"}

Room == OBUF - Len(obuf)

TypeOK ==
    /\ obuf \in Seq(1..MaxTok) /\ Len(obuf) <= OBUF
    /\ tok \in 0..MaxTok /\ lastTx \in 0..MaxTok
    /\ {held, carrier, lost, slow, rts} \subseteq BOOLEAN
    /\ cancel \in {"NONE", "REMOTE", "CARRIER_LOST"}
    /\ pc \in PCs /\ wrem \in 0..wlen /\ wbase \in 0..MaxTok
    /\ fudge \in {0, 1} /\ iolevel \in Nat
    /\ ibuf \in Seq(1..MaxRx) /\ Len(ibuf) <= IBUF
    /\ rtok \in 0..MaxRx /\ rgot \in 0..MaxRx

\* lowerRTS / raiseRTS: RtsActive records the last level set, and a call
\* that would not change it returns at once.
LowerRTS == rts' = FALSE
RaiseRTS == rts' = TRUE

-----------------------------------------------------------------------------
(* Mutants (see PROJECT.json).                                             *)

SendBlkNoAdvance ==
    /\ pc \in {"blk", "chrack"}
    /\ LET k == IF wrem < Room THEN wrem ELSE Room
       IN /\ obuf' = obuf \o [i \in 1..k |-> wbase + i]
          /\ tok' = tok + k
          /\ wrem' = wrem - k
          /\ pc' = IF k = wrem THEN (IF pc = "blk" THEN "run" ELSE "chrchk")
                   ELSE pc
    /\ UNCHANGED <<rxvars, lastTx, held, carrier, lost, cancel, wlen, wbase, fudge,
                   iolevel, slow, rts>>

SendBlkIgnoreRoom ==
    /\ pc \in {"blk", "chrack"}
    /\ obuf' = obuf \o [i \in 1..wrem |-> wbase + (wlen - wrem) + i]
    /\ tok' = tok + wrem
    /\ wrem' = 0
    /\ pc' = IF pc = "blk" THEN "run" ELSE "chrchk"
    /\ UNCHANGED <<rxvars, lastTx, held, carrier, lost, cancel, wlen, wbase, fudge,
                   iolevel, slow, rts>>

SendBlkCompareTotal ==
    /\ pc \in {"blk", "chrack"}
    /\ LET k == IF wrem < Room THEN wrem ELSE Room
       IN /\ obuf' = obuf \o [i \in 1..k |-> wbase + (wlen - wrem) + i]
          /\ tok' = tok + k
          /\ wrem' = wrem - k
          /\ pc' = IF k = wlen THEN (IF pc = "blk" THEN "run" ELSE "chrchk")
                   ELSE pc
    /\ UNCHANGED <<rxvars, lastTx, held, carrier, lost, cancel, wlen, wbase, fudge,
                   iolevel, slow, rts>>

IdleRaiseRTSAlways == IF RtsHandshake THEN RaiseRTS ELSE UNCHANGED rts

-----------------------------------------------------------------------------
(* FOSSIL.C                                                                *)

\* One fSendBlk call of ComWriteStr's loop: the driver takes what fits; the
\* loop ends when it took the whole remaining count, otherwise count and
\* src advance by what was taken and the call is retried at once.
SendBlk ==
    /\ pc \in {"blk", "chrack"}
    /\ LET k == IF wrem < Room THEN wrem ELSE Room
       IN /\ obuf' = obuf \o [i \in 1..k |-> wbase + (wlen - wrem) + i]
          /\ tok' = tok + k
          /\ wrem' = wrem - k
          /\ pc' = IF k = wrem THEN (IF pc = "blk" THEN "run" ELSE "chrchk")
                   ELSE pc
    /\ UNCHANGED <<rxvars, lastTx, held, carrier, lost, cancel, wlen, wbase, fudge,
                   iolevel, slow, rts>>

\* ComWriteStr(src, count) called by the protocol.
ComWriteStr(n) ==
    /\ pc = "run" /\ tok + n <= MaxTok
    /\ pc' = "blk" /\ wlen' = n /\ wrem' = n /\ wbase' = tok
    /\ UNCHANGED <<rxvars, obuf, tok, lastTx, held, carrier, lost, cancel, fudge,
                   iolevel, slow, rts>>

\* ComWriteChar(c): fSendChN; on success return, otherwise start waiting.
ComWriteChar ==
    /\ pc = "run" /\ tok + 1 + AckLen <= MaxTok
    /\ IF Room > 0
       THEN obuf' = Append(obuf, tok + 1) /\ tok' = tok + 1
            /\ UNCHANGED pc
       ELSE pc' = "chridle" /\ UNCHANGED <<obuf, tok>>
    /\ UNCHANGED <<rxvars, lastTx, held, carrier, lost, cancel, wlen, wrem, wbase,
                   fudge, iolevel, slow, rts>>

\* ComIdle's RTS release: outside any slow-handshake region RTS is raised
\* (raiseRTS does nothing if it is up already).
IdleRaiseRTS == IF RtsHandshake /\ iolevel = 0 THEN RaiseRTS ELSE UNCHANGED rts

\* discard_TxQue: fPurgeOut, then two END_PACKET_CHR through ComWriteChar
\* (the purged buffer has room for them).
DiscardTxQue ==
    /\ obuf' = <<tok + 1, tok + 2>>
    /\ tok' = tok + 2

\* The byte ComWriteChar still owes keeps its number free (model bound).
Reserve == IF pc = "chridle" THEN 1 ELSE 0

\* ComIdle(where) as far as the transport goes: release RTS; then, if the
\* keyboard poll timer is up, discard the output on a remote cancel.
IdleWork ==
    /\ IdleRaiseRTS
    /\ \/ UNCHANGED <<obuf, tok>>
       \/ /\ cancel = "REMOTE" /\ tok + 2 + Reserve <= MaxTok
          /\ DiscardTxQue

\* ComReadPending(): fInfo.ibufr-fInfo.ifree, the bytes the driver holds.
ReadPending == Len(ibuf)

\* fReceiveBlk: copy what is waiting, at most n bytes, without waiting;
\* the count copied is returned in AX.
ReceiveBlk(n) ==
    /\ LET k == IF n < ReadPending THEN n ELSE ReadPending
       IN ibuf' = SubSeq(ibuf, k + 1, Len(ibuf)) /\ rgot' = rgot + k
    /\ UNCHANGED rtok

\* ComCarrierLost(): the latch answers at once; otherwise no carrier is
\* required, or received data still waiting, means 'not lost'.
CarrierCheck ==
    /\ lost' = (lost \/ (RequireCarrier /\ ReadPending = 0 /\ ~carrier))
    /\ cancel' = IF lost' /\ ~lost /\ cancel = "NONE" THEN "CARRIER_LOST"
                 ELSE cancel

\* ComWriteChar's wait: ComIdle(140), then service_receive, which reads
\* what has arrived through ComReadStr and may send an ACK through a
\* nested ComWriteStr.
ChrIdle ==
    /\ pc = "chridle"
    /\ IdleWork
    /\ \/ UNCHANGED rxvars
       \/ \E n \in ReadSizes : ReceiveBlk(n)
    /\ \/ pc' = "chrchk" /\ UNCHANGED <<wlen, wrem, wbase>>
       \/ /\ tok' + AckLen < MaxTok
          /\ pc' = "chrack" /\ wlen' = AckLen /\ wrem' = AckLen
          /\ wbase' = tok'
    /\ UNCHANGED <<lastTx, held, carrier, lost, cancel, fudge, iolevel, slow>>

\* The carrier check ending ComWriteChar's wait (the character is dropped),
\* or the next fSendChN.
ChrCheck ==
    /\ pc = "chrchk"
    /\ CarrierCheck
    /\ IF lost' THEN pc' = "run" /\ UNCHANGED <<obuf, tok>>
       ELSE IF Room > 0 THEN obuf' = Append(obuf, tok + 1)
                             /\ tok' = tok + 1 /\ pc' = "run"
       ELSE pc' = "chridle" /\ UNCHANGED <<obuf, tok>>
    /\ UNCHANGED <<rxvars, lastTx, held, carrier, wlen, wrem, wbase, fudge, iolevel,
                   slow, rts>>

\* ComIdle called from the protocol's own waits.
ComIdle ==
    /\ pc = "run"
    /\ IdleWork
    /\ UNCHANGED <<rxvars, lastTx, held, carrier, lost, cancel, pc, wlen, wrem, wbase,
                   fudge, iolevel, slow>>

\* ComWritePending(): obufr-ofree-fudge; a result of -1 shows a driver that
\* reports 0 when empty, and fudge is dropped for good.
Pending == Len(obuf) + Slack - fudge

ComFlushStart ==
    /\ pc = "run" /\ pc' = "flush"
    /\ UNCHANGED <<rxvars, obuf, tok, lastTx, held, carrier, lost, cancel, wlen, wrem,
                   wbase, fudge, iolevel, slow, rts>>

\* One test of ComFlush's loop 'while (ComWritePending() &&
\* !ComCarrierLost()) ComIdle(110)'.
FlushPass ==
    /\ pc = "flush"
    /\ fudge' = IF Pending = -1 THEN 0 ELSE fudge
    /\ IF Pending <= 0
       THEN pc' = "run" /\ UNCHANGED <<lost, cancel, obuf, tok, rts>>
       ELSE /\ CarrierCheck
            /\ IF lost' THEN pc' = "run" /\ UNCHANGED <<obuf, tok, rts>>
                        ELSE IdleWork /\ UNCHANGED pc
    /\ UNCHANGED <<rxvars, lastTx, held, carrier, wlen, wrem, wbase, iolevel, slow>>

\* ComIoStart: the outermost call, with slow handshake on, lowers RTS and
\* waits for the line to go quiet.
ComIoStart ==
    /\ pc = "run"
    /\ iolevel' = iolevel + 1
    /\ IF iolevel' = 1 /\ slow
       THEN /\ IF RtsHandshake THEN LowerRTS ELSE UNCHANGED rts
            /\ pc' = "hold"
       ELSE pc' = "io" /\ UNCHANGED rts
    /\ UNCHANGED <<rxvars, obuf, tok, lastTx, held, carrier, lost, cancel, wlen, wrem,
                   wbase, fudge, slow>>

\* One ComIdle(where+2000) of the hold loop.
HoldPass ==
    /\ pc = "hold"
    /\ IdleWork
    /\ UNCHANGED <<rxvars, lastTx, held, carrier, lost, cancel, pc, wlen, wrem, wbase,
                   fudge, iolevel, slow>>

\* hold_timeout expires: the region is entered.
HoldQuiet ==
    /\ pc = "hold" /\ pc' = "io"
    /\ UNCHANGED <<rxvars, obuf, tok, lastTx, held, carrier, lost, cancel, wlen, wrem,
                   wbase, fudge, iolevel, slow, rts>>

\* fail_timeout expires: ComIoEnd(where+1000), slow handshake off.
HoldFail ==
    /\ pc = "hold" /\ pc' = "io"
    /\ iolevel' = IF iolevel > 0 THEN iolevel - 1 ELSE 0
    /\ IF iolevel' = 0 /\ RtsHandshake THEN RaiseRTS ELSE UNCHANGED rts
    /\ slow' = FALSE
    /\ UNCHANGED <<rxvars, obuf, tok, lastTx, held, carrier, lost, cancel, wlen, wrem,
                   wbase, fudge>>

\* ComIoEnd: the outermost exit raises RTS if slow handshake is on.
ComIoEnd ==
    /\ pc = "io" /\ pc' = "run"
    /\ iolevel' = IF iolevel > 0 THEN iolevel - 1 ELSE 0
    /\ IF iolevel' = 0 /\ slow /\ RtsHandshake THEN RaiseRTS
       ELSE UNCHANGED rts
    /\ UNCHANGED <<rxvars, obuf, tok, lastTx, held, carrier, lost, cancel, wlen, wrem,
                   wbase, fudge, slow>>

\* One byte from the driver (fReceiveChN or fReceiveCh).
TakeByte == ibuf' = Tail(ibuf) /\ rgot' = rgot + 1

\* ComReadChar(): fReceiveChN returns a waiting byte at once; with none
\* waiting the slower wait loop starts.
ComReadChar ==
    /\ pc = "run"
    /\ IF ReadPending > 0 THEN TakeByte /\ UNCHANGED pc
       ELSE pc' = "rd" /\ UNCHANGED <<ibuf, rgot>>
    /\ UNCHANGED <<rtok, obuf, tok, lastTx, held, carrier, lost, cancel, wlen,
                   wrem, wbase, fudge, iolevel, slow, rts>>

\* The test of 'while (!ComReadPending()) { ComIdle(120); ... }': with data
\* waiting, fReceiveCh returns it; otherwise one ComIdle(120).
ReadWait ==
    /\ pc = "rd"
    /\ IF ReadPending > 0
       THEN TakeByte /\ pc' = "run" /\ UNCHANGED <<obuf, tok, rts>>
       ELSE IdleWork /\ pc' = "rdchk" /\ UNCHANGED <<ibuf, rgot>>
    /\ UNCHANGED <<rtok, lastTx, held, carrier, lost, cancel, wlen, wrem, wbase,
                   fudge, iolevel, slow>>

\* Mutant (see PROJECT.json).
ReadCheckNoReturn ==
    /\ pc = "rdchk"
    /\ CarrierCheck
    /\ pc' = "rd"
    /\ UNCHANGED <<rxvars, obuf, tok, lastTx, held, carrier, wlen, wrem, wbase,
                   fudge, iolevel, slow, rts>>

\* 'if (ComCarrierLost()) return END_PACKET_CHR;' ends the wait with the
\* end-of-packet byte in place of data.
ReadCheck ==
    /\ pc = "rdchk"
    /\ CarrierCheck
    /\ pc' = IF lost' THEN "run" ELSE "rd"
    /\ UNCHANGED <<rxvars, obuf, tok, lastTx, held, carrier, wlen, wrem, wbase,
                   fudge, iolevel, slow, rts>>

\* ComReadStr(dest, bufsiz): fReceiveBlk copies what is waiting, at most
\* bufsiz bytes, without waiting, and the count it returns in AX is what
\* ComReadStr returns.
ComReadStr(n) ==
    /\ pc = "run"
    /\ ReceiveBlk(n)
    /\ UNCHANGED <<obuf, tok, lastTx, held, carrier, lost, cancel, pc,
                   wlen, wrem, wbase, fudge, iolevel, slow, rts>>

-----------------------------------------------------------------------------
(* The FOSSIL driver, the remote and the engine, from the specification.   *)

\* The driver transmits the oldest byte while the remote lets it.
DriverTx ==
    /\ obuf /= <<>> /\ ~held
    /\ lastTx' = Head(obuf) /\ obuf' = Tail(obuf)
    /\ UNCHANGED <<rxvars, tok, held, carrier, lost, cancel, pc, wlen, wrem, wbase,
                   fudge, iolevel, slow, rts>>

\* The remote stops or restarts our transmitter.
RemoteFlow ==
    /\ held' = ~held
    /\ UNCHANGED <<rxvars, obuf, tok, lastTx, carrier, lost, cancel, pc, wlen, wrem,
                   wbase, fudge, iolevel, slow, rts>>

\* The remote sends a byte; the driver's own flow control holds the remote
\* while its input buffer is full.
RemoteSend ==
    /\ carrier /\ rtok < MaxRx /\ ReadPending < IBUF
    /\ ibuf' = Append(ibuf, rtok + 1) /\ rtok' = rtok + 1
    /\ UNCHANGED <<rgot, obuf, tok, lastTx, held, carrier, lost, cancel, pc,
                   wlen, wrem, wbase, fudge, iolevel, slow, rts>>

\* The carrier drops.
CarrierDrop ==
    /\ carrier /\ carrier' = FALSE
    /\ UNCHANGED <<rxvars, obuf, tok, lastTx, held, lost, cancel, pc, wlen, wrem,
                   wbase, fudge, iolevel, slow, rts>>

\* service_receive sees six CANs from the remote: set_cancel_link.
RemoteCancel ==
    /\ cancel = "NONE" /\ cancel' = "REMOTE"
    /\ UNCHANGED <<rxvars, obuf, tok, lastTx, held, carrier, lost, pc, wlen, wrem,
                   wbase, fudge, iolevel, slow, rts>>

-----------------------------------------------------------------------------
\* After ComOpen: the output buffer purged, RTS up, nothing held.
Init ==
    /\ obuf = <<>> /\ tok = 0 /\ lastTx = 0
    /\ held = FALSE /\ carrier = TRUE /\ lost = FALSE /\ cancel = "NONE"
    /\ pc = "run" /\ wlen = 0 /\ wrem = 0 /\ wbase = 0
    /\ fudge = 1 /\ iolevel = 0 /\ slow \in BOOLEAN /\ rts = TRUE
    /\ ibuf = <<>> /\ rtok = 0 /\ rgot = 0

Next ==
    \/ \E n \in WriteSizes : ComWriteStr(n)
    \/ SendBlk \/ ComWriteChar \/ ChrIdle \/ ChrCheck \/ ComIdle
    \/ ComFlushStart \/ FlushPass
    \/ ComIoStart \/ HoldPass \/ HoldQuiet \/ HoldFail \/ ComIoEnd
    \/ ComReadChar \/ ReadWait \/ ReadCheck \/ \E n \in ReadSizes : ComReadStr(n)
    \/ DriverTx \/ RemoteSend \/ RemoteFlow \/ CarrierDrop \/ RemoteCancel

\* The thread never blocks outside these loops, so each of its enabled
\* steps is eventually taken; the driver sends whenever it is allowed to.
Fairness ==
    /\ WF_vars(SendBlk) /\ WF_vars(ChrIdle) /\ WF_vars(ChrCheck)
    /\ WF_vars(FlushPass) /\ WF_vars(HoldQuiet) /\ WF_vars(ComIoEnd)
    /\ WF_vars(ReadWait) /\ WF_vars(ReadCheck)
    /\ SF_vars(DriverTx)

Spec == Init /\ [][Next]_vars /\ Fairness

-----------------------------------------------------------------------------
(* Properties.                                                             *)

Fifo == INSTANCE TxFifo WITH queue <- obuf

\* The driver's buffer behaves as the FIFO of TxFifo: the pieces of a
\* ComWriteStr retried by fSendBlk, the single bytes of ComWriteChar, the
\* ACK written inside its wait and the END bytes of discard_TxQue reach the
\* line in the order the driver accepted them, none twice.
TxFifoRefined == Fifo!Spec

\* Every write returns once the remote lets the driver send again and again:
\* ComWriteStr's retry loop and ComWriteChar's wait do not spin forever.
WritesCompleteWhenLineFree == ([]<>~held) => (Writing ~> ~Writing)

\* While the thread is inside a slow-handshake region, RTS stays low: the
\* ComIdle passes of the hold loop do not raise it.
RtsHeldInRegion ==
    (pc = "io" /\ slow /\ iolevel > 0 /\ RtsHandshake) => ~rts

\* Spec 4.1: a write never blocks indefinitely; once the carrier is gone a
\* write in progress returns.
WritesEndAfterCarrierLoss == (Writing /\ ~carrier) ~> ~Writing

\* ComReadChar's wait for data returns, with END_PACKET_CHR, once the
\* carrier is gone: the loop's ComCarrierLost test ends it.
ReadsEndAfterCarrierLoss ==
    (pc \in {"rd", "rdchk"} /\ ~carrier) ~> (pc \notin {"rd", "rdchk"})
====
