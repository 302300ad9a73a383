------------------------------ MODULE ComRxFlow ------------------------------
(***************************************************************************)
(* The receive side of the interrupt driven COM driver (HSCOMM.C) and its  *)
(* flow control.  The receive interrupt puts the remote's bytes into       *)
(* RXQUE and, above a high-water mark, stops the remote with XOFF and/or   *)
(* by lowering RTS; the remote may still send a few bytes (the skid) after *)
(* it is stopped.  The protocol thread takes bytes out with ComReadStr and *)
(* releases the flow once the queue is at or below QLOW_WATER, in          *)
(* ComReadStr and in ComIdle, but only outside a slow-handshake region     *)
(* (WS.IoLevel = 0).  Disk I/O is bracketed by ComIoStart/ComIoEnd: with   *)
(* SlowHandshake on, ComIoStart stops the remote and idles until the line  *)
(* is quiet (or gives up and turns slow handshake off), and ComIoEnd       *)
(* restarts it.  ComReportErrors turns UART errors into counters, switches *)
(* slow handshake on after MAX_OVERRUN overruns and cancels the link after *)
(* more than MAX_FRAMING framing errors.                                   *)
(*                                                                         *)
(* ComReportErrors is not atomic when HSERR names a log file: it logs      *)
(* through report_rx_error and log_error (HSDISP.C), whose ComIoStart(51)  *)
(* is a slow-handshake region of its own.  Called at WS.IoLevel 0 with     *)
(* slow handshake on, that ComIoStart waits for the line to go quiet,      *)
(* calling ComIdle, which reports the same RxErrorBits again before the    *)
(* outer report has counted them.  display_warning(TX_BADB), on the way to *)
(* the framing cancel, logs through log_error too and may wait the same    *)
(* way before set_cancel_link and before the bits are cleared.  The        *)
(* suspended reports are kept as a stack of the places to return to.       *)
(***************************************************************************)
EXTENDS Naturals, Sequences

CONSTANTS RXQ_SIZE,      \* slots in RXQUE
          QLOW_WATER,    \* ComReadStr/ComIdle release flow at or below this
          QHIGH_WATER,   \* the receive interrupt stops the remote from here
          SKID,          \* bytes the remote may send after being stopped
          ReadSizes,     \* bufsiz values the protocol passes to ComReadStr
          XonHandshake,  \* WS.Option.XonHandshake
          RtsHandshake,  \* WS.Option.RtsHandshake
          SlowInit,      \* possible WS.Option.SlowHandshake at start (-HS)
          MAX_OVERRUN,   \* overruns that switch slow handshake on
          MAX_FRAMING,   \* framing errors tolerated before the cancel
          MaxRx,         \* bound on the bytes the remote sends
          MaxErr,        \* bound on the UART errors the model injects
          LogFile        \* getenv("HSERR") names a log file

ASSUME /\ QLOW_WATER < QHIGH_WATER /\ QHIGH_WATER <= RXQ_SIZE
       /\ ReadSizes \subseteq Nat \ {0}
       /\ {XonHandshake, RtsHandshake} \subseteq BOOLEAN
       /\ SlowInit \subseteq BOOLEAN
       /\ LogFile \in BOOLEAN

VARIABLES rxcount,       \* RXQUE.qcount
          dropped,       \* a byte arrived while RXQUE was full
          rxoff,         \* ComLL.RXoffActive: we sent XOFF
          rts,           \* RtsActive: our RTS line is raised
          inflight,      \* bytes the remote may still send while stopped
          iolevel,       \* WS.IoLevel
          slow,          \* WS.Option.SlowHandshake
          pc,            \* "run", "hold" (ComIoStart's wait), "io" or
                         \* "log" (log_error writing its file)
          frames,        \* ComReportErrors calls suspended in log_error's
                         \* wait: the caller and the point to go on from
          fresh,         \* a byte arrived since the last pass of the wait
          errbits,       \* ComLL.RxErrorBits
          overruns,      \* WS.Comstat.OverrunErrors
          framings,      \* WS.Comstat.FramingErrors
          cancel,        \* WS.cancel_link as set here
          received,      \* bytes the remote has sent
          errors         \* UART errors injected so far

vars == <<rxcount, dropped, rxoff, rts, inflight, iolevel, slow, pc, frames,
          fresh, errbits, overruns, framings, cancel, received, errors>>

ErrBits == {"OERR", "FERR", "BREAK", "OVERFLOW"}

\* The remote is told to stop by an XOFF or by our RTS being low.
Stopped(x, r) == (XonHandshake /\ x) \/ (RtsHandshake /\ ~r)

\* The skid: when the flow goes from running to stopped the remote may send
\* SKID more bytes; when it runs again the skid no longer matters.
Skid(sent) ==
    inflight' = IF ~Stopped(rxoff', rts') THEN 0
                ELSE IF ~Stopped(rxoff, rts) THEN SKID
                ELSE inflight - (IF sent THEN 1 ELSE 0)

TypeOK ==
    /\ rxcount \in 0..RXQ_SIZE /\ dropped \in BOOLEAN
    /\ rxoff \in BOOLEAN /\ rts \in BOOLEAN /\ inflight \in 0..SKID
    /\ iolevel \in Nat /\ slow \in BOOLEAN
    /\ pc \in {"run", "hold", "io", "log"} /\ fresh \in BOOLEAN
    /\ frames \in Seq([ret : {"run", "hold"}, at : {"report", "badb"}])
    /\ errbits \subseteq ErrBits
    /\ overruns \in Nat /\ framings \in Nat
    /\ cancel \in {"NONE", "FRAMING_ERRORS"}
    /\ received \in 0..MaxRx /\ errors \in 0..MaxErr

-----------------------------------------------------------------------------
(* Mutants (see PROJECT.json).                                             *)

ReleaseFlowAtAnyLevel(count, lvl) == count <= QLOW_WATER

ComIoEndNoDecrement ==
    /\ pc = "io"
    /\ UNCHANGED iolevel
    /\ rts' = IF iolevel = 0 /\ slow /\ RtsHandshake THEN TRUE ELSE rts
    /\ rxoff' = IF iolevel = 0 /\ slow /\ XonHandshake THEN FALSE ELSE rxoff
    /\ Skid(FALSE)
    /\ pc' = "run"
    /\ UNCHANGED <<rxcount, dropped, slow, frames, fresh, errbits, overruns,
                   framings, cancel, received, errors>>

-----------------------------------------------------------------------------
(* Code of HSCOMM.C and of report_rx_error, display_warning and log_error  *)
(* (HSDISP.C).                                                             *)

\* "release flow control if needed", in ComReadStr and in ComIdle: at or
\* below the low-water mark and outside any slow-handshake region.
ReleaseFlow(count, lvl) == count <= QLOW_WATER /\ lvl = 0

\* The release applied to RTS r and our XOFF x: send XON if we had sent
\* XOFF, raise RTS under RTS handshake.
Release(count, lvl, r, x) ==
    IF ReleaseFlow(count, lvl)
    THEN rxoff' = FALSE /\ rts' = (r \/ RtsHandshake)
    ELSE rxoff' = x /\ rts' = r

\* log_error's ComIoStart(51) at WS.IoLevel lvl waits: HSERR names a file,
\* the region is the outermost one and slow handshake is on.
LogHolds(lvl, sl) == LogFile /\ lvl = 0 /\ sl

\* The wait begins: the remote is stopped and frame f (the caller to go
\* back to, and what of ComReportErrors is left: "report" after
\* report_rx_error, "badb" after display_warning(TX_BADB)) is pushed.
LogWait(lvl, r, x, f, fs) ==
    /\ iolevel' = lvl + 1
    /\ rts' = (r /\ ~RtsHandshake) /\ rxoff' = (x \/ XonHandshake)
    /\ frames' = <<f>> \o fs
    /\ pc' = "hold" /\ fresh' = FALSE

\* ComReportErrors after report_rx_error returns, at WS.IoLevel lvl with
\* RTS r and XOFF x, then the caller's release (count, and fresh' = fr, are
\* the caller's): count an overrun and a framing error or break in the
\* RxErrorBits of that moment; display_warning(TX_SLOWON), which cannot wait
\* since slow handshake is still off, and slow handshake on after
\* MAX_OVERRUN overruns; above MAX_FRAMING framing errors
\* display_warning(TX_BADB), whose log_error may wait, then
\* set_cancel_link; clear the bits.
ReportRest(lvl, r, x, count, ret, fs, fr) ==
    LET ov   == overruns + (IF "OERR" \in errbits THEN 1 ELSE 0)
        fe   == framings + (IF errbits \cap {"FERR", "BREAK"} /= {}
                            THEN 1 ELSE 0)
        sl   == slow \/ ov >= MAX_OVERRUN
        badb == fe > MAX_FRAMING
    IN /\ overruns' = ov /\ framings' = fe /\ slow' = sl
       /\ IF badb /\ LogHolds(lvl, sl)
          THEN /\ LogWait(lvl, r, x, [ret |-> ret, at |-> "badb"], fs)
               /\ UNCHANGED <<errbits, cancel>>
          ELSE /\ cancel' = IF badb THEN "FRAMING_ERRORS" ELSE cancel
               /\ errbits' = {}
               /\ Release(count, lvl, r, x)
               /\ iolevel' = lvl /\ pc' = ret /\ frames' = fs
               /\ fresh' = fr

\* A caller's "if (ComLL.RxErrorBits) ComReportErrors();" and its release.
\* report_rx_error logs through log_error first; when that waits, the
\* caller is suspended and the rest runs in LogEnd.
ReportThenRelease(count, fr) ==
    CASE errbits = {} ->
           /\ Release(count, iolevel, rts, rxoff) /\ fresh' = fr
           /\ UNCHANGED <<errbits, overruns, framings, slow, cancel, iolevel,
                          pc, frames>>
      [] LogHolds(iolevel, slow) ->
           /\ LogWait(iolevel, rts, rxoff, [ret |-> pc, at |-> "report"],
                      frames)
           /\ UNCHANGED <<errbits, overruns, framings, slow, cancel>>
      [] OTHER -> ReportRest(iolevel, rts, rxoff, count, pc, frames, fr)

\* Mutant: the count taken is not clamped to what is queued.
ComReadStrNoClamp(bufsiz) ==
    /\ pc = "run"
    /\ rxcount > 0
    /\ rxcount' = rxcount - bufsiz
    /\ ReportThenRelease(rxcount', fresh)
    /\ Skid(FALSE)
    /\ UNCHANGED <<dropped, received, errors>>

\* ComReadStr(dest, bufsiz): take up to bufsiz bytes, report errors, release
\* flow control.
ComReadStr(bufsiz) ==
    /\ pc = "run"
    /\ rxcount > 0
    /\ rxcount' = IF rxcount < bufsiz THEN 0 ELSE rxcount - bufsiz
    /\ ReportThenRelease(rxcount', fresh)
    /\ Skid(FALSE)
    /\ UNCHANGED <<dropped, received, errors>>

\* ComIdle called by the protocol's waits: report errors and release flow
\* control (the keyboard and transmit parts are in other modules).
ComIdle ==
    /\ pc = "run"
    /\ ReportThenRelease(rxcount, fresh)
    /\ Skid(FALSE)
    /\ UNCHANGED <<rxcount, dropped, received, errors>>

\* ComIoStart: enter a slow-handshake region.  Only the outermost call acts:
\* with slow handshake on it lowers RTS, sends XOFF and starts waiting for
\* the line to go quiet.
ComIoStart ==
    /\ pc = "run"
    /\ iolevel' = iolevel + 1
    /\ IF iolevel' = 1 /\ slow
       THEN /\ rts' = (rts /\ ~RtsHandshake)
            /\ rxoff' = (rxoff \/ XonHandshake)
            /\ pc' = "hold" /\ fresh' = FALSE
       ELSE /\ pc' = "io"
            /\ UNCHANGED <<rts, rxoff, fresh>>
    /\ Skid(FALSE)
    /\ UNCHANGED <<rxcount, dropped, slow, frames, errbits, overruns,
                   framings, cancel, received, errors>>

\* One pass of ComIoStart's wait: ComIdle(where+2000), noting whether bytes
\* came in since the last pass (which restarts hold_timeout).
ComIoStartWait ==
    /\ pc = "hold"
    /\ ReportThenRelease(rxcount, FALSE)
    /\ Skid(FALSE)
    /\ UNCHANGED <<rxcount, dropped, received, errors>>

\* The region ComIoStart opened: disk I/O, or log_error's file write.
Region == IF frames = <<>> THEN "io" ELSE "log"

\* hold_timeout expires with no new byte: the region is entered.
ComIoStartQuiet ==
    /\ pc = "hold" /\ ~fresh
    /\ pc' = Region
    /\ UNCHANGED <<rxcount, dropped, rxoff, rts, inflight, iolevel, slow,
                   frames, fresh, errbits, overruns, framings, cancel,
                   received, errors>>

\* fail_timeout expires (at a time the model leaves open) or RXQUE is full:
\* display_warning(TX_SLOWOFF) (nested, so its log_error does not wait),
\* then ComIoEnd(where+1000) ends the region, restarting the remote, and
\* slow handshake is switched off.
ComIoStartFail ==
    /\ pc = "hold"
    /\ iolevel' = IF iolevel > 0 THEN iolevel - 1 ELSE 0
    /\ rts' = IF iolevel' = 0 /\ RtsHandshake THEN TRUE ELSE rts
    /\ rxoff' = IF iolevel' = 0 /\ XonHandshake THEN FALSE ELSE rxoff
    /\ slow' = FALSE
    /\ pc' = Region
    /\ Skid(FALSE)
    /\ UNCHANGED <<rxcount, dropped, frames, fresh, errbits, overruns,
                   framings, cancel, received, errors>>

\* ComIoEnd: leave a region; the outermost exit restarts the remote if slow
\* handshake is (still) on.
ComIoEnd ==
    /\ pc = "io"
    /\ iolevel' = IF iolevel > 0 THEN iolevel - 1 ELSE 0
    /\ rts' = IF iolevel' = 0 /\ slow /\ RtsHandshake THEN TRUE ELSE rts
    /\ rxoff' = IF iolevel' = 0 /\ slow /\ XonHandshake THEN FALSE ELSE rxoff
    /\ Skid(FALSE)
    /\ pc' = "run"
    /\ UNCHANGED <<rxcount, dropped, slow, frames, fresh, errbits, overruns,
                   framings, cancel, received, errors>>

LogEnd ==
    /\ pc = "log"
    /\ LET f       == Head(frames)
           lvl     == IF iolevel > 0 THEN iolevel - 1 ELSE 0
           restart == lvl = 0 /\ slow
           r       == rts \/ (restart /\ RtsHandshake)
           x       == rxoff /\ ~(restart /\ XonHandshake)
       IN IF f.at = "report"
          THEN ReportRest(lvl, r, x, rxcount, f.ret, Tail(frames), fresh)
          ELSE /\ cancel' = "FRAMING_ERRORS" /\ errbits' = {}
               /\ Release(rxcount, lvl, r, x)
               /\ iolevel' = lvl /\ pc' = f.ret /\ frames' = Tail(frames)
               /\ UNCHANGED <<overruns, framings, slow, fresh>>
    /\ Skid(FALSE)
    /\ UNCHANGED <<rxcount, dropped, received, errors>>

-----------------------------------------------------------------------------
(* The environment: the remote transmitter and the receive interrupt.      *)

\* The remote sends a byte when it is not stopped or still has skid left;
\* the receive interrupt stores it (or flags an overflow when RXQUE is full)
\* and stops the remote at the high-water mark.
RemoteSend ==
    /\ received < MaxRx
    /\ ~Stopped(rxoff, rts) \/ inflight > 0
    /\ received' = received + 1
    /\ fresh' = TRUE
    /\ IF rxcount < RXQ_SIZE
       THEN rxcount' = rxcount + 1 /\ UNCHANGED <<dropped, errbits>>
       ELSE /\ dropped' = TRUE /\ errbits' = errbits \cup {"OVERFLOW"}
            /\ UNCHANGED rxcount
    /\ rxoff' = (rxoff \/ (XonHandshake /\ rxcount' >= QHIGH_WATER))
    /\ rts' = (rts /\ ~(RtsHandshake /\ rxcount' >= QHIGH_WATER))
    /\ Skid(Stopped(rxoff, rts))
    /\ UNCHANGED <<iolevel, slow, pc, frames, overruns, framings, cancel,
                   errors>>

\* The UART reports an overrun, a framing error or a break.
LineError ==
    /\ errors < MaxErr
    /\ errors' = errors + 1
    /\ \E e \in {"OERR", "FERR", "BREAK"} : errbits' = errbits \cup {e}
    /\ UNCHANGED <<rxcount, dropped, rxoff, rts, inflight, iolevel, slow, pc,
                   frames, fresh, overruns, framings, cancel, received>>

-----------------------------------------------------------------------------
Init ==
    /\ rxcount = 0 /\ dropped = FALSE
    /\ rxoff = FALSE /\ rts = TRUE /\ inflight = 0
    /\ iolevel = 0 /\ slow \in SlowInit
    /\ pc = "run" /\ frames = <<>> /\ fresh = FALSE
    /\ errbits = {} /\ overruns = 0 /\ framings = 0 /\ cancel = "NONE"
    /\ received = 0 /\ errors = 0

Next ==
    \/ \E b \in ReadSizes : ComReadStr(b)
    \/ ComIdle
    \/ ComIoStart
    \/ ComIoStartWait
    \/ ComIoStartQuiet
    \/ ComIoStartFail
    \/ ComIoEnd
    \/ LogEnd
    \/ RemoteSend
    \/ LineError

\* The protocol's cooperative loop calls service_receive, which reads what
\* is queued, on every pass (HSLINK.C), and ComIoStart's wait polls until
\* the line is quiet; both are assumed not to be starved.
Fairness ==
    /\ \A b \in ReadSizes : SF_vars(ComReadStr(b))
    /\ WF_vars(ComIdle)
    /\ WF_vars(ComIoStartWait) /\ WF_vars(ComIoStartQuiet)
    /\ WF_vars(ComIoEnd) /\ WF_vars(LogEnd)

Spec == Init /\ [][Next]_vars /\ Fairness

-----------------------------------------------------------------------------
(* Properties.                                                             *)

\* While the protocol thread is inside a slow-handshake region for disk I/O
\* or for log_error's write to the HSERR file (ComIoStart returned with
\* SlowHandshake on), the remote stays stopped: nothing in ComIdle, the
\* error reports or the nested log_error regions restarts it before the
\* region's ComIoEnd.
HeldWhileInRegion ==
    (pc \in {"io", "log"} /\ slow /\ iolevel > 0) => Stopped(rxoff, rts)

FlowEventuallyReleased == Stopped(rxoff, rts) ~> ~Stopped(rxoff, rts)

\* No byte the remote sends is lost to a full RXQUE, given that the skid
\* fits above the high-water mark.
NoRxOverflow == ~dropped
=============================================================================
