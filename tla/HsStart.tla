------------------------------ MODULE HsStart ------------------------------
(***************************************************************************)
(* HSLINK.C main() from its start to the transfer loops, composed of the   *)
(* parts it calls: ComOpen, ComGetSpeed and ComClose (ComPort), mem_avail  *)
(* (MemAvail) and terminal_mode (Terminal).  main() exits early when       *)
(* memory is short, after rebranding, when the HDK does not initialise or  *)
(* on a bad command line; then opens the port (ComOpen itself exits with 1 *)
(* when the port has no base address or IRQ), reads the speed back and    *)
(* exits with CANCEL_BAD_COMSPEED when it is 0, sizes the buffers and, with *)
(* -T, runs terminal_mode, closing the port and exiting with 0 when it     *)
(* returns 1.  From "READY" on, main() is the batch coordinator of HsLink. *)
(*                                                                         *)
(* HS/Term, the stand-alone terminal of Terminal, is another program: a    *)
(* behaviour is a run of HSLINK (hst = "off") or of HS/Term.               *)
(***************************************************************************)
EXTENDS Naturals, Sequences

CONSTANTS Speeds, Divisors,                      \* ComPort
          Heaps, SweepHeaps,                     \* MemAvail
          TmBytes, HtBytes, HtKeys, TmMaxRx,     \* Terminal
          HtMaxRx, MaxKeys, RequireCarrier

VARIABLES phase,     \* where main() is
          exitcode,  \* the argument of exit()
          termmode,  \* WS.Option.TermMode (-T)
          vect, pic, uart, saved, open, is16550, opt, found,
          largest, buffer_sizes, sized,
          rxq, ppc, tpc, tc, got, tm, carrier, lost, cancel,
          hq, hpc, hc, hlog, hcalls, hst

P == INSTANCE ComPort
M == INSTANCE MemAvail
T == INSTANCE Terminal

startvars == <<phase, exitcode, termmode>>
portvars == <<vect, pic, uart, saved, open, is16550, opt, found>>
memvars == <<largest, buffer_sizes, sized>>
htvars == <<hq, hpc, hc, hlog, hcalls, hst>>
termvars == <<rxq, ppc, tpc, tc, got, tm, carrier, lost, cancel, htvars>>
allvars == <<startvars, portvars, memvars, termvars>>

\* main()'s places: before the port is opened, the port open and its speed
\* not yet checked, in terminal_mode, handed over to the transfer loops.
Phases == {"START", "PORT", "OPEN", "TERM", "READY", "EXITED"}

\* The exit() arguments of this part of main(): 0, 1 and two cancel codes.
ExitCodes == {"NONE", "EXIT1", "BAD_OPTION", "BAD_COMSPEED"}

TypeOK ==
    /\ phase \in Phases /\ exitcode \in ExitCodes /\ termmode \in BOOLEAN
    /\ P!TypeOK /\ M!TypeOK /\ T!TypeOK

-----------------------------------------------------------------------------
\* Before the port: coreleft() below SPAREMEM, or top_init() failing, exits
\* with 1; a (BRAND) run with four arguments rebrands the EXE and exits
\* with 0; no arguments (usage) or process_options failing exits with
\* CANCEL_BAD_OPTION.  Otherwise on to ComOpen.
Prelude ==
    /\ phase = "START" /\ hst = "off"
    /\ \/ phase' = "PORT" /\ UNCHANGED exitcode
       \/ \E r \in {"NONE", "EXIT1", "BAD_OPTION"} :
              phase' = "EXITED" /\ exitcode' = r
    /\ UNCHANGED <<termmode, portvars, memvars, termvars>>

\* com_reinit(), ComOpen's first call: no cancel, no flow control, both
\* queues empty (of the queue state, the modules here keep the receive
\* queue and WS.cancel_link).
ComReinit ==
    /\ cancel' = "NONE" /\ rxq' = <<>>
    /\ UNCHANGED <<ppc, tpc, tc, got, tm, carrier, lost, htvars>>

\* ComOpen with a port number outside the tables and no -P base or IRQ
\* override: disp_error and exit(1) before the port is touched.
NoChannel ==
    /\ phase = "PORT"
    /\ ComReinit
    /\ phase' = "EXITED" /\ exitcode' = "EXIT1"
    /\ UNCHANGED <<termmode, portvars, memvars>>

\* ComOpen() with a base address and an IRQ.
OpenPort ==
    /\ phase = "PORT"
    /\ ComReinit /\ P!ComOpen
    /\ phase' = "OPEN"
    /\ UNCHANGED <<exitcode, termmode, memvars>>

\* 'WS.Option.ComSpeed = ComGetSpeed()': a speed of 0 is reported and the
\* program exits with CANCEL_BAD_COMSPEED, the port still open.  Otherwise
\* the buffers are sized with mem_avail() and, with -T, terminal_mode()
\* begins; without it main() goes on to the transfer.
SpeedCheck ==
    /\ phase = "OPEN"
    /\ \/ /\ P!ComGetSpeed = 0
          /\ phase' = "EXITED" /\ exitcode' = "BAD_COMSPEED"
          /\ UNCHANGED <<termmode, portvars, memvars, termvars>>
       \/ /\ P!ComGetSpeed /= 0
          /\ M!SizeBuffers
          /\ phase' = IF termmode THEN "TERM" ELSE "READY"
          /\ tm' = IF termmode THEN "test" ELSE tm
          /\ UNCHANGED <<exitcode, termmode, portvars, rxq, ppc, tpc, tc,
                         got, carrier, lost, cancel, htvars>>

\* Mutant (see PROJECT.json).
TermReturnCancelCode ==
    /\ phase = "TERM" /\ tm \in {"xfer", "exit"}
    /\ \/ tm = "exit" /\ P!ComClose /\ phase' = "EXITED"
          /\ exitcode' = cancel
          /\ UNCHANGED termmode
       \/ tm = "xfer" /\ phase' = "READY" /\ termmode' = FALSE
          /\ UNCHANGED <<exitcode, portvars>>
    /\ UNCHANGED <<memvars, termvars>>

\* terminal_mode() has returned: 1 (carrier lost or cancelled) closes the
\* port and exits with 0; 0 (the remote started a session) goes on to the
\* transfer, with TermMode cleared.
TermReturn ==
    /\ phase = "TERM" /\ tm \in {"xfer", "exit"}
    /\ \/ tm = "exit" /\ P!ComClose /\ phase' = "EXITED" /\ exitcode' = "NONE"
          /\ UNCHANGED termmode
       \/ tm = "xfer" /\ phase' = "READY" /\ termmode' = FALSE
          /\ UNCHANGED <<exitcode, portvars>>
    /\ UNCHANGED <<memvars, termvars>>

\* terminal_mode's own steps (Terminal), and the remote and the line while
\* it runs.
TermStep(A) ==
    /\ phase = "TERM" /\ A
    /\ UNCHANGED <<startvars, portvars, memvars>>

TermTest == TermStep(T!TmTest)
TermRead == TermStep(T!TmRead)
TermIdle == TermStep(T!TmIdle)
TermLine == TermStep(T!TmRemoteSend \/ T!TmCarrierDrop)

\* A run of HS/Term instead of HSLINK: its loop's steps (Terminal) and the
\* remote sending to it.
HtStep(A) ==
    /\ hst /= "off" /\ A
    /\ UNCHANGED <<startvars, portvars, memvars>>

HtRecv == HtStep(T!HtRecv)
HtKey == HtStep(T!HtKey)
HtPoll == HtStep(T!HtPoll)
HtLine == HtStep(T!HtRemoteSend)

\* Other tasks change their own PIC bits while HSLINK runs.
OtherTask ==
    /\ phase \in {"PORT", "OPEN", "TERM", "READY"}
    /\ P!OtherTask
    /\ UNCHANGED <<startvars, memvars, termvars>>

\* HSLINK has exited, or handed over to the transfer loops (HsLink); or
\* HS/Term has left its loop on Ctrl-Z.
Done == (phase \in {"READY", "EXITED"} \/ hst = "exit") /\ UNCHANGED allvars

\* A run of HSLINK with any port, heap and -T option; or a run of HS/Term,
\* which drives the line through its own routines and leaves HSLINK's
\* variables alone (one value of each stands for all of them).
Init ==
    /\ phase = "START" /\ exitcode = "NONE"
    /\ P!PortInit /\ M!Init
    /\ \/ hst = "off" /\ termmode \in BOOLEAN
       \/ /\ hst = "run" /\ termmode = FALSE
          /\ opt = [irq |-> "low", chip |-> FALSE, dis |-> FALSE,
                   speed |-> CHOOSE v \in Speeds : TRUE]
          /\ ~pic["cascade"] /\ uart.div = CHOOSE d \in Divisors : TRUE
          /\ largest = CHOOSE h \in Heaps : TRUE
    /\ rxq = <<>> /\ ppc = "NUL" /\ tpc = "NUL" /\ tc = "NUL" /\ got = <<>>
    /\ tm = "off" /\ carrier = TRUE /\ lost = FALSE /\ cancel = "NONE"
    /\ hq = <<>> /\ hpc = "NUL" /\ hc = "NUL" /\ hlog = <<>> /\ hcalls = 0

Next ==
    \/ Prelude \/ NoChannel \/ OpenPort \/ SpeedCheck \/ TermReturn
    \/ TermTest \/ TermRead \/ TermIdle \/ TermLine
    \/ HtRecv \/ HtKey \/ HtPoll \/ HtLine
    \/ OtherTask \/ Done

\* main() runs its steps one after the other; terminal_mode's loop takes
\* each of its enabled steps (as in Terminal).
Spec == Init /\ [][Next]_allvars
        /\ WF_allvars(Prelude) /\ WF_allvars(OpenPort \/ NoChannel)
        /\ WF_allvars(SpeedCheck) /\ WF_allvars(TermReturn)
        /\ WF_allvars(TermTest) /\ WF_allvars(TermRead) /\ WF_allvars(TermIdle)
-----------------------------------------------------------------------------
(* Properties.                                                             *)

\* mem_avail returns the largest fitting step size for every largest free
\* block of the sweep (MemAvail's reference LargestFit; a constant, which
\* TLC evaluates once).
MemAvailIsLargestFit ==
    \A h \in SweepHeaps : M!MemAvailResult(h) = M!LargestFit(h)

\* The buffers main() sizes with mem_avail are the largest step size whose
\* block and slop fit the heap, here and for every heap of the sweep: the
\* 16-bit sums and the step-down loop neither overshoot nor stop short.
SizingIsLargestFit ==
    sized => MemAvailIsLargestFit /\ buffer_sizes = M!LargestFit(largest)

\* When HSLINK has exited the COM port is as it found it: the interrupt
\* vector is not left pointing into the program that has gone, and the
\* IRQ is masked again (ComClose's restore, for every exit after ComOpen).
PortRestoredAtExit == phase = "EXITED" => P!PortAsFound
\* When ComClose has run the port is as HSLINK found it, divisor aside
\* (ComPort), here after terminal_mode returns 1, with another task
\* changing its own PIC bit.
ClosedPortRestored == P!ClosedPortRestored

\* terminal_mode hands over to the transfer exactly when 'S', '*', STX has
\* been read, at its last byte (Terminal).
AutostartExact == T!AutostartExact

\* HS/Term runs hslink for every received STX 'R' with no key read in
\* between (Terminal).
EveryStxRStartsHslink == T!EveryStxRStartsHslink

\* Once the carrier is gone terminal_mode returns (Terminal).
TerminalEndsAfterCarrierLoss == T!TerminalEndsAfterCarrierLoss
====
