------------------------------ MODULE Terminal ------------------------------
(***************************************************************************)
(* The two terminal loops that hand a line over to an HS/Link transfer     *)
(* when they see the remote start one.                                     *)
(*                                                                         *)
(* terminal_mode (HSDISP.C, run by HSLINK -T before the transfer) echoes   *)
(* the remote's bytes until the carrier is lost or the link is cancelled,  *)
(* and returns 0 (go on with the transfer) when the last three bytes read  *)
(* are 'S', '*', STX; it keeps them in its locals ppc, pc and c.           *)
(*                                                                         *)
(* HS/Term (HSTERM.C, a stand-alone terminal) runs hslink through system() *)
(* when a received 'R' follows a received STX; it keeps the previous and   *)
(* the current byte in pc and c, and its keyboard branch reads the key     *)
(* into the same c.                                                        *)
(*                                                                         *)
(* The two are separate programs: a behaviour is a run of one of them (the *)
(* other one is "off").  Bytes are a few named values; only the ones the   *)
(* detectors compare with are told apart.                                  *)
(***************************************************************************)
EXTENDS Naturals, Sequences

CONSTANTS TmBytes,        \* bytes the remote sends in terminal_mode
          HtBytes,        \* bytes the remote sends to HS/Term
          HtKeys,         \* keys typed at HS/Term ("SUB" is Ctrl-Z)
          TmMaxRx,        \* bound on the bytes sent to terminal_mode
          HtMaxRx,        \* bound on the bytes sent to HS/Term
          MaxKeys,        \* bound on the keys typed at HS/Term
          RequireCarrier  \* WS.Option.RequireCarrier

\* The sequence terminal_mode recognises as the start of an HS/Link session.
Startup == <<"S", "*", "STX">>

VARIABLES rxq,      \* terminal_mode: bytes waiting in the receive queue
          ppc,      \* terminal_mode's ppc, pc and c
          tpc,
          tc,
          got,      \* the bytes terminal_mode has read, in order
          tm,       \* "test", "read", "xfer" (returned 0), "exit" (returned 1)
                    \* or "off" (HS/Term runs instead)
          carrier,  \* carrier detect on terminal_mode's line
          lost,     \* ComCarrierLost's static latch
          cancel,   \* WS.cancel_link
          hq,       \* HS/Term: bytes waiting in its receive queue
          hpc,      \* HS/Term's pc and c
          hc,
          hlog,     \* what HS/Term read, received bytes and keys, in order
          hcalls,   \* times HS/Term has run hslink
          hst       \* "run", "exit" after Ctrl-Z, or "off"

tmvars == <<rxq, ppc, tpc, tc, got, tm, carrier, lost, cancel>>
htvars == <<hq, hpc, hc, hlog, hcalls, hst>>
vars == <<tmvars, htvars>>

Events == [src : {"rx"}, b : HtBytes] \cup [src : {"key"}, b : HtKeys]

TypeOK ==
    /\ rxq \in Seq(TmBytes) /\ got \in Seq(TmBytes)
    /\ {ppc, tpc, tc} \subseteq TmBytes \cup {"NUL"}
    /\ tm \in {"test", "read", "xfer", "exit", "off"}
    /\ {carrier, lost} \subseteq BOOLEAN
    /\ cancel \in {"NONE", "KEYBOARD", "CARRIER_LOST"}
    /\ hq \in Seq(HtBytes) /\ hlog \in Seq(Events)
    /\ {hpc, hc} \subseteq HtBytes \cup HtKeys \cup {"NUL"}
    /\ hcalls \in Nat /\ hst \in {"run", "exit", "off"}

-----------------------------------------------------------------------------
(* terminal_mode (HSDISP.C)                                                *)

\* Mutant (see PROJECT.json).
CarrierCheckPendingInverted ==
    /\ lost' = (lost \/ (RequireCarrier /\ rxq /= <<>> /\ ~carrier))
    /\ cancel' = IF lost' /\ ~lost /\ cancel = "NONE" THEN "CARRIER_LOST"
                 ELSE cancel

\* ComCarrierLost() (HSCOMM.C): the latch answers at once; otherwise no
\* carrier required, or received data still waiting, means 'not lost'.
CarrierCheck ==
    /\ lost' = (lost \/ (RequireCarrier /\ rxq = <<>> /\ ~carrier))
    /\ cancel' = IF lost' /\ ~lost /\ cancel = "NONE" THEN "CARRIER_LOST"
                 ELSE cancel

\* The test of 'while (!ComCarrierLost() && !WS.cancel_link)': the loop
\* ends, and terminal_mode returns 1, on a lost carrier or a cancel.
TmTest ==
    /\ tm = "test"
    /\ CarrierCheck
    /\ tm' = IF lost' \/ cancel' /= "NONE" THEN "exit" ELSE "read"
    /\ UNCHANGED <<rxq, ppc, tpc, tc, got, carrier, htvars>>

\* Mutant (see PROJECT.json).
TmReadShiftLate ==
    /\ tm = "read" /\ rxq /= <<>>
    /\ ppc' = tc /\ tpc' = tc /\ tc' = Head(rxq)
    /\ rxq' = Tail(rxq) /\ got' = Append(got, Head(rxq))
    /\ tm' = IF <<ppc', tpc', tc'>> = Startup THEN "xfer" ELSE "read"
    /\ UNCHANGED <<carrier, lost, cancel, htvars>>

\* One pass of 'while (ComReadPending())': shift the window, read a byte
\* with ComReadChar (one is waiting, so it returns it at once) and return 0
\* if the window holds the startup sequence; putch otherwise.
TmRead ==
    /\ tm = "read" /\ rxq /= <<>>
    /\ ppc' = tpc /\ tpc' = tc /\ tc' = Head(rxq)
    /\ rxq' = Tail(rxq) /\ got' = Append(got, Head(rxq))
    /\ tm' = IF <<ppc', tpc', tc'>> = Startup THEN "xfer" ELSE "read"
    /\ UNCHANGED <<carrier, lost, cancel, htvars>>

\* Nothing waiting: ComIdle(701), in which six CAN keys (HsLink's
\* ComIdleKey) may cancel the link; then the loop test again.
TmIdle ==
    /\ tm = "read" /\ rxq = <<>>
    /\ \E k \in BOOLEAN :
         cancel' = IF k /\ cancel = "NONE" THEN "KEYBOARD" ELSE cancel
    /\ tm' = "test"
    /\ UNCHANGED <<rxq, ppc, tpc, tc, got, carrier, lost, htvars>>

\* The remote sends a byte to terminal_mode's line.
TmRemoteSend ==
    /\ tm /= "off" /\ carrier /\ Len(got) + Len(rxq) < TmMaxRx
    /\ \E b \in TmBytes : rxq' = Append(rxq, b)
    /\ UNCHANGED <<ppc, tpc, tc, got, tm, carrier, lost, cancel, htvars>>

\* The carrier drops.
TmCarrierDrop ==
    /\ tm /= "off" /\ carrier /\ carrier' = FALSE
    /\ UNCHANGED <<rxq, ppc, tpc, tc, got, tm, lost, cancel, htvars>>

-----------------------------------------------------------------------------
(* HS/Term main() (HSTERM.C)                                               *)

\* Mutant (see PROJECT.json).
HtRecvSwapped ==
    /\ hst = "run" /\ hq /= <<>>
    /\ hpc' = hc /\ hc' = Head(hq)
    /\ hq' = Tail(hq) /\ hlog' = Append(hlog, [src |-> "rx", b |-> Head(hq)])
    /\ hcalls' = IF hc' = "STX" /\ hpc' = "R" THEN hcalls + 1 ELSE hcalls
    /\ UNCHANGED <<hst, tmvars>>

\* One pass of 'while (receive_ready())': pc = c; c = receive_char(); the
\* byte is displayed ('\' also sends a test text); a received 'R' after a
\* STX runs hslink, after which the loop goes on.
HtRecv ==
    /\ hst = "run" /\ hq /= <<>>
    /\ hpc' = hc /\ hc' = Head(hq)
    /\ hq' = Tail(hq) /\ hlog' = Append(hlog, [src |-> "rx", b |-> Head(hq)])
    /\ hcalls' = IF hc' = "R" /\ hpc' = "STX" THEN hcalls + 1 ELSE hcalls
    /\ UNCHANGED <<hst, tmvars>>

\* Keys read so far.
KeysRead == Len(SelectSeq(hlog, LAMBDA e : e.src = "key"))

\* The keyboard branch, once the receive queue is empty and the skip count
\* is up: 'c = getch()'; Ctrl-Z leaves the loop, Ctrl-A does nothing,
\* Ctrl-B sends the test text, any other key is transmitted.
HtKey ==
    /\ hst = "run" /\ hq = <<>> /\ KeysRead < MaxKeys
    /\ \E k \in HtKeys :
         /\ hc' = k
         /\ hlog' = Append(hlog, [src |-> "key", b |-> k])
         /\ hst' = IF k = "SUB" THEN "exit" ELSE "run"
    /\ UNCHANGED <<hq, hpc, hcalls, tmvars>>

\* A pass of the for(;;) loop with no byte ready and no key read.
HtPoll ==
    /\ hst = "run" /\ hq = <<>>
    /\ UNCHANGED vars

\* The remote sends a byte to HS/Term's line.
HtRemoteSend ==
    /\ hst /= "off" /\ Len(hlog) - KeysRead + Len(hq) < HtMaxRx
    /\ \E b \in HtBytes : hq' = Append(hq, b)
    /\ UNCHANGED <<hpc, hc, hlog, hcalls, hst, tmvars>>

-----------------------------------------------------------------------------
\* terminal_mode's 'pc = 0; c = 0;' with the carrier up; HS/Term's the
\* same; one of the two programs runs.
Init ==
    /\ rxq = <<>> /\ ppc = "NUL" /\ tpc = "NUL" /\ tc = "NUL" /\ got = <<>>
    /\ \E run \in {"tm", "ht"} :
         tm = (IF run = "tm" THEN "test" ELSE "off")
         /\ hst = (IF run = "ht" THEN "run" ELSE "off")
    /\ carrier = TRUE /\ lost = FALSE /\ cancel = "NONE"
    /\ hq = <<>> /\ hpc = "NUL" /\ hc = "NUL" /\ hlog = <<>>
    /\ hcalls = 0

Next ==
    \/ TmTest \/ TmRead \/ TmIdle \/ TmRemoteSend \/ TmCarrierDrop
    \/ HtRecv \/ HtKey \/ HtPoll \/ HtRemoteSend

\* terminal_mode is a plain loop: each of its enabled steps is taken.
Spec == Init /\ [][Next]_vars
        /\ WF_vars(TmTest) /\ WF_vars(TmRead) /\ WF_vars(TmIdle)

-----------------------------------------------------------------------------
(* Properties.                                                             *)

\* The received bytes contain the startup sequence somewhere.
HasStartup(s) ==
    \E i \in 1..Len(s) : i + 2 <= Len(s) /\ SubSeq(s, i, i + 2) = Startup

\* terminal_mode's three-byte window recognises the startup sequence
\* exactly: it hands over to the transfer once 'S', '*', STX has been
\* read, at the byte that completes it, and never before.
AutostartExact ==
    /\ tm = "xfer" <=> HasStartup(got)
    /\ tm = "xfer" => SubSeq(got, Len(got) - 2, Len(got)) = Startup

\* The number of places in HS/Term's log where a received STX is followed
\* directly by a received 'R', with no key read in between.
RECURSIVE StxRPairs(_)
StxRPairs(s) ==
    IF Len(s) < 2 THEN 0
    ELSE StxRPairs(Tail(s))
         + (IF s[1] = [src |-> "rx", b |-> "STX"] /\ s[2] = [src |-> "rx", b |-> "R"]
            THEN 1 ELSE 0)

\* HS/Term runs hslink for every STX 'R' it receives with no key read in
\* between, however the bytes are split over the passes of its loop.
EveryStxRStartsHslink == StxRPairs(hlog) <= hcalls

\* Once the carrier is gone terminal_mode returns: the loop's
\* ComCarrierLost test ends it when the received bytes are read.
TerminalEndsAfterCarrierLoss ==
    (~carrier /\ tm \in {"test", "read"}) ~> (tm \in {"xfer", "exit"})
====
