------------------------------- MODULE HsLink -------------------------------
(***************************************************************************)
(* The batch coordinator of HSLINK.C main(): after start-up it sends its   *)
(* ident, then runs four loops, each calling an engine function of the     *)
(* HDK library until it returns 0 and idling (ComIdle, service_receive) in *)
(* between: wait_for_ready, transmit_file for each file of the batch,      *)
(* finish_receive and terminate_link.  It then turns a lost carrier and an *)
(* empty batch into cancel codes and exits with WS.cancel_link.            *)
(*                                                                         *)
(* ComIdle's keyboard part (HSCOMM.C) is modelled here: six CAN keys in a  *)
(* row cancel the link; Ctrl-D toggles the debug display and returns from  *)
(* ComIdle without recording the key.  The engine (HDK, not in this        *)
(* repository) is modelled from the specification: set_cancel_link keeps  *)
(* the first reason, service_receive may receive a file or see a remote    *)
(* cancel or a framing cancel, and each loop's function returns 0 once its *)
(* exchange is done or the link is cancelled.                              *)
(***************************************************************************)
EXTENDS Naturals, Sequences

CONSTANTS NFiles,         \* possible lengths of the outgoing batch
          MaxRecv,        \* bound on the files the remote sends us
          CANCEL_COUNT,   \* CAN keys that cancel (6)
          Keys,           \* keys the user may type: a subset of KeyKinds
          MaxKeys,        \* bound on the keys typed
          RequireCarrier  \* WS.Option.RequireCarrier (off with -C)

KeyKinds == {"CAN", "CTRLD", "FKEY", "OTHER"}

\* cancel_reason values; "NONE" is 0.
Reasons == {"NONE", "KEYBOARD", "REMOTE", "FRAMING_ERRORS", "CARRIER_LOST",
            "NO_FILES", "BAD_OPTION", "BAD_COMSPEED"}

ASSUME /\ NFiles \subseteq Nat /\ MaxRecv \in Nat
       /\ CANCEL_COUNT \in Nat \ {0} /\ Keys \subseteq KeyKinds
       /\ RequireCarrier \in BOOLEAN

VARIABLES phase,     \* where main() is
          nfiles,    \* files in the WS.first_send list
          node,      \* curnode, as the index of the file being sent
          sent,      \* WS.files_sent
          recvd,     \* WS.files_received
          cancel,    \* WS.cancel_link
          carrier,   \* the modem's carrier detect line
          rxpend,    \* RXQUE holds unread bytes (ComReadPending() > 0)
          lost,      \* the static 'lost' latch of ComCarrierLost
          kpc,       \* ComIdle's static pc: the last key recorded
          cancount,  \* ComIdle's static local_can_count
          keys,      \* every key typed so far, in order
          exitcode   \* the argument of exit()

vars == <<phase, nfiles, node, sent, recvd, cancel, carrier, rxpend, lost,
          kpc, cancount, keys, exitcode>>

Phases == {"START", "READY", "TRANSMIT", "FINISH", "TERMINATE", "EXITED"}

TypeOK ==
    /\ phase \in Phases /\ nfiles \in NFiles /\ node \in 1..nfiles + 1
    /\ sent \in 0..nfiles /\ recvd \in 0..MaxRecv
    /\ cancel \in Reasons /\ exitcode \in Reasons \cup {"EXIT1"}
    /\ carrier \in BOOLEAN /\ rxpend \in BOOLEAN /\ lost \in BOOLEAN
    /\ kpc \in {"NONE"} \cup (KeyKinds \ {"CTRLD"})
    /\ cancount \in 0..MaxKeys /\ keys \in Seq(Keys) /\ Len(keys) <= MaxKeys

Running == phase \in {"READY", "TRANSMIT", "FINISH", "TERMINATE"}

-----------------------------------------------------------------------------
(* The HDK library, from the specification.                                *)

\* set_cancel_link(reason): the reason is sticky, the first one set stays.
SetCancelLink(reason) ==
    cancel' = IF cancel = "NONE" THEN reason ELSE cancel

\* The engine's exchange for the current loop can complete: the remote is
\* still there, or the link is cancelled and the loop winds down.
EngineCanReturn == carrier \/ cancel /= "NONE"

-----------------------------------------------------------------------------
(* Mutants (see PROJECT.json).                                             *)

ProcessExitCodesAssign ==
    /\ phase = "TERMINATE"
    /\ lost' = (lost \/ (RequireCarrier /\ ~rxpend /\ ~carrier))
    /\ LET c1 == IF lost' /\ cancel = "NONE" THEN "CARRIER_LOST" ELSE cancel
       IN cancel' = IF recvd + sent = 0 THEN "NO_FILES" ELSE c1
    /\ exitcode' = cancel'
    /\ phase' = "EXITED"
    /\ UNCHANGED <<nfiles, node, sent, recvd, carrier, rxpend, kpc, cancount,
                   keys>>

TransmitFileDoneLate ==
    /\ phase = "TRANSMIT" /\ EngineCanReturn
    /\ sent' = IF cancel = "NONE" THEN sent + 1 ELSE sent
    /\ node' = node + 1
    /\ phase' = IF node > nfiles THEN "FINISH" ELSE "TRANSMIT"
    /\ UNCHANGED <<nfiles, recvd, cancel, carrier, rxpend, lost, kpc,
                   cancount, keys, exitcode>>

-----------------------------------------------------------------------------
(* HSCOMM.C                                                                *)

\* ComCarrierLost(): once latched it stays lost; without RequireCarrier, or
\* while received bytes are waiting, it reports no loss; otherwise it reads
\* the carrier line and, when it is gone, latches and cancels.
ComCarrierLost ==
    /\ lost' = (lost \/ (RequireCarrier /\ ~rxpend /\ ~carrier))
    /\ IF lost' /\ ~lost THEN SetCancelLink("CARRIER_LOST")
                         ELSE UNCHANGED cancel

\* Mutant (see PROJECT.json).
ComIdleKeyCtrlDRecorded(k) ==
    /\ Running /\ Len(keys) < MaxKeys
    /\ keys' = Append(keys, k)
    /\ IF k = "CAN"
       THEN /\ cancount' = IF kpc = "CAN" THEN cancount + 1 ELSE 1
            /\ IF cancount' >= CANCEL_COUNT THEN SetCancelLink("KEYBOARD")
                                            ELSE UNCHANGED cancel
       ELSE UNCHANGED <<cancount, cancel>>
    /\ kpc' = k
    /\ UNCHANGED <<phase, nfiles, node, sent, recvd, carrier, rxpend, lost,
                   exitcode>>

\* The keyboard loop of ComIdle, for one key k.  A CAN following a CAN adds
\* to local_can_count, and at CANCEL_COUNT the link is cancelled (and the
\* transmit queue discarded and a CAN burst sent, in ComTxQueue); any other
\* CAN starts the count at 1.  Ctrl-D returns before the key is recorded in
\* pc; every other key is recorded.
ComIdleKey(k) ==
    /\ Running /\ Len(keys) < MaxKeys
    /\ keys' = Append(keys, k)
    /\ IF k = "CAN"
       THEN /\ cancount' = IF kpc = "CAN" THEN cancount + 1 ELSE 1
            /\ IF cancount' >= CANCEL_COUNT THEN SetCancelLink("KEYBOARD")
                                            ELSE UNCHANGED cancel
       ELSE UNCHANGED <<cancount, cancel>>
    /\ kpc' = IF k = "CTRLD" THEN kpc ELSE k
    /\ UNCHANGED <<phase, nfiles, node, sent, recvd, carrier, rxpend, lost,
                   exitcode>>

-----------------------------------------------------------------------------
(* HSLINK.C main()                                                         *)

\* Start-up up to terminal mode: too little memory or a failing top_init
\* exit with 1; a (BRAND) run exits with 0 once the EXE is rebranded; a
\* bad command line or a port that reports no speed ends the program with
\* its code; terminal_mode (-T) returning 1 (carrier lost or cancelled
\* before the remote started a transfer) exits with 0.  Otherwise the
\* ident string is written and the ready loop begins.
Startup ==
    /\ phase = "START"
    /\ \/ phase' = "READY" /\ UNCHANGED exitcode
       \/ \E r \in {"NONE", "EXIT1", "BAD_OPTION", "BAD_COMSPEED"} :
              phase' = "EXITED" /\ exitcode' = r
    /\ UNCHANGED <<nfiles, node, sent, recvd, cancel, carrier, rxpend, lost,
                   kpc, cancount, keys>>

\* wait_for_ready() returns 0: on to the batch (or straight to the finish
\* loop when there is nothing to send).
ReadyDone ==
    /\ phase = "READY" /\ EngineCanReturn
    /\ phase' = IF nfiles = 0 THEN "FINISH" ELSE "TRANSMIT"
    /\ UNCHANGED <<nfiles, node, sent, recvd, cancel, carrier, rxpend, lost,
                   kpc, cancount, keys, exitcode>>

\* transmit_file(curnode->name) returns 0: the file went (counted in
\* files_sent) or was given up on a cancel; curnode moves to the next one.
TransmitFileDone ==
    /\ phase = "TRANSMIT" /\ EngineCanReturn
    /\ sent' = IF cancel = "NONE" THEN sent + 1 ELSE sent
    /\ node' = node + 1
    /\ phase' = IF node = nfiles THEN "FINISH" ELSE "TRANSMIT"
    /\ UNCHANGED <<nfiles, recvd, cancel, carrier, rxpend, lost, kpc,
                   cancount, keys, exitcode>>

\* finish_receive() returns 0: the remote has nothing more to send, the
\* drain timeout expired, or the link is cancelled.
FinishDone ==
    /\ phase = "FINISH"
    /\ phase' = "TERMINATE"
    /\ UNCHANGED <<nfiles, node, sent, recvd, cancel, carrier, rxpend, lost,
                   kpc, cancount, keys, exitcode>>

\* terminate_link() returns 0 (the exchange is done or timed out), and the
\* exit codes are processed: a lost carrier and then an empty batch are
\* passed to set_cancel_link, and the program exits with WS.cancel_link.
ProcessExitCodes ==
    /\ phase = "TERMINATE"
    /\ lost' = (lost \/ (RequireCarrier /\ ~rxpend /\ ~carrier))
    /\ LET c1 == IF lost' /\ cancel = "NONE" THEN "CARRIER_LOST" ELSE cancel
       IN cancel' = IF recvd + sent = 0 /\ c1 = "NONE" THEN "NO_FILES" ELSE c1
    /\ exitcode' = cancel'
    /\ phase' = "EXITED"
    /\ UNCHANGED <<nfiles, node, sent, recvd, carrier, rxpend, kpc, cancount,
                   keys>>

-----------------------------------------------------------------------------
(* The engine's service_receive() in the READY, TRANSMIT and FINISH loops, *)
(* from the specification, and the line.                                   *)

\* A complete file arrives from the remote.
ReceiveFile ==
    /\ phase \in {"READY", "TRANSMIT", "FINISH"}
    /\ carrier /\ cancel = "NONE" /\ recvd < MaxRecv
    /\ recvd' = recvd + 1
    /\ UNCHANGED <<phase, nfiles, node, sent, cancel, carrier, rxpend, lost,
                   kpc, cancount, keys, exitcode>>

\* Six CANs from the remote, or too many framing errors (ComReportErrors).
RemoteCancel ==
    /\ phase \in {"READY", "TRANSMIT", "FINISH"}
    /\ \E r \in {"REMOTE", "FRAMING_ERRORS"} : SetCancelLink(r)
    /\ UNCHANGED <<phase, nfiles, node, sent, recvd, carrier, rxpend, lost,
                   kpc, cancount, keys, exitcode>>

\* service_receive reads what is queued, checking the carrier on its way.
ServiceReceive ==
    /\ phase \in {"READY", "TRANSMIT", "FINISH"}
    /\ rxpend' = FALSE
    /\ ComCarrierLost
    /\ UNCHANGED <<phase, nfiles, node, sent, recvd, carrier, kpc, cancount,
                   keys, exitcode>>

\* The carrier drops; the modem may leave bytes (its result message) in
\* RXQUE as it does.
CarrierDrop ==
    /\ carrier /\ phase /= "EXITED"
    /\ carrier' = FALSE
    /\ rxpend' \in BOOLEAN
    /\ UNCHANGED <<phase, nfiles, node, sent, recvd, cancel, lost, kpc,
                   cancount, keys, exitcode>>

-----------------------------------------------------------------------------
Init ==
    /\ phase = "START" /\ nfiles \in NFiles /\ node = 1
    /\ sent = 0 /\ recvd = 0 /\ cancel = "NONE"
    /\ carrier = TRUE /\ rxpend = FALSE /\ lost = FALSE
    /\ kpc = "NONE" /\ cancount = 0 /\ keys = <<>> /\ exitcode = "NONE"

Next ==
    \/ Startup \/ ReadyDone \/ TransmitFileDone \/ FinishDone
    \/ ProcessExitCodes
    \/ \E k \in Keys : ComIdleKey(k)
    \/ ReceiveFile \/ RemoteCancel \/ ServiceReceive \/ CarrierDrop

\* Once exited the program does nothing more.
Done == phase = "EXITED" /\ UNCHANGED vars

\* main's loops call their engine function on every pass, and the engine
\* calls service_receive (which checks the carrier) on every idle pass.
Fairness ==
    /\ WF_vars(Startup) /\ WF_vars(ReadyDone) /\ WF_vars(TransmitFileDone)
    /\ WF_vars(FinishDone) /\ WF_vars(ProcessExitCodes)
    /\ WF_vars(ServiceReceive)

Spec == Init /\ [][Next \/ Done]_vars /\ Fairness

-----------------------------------------------------------------------------
(* Properties.                                                             *)

\* A cancel from any source (keyboard, remote, framing errors, carrier)
\* leads the coordinator through its remaining loops to exit with that same
\* reason as the exit code (spec: cancellation is sticky and the engine
\* returns with cancel_reason as exit code).
CancelLeadsToExit ==
    \A r \in Reasons \ {"NONE"} :
        (cancel = r) ~> (phase = "EXITED" /\ exitcode = r)

\* The keys ComIdle's CAN count sees: Ctrl-D returns before 'pc = c'.
Counted(s) == SelectSeq(s, LAMBDA k : k /= "CTRLD")

\* CANCEL_COUNT CAN keys in a row.
CanRun(s) ==
    \E i \in 1..(Len(s) - CANCEL_COUNT + 1) :
        \A j \in i..(i + CANCEL_COUNT - 1) : s[j] = "CAN"

\* ComIdle's statics pc and local_can_count, kept across calls and across
\* the loops of main(), turn the keyboard into a cancel exactly when the
\* user has typed CANCEL_COUNT CANs with nothing but Ctrl-Ds between them:
\* no cancel without such a run, and none missed after one.
KeyboardCancelExact ==
    /\ cancel = "KEYBOARD" => CanRun(Counted(keys))
    /\ CanRun(Counted(keys)) => cancel /= "NONE"

\* Spec scenario 1: a batch in which nothing is sent or received ends, with
\* no cancel and the carrier present, in exit code 0: the exit-code
\* processing after terminate_link never turns a clean end into an error.
EmptyBatchExitsZero ==
    [][(phase = "TERMINATE" /\ phase' = "EXITED" /\ cancel = "NONE"
          /\ carrier /\ sent + recvd = 0) => exitcode' = "NONE"]_vars
====
