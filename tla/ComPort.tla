------------------------------- MODULE ComPort -------------------------------
(***************************************************************************)
(* Opening and closing the COM port (HSCOMM.C): ComOpen installs HSLINK's  *)
(* interrupt handler, saves the UART and interrupt controller (PIC)        *)
(* registers it is about to change, unmasks the port's IRQ (and the        *)
(* cascade input for an IRQ on the second PIC), enables the 16550 FIFO,    *)
(* the UART interrupts and OUT2, and sets the speed (setSpeed) when one is *)
(* given.  ComGetSpeed reads the speed back from the divisor latch.        *)
(* ComClose puts back what ComOpen saved: the old vector, the FIFO switched *)
(* off if it was off, LCR, MCR and IER, and the PIC bit of this IRQ only,  *)
(* since 'other interrupts may have changed in multi-tasking systems such  *)
(* as DV'.                                                                 *)
(*                                                                         *)
(* Register values are abstracted to "orig" (as found) and "hs" (as HSLINK *)
(* programs them); the divisor keeps its value.  The PIC is abstracted to  *)
(* three mask bits: the port's IRQ, the cascade input IRQ2 and the IRQ of  *)
(* some other device, which other tasks may mask and unmask at any time.   *)
(***************************************************************************)
EXTENDS Naturals

CONSTANTS Speeds,        \* WS.Option.ComSpeed values (-B); 0 keeps the speed
          Divisors       \* divisor latch values the UART may hold at start

BAUD_BASE == 115200      \* the 115200L of setSpeed and ComGetSpeed
UWIDTH == 65536          \* unsigned is 16 bits wide

\* PIC mask bits: the port's IRQ, the cascade input, another device's IRQ.
Lines == {"com", "cascade", "other"}

Regs == {"lcr", "mcr", "ier", "fifo"}

VARIABLES vect,          \* the port's interrupt vector: "orig" or "ours"
          pic,           \* [Lines -> BOOLEAN]: TRUE is masked
          uart,          \* [lcr, mcr, ier |-> "orig"/"hs", fifo, div]
          saved,         \* old_vect, old_PIC/old_PIC1, old_LCR/MCR/IER/FCR
          open,          \* ComLL.ComBase /= 0
          is16550,       \* ComLL.Is16550
          opt,           \* [irq: "low"/"high", chip: the UART has a FIFO,
                         \*  dis: WS.Option.Disable16550, speed]
          found          \* the machine as HSLINK found it, with the other
                         \* tasks' later changes to their own IRQ

portvars == <<vect, pic, uart, saved, open, is16550, opt, found>>

TypeOK ==
    /\ vect \in {"orig", "ours"} /\ pic \in [Lines -> BOOLEAN]
    /\ uart.lcr \in {"orig", "hs"} /\ uart.mcr \in {"orig", "hs"}
    /\ uart.ier \in {"orig", "hs"} /\ uart.fifo \in BOOLEAN
    /\ uart.div \in 0..UWIDTH - 1
    /\ open \in BOOLEAN /\ is16550 \in BOOLEAN
    /\ opt.irq \in {"low", "high"} /\ opt.speed \in Speeds

-----------------------------------------------------------------------------
\* setSpeed(speed): 'divisor = (unsigned)(115200L / speed)', written to the
\* divisor latch, then LCR set to 8 bits, 1 stop, no parity.  (Its
\* ComFlush(1) finds the transmit queue that com_reinit just emptied.)
SetSpeed(u, speed) ==
    [u EXCEPT !.div = (BAUD_BASE \div speed) % UWIDTH, !.lcr = "hs"]

\* ComGetSpeed(): 0 for a closed port or a zero divisor, else 115200L over
\* the divisor read back from the latch.
ComGetSpeed ==
    IF ~open \/ uart.div = 0 THEN 0 ELSE BAUD_BASE \div uart.div

\* ComOpen(), for a port with a base address and an IRQ: save the old
\* vector and install LL_InterruptHandler; save LCR, MCR, IER and the FIFO
\* bit read at FCR (IIR) and the PIC mask; unmask the IRQ (and the cascade
\* for IRQ 8-15); unless -D16550, write FCR with FCR_EN_FIFO, which only a
\* 16550 keeps, and detect it; enable the UART interrupts and OUT2, raise
\* RTS; setSpeed if a speed was given.  All with interrupts disabled.
ComOpen ==
    /\ ~open
    /\ saved' = [vect |-> vect, pic |-> pic, lcr |-> uart.lcr, mcr |-> uart.mcr,
                 ier |-> uart.ier,
                 fifo |-> uart.fifo]
    /\ vect' = "ours"
    /\ pic' = [pic EXCEPT !["com"] = FALSE,
                          !["cascade"] = IF opt.irq = "high" THEN FALSE ELSE @]
    /\ is16550' = (~opt.dis /\ opt.chip)
    /\ LET u == [uart EXCEPT !.mcr = "hs", !.ier = "hs",
                   !.fifo = IF opt.dis THEN @ ELSE opt.chip]
       IN uart' = IF opt.speed /= 0 THEN SetSpeed(u, opt.speed) ELSE u
    /\ open' = TRUE
    /\ UNCHANGED <<opt, found>>

\* Mutant (see PROJECT.json).
ComCloseWholePic ==
    /\ open
    /\ uart' = [uart EXCEPT !.fifo = IF is16550 /\ ~saved.fifo THEN FALSE ELSE @,
                            !.lcr = saved.lcr, !.mcr = saved.mcr,
                            !.ier = saved.ier]
    /\ pic' = saved.pic
    /\ vect' = saved.vect
    /\ open' = FALSE
    /\ UNCHANGED <<saved, is16550, opt, found>>

\* ComClose(): nothing for a closed port; otherwise switch the FIFO off if
\* ComOpen found it off, restore LCR, MCR and IER, restore this IRQ's PIC
\* bit (and the cascade bit for IRQ 8-15) keeping the other bits as they
\* are now, put the old vector back and clear ComBase.  (Its ComFlush(2)
\* drains the transmit queue first; the divisor is not restored.)
ComClose ==
    /\ open
    /\ uart' = [uart EXCEPT !.fifo = IF is16550 /\ ~saved.fifo THEN FALSE ELSE @,
                            !.lcr = saved.lcr, !.mcr = saved.mcr,
                            !.ier = saved.ier]
    /\ pic' = [pic EXCEPT !["com"] = saved.pic["com"],
                          !["cascade"] = IF opt.irq = "high"
                                         THEN saved.pic["cascade"] ELSE @]
    /\ vect' = saved.vect
    /\ open' = FALSE
    /\ UNCHANGED <<saved, is16550, opt, found>>

-----------------------------------------------------------------------------
\* Another task (DESQview, another program) masks or unmasks its own IRQ.
OtherTask ==
    /\ \E m \in BOOLEAN :
         /\ pic' = [pic EXCEPT !["other"] = m]
         /\ found' = [found EXCEPT !.pic["other"] = m]
    /\ UNCHANGED <<vect, uart, saved, open, is16550, opt>>

\* The machine before HSLINK runs: its own handler not installed, the IRQ
\* masked, the cascade as the BIOS left it, any FIFO state on a 16550.
\* Options that ComOpen and ComClose treat alike are taken once: the
\* cascade bit is never touched for an IRQ on the first PIC (it is taken
\* unmasked there), and -D16550 and a UART without FIFO both leave the FCR
\* alone (-D16550 is taken with a FIFO chip only).
PortInit ==
    /\ opt \in {o \in [irq : {"low", "high"}, chip : BOOLEAN, dis : BOOLEAN,
                        speed : Speeds] : o.dis => o.chip}
    /\ vect = "orig"
    /\ pic \in {p \in [Lines -> BOOLEAN] :
                 p["com"] /\ ~p["other"] /\ (p["cascade"] => opt.irq = "high")}
    /\ uart \in {u \in [lcr : {"orig"}, mcr : {"orig"}, ier : {"orig"},
                        fifo : BOOLEAN, div : Divisors] :
                   u.fifo => opt.chip}
    /\ saved = [vect |-> "orig", pic |-> pic, lcr |-> "orig", mcr |-> "orig",
                ier |-> "orig", fifo |-> FALSE]
    /\ open = FALSE /\ is16550 = FALSE
    /\ found = [vect |-> vect, pic |-> pic, uart |-> uart]

PortNext == ComOpen \/ ComClose \/ OtherTask

PortSpec == PortInit /\ [][PortNext]_portvars

-----------------------------------------------------------------------------
(* Properties.                                                             *)

\* The port is as HSLINK found it: the old vector, the mask bits (the other
\* device's as its task last set it), LCR, MCR, IER and the FIFO on or off.
PortAsFound ==
    /\ vect = found.vect /\ pic = found.pic
    /\ \A r \in Regs : uart[r] = found.uart[r]

\* Whenever the port is closed (before ComOpen and after ComClose) it is as
\* HSLINK found it in the vector, the PIC mask and LCR, MCR, IER and the
\* FIFO (the divisor, which a -B option changes for good, is left out):
\* ComClose undoes what ComOpen did to these, whatever another task did to
\* its own PIC bit meanwhile (no task here touches the cascade bit) and
\* whatever FIFO and IRQ options were used.
ClosedPortRestored == ~open => PortAsFound
====
