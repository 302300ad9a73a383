------------------------------ MODULE MemAvail ------------------------------
(***************************************************************************)
(* mem_avail (HSMEM.C), which main() calls once to size the engine's      *)
(* buffers (WS.buffer_sizes).  There is no library call for the largest   *)
(* free heap block, so it steps a request down from MALLOC_MAX by          *)
(* MALLOC_STEP, asking malloc for each size plus one eighth of slop, and   *)
(* returns the first size that succeeds, or 0 once the size reaches the    *)
(* step.  The heap is abstracted to the size of its largest free block:    *)
(* malloc(n) succeeds exactly when n fits.  Arithmetic is 16-bit unsigned, *)
(* as in the code.                                                         *)
(***************************************************************************)
EXTENDS Naturals, FiniteSets

CONSTANT Heaps           \* sizes of the largest free block main() may find

UWIDTH == 65536          \* unsigned is 16 bits wide

VARIABLES largest,       \* the largest free heap block
          buffer_sizes,  \* WS.buffer_sizes
          sized          \* main() has called mem_avail

vars == <<largest, buffer_sizes, sized>>

\* Mutant (see PROJECT.json).
MALLOC_MAX_Large == 60000

\* The #defines of mem_avail.
MALLOC_MAX  == 40960
MALLOC_STEP == 1024
Slop(size) == size \div 8

\* malloc(n) with the heap abstracted to its largest free block.
Fits(n, heap) == n <= heap

\* Mutant (see PROJECT.json).
RECURSIVE StepUpLoop(_, _)
StepUpLoop(size, heap) ==
    IF size <= MALLOC_STEP THEN 0
    ELSE IF Fits((size + Slop(size)) % UWIDTH, heap) THEN size
    ELSE StepUpLoop((size + MALLOC_STEP) % UWIDTH, heap)

\* The for(;;) loop of mem_avail from a given size: give up once the size
\* is no more than the step, return the first size whose malloc (with
\* slop) succeeds, otherwise step down.
RECURSIVE MemAvailLoop(_, _)
MemAvailLoop(size, heap) ==
    IF size <= MALLOC_STEP THEN 0
    ELSE IF Fits((size + Slop(size)) % UWIDTH, heap) THEN size
    ELSE MemAvailLoop((size - MALLOC_STEP) % UWIDTH, heap)

MemAvailResult(heap) == MemAvailLoop(MALLOC_MAX, heap)

\* main(): 'WS.buffer_sizes = mem_avail();'
SizeBuffers ==
    /\ ~sized
    /\ buffer_sizes' = MemAvailResult(largest)
    /\ sized' = TRUE
    /\ UNCHANGED largest

Init == largest \in Heaps /\ buffer_sizes = 0 /\ sized = FALSE

\* After sizing, main() goes on with the transfer (HsLink).
Sized == sized /\ UNCHANGED vars

Next == SizeBuffers \/ Sized

Spec == Init /\ [][Next]_vars

-----------------------------------------------------------------------------
(* Properties.                                                             *)

TypeOK ==
    /\ largest \in Heaps /\ sized \in BOOLEAN
    /\ buffer_sizes \in 0..MALLOC_MAX

\* What mem_avail is meant to compute, in unbounded arithmetic: the largest
\* of the sizes MALLOC_MAX, MALLOC_MAX-MALLOC_STEP, ... above MALLOC_STEP
\* whose block, slop included, fits into the heap; 0 if there is none.
Candidates == {MALLOC_MAX - k * MALLOC_STEP : k \in 0..(MALLOC_MAX \div MALLOC_STEP)}

LargestFit(heap) ==
    LET ok == {s \in Candidates : s > MALLOC_STEP /\ s + Slop(s) <= heap}
    IN IF ok = {} THEN 0 ELSE CHOOSE s \in ok : \A t \in ok : t <= s

\* The buffers main() sizes with mem_avail are the largest step size whose
\* block and slop really fit the heap: the 16-bit sums and the step-down
\* loop neither overshoot the heap nor stop short of a fitting size.
BuffersAreLargestFit == sized => buffer_sizes = LargestFit(largest)
====
