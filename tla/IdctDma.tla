------------------------------ MODULE IdctDma ------------------------------
(***************************************************************************)
(* The hand-off between mjpeg423_decode and the two msgDMA dispatchers     *)
(* around the IDCT accelerator: the flag dma_complete, the completion      *)
(* interrupts of the read and of the write dispatcher, which both set it,  *)
(* and alt_msgdma_descriptor_async_transfer, which stops its dispatcher,   *)
(* clears its status, masks and later unmasks its interrupt.  A dispatcher *)
(* raises its interrupt only for a transfer that ends while it is not      *)
(* masked: one that ends during the call leaves no trace.                  *)
(*                                                                         *)
(* A pass of the decode loop starts three transfers (Cr, Cb and Y).  It    *)
(* waits for dma_complete before each one and clears it, and waits once    *)
(* more after the third without clearing it.                               *)
(*                                                                         *)
(* late = FALSE is the timing on the board: the last block is stored while *)
(* the interrupt routine of the read dispatcher still runs.  TRUE leaves   *)
(* open how much later it is stored.                                       *)
(***************************************************************************)
EXTENDS Integers, FiniteSets

CONSTANTS
  MaxPasses,    \* bound: passes of the decode loop
  FifoDepth,    \* descriptor_fifo_depth
  LateWrites    \* the timings explored: the values of late

ASSUME IdctDmaAssumption ==
  MaxPasses \in Nat \ {0} /\ FifoDepth \in Nat \ {0} /\ LateWrites \subseteq BOOLEAN

Dispatchers == {"read", "write"}

VARIABLES
  main,         \* "wait", "start" (before a call of async_transfer),
                \* "clear" (in it, all interrupts disabled), "describe" (its
                \* descriptor is due), "run" (its end), "last"
  calling,      \* the dispatcher async_transfer is called for
  transfer,     \* the transfer of this pass: 1 Cr, 2 Cb, 3 Y
  pass,         \* history: passes begun
  dmaComplete,  \* dma_complete
  fifo,         \* descriptors waiting in each dispatcher
  stopped,      \* CSR control: stop descriptors
  enabled,      \* CSR control: global interrupt mask
  raised,       \* CSR status: the interrupt
  busy,         \* the masters at work on a descriptor
  isr,          \* the dispatcher alt_msgdma_irq runs for, or "none"
  fetched,      \* history: transfers the read master has finished
  stored,       \* history: transfers whose last block is in memory
  late          \* the last block of a transfer may be stored late (never changes)

csrVars == <<stopped, enabled, raised>>
mainVars == <<main, calling, transfer, pass>>
vars == <<mainVars, dmaComplete, fifo, csrVars, busy, isr, fetched, stored, late>>

Init ==
  /\ main = "wait" /\ calling = "write" /\ transfer = 1 /\ pass = 1
  /\ dmaComplete = TRUE
  /\ fifo = [d \in Dispatchers |-> 0]
  /\ stopped = [d \in Dispatchers |-> FALSE]
  /\ enabled = [d \in Dispatchers |-> FALSE]
  /\ raised = [d \in Dispatchers |-> FALSE]
  /\ busy = {} /\ isr = "none" /\ fetched = 0 /\ stored = 0
  /\ late \in LateWrites

\* Transfers whose descriptors mjpeg423_decode has handed over or is handing over.
Started == 3 * (pass - 1) + transfer - (IF main = "wait" THEN 1 ELSE 0)

\* An interrupt is taken between any two steps of the main CPU.
Uninterrupted == isr = "none" /\ \A d \in Dispatchers : ~raised[d]

-----------------------------------------------------------------------------
(* mjpeg423_decode                                                         *)

\* Mutant of AwaitDma: the flag is not cleared.
AwaitDmaUncleared ==
  /\ main = "wait" /\ Uninterrupted
  /\ dmaComplete
  /\ main' = "start" /\ calling' = "write"
  /\ UNCHANGED <<transfer, pass, dmaComplete, fifo, csrVars, busy, isr, fetched,
                 stored, late>>

AwaitDma ==
  /\ main = "wait" /\ Uninterrupted
  /\ dmaComplete
  /\ dmaComplete' = FALSE
  /\ main' = "start" /\ calling' = "write"
  /\ UNCHANGED <<transfer, pass, fifo, csrVars, busy, isr, fetched, stored, late>>

\* After the descriptor for calling: the read dispatcher's turn, the next wait, or
\* the wait that ends the pass.
AfterCall ==
  IF calling = "write" THEN main' = "start" /\ calling' = "read" /\ UNCHANGED transfer
  ELSE /\ main' = IF transfer = 3 THEN "last" ELSE "wait"
       /\ transfer' = IF transfer = 3 THEN 3 ELSE transfer + 1
       /\ UNCHANGED calling

\* -ENOSPC: the decoder prints it and goes on without the descriptor.
TransferRefused ==
  /\ main = "start" /\ Uninterrupted
  /\ fifo[calling] >= FifoDepth
  /\ AfterCall
  /\ UNCHANGED <<pass, dmaComplete, fifo, csrVars, busy, isr, fetched, stored, late>>

\* Mutant of TransferStart: the fill level of the FIFO is not looked at.
TransferStartUnchecked ==
  /\ main = "start" /\ Uninterrupted
  /\ main' = "clear"
  /\ UNCHANGED <<calling, transfer, pass, dmaComplete, fifo, csrVars, busy, isr, fetched,
                 stored, late>>

\* There is room for the descriptor: all interrupts are disabled.
TransferStart ==
  /\ main = "start" /\ Uninterrupted
  /\ fifo[calling] < FifoDepth
  /\ main' = "clear"
  /\ UNCHANGED <<calling, transfer, pass, dmaComplete, fifo, csrVars, busy, isr, fetched,
                 stored, late>>

\* The control register is written with the stop bit alone, which masks the
\* dispatcher's interrupt, and the status bits that are set are cleared, a pending
\* interrupt among them; then interrupts are enabled again.
TransferBegin ==
  /\ main = "clear"
  /\ stopped' = [stopped EXCEPT ![calling] = TRUE]
  /\ enabled' = [enabled EXCEPT ![calling] = FALSE]
  /\ raised' = [raised EXCEPT ![calling] = FALSE]
  /\ main' = "describe"
  /\ UNCHANGED <<calling, transfer, pass, dmaComplete, fifo, busy, isr, fetched,
                 stored, late>>

WriteDescriptor ==
  /\ main = "describe" /\ Uninterrupted
  /\ fifo' = [fifo EXCEPT ![calling] = @ + 1]
  /\ main' = "run"
  /\ UNCHANGED <<calling, transfer, pass, dmaComplete, csrVars, busy, isr, fetched,
                 stored, late>>

\* Mutant of TransferRun: the interrupt stays masked.
TransferRunMasked ==
  /\ main = "run" /\ Uninterrupted
  /\ stopped' = [stopped EXCEPT ![calling] = FALSE]
  /\ AfterCall
  /\ UNCHANGED <<pass, dmaComplete, fifo, enabled, raised, busy, isr, fetched,
                 stored, late>>

TransferRun ==
  /\ main = "run" /\ Uninterrupted
  /\ stopped' = [stopped EXCEPT ![calling] = FALSE]
  /\ enabled' = [enabled EXCEPT ![calling] = TRUE]
  /\ AfterCall
  /\ UNCHANGED <<pass, dmaComplete, fifo, raised, busy, isr, fetched, stored, late>>

\* The wait after the Y transfer; dma_complete stays set for the next pass.
AwaitLastDma ==
  /\ main = "last" /\ Uninterrupted
  /\ dmaComplete /\ pass < MaxPasses
  /\ main' = "wait" /\ transfer' = 1 /\ pass' = pass + 1
  /\ UNCHANGED <<calling, dmaComplete, fifo, csrVars, busy, isr, fetched, stored, late>>

Main ==
  \/ AwaitDma \/ TransferRefused \/ TransferStart \/ TransferBegin \/ WriteDescriptor
  \/ TransferRun \/ AwaitLastDma

-----------------------------------------------------------------------------
(* The dispatchers and the accelerator                                     *)

\* A dispatcher hands its next descriptor to its master.
Issue(d) ==
  /\ d \notin busy /\ fifo[d] > 0 /\ ~stopped[d]
  /\ fifo' = [fifo EXCEPT ![d] = @ - 1]
  /\ busy' = busy \cup {d}
  /\ UNCHANGED <<mainVars, dmaComplete, csrVars, isr, fetched, stored, late>>

\* The accelerator is one pipe, far shorter than a plane of blocks: the read master
\* finishes a transfer only when the write master is on the same one, and after
\* that the write master stores the last block.
ReadDone ==
  /\ "read" \in busy
  /\ "write" \in busy /\ fetched = stored
  /\ busy' = busy \ {"read"} /\ fetched' = fetched + 1
  /\ raised' = [raised EXCEPT !["read"] = @ \/ enabled["read"]]
  /\ UNCHANGED <<mainVars, dmaComplete, fifo, stopped, enabled, isr, stored, late>>

WriteDone ==
  /\ "write" \in busy /\ fetched = stored + 1
  /\ busy' = busy \ {"write"} /\ stored' = stored + 1
  /\ raised' = [raised EXCEPT !["write"] = @ \/ enabled["write"]]
  /\ UNCHANGED <<mainVars, dmaComplete, fifo, stopped, enabled, isr, fetched, late>>

Dma == ReadDone \/ WriteDone \/ \E d \in Dispatchers : Issue(d)

-----------------------------------------------------------------------------
(* alt_msgdma_irq and write_dma_isr                                        *)

\* The routine masks the dispatcher's interrupt and clears its status.
IsrBegin(d) ==
  /\ isr = "none" /\ raised[d] /\ main # "clear"
  /\ raised' = [raised EXCEPT ![d] = FALSE]
  /\ enabled' = [enabled EXCEPT ![d] = FALSE]
  /\ isr' = d
  /\ UNCHANGED <<mainVars, dmaComplete, fifo, stopped, busy, fetched, stored, late>>

\* write_dma_isr, then the interrupt is enabled again.
IsrEnd(d) ==
  /\ isr = d
  /\ d = "read" /\ ~late => fetched = stored
  /\ dmaComplete' = TRUE
  /\ enabled' = [enabled EXCEPT ![d] = TRUE]
  /\ isr' = "none"
  /\ UNCHANGED <<mainVars, fifo, stopped, raised, busy, fetched, stored, late>>

Isr == \E d \in Dispatchers : IsrBegin(d) \/ IsrEnd(d)

Next == Main \/ Dma \/ Isr

Spec == Init /\ [][Next]_vars

\* The CPU and the hardware keep going.
FairSpec == Spec /\ WF_vars(Main) /\ WF_vars(Dma) /\ WF_vars(Isr)

-----------------------------------------------------------------------------
(* Properties.                                                             *)

TypeOK ==
  /\ main \in {"wait", "start", "clear", "describe", "run", "last"}
  /\ calling \in Dispatchers /\ transfer \in 1 .. 3 /\ pass \in 1 .. MaxPasses
  /\ dmaComplete \in BOOLEAN
  /\ fifo \in [Dispatchers -> 0 .. FifoDepth]
  /\ {stopped, enabled, raised} \subseteq [Dispatchers -> BOOLEAN]
  /\ busy \subseteq Dispatchers /\ isr \in Dispatchers \cup {"none"}
  /\ stored \in 0 .. fetched /\ fetched \in 0 .. 3 * MaxPasses
  /\ late \in LateWrites

\* The flag stands for the data: when a wait for dma_complete ends, the last block
\* of every transfer started is in memory, although the interrupt of the read
\* dispatcher, which comes first, sets the flag too.  If the store is late the flag
\* does not stand for the data.
WaitMeansStored ==
  ~late /\ main \in {"wait", "last"} /\ Uninterrupted /\ dmaComplete
    => stored = Started

\* No wait for dma_complete lasts for ever: neither the status cleared at the start
\* of a transfer nor the masking around it loses the interrupt the next wait needs.
WaitsEnd == <>(main = "last" /\ pass = MaxPasses /\ dmaComplete)
=============================================================================
