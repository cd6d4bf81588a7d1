--------------------------- MODULE IdctDmaProofs ---------------------------
(***************************************************************************)
(* dma_complete stands for the data, for every number of passes and every  *)
(* depth of the descriptor FIFOs, although two interrupts set it and the   *)
(* calls that start the next transfer mask and clear them.                 *)
(***************************************************************************)
EXTENDS IdctDma, TLAPS

Calls == {"start", "clear", "describe", "run"}
Waits == {"wait", "last"}

\* The descriptor of the transfer being started that dispatcher d has yet to get.
Due(d) ==
  main \in Calls /\ (calling = "write" \/ d = "read")
    /\ ~(main = "run" /\ d = calling)

\* The descriptors handed over to dispatcher d, those -ENOSPC refused included; the
\* transfers its master has finished; the one it is at work on.
Handed(d) == Started - IF Due(d) THEN 1 ELSE 0
Done(d) == IF d = "read" THEN fetched ELSE stored
AtWork(d) == IF d \in busy THEN 1 ELSE 0

\* Every descriptor is waiting, at work or done; none is refused if the stores are
\* not late.
Accounted ==
  \A d \in Dispatchers :
    /\ fifo[d] + AtWork(d) + Done(d) <= Handed(d)
    /\ ~late => fifo[d] + AtWork(d) + Done(d) = Handed(d)

\* The accelerator is one pipe: the write master is on the transfer that has been
\* fetched and not stored.
Piped == fetched = stored \/ (fetched = stored + 1 /\ "write" \in busy)

\* async_transfer found room in the FIFO, and its dispatcher stays stopped until it
\* ends.
InCall ==
  /\ main \in {"clear", "describe"} => fifo[calling] < FifoDepth
  /\ main \in {"describe", "run"} => stopped[calling]

\* While a transfer is being started everything before it is stored, and no interrupt
\* is left over that could set the flag.
NothingLeft ==
  main \in Calls =>
    /\ ~dmaComplete /\ Uninterrupted
    /\ stored = Started - 1 /\ fetched = stored /\ "read" \notin busy

\* While one is waited for, it is stored; or the flag is clear, and the only interrupt
\* that may run is that of the read dispatcher, which does not end before the store.
FlagFollows ==
  main \in Waits =>
    \/ stored = Started
    \/ /\ stored = Started - 1 /\ ~dmaComplete
       /\ ~raised["write"] /\ isr # "write"
       /\ raised["read"] \/ isr = "read" => fetched = stored + 1

\* The types, without the bound of the transfers.
Types ==
  /\ main \in Calls \cup Waits
  /\ calling \in Dispatchers /\ transfer \in 1 .. 3 /\ pass \in 1 .. MaxPasses
  /\ dmaComplete \in BOOLEAN
  /\ fifo \in [Dispatchers -> 0 .. FifoDepth]
  /\ stopped \in [Dispatchers -> BOOLEAN] /\ enabled \in [Dispatchers -> BOOLEAN]
  /\ raised \in [Dispatchers -> BOOLEAN]
  /\ busy \subseteq Dispatchers /\ isr \in Dispatchers \cup {"none"}
  /\ stored \in Nat /\ fetched \in Nat
  /\ late \in LateWrites
  /\ main = "last" => transfer = 3

\* The inductive invariant.
IInv ==
  /\ Types /\ Accounted /\ Piped /\ InCall
  /\ ~late => NothingLeft /\ FlagFollows

\* It holds before the first transfer.
LEMMA InitIInv == Init => IInv
<1> SUFFICES ASSUME Init PROVE IInv
  OBVIOUS
<1> USE IdctDmaAssumption DEF Init, Calls, Waits, Dispatchers, Started
<1>1. Types
  BY DEF Types
<1>2. Accounted
  <2>1. Started = 0 /\ fetched = 0 /\ stored = 0
    OBVIOUS
  <2>2. \A d \in Dispatchers : ~Due(d) /\ d \notin busy /\ fifo[d] = 0
    BY DEF Due
  <2> HIDE DEF Init, Started, Dispatchers, Calls
  <2>3. ASSUME NEW d \in Dispatchers
        PROVE  fifo[d] = 0 /\ Handed(d) = 0 /\ Done(d) = 0 /\ AtWork(d) = 0
    <3>1. ~Due(d) /\ d \notin busy /\ fifo[d] = 0
      BY <2>2
    <3>2. Handed(d) = 0
      <4>1. (IF Due(d) THEN 1 ELSE 0) = 0
        BY <3>1
      <4>2. Handed(d) = Started - 0
        BY <4>1, Zenon DEF Handed
      <4> QED BY <2>1, <4>2
    <3>3. Done(d) = 0
      BY <2>1 DEF Done
    <3>4. AtWork(d) = 0
      BY <3>1 DEF AtWork
    <3> QED BY <3>1, <3>2, <3>3, <3>4
  <2> QED BY <2>3 DEF Accounted
<1>3. Piped /\ InCall /\ NothingLeft /\ FlagFollows
  BY DEF Piped, InCall, NothingLeft, FlagFollows
<1> QED BY <1>1, <1>2, <1>3 DEF IInv

\* Every step keeps the types; WriteDescriptor finds the room TransferStart saw.
LEMMA TypesStep == ASSUME Types, InCall, [Next]_vars PROVE Types'
<1> USE IdctDmaAssumption
    DEF Types, Calls, Waits, Dispatchers, vars, mainVars, csrVars
<1>1. CASE AwaitDma \/ TransferStart \/ AwaitLastDma
  <2>1. CASE AwaitDma
    BY <2>1 DEF AwaitDma
  <2>2. CASE TransferStart
    BY <2>2 DEF TransferStart
  <2>3. CASE AwaitLastDma
    BY <2>3 DEF AwaitLastDma
  <2> QED BY <1>1, <2>1, <2>2, <2>3
<1>2. CASE TransferRefused \/ TransferRun
  <2>1. CASE TransferRefused
    BY <2>1 DEF TransferRefused, AfterCall
  <2>2. CASE TransferRun
    BY <2>2 DEF TransferRun, AfterCall
  <2> QED BY <1>2, <2>1, <2>2
<1>3. CASE TransferBegin
  BY <1>3 DEF TransferBegin
<1>4. CASE WriteDescriptor
  BY <1>4 DEF WriteDescriptor, InCall
<1>5. CASE ReadDone \/ WriteDone
  <2>1. ASSUME NEW d \in Dispatchers
        PROVE  [raised EXCEPT ![d] = raised[d] \/ enabled[d]] \in [Dispatchers -> BOOLEAN]
    OBVIOUS
  <2>2. raised' \in [Dispatchers -> BOOLEAN]
    BY <1>5, <2>1 DEF ReadDone, WriteDone
  <2>3. /\ UNCHANGED <<mainVars, dmaComplete, fifo, stopped, enabled, isr, late>>
        /\ busy' \subseteq busy /\ stored' \in Nat /\ fetched' \in Nat
    BY <1>5 DEF ReadDone, WriteDone
  <2> QED BY <2>2, <2>3
<1>6. CASE \E d \in Dispatchers : Issue(d)
  BY <1>6 DEF Issue
<1>7. CASE Isr
  <2>1. PICK d \in Dispatchers : IsrBegin(d) \/ IsrEnd(d)
    BY <1>7 DEF Isr
  <2>2. CASE IsrBegin(d)
    BY <2>1, <2>2 DEF IsrBegin
  <2>3. CASE IsrEnd(d)
    BY <2>1, <2>3 DEF IsrEnd
  <2> QED BY <2>1, <2>2, <2>3
<1>8. CASE UNCHANGED vars
  BY <1>8
<1> QED BY <1>1, <1>2, <1>3, <1>4, <1>5, <1>6, <1>7, <1>8 DEF Next, Main, Dma

\* Every step accounts for the descriptors: a refused one is missing only if the
\* stores are late.
LEMMA AccountedStep ==
  ASSUME IInv, [Next]_vars PROVE Accounted'
<1> USE DEF Types, Calls, Waits, Dispatchers, vars, mainVars, csrVars, Accounted,
        Due, Handed, Done, AtWork, Started
<1>1. Types /\ Accounted /\ fifo[calling] \in Nat
  BY DEF IInv
<1>2. CASE AwaitDma \/ TransferStart \/ AwaitLastDma \/ TransferBegin
  BY <1>1, <1>2 DEF AwaitDma, TransferStart, AwaitLastDma, TransferBegin
<1>3. CASE TransferRun
  BY <1>1, <1>3 DEF TransferRun, AfterCall
<1>4. CASE TransferRefused
  <2>1. late
    <3>1. ASSUME ~late PROVE fifo[calling] = 0
      BY <1>1, <1>4, <3>1 DEF TransferRefused, IInv, NothingLeft
    <3> QED BY <1>4, <3>1, IdctDmaAssumption DEF TransferRefused, IInv
  <2> QED BY <1>1, <1>4, <2>1 DEF TransferRefused, AfterCall
<1>5. CASE WriteDescriptor
  BY <1>1, <1>5 DEF WriteDescriptor
<1>6. CASE ReadDone \/ WriteDone
  BY <1>1, <1>6 DEF ReadDone, WriteDone
<1>7. CASE \E d \in Dispatchers : Issue(d)
  BY <1>1, <1>7 DEF Issue
<1>8. CASE Isr
  BY <1>1, <1>8 DEF Isr, IsrBegin, IsrEnd
<1>9. CASE UNCHANGED vars
  BY <1>1, <1>9
<1> QED BY <1>2, <1>3, <1>4, <1>5, <1>6, <1>7, <1>8, <1>9 DEF Next, Main, Dma

\* Every step keeps the two masters on the same transfer.
LEMMA PipedStep == ASSUME Types, Piped, [Next]_vars PROVE Piped'
<1> USE DEF Types, Piped, Dispatchers, vars
<1>1. CASE Main \/ Isr
  BY <1>1 DEF Main, AwaitDma, TransferRefused, TransferStart, TransferBegin,
     WriteDescriptor, TransferRun, AwaitLastDma, Isr, IsrBegin, IsrEnd
<1>2. CASE Dma
  BY <1>2 DEF Dma, ReadDone, WriteDone, Issue
<1>3. CASE UNCHANGED vars
  BY <1>3
<1> QED BY <1>1, <1>2, <1>3 DEF Next

\* Every step of async_transfer keeps what the call has established.
LEMMA InCallStep == ASSUME Types, InCall, [Next]_vars PROVE InCall'
<1> USE DEF Types, InCall, Dispatchers, Calls, Waits, vars, mainVars, csrVars
<1>1. CASE AwaitDma \/ TransferStart \/ AwaitLastDma \/ TransferBegin \/ WriteDescriptor
  BY <1>1 DEF AwaitDma, TransferStart, AwaitLastDma, TransferBegin, WriteDescriptor
<1>2. CASE TransferRefused \/ TransferRun
  BY <1>2 DEF TransferRefused, TransferRun, AfterCall
<1>3. CASE ReadDone \/ WriteDone \/ Isr
  BY <1>3 DEF ReadDone, WriteDone, Isr, IsrBegin, IsrEnd
<1>4. CASE \E d \in Dispatchers : Issue(d)
  <2>1. PICK d \in Dispatchers : Issue(d)
    BY <1>4
  <2>2. fifo'[calling] <= fifo[calling] /\ fifo[calling] \in Nat /\ fifo'[calling] \in Int
    BY <2>1 DEF Issue
  <2> QED BY <2>1, <2>2, IdctDmaAssumption DEF Issue
<1>5. CASE UNCHANGED vars
  BY <1>5
<1> QED BY <1>1, <1>2, <1>3, <1>4, <1>5 DEF Next, Main, Dma

\* Every step keeps the flag behind the data, provided the stores are not late.
LEMMA FlagStep ==
  ASSUME IInv, ~late, [Next]_vars PROVE NothingLeft' /\ FlagFollows'
<1> USE DEF Types, Calls, Waits, Dispatchers, vars, mainVars, csrVars, NothingLeft,
        FlagFollows, Started, Uninterrupted
<1>1. Types /\ NothingLeft /\ FlagFollows /\ Piped
  BY DEF IInv
<1>2. CASE AwaitDma
  <2>1. main = "wait" /\ stored = Started
    BY <1>1, <1>2 DEF AwaitDma
  <2>2. fetched = stored /\ "read" \notin busy
    BY <1>1, <2>1, IdctDmaAssumption DEF IInv, Accounted, Handed, Due, Done, AtWork, Piped
  <2> QED BY <1>1, <1>2, <2>1, <2>2 DEF AwaitDma
<1>3. CASE TransferStart \/ TransferBegin \/ WriteDescriptor \/ AwaitLastDma
  <2>1. CASE TransferStart \/ WriteDescriptor
    BY <1>1, <2>1 DEF TransferStart, WriteDescriptor
  <2>2. CASE TransferBegin
    BY <1>1, <2>2 DEF TransferBegin
  <2>3. CASE AwaitLastDma
    BY <1>1, <2>3 DEF AwaitLastDma
  <2> QED BY <1>3, <2>1, <2>2, <2>3
<1>4. CASE TransferRefused \/ TransferRun
  BY <1>1, <1>4 DEF TransferRefused, TransferRun, AfterCall
<1>5. CASE ReadDone
  BY <1>1, <1>5 DEF ReadDone
<1>6. CASE WriteDone
  <2>1. fetched <= Started
    BY <1>1 DEF IInv, Accounted, Handed, Due, Done, AtWork
  <2> QED BY <1>1, <1>6, <2>1 DEF WriteDone
<1>7. CASE \E d \in Dispatchers : Issue(d)
  <2>1. PICK d \in Dispatchers : Issue(d)
    BY <1>7
  <2>2. main \in Calls => d = "write"
    BY <1>1, <2>1 DEF Issue, IInv, InCall, Accounted, Handed, Due, Done, AtWork
  <2> QED BY <1>1, <2>1, <2>2 DEF Issue
<1>8. CASE Isr
  BY <1>1, <1>8 DEF Isr, IsrBegin, IsrEnd, IInv
<1>9. CASE UNCHANGED vars
  BY <1>1, <1>9
<1> QED BY <1>2, <1>3, <1>4, <1>5, <1>6, <1>7, <1>8, <1>9 DEF Next, Main, Dma

\* The invariant holds for every number of passes.
THEOREM Invariance == Spec => []IInv
<1>1. IInv /\ [Next]_vars => IInv'
  <2>1. late' = late \/ ~[Next]_vars
    BY DEF Next, Main, AwaitDma, TransferRefused, TransferStart, TransferBegin,
       WriteDescriptor, TransferRun, AwaitLastDma, Dma, ReadDone, WriteDone, Issue,
       Isr, IsrBegin, IsrEnd, vars
  <2> QED BY <2>1, TypesStep, AccountedStep, PipedStep, InCallStep, FlagStep DEF IInv
<1> QED BY <1>1, InitIInv, PTL DEF Spec

\* The types hold; in particular no FIFO exceeds its depth, whatever the timing.
THEOREM Typing == Spec => []TypeOK
<1>1. IInv => TypeOK
  <2> SUFFICES ASSUME IInv PROVE TypeOK
    OBVIOUS
  <2>1. Types /\ Piped
    BY DEF IInv
  <2>2. fifo["read"] + AtWork("read") + fetched <= Started
    BY <2>1 DEF IInv, Accounted, Handed, Done, Dispatchers, Types, AtWork, Started
  <2>3. fetched <= 3 * MaxPasses
    BY <2>1, <2>2, IdctDmaAssumption DEF Types, Started, AtWork, Dispatchers
  <2> QED BY <2>1, <2>3, IdctDmaAssumption DEF TypeOK, Types, Piped, Calls, Waits
<1> QED BY Invariance, <1>1, PTL

\* async_transfer finds the FIFO with room, so that the -ENOSPC that the decoder only
\* prints is never returned, unless the stores are late.
RoomForTransfer == ~late /\ main = "start" => fifo[calling] < FifoDepth

\* No transfer is refused, for every depth of the FIFOs.
THEOREM NeverRefused == Spec => []RoomForTransfer
<1>1. IInv => RoomForTransfer
  <2> SUFFICES ASSUME IInv, ~late, main = "start" PROVE fifo[calling] = 0
    BY IdctDmaAssumption DEF RoomForTransfer
  <2>1. stored = Started - 1 /\ fetched = stored /\ stored \in Nat
    BY DEF IInv, NothingLeft, Calls, Types
  <2>2. calling \in Dispatchers /\ fifo[calling] \in Nat
    BY DEF IInv, Types
  <2>3. fifo[calling] + AtWork(calling) + Done(calling) = Started - 1
    BY <2>2 DEF IInv, Accounted, Handed, Due, Calls, Dispatchers
  <2> QED BY <2>1, <2>2, <2>3 DEF AtWork, Done
<1> QED BY Invariance, <1>1, PTL

\* When a wait for dma_complete ends, every transfer started is in memory, although the
\* interrupt of the read dispatcher, which comes first, sets the flag too.
THEOREM FlagIsStored == Spec => []WaitMeansStored
<1>1. IInv => WaitMeansStored
  BY DEF IInv, FlagFollows, WaitMeansStored, Waits
<1> QED BY Invariance, <1>1, PTL
=============================================================================
