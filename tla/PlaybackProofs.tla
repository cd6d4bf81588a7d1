--------------------------- MODULE PlaybackProofs ---------------------------
(***************************************************************************)
(* The display ring never displays the buffer taken from it and shows the  *)
(* registered ones in order, the video DMA's scan-out follows it, and it   *)
(* implements the bounded queue FrameQueue, for every number of buffers.   *)
(* main uses the ring as DisplayRing allows, so that all this holds of the *)
(* player; a video is played out before the next, and main waits only for  *)
(* workers that have a command.                                            *)
(***************************************************************************)
EXTENDS Playback, SequenceTheorems, WellFoundedInduction, TLAPS

-----------------------------------------------------------------------------
(* The display ring: DisplayRing's specification, Spec.                    *)

\* The modulo as a case distinction, which keeps the rest linear.
LEMMA SuccIs ==
  ASSUME NEW b \in Buffers
  PROVE  /\ Succ(b) = IF b + 1 = NumBuffers THEN 0 ELSE b + 1
         /\ Succ(b) \in Buffers
BY RingAssumption DEF Succ, Buffers

\* How far a buffer is ahead of the one being displayed.
Ahead(b) == IF b >= displayed THEN b - displayed ELSE b - displayed + NumBuffers

\* switch_frames waits only when a registered buffer follows the one displayed.
SwitchIsSafe == isr = "wait" => Succ(displayed) # written

\* The buffer being displayed and those registered after it hold the last
\* frames registered, in the order of the ring.
SlotsInOrder ==
  \A b \in Buffers : Ahead(b) <= Count => slot[b] = registered - Count + Ahead(b)

IInv == TypeOK /\ HeldNotDisplayed /\ SwitchIsSafe /\ SlotsInOrder

LEMMA InitIInv == Init => IInv
<1> SUFFICES ASSUME Init PROVE IInv
  OBVIOUS
<1> USE RingAssumption DEF Init
<1>1. TypeOK
  <2>1. 0 \in Buffers /\ 1 \in Buffers
    BY DEF Buffers
  <2>2. <<0>> \in Seq(Buffers) /\ <<0>> # << >>
    BY <2>1
  <2> QED BY <2>1, <2>2 DEF TypeOK
<1>2. HeldNotDisplayed /\ SwitchIsSafe
  BY DEF HeldNotDisplayed, SwitchIsSafe
<1>3. SlotsInOrder
  BY DEF SlotsInOrder, Count, Ahead, Buffers
<1> QED BY <1>1, <1>2, <1>3 DEF IInv

\* The steps that leave the two indices and the frames alone.
LEMMA RingUnchanged ==
  ASSUME IInv, UNCHANGED <<written, displayed, slot, registered>>
  PROVE  SlotsInOrder'
BY DEF IInv, SlotsInOrder, Count, Ahead

LEMMA RegisterStep ==
  ASSUME IInv, RegisterWrittenBuffer
  PROVE  IInv'
<1> USE RingAssumption
<1>1. /\ written \in Buffers /\ displayed \in Buffers /\ written # displayed
      /\ registered \in Nat /\ slot \in [Buffers -> Nat]
  BY DEF IInv, TypeOK, HeldNotDisplayed, RegisterWrittenBuffer
<1>2. /\ written' = Succ(written) /\ displayed' = displayed
      /\ slot' = [slot EXCEPT ![written] = registered + 1]
      /\ registered' = registered + 1 /\ isr = "idle" /\ decoder' = "acquire"
      /\ UNCHANGED <<fifo, scan, isr, showBuffers, playFlag, presses>>
  BY DEF RegisterWrittenBuffer
<1>3. /\ Succ(written) = IF written + 1 = NumBuffers THEN 0 ELSE written + 1
      /\ Succ(written) \in Buffers
  BY <1>1, SuccIs
<1>4. TypeOK'
  BY <1>1, <1>2, <1>3 DEF IInv, TypeOK
<1>5. HeldNotDisplayed' /\ SwitchIsSafe'
  BY <1>2 DEF HeldNotDisplayed, SwitchIsSafe
<1>6. Count' = Count + 1 /\ Count \in Int /\ Ahead(written) = Count + 1
  BY <1>1, <1>2, <1>3 DEF Count, Ahead, Buffers
<1>7. ASSUME NEW b \in Buffers, Ahead(b)' <= Count'
      PROVE  slot'[b] = registered' - Count' + Ahead(b)'
  <2>1. Ahead(b)' = Ahead(b) /\ Ahead(b) \in Int
    BY <1>1, <1>2 DEF Ahead, Buffers
  <2>2. CASE b = written
    BY <1>1, <1>2, <1>6, <2>1, <2>2
  <2>3. CASE b # written
    <3>1. Ahead(b) # Ahead(written)
      BY <1>1, <2>3 DEF Ahead, Buffers
    <3>2. Ahead(b) <= Count
      BY <1>6, <1>7, <2>1, <3>1
    <3>3. slot[b] = registered - Count + Ahead(b)
      BY <3>2 DEF IInv, SlotsInOrder
    <3> QED BY <1>1, <1>2, <1>6, <2>1, <2>3, <3>3
  <2> QED BY <2>2, <2>3
<1>8. SlotsInOrder'
  BY <1>7 DEF SlotsInOrder, Buffers
<1> QED BY <1>4, <1>5, <1>8 DEF IInv

\* A registered frame is still to be shown.
LEMMA SomethingQueued ==
  ASSUME IInv, Succ(displayed) # written
  PROVE  /\ Count \in 1 .. NumBuffers - 1
         /\ Ahead(displayed) = 0 /\ Ahead(Succ(displayed)) = 1
<1>1. displayed \in Buffers /\ written \in Buffers
  BY DEF IInv, TypeOK
<1>2. /\ Succ(displayed) = IF displayed + 1 = NumBuffers THEN 0 ELSE displayed + 1
      /\ Succ(displayed) \in Buffers
  BY <1>1, SuccIs
<1> QED BY <1>1, <1>2, RingAssumption DEF Count, Ahead, Buffers

LEMMA SwitchStep ==
  ASSUME IInv, SwitchFrames
  PROVE  IInv' /\ slot[displayed'] = slot[displayed] + 1
<1> USE RingAssumption
<1>1. /\ written \in Buffers /\ displayed \in Buffers /\ Succ(displayed) # written
      /\ registered \in Nat /\ slot \in [Buffers -> Nat]
  BY DEF IInv, TypeOK, SwitchIsSafe, SwitchFrames
<1>2. /\ displayed' = Succ(displayed) /\ isr' = "idle"
      /\ UNCHANGED <<written, fifo, scan, showBuffers, playFlag, decoder, slot,
                     registered, presses>>
  BY DEF SwitchFrames, historyVars
<1>3. /\ Succ(displayed) = IF displayed + 1 = NumBuffers THEN 0 ELSE displayed + 1
      /\ Succ(displayed) \in Buffers
  BY <1>1, SuccIs
<1>4. TypeOK'
  BY <1>1, <1>2, <1>3 DEF IInv, TypeOK
<1>5. HeldNotDisplayed' /\ SwitchIsSafe'
  BY <1>1, <1>2 DEF HeldNotDisplayed, SwitchIsSafe
<1>6. Count \in 1 .. NumBuffers - 1 /\ Ahead(displayed) = 0 /\ Ahead(Succ(displayed)) = 1
  BY <1>1, SomethingQueued
<1>7. Count' = Count - 1
  BY <1>1, <1>2, <1>3 DEF Count, Buffers
<1>8. ASSUME NEW b \in Buffers, Ahead(b)' <= Count'
      PROVE  slot'[b] = registered' - Count' + Ahead(b)'
  <2>1. Ahead(b) \in Int /\ Ahead(b)' = IF b = displayed THEN NumBuffers - 1 ELSE Ahead(b) - 1
    BY <1>1, <1>2, <1>3 DEF Ahead, Buffers
  <2>2. b # displayed
    BY <1>6, <1>7, <1>8, <2>1
  <2>3. slot[b] = registered - Count + Ahead(b)
    BY <1>6, <1>7, <1>8, <2>1, <2>2 DEF IInv, SlotsInOrder
  <2> QED BY <1>1, <1>2, <1>6, <1>7, <2>1, <2>2, <2>3
<1>9. SlotsInOrder'
  BY <1>8 DEF SlotsInOrder, Buffers
<1>10. slot[Succ(displayed)] = registered - Count + 1 /\ slot[displayed] = registered - Count
  BY <1>1, <1>3, <1>6 DEF IInv, SlotsInOrder
<1>11. slot[displayed'] = slot[displayed] + 1
  BY <1>1, <1>2, <1>6, <1>10
<1> QED BY <1>4, <1>5, <1>9, <1>11 DEF IInv

LEMMA TimerStep ==
  ASSUME IInv, TimerIsr
  PROVE  IInv'
<1>1. /\ isr = "idle" /\ showBuffers' = TRUE
      /\ UNCHANGED <<written, displayed, scan, decoder, slot, registered, presses>>
  BY DEF TimerIsr, ringVars, historyVars
<1>2. Succ(displayed) \in Buffers
  BY SuccIs DEF IInv, TypeOK
<1>3. CASE QueueNext
  <2>1. fifo' = Append(fifo, Succ(displayed)) /\ isr' = "wait" /\ playFlag' = playFlag
        /\ Succ(displayed) # written
    BY <1>3 DEF QueueNext
  <2>2. fifo' \in Seq(Buffers) /\ fifo' # << >>
    BY <1>2, <2>1 DEF IInv, TypeOK
  <2>3. TypeOK'
    BY <1>1, <2>1, <2>2 DEF IInv, TypeOK
  <2> QED BY <1>1, <2>1, <2>3, RingUnchanged DEF IInv, HeldNotDisplayed, SwitchIsSafe, Succ
<1>4. CASE DropFrame
  <2>1. playFlag' = FALSE /\ UNCHANGED <<fifo, isr>>
    BY <1>4 DEF DropFrame
  <2>2. TypeOK'
    BY <1>1, <2>1 DEF IInv, TypeOK
  <2> QED BY <1>1, <2>1, <2>2, RingUnchanged DEF IInv, HeldNotDisplayed, SwitchIsSafe
<1> QED BY <1>3, <1>4 DEF TimerIsr

LEMMA ScanStep ==
  ASSUME IInv, FrameBoundary
  PROVE  IInv'
<1>1. /\ scan' = Head(fifo) /\ fifo' = IF Len(fifo) = 1 THEN fifo ELSE Tail(fifo)
      /\ UNCHANGED <<written, displayed, isr, showBuffers, playFlag, decoder, slot,
                     registered, presses>>
  BY DEF FrameBoundary, ringVars, historyVars
<1>2. fifo \in Seq(Buffers) /\ fifo # << >>
  BY DEF IInv, TypeOK
<1>3. Head(fifo) \in Buffers /\ fifo' \in Seq(Buffers) /\ fifo' # << >>
  <2>1. Head(fifo) \in Buffers /\ Tail(fifo) \in Seq(Buffers) /\ Len(fifo) \in Nat
        /\ Len(Tail(fifo)) = Len(fifo) - 1
    BY <1>2, HeadTailProperties
  <2>2. Len(fifo) # 0
    BY <1>2, EmptySeq
  <2>3. CASE Len(fifo) = 1
    BY <2>1, <2>3, <1>1, <1>2
  <2>4. CASE Len(fifo) # 1
    <3>1. Len(Tail(fifo)) # 0
      BY <2>1, <2>2, <2>4
    <3>2. Tail(fifo) # << >>
      BY <2>1, <3>1, EmptySeq
    <3>3. fifo' = Tail(fifo)
      BY <2>4, <1>1
    <3> QED BY <3>2, <3>3, <2>1
  <2> QED BY <2>3, <2>4
<1>4. TypeOK'
  BY <1>1, <1>3 DEF IInv, TypeOK
<1> QED BY <1>1, <1>4, RingUnchanged DEF IInv, HeldNotDisplayed, SwitchIsSafe, Succ

LEMMA NextIInv == IInv /\ [Next]_vars => IInv'
<1> SUFFICES ASSUME IInv, [Next]_vars PROVE IInv'
  OBVIOUS
<1>1. CASE AcquireBuffer
  <2>1. /\ written # displayed /\ decoder' = "hold" /\ isr = "idle"
        /\ UNCHANGED <<written, displayed, fifo, scan, isr, showBuffers, playFlag, slot,
                       registered, presses>>
    BY <1>1 DEF AcquireBuffer, IsAvailable, ringVars, historyVars
  <2>2. TypeOK'
    BY <2>1 DEF IInv, TypeOK
  <2> QED BY <2>1, <2>2, RingUnchanged DEF IInv, HeldNotDisplayed, SwitchIsSafe
<1>2. CASE RegisterWrittenBuffer
  BY <1>2, RegisterStep
<1>3. CASE ReacquireBuffer
  <2>1. /\ decoder' = "acquire" /\ isr = "idle"
        /\ UNCHANGED <<written, displayed, fifo, scan, isr, showBuffers, playFlag, slot,
                       registered, presses>>
    BY <1>3 DEF ReacquireBuffer, ringVars, historyVars
  <2>2. TypeOK'
    BY <2>1 DEF IInv, TypeOK
  <2> QED BY <2>1, <2>2, RingUnchanged DEF IInv, HeldNotDisplayed, SwitchIsSafe
<1>4. CASE TimerIsr
  BY <1>4, TimerStep
<1>5. CASE SwitchFrames
  BY <1>5, SwitchStep
<1>6. CASE PioIsr
  <2>1. /\ isr = "idle" /\ playFlag' = ~playFlag /\ presses' = presses + 1
        /\ UNCHANGED <<written, displayed, fifo, scan, isr, showBuffers, decoder, slot,
                       registered>>
    BY <1>6 DEF PioIsr, ringVars
  <2>2. TypeOK'
    BY <2>1 DEF IInv, TypeOK
  <2> QED BY <2>1, <2>2, RingUnchanged DEF IInv, HeldNotDisplayed, SwitchIsSafe
<1>7. CASE FrameBoundary
  BY <1>7, ScanStep
<1>8. CASE UNCHANGED vars
  <2>1. UNCHANGED <<written, displayed, fifo, scan, isr, showBuffers, playFlag, decoder,
                    slot, registered, presses>>
    BY <1>8 DEF vars
  <2>2. TypeOK'
    BY <2>1 DEF IInv, TypeOK
  <2> QED BY <2>1, <2>2, RingUnchanged DEF IInv, HeldNotDisplayed, SwitchIsSafe
<1> QED BY <1>1, <1>2, <1>3, <1>4, <1>5, <1>6, <1>7, <1>8 DEF Next

\* The four parts together are an inductive invariant.
THEOREM RingInductive == Spec => []IInv
BY InitIInv, NextIInv, PTL DEF Spec

\* The types of the driver's state.
THEOREM RingTypes == Spec => []TypeOK
<1>1. IInv => TypeOK
  BY DEF IInv
<1> QED BY RingInductive, <1>1, PTL

\* The buffer the decoder has taken and not registered is never the one displayed.
THEOREM HeldApart == Spec => []HeldNotDisplayed
<1>1. IInv => HeldNotDisplayed
  BY DEF IInv
<1> QED BY RingInductive, <1>1, PTL

\* Every switch shows the frame registered next.
THEOREM InOrder == Spec => ShownInOrder
<1>1. IInv /\ [Next]_vars
        => [displayed' # displayed => slot[displayed'] = slot[displayed] + 1]_vars
  <2> SUFFICES ASSUME IInv, Next, displayed' # displayed
               PROVE  slot[displayed'] = slot[displayed] + 1
    OBVIOUS
  <2>1. SwitchFrames
    BY DEF Next, AcquireBuffer, RegisterWrittenBuffer, ReacquireBuffer, TimerIsr, PioIsr,
           FrameBoundary, ringVars
  <2> QED BY <2>1, SwitchStep
<1> QED BY RingInductive, <1>1, PTL DEF Spec, ShownInOrder

-----------------------------------------------------------------------------
(* The scan-out.                                                           *)

\* The FIFO of the video DMA holds the buffer displayed, and while switch_frames
\* waits the next one after it.
FifoFollows ==
  /\ isr = "idle" => fifo = <<displayed>> /\ displayed \in {scan, Succ(scan)}
  /\ isr = "wait" => \/ /\ fifo = <<displayed, Succ(displayed)>>
                        /\ displayed \in {scan, Succ(scan)}
                     \/ /\ fifo = <<Succ(displayed)>>
                        /\ scan \in {displayed, Succ(displayed)}

LEMMA FifoStep == TypeOK /\ FifoFollows /\ [Next]_vars => FifoFollows'
<1> SUFFICES ASSUME TypeOK, FifoFollows, [Next]_vars PROVE FifoFollows'
  OBVIOUS
<1>1. isr = "idle" \/ isr = "wait"
  BY DEF TypeOK
<1>2. CASE TimerIsr
  <2>1. UNCHANGED <<displayed, scan>> /\ isr = "idle"
    BY <1>2 DEF TimerIsr, ringVars
  <2>2. fifo = <<displayed>> /\ displayed \in {scan, Succ(scan)}
    BY <2>1 DEF FifoFollows
  <2>3. CASE QueueNext
    <3>1. fifo' = Append(<<displayed>>, Succ(displayed)) /\ isr' = "wait"
      BY <2>2, <2>3 DEF QueueNext
    <3>2. /\ <<displayed>> \in Seq(Buffers) /\ Succ(displayed) \in Buffers
          /\ <<displayed, Succ(displayed)>> \in Seq(Buffers)
      BY SuccIs DEF TypeOK
    <3>3. fifo' = <<displayed, Succ(displayed)>>
      <4> DEFINE s == Append(<<displayed>>, Succ(displayed))
                 t == <<displayed, Succ(displayed)>>
      <4>1. Len(<<displayed>>) = 1 /\ <<displayed>>[1] = displayed
        OBVIOUS
      <4>2. s \in Seq(Buffers) /\ Len(s) = 2 /\ s[1] = displayed /\ s[2] = Succ(displayed)
        BY <3>2, <4>1, AppendProperties
      <4>3. t \in Seq(Buffers) /\ Len(t) = 2 /\ t[1] = displayed /\ t[2] = Succ(displayed)
        BY <3>2
      <4> HIDE DEF s, t
      <4>4. s = t
        BY <4>2, <4>3, SeqEqual
      <4> QED BY <3>1, <4>4 DEF s, t
    <3> QED BY <2>1, <2>2, <3>1, <3>3 DEF FifoFollows, Succ
  <2>4. CASE DropFrame
    BY <2>1, <2>2, <2>4 DEF DropFrame, FifoFollows, Succ
  <2> QED BY <1>2, <2>3, <2>4 DEF TimerIsr
<1>3. CASE SwitchFrames
  <2>1. /\ isr = "wait" /\ Len(fifo) <= 1 /\ displayed' = Succ(displayed)
        /\ isr' = "idle" /\ UNCHANGED <<fifo, scan>>
    BY <1>3 DEF SwitchFrames
  <2>2. Len(<<displayed, Succ(displayed)>>) = 2
    OBVIOUS
  <2>3. fifo = <<Succ(displayed)>> /\ scan \in {displayed, Succ(displayed)}
    BY <2>1, <2>2 DEF FifoFollows
  <2> QED BY <2>1, <2>3 DEF FifoFollows, Succ
<1>4. CASE FrameBoundary
  <2>1. /\ scan' = Head(fifo) /\ fifo' = IF Len(fifo) = 1 THEN fifo ELSE Tail(fifo)
        /\ UNCHANGED <<displayed, isr>>
    BY <1>4 DEF FrameBoundary, ringVars
  <2>2. CASE fifo = <<displayed>> /\ isr = "idle"
    BY <2>1, <2>2 DEF FifoFollows
  <2>3. CASE fifo = <<displayed, Succ(displayed)>> /\ isr = "wait"
    <3>1. scan' = displayed /\ fifo' = <<Succ(displayed)>>
      BY <2>1, <2>3
    <3> QED BY <2>1, <2>3, <3>1 DEF FifoFollows, Succ
  <2>4. CASE fifo = <<Succ(displayed)>> /\ isr = "wait"
    <3>1. scan' = Succ(displayed) /\ fifo' = fifo
      BY <2>1, <2>4
    <3> QED BY <2>1, <2>4, <3>1 DEF FifoFollows, Succ
  <2> QED BY <1>1, <2>2, <2>3, <2>4 DEF FifoFollows
<1>5. CASE UNCHANGED <<displayed, fifo, scan, isr>>
  BY <1>5 DEF FifoFollows, Succ
<1> QED BY <1>2, <1>3, <1>4, <1>5 DEF Next, AcquireBuffer, RegisterWrittenBuffer,
          ReacquireBuffer, PioIsr, ringVars, vars

\* The scan-out is at most one frame behind when no switch is under way: the wait of
\* switch_frames does what it is for.
THEOREM ScanFollows == Spec => []ScanAtMostOneBehind
<1>1. Init => FifoFollows
  BY DEF Init, FifoFollows
<1>2. FifoFollows => ScanAtMostOneBehind
  BY DEF FifoFollows, ScanAtMostOneBehind
<1> QED BY <1>1, <1>2, FifoStep, RingTypes, PTL DEF Spec

-----------------------------------------------------------------------------
(* The refinement.                                                         *)

\* Playback cannot stop while switch_frames waits, because its caller is the only
\* interrupt routine that runs.
SwitchWhilePlaying == isr = "wait" => playFlag /\ showBuffers

LEMMA SwitchWhilePlayingStep ==
  SwitchWhilePlaying /\ [Next]_vars => SwitchWhilePlaying'
BY DEF SwitchWhilePlaying, Next, vars, AcquireBuffer, RegisterWrittenBuffer,
       ReacquireBuffer, TimerIsr, QueueNext, DropFrame, SwitchFrames, PioIsr, FrameBoundary

\* The waiting buffers as a sequence.
WaitingFacts ==
  displayed \in Buffers /\ written \in Buffers =>
    /\ Count \in 0 .. NumBuffers - 1
    /\ Waiting \in Seq(Buffers) /\ Len(Waiting) = Count
    /\ \A i \in 1 .. Count :
         Waiting[i] = IF displayed + i < NumBuffers THEN displayed + i
                                                    ELSE displayed + i - NumBuffers

LEMMA WaitingIs == WaitingFacts
<1> SUFFICES ASSUME displayed \in Buffers, written \in Buffers
    PROVE  /\ Count \in 0 .. NumBuffers - 1
           /\ Waiting \in Seq(Buffers) /\ Len(Waiting) = Count
           /\ \A i \in 1 .. Count :
                Waiting[i] = IF displayed + i < NumBuffers THEN displayed + i
                                                    ELSE displayed + i - NumBuffers
  BY DEF WaitingFacts
<1> USE RingAssumption
<1>1. Count \in 0 .. NumBuffers - 1
  BY DEF Count, Buffers
<1>2. ASSUME NEW i \in 1 .. Count
      PROVE  /\ (displayed + i) % NumBuffers
                  = IF displayed + i < NumBuffers THEN displayed + i
                                                  ELSE displayed + i - NumBuffers
             /\ (displayed + i) % NumBuffers \in Buffers
  <2>1. /\ i \in 1 .. NumBuffers - 1 /\ displayed \in 0 .. NumBuffers - 1
        /\ NumBuffers \in Nat \ {0}
    BY <1>1 DEF Buffers
  <2>2. CASE displayed + i < NumBuffers
    <3>1. (displayed + i) % NumBuffers = displayed + i
      BY <2>1, <2>2
    <3> QED BY <3>1, <2>1, <2>2 DEF Buffers
  <2>3. CASE displayed + i >= NumBuffers
    <3>1. (displayed + i) % NumBuffers = displayed + i - NumBuffers
      BY <2>1, <2>3
    <3> QED BY <3>1, <2>1, <2>3 DEF Buffers
  <2> QED BY <2>1, <2>2, <2>3
<1>3. Waiting = [i \in 1 .. Count |-> (displayed + i) % NumBuffers]
  BY DEF Waiting
<1> HIDE DEF Waiting
<1>4. Waiting \in Seq(Buffers) /\ Len(Waiting) = Count
  BY <1>1, <1>2, <1>3
<1> QED BY <1>1, <1>2, <1>3, <1>4

\* Registering appends the buffer written to the queue.
LEMMA RegisterRefines ==
  ASSUME IInv, IInv', RegisterWrittenBuffer
  PROVE  Queue!Register
<1> USE RingAssumption
<1>1. /\ written \in Buffers /\ displayed \in Buffers /\ written # displayed
      /\ written' \in Buffers
  BY SuccIs DEF IInv, TypeOK, HeldNotDisplayed, RegisterWrittenBuffer
<1>2. /\ written' = Succ(written)
      /\ UNCHANGED <<displayed, showBuffers, playFlag>>
  BY DEF RegisterWrittenBuffer
<1>3. /\ Count \in 0 .. NumBuffers - 1 /\ Waiting \in Seq(Buffers) /\ Len(Waiting) = Count
      /\ \A i \in 1 .. Count :
           Waiting[i] = IF displayed + i < NumBuffers THEN displayed + i
                                                      ELSE displayed + i - NumBuffers
  BY <1>1, WaitingIs DEF WaitingFacts
<1>4. /\ Waiting' \in Seq(Buffers) /\ Len(Waiting') = Count'
      /\ \A i \in 1 .. Count' :
           Waiting'[i] = IF displayed + i < NumBuffers THEN displayed + i
                                                       ELSE displayed + i - NumBuffers
  <2>1. WaitingFacts'
    BY WaitingIs, PTL
  <2>2. (displayed \in Buffers /\ written \in Buffers)'
    BY <1>1, <1>2 DEF Buffers
  <2> QED BY <2>1, <2>2, <1>2 DEF WaitingFacts
<1>5. Count' = Count + 1 /\ Count < NumBuffers - 1
      /\ written = IF displayed + Count + 1 < NumBuffers THEN displayed + Count + 1
                                                 ELSE displayed + Count + 1 - NumBuffers
  BY <1>1, <1>2, SuccIs DEF Count, Buffers
<1> HIDE DEF Waiting, Count
<1>6. Waiting' = Append(Waiting, written)
  <2>1. /\ Append(Waiting, written) \in Seq(Buffers)
        /\ Len(Append(Waiting, written)) = Count + 1
        /\ \A i \in 1 .. Count : Append(Waiting, written)[i] = Waiting[i]
        /\ Append(Waiting, written)[Count + 1] = written
    BY <1>1, <1>3, AppendProperties
  <2>2. ASSUME NEW i \in 1 .. Count + 1 PROVE Waiting'[i] = Append(Waiting, written)[i]
    <3>1. Waiting'[i] = IF displayed + i < NumBuffers THEN displayed + i
                                                      ELSE displayed + i - NumBuffers
      BY <1>4, <1>5
    <3>2. CASE i \in 1 .. Count
      BY <3>1, <3>2, <1>3, <2>1
    <3>3. CASE i = Count + 1
      <4>1. displayed + i = displayed + Count + 1
        BY <1>1, <1>3, <3>3 DEF Buffers
      <4>2. Append(Waiting, written)[i] = written
        BY <2>1, <3>3
      <4>3. written = IF displayed + i < NumBuffers THEN displayed + i
                                                    ELSE displayed + i - NumBuffers
        <5>1. displayed \in Int /\ Count \in Int /\ NumBuffers \in Int /\ i \in Int
          BY <1>1, <1>3 DEF Buffers
        <5>2. written = IF displayed + Count + 1 < NumBuffers THEN displayed + Count + 1
                                                 ELSE displayed + Count + 1 - NumBuffers
          BY <1>5
        <5> QED BY <5>1, <5>2, <3>3
      <4> QED BY <3>1, <4>2, <4>3
    <3> QED BY <3>2, <3>3, <1>3
  <2> QED BY <1>4, <1>5, <2>1, <2>2, SeqEqual
<1>7. Queue!NextBuffer(written) = Succ(written)
  BY DEF Queue!NextBuffer, Succ
<1> QED BY <1>2, <1>3, <1>5, <1>6, <1>7 DEF Queue!Register, Queue!Available

\* The end of switch_frames shows the head of the queue.
LEMMA SwitchRefines ==
  ASSUME IInv, IInv', SwitchWhilePlaying, SwitchFrames
  PROVE  Queue!Show
<1> USE RingAssumption
<1>1. /\ written \in Buffers /\ displayed \in Buffers /\ displayed' \in Buffers
      /\ Succ(displayed) # written /\ playFlag /\ showBuffers
  BY SuccIs DEF IInv, TypeOK, SwitchIsSafe, SwitchWhilePlaying, SwitchFrames
<1>2. /\ displayed' = Succ(displayed)
      /\ UNCHANGED <<written, showBuffers, playFlag>>
  BY DEF SwitchFrames
<1>3. /\ Count \in 1 .. NumBuffers - 1 /\ Waiting \in Seq(Buffers) /\ Len(Waiting) = Count
      /\ \A i \in 1 .. Count :
           Waiting[i] = IF displayed + i < NumBuffers THEN displayed + i
                                                      ELSE displayed + i - NumBuffers
  BY <1>1, WaitingIs, SomethingQueued DEF WaitingFacts
<1>4. /\ Waiting' \in Seq(Buffers) /\ Len(Waiting') = Count'
      /\ \A i \in 1 .. Count' :
           Waiting'[i] = IF displayed' + i < NumBuffers THEN displayed' + i
                                                        ELSE displayed' + i - NumBuffers
  <2>1. WaitingFacts'
    BY WaitingIs, PTL
  <2>2. (displayed \in Buffers /\ written \in Buffers)'
    BY <1>1, <1>2 DEF Buffers
  <2> QED BY <2>1, <2>2 DEF WaitingFacts
<1>5. /\ Succ(displayed) = IF displayed + 1 = NumBuffers THEN 0 ELSE displayed + 1
  BY <1>1, SuccIs
<1>6. Count' = Count - 1
  BY <1>1, <1>2, <1>5 DEF Count, Buffers
<1> HIDE DEF Waiting, Count
<1>7. Waiting # << >>
  BY <1>3, EmptySeq
<1>8. Waiting' = Tail(Waiting)
  <2>1. /\ Tail(Waiting) \in Seq(Buffers) /\ Len(Tail(Waiting)) = Count - 1
        /\ \A i \in 1 .. Count - 1 : Tail(Waiting)[i] = Waiting[i + 1]
    BY <1>3, <1>7, HeadTailProperties
  <2>2. ASSUME NEW i \in 1 .. Count - 1 PROVE Waiting'[i] = Tail(Waiting)[i]
    <3>1. Waiting'[i] = IF displayed' + i < NumBuffers THEN displayed' + i
                                                       ELSE displayed' + i - NumBuffers
      BY <1>4, <1>6
    <3>2. i + 1 \in 1 .. Count /\ Tail(Waiting)[i] = Waiting[i + 1]
      BY <1>3, <2>1
    <3>3. Waiting[i + 1]
            = IF displayed + (i + 1) < NumBuffers THEN displayed + (i + 1)
                                                  ELSE displayed + (i + 1) - NumBuffers
      BY <1>3, <3>2
    <3>4. displayed \in 0 .. NumBuffers - 1 /\ i \in 1 .. NumBuffers - 2
      BY <1>1, <1>3 DEF Buffers
    <3>5. displayed' = IF displayed + 1 = NumBuffers THEN 0 ELSE displayed + 1
      BY <1>2, <1>5
    <3>6. CASE displayed + 1 = NumBuffers
      <4>1. Waiting'[i] = i
        BY <3>1, <3>4, <3>5, <3>6
      <4>2. Waiting[i + 1] = i
        BY <3>3, <3>4, <3>6
      <4> QED BY <3>2, <4>1, <4>2
    <3>7. CASE displayed + 1 # NumBuffers
      <4>1. displayed' + i = displayed + (i + 1)
        BY <3>4, <3>5, <3>7
      <4>2. displayed \in Int /\ displayed' \in Int /\ NumBuffers \in Int /\ i \in Int
        BY <1>1, <3>4 DEF Buffers
      <4>3. CASE displayed' + i < NumBuffers
        <5>1. Waiting'[i] = displayed + (i + 1)
          BY <3>1, <4>1, <4>3
        <5>2. displayed + (i + 1) < NumBuffers
          BY <4>1, <4>3
        <5> QED BY <5>1, <5>2, <3>2, <3>3
      <4>4. CASE ~(displayed' + i < NumBuffers)
        <5>1. Waiting'[i] = displayed' + i - NumBuffers
          BY <3>1, <4>4
        <5>2. ~(displayed + (i + 1) < NumBuffers)
          BY <4>1, <4>4
        <5>3. Waiting[i + 1] = displayed + (i + 1) - NumBuffers
          BY <3>3, <5>2
        <5>4. displayed' + i - NumBuffers = displayed + (i + 1) - NumBuffers
          <6>1. displayed' = displayed + 1
            BY <3>5, <3>7
          <6> QED BY <6>1, <4>2
        <5> QED BY <5>1, <5>3, <5>4, <3>2
      <4> QED BY <4>3, <4>4
    <3> QED BY <3>6, <3>7
  <2> QED BY <1>4, <1>6, <2>1, <2>2, SeqEqual
<1>9. displayed' = Head(Waiting)
  <2>1. Head(Waiting) = Waiting[1]
    BY <1>3, <1>7
  <2> QED BY <2>1, <1>1, <1>2, <1>3, <1>5 DEF Buffers
<1> QED BY <1>1, <1>2, <1>7, <1>8, <1>9 DEF Queue!Show

\* A tick primes the queue, finds it empty, or only begins a switch.
LEMMA TimerRefines ==
  ASSUME IInv, TimerIsr
  PROVE  Queue!Prime \/ Queue!Underrun \/ UNCHANGED Queue!queueVars
<1> USE RingAssumption
<1>1. /\ playFlag /\ showBuffers' = TRUE /\ showBuffers \in BOOLEAN
      /\ UNCHANGED <<written, displayed>> /\ (showBuffers \/ displayed = written)
  BY DEF IInv, TypeOK, TimerIsr, ringVars, IsAvailable
<1>2. displayed \in Buffers /\ written \in Buffers
  BY DEF IInv, TypeOK
<1>3. Waiting' = Waiting /\ Len(Waiting) = Count /\ Count \in 0 .. NumBuffers - 1
      /\ Waiting \in Seq(Buffers)
  <2>1. Waiting' = Waiting
    BY <1>1 DEF Waiting, Count
  <2> QED BY <2>1, <1>2, WaitingIs DEF WaitingFacts
<1>4. /\ Succ(displayed) = IF displayed + 1 = NumBuffers THEN 0 ELSE displayed + 1
  BY <1>2, SuccIs
<1>5. CASE QueueNext /\ showBuffers
  BY <1>1, <1>3, <1>5 DEF QueueNext, Queue!queueVars
<1>6. CASE QueueNext /\ ~showBuffers
  <2>1. displayed = written
    BY <1>1, <1>6
  <2>2. Count = NumBuffers - 1
    BY <1>2, <2>1 DEF Count, Buffers
  <2> QED BY <1>1, <1>3, <1>6, <2>2 DEF QueueNext, Queue!Prime, Queue!Available
<1>7. CASE DropFrame
  <2>1. Succ(displayed) = written /\ playFlag' = FALSE
    BY <1>7 DEF DropFrame
  <2>2. Count = 0 /\ showBuffers
    BY <1>1, <1>2, <1>4, <2>1 DEF Count, Buffers
  <2>3. Waiting = << >>
    BY <1>3, <2>2, EmptySeq
  <2> QED BY <1>1, <1>3, <2>1, <2>2, <2>3 DEF Queue!Underrun
<1> QED BY <1>5, <1>6, <1>7, <1>1 DEF TimerIsr

\* Every step of the driver is a step of the queue or a stutter.
LEMMA StepRefines ==
  ASSUME IInv, IInv', SwitchWhilePlaying, [Next]_vars
  PROVE  [Queue!Next]_(Queue!queueVars)
<1>1. CASE RegisterWrittenBuffer
  BY <1>1, RegisterRefines DEF Queue!Next
<1>2. CASE TimerIsr
  BY <1>2, TimerRefines DEF Queue!Next
<1>3. CASE SwitchFrames
  BY <1>3, SwitchRefines DEF Queue!Next
<1>4. CASE PioIsr
  BY <1>4 DEF PioIsr, ringVars, Waiting, Count, Queue!Next, Queue!TogglePlay
<1>5. CASE AcquireBuffer \/ ReacquireBuffer \/ FrameBoundary \/ UNCHANGED vars
  BY <1>5 DEF AcquireBuffer, ReacquireBuffer, FrameBoundary, vars, ringVars, Waiting,
              Count, Queue!queueVars
<1> QED BY <1>1, <1>2, <1>3, <1>4, <1>5 DEF Next

\* timer_isr, switch_frames and the ring of two indices implement the bounded
\* queue the decoder relies on.
THEOREM Refinement == Spec => QueueImplemented
<1>1. Init => Queue!Init
  <2> SUFFICES ASSUME Init PROVE Queue!Init
    OBVIOUS
  <2>1. displayed = 0 /\ written = 1 /\ displayed \in Buffers /\ written \in Buffers
    BY RingAssumption DEF Init, Buffers
  <2>2. Count = 0
    BY <2>1 DEF Count
  <2>3. Waiting = << >>
    BY <2>1, <2>2, WaitingIs, EmptySeq DEF WaitingFacts
  <2> QED BY <2>1, <2>3 DEF Init, Queue!Init
<1>2. Init => SwitchWhilePlaying
  BY DEF Init, SwitchWhilePlaying
<1>3. IInv /\ IInv' /\ SwitchWhilePlaying /\ [Next]_vars
        => [Queue!Next]_(Queue!queueVars)
  BY StepRefines
<1> QED BY <1>1, <1>2, <1>3, SwitchWhilePlayingStep, RingInductive, PTL
         DEF Spec, QueueImplemented, Queue!Spec

-----------------------------------------------------------------------------
(* The player.                                                             *)

\* Each action of the player is one of the ring, or leaves the ring alone.
LEMMA RingStep == [PlaybackNext]_allVars => [Next]_vars
<1> SUFFICES ASSUME [PlaybackNext]_allVars PROVE [Next]_vars
  OBVIOUS
<1>1. CASE Loop \/ Browse \/ Play \/ Drain \/ Pass
  BY <1>1 DEF Loop, Browse, Play, Drain, Pass
<1>2. CASE RetrieveConverted2 \/ (\E w \in Workers : RetrieveDecoded(w))
  BY <1>2 DEF RetrieveConverted2, RetrieveDecoded
<1>3. CASE RetrieveConverted1 \/ RetrieveNone \/ Acquire
  BY <1>3 DEF RetrieveConverted1, RetrieveNone, Acquire, Next
<1>4. CASE \E w \in Workers : Acknowledge(w)
  BY <1>4 DEF Acknowledge
<1>5. CASE PressPlay \/ (\E k \in Keys : Press(k)) \/ Display
  BY <1>5 DEF PressPlay, Press, Display, Next
<1>6. CASE UNCHANGED allVars
  BY <1>6 DEF allVars
<1> QED BY <1>1, <1>2, <1>3, <1>4, <1>5, <1>6 DEF PlaybackNext, Main

\* The player is one of the decoders and users that DisplayRing allows.
THEOREM PlaybackUsesRing == PlaybackSpec => Spec
<1>1. PlaybackInit => Init
  BY DEF PlaybackInit
<1> QED BY <1>1, RingStep, PTL DEF PlaybackSpec, Spec

\* The player implements the bounded queue.
THEOREM PlayerImplementsQueue == PlaybackSpec => QueueImplemented
<1> QED BY PlaybackUsesRing, Refinement, PTL

-----------------------------------------------------------------------------
(* A video is played out.                                                  *)

\* Once playback that nobody disturbed is over, the ring is empty, and it stays over
\* until a key is pressed or a video is decoded.
Over ==
  undisturbed =>
    /\ main = "drain" /\ ~playFlag => Count = 0
    /\ main \in {"loop", "browse", "play"} => Count = 0 /\ ~playFlag

\* An underrun means that the ring is empty.
LEMMA UnderrunMeansEmpty ==
  ASSUME TypeOK, Succ(displayed) = written PROVE Count = 0
<1>1. displayed \in Buffers /\ written \in Buffers
  BY DEF TypeOK
<1>2. written = IF displayed + 1 = NumBuffers THEN 0 ELSE displayed + 1
  BY <1>1, SuccIs
<1> QED BY <1>1, <1>2, RingAssumption DEF Count, Buffers

\* The main CPU's steps leave the ring alone while no video is decoded.
LEMMA MainKeepsOver == ASSUME Over, Main PROVE Over'
<1>1. CASE Loop \/ Browse \/ Play \/ Drain
  BY <1>1 DEF Loop, Browse, Play, Drain, Over, Count, vars, pastVars
<1>2. CASE Pass
  BY <1>2 DEF Pass, Return, Decode, Over, Count, vars
<1>3. CASE RetrieveConverted2 \/ RetrieveConverted1 \/ RetrieveNone
  BY <1>3 DEF RetrieveConverted2, RetrieveConverted1, RetrieveNone, pastVars, Over
<1>4. CASE (\E w \in Workers : RetrieveDecoded(w)) \/ Acquire
  BY <1>4 DEF RetrieveDecoded, Acquire, pastVars, Over
<1> QED BY <1>1, <1>2, <1>3, <1>4 DEF Main

LEMMA DisplayKeepsOver ==
  ASSUME TypeOK, SwitchWhilePlaying, Over, Display PROVE Over'
<1>1. UNCHANGED <<main, undisturbed>>
  BY DEF Display, loopVars, pastVars
<1>2. CASE TimerIsr
  <2>1. playFlag /\ UNCHANGED <<written, displayed>>
    BY <1>2 DEF TimerIsr, ringVars
  <2>2. Count' = Count
    BY <2>1 DEF Count
  <2>3. playFlag' \/ Count = 0
    BY <1>2, <2>1, UnderrunMeansEmpty DEF TimerIsr, QueueNext, DropFrame
  <2> QED BY <1>1, <2>1, <2>2, <2>3 DEF Over
<1>3. CASE SwitchFrames
  <2>1. playFlag /\ UNCHANGED playFlag
    BY <1>3 DEF SwitchFrames, SwitchWhilePlaying
  <2> QED BY <1>1, <2>1 DEF Over
<1>4. CASE FrameBoundary
  BY <1>1, <1>4 DEF FrameBoundary, ringVars, Over, Count
<1> QED BY <1>2, <1>3, <1>4 DEF Display

LEMMA OverStep ==
  TypeOK /\ SwitchWhilePlaying /\ Over /\ [PlaybackNext]_allVars => Over'
<1> SUFFICES ASSUME TypeOK, SwitchWhilePlaying, Over, [PlaybackNext]_allVars
             PROVE  Over'
  OBVIOUS
<1>1. CASE Main
  BY <1>1, MainKeepsOver
<1>2. CASE PressPlay
  BY <1>2 DEF PressPlay, Over
<1>3. CASE \E k \in Keys : Press(k)
  BY <1>3 DEF Press, vars, Over, Count
<1>4. CASE Display
  BY <1>4, DisplayKeepsOver
<1>5. CASE \E w \in Workers : Acknowledge(w)
  BY <1>5 DEF Acknowledge, vars, loopVars, pastVars, Over, Count
<1>6. CASE UNCHANGED allVars
  BY <1>6 DEF allVars, vars, loopVars, pastVars, Over, Count
<1> QED BY <1>1, <1>2, <1>3, <1>4, <1>5, <1>6 DEF PlaybackNext

\* When main turns from a video that played on undisturbed, its last registered frame
\* is on the screen, for every number of buffers and frames.
THEOREM VideoPlayedOut == PlaybackSpec => []PlayedOut
<1>1. PlaybackInit => Over /\ SwitchWhilePlaying
  BY DEF PlaybackInit, Init, Over, SwitchWhilePlaying
<1>2. PlaybackSpec => []TypeOK
  BY PlaybackUsesRing, RingTypes, PTL
<1>3. SwitchWhilePlaying /\ [PlaybackNext]_allVars => SwitchWhilePlaying'
  BY RingStep, SwitchWhilePlayingStep
<1>4. Over => PlayedOut
  BY DEF Over, PlayedOut
<1> QED BY <1>1, <1>2, <1>3, <1>4, OverStep, PTL DEF PlaybackSpec

-----------------------------------------------------------------------------
(* The bounds of the player: frames, skips and messages.                   *)

\* A set of numbers has a smallest one.
LEMMA SmallestOf ==
  ASSUME NEW S, S \subseteq Nat, S # {}
  PROVE  \E x \in S : \A y \in S : x <= y
<1>1. IsWellFoundedOn(OpToRel(<, Nat), Nat)
  BY NatLessThanWellFounded
<1>2. \E x \in S : \A y \in S : ~ (<<y, x>> \in OpToRel(<, Nat))
  BY <1>1, WFMin
<1>3. \A x, y \in Nat : y < x => <<y, x>> \in OpToRel(<, Nat)
  BY DEF OpToRel
<1>4. PICK x \in S : \A y \in S : ~ (<<y, x>> \in OpToRel(<, Nat))
  BY <1>2
<1>5. \A y \in S : ~ (y < x)
  BY <1>3, <1>4
<1> QED BY <1>5

\* The frame KeyFrame chooses is in the video if the one it starts from is.
LEMMA KeyFrameIs ==
  ASSUME NEW i \in Nat, length \in Nat, i < length
  PROVE  KeyFrame(i) \in i .. length - 1
<1> DEFINE later == {k \in i .. length - 1 : k % KeyDistance = 0}
<1>1. later \subseteq i .. length - 1 /\ later \subseteq Nat
  OBVIOUS
<1>2. KeyFrame(i) = IF later = {} THEN i ELSE CHOOSE k \in later : \A j \in later : k <= j
  BY DEF KeyFrame
<1> HIDE DEF later
<1>3. later # {} => (CHOOSE k \in later : \A j \in later : k <= j) \in later
  BY <1>1, SmallestOf
<1>4. i \in i .. length - 1
  OBVIOUS
<1>5. CASE later = {}
  BY <1>2, <1>4, <1>5
<1>6. CASE later # {}
  <2>1. KeyFrame(i) \in later
    BY <1>2, <1>3, <1>6
  <2> QED BY <1>1, <2>1
<1> QED BY <1>5, <1>6

\* A search of the trailer stays in the video, or ends right behind it.
LEMMA FoundIs ==
  ASSUME length \in Nat, NEW i \in Nat, i < length, NEW j \in Found(i)
  PROVE  j \in 0 .. length /\ (file = "read" => j < length)
<1>1. CASE file = "read"
  <2>1. j \in i .. length - 1
    BY <1>1, KeyFrameIs DEF Found
  <2> QED BY <2>1
<1>2. CASE file # "read"
  BY <1>2 DEF Found
<1> QED BY <1>1, <1>2

\* So does a skip.
LEMMA SkipStays ==
  ASSUME length \in Nat, frame \in 0 .. length - 1, forward => frame + Reach < length,
         NEW i \in Targets
  PROVE  i \in 0 .. length /\ (file = "read" => i < length)
<1>1. PICK j \in Forward : i \in Back(j)
  BY DEF Targets
<1>2. j \in 0 .. length /\ (file = "read" => j < length)
  <2>1. CASE forward
    <3>1. frame + Step \in Nat /\ frame + Step < length
      BY <2>1, PlaybackAssumption
    <3> QED BY <1>1, <2>1, <3>1, FoundIs DEF Forward
  <2>2. CASE ~forward
    BY <1>1, <2>2 DEF Forward
  <2> QED BY <2>1, <2>2
<1> DEFINE f == IF j > Reach THEN j - Reach ELSE 0
<1>3. f \in Nat /\ f < length
  BY <1>2, PlaybackAssumption
<1>4. CASE back
  <2>1. i \in Found(f)
    BY <1>1, <1>4 DEF Back
  <2> HIDE DEF f
  <2> QED BY <1>3, <2>1, FoundIs
<1>5. CASE ~back
  BY <1>1, <1>2, <1>5 DEF Back
<1> QED BY <1>4, <1>5

\* What has allowed a video to begin, or to be skipped in: the presses of keys but for
\* the skips that are not served yet.
Served == presses + keys - (IF forward THEN 1 ELSE 0) - (IF back THEN 1 ELSE 0)

\* MaxFrames is beyond what so many videos and skips can register.
Suffices(longest) ==
  /\ \A l \in Lengths : l <= longest
  /\ (MaxPresses + MaxKeys) * (longest + 1) < MaxFrames

\* The types in their inductive form: within a pass the frame is one of the video.
PlayerTypes ==
  /\ main \in {"loop", "browse", "play", "drain", "pass"} \cup Passing
  /\ push \in Keys \cup {"none", "play"} /\ forward \in BOOLEAN /\ back \in BOOLEAN
  /\ file \in {"opened", "read", "lost"}
  /\ length \in Lengths \cup {0} /\ frame \in 0 .. length + 1
  /\ main \in Passing => frame <= length
  /\ file = "read" => frame <= length /\ (main \in Passing => frame < length)
  /\ busy \subseteq Workers /\ sent \subseteq Workers /\ answered \subseteq Workers
  /\ keys \in 0 .. MaxKeys /\ presses \in 0 .. MaxPresses
  /\ rushed \in BOOLEAN /\ undisturbed \in BOOLEAN

\* Each video, and each skip, registers at most one frame more than the longest video has.
RegisteredInv(longest) ==
  /\ registered <= Served * (longest + 1)
  /\ main \in {"loop", "browse", "play"} /\ playFlag =>
       registered + (longest + 1) <= Served * (longest + 1)
  /\ main \in {"pass", "retrieve", "register"} =>
       registered + (length + 1 - frame) <= Served * (longest + 1)
  /\ main \in {"decoded2", "decoded1", "acquire"} =>
       registered + (length + 1 - frame) <= Served * (longest + 1) + 1

\* Presses and skips are counted once.
LEMMA ServedIs ==
  ASSUME PlayerTypes
  PROVE  Served \in Int /\ Served <= MaxPresses + MaxKeys
BY PlaybackAssumption, RingAssumption DEF PlayerTypes, Served

-----------------------------------------------------------------------------
(* The types.                                                              *)

LEMMA PlayerTypedFirst == PlaybackInit => PlayerTypes
<1> SUFFICES ASSUME PlaybackInit PROVE PlayerTypes
  OBVIOUS
<1>1. 0 \in 0 .. MaxPresses /\ 0 \in 0 .. MaxKeys
  BY RingAssumption, PlaybackAssumption
<1>2. /\ forward \in BOOLEAN /\ back \in BOOLEAN /\ undisturbed \in BOOLEAN
      /\ rushed \in BOOLEAN
  BY DEF PlaybackInit
<1>3. /\ main = "loop" /\ push = "none" /\ file = "lost" /\ length = 0 /\ frame = 0
      /\ busy = {} /\ sent = {} /\ answered = {} /\ keys = 0 /\ presses = 0
  BY DEF PlaybackInit, Init
<1> QED BY <1>1, <1>2, <1>3 DEF PlayerTypes, Passing

LEMMA MainKeepsTypes == ASSUME TypeOK, PlayerTypes, Main PROVE PlayerTypes'
<1> USE PlaybackAssumption DEF PlayerTypes, mailVars, pastVars, Passing, Workers
<1>1. CASE Loop \/ Browse \/ Drain
  BY <1>1 DEF Loop, Browse, Drain, vars, historyVars
<1>2. CASE Play
  <2>1. /\ UNCHANGED <<push, forward, back, busy, sent, answered, keys, presses, rushed,
                       undisturbed>>
        /\ main' \in {"pass", "loop"}
        /\ \/ frame' = 0 /\ length' \in Lengths \cup {0} /\ file' \in {"read", "lost"}
           \/ UNCHANGED <<file, length, frame>>
    BY <1>2 DEF Play, vars
  <2>2. /\ frame' \in 0 .. length' + 1 /\ length' \in Lengths \cup {0}
        /\ file' \in {"opened", "read", "lost"} /\ (file' = "read" => frame' <= length')
    <3>1. CASE frame' = 0 /\ length' \in Lengths \cup {0} /\ file' \in {"read", "lost"}
      <4> DEFINE l == length'
      <4>1. l \in Nat /\ l \in Lengths \cup {0} /\ frame' = 0
        BY <3>1
      <4> HIDE DEF l
      <4>2. 0 \in 0 .. l + 1 /\ 0 <= l
        BY <4>1
      <4> USE DEF l
      <4> QED BY <3>1, <4>1, <4>2
    <3>2. CASE UNCHANGED <<file, length, frame>>
      BY <3>2
    <3> QED BY <2>1, <3>1, <3>2
  <2> QED BY <2>1, <2>2
<1>3. CASE Pass
  <2>1. /\ UNCHANGED <<push, file, length, busy, sent, answered, keys, presses>>
        /\ forward' \in BOOLEAN /\ back' \in BOOLEAN
    BY <1>3 DEF Pass, vars
  <2>2. CASE Return
    <3>1. main' = "drain" /\ frame' = frame /\ undisturbed' \in BOOLEAN /\ rushed' = rushed
      BY <2>2 DEF Return, TypeOK
    <3> QED BY <2>1, <3>1
  <2>3. CASE ~ Return
    <3>1. /\ ~ (frame >= length) /\ (forward => ~ (frame + Reach >= length))
          /\ \E i \in Targets : Decode(i)
      BY <1>3, <2>3 DEF Pass
    <3>2. length \in Nat
      OBVIOUS
    <3>3. frame \in 0 .. length - 1 /\ (forward => frame + Reach < length)
      BY <3>1, <3>2
    <3>4. PICK i \in Targets : Decode(i)
      BY <3>1
    <3>5. i \in 0 .. length /\ (file = "read" => i < length)
      BY <3>2, <3>3, SkipStays
    <3>6. frame' = i /\ main' = "retrieve" /\ rushed' \in BOOLEAN /\ UNCHANGED undisturbed
      BY <3>4 DEF Decode
    <3> QED BY <2>1, <3>2, <3>5, <3>6
  <2> QED BY <2>2, <2>3
<1>4. CASE RetrieveConverted2
  BY <1>4 DEF RetrieveConverted2, Retrieve, vars
<1>5. CASE RetrieveConverted1
  BY <1>5 DEF RetrieveConverted1, Retrieve, Send, RegisterWrittenBuffer
<1>6. CASE RetrieveNone
  <2>1. presses' = presses
    BY <1>6 DEF RetrieveNone, ReacquireBuffer, historyVars, vars
  <2> QED BY <1>6, <2>1 DEF RetrieveNone, Send
<1>7. CASE \E w \in Workers : RetrieveDecoded(w)
  BY <1>7 DEF RetrieveDecoded, Retrieve, Send, vars
<1>8. CASE Acquire
  <2>1. /\ main = "acquire" /\ main' = "pass" /\ frame' = frame + 1
        /\ UNCHANGED <<push, forward, back, file, length, busy, sent, answered>>
        /\ UNCHANGED <<presses, keys, rushed, undisturbed>>
    BY <1>8 DEF Acquire, AcquireBuffer, historyVars
  <2>2. length \in Nat /\ frame \in 0 .. length /\ (file = "read" => frame < length)
    BY <2>1
  <2>3. frame' \in 0 .. length + 1 /\ (file = "read" => frame' <= length)
    BY <2>1, <2>2
  <2> QED BY <2>1, <2>3
<1> QED BY <1>1, <1>2, <1>3, <1>4, <1>5, <1>6, <1>7, <1>8 DEF Main

LEMMA PlayerTyped ==
  ASSUME TypeOK, PlayerTypes, [PlaybackNext]_allVars PROVE PlayerTypes'
<1> USE PlaybackAssumption DEF PlayerTypes, loopVars, mailVars, pastVars, Keys
<1>1. CASE Main
  BY <1>1, MainKeepsTypes
<1>2. CASE \E w \in Workers : Acknowledge(w)
  BY <1>2 DEF Acknowledge, vars
<1>3. CASE PressPlay
  <2>1. /\ UNCHANGED <<main, forward, back, file, length, frame, busy, sent, answered, keys>>
        /\ push' = "play" /\ undisturbed' \in BOOLEAN /\ presses < MaxPresses
        /\ presses' = presses + 1 /\ rushed' = rushed
    BY <1>3 DEF PressPlay, PioIsr
  <2>2. presses' \in 0 .. MaxPresses
    BY <2>1, RingAssumption
  <2> QED BY <2>1, <2>2
<1>4. CASE \E k \in Keys : Press(k)
  BY <1>4 DEF Press, vars
<1>5. CASE Display
  BY <1>5 DEF Display, TimerIsr, SwitchFrames, FrameBoundary, historyVars
<1>6. CASE UNCHANGED allVars
  BY <1>6 DEF allVars, vars
<1> QED BY <1>1, <1>2, <1>3, <1>4, <1>5, <1>6 DEF PlaybackNext

-----------------------------------------------------------------------------
(* The bounds.                                                             *)

\* A skip that is served is counted; only a skip changes frame_index here.
LEMMA PassServes ==
  ASSUME PlayerTypes, PlayerTypes', Pass
  PROVE  /\ main = "pass" /\ main' \in {"drain", "retrieve"}
         /\ UNCHANGED <<vars, length>>
         /\ Served' >= Served /\ (Served' = Served => frame' = frame)
         /\ main' = "drain" => frame' = frame
<1>1. /\ main = "pass" /\ UNCHANGED <<vars, length, keys>> /\ UNCHANGED presses
      /\ \/ main' = "drain" /\ frame' = frame
         \/ main' = "retrieve" /\ frame' \in Targets
      /\ back' = back \/ back' = FALSE
      /\ forward' = forward \/ forward' = FALSE
  BY DEF Pass, Return, Decode, vars
<1>2. main' = "retrieve" => forward' = FALSE /\ back' = FALSE
  BY DEF Pass, Return
<1>3. presses \in Int /\ keys \in Int /\ forward \in BOOLEAN /\ back \in BOOLEAN
  BY DEF PlayerTypes
<1>4. Served' >= Served
  BY <1>1, <1>3 DEF Served
<1>5. Served' = Served /\ main' = "retrieve" => ~forward /\ ~back
  BY <1>1, <1>2, <1>3 DEF Served
<1>6. ~forward /\ ~back => Targets = {frame}
  BY DEF Targets, Forward, Back
<1> QED BY <1>1, <1>4, <1>5, <1>6

\* Nothing else that the main CPU does changes the count.
LEMMA MainServes ==
  ASSUME Main, ~Pass PROVE UNCHANGED Served
<1> USE DEF historyVars, pastVars, vars, Served
<1>1. CASE Loop \/ Browse \/ Play \/ Drain
  BY <1>1 DEF Loop, Browse, Play, Drain
<1>2. CASE RetrieveConverted2 \/ (\E w \in Workers : RetrieveDecoded(w))
  <2>1. UNCHANGED <<presses, keys, forward, back>>
    BY <1>2 DEF RetrieveConverted2, RetrieveDecoded
  <2> QED BY <2>1
<1>3. CASE RetrieveConverted1 \/ RetrieveNone \/ Acquire
  BY <1>3 DEF RetrieveConverted1, RetrieveNone, Acquire, RegisterWrittenBuffer, ReacquireBuffer,
              AcquireBuffer
<1> QED BY <1>1, <1>2, <1>3 DEF Main

\* A key is counted when it is pressed, and before its skip is served.
LEMMA PressServes ==
  ASSUME PlayerTypes, \E k \in Keys : Press(k)
  PROVE  Served' >= Served /\ UNCHANGED <<vars, main, length, frame>>
<1>1. /\ keys' = keys + 1 /\ UNCHANGED <<vars, main, length, frame>>
      /\ UNCHANGED presses
      /\ forward' \in BOOLEAN /\ back' \in BOOLEAN
      /\ forward' = forward \/ back' = back
  BY DEF Press, Keys, PlayerTypes, vars
<1>2. presses \in Int /\ keys \in Int /\ forward \in BOOLEAN /\ back \in BOOLEAN
  BY DEF PlayerTypes
<1>3. CASE forward' = forward
  BY <1>1, <1>2, <1>3 DEF Served
<1>4. CASE back' = back
  BY <1>1, <1>2, <1>4 DEF Served
<1> QED BY <1>1, <1>3, <1>4

LEMMA PlayServes ==
  ASSUME PlayerTypes, PressPlay
  PROVE  Served' = Served + 1 /\ UNCHANGED <<main, length, frame, registered>>
<1>1. presses' = presses + 1 /\ UNCHANGED <<keys, forward, back>>
      /\ UNCHANGED <<main, length, frame, registered>>
  BY DEF PressPlay, PioIsr
<1>2. presses \in Int /\ keys \in Int /\ forward \in BOOLEAN /\ back \in BOOLEAN
  BY DEF PlayerTypes
<1> QED BY <1>1, <1>2 DEF Served

\* The display does not start playback.
LEMMA DisplayServes ==
  ASSUME Display
  PROVE  UNCHANGED <<main, length, frame, registered>> /\ UNCHANGED Served
         /\ (playFlag' => playFlag)
BY DEF Display, loopVars, pastVars, TimerIsr, QueueNext, DropFrame, SwitchFrames, FrameBoundary,
       historyVars, Served

\* Products with the length of the longest video.
LEMMA Products ==
  ASSUME NEW a \in Int, NEW b \in Int, NEW n \in Nat
  PROVE  /\ a * n \in Int
         /\ a <= b => a * n <= b * n
         /\ a < b => a * n + n <= b * n
OBVIOUS

LEMMA RegisteredStep ==
  ASSUME TypeOK, PlayerTypes, PlayerTypes', NEW longest \in Nat, Suffices(longest),
         RegisteredInv(longest), [PlaybackNext]_allVars
  PROVE  RegisteredInv(longest)'
<1> DEFINE L == longest + 1
           n == Served * L
           m == Served' * L
           r == registered'
           l == length'
           f == frame'
<1>1. /\ registered \in Nat /\ Served \in Int /\ Served' \in Int /\ L \in Nat
      /\ frame \in Nat /\ f \in Nat /\ length \in Nat /\ l \in Nat
  <2>1. registered \in Nat
    BY DEF TypeOK
  <2>2. Served \in Int /\ Served' \in Int
    BY DEF PlayerTypes, Served
  <2>3. length \in Nat /\ frame \in 0 .. length + 1
    BY PlaybackAssumption DEF PlayerTypes
  <2>4. l \in Lengths \cup {0} /\ f \in 0 .. l + 1
    BY DEF PlayerTypes
  <2> HIDE DEF l, f
  <2>5. l \in Nat /\ f \in Nat
    <3>1. l \in Nat
      BY <2>4, PlaybackAssumption
    <3> QED BY <2>4, <3>1
  <2> QED BY <2>1, <2>2, <2>3, <2>5
<1>2. length + 1 <= L /\ l + 1 <= L /\ frame <= length + 1 /\ f <= l + 1
  <2>1. length \in Lengths \cup {0} /\ l \in Lengths \cup {0}
    BY DEF PlayerTypes
  <2>2. frame \in 0 .. length + 1 /\ f \in 0 .. l + 1
    BY DEF PlayerTypes
  <2> HIDE DEF l, f
  <2>3. length <= longest /\ l <= longest
    BY <2>1 DEF Suffices
  <2>4. frame <= length + 1 /\ f <= l + 1
    BY <1>1, <2>2
  <2> QED BY <1>1, <2>3, <2>4
<1>3. /\ n \in Int /\ m \in Int
      /\ Served' = Served => m = n
      /\ Served' >= Served => m >= n
      /\ Served' > Served => m >= n + L
  BY <1>1, Products
<1>4. /\ registered <= n
      /\ main \in {"loop", "browse", "play"} /\ playFlag => registered + L <= n
      /\ main \in {"pass", "retrieve", "register"} => registered + (length + 1 - frame) <= n
      /\ main \in {"decoded2", "decoded1", "acquire"} =>
           registered + (length + 1 - frame) <= n + 1
  BY DEF RegisteredInv
<1>5. SUFFICES
      /\ r <= m
      /\ main' \in {"loop", "browse", "play"} /\ playFlag' => r + L <= m
      /\ main' \in {"pass", "retrieve", "register"} => r + (l + 1 - f) <= m
      /\ main' \in {"decoded2", "decoded1", "acquire"} => r + (l + 1 - f) <= m + 1
  BY DEF RegisteredInv
<1> HIDE DEF n, m, r, l, f, L
<1>6. CASE Pass
  <2>1. /\ main = "pass" /\ main' \in {"drain", "retrieve"} /\ r = registered /\ l = length
        /\ Served' > Served \/ (Served' = Served /\ f = frame)
    BY <1>1, <1>6, PassServes DEF vars, r, l, f
  <2>2. registered <= n /\ registered + (length + 1 - frame) <= n
    BY <1>4, <2>1
  <2>3. CASE Served' > Served
    <3>1. m >= n + L
      BY <1>3, <2>3
    <3>2. r <= m /\ r + (l + 1 - f) <= m
      BY <1>1, <1>2, <1>3, <2>1, <2>2, <3>1
    <3> QED BY <2>1, <3>2
  <2>4. CASE Served' = Served /\ f = frame
    <3>1. r <= m /\ r + (l + 1 - f) <= m
      BY <1>3, <2>1, <2>2, <2>4
    <3> QED BY <2>1, <3>1
  <2> QED BY <2>1, <2>3, <2>4
<1>7. CASE Main /\ ~Pass
  <2>1. m = n
    BY <1>3, <1>7, MainServes
  <2>2. CASE Loop \/ Browse \/ Drain
    <3>1. /\ r = registered /\ l = length /\ f = frame /\ playFlag' = playFlag
          /\ \/ main \in {"loop", "browse"} /\ main' \in {"browse", "play"}
             \/ ~playFlag /\ main' = "loop"
      BY <2>2 DEF Loop, Browse, Drain, vars, r, l, f
    <3> QED BY <1>1, <1>4, <2>1, <3>1
  <2>3. CASE Play
    <3>1. /\ main = "play" /\ r = registered /\ playFlag' = playFlag
          /\ \/ playFlag /\ main' = "pass" /\ f = 0
             \/ ~playFlag /\ main' = "loop"
      BY <2>3 DEF Play, vars, r, f
    <3>2. CASE playFlag
      <4>1. registered + L <= n /\ f = 0
        BY <1>4, <3>1, <3>2
      <4>2. r <= m /\ r + (l + 1 - f) <= m
        BY <1>1, <1>2, <1>3, <2>1, <3>1, <4>1
      <4> QED BY <3>1, <3>2, <4>2
    <3>3. CASE ~playFlag
      BY <1>4, <2>1, <3>1, <3>3
    <3> QED BY <3>2, <3>3
  <2>4. CASE RetrieveConverted2
    <3>1. /\ main = "retrieve" /\ main' = "register" /\ r = registered
          /\ l = length /\ f = frame
      BY <2>4 DEF RetrieveConverted2, vars, r, l, f
    <3> QED BY <1>4, <2>1, <3>1
  <2>5. CASE RetrieveConverted1
    <3>1. /\ main = "register" /\ main' = "decoded2" /\ r = registered + 1
          /\ l = length /\ f = frame
      BY <2>5 DEF RetrieveConverted1, RegisterWrittenBuffer, r, l, f
    <3>2. frame <= length
      BY <3>1 DEF PlayerTypes, Passing
    <3> QED BY <1>1, <1>3, <1>4, <2>1, <3>1, <3>2
  <2>6. CASE RetrieveNone
    <3>1. /\ main = "retrieve" /\ main' = "decoded2" /\ r = registered
          /\ l = length /\ f = frame
      BY <2>6 DEF RetrieveNone, ReacquireBuffer, vars, historyVars, r, l, f
    <3> QED BY <1>1, <1>3, <1>4, <2>1, <3>1
  <2>7. CASE \E w \in Workers : RetrieveDecoded(w)
    <3>1. /\ main \in {"decoded2", "decoded1"} /\ main' \in {"decoded1", "acquire"}
          /\ r = registered /\ l = length /\ f = frame
      BY <2>7 DEF RetrieveDecoded, vars, r, l, f
    <3> QED BY <1>4, <2>1, <3>1
  <2>8. CASE Acquire
    <3>1. /\ main = "acquire" /\ main' = "pass" /\ r = registered
          /\ l = length /\ f = frame + 1
      BY <2>8 DEF Acquire, AcquireBuffer, historyVars, r, l, f
    <3> QED BY <1>1, <1>3, <1>4, <2>1, <3>1
  <2> QED BY <1>7, <2>2, <2>3, <2>4, <2>5, <2>6, <2>7, <2>8 DEF Main
<1>8. CASE PressPlay
  <2>1. /\ Served' = Served + 1 /\ main' = main /\ r = registered /\ l = length /\ f = frame
    BY <1>8, PlayServes DEF r, l, f
  <2>2. m >= n + L
    BY <1>1, <1>3, <2>1
  <2> QED BY <1>1, <1>3, <1>4, <2>1, <2>2
<1>9. CASE \E k \in Keys : Press(k)
  <2>1. /\ Served' >= Served /\ main' = main /\ playFlag' = playFlag
        /\ r = registered /\ l = length /\ f = frame
    BY <1>9, PressServes DEF vars, r, l, f
  <2> QED BY <1>1, <1>3, <1>4, <2>1
<1>10. CASE Display
  <2>1. /\ Served' = Served /\ main' = main /\ (playFlag' => playFlag)
        /\ r = registered /\ l = length /\ f = frame
    BY <1>10, DisplayServes DEF r, l, f
  <2> QED BY <1>1, <1>3, <1>4, <2>1
<1>11. CASE UNCHANGED allVars \/ (\E w \in Workers : Acknowledge(w))
  <2>1. /\ Served' = Served /\ main' = main /\ playFlag' = playFlag
        /\ r = registered /\ l = length /\ f = frame
    BY <1>11 DEF Acknowledge, allVars, vars, loopVars, pastVars, Served, r, l, f
  <2> QED BY <1>1, <1>3, <1>4, <2>1
<1> QED BY <1>6, <1>7, <1>8, <1>9, <1>10, <1>11 DEF PlaybackNext

\* The types of the player hold: a skip leaves the frame within a video whose header was
\* read, and MaxFrames holds nobody up if it allows for that many videos of the longest
\* kind.
THEOREM PlayerTyping ==
  ASSUME NEW longest \in Nat, Suffices(longest)
  PROVE  PlaybackSpec => []PlaybackTypeOK
<1> DEFINE Inv == TypeOK /\ PlayerTypes /\ RegisteredInv(longest)
<1>1. PlaybackInit => PlayerTypes /\ RegisteredInv(longest)
  <2> SUFFICES ASSUME PlaybackInit PROVE PlayerTypes /\ RegisteredInv(longest)
    OBVIOUS
  <2>1. ~forward /\ ~back /\ main = "loop" /\ ~playFlag
        /\ keys = 0 /\ presses = 0 /\ registered = 0
    BY DEF PlaybackInit, Init
  <2>2. Served = 0
    <3>1. (IF forward THEN 1 ELSE 0) = 0 /\ (IF back THEN 1 ELSE 0) = 0
      BY <2>1
    <3>2. Served = presses + keys - 0 - 0
      BY <3>1, Zenon DEF Served
    <3> QED BY <2>1, <3>2
  <2>3. Served * (longest + 1) = 0
    BY <2>2
  <2> QED BY <2>1, <2>2, <2>3, PlayerTypedFirst DEF RegisteredInv
<1>2. TypeOK /\ PlayerTypes /\ RegisteredInv(longest) /\ [PlaybackNext]_allVars
        => PlayerTypes' /\ RegisteredInv(longest)'
  BY PlayerTyped, RegisteredStep
<1>3. PlaybackSpec => []TypeOK
  BY PlaybackUsesRing, RingTypes, PTL
<1>4. Inv => PlaybackTypeOK
  <2> SUFFICES ASSUME Inv PROVE PlaybackTypeOK
    OBVIOUS
  <2>1. Served \in Int /\ Served <= MaxPresses + MaxKeys
    BY ServedIs
  <2>2. registered < MaxFrames
    <3> DEFINE n == Served * (longest + 1)
               k == (MaxPresses + MaxKeys) * (longest + 1)
    <3>1. MaxPresses + MaxKeys \in Int /\ longest + 1 \in Nat
      BY RingAssumption, PlaybackAssumption
    <3>2. n \in Int /\ k \in Int /\ n <= k
      BY <2>1, <3>1, Products
    <3>3. registered <= n /\ k < MaxFrames /\ registered \in Nat /\ MaxFrames \in Nat
      BY RingAssumption DEF RegisteredInv, Suffices, TypeOK
    <3> HIDE DEF n, k
    <3> QED BY <3>2, <3>3
  <2> QED BY <2>2 DEF PlayerTypes, PlaybackTypeOK
<1> QED BY <1>1, <1>2, <1>3, <1>4, PTL DEF PlaybackSpec

-----------------------------------------------------------------------------
(* The messages.                                                           *)

\* Those who will acknowledge or have done so.
Answering == busy \cup answered

\* What the main CPU has asked for and will take: the color conversion of the pass before,
\* and the decoding of this one.
AskedInv ==
  ~rushed =>
    /\ main \in {"pass", "retrieve"} /\ frame >= 2 => Workers \subseteq Answering
    /\ main \in {"register", "decoded1"} => 1 \in Answering
    /\ main = "decoded2" => Workers \subseteq Answering
    /\ main = "decoded1" /\ frame # 0 => 2 \in Answering
    /\ main = "acquire" /\ frame # 0 => Workers \subseteq Answering

LEMMA MainKeepsAsked ==
  ASSUME PlayerTypes, PlayerTypes', AskedInv, Main PROVE AskedInv'
<1>1. frame \in Nat /\ frame' \in Nat
  BY PlaybackAssumption DEF PlayerTypes
<1>2. CASE Loop \/ Browse \/ Drain
  BY <1>2 DEF Loop, Browse, Drain, AskedInv
<1>3. CASE Play
  <2>1. main' = "loop" \/ (main' = "pass" /\ frame' = 0)
    BY <1>3 DEF Play
  <2> QED BY <2>1 DEF AskedInv
<1>4. CASE Pass
  <2>1. CASE main' = "retrieve"
    <3>1. /\ main = "pass" /\ UNCHANGED <<busy, answered>>
          /\ rushed => rushed'
          /\ frame < 2 /\ frame' >= 2 => rushed'
      BY <1>4, <2>1 DEF Pass, Return, Decode, mailVars
    <3>2. ~rushed' /\ frame' >= 2 => ~rushed /\ frame >= 2
      BY <1>1, <3>1
    <3> QED BY <2>1, <3>1, <3>2 DEF AskedInv, Answering
  <2>2. CASE main' # "retrieve"
    BY <1>4, <2>2 DEF Pass, Return, Decode, AskedInv
  <2> QED BY <2>1, <2>2
<1>5. CASE RetrieveConverted2
  <2>1. /\ main = "retrieve" /\ frame >= 2 /\ main' = "register" /\ rushed' = rushed
        /\ busy' = busy /\ answered' = answered \ {2}
    BY <1>5 DEF RetrieveConverted2, Retrieve, pastVars
  <2> QED BY <2>1 DEF AskedInv, Answering, Workers
<1>6. CASE RetrieveConverted1 \/ RetrieveNone
  <2>1. main' = "decoded2" /\ busy' = busy \cup Workers
    BY <1>6 DEF RetrieveConverted1, RetrieveNone, Send
  <2> QED BY <2>1 DEF AskedInv, Answering
<1>7. CASE RetrieveDecoded(2)
  <2>1. /\ main = "decoded2" /\ main' = "decoded1" /\ UNCHANGED <<frame, rushed>>
        /\ busy' = busy \cup (IF frame = 0 THEN {} ELSE {2}) /\ answered' = answered \ {2}
    BY <1>7 DEF RetrieveDecoded, Retrieve, Send, pastVars
  <2> QED BY <2>1 DEF AskedInv, Answering, Workers
<1>8. CASE RetrieveDecoded(1)
  <2>1. /\ main = "decoded1" /\ main' = "acquire" /\ UNCHANGED <<frame, rushed>>
        /\ busy' = busy \cup (IF frame = 0 THEN {} ELSE {1}) /\ answered' = answered \ {1}
    BY <1>8 DEF RetrieveDecoded, Retrieve, Send, pastVars
  <2> QED BY <2>1 DEF AskedInv, Answering, Workers
<1>9. CASE Acquire
  <2>1. /\ main = "acquire" /\ main' = "pass" /\ frame' = frame + 1
        /\ UNCHANGED <<rushed, busy, answered>>
    BY <1>9 DEF Acquire, mailVars, pastVars
  <2>2. frame' >= 2 => frame # 0
    BY <1>1, <2>1
  <2> QED BY <2>1, <2>2 DEF AskedInv, Answering
<1> QED BY <1>2, <1>3, <1>4, <1>5, <1>6, <1>7, <1>8, <1>9 DEF Main, Workers

LEMMA AskedStep ==
  ASSUME PlayerTypes, PlayerTypes', AskedInv, [PlaybackNext]_allVars PROVE AskedInv'
<1> USE DEF AskedInv, Answering, loopVars, mailVars, pastVars
<1>1. CASE Main
  BY <1>1, MainKeepsAsked
<1>2. CASE \E w \in Workers : Acknowledge(w)
  <2>1. /\ UNCHANGED <<main, frame, rushed>>
        /\ busy \cup answered \subseteq busy' \cup answered'
    BY <1>2 DEF Acknowledge
  <2> QED BY <2>1
<1>3. CASE PressPlay \/ (\E k \in Keys : Press(k)) \/ Display
  BY <1>3 DEF PressPlay, Press, Display
<1>4. CASE UNCHANGED allVars
  BY <1>4 DEF allVars
<1> QED BY <1>1, <1>2, <1>3, <1>4 DEF PlaybackNext

\* Whoever the main CPU waits for has a command or has answered, whatever messages are
\* refused or lost, but for a skip out of the first two frames.
THEOREM NobodyStarves == PlaybackSpec => []AwaitedComes
<1> DEFINE Inv == TypeOK /\ PlayerTypes /\ AskedInv
<1>1. PlaybackInit => PlayerTypes /\ AskedInv
  BY PlayerTypedFirst DEF PlaybackInit, AskedInv
<1>2. TypeOK /\ PlayerTypes /\ AskedInv /\ [PlaybackNext]_allVars => PlayerTypes' /\ AskedInv'
  BY PlayerTyped, AskedStep
<1>3. PlaybackSpec => []TypeOK
  BY PlaybackUsesRing, RingTypes, PTL
<1>4. AskedInv => AwaitedComes
  BY DEF AskedInv, AwaitedComes, Awaited, Answering, Workers
<1> QED BY <1>1, <1>2, <1>3, <1>4, PTL DEF PlaybackSpec
=============================================================================
