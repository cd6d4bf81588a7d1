--------------------------- MODULE PipelineProofs ---------------------------
(***************************************************************************)
(* The types of DecoderPipeline, and its ring of frame buffers, for every  *)
(* length of the videos, every number of them and every skip: the          *)
(* invariants that do not depend on which frame comes after which.  Then,  *)
(* for one video of any length, who waits for whom and what is where.      *)
(***************************************************************************)
EXTENDS DecoderPipeline, SequenceTheorems, WellFoundedInduction, TLAPS

-----------------------------------------------------------------------------
(* Numbers: the search of the trailer, and products.                       *)

\* The entry SeekIFrame chooses is the smallest of those it finds.
LEMMA SmallestIs ==
  ASSUME NEW S, S \subseteq Nat, S # {}
  PROVE  Smallest(S) \in S /\ \A j \in S : Smallest(S) <= j
<1>1. IsWellFoundedOn(OpToRel(<, Nat), Nat)
  BY NatLessThanWellFounded
<1>2. \E x \in S : \A y \in S : ~ (<<y, x>> \in OpToRel(<, Nat))
  BY <1>1, WFMin
<1>3. \A x, y \in Nat : y < x => <<y, x>> \in OpToRel(<, Nat)
  BY DEF OpToRel
<1>4. PICK x \in S : \A y \in S : ~ (<<y, x>> \in OpToRel(<, Nat))
  BY <1>2
<1>5. \A y \in S : ~ (y < x)
  BY <1>3, <1>4
<1>6. \E z \in S : \A y \in S : z <= y
  BY <1>5
<1> QED BY <1>6 DEF Smallest

\* The DMA is idle with both FIFOs empty.
Free == dma = "idle" /\ readQ = << >> /\ writeQ = << >>

\* The descriptors of plane p, the read descriptor until it is fetched.
Carries(p) ==
  /\ writeQ = <<[set |-> oddFrame, plane |-> p]>>
  /\ \/ dma \in {"idle", "reading"} /\ readQ = <<p>>
     \/ dma = "draining" /\ readQ = << >>

\* Where the main CPU has cleared dma_complete and queued nothing yet.
Starts == {"startCr", "startCb", "startY"}

\* Where the transfer of plane p may be under way.
Flight(p) ==
  CASE p = "Cr" -> {"convertLow", "ldAck2", "waitCb"}
    [] p = "Cb" -> {"ldAck1", "waitY"}
    [] p = "Y"  -> {"waitLast"}

\* No transfer is under way: nothing is queued and dma_complete is set, unless the
\* main CPU has just cleared it to start one. Or the transfer of plane p is, from
\* StartDma to the wait for it: its write descriptor names the set odd_frame
\* selects, and dma_complete is still clear.
DmaInv ==
  \/ Free /\ (dmaComplete = (main \notin Starts))
  \/ \E p \in Planes : main \in Flight(p) /\ Carries(p) /\ ~dmaComplete

\* A queue of one descriptor.
LEMMA TailOfOne ==
  ASSUME NEW x PROVE Tail(<<x>>) = << >> /\ Head(<<x>>) = x /\ Len(<<x>>) = 1
OBVIOUS

\* Every step keeps at most one transfer under way.
LEMMA DmaStep == ASSUME DmaInv, [Next]_vars PROVE DmaInv'
<1> USE DEF DmaInv, Free, Starts, mainVars, mailVars, workerVars, packageVars,
    dataVars, dmaVars, displayVars, vars
<1>1. CASE UNCHANGED <<main, oddFrame, dmaComplete, dmaVars>>
  BY <1>1 DEF Carries
<1>2. CASE StartVideo \/ NextFrame \/ SkipToEnd \/ LastFrameDone \/ AwaitPlaybackEnd
          \/ RetrieveCcAck2 \/ RetrieveCcAck1 \/ SendLd2 \/ SendLd1 \/ DecodeCr
  BY <1>2 DEF StartVideo, NextFrame, SkipToEnd, LastFrameDone, AwaitPlaybackEnd,
   RetrieveCcAck2, RetrieveCcAck1, SendLd2, SendLd1, DecodeCr, Flight, Planes
<1>3. CASE AwaitDma("waitCr", "startCr") \/ AwaitDma("waitCb", "startCb")
           \/ AwaitDma("waitY", "startY") \/ AwaitLastDma
  BY <1>3 DEF AwaitDma, AwaitLastDma, Flight, Planes
<1>4. CASE \/ StartDma("startCr", "Cr", "convertLow") \/ StartDma("startCb", "Cb", "ldAck1")
           \/ StartDma("startY", "Y", "waitLast")
  <2>1. ASSUME NEW p \in Planes, NEW here \in Starts, NEW next \in Flight(p),
               StartDma(here, p, next)
        PROVE DmaInv'
    <3>1. readQ = << >> /\ writeQ = << >> /\ dma = "idle" /\ ~dmaComplete
      BY <2>1 DEF StartDma, Flight, Planes
    <3>2. readQ' = <<p>> /\ writeQ' = <<[set |-> oddFrame, plane |-> p]>>
      BY <2>1, <3>1 DEF StartDma
    <3> QED BY <2>1, <3>1, <3>2 DEF StartDma, Carries, Flight
  <2> QED BY <1>4, <2>1 DEF Flight, Planes
<1>5. CASE ConvertLow \/ RetrieveLdAck("ldAck2", 2, "waitCb")
           \/ RetrieveLdAck("ldAck1", 1, "waitY") \/ AwaitBuffer \/ ConvertBottom
  BY <1>5
     DEF ConvertLow, RetrieveLdAck, AwaitBuffer, ConvertBottom, Flight, Planes,
     Carries
<1>6. CASE Dma
  <2>1. PICK p \in Planes : main \in Flight(p) /\ Carries(p) /\ ~dmaComplete
    BY <1>6 DEF Dma, DmaStart, ReadComplete, WriteComplete
  <2>2. CASE DmaStart
    BY <2>1, <2>2 DEF DmaStart, Carries, Flight
  <2>3. CASE ReadComplete
    BY <2>1, <2>3, TailOfOne DEF ReadComplete, Carries, Flight
  <2>4. CASE WriteComplete
    BY <2>1, <2>4, TailOfOne DEF WriteComplete, Carries, Flight, Planes
  <2> QED BY <1>6, <2>2, <2>3, <2>4 DEF Dma
<1>7. CASE \E w \in Workers : Worker(w) \/ RxInterrupt(w)
  BY <1>7, <1>1
     DEF Worker, WorkerReceive, WorkerDecode, WorkerConvert, WorkerAck, WorkerLoop,
     RxInterrupt
<1>8. CASE TimerIsr \/ PlayButton \/ SkipButton
  BY <1>8, <1>1 DEF TimerIsr, PlayButton, SkipButton
<1> QED BY <1>1, <1>2, <1>3, <1>4, <1>5, <1>6, <1>7, <1>8 DEF Next, Main

-----------------------------------------------------------------------------
(* Types and counts.                                                       *)

Decoding ==
  {"sendLd2", "sendLd1", "decodeCr", "waitCr", "startCr", "convertLow", "ldAck2",
   "waitCb", "startCb", "ldAck1", "waitY", "startY", "waitLast", "acquire",
   "convertBottom"}
Settling == {"ccAck2", "ccAck1"}
Pausing == {"idle", "frame", "over"}

\* The types of what the main CPU keeps, and of the display's queue.
MainTypes ==
  /\ main \in Pausing \cup Settling \cup Decoding
  /\ frameIndex \in Nat /\ oddFrame \in {0, 1} /\ frame \in Nat
  /\ lastBuffer \in Display!Buffers \cup {NoBuffer}
  /\ dmaComplete \in BOOLEAN /\ skip \subseteq {"fw", "rv"}
  /\ video \in 0 .. MaxVideos /\ skips \in 0 .. MaxSkips
  /\ target \in Display!Buffers /\ queue \in Seq(Display!Buffers)

\* A reverse skip that is still to come takes back at most RvStep frames.
Pending == IF "rv" \in skip THEN RvStep ELSE 0

\* The passes of the loop are counted: each advances frame_index by one at least, a
\* video has NumFrames of them, and every press of a skip button may take back
\* RvStep. Nothing is decoded outside a video.
CountInv ==
  /\ video = 0 => main = "idle"
  /\ main \notin Pausing => frame >= 1
  /\ frame + Pending <= video * NumFrames + RvStep * skips
  /\ video >= 1 =>
       frame + Pending + NumFrames <=
         video * NumFrames + RvStep * skips
           + (IF main \in Pausing THEN frameIndex ELSE frameIndex + 1)

\* A product with one more.
LEMMA OneMore ==
  ASSUME NEW a \in Nat, NEW b \in Nat
  PROVE  /\ a * b \in Nat /\ b * a \in Nat
         /\ (a + 1) * b = a * b + b /\ b * (a + 1) = b * a + b
OBVIOUS

\* Products are monotonic.
LEMMA TimesGrows ==
  ASSUME NEW a \in Nat, NEW b \in Nat, NEW c \in Nat, a <= b
  PROVE  a * c <= b * c
<1>1. PICK d \in Nat : b = a + d
  BY b - a \in Nat, b = a + (b - a)
<1>2. b * c = a * c + d * c /\ a * c \in Int /\ d * c >= 0
  BY <1>1
<1> QED BY <1>2

\* The assumption on the constants, one by one.
LEMMA ConstantTypes ==
  /\ NumBuffers \in Nat /\ NumBuffers >= 2
  /\ NumFrames \in Nat /\ MaxVideos \in Nat /\ FwLook \in Nat /\ FwStep \in Nat
  /\ RvStep \in Nat /\ MaxSkips \in Nat /\ FirstSkip \in Nat
  /\ IFrames \subseteq Nat /\ Buttons \subseteq {"fw", "rv"}
  /\ SlowWorkers \subseteq BOOLEAN
<1>1. {NumFrames, MaxVideos, FwLook, FwStep, RvStep, MaxSkips, FirstSkip} \subseteq Nat
  BY PipelineAssumption
<1>2. 0 .. NumFrames - 1 \subseteq Nat
  BY <1>1
<1> QED BY <1>1, <1>2, PipelineAssumption

\* The search of the trailer never goes back.
LEMMA SeekGoesOn ==
  ASSUME NEW i \in Nat PROVE SeekIFrame(i) \in Nat /\ SeekIFrame(i) >= i
<1> DEFINE later == {t \in IFrames : t >= i}
<1>1. CASE later = {}
  BY <1>1 DEF SeekIFrame
<1>2. CASE later # {}
  <2>1. later \subseteq Nat
    BY ConstantTypes
  <2>2. Smallest(later) \in later
    BY <1>2, <2>1, SmallestIs
  <2> QED BY <1>2, <2>1, <2>2 DEF SeekIFrame
<1> QED BY <1>1, <1>2

\* Where NextFrame goes on: a reverse skip takes back at most RvStep frames, and
\* without a skip the next frame is decoded.
LEMMA SkipTarget ==
  ASSUME frameIndex \in Nat
  PROVE  LET i == SkipReverse(SkipForward(frameIndex))
         IN  /\ i \in Nat /\ i >= frameIndex - Pending
             /\ skip = {} => i = frameIndex
<1>1. SkipForward(frameIndex) \in Nat /\ SkipForward(frameIndex) >= frameIndex
  BY ConstantTypes, SeekGoesOn, frameIndex + FwStep \in Nat DEF SkipForward
<1> DEFINE f == SkipForward(frameIndex)
<1>2. SkipReverse(f) \in Nat /\ SkipReverse(f) >= f - Pending
  <2>1. (IF f - RvStep > 0 THEN f - RvStep ELSE 0) \in Nat
    BY <1>1, ConstantTypes
  <2>2. CASE "rv" \in skip
    BY <1>1, <2>1, <2>2, ConstantTypes, SeekGoesOn DEF SkipReverse, Pending
  <2>3. CASE "rv" \notin skip
    BY <1>1, <2>3 DEF SkipReverse, Pending
  <2> QED BY <2>2, <2>3
<1> QED BY <1>1, <1>2, ConstantTypes DEF SkipForward, SkipReverse, Pending

\* The buffer after b, without the remainder.
LEMMA NextBufferIs ==
  ASSUME NEW b \in Display!Buffers
  PROVE  /\ Display!NextBuffer(b) = IF b + 1 = NumBuffers THEN 0 ELSE b + 1
         /\ Display!NextBuffer(b) \in Display!Buffers
BY ConstantTypes DEF Display!NextBuffer, Display!Buffers

\* Every step keeps the types of the main CPU.
LEMMA MainTypesStep == ASSUME MainTypes, [Next]_vars PROVE MainTypes'
<1> USE
    DEF MainTypes, mainVars, mailVars, workerVars, packageVars, dataVars, dmaVars,
        displayVars, vars, Pausing, Settling, Decoding
<1>1. CASE UNCHANGED <<mainVars, dmaComplete, target, queue>>
  BY <1>1
<1>2. CASE SkipToEnd \/ LastFrameDone \/ AwaitPlaybackEnd \/ RetrieveCcAck2
           \/ SendLd2 \/ SendLd1 \/ DecodeCr
  BY <1>2 DEF SkipToEnd, LastFrameDone, AwaitPlaybackEnd,
     RetrieveCcAck2, SendLd2, SendLd1, DecodeCr
<1>3. CASE StartVideo
  <2>1. video + 1 \in 0 .. MaxVideos
    BY <1>3, ConstantTypes DEF StartVideo
  <2> QED BY <1>3, <2>1 DEF StartVideo
<1>4. CASE NextFrame
  BY <1>4, SkipTarget DEF NextFrame
<1>5. CASE RetrieveCcAck1
  <2>1. Append(queue, target) \in Seq(Display!Buffers)
    OBVIOUS
  <2> QED BY <1>5, <2>1, NextBufferIs DEF RetrieveCcAck1, Display!Register
<1>6. CASE AwaitDma("waitCr", "startCr") \/ StartDma("startCr", "Cr", "convertLow")
           \/ ConvertLow \/ RetrieveLdAck("ldAck2", 2, "waitCb")
           \/ AwaitDma("waitCb", "startCb") \/ StartDma("startCb", "Cb", "ldAck1")
           \/ RetrieveLdAck("ldAck1", 1, "waitY")
           \/ AwaitDma("waitY", "startY") \/ StartDma("startY", "Y", "waitLast")
           \/ AwaitLastDma \/ AwaitBuffer
  BY <1>6
     DEF AwaitDma, StartDma, ConvertLow, RetrieveLdAck, AwaitLastDma, AwaitBuffer
<1>7. CASE ConvertBottom
  BY <1>7 DEF ConvertBottom
<1>8. CASE Dma \/ PlayButton \/ (\E w \in Workers : Worker(w) \/ RxInterrupt(w))
  BY <1>8, <1>1 DEF Dma, DmaStart, ReadComplete, WriteComplete, PlayButton,
     Display!TogglePlay, Worker, WorkerReceive, WorkerDecode, WorkerConvert, WorkerAck,
     WorkerLoop, RxInterrupt
<1>9. CASE TimerIsr
  <2>1. queue # << >> => Tail(queue) \in Seq(Display!Buffers)
    OBVIOUS
  <2> QED BY <1>9, <2>1 DEF TimerIsr, Display!Prime, Display!Show, Display!Underrun
<1>10. CASE SkipButton
  BY <1>10, ConstantTypes DEF SkipButton
<1> QED BY <1>1, <1>2, <1>4, <1>5, <1>6, <1>7, <1>8, <1>9, <1>10, <1>3 DEF Next, Main

\* Every step keeps the count of the passes.
LEMMA CountStep == ASSUME MainTypes, CountInv, [Next]_vars PROVE CountInv'
<1> USE ConstantTypes DEF CountInv, Pending, mainVars, mailVars, workerVars, packageVars,
        dataVars, dmaVars, displayVars, vars, Pausing
<1>1. /\ frameIndex \in Nat /\ frame \in Nat /\ video \in Nat /\ skips \in Nat
      /\ main \in Pausing \cup Settling \cup Decoding
  BY DEF MainTypes
<1> DEFINE P == video * NumFrames
           Q == RvStep * skips
<1>2. P \in Nat /\ Q \in Nat
  BY <1>1, OneMore
<1>3. CASE UNCHANGED mainVars
  BY <1>3
<1>4. CASE StartVideo
  <2>1. video' * NumFrames = P + NumFrames
    BY <1>1, <1>4, OneMore DEF StartVideo
  <2> HIDE DEF P, Q
  <2>2. /\ UNCHANGED <<frame, skip, skips>> /\ frameIndex' = 0 /\ main' = "frame"
        /\ video' = video + 1
    BY <1>4 DEF StartVideo
  <2> QED BY <1>1, <1>2, <2>1, <2>2 DEF P, Q
<1>5. CASE SkipToEnd \/ LastFrameDone \/ AwaitPlaybackEnd
  <2>1. main \in Pausing /\ main' \in Pausing
    BY <1>5 DEF SkipToEnd, LastFrameDone, AwaitPlaybackEnd
  <2>2. /\ UNCHANGED <<frame, frameIndex, video, skips>> /\ ("rv" \in skip' <=> "rv" \in skip)
        /\ video # 0
    BY <1>5 DEF SkipToEnd, LastFrameDone, AwaitPlaybackEnd
  <2> QED BY <1>1, <1>2, <2>1, <2>2
<1>6. CASE NextFrame
  <2> DEFINE i == SkipReverse(SkipForward(frameIndex))
  <2>1. i \in Nat /\ i >= frameIndex - Pending
    BY <1>1, SkipTarget
  <2>2. /\ main = "frame" /\ frameIndex < NumFrames /\ frameIndex' = i /\ skip' = {}
        /\ frame' = frame + 1 /\ main' \notin Pausing /\ UNCHANGED <<video, skips>>
    BY <1>6 DEF NextFrame
  <2> HIDE DEF i
  <2> QED BY <1>1, <1>2, <2>1, <2>2
<1>7. CASE RetrieveCcAck2 \/ RetrieveCcAck1 \/ SendLd2 \/ SendLd1 \/ DecodeCr
           \/ AwaitDma("waitCr", "startCr") \/ StartDma("startCr", "Cr", "convertLow")
           \/ ConvertLow \/ RetrieveLdAck("ldAck2", 2, "waitCb")
           \/ AwaitDma("waitCb", "startCb") \/ StartDma("startCb", "Cb", "ldAck1")
           \/ RetrieveLdAck("ldAck1", 1, "waitY")
           \/ AwaitDma("waitY", "startY") \/ StartDma("startY", "Y", "waitLast")
           \/ AwaitLastDma \/ AwaitBuffer
  <2>1. /\ main \notin Pausing /\ main' \notin Pausing
        /\ UNCHANGED <<frame, frameIndex, video, skips, skip>>
    BY <1>7 DEF RetrieveCcAck2, RetrieveCcAck1, SendLd2, SendLd1, DecodeCr, AwaitDma,
     StartDma, ConvertLow, RetrieveLdAck, AwaitLastDma, AwaitBuffer
  <2> QED BY <1>1, <1>2, <2>1
<1>8. CASE ConvertBottom
  <2>1. /\ main \notin Pausing /\ main' = "frame" /\ frameIndex' = frameIndex + 1
        /\ UNCHANGED <<frame, video, skips, skip>>
    BY <1>8 DEF ConvertBottom
  <2> QED BY <1>1, <1>2, <2>1
<1>9. CASE Dma \/ PlayButton \/ TimerIsr \/ (\E w \in Workers : Worker(w) \/ RxInterrupt(w))
  BY <1>9, <1>3 DEF Dma, DmaStart, ReadComplete, WriteComplete, PlayButton, TimerIsr,
     Worker, WorkerReceive, WorkerDecode, WorkerConvert, WorkerAck, WorkerLoop, RxInterrupt
<1>10. CASE SkipButton
  <2>1. /\ UNCHANGED <<main, frameIndex, video, frame>> /\ skips' = skips + 1
        /\ skip \subseteq skip' /\ video # 0
    BY <1>1, <1>10 DEF SkipButton
  <2>2. RvStep * skips' = Q + RvStep
    BY <1>1, <2>1, OneMore
  <2> HIDE DEF P, Q
  <2> QED BY <1>1, <1>2, <2>1, <2>2 DEF P, Q
<1> QED BY <1>3, <1>4, <1>5, <1>6, <1>7, <1>8, <1>9, <1>10 DEF Next, Main

\* The messages that are sent.
Commands == [command : {"ld", "cc"}, frame : Frames, video : 1 .. MaxVideos]

\* What the color-conversion packages hold.
Packages ==
  [frame : Frames, set : {0, 1}, buffer : Display!Buffers \cup {NoBuffer}]

\* The types of the mailboxes and of the workers.
MailTypes ==
  /\ command \in [Workers -> Commands \cup {None}]
  /\ ack \in [Workers -> Commands \cup {None}]
  /\ job \in [Workers -> Commands \cup {None}]
  /\ worker \in [Workers -> {"poll", "ld", "cc", "ack", "loop"}] /\ slow \in SlowWorkers
  /\ \A w \in Workers : worker[w] \in {"ld", "cc", "ack"} => job[w] \in Commands

\* The types of the data.
DataTypes ==
  /\ payload \in Frames /\ stream \in Frames
  /\ ccPackage \in [1 .. MaxVideos -> Packages]
  /\ dcac \in [Planes -> Frames]
  /\ blocks \in [{0, 1} -> [Planes -> Frames]]
  /\ pixels \in [Display!Buffers -> [Bands -> Frames]]

\* As many passes as CountInv allows are within Frames.
LEMMA FramesCover ==
  ASSUME NEW v \in 0 .. MaxVideos, NEW s \in 0 .. MaxSkips, NEW f \in Nat,
         f <= v * NumFrames + RvStep * s
  PROVE  0 .. f \subseteq Frames
<1> USE ConstantTypes
<1>1. v * NumFrames <= MaxVideos * NumFrames
  BY TimesGrows
<1>2. s * RvStep <= MaxSkips * RvStep /\ s * RvStep = RvStep * s
  BY TimesGrows
<1>3. MaxVideos * (NumFrames + 1) = MaxVideos * NumFrames + MaxVideos
  BY OneMore
<1> DEFINE a == v * NumFrames
           b == RvStep * s
           A == MaxVideos * NumFrames
           B == MaxSkips * RvStep
<1>4. a \in Nat /\ b \in Nat /\ A \in Nat /\ B \in Nat
  BY OneMore
<1>5. f <= A + MaxVideos + B
  <2> HIDE DEF a, b, A, B
  <2>1. f <= a + b /\ a <= A /\ b <= B
    BY <1>1, <1>2 DEF a, b, A, B
  <2> QED BY <1>4, <2>1
<1> QED BY <1>3, <1>5, <1>4 DEF Frames

\* Torn is in Frames: there is room for no pass at all.
LEMMA TornIsFrame == Torn \in Frames
<1>1. MaxVideos * (NumFrames + 1) \in Nat /\ MaxSkips * RvStep \in Nat
  BY ConstantTypes, OneMore, NumFrames + 1 \in Nat
<1> QED BY <1>1 DEF Torn, Frames

\* The number of passes stays within the bound of Frames.
LEMMA FrameTyped ==
  /\ MainTypes /\ CountInv => 0 .. frame \subseteq Frames /\ frame \in Frames
  /\ MainTypes' /\ CountInv' => frame' \in Frames
<1>1. ASSUME NEW f \in Nat, NEW v \in 0 .. MaxVideos, NEW s \in 0 .. MaxSkips,
             NEW p \in {0, RvStep},
             f + p <= v * NumFrames + RvStep * s
      PROVE  0 .. f \subseteq Frames /\ f \in Frames
  <2>1. f <= v * NumFrames + RvStep * s
    BY <1>1, OneMore, ConstantTypes
  <2>2. 0 .. f \subseteq Frames
    BY <2>1, FramesCover
  <2> QED BY <2>2
<1>2. Pending \in {0, RvStep} /\ Pending' \in {0, RvStep}
  BY DEF Pending
<1> QED BY <1>1, <1>2 DEF MainTypes, CountInv

\* What the main CPU sends is a command.
LEMMA MessageTyped ==
  ASSUME MainTypes, CountInv, main \notin Pausing
  PROVE  \A c \in {"ld", "cc"} : Message(c) \in Commands
<1>1. frame \in Nat /\ frame >= 1 /\ video \in 1 .. MaxVideos /\ skips \in 0 .. MaxSkips
  BY DEF MainTypes, CountInv, Pausing
<1>2. 0 .. frame \subseteq Frames
  BY FrameTyped
<1>3. frame \in Frames /\ frame - 1 \in Frames
  BY <1>1, <1>2
<1> QED BY <1>1, <1>3 DEF Message, Commands

\* Every step keeps the types of the mailboxes.
LEMMA MailTypesStep ==
  ASSUME MainTypes, CountInv, MailTypes, [Next]_vars PROVE MailTypes'
<1> USE
    DEF MailTypes, mainVars, mailVars, workerVars, packageVars, dataVars, dmaVars,
        displayVars, vars
<1>1. CASE UNCHANGED <<mailVars, workerVars>>
  BY <1>1
<1>2. CASE StartVideo \/ NextFrame \/ SkipToEnd \/ LastFrameDone \/ AwaitPlaybackEnd
          \/ DecodeCr \/ AwaitDma("waitCr", "startCr")
          \/ StartDma("startCr", "Cr", "convertLow") \/ ConvertLow
          \/ AwaitDma("waitCb", "startCb") \/ StartDma("startCb", "Cb", "ldAck1")
          \/ AwaitDma("waitY", "startY") \/ StartDma("startY", "Y", "waitLast")
          \/ AwaitLastDma \/ AwaitBuffer \/ ConvertBottom
  BY <1>2, <1>1
     DEF StartVideo, NextFrame, SkipToEnd, LastFrameDone, AwaitPlaybackEnd,
     DecodeCr, AwaitDma, StartDma, ConvertLow, AwaitLastDma, AwaitBuffer, ConvertBottom
<1>3. CASE RetrieveCcAck2 \/ RetrieveCcAck1
  BY <1>3 DEF RetrieveCcAck2, RetrieveCcAck1, Emptied
<1>4. CASE SendLd2 \/ SendLd1
  <2>1. Message("ld") \in Commands
    BY <1>4, MessageTyped DEF SendLd2, SendLd1, Pausing
  <2> QED BY <1>4, <2>1 DEF SendLd2, SendLd1, Send
<1>5. CASE RetrieveLdAck("ldAck2", 2, "waitCb") \/ RetrieveLdAck("ldAck1", 1, "waitY")
  <2>1. Message("cc") \in Commands
    BY <1>5, MessageTyped DEF RetrieveLdAck, Pausing
  <2> QED BY <1>5, <2>1 DEF RetrieveLdAck, Send, Emptied
<1>6. ASSUME NEW w \in Workers, Worker(w) \/ RxInterrupt(w) PROVE MailTypes'
  <2>1. CASE WorkerReceive(w)
    <3>1. command[w] \in Commands /\ command[w].command \in {"ld", "cc"}
      BY <2>1 DEF WorkerReceive, Commands
    <3> QED BY <2>1, <3>1 DEF WorkerReceive, Emptied
  <2>2. CASE WorkerDecode(w) \/ WorkerConvert(w) \/ WorkerLoop(w)
    BY <2>2 DEF WorkerDecode, WorkerConvert, WorkerLoop
  <2>3. CASE WorkerAck(w)
    BY <2>3 DEF WorkerAck, Send
  <2>4. CASE RxInterrupt(w)
    BY <2>4 DEF RxInterrupt, Emptied
  <2> QED BY <1>6, <2>1, <2>2, <2>3, <2>4 DEF Worker
<1>7. CASE Dma \/ TimerIsr \/ PlayButton \/ SkipButton
  BY <1>7, <1>1
     DEF Dma, DmaStart, ReadComplete, WriteComplete, TimerIsr, PlayButton, SkipButton
<1> QED BY <1>1, <1>2, <1>3, <1>4, <1>5, <1>6, <1>7 DEF Next, Main

\* What is converted from a set of color blocks is a frame, or Torn.
LEMMA FrameInTyped ==
  ASSUME DataTypes, NEW s \in {0, 1} PROVE FrameIn(s) \in Frames
<1>1. blocks[s]["Y"] \in Frames
  BY DEF DataTypes, Planes
<1>2. Torn \in Frames
  BY TornIsFrame
<1> QED BY <1>1, <1>2 DEF FrameIn

\* Every step keeps the types of the data.
LEMMA DataTypesStep ==
  ASSUME MainTypes, MainTypes', CountInv, CountInv', DmaInv, MailTypes, DataTypes, [Next]_vars
  PROVE  DataTypes'
<1> USE TornIsFrame
    DEF DataTypes, mainVars, mailVars, workerVars, packageVars, dataVars, dmaVars,
        displayVars, vars
<1>1. main \notin Pausing => frame \in Frames /\ frame - 1 \in Frames
  BY MessageTyped DEF Commands, Message
<1>2. CASE UNCHANGED <<packageVars, dataVars, stream>>
  BY <1>2
<1>3. CASE StartVideo \/ LastFrameDone
  BY <1>3 DEF StartVideo, LastFrameDone
<1>4. CASE SkipToEnd \/ AwaitPlaybackEnd \/ RetrieveCcAck2 \/ RetrieveCcAck1 \/ SendLd2
           \/ AwaitDma("waitCr", "startCr")
           \/ StartDma("startCr", "Cr", "convertLow") \/ RetrieveLdAck("ldAck2", 2, "waitCb")
           \/ AwaitDma("waitCb", "startCb") \/ StartDma("startCb", "Cb", "ldAck1")
           \/ RetrieveLdAck("ldAck1", 1, "waitY")
           \/ AwaitDma("waitY", "startY") \/ StartDma("startY", "Y", "waitLast")
           \/ AwaitLastDma \/ AwaitBuffer
  BY <1>4, <1>2
     DEF SkipToEnd, AwaitPlaybackEnd, RetrieveCcAck2, RetrieveCcAck1, SendLd2,
     AwaitDma, StartDma, RetrieveLdAck, AwaitLastDma, AwaitBuffer
<1>5. CASE NextFrame
  <2>1. main' \notin Pausing /\ frame' = frame + 1 /\ payload' = frame'
    BY <1>5 DEF NextFrame, Pausing
  <2>2. frame' \in Frames
    BY <1>5, <2>1, FrameTyped
  <2> QED BY <1>5, <2>1, <2>2 DEF NextFrame
<1>6. CASE SendLd1
  <2>1. [frame |-> frame - 1, set |-> 1 - oddFrame, buffer |-> lastBuffer] \in Packages
    BY <1>6, <1>1 DEF SendLd1, Pausing, MainTypes, Packages
  <2> QED BY <1>6, <2>1 DEF SendLd1
<1>7. CASE DecodeCr
  BY <1>1, <1>7 DEF DecodeCr, Pausing
<1>8. CASE ConvertLow \/ ConvertBottom
  <2>1. FrameIn(1 - oddFrame) \in Frames
    BY FrameInTyped DEF MainTypes
  <2> QED BY <1>8, <2>1 DEF ConvertLow, ConvertBottom, Convert
<1>9. ASSUME NEW w \in Workers, Worker(w) \/ RxInterrupt(w) PROVE DataTypes'
  <2>1. CASE WorkerReceive(w)
    <3>1. CASE command[w].command = "ld"
      BY <2>1, <3>1 DEF WorkerReceive
    <3>2. CASE command[w].command # "ld"
      <4>1. PICK b, d : pixels' = [pixels EXCEPT ![b][d] = Torn]
        BY <2>1, <3>2 DEF WorkerReceive
      <4>2. UNCHANGED <<packageVars, stream, dcac, blocks>>
        BY <2>1, <3>2 DEF WorkerReceive
      <4> QED BY <4>1, <4>2
    <3> QED BY <3>1, <3>2
  <2>2. CASE WorkerDecode(w)
    BY <2>2 DEF WorkerDecode
  <2>3. CASE WorkerConvert(w)
    <3>1. job[w].video \in 1 .. MaxVideos
      BY <2>3 DEF WorkerConvert, MailTypes, Commands
    <3>2. Package(w).set \in {0, 1}
      BY <3>1 DEF Package, Packages
    <3> QED BY <2>3, <3>2, FrameInTyped DEF WorkerConvert
  <2>4. CASE WorkerAck(w) \/ WorkerLoop(w) \/ RxInterrupt(w)
    BY <2>4 DEF WorkerAck, WorkerLoop, RxInterrupt
  <2> QED BY <1>9, <2>1, <2>2, <2>3, <2>4 DEF Worker
<1>10. CASE DmaStart
  BY <1>10 DEF DmaStart
<1>11. CASE ReadComplete
  <2>1. readQ # << >> /\ Head(readQ) \in Planes
    BY <1>11, TailOfOne DEF ReadComplete, DmaInv, Free, Carries
  <2> QED BY <1>11, <2>1 DEF ReadComplete
<1>12. CASE WriteComplete
  BY <1>12 DEF WriteComplete
<1>13. CASE TimerIsr \/ PlayButton \/ SkipButton
  BY <1>13, <1>2 DEF TimerIsr, PlayButton, SkipButton
<1> QED BY <1>2, <1>3, <1>4, <1>5, <1>6, <1>7, <1>8, <1>9, <1>10, <1>11, <1>12, <1>13
        DEF Next, Main, Dma

\* The inductive invariant behind the types.
TypeInv == MainTypes /\ CountInv /\ DmaInv /\ MailTypes /\ DataTypes

\* It gives TypeOK: no FIFO of the DMA ever holds two descriptors.
LEMMA TypeInvImplies == ASSUME TypeInv PROVE TypeOK
<1> USE DEF TypeInv
<1>1. Commands \cup {None} \subseteq Letters
  <2>1. None \in Letters
    BY TornIsFrame, ConstantTypes DEF None, Letters, Torn
  <2>2. Commands \subseteq Letters
    BY DEF Commands, Letters
  <2> QED BY <2>1, <2>2
<1>2. Len(readQ) <= 1 /\ Len(writeQ) <= 1 /\ dma \in {"idle", "reading", "draining"}
  <2>1. (\E p : readQ = <<p>>) \/ readQ = << >>
    BY DEF DmaInv, Free, Carries
  <2>2. (\E p : writeQ = <<p>>) \/ writeQ = << >>
    BY DEF DmaInv, Free, Carries
  <2>3. dma \in {"idle", "reading", "draining"}
    BY DEF DmaInv, Free, Carries
  <2>4. ASSUME NEW q, q = << >> \/ \E p : q = <<p>> PROVE Len(q) \in {0, 1}
    <3>1. CASE q = << >>
      BY <3>1
    <3>2. CASE \E p : q = <<p>>
      BY <3>2, TailOfOne
    <3> QED BY <2>4, <3>1, <3>2
  <2>5. Len(readQ) \in {0, 1} /\ Len(writeQ) \in {0, 1}
    BY <2>1, <2>2, <2>4
  <2> QED BY <2>3, <2>5
<1>3. frame \in Frames
  BY FrameTyped
<1>4. {command, ack, job} \subseteq [Workers -> Letters]
  BY <1>1 DEF MailTypes
<1> QED BY <1>2, <1>3, <1>4 DEF TypeOK, MainTypes, MailTypes, DataTypes

\* It holds when the processors start.
LEMMA InitTypeInv == Init => TypeInv
<1> SUFFICES ASSUME Init PROVE TypeInv
  OBVIOUS
<1> USE ConstantTypes DEF Init, Display!Init
<1>1. MainTypes
  BY DEF MainTypes, Pausing, Display!Buffers
<1>2. CountInv
  BY OneMore DEF CountInv, Pausing, Pending
<1>3. DmaInv
  BY DEF DmaInv, Free, Starts
<1>4. MailTypes
  BY DEF MailTypes
<1>5. DataTypes
  BY TornIsFrame DEF DataTypes, Packages
<1> QED BY <1>1, <1>2, <1>3, <1>4, <1>5 DEF TypeInv

\* Whatever the videos, the skips and the timing: the pipeline is well-typed, and
\* neither msgDMA dispatcher ever has more than one descriptor to hold, so that the
\* transfers whose result the decoder only prints are never refused.
THEOREM Typing == Spec => []TypeOK
<1>1. TypeInv /\ [Next]_vars => TypeInv'
  BY MainTypesStep, CountStep, DmaStep, MailTypesStep, DataTypesStep DEF TypeInv
<1> QED BY <1>1, InitTypeInv, TypeInvImplies, PTL DEF Spec

-----------------------------------------------------------------------------
(* The ring of frame buffers.                                              *)

\* The buffer k registrations before the target.
Back(k) == IF k <= target THEN target - k ELSE target - k + NumBuffers

\* The registered buffers are the ones just behind the target, in the order of the
\* ring, and the one on the screen is behind them. From the wait for a free buffer at
\* the end of one pass to the registration on the next, one is free: only registering
\* takes one.
RingInv ==
  /\ Len(queue) <= NumBuffers - 1
  /\ \A i \in 1 .. Len(queue) : queue[i] = Back(Len(queue) - i + 1)
  /\ onScreen = Back(Len(queue) + 1)
  /\ main \in Pausing \cup Settling \cup {"convertBottom"} => Display!Available

\* What registering the target does to the queue.
LEMMA RegisterIs ==
  ASSUME MainTypes, Display!Register
  PROVE  /\ Len(queue') = Len(queue) + 1 /\ Len(queue) \in Nat
         /\ \A i \in 1 .. Len(queue) : queue'[i] = queue[i]
         /\ queue'[Len(queue) + 1] = target
         /\ \A k \in 1 .. NumBuffers - 1 : Back(k + 1)' = Back(k)
         /\ Back(1)' = target
<1>1. queue \in Seq(Display!Buffers) /\ target \in Display!Buffers
  BY DEF MainTypes
<1>2. queue' = Append(queue, target) /\ target' = Display!NextBuffer(target)
  BY DEF Display!Register
<1>3. /\ Len(queue') = Len(queue) + 1 /\ Len(queue) \in Nat
      /\ \A i \in 1 .. Len(queue) : queue'[i] = queue[i]
      /\ queue'[Len(queue) + 1] = target
  BY <1>1, <1>2, AppendProperties, LenProperties
<1>4. /\ target' = IF target + 1 = NumBuffers THEN 0 ELSE target + 1
      /\ target \in 0 .. NumBuffers - 1
  BY <1>1, <1>2, NextBufferIs DEF Display!Buffers
<1> QED BY <1>3, <1>4, ConstantTypes DEF Back

\* What showing a buffer does to the queue.
LEMMA ShowIs ==
  ASSUME MainTypes, Display!Show
  PROVE  /\ Len(queue') = Len(queue) - 1 /\ Len(queue) \in Nat /\ Len(queue) >= 1
         /\ \A i \in 1 .. Len(queue) - 1 : queue'[i] = queue[i + 1]
<1>1. queue \in Seq(Display!Buffers) /\ queue # << >> /\ queue' = Tail(queue)
  BY DEF MainTypes, Display!Show
<1> QED BY <1>1, HeadTailProperties, LenProperties, EmptySeq

\* Every step keeps the ring in order, and the free buffer free.
LEMMA RingStep == ASSUME MainTypes, RingInv, [Next]_vars PROVE RingInv'
<1> USE DEF RingInv, mainVars, mailVars, workerVars, packageVars, dataVars, dmaVars,
        displayVars, vars, Pausing, Settling
<1>1. main \in Pausing \cup Settling \cup Decoding
  BY DEF MainTypes
<1>2. CASE UNCHANGED <<main, target, queue, onScreen>>
  BY <1>2 DEF Back, Display!Available
<1>3. CASE UNCHANGED <<target, queue, onScreen>> /\ main \in Pausing \cup Settling \cup {"convertBottom"}
  BY <1>3 DEF Back, Display!Available
<1>4. CASE /\ UNCHANGED <<target, queue, onScreen>>
           /\ main' \notin Pausing \cup Settling \cup {"convertBottom"}
  BY <1>4 DEF Back
<1>5. CASE StartVideo \/ NextFrame \/ SkipToEnd \/ LastFrameDone \/ AwaitPlaybackEnd
           \/ RetrieveCcAck2 \/ ConvertBottom
  BY <1>3, <1>5
     DEF StartVideo, NextFrame, SkipToEnd, LastFrameDone, AwaitPlaybackEnd,
     RetrieveCcAck2, ConvertBottom
<1>6. CASE RetrieveCcAck1
  <2>1. Display!Register /\ main' = "sendLd2"
    BY <1>6 DEF RetrieveCcAck1
  <2>2. Len(queue) < NumBuffers - 1
    BY <2>1 DEF Display!Register, Display!Available
  <2>3. Len(queue') <= NumBuffers - 1
    BY <2>1, <2>2, RegisterIs, ConstantTypes
  <2>4. ASSUME NEW i \in 1 .. Len(queue') PROVE queue'[i] = Back(Len(queue) - i + 1)'
    <3>1. CASE i = Len(queue) + 1
      BY <2>1, <3>1, RegisterIs
    <3>2. CASE i # Len(queue) + 1
      <4>1. i \in 1 .. Len(queue) /\ Len(queue) - i + 1 \in 1 .. NumBuffers - 1
        BY <2>1, <2>2, <2>4, <3>2, RegisterIs, ConstantTypes
      <4>2. PICK k \in 1 .. NumBuffers - 1 : i \in 1 .. Len(queue) /\ k = Len(queue) - i + 1
        BY <4>1
      <4>3. Len(queue') - i + 1 = k + 1
        <5>1. Len(queue') = Len(queue) + 1 /\ Len(queue) \in Nat
          BY <2>1, RegisterIs
        <5> QED BY <4>2, <5>1
      <4>4. queue[i] = Back(k)
        BY <4>2
      <4>5. queue'[i] = queue[i] /\ Back(k + 1)' = Back(k)
        BY <2>1, <4>2, RegisterIs
      <4> QED BY <4>3, <4>4, <4>5
    <3> QED BY <3>1, <3>2
  <2>5. onScreen' = Back(Len(queue) + 1)'
    <3>1. PICK k \in 1 .. NumBuffers - 1 : k = Len(queue) + 1
      BY <2>1, <2>2, RegisterIs, ConstantTypes
    <3>2. Len(queue') + 1 = k + 1
      BY <2>1, <3>1, RegisterIs
    <3>3. onScreen' = Back(k)
      BY <2>1, <3>1 DEF Display!Register
    <3> QED BY <2>1, <3>2, <3>3, RegisterIs
  <2> QED BY <2>1, <2>3, <2>4, <2>5
<1>7. CASE SendLd2 \/ SendLd1 \/ DecodeCr
           \/ AwaitDma("waitCr", "startCr") \/ StartDma("startCr", "Cr", "convertLow")
           \/ ConvertLow \/ RetrieveLdAck("ldAck2", 2, "waitCb")
           \/ AwaitDma("waitCb", "startCb") \/ StartDma("startCb", "Cb", "ldAck1")
           \/ RetrieveLdAck("ldAck1", 1, "waitY")
           \/ AwaitDma("waitY", "startY") \/ StartDma("startY", "Y", "waitLast")
           \/ AwaitLastDma
  BY <1>4, <1>7 DEF SendLd2, SendLd1, DecodeCr, AwaitDma, StartDma, ConvertLow,
     RetrieveLdAck, AwaitLastDma
<1>8. CASE AwaitBuffer
  BY <1>8 DEF AwaitBuffer, Back, Display!Available
<1>9. CASE Dma \/ SkipButton \/ PlayButton \/ (\E w \in Workers : Worker(w) \/ RxInterrupt(w))
  BY <1>9, <1>2
     DEF Dma, DmaStart, ReadComplete, WriteComplete, SkipButton, PlayButton,
     Display!TogglePlay, Worker, WorkerReceive, WorkerDecode, WorkerConvert, WorkerAck,
     WorkerLoop, RxInterrupt
<1>10. CASE TimerIsr
  <2>1. CASE Display!Show
    <3>1. target' = target /\ main' = main
      BY <1>10, <2>1 DEF TimerIsr, Display!Show
    <3>2. /\ Len(queue') = Len(queue) - 1 /\ Len(queue) \in Nat /\ Len(queue) >= 1
          /\ \A i \in 1 .. Len(queue) - 1 : queue'[i] = queue[i + 1]
      BY <2>1, ShowIs
    <3>3. Display!Available => Display!Available'
      BY <3>2, ConstantTypes DEF Display!Available
    <3>4. ASSUME NEW i \in 1 .. Len(queue') PROVE queue'[i] = Back(Len(queue) - i + 1)'
      <4>1. i + 1 \in 1 .. Len(queue) /\ Len(queue) - (i + 1) + 1 = Len(queue') - i + 1
        BY <3>2, <3>4
      <4> QED BY <3>1, <3>2, <3>4, <4>1 DEF Back
    <3>5. onScreen' = Back(Len(queue) + 1)'
      <4>1. onScreen' = queue[1]
        BY <2>1 DEF Display!Show
      <4>2. queue[1] = Back(Len(queue)) /\ Len(queue') + 1 = Len(queue)
        BY <3>2
      <4> QED BY <3>1, <4>1, <4>2 DEF Back
    <3> QED BY <3>1, <3>2, <3>3, <3>4, <3>5, ConstantTypes
  <2>2. CASE Display!Prime \/ Display!Underrun
    BY <1>2, <1>10, <2>2 DEF TimerIsr, Display!Prime, Display!Underrun
  <2> QED BY <1>10, <2>1, <2>2 DEF TimerIsr
<1> QED BY <1>2, <1>5, <1>6, <1>7, <1>8, <1>9, <1>10 DEF Next, Main

\* The ring starts out empty.
LEMMA InitRing == Init => RingInv
<1> SUFFICES ASSUME Init PROVE RingInv
  OBVIOUS
<1>1. target = 1 /\ onScreen = 0 /\ Len(queue) = 0
  BY DEF Init, Display!Init
<1> QED BY <1>1, ConstantTypes DEF RingInv, Display!Available, Back

\* The decoder tests for a free buffer on one pass and registers on the next;
\* whatever the display, the user and the workers do between the two, the ring is
\* not full when it registers.
THEOREM NoOverflow == Spec => []RegisterNeverOverflows
<1>1. MainTypes /\ RingInv /\ [Next]_vars => (MainTypes /\ RingInv)'
  BY MainTypesStep, RingStep
<1>2. RingInv => RegisterNeverOverflows
  BY DEF RingInv, RegisterNeverOverflows, Settling
<1>3. Init => MainTypes
  BY InitTypeInv DEF TypeInv
<1> QED BY <1>1, <1>2, <1>3, InitRing, PTL DEF Spec

-----------------------------------------------------------------------------
(***************************************************************************)
(* One video.                                                              *)
(*                                                                         *)
(* What the decoder, the workers, the mailboxes and the DMA tell each      *)
(* other while one video is decoded, of any length: which message is on    *)
(* its way, which frame each buffer holds, and what the display may show.  *)
(*                                                                         *)
(* OneVideo is needed: a second video, or a skip out of the first two      *)
(* frames, breaks the pairing of commands and acknowledgements (README,    *)
(* section 3: the runs PipelineSecondVideo and PipelineSkipFirst).         *)
(***************************************************************************)

-----------------------------------------------------------------------------
(* The passes of the loop, and where the video is.                         *)

\* One video is decoded, and no skip is asked for before its third frame, or leads
\* back to one before it.
OneVideo == MaxVideos <= 1 /\ FirstSkip >= 2

\* The frame converted last, or being converted.
LastFrame == IF main \in Settling THEN frame - 2 ELSE frame - 1

\* Buffers have been registered in this video.
Registered == frame >= 3 /\ (main \in Settling => frame >= 4)

\* frame_index counts the passes of the video exactly until the third; after it,
\* skips notwithstanding, it stays where acknowledgements are awaited. Every buffer
\* in the queue has a frame of this video in it.
FramesInv ==
  /\ video <= 1
  /\ video = 0 => frame = 0 /\ skip = {} /\ frameIndex = 0
  /\ skip # {} => frameIndex >= 2
  /\ "rv" \in skip => frameIndex >= 2 + RvStep
  /\ main \in Pausing =>
       IF frame < 3 THEN frameIndex = frame ELSE frameIndex >= 3
  /\ main \in Settling => frame >= 3 /\ frameIndex >= 2
  /\ main \in Decoding =>
       IF frame < 3 THEN frameIndex + 1 = frame ELSE frameIndex >= 2
  /\ Len(queue) <= IF Registered THEN LastFrame - 1 ELSE 0

\* Every step keeps the passes in step with frame_index.
LEMMA FramesStep ==
  ASSUME OneVideo, MainTypes, CountInv, FramesInv, [Next]_vars PROVE FramesInv'
<1> USE ConstantTypes
    DEF FramesInv, LastFrame, Registered, mainVars, mailVars, workerVars,
        packageVars,
        dataVars, dmaVars, displayVars, vars, Pausing, Settling, Decoding
<1>1. /\ frameIndex \in Nat /\ frame \in Nat /\ video \in Nat /\ MaxVideos <= 1
      /\ main \in Pausing \cup Settling \cup Decoding /\ Len(queue) \in Nat
  BY LenProperties DEF MainTypes, OneVideo
<1>2. CASE UNCHANGED <<mainVars, queue>>
  BY <1>2
<1>3. CASE StartVideo
  BY <1>1, <1>3 DEF StartVideo
<1>4. CASE NextFrame
  <2>1. PICK i \in Nat : /\ frameIndex' = i /\ i >= frameIndex - Pending
                         /\ skip = {} => i = frameIndex
    BY <1>1, <1>4, SkipTarget DEF NextFrame
  <2>2. /\ main = "frame" /\ skip' = {} /\ frame' = frame + 1
        /\ main' = (IF i >= 2 THEN "ccAck2" ELSE "sendLd2")
        /\ UNCHANGED <<video, queue>>
    BY <1>4, <2>1 DEF NextFrame
  <2>3. skip # {} => i >= 2
    BY <1>1, <2>1 DEF Pending
  <2>4. video # 0
    BY <1>1, <2>2 DEF CountInv
  <2> QED BY <1>1, <2>1, <2>2, <2>3, <2>4
<1>5. CASE SkipToEnd \/ LastFrameDone \/ AwaitPlaybackEnd
  BY <1>1, <1>5 DEF SkipToEnd, LastFrameDone, AwaitPlaybackEnd
<1>6. CASE RetrieveCcAck2
  BY <1>1, <1>6 DEF RetrieveCcAck2
<1>7. CASE RetrieveCcAck1
  <2>1. Len(queue') = Len(queue) + 1
    BY <1>7, RegisterIs DEF RetrieveCcAck1
  <2> QED BY <1>1, <1>7, <2>1 DEF RetrieveCcAck1
<1>8. CASE SendLd2 \/ SendLd1 \/ DecodeCr
           \/ AwaitDma("waitCr", "startCr") \/ StartDma("startCr", "Cr", "convertLow")
           \/ ConvertLow \/ RetrieveLdAck("ldAck2", 2, "waitCb")
           \/ AwaitDma("waitCb", "startCb") \/ StartDma("startCb", "Cb", "ldAck1")
           \/ RetrieveLdAck("ldAck1", 1, "waitY")
           \/ AwaitDma("waitY", "startY") \/ StartDma("startY", "Y", "waitLast")
           \/ AwaitLastDma \/ AwaitBuffer
  <2>1. /\ main \in Decoding /\ main' \in Decoding
        /\ UNCHANGED <<frame, frameIndex, video, skip, queue>>
    BY <1>8 DEF SendLd2, SendLd1, DecodeCr, AwaitDma,
     StartDma, ConvertLow, RetrieveLdAck, AwaitLastDma, AwaitBuffer
  <2> QED BY <1>1, <2>1
<1>9. CASE ConvertBottom
  BY <1>1, <1>9 DEF ConvertBottom
<1>10. CASE Dma \/ PlayButton \/ (\E w \in Workers : Worker(w) \/ RxInterrupt(w))
  BY <1>10, <1>2
     DEF Dma, DmaStart, ReadComplete, WriteComplete, PlayButton, Display!TogglePlay,
     Worker, WorkerReceive, WorkerDecode, WorkerConvert, WorkerAck, WorkerLoop, RxInterrupt
<1>11. CASE TimerIsr
  <2>1. CASE Display!Show
    <3>1. Len(queue') = Len(queue) - 1
      BY <2>1, ShowIs
    <3> QED BY <1>1, <1>11, <3>1 DEF TimerIsr
  <2>2. CASE Display!Prime \/ Display!Underrun
    BY <1>2, <1>11, <2>2 DEF TimerIsr, Display!Prime, Display!Underrun
  <2> QED BY <1>11, <2>1, <2>2 DEF TimerIsr
<1>12. CASE SkipButton
  <2>1. /\ UNCHANGED <<main, frameIndex, video, frame, queue>> /\ video > 0
        /\ \E b \in Buttons :
             /\ frameIndex >= (IF b = "fw" THEN FirstSkip ELSE FirstSkip + RvStep)
             /\ skip' = skip \cup {b}
    BY <1>12 DEF SkipButton
  <2> QED BY <1>1, <2>1 DEF OneVideo
<1> QED BY <1>2, <1>3, <1>4, <1>5, <1>6, <1>7, <1>8, <1>9, <1>10, <1>11, <1>12
           DEF Next, Main

-----------------------------------------------------------------------------
(* The mailboxes.                                                          *)

\* The acknowledgement of this pass's lossless decode is still awaited from worker
\* w.
LdAwaited(w) ==
  main \in {"decodeCr", "waitCr", "startCr", "convertLow", "ldAck2"} \cup
           IF w = 1 THEN {"waitCb", "startCb", "ldAck1"} ELSE {"sendLd1"}

\* Worker w has acknowledged everything it was sent.
NothingAwaited(w) ==
  main = "sendLd2" \/ (w = 1 /\ main = "sendLd1") \/ (w = 2 /\ main = "ccAck1")

\* The command to convert the last frame.
Conversion == [command |-> "cc", frame |-> LastFrame, video |-> video]

\* The command the main CPU awaits worker w's acknowledgement of.
Due(w) ==
  IF NothingAwaited(w) THEN None
  ELSE IF LdAwaited(w) THEN Message("ld")
  ELSE IF frame >= 2 THEN Conversion ELSE None

\* One message goes around between the main CPU and worker w, the one that is due:
\* in the command mailbox, in the worker's hands or in the acknowledgement mailbox,
\* in one of them only.
Mail(w) ==
  /\ command[w] # None =>
       command[w] = Due(w) /\ worker[w] \in {"poll", "loop"} /\ ack[w] = None
  /\ ack[w] # None => ack[w] = Due(w) /\ worker[w] \in {"poll", "loop"}
  /\ worker[w] \in {"ld", "cc", "ack"} =>
       job[w] = Due(w) /\ job[w] # None /\ ack[w] = None
  /\ worker[w] \in {"ld", "cc"} => job[w].command = worker[w]

\* Both workers' messages.
MailInv == \A w \in Workers : Mail(w)

\* A step that changes neither a mailbox nor what is due.
LEMMA MailSame ==
  ASSUME MailInv, UNCHANGED <<mailVars, workerVars>>, \A w \in Workers : Due(w)' = Due(w)
  PROVE  MailInv'
BY DEF MailInv, Mail, mailVars, workerVars

\* Every step keeps one message going around with each worker.
LEMMA MailStep ==
  ASSUME OneVideo, MainTypes, CountInv, MailTypes, FramesInv, FramesInv', MailInv, [Next]_vars
  PROVE  MailInv'
<1> USE
    DEF mainVars, mailVars, workerVars, packageVars, dataVars, dmaVars, displayVars,
    vars
<1>1. /\ frameIndex \in Nat /\ frame \in Nat /\ video \in Nat
      /\ main \in Pausing \cup Settling \cup Decoding
  BY DEF MainTypes
<1>2. \A w \in Workers : w = 1 \/ w = 2
  BY DEF Workers
<1>3. CASE UNCHANGED <<main, video, frame, mailVars, workerVars>>
  <2>1. \A w \in Workers : Due(w)' = Due(w)
    BY <1>3 DEF Due, NothingAwaited, LdAwaited, Message, Conversion, LastFrame
  <2> QED BY <1>3, <2>1, MailSame
<1>4. CASE StartVideo \/ SkipToEnd \/ LastFrameDone \/ AwaitPlaybackEnd
  <2>1. \A w \in Workers : Due(w)' = Due(w)
    BY <1>1, <1>4 DEF StartVideo, SkipToEnd, LastFrameDone, AwaitPlaybackEnd,
       Due, NothingAwaited, LdAwaited, Message, Conversion, LastFrame, Settling, FramesInv, OneVideo
  <2> QED BY <1>4, <2>1, MailSame
             DEF StartVideo, SkipToEnd, LastFrameDone, AwaitPlaybackEnd
<1>5. CASE NextFrame
  <2>1. \A w \in Workers : Due(w)' = Due(w)
    BY <1>1, <1>5
       DEF NextFrame, Due, NothingAwaited, LdAwaited, Message, Conversion, LastFrame,
       Settling, Decoding, FramesInv
  <2> QED BY <1>5, <2>1, MailSame DEF NextFrame
<1>6. CASE DecodeCr \/ AwaitDma("waitCr", "startCr")
           \/ StartDma("startCr", "Cr", "convertLow") \/ ConvertLow
           \/ AwaitDma("waitCb", "startCb") \/ StartDma("startCb", "Cb", "ldAck1")
           \/ AwaitDma("waitY", "startY") \/ StartDma("startY", "Y", "waitLast")
           \/ AwaitLastDma \/ AwaitBuffer \/ ConvertBottom
  <2>1. \A w \in Workers : Due(w)' = Due(w)
    BY <1>2, <1>6
       DEF DecodeCr, AwaitDma, StartDma, ConvertLow, AwaitLastDma, AwaitBuffer,
     ConvertBottom, Due, NothingAwaited, LdAwaited, Message, Conversion, LastFrame, Settling
  <2> QED BY <1>6, <2>1, MailSame
             DEF DecodeCr, AwaitDma, StartDma, ConvertLow, AwaitLastDma,
     AwaitBuffer, ConvertBottom
<1> USE DEF MailInv, Mail, MailTypes
<1>7. CASE RetrieveCcAck2
  <2>1. Due(1)' = Due(1)
    BY <1>7
       DEF RetrieveCcAck2, Due, NothingAwaited, LdAwaited, Message, Conversion,
       LastFrame, Settling
  <2> QED BY <1>2, <1>7, <2>1 DEF RetrieveCcAck2, Emptied, Workers
<1>8. CASE RetrieveCcAck1
  <2>1. Due(2)' = Due(2)
    BY <1>8 DEF RetrieveCcAck1, Due, NothingAwaited
  <2> QED BY <1>2, <1>8, <2>1 DEF RetrieveCcAck1, Emptied, Workers
<1>9. CASE SendLd2
  <2>1. Due(1)' = Due(1) /\ Due(2) = None /\ Due(2)' = Message("ld")
    BY <1>9 DEF SendLd2, Due, NothingAwaited, LdAwaited, Message
  <2> QED BY <1>2, <1>9, <2>1 DEF SendLd2, Send, Workers
<1>10. CASE SendLd1
  <2>1. Due(2)' = Due(2) /\ Due(1) = None /\ Due(1)' = Message("ld")
    BY <1>10 DEF SendLd1, Due, NothingAwaited, LdAwaited, Message
  <2> QED BY <1>2, <1>10, <2>1 DEF SendLd1, Send, Workers
<1>11. CASE RetrieveLdAck("ldAck2", 2, "waitCb")
  <2>1. /\ Due(1)' = Due(1)
        /\ Due(2)' = IF frameIndex = 0 THEN None ELSE Message("cc")
    BY <1>1, <1>11
       DEF RetrieveLdAck, Due, NothingAwaited, LdAwaited, Message, Conversion,
       LastFrame,
       Settling, Decoding, FramesInv
  <2> QED BY <1>2, <1>11, <2>1 DEF RetrieveLdAck, Send, Emptied, Workers
<1>12. CASE RetrieveLdAck("ldAck1", 1, "waitY")
  <2>1. /\ Due(2)' = Due(2)
        /\ Due(1)' = IF frameIndex = 0 THEN None ELSE Message("cc")
    BY <1>1, <1>12
       DEF RetrieveLdAck, Due, NothingAwaited, LdAwaited, Message, Conversion,
       LastFrame,
       Settling, Decoding, FramesInv
  <2> QED BY <1>2, <1>12, <2>1 DEF RetrieveLdAck, Send, Emptied, Workers
<1>13. ASSUME NEW w \in Workers, Worker(w) \/ RxInterrupt(w) PROVE MailInv'
  <2>1. \A x \in Workers : Due(x)' = Due(x)
    BY <1>13
       DEF Worker, WorkerReceive, WorkerDecode, WorkerConvert, WorkerAck, WorkerLoop,
       RxInterrupt, Due, NothingAwaited, LdAwaited, Message, Conversion, LastFrame
  <2>2. \A x \in Workers \ {w} : UNCHANGED <<command[x], ack[x], worker[x], job[x]>>
    BY <1>13
       DEF Worker, WorkerReceive, WorkerDecode, WorkerConvert, WorkerAck, WorkerLoop,
       RxInterrupt, Send, Emptied
  <2>3. Mail(w)'
    <3>1. CASE WorkerReceive(w)
      <4>1. command[w].command \in {"ld", "cc"}
        BY <3>1 DEF WorkerReceive, Commands
      <4> QED BY <2>1, <3>1, <4>1 DEF WorkerReceive, Emptied
    <3>2. CASE WorkerDecode(w) \/ WorkerConvert(w)
      BY <2>1, <3>2 DEF WorkerDecode, WorkerConvert
    <3>3. CASE WorkerAck(w)
      BY <2>1, <3>3 DEF WorkerAck, Send
    <3>4. CASE WorkerLoop(w) \/ RxInterrupt(w)
      BY <2>1, <3>4 DEF WorkerLoop, RxInterrupt, Emptied
    <3> QED BY <1>13, <3>1, <3>2, <3>3, <3>4 DEF Worker
  <2> QED BY <2>1, <2>2, <2>3
<1>14. CASE Dma \/ TimerIsr \/ PlayButton \/ SkipButton
  BY <1>14, <1>3
     DEF Dma, DmaStart, ReadComplete, WriteComplete, TimerIsr, PlayButton, SkipButton
<1> QED BY <1>3, <1>4, <1>5, <1>6, <1>7, <1>8, <1>9, <1>10, <1>11, <1>12, <1>13,
           <1>14
        DEF Next, Main

-----------------------------------------------------------------------------
(* The package of the color conversion.                                    *)

\* The set of color blocks of the conversion.
Source == IF main \in Decoding THEN 1 - oddFrame ELSE oddFrame

\* The frame buffer of the conversion: the target, until it is registered.
Drawn == IF Registered THEN Back(1) ELSE target

\* The package, the bitstream buffer and last_buffer belong to the pass that is
\* under way.
PackageInv ==
  /\ payload = frame
  /\ frame >= 2 /\ main \notin {"sendLd2", "sendLd1"} =>
       ccPackage[video] = [frame |-> LastFrame, set |-> Source, buffer |-> Drawn]
  /\ frame >= 2 /\ main \in Decoding => lastBuffer = Drawn
  /\ frame >= 1 /\ main \notin Decoding => lastBuffer = target

\* Every step keeps the package that of the pass.
LEMMA PackageStep ==
  ASSUME OneVideo, MainTypes, CountInv, DataTypes, FramesInv, FramesInv', PackageInv, [Next]_vars
  PROVE  PackageInv'
<1> USE
    DEF mainVars, mailVars, workerVars, packageVars, dataVars, dmaVars, displayVars,
    vars,
        PackageInv
<1>1. /\ frameIndex \in Nat /\ frame \in Nat /\ video \in Nat /\ oddFrame \in {0, 1}
      /\ main \in Pausing \cup Settling \cup Decoding
      /\ (main # "idle" => video \in 1 .. MaxVideos)
  BY DEF MainTypes, CountInv
<1>2. CASE UNCHANGED <<mainVars, packageVars, target>>
  BY <1>2 DEF LastFrame, Source, Drawn, Registered, Back
<1>3. CASE StartVideo \/ SkipToEnd \/ LastFrameDone \/ AwaitPlaybackEnd
  <2>1. CASE StartVideo
    BY <1>1, <2>1 DEF StartVideo, FramesInv, OneVideo, MainTypes
  <2>2. CASE SkipToEnd \/ LastFrameDone \/ AwaitPlaybackEnd
    <3>1. /\ main \in Pausing /\ main' \in Pausing
          /\ UNCHANGED <<frame, video, payload, ccPackage, oddFrame, lastBuffer, target>>
      BY <2>2 DEF SkipToEnd, LastFrameDone, AwaitPlaybackEnd, Pausing
    <3> QED BY <1>1, <3>1
               DEF LastFrame, Source, Drawn, Registered, Back, Pausing, Settling,
        Decoding
  <2> QED BY <1>3, <2>1, <2>2
<1>4. CASE NextFrame
  BY <1>1, <1>4 DEF NextFrame, FramesInv,
     LastFrame, Source, Drawn, Registered, Back, Settling, Decoding
<1>5. CASE RetrieveCcAck2
  BY <1>1, <1>5 DEF RetrieveCcAck2,
     LastFrame, Source, Drawn, Registered, Back, Settling, Decoding
<1>6. CASE RetrieveCcAck1
  <2>1. Back(1)' = target
    BY <1>6, RegisterIs DEF RetrieveCcAck1
  <2>2. frame >= 3
    BY <1>6 DEF RetrieveCcAck1, FramesInv, Settling
  <2>3. Drawn' = target
    BY <1>6, <2>1, <2>2 DEF RetrieveCcAck1, Drawn, Registered, Settling
  <2> QED BY <1>1, <1>6, <2>3
             DEF RetrieveCcAck1, Settling, Decoding, Display!Register
<1>7. CASE SendLd2 \/ DecodeCr
           \/ AwaitDma("waitCr", "startCr") \/ StartDma("startCr", "Cr", "convertLow")
           \/ ConvertLow \/ RetrieveLdAck("ldAck2", 2, "waitCb")
           \/ AwaitDma("waitCb", "startCb") \/ StartDma("startCb", "Cb", "ldAck1")
           \/ RetrieveLdAck("ldAck1", 1, "waitY")
           \/ AwaitDma("waitY", "startY") \/ StartDma("startY", "Y", "waitLast")
           \/ AwaitLastDma \/ AwaitBuffer
  <2>1. /\ main \in Decoding /\ main' \in Decoding
        /\ UNCHANGED <<frame, video, payload, ccPackage, oddFrame, lastBuffer, target>>
        /\ main \in {"sendLd2", "sendLd1"} => main' \in {"sendLd2", "sendLd1"}
    BY <1>7 DEF SendLd2, DecodeCr, AwaitDma,
     StartDma, ConvertLow, RetrieveLdAck, AwaitLastDma, AwaitBuffer, Decoding
  <2> QED BY <1>1, <2>1
             DEF LastFrame, Source, Drawn, Registered, Back, Settling, Decoding
<1>8. CASE SendLd1
  BY <1>1, <1>8 DEF SendLd1, DataTypes,
     LastFrame, Source, Drawn, Registered, Back, Settling, Decoding
<1>9. CASE ConvertBottom
  BY <1>1, <1>9 DEF ConvertBottom,
     LastFrame, Source, Drawn, Registered, Back, Settling, Decoding
<1>10. CASE Dma \/ PlayButton \/ (\E w \in Workers : Worker(w) \/ RxInterrupt(w))
  BY <1>10, <1>2
     DEF Dma, DmaStart, ReadComplete, WriteComplete, PlayButton, Display!TogglePlay,
     Worker, WorkerReceive, WorkerDecode, WorkerConvert, WorkerAck, WorkerLoop, RxInterrupt
<1>11. CASE TimerIsr
  BY <1>2, <1>11 DEF TimerIsr, Display!Show, Display!Prime, Display!Underrun
<1>12. CASE SkipButton
  BY <1>12 DEF SkipButton, LastFrame, Source, Drawn, Registered, Back
<1> QED BY <1>2, <1>3, <1>4, <1>5, <1>6, <1>7, <1>8, <1>9, <1>10, <1>11, <1>12
           DEF Next, Main

-----------------------------------------------------------------------------
(* The color blocks and the coefficients.                                  *)

\* All planes of set s hold frame f.
Holds(s, f) == \A p \in Planes : blocks[s][p] = f

\* What the two sets of color blocks hold: outside a pass, the two last frames;
\* during it, the last one in the set that is not being written.
BlocksInv ==
  /\ main = "frame" => Holds(1 - oddFrame, frame)
  /\ main = "frame" /\ frame >= 1 => Holds(oddFrame, frame - 1)
  /\ main \in Settling => Holds(1 - oddFrame, frame - 1) /\ Holds(oddFrame, frame - 2)
  /\ main \in Decoding => Holds(1 - oddFrame, frame - 1)

\* Where the main CPU has seen the coefficients of plane p decoded, until a worker
\* may decode the next into them.
Decoded(p) ==
  CASE p = "Cr" -> {"waitCr", "startCr", "convertLow", "ldAck2", "waitCb"}
    [] p = "Cb" -> {"waitCb", "startCb", "ldAck1", "waitY"}
    [] p = "Y"  -> {"waitY", "startY", "waitLast"}

\* Where the main CPU has seen the blocks of plane p stored, or has started the
\* transfer that stores them.
Stored(p) ==
  Flight(p) \cup
  CASE p = "Cr" -> {"startCb", "ldAck1", "waitY", "startY", "waitLast", "acquire",
                    "convertBottom"}
    [] p = "Cb" -> {"startY", "waitLast", "acquire", "convertBottom"}
    [] p = "Y"  -> {"acquire", "convertBottom"}

\* What the main CPU has seen decoded or stored is this pass's frame, and so is what
\* the DMA carries and what a worker acknowledges.
PlanesInv ==
  /\ \A p \in Planes : main \in Decoded(p) => dcac[p] = frame
  /\ \A p \in Planes : main \in Stored(p) =>
       blocks[oddFrame][p] = frame \/ (main \in Flight(p) /\ ~dmaComplete)
  /\ dma = "draining" => stream = frame
  /\ \A w \in Workers : LdAwaited(w) /\ (worker[w] = "ack" \/ ack[w] # None) =>
       dcac[Plane(w)] = frame

\* Every step keeps the frames of the color blocks.
LEMMA BlocksStep ==
  ASSUME OneVideo, TypeInv, FramesInv, FramesInv', BlocksInv, PlanesInv, [Next]_vars
  PROVE  BlocksInv'
<1> USE
    DEF mainVars, mailVars, workerVars, packageVars, dataVars, dmaVars, displayVars,
    vars,
        BlocksInv, Holds
<1>1. /\ frameIndex \in Nat /\ frame \in Nat /\ oddFrame \in {0, 1}
      /\ main \in Pausing \cup Settling \cup Decoding
      /\ blocks \in [{0, 1} -> [Planes -> Frames]]
  BY DEF TypeInv, MainTypes, DataTypes
<1>2. CASE UNCHANGED <<main, frame, oddFrame, blocks>>
  BY <1>2
<1>3. CASE StartVideo
  BY <1>1, <1>3
     DEF StartVideo, FramesInv, TypeInv, MainTypes, OneVideo, Settling, Decoding,
     Torn
<1>4. CASE SkipToEnd \/ LastFrameDone \/ AwaitPlaybackEnd
  BY <1>4 DEF SkipToEnd, LastFrameDone, AwaitPlaybackEnd, Settling, Decoding
<1>5. CASE NextFrame
  BY <1>1, <1>5 DEF NextFrame, FramesInv, Settling, Decoding
<1>6. CASE RetrieveCcAck2 \/ RetrieveCcAck1 \/ SendLd2 \/ SendLd1 \/ DecodeCr
           \/ AwaitDma("waitCr", "startCr") \/ StartDma("startCr", "Cr", "convertLow")
           \/ ConvertLow \/ RetrieveLdAck("ldAck2", 2, "waitCb")
           \/ AwaitDma("waitCb", "startCb") \/ StartDma("startCb", "Cb", "ldAck1")
           \/ RetrieveLdAck("ldAck1", 1, "waitY")
           \/ AwaitDma("waitY", "startY") \/ StartDma("startY", "Y", "waitLast")
           \/ AwaitLastDma \/ AwaitBuffer
  <2>1. /\ UNCHANGED <<frame, oddFrame, blocks>>
        /\ main \in Settling \cup Decoding /\ main' \in Settling \cup Decoding
        /\ main' \in Settling => main \in Settling
    BY <1>6 DEF RetrieveCcAck2, RetrieveCcAck1, SendLd2, SendLd1, DecodeCr, AwaitDma,
     StartDma, ConvertLow, RetrieveLdAck, AwaitLastDma, AwaitBuffer, Settling, Decoding
  <2> QED BY <2>1 DEF Settling, Decoding
<1>7. CASE ConvertBottom
  <2>1. \A p \in Planes : blocks[oddFrame][p] = frame
    BY <1>7 DEF ConvertBottom, PlanesInv, Stored, Flight, Planes
  <2> QED BY <1>1, <1>7, <2>1 DEF ConvertBottom, Settling, Decoding
<1>8. CASE DmaStart \/ WriteComplete
  <2>1. PICK p \in Planes : main \in Flight(p) /\ Carries(p)
    BY <1>8 DEF TypeInv, DmaInv, Free, DmaStart, WriteComplete
  <2>2. main \in Decoding /\ Head(writeQ).set = oddFrame
    BY <2>1, TailOfOne DEF Flight, Decoding, Planes, Carries
  <2>3. blocks'[1 - oddFrame] = blocks[1 - oddFrame] /\ UNCHANGED <<main, frame, oddFrame>>
    BY <1>1, <1>8, <2>2 DEF DmaStart, WriteComplete
  <2> QED BY <2>2, <2>3 DEF Settling, Decoding
<1>9. CASE ReadComplete \/ TimerIsr \/ PlayButton \/ SkipButton
           \/ (\E w \in Workers : Worker(w) \/ RxInterrupt(w))
  BY <1>9, <1>2
     DEF ReadComplete, TimerIsr, PlayButton, SkipButton, Worker, WorkerReceive,
     WorkerDecode, WorkerConvert, WorkerAck, WorkerLoop, RxInterrupt
<1> QED BY <1>2, <1>3, <1>4, <1>5, <1>6, <1>7, <1>8, <1>9 DEF Next, Main, Dma

\* Every step keeps the planes those of the pass.
LEMMA PlanesStep ==
  ASSUME OneVideo, TypeInv, FramesInv, MailInv, MailInv', PackageInv, PlanesInv, [Next]_vars
  PROVE  PlanesInv'
<1> USE
    DEF mainVars, mailVars, workerVars, packageVars, dataVars, dmaVars, displayVars,
    vars,
        PlanesInv
<1>1. /\ frameIndex \in Nat /\ frame \in Nat /\ oddFrame \in {0, 1}
      /\ main \in Pausing \cup Settling \cup Decoding
      /\ blocks \in [{0, 1} -> [Planes -> Frames]] /\ dcac \in [Planes -> Frames]
      /\ ack \in [Workers -> Commands \cup {None}]
      /\ worker \in [Workers -> {"poll", "ld", "cc", "ack", "loop"}]
  BY DEF TypeInv, MainTypes, MailTypes, DataTypes
<1>2. \A p \in Planes : p = "Cr" \/ p = "Cb" \/ p = "Y"
  BY DEF Planes
<1>3. Workers = {1, 2}
  BY DEF Workers
<1>4. CASE UNCHANGED <<main, frame, oddFrame, dmaComplete, mailVars, workerVars, dataVars,
                       dmaVars>>
  BY <1>4 DEF LdAwaited
<1>5. (\A p \in Planes : main \notin Flight(p)) => dma # "draining"
  BY DEF TypeInv, DmaInv, Free
<1>6. CASE main' \in Pausing \cup Settling \cup {"sendLd2"} /\ dma' # "draining"
  BY <1>6, <1>2 DEF Pausing, Settling, Decoded, Stored, Flight, LdAwaited
<1>7. CASE StartVideo \/ NextFrame \/ SkipToEnd \/ LastFrameDone \/ AwaitPlaybackEnd
           \/ RetrieveCcAck2 \/ RetrieveCcAck1 \/ ConvertBottom
  <2>1. \A p \in Planes : main \notin Flight(p)
    BY <1>7, <1>2
       DEF StartVideo, NextFrame, SkipToEnd, LastFrameDone, AwaitPlaybackEnd,
       RetrieveCcAck2, RetrieveCcAck1, ConvertBottom, Flight
  <2>2. main' \in Pausing \cup Settling \cup {"sendLd2"} /\ dma' = dma
    BY <1>7 DEF StartVideo, NextFrame, SkipToEnd, LastFrameDone, AwaitPlaybackEnd,
       RetrieveCcAck2, RetrieveCcAck1, ConvertBottom, Pausing, Settling
  <2> QED BY <1>6, <1>5, <2>1, <2>2
<1>8. CASE SendLd2
  <2>1. main = "sendLd2" /\ main' = "sendLd1" /\ UNCHANGED <<frame, ack, worker, dma, stream>>
    BY <1>8 DEF SendLd2
  <2>2. worker[2] # "ack" /\ ack[2] = None
    BY <2>1, <1>3 DEF MailInv, Mail, Due, NothingAwaited
  <2> QED BY <1>3, <1>2, <2>1, <2>2 DEF Decoded, Stored, Flight, LdAwaited
<1>9. CASE SendLd1
  <2>1. /\ main = "sendLd1" /\ main' = "decodeCr"
        /\ UNCHANGED <<frame, ack, worker, dma, stream>>
        /\ dcac'["Cb"] = dcac["Cb"]
    BY <1>1, <1>9 DEF SendLd1, Planes
  <2>2. worker[1] # "ack" /\ ack[1] = None
    BY <2>1, <1>3 DEF MailInv, Mail, Due, NothingAwaited
  <2> QED BY <1>3, <1>2, <2>1, <2>2 DEF Decoded, Stored, Flight, LdAwaited, Plane
<1>10. CASE DecodeCr
  BY <1>1, <1>2, <1>3, <1>10
     DEF DecodeCr, Decoded, Stored, Flight, LdAwaited, Plane, Planes
<1>11. CASE AwaitDma("waitCr", "startCr") \/ AwaitDma("waitCb", "startCb")
           \/ AwaitDma("waitY", "startY") \/ AwaitLastDma
  BY <1>2, <1>3, <1>11 DEF AwaitDma, AwaitLastDma, Decoded, Stored, Flight, LdAwaited
<1>12. ASSUME NEW p \in Planes, NEW here \in Starts, NEW next \in Flight(p),
             StartDma(here, p, next),
             p = "Cr" => here = "startCr" /\ next = "convertLow",
             p = "Cb" => here = "startCb" /\ next = "ldAck1",
             p = "Y" => here = "startY" /\ next = "waitLast"
      PROVE PlanesInv'
  <2>1. main = here /\ main' = next /\ UNCHANGED <<frame, oddFrame, dcac, blocks, ack, worker>>
    BY <1>12 DEF StartDma
  <2>2. ~dmaComplete' /\ dma' = dma /\ stream' = stream
    BY <1>12, <1>2, <2>1 DEF StartDma, TypeInv, DmaInv, Flight, Starts
  <2>3. \A q \in Planes \ {p} : main' \in Stored(q) => blocks[oddFrame][q] = frame
    BY <1>12, <1>2, <2>1 DEF Stored, Flight, Starts
  <2>4. \A q \in Planes : main' \in Decoded(q) => main \in Decoded(q)
    BY <1>12, <1>2, <2>1 DEF Decoded
  <2>5. \A w \in Workers : LdAwaited(w)' => LdAwaited(w)
    BY <1>12, <1>2, <1>3, <2>1 DEF LdAwaited
  <2> QED BY <1>12, <2>1, <2>2, <2>3, <2>4, <2>5
<1>13. CASE \/ StartDma("startCr", "Cr", "convertLow") \/ StartDma("startCb", "Cb", "ldAck1")
           \/ StartDma("startY", "Y", "waitLast")
  BY <1>12, <1>13 DEF Planes, Starts, Flight
<1>14. CASE ConvertLow \/ AwaitBuffer
  BY <1>2, <1>3, <1>14
     DEF ConvertLow, AwaitBuffer, Decoded, Stored, Flight, LdAwaited
<1>15. CASE RetrieveLdAck("ldAck2", 2, "waitCb")
  <2>1. dcac["Cb"] = frame
    BY <1>15, <1>3 DEF RetrieveLdAck, LdAwaited, Plane
  <2> QED BY <1>1, <1>2, <1>3, <1>15, <2>1
             DEF RetrieveLdAck, Emptied, Decoded, Stored, Flight, LdAwaited
<1>16. CASE RetrieveLdAck("ldAck1", 1, "waitY")
  <2>1. dcac["Y"] = frame
    BY <1>16, <1>3 DEF RetrieveLdAck, LdAwaited, Plane
  <2> QED BY <1>1, <1>2, <1>3, <1>16, <2>1
             DEF RetrieveLdAck, Emptied, Decoded, Stored, Flight, LdAwaited
<1>17. ASSUME NEW w \in Workers, Worker(w) \/ RxInterrupt(w) PROVE PlanesInv'
  <2>1. UNCHANGED <<main, frame, oddFrame, blocks, dmaComplete, dmaVars>>
    BY <1>17
       DEF Worker, WorkerReceive, WorkerDecode, WorkerConvert, WorkerAck,
       WorkerLoop, RxInterrupt
  <2>2. \A p \in Planes : main' \in Stored(p) =>
          blocks'[oddFrame'][p] = frame' \/ (main' \in Flight(p) /\ ~dmaComplete')
    BY <2>1 DEF Carries
  <2>3. \A x \in Workers : LdAwaited(x)' = LdAwaited(x)
    BY <2>1 DEF LdAwaited
  <2>4. CASE WorkerReceive(w)
    <3>1. ack' = ack /\ (\A x \in Workers : worker'[x] = "ack" => worker[x] = "ack" /\ x # w)
      BY <1>1, <2>4 DEF WorkerReceive, TypeInv, MailTypes, Commands
    <3>2. CASE command[w].command = "ld"
      <4>1. Due(w) = Message("ld") /\ LdAwaited(w) /\ ack[w] = None
        BY <2>4, <3>2 DEF WorkerReceive, MailInv, Mail, Due, None, Conversion
      <4>2. main \notin Decoded(Plane(w))
        BY <1>3, <4>1 DEF LdAwaited, Decoded, Plane
      <4>3. dcac' = [dcac EXCEPT ![Plane(w)] = Torn]
        BY <2>4, <3>2 DEF WorkerReceive
      <4>4. \A x \in Workers \ {w} : dcac'[Plane(x)] = dcac[Plane(x)]
        BY <1>1, <1>3, <4>3 DEF Plane, Planes
      <4>5. \A p \in Planes : main' \in Decoded(p) => dcac'[p] = frame'
        BY <1>1, <2>1, <4>2, <4>3
      <4>6. ASSUME NEW x \in Workers, LdAwaited(x)', worker'[x] = "ack" \/ ack'[x] # None
            PROVE  dcac'[Plane(x)] = frame'
        BY <2>1, <2>3, <3>1, <4>1, <4>4, <4>6
      <4> QED BY <2>1, <2>2, <4>5, <4>6
    <3>3. CASE command[w].command # "ld"
      BY <2>1, <2>2, <2>3, <2>4, <3>1, <3>3 DEF WorkerReceive
    <3> QED BY <3>2, <3>3
  <2>5. CASE WorkerDecode(w)
    <3>1. job[w].frame = frame /\ payload = frame
      BY <2>5
         DEF WorkerDecode, MailInv, Mail, Due, None, Message, Conversion, PackageInv
    <3>2. dcac' = [dcac EXCEPT ![Plane(w)] = frame]
      BY <2>5, <3>1 DEF WorkerDecode
    <3>3. Plane(w) \in Planes
      BY <1>3 DEF Plane, Planes
    <3>4. dcac'[Plane(w)] = frame /\ \A p \in Planes : dcac'[p] = frame \/ dcac'[p] = dcac[p]
      BY <1>1, <3>2, <3>3
    <3>5. \A x \in Workers : x # w => worker'[x] = worker[x] /\ ack'[x] = ack[x]
      BY <2>5 DEF WorkerDecode
    <3>6. \A x \in Workers : Plane(x) \in Planes
      BY <1>3 DEF Plane, Planes
    <3> QED BY <2>1, <2>2, <2>3, <3>4, <3>5, <3>6
  <2>6. CASE WorkerConvert(w)
    <3>1. ~LdAwaited(w)
      BY <2>6 DEF WorkerConvert, MailInv, Mail, Due, Message, None
    <3>2. /\ dcac' = dcac
          /\ \A x \in Workers : x # w => worker'[x] = worker[x] /\ ack'[x] = ack[x]
      BY <2>6 DEF WorkerConvert
    <3> QED BY <2>1, <2>2, <2>3, <3>1, <3>2
  <2>7. CASE WorkerAck(w)
    <3>1. /\ dcac' = dcac /\ worker[w] = "ack"
          /\ \A x \in Workers : x # w => worker'[x] = worker[x] /\ ack'[x] = ack[x]
      BY <2>7 DEF WorkerAck, Send
    <3> QED BY <2>1, <2>2, <2>3, <3>1
  <2>8. CASE WorkerLoop(w) \/ RxInterrupt(w)
    BY <1>1, <2>1, <2>2, <2>3, <2>8 DEF WorkerLoop, RxInterrupt
  <2> QED BY <1>17, <2>4, <2>5, <2>6, <2>7, <2>8 DEF Worker
<1>18. CASE Dma
  <2>1. PICK p \in Planes : main \in Flight(p) /\ Carries(p) /\ ~dmaComplete
    BY <1>18 DEF TypeInv, DmaInv, Free, Dma, DmaStart, ReadComplete, WriteComplete
  <2>2. UNCHANGED <<main, frame, oddFrame, mailVars, workerVars, dcac>>
    BY <1>18 DEF Dma, DmaStart, ReadComplete, WriteComplete
  <2>3. /\ \A q \in Planes : main' \in Decoded(q) => dcac'[q] = frame'
        /\ \A w \in Workers : LdAwaited(w)' /\ (worker'[w] = "ack" \/ ack'[w] # None) =>
             dcac'[Plane(w)] = frame'
    BY <2>2 DEF LdAwaited
  <2>4. \A q \in Planes : q # p => main \notin Flight(q)
    BY <2>1, <1>2 DEF Flight
  <2>5. \A q \in Planes : q # p /\ main \in Stored(q) => blocks[oddFrame][q] = frame
    BY <2>4
  <2>6. CASE DmaStart
    <3>1. Head(writeQ).set = oddFrame /\ Head(writeQ).plane = p
      BY <2>1, TailOfOne DEF Carries
    <3>2. \A q \in Planes : q # p => blocks'[oddFrame][q] = blocks[oddFrame][q]
      BY <1>1, <2>6, <3>1 DEF DmaStart
    <3>3. dmaComplete' = dmaComplete /\ dma' = "reading"
      BY <2>6 DEF DmaStart
    <3> QED BY <2>1, <2>2, <2>3, <2>5, <3>2, <3>3
  <2>7. CASE ReadComplete
    <3>1. stream' = frame
      BY <1>2, <2>1, <2>7, TailOfOne DEF ReadComplete, Carries, Flight, Decoded
    <3> QED BY <2>1, <2>2, <2>3, <2>5, <2>7, <3>1 DEF ReadComplete
  <2>8. CASE WriteComplete
    <3>1. Head(writeQ).set = oddFrame /\ Head(writeQ).plane = p
      BY <2>1, TailOfOne DEF Carries
    <3>2. stream = frame /\ dma' = "idle"
      BY <2>8 DEF WriteComplete
    <3>3. \A q \in Planes : q # p => blocks'[oddFrame][q] = blocks[oddFrame][q]
      BY <1>1, <2>8, <3>1 DEF WriteComplete
    <3>4. blocks'[oddFrame][p] = frame
      BY <1>1, <2>8, <3>1, <3>2 DEF WriteComplete
    <3>5. \A q \in Planes : main \in Stored(q) => blocks'[oddFrame][q] = frame
      BY <2>5, <3>3, <3>4
    <3> QED BY <2>2, <2>3, <3>2, <3>5 DEF WriteComplete
  <2> QED BY <1>18, <2>6, <2>7, <2>8 DEF Dma
<1>19. CASE TimerIsr \/ PlayButton \/ SkipButton
  BY <1>19, <1>4 DEF TimerIsr, PlayButton, SkipButton
<1> QED BY <1>4, <1>7, <1>8, <1>9, <1>10, <1>11, <1>13, <1>14, <1>15, <1>16, <1>17,
           <1>18, <1>19 DEF Next, Main

-----------------------------------------------------------------------------
(* The frames in the buffers.                                              *)

\* Worker w has converted its band of the last frame.
CcDone(w) == ~LdAwaited(w) /\ (worker[w] = "ack" \/ ack[w] # None)

\* Where the main CPU has not converted its first rows of the last frame yet.
LowAhead == {"sendLd2", "sendLd1", "decodeCr", "waitCr", "startCr", "convertLow"}

\* The frames in the buffers: the queue holds consecutive frames up to the last,
\* whole but for the newest; the newest, or the target, has the bands of the last
\* frame that their converters have finished.
PixelsInv ==
  /\ \A i \in 1 .. Len(queue) - 1 : \A d \in Bands :
       pixels[queue[i]][d] = LastFrame - (Len(queue) - i)
  /\ main \notin {"idle", "over"} =>
       /\ \A w \in Workers : CcDone(w) => pixels[Drawn][Band(w)] = LastFrame
       /\ main = "ccAck1" => pixels[Drawn]["top"] = LastFrame
       /\ frame >= 2 /\ main \notin LowAhead => pixels[Drawn]["low"] = LastFrame
       /\ frame >= 2 /\ main \notin Decoding => pixels[Drawn]["bottom"] = LastFrame

\* The inductive invariant.
IInv ==
  /\ TypeInv /\ RingInv /\ FramesInv /\ MailInv /\ PackageInv
  /\ BlocksInv /\ PlanesInv /\ PixelsInv

\* The buffers waiting behind the newest are not drawn into.
LEMMA DrawnApart ==
  ASSUME TypeInv, RingInv, FramesInv
  PROVE  /\ Drawn \in Display!Buffers
         /\ \A i \in 1 .. Len(queue) - 1 : queue[i] \in Display!Buffers /\ queue[i] # Drawn
<1>1. /\ target \in 0 .. NumBuffers - 1 /\ Len(queue) \in Nat /\ Len(queue) <= NumBuffers - 1
      /\ queue \in Seq(Display!Buffers) /\ frame \in Nat
  BY LenProperties DEF TypeInv, MainTypes, RingInv, Display!Buffers
<1>2. Drawn \in 0 .. NumBuffers - 1
  BY <1>1, ConstantTypes DEF Drawn, Back
<1>3. ASSUME NEW i \in 1 .. Len(queue) - 1
      PROVE  queue[i] \in Display!Buffers /\ queue[i] # Drawn
  <2>1. i \in 1 .. Len(queue) /\ queue[i] = Back(Len(queue) - i + 1)
    BY <1>1 DEF RingInv
  <2>2. Registered
    <3>1. Len(queue) > 0
      BY <1>1, <2>1
    <3> QED BY <1>1, <3>1 DEF FramesInv
  <2>3. Len(queue) - i + 1 \in 2 .. NumBuffers - 1
    BY <1>1, ConstantTypes
  <2>4. Back(Len(queue) - i + 1) # Back(1)
    BY <1>1, <2>3, ConstantTypes DEF Back
  <2> QED BY <1>1, <2>1, <2>2, <2>4 DEF Drawn
<1> QED BY <1>2, <1>3 DEF Display!Buffers

\* Drawing into the newest leaves what they show.
LEMMA DrawingKeeps ==
  ASSUME TypeInv, RingInv, FramesInv, NEW d \in Bands, NEW f,
         pixels' = [pixels EXCEPT ![Drawn][d] = f]
  PROVE  /\ \A i \in 1 .. Len(queue) - 1 : pixels'[queue[i]] = pixels[queue[i]]
         /\ pixels'[Drawn][d] = f
         /\ \A e \in Bands \ {d} : pixels'[Drawn][e] = pixels[Drawn][e]
<1>1. pixels \in [Display!Buffers -> [Bands -> Frames]]
  BY DEF TypeInv, DataTypes
<1> QED BY <1>1, DrawnApart

\* A conversion, or its acknowledgement, is of the last frame, from a set of color
\* blocks that holds it, into the buffer that is drawn.
LEMMA ConversionIs ==
  ASSUME TypeInv, FramesInv, PackageInv, NEW w \in Workers, Due(w).command = "cc"
  PROVE  /\ Due(w) = Conversion /\ frame >= 2 /\ ~LdAwaited(w) /\ ~NothingAwaited(w)
         /\ ccPackage[Due(w).video] = [frame |-> LastFrame, set |-> Source, buffer |-> Drawn]
<1>1. /\ Due(w) = Conversion /\ frame >= 2 /\ ~LdAwaited(w) /\ ~NothingAwaited(w)
      /\ main \notin {"sendLd2", "sendLd1"}
  BY DEF Due, Message, None, NothingAwaited, LdAwaited, Workers
<1> QED BY <1>1 DEF PackageInv, Conversion

\* The set it converts from holds the last frame whole.
LEMMA SourceWhole ==
  ASSUME TypeInv, FramesInv, BlocksInv, frame >= 1, main \notin {"idle", "over"}
  PROVE  FrameIn(Source) = LastFrame
<1>1. main \in Pausing \cup Settling \cup Decoding
  BY DEF TypeInv, MainTypes
<1>2. Holds(Source, LastFrame)
  BY <1>1 DEF BlocksInv, Source, LastFrame, Pausing, Settling, Decoding
<1> QED BY <1>2 DEF Holds, FrameIn, Planes

\* A step that changes neither the buffers nor what is finished in them.
LEMMA PixelsSame ==
  ASSUME PixelsInv, UNCHANGED <<LastFrame, Drawn, pixels, queue, frame>>,
         main \notin {"idle", "over"} \/ main' \in {"idle", "over"},
         \A w \in Workers : CcDone(w)' => CcDone(w),
         main' = "ccAck1" => main = "ccAck1",
         main \in LowAhead => main' \in LowAhead,
         main \in Decoding => main' \in Decoding
  PROVE  PixelsInv'
BY DEF PixelsInv

\* The main CPU converts nothing on the first pass, and the last frame afterwards.
LEMMA MainConverts ==
  ASSUME OneVideo, IInv, main \in Decoding, NEW d, Convert(d)
  PROVE  /\ frame < 2 => pixels' = pixels
         /\ frame >= 2 => pixels' = [pixels EXCEPT ![Drawn][d] = LastFrame]
<1>1. frame \in Nat /\ frame >= 1 /\ frameIndex \in Nat /\ main \notin {"idle", "over"}
  BY DEF IInv, TypeInv, MainTypes, CountInv, Decoding, Pausing
<1>2. frameIndex = 0 <=> frame < 2
  BY <1>1 DEF IInv, FramesInv
<1>3. frame >= 2 => lastBuffer = Drawn
  BY DEF IInv, PackageInv
<1>4. FrameIn(1 - oddFrame) = LastFrame
  BY <1>1, SourceWhole DEF IInv, Source
<1>5. ASSUME frame < 2 PROVE pixels' = pixels
  BY <1>1, <1>2, <1>5 DEF Convert
<1>6. ASSUME frame >= 2
      PROVE  pixels' = [pixels EXCEPT ![Drawn][d] = LastFrame]
  <2>1. pixels' = [pixels EXCEPT ![lastBuffer][d] = FrameIn(1 - oddFrame)]
    BY <1>1, <1>2, <1>6 DEF Convert
  <2> QED BY <1>3, <1>4, <1>6, <2>1
<1> QED BY <1>1, <1>5, <1>6

\* Every step keeps the frames of the buffers.
LEMMA PixelsStep ==
  ASSUME OneVideo, IInv, FramesInv', MailInv', [Next]_vars PROVE PixelsInv'
<1> USE
    DEF mainVars, mailVars, workerVars, packageVars, dataVars, dmaVars, displayVars,
    vars
<1>1. /\ TypeInv /\ FramesInv /\ PixelsInv
      /\ frame \in Nat /\ frameIndex \in Nat /\ oddFrame \in {0, 1} /\ Len(queue) \in Nat
      /\ main \in Pausing \cup Settling \cup Decoding
      /\ worker \in [Workers -> {"poll", "ld", "cc", "ack", "loop"}]
      /\ ack \in [Workers -> Commands \cup {None}]
  BY LenProperties DEF IInv, TypeInv, MainTypes, MailTypes
<1>2. CASE UNCHANGED <<mainVars, worker, ack, target, queue, pixels>>
  BY <1>1, <1>2 DEF PixelsInv, LastFrame, Drawn, Registered, Back, CcDone, LdAwaited
<1>3. CASE StartVideo
  <2>1. frame' = 0 /\ UNCHANGED <<worker, ack, queue>> /\ main' = "frame" /\ main = "idle"
    BY <1>1, <1>3 DEF StartVideo, FramesInv, TypeInv, MainTypes, OneVideo
  <2>2. \A w \in Workers : worker[w] # "ack" /\ ack[w] = None
    BY <2>1, <1>3 DEF StartVideo, IInv, MailInv, Mail, Due, LdAwaited, NothingAwaited
  <2>3. Len(queue') <= 0
    BY <2>1 DEF FramesInv, Registered
  <2> QED BY <1>1, <2>1, <2>2, <2>3 DEF PixelsInv, CcDone
<1>4. CASE NextFrame
  <2>1. /\ frame' = frame + 1 /\ UNCHANGED <<worker, ack, target, queue, pixels>>
        /\ main = "frame" /\ main' \in {"ccAck2", "sendLd2"}
        /\ main' = "sendLd2" => ~(frameIndex' >= 2)
    BY <1>4 DEF NextFrame
  <2>2. CASE main' = "ccAck2"
    <3>1. frame >= 2
      BY <1>1, <2>1, <2>2 DEF FramesInv, Settling
    <3>2. UNCHANGED <<LastFrame, Drawn>> /\ \A w \in Workers : CcDone(w)' => CcDone(w)
      BY <1>1, <2>1, <2>2, <3>1
         DEF LastFrame, Drawn, Registered, Back, Settling, CcDone, LdAwaited
    <3> QED BY <1>1, <2>1, <2>2, <3>1, <3>2 DEF PixelsInv, LowAhead, Decoding
  <2>3. CASE main' = "sendLd2"
    <3>1. Len(queue) <= 0
      BY <1>1, <2>1, <2>3 DEF FramesInv, Registered, Decoding
    <3>2. \A w \in Workers : worker'[w] # "ack" /\ ack'[w] = None
      BY <2>3 DEF MailInv, Mail, Due, NothingAwaited
    <3> QED BY <1>1, <2>1, <2>3, <3>1, <3>2 DEF PixelsInv, CcDone, LowAhead, Decoding
  <2> QED BY <2>1, <2>2, <2>3
<1>5. CASE SkipToEnd \/ LastFrameDone \/ AwaitPlaybackEnd
  <2>1. /\ main \in Pausing /\ main' \in {"over", "idle"}
        /\ UNCHANGED <<frame, target, queue, pixels>>
    BY <1>5 DEF SkipToEnd, LastFrameDone, AwaitPlaybackEnd, Pausing
  <2> QED BY <1>1, <2>1 DEF PixelsInv, LastFrame, Pausing, Settling
<1>6. CASE RetrieveCcAck2
  <2>1. /\ main = "ccAck2" /\ main' = "ccAck1" /\ ack[2] # None /\ ack' = Emptied(ack, 2)
        /\ UNCHANGED <<worker, frame, target, queue, pixels>>
    BY <1>6 DEF RetrieveCcAck2
  <2>2. UNCHANGED <<LastFrame, Drawn>>
    BY <2>1 DEF LastFrame, Drawn, Registered, Back, Settling
  <2>3. CcDone(2)
    BY <2>1 DEF CcDone, LdAwaited
  <2>4. pixels[Drawn]["top"] = LastFrame
    BY <1>1, <2>1, <2>3 DEF PixelsInv, Band, Workers
  <2>5. \A w \in Workers : CcDone(w)' => CcDone(w)
    BY <1>1, <2>1, <2>3 DEF CcDone, LdAwaited, Emptied, Workers
  <2> QED BY <1>1, <2>1, <2>2, <2>4, <2>5 DEF PixelsInv, LowAhead, Decoding
<1>7. CASE RetrieveCcAck1
  <2>1. /\ main = "ccAck1" /\ main' = "sendLd2" /\ ack[1] # None /\ frame >= 3
        /\ UNCHANGED <<frame, pixels>> /\ Display!Register
    BY <1>1, <1>7 DEF RetrieveCcAck1, FramesInv, Settling
  <2>2. \A w \in Workers : worker'[w] # "ack" /\ ack'[w] = None
    BY <2>1 DEF MailInv, Mail, Due, NothingAwaited
  <2>3. /\ Len(queue') = Len(queue) + 1
        /\ \A i \in 1 .. Len(queue) : queue'[i] = queue[i]
    BY <1>1, <2>1, RegisterIs DEF TypeInv
  <2>4. \A d \in Bands : pixels[Drawn][d] = LastFrame
    <3>1. CcDone(1) /\ Band(1) = "middle" /\ 1 \in Workers
      BY <2>1 DEF CcDone, LdAwaited, Band, Workers
    <3> QED BY <1>1, <2>1, <3>1 DEF PixelsInv, LowAhead, Decoding, Bands
  <2>5. ASSUME NEW i \in 1 .. Len(queue), NEW d \in Bands
        PROVE  pixels[queue[i]][d] = LastFrame - (Len(queue) - i)
    <3>1. CASE i = Len(queue)
      <4>1. Registered /\ Len(queue) >= 1
        BY <1>1, <2>5 DEF FramesInv
      <4>2. queue[i] = Back(1)
        BY <1>1, <3>1, <4>1 DEF IInv, RingInv
      <4> QED BY <1>1, <2>1, <2>4, <3>1, <4>1, <4>2 DEF Drawn, LastFrame
    <3>2. CASE i # Len(queue)
      BY <1>1, <2>5, <3>2 DEF PixelsInv
    <3> QED BY <3>1, <3>2
  <2>6. LastFrame' = LastFrame + 1 /\ LastFrame \in Int
    BY <1>1, <2>1 DEF LastFrame, Settling
  <2>7. ASSUME NEW i \in 1 .. Len(queue') - 1, NEW d \in Bands
        PROVE  pixels'[queue'[i]][d] = LastFrame' - (Len(queue') - i)
    <3>1. i \in 1 .. Len(queue) /\ LastFrame' - (Len(queue') - i) = LastFrame - (Len(queue) - i)
      BY <1>1, <2>3, <2>6, <2>7
    <3> QED BY <2>1, <2>3, <2>5, <3>1
  <2> QED BY <2>1, <2>2, <2>7 DEF PixelsInv, CcDone, LowAhead, Decoding
<1>8. CASE SendLd2 \/ SendLd1 \/ DecodeCr
           \/ AwaitDma("waitCr", "startCr") \/ StartDma("startCr", "Cr", "convertLow")
           \/ AwaitDma("waitCb", "startCb") \/ StartDma("startCb", "Cb", "ldAck1")
           \/ AwaitDma("waitY", "startY") \/ StartDma("startY", "Y", "waitLast")
           \/ AwaitLastDma \/ AwaitBuffer
  <2>1. /\ UNCHANGED <<worker, ack, frame, target, queue, pixels>>
        /\ main \in Decoding /\ main' \in Decoding
        /\ main \in LowAhead => main' \in LowAhead
        /\ \A w \in Workers : LdAwaited(w) => LdAwaited(w)'
    BY <1>8
       DEF SendLd2, SendLd1, DecodeCr, AwaitDma, StartDma, AwaitLastDma, AwaitBuffer,
       Decoding, LowAhead, LdAwaited, Workers
  <2>2. UNCHANGED <<LastFrame, Drawn>> /\ main' # "ccAck1" /\ main \notin {"idle", "over"}
    BY <2>1 DEF LastFrame, Drawn, Registered, Back, Decoding, Settling
  <2>3. \A w \in Workers : CcDone(w)' => CcDone(w)
    BY <2>1 DEF CcDone
  <2> QED BY <1>1, <2>1, <2>2, <2>3, PixelsSame
<1>9. CASE ConvertLow
  <2>1. /\ main = "convertLow" /\ main' = "ldAck2" /\ Convert("low")
        /\ UNCHANGED <<worker, ack, frame, target, queue>>
    BY <1>9 DEF ConvertLow
  <2>2. UNCHANGED <<LastFrame, Drawn>> /\ \A w \in Workers : CcDone(w)' => CcDone(w)
    BY <2>1 DEF LastFrame, Drawn, Registered, Back, Settling, CcDone, LdAwaited
  <2>3. CASE frame < 2
    <3>1. pixels' = pixels
      BY <2>1, <2>3, MainConverts DEF Decoding
    <3> QED BY <1>1, <2>1, <2>2, <2>3, <3>1 DEF PixelsInv
  <2>4. CASE frame >= 2
    <3>1. pixels' = [pixels EXCEPT ![Drawn]["low"] = LastFrame]
      BY <2>1, <2>4, MainConverts DEF Decoding
    <3>2. /\ \A i \in 1 .. Len(queue) - 1 : pixels'[queue[i]] = pixels[queue[i]]
          /\ pixels'[Drawn]["low"] = LastFrame
          /\ \A e \in Bands \ {"low"} : pixels'[Drawn][e] = pixels[Drawn][e]
      BY <3>1, DrawingKeeps DEF IInv, Bands
    <3>3. \A w \in Workers : Band(w) \in Bands \ {"low"}
      BY DEF Bands, Band
    <3> QED BY <1>1, <2>1, <2>2, <3>3, <3>2 DEF PixelsInv, Decoding
  <2> QED BY <1>1, <2>3, <2>4
<1>10. ASSUME NEW w \in Workers, NEW here, NEW next, RetrieveLdAck(here, w, next),
             here \in Decoding \ LowAhead, next \in Decoding \ LowAhead,
             \A x \in Workers \ {w} : LdAwaited(x) => LdAwaited(x)'
      PROVE  PixelsInv'
  <2>1. /\ main = here /\ main' = next /\ ack[w] # None /\ ack' = Emptied(ack, w)
        /\ UNCHANGED <<worker, frame, target, queue, pixels>>
    BY <1>10 DEF RetrieveLdAck
  <2>2. UNCHANGED <<LastFrame, Drawn>>
    BY <1>10, <2>1 DEF LastFrame, Drawn, Registered, Back, Decoding, Settling
  <2>3. ~CcDone(w)'
    BY <1>1, <2>1 DEF IInv, MailInv, Mail, CcDone, Emptied
  <2>4. \A x \in Workers \ {w} : CcDone(x)' => CcDone(x)
    BY <1>1, <1>10, <2>1 DEF CcDone, Emptied
  <2> QED BY <1>1, <1>10, <2>1, <2>2, <2>3, <2>4, PixelsSame DEF Decoding
<1>11. CASE ConvertBottom
  <2>1. /\ main = "convertBottom" /\ main' = "frame" /\ Convert("bottom")
        /\ UNCHANGED <<worker, ack, frame, target, queue>>
    BY <1>11 DEF ConvertBottom
  <2>2. UNCHANGED <<LastFrame, Drawn>> /\ \A w \in Workers : CcDone(w)' => CcDone(w)
    BY <2>1 DEF LastFrame, Drawn, Registered, Back, Settling, CcDone, LdAwaited
  <2>3. CASE frame < 2
    <3>1. pixels' = pixels
      BY <2>1, <2>3, MainConverts DEF Decoding
    <3> QED BY <1>1, <2>1, <2>2, <2>3, <3>1 DEF PixelsInv
  <2>4. CASE frame >= 2
    <3>1. pixels' = [pixels EXCEPT ![Drawn]["bottom"] = LastFrame]
      BY <2>1, <2>4, MainConverts DEF Decoding
    <3>2. /\ \A i \in 1 .. Len(queue) - 1 : pixels'[queue[i]] = pixels[queue[i]]
          /\ pixels'[Drawn]["bottom"] = LastFrame
          /\ \A e \in Bands \ {"bottom"} : pixels'[Drawn][e] = pixels[Drawn][e]
      BY <3>1, DrawingKeeps DEF IInv, Bands
    <3>3. "low" \in Bands \ {"bottom"} /\ \A w \in Workers : Band(w) \in Bands \ {"bottom"}
      BY DEF Bands, Band
    <3> QED BY <1>1, <2>1, <2>2, <3>3, <3>2 DEF PixelsInv, LowAhead
  <2> QED BY <1>1, <2>3, <2>4
<1>12. ASSUME NEW w \in Workers, Worker(w) \/ RxInterrupt(w) PROVE PixelsInv'
  <2>1. UNCHANGED <<main, frame, target, queue, LastFrame, Drawn>>
    BY <1>12
       DEF Worker, WorkerReceive, WorkerDecode, WorkerConvert, WorkerAck, WorkerLoop,
       RxInterrupt, LastFrame, Drawn, Registered, Back
  <2>2. /\ \A x \in Workers \ {w} : CcDone(x)' = CcDone(x) /\ Band(x) # Band(w)
        /\ \A x \in Workers : LdAwaited(x)' = LdAwaited(x) /\ Band(x) \in Bands
    BY <1>1, <1>12 DEF Worker, WorkerReceive, WorkerDecode, WorkerConvert, WorkerAck,
       WorkerLoop, RxInterrupt, CcDone, LdAwaited, Send, Band, Bands, Workers
  <2>3. CASE pixels' = pixels /\ (CcDone(w)' => CcDone(w))
    BY <1>1, <2>1, <2>2, <2>3, PixelsSame
  <2>4. ASSUME NEW f, pixels' = [pixels EXCEPT ![Drawn][Band(w)] = f],
               (CcDone(w)' /\ main \notin {"idle", "over"}) => f = LastFrame,
               main = "ccAck1" => w = 1
        PROVE  PixelsInv'
    <3>1. /\ \A i \in 1 .. Len(queue) - 1 : pixels'[queue[i]] = pixels[queue[i]]
          /\ pixels'[Drawn][Band(w)] = f
          /\ \A e \in Bands \ {Band(w)} : pixels'[Drawn][e] = pixels[Drawn][e]
      BY <2>2, <2>4, DrawingKeeps DEF IInv
    <3>2. {"low", "bottom"} \subseteq Bands \ {Band(w)} /\ (w = 1 => "top" \in Bands \ {Band(w)})
      BY DEF Bands, Band
    <3> QED BY <1>1, <2>1, <2>2, <2>4, <3>1, <3>2 DEF PixelsInv
  <2>5. CASE WorkerReceive(w)
    <3>1. command[w] = Due(w) /\ ack[w] = None /\ worker'[w] \in {"ld", "cc"} /\ ack' = ack
      BY <1>1, <2>5
         DEF WorkerReceive, IInv, MailInv, Mail, TypeInv, MailTypes, Commands
    <3>2. ~CcDone(w)'
      BY <3>1 DEF CcDone
    <3>3. CASE command[w].command = "ld"
      BY <2>3, <2>5, <3>2, <3>3 DEF WorkerReceive
    <3>4. CASE command[w].command # "ld"
      <4>1. command[w].command = "cc"
        BY <2>5, <3>4 DEF WorkerReceive, IInv, TypeInv, MailTypes, Commands
      <4>2. ccPackage[command[w].video].buffer = Drawn /\ ~NothingAwaited(w)
        BY <3>1, <4>1, ConversionIs DEF IInv
      <4>3. pixels' = [pixels EXCEPT ![Drawn][Band(w)] = Torn]
        BY <2>5, <3>4, <4>2 DEF WorkerReceive
      <4>4. main = "ccAck1" => w = 1
        BY <4>2 DEF NothingAwaited, Workers
      <4> QED BY <2>4, <3>2, <4>3, <4>4
    <3> QED BY <3>3, <3>4
  <2>6. CASE WorkerDecode(w)
    <3>1. LdAwaited(w)
      BY <2>6 DEF WorkerDecode, IInv, MailInv, Mail, Due, Conversion, None
    <3> QED BY <2>2, <2>3, <2>6, <3>1 DEF WorkerDecode, CcDone
  <2>7. CASE WorkerConvert(w)
    <3>1. job[w] = Due(w) /\ Due(w).command = "cc"
      BY <2>7 DEF WorkerConvert, IInv, MailInv, Mail
    <3>2. /\ Package(w) = [frame |-> LastFrame, set |-> Source, buffer |-> Drawn]
          /\ frame >= 2 /\ ~NothingAwaited(w)
      BY <3>1, ConversionIs DEF IInv, Package
    <3>3. pixels' = [pixels EXCEPT ![Drawn][Band(w)] = FrameIn(Source)]
      BY <2>7, <3>2 DEF WorkerConvert
    <3>4. main = "ccAck1" => w = 1
      BY <3>2 DEF NothingAwaited, Workers
    <3>5. main \notin {"idle", "over"} => FrameIn(Source) = LastFrame
      BY <1>1, <3>2, SourceWhole DEF IInv
    <3> QED BY <2>4, <3>3, <3>4, <3>5
  <2>8. CASE WorkerAck(w) \/ WorkerLoop(w) \/ RxInterrupt(w)
    BY <1>1, <2>2, <2>3, <2>8 DEF WorkerAck, WorkerLoop, RxInterrupt, CcDone
  <2> QED BY <1>12, <2>5, <2>6, <2>7, <2>8 DEF Worker
<1>13. CASE Dma \/ PlayButton
  BY <1>2, <1>13
     DEF Dma, DmaStart, ReadComplete, WriteComplete, PlayButton, Display!TogglePlay
<1>14. CASE TimerIsr
  <2>1. CASE Display!Show
    <3>1. /\ Len(queue') = Len(queue) - 1 /\ Len(queue) >= 1
          /\ \A i \in 1 .. Len(queue) - 1 : queue'[i] = queue[i + 1]
      BY <1>1, <2>1, ShowIs DEF TypeInv
    <3>2. /\ UNCHANGED <<main, frame, pixels, LastFrame, Drawn>>
          /\ \A w \in Workers : CcDone(w)' = CcDone(w)
      BY <1>14, <2>1
         DEF TimerIsr, Display!Show, LastFrame, Drawn, Registered, Back, CcDone,
         LdAwaited
    <3>3. ASSUME NEW i \in 1 .. Len(queue') - 1, NEW d \in Bands
          PROVE  pixels'[queue'[i]][d] = LastFrame' - (Len(queue') - i)
      <4>1. /\ i + 1 \in 1 .. Len(queue) - 1
            /\ Len(queue) - (i + 1) = Len(queue') - i /\ queue'[i] = queue[i + 1]
        BY <1>1, <3>1, <3>3
      <4> QED BY <1>1, <3>2, <4>1 DEF PixelsInv
    <3> QED BY <1>1, <3>2, <3>3 DEF PixelsInv
  <2>2. CASE Display!Prime \/ Display!Underrun
    BY <1>2, <1>14, <2>2 DEF TimerIsr, Display!Prime, Display!Underrun
  <2> QED BY <1>14, <2>1, <2>2 DEF TimerIsr
<1>15. CASE SkipButton
  BY <1>1, <1>15
     DEF SkipButton, PixelsInv, LastFrame, Drawn, Registered, Back, CcDone, LdAwaited
<1>16. CASE RetrieveLdAck("ldAck2", 2, "waitCb") \/ RetrieveLdAck("ldAck1", 1, "waitY")
  BY <1>10, <1>16 DEF RetrieveLdAck, Decoding, LowAhead, LdAwaited, Workers
<1> QED BY <1>2, <1>3, <1>4, <1>5, <1>6, <1>7, <1>8, <1>9, <1>11, <1>12, <1>13,
           <1>14, <1>15, <1>16 DEF Next, Main

-----------------------------------------------------------------------------
(* The invariant, and what it gives.                                       *)

\* The invariant holds when the processors start.
LEMMA InitIInv == Init => IInv
<1> SUFFICES ASSUME Init PROVE IInv
  OBVIOUS
<1> USE DEF Init, Display!Init
<1>1. TypeInv /\ RingInv /\ Len(queue) = 0
  BY InitTypeInv, InitRing, LenProperties
<1>2. FramesInv
  BY <1>1 DEF FramesInv, Registered, Pausing, Settling, Decoding
<1>3. MailInv
  BY DEF MailInv, Mail
<1>4. PackageInv
  BY DEF PackageInv, Torn
<1>5. BlocksInv
  BY DEF BlocksInv, Settling, Decoding
<1>6. PlanesInv
  BY DEF PlanesInv, Decoded, Stored, Flight, LdAwaited, Planes
<1>7. PixelsInv
  BY <1>1 DEF PixelsInv
<1> QED BY <1>1, <1>2, <1>3, <1>4, <1>5, <1>6, <1>7 DEF IInv

\* Every step keeps it.
LEMMA IInvStep ==
  ASSUME OneVideo, IInv, [Next]_vars PROVE IInv'
<1>1. TypeInv'
  BY MainTypesStep, CountStep, DmaStep, MailTypesStep, DataTypesStep
     DEF TypeInv, IInv
<1>2. RingInv'
  BY RingStep DEF IInv, TypeInv
<1>3. FramesInv'
  BY FramesStep DEF IInv, TypeInv
<1>4. MailInv'
  BY <1>3, MailStep DEF IInv, TypeInv
<1>5. PackageInv'
  BY <1>3, PackageStep DEF IInv, TypeInv
<1>6. BlocksInv'
  BY <1>3, BlocksStep DEF IInv
<1>7. PlanesInv'
  BY <1>4, PlanesStep DEF IInv
<1>8. PixelsInv'
  BY <1>3, <1>4, PixelsStep
<1> QED BY <1>1, <1>2, <1>3, <1>4, <1>5, <1>6, <1>7, <1>8 DEF IInv

\* The invariant holds while one video is decoded.
THEOREM Invariance == ASSUME OneVideo PROVE Spec => []IInv
<1>1. IInv /\ [Next]_vars => IInv'
  BY IInvStep
<1> QED BY <1>1, InitIInv, PTL DEF Spec

\* Of the message that is due.
LEMMA AcksFollow == IInv => AcksMatch
<1> SUFFICES ASSUME IInv, NEW w \in Workers, ack[w] # None
             PROVE /\ main = (IF w = 1 THEN "ldAck1" ELSE "ldAck2") => ack[w] = Message("ld")
                   /\ main = (IF w = 1 THEN "ccAck1" ELSE "ccAck2")
                        => ack[w] = [Message("cc") EXCEPT !.frame = frame - 2]
  BY DEF AcksMatch
<1>1. ack[w] = Due(w) /\ (w = 1 \/ w = 2)
  BY DEF IInv, MailInv, Mail, Workers
<1>2. CASE main = (IF w = 1 THEN "ldAck1" ELSE "ldAck2")
  BY <1>1, <1>2 DEF Due, NothingAwaited, LdAwaited
<1>3. CASE main = (IF w = 1 THEN "ccAck1" ELSE "ccAck2")
  <2>1. Due(w) = Conversion
    BY <1>1, <1>3 DEF Due, NothingAwaited, LdAwaited
  <2> QED BY <1>1, <1>3, <2>1 DEF Conversion, LastFrame, Settling, Message
<1> QED BY <1>2, <1>3

\* The acknowledgement the main CPU takes without looking at it is that of the
\* command it waits for.
THEOREM Acknowledgements == ASSUME OneVideo PROVE Spec => []AcksMatch
BY Invariance, AcksFollow, PTL

\* A mailbox that is written is empty: the message that is due is elsewhere, or
\* nothing is due.
LEMMA NoneRefused == IInv => NoMessageRefused
<1> SUFFICES ASSUME IInv PROVE NoMessageRefused
  OBVIOUS
<1>1. \A w \in Workers : Mail(w)
  BY DEF IInv, MailInv
<1> QED BY <1>1 DEF NoMessageRefused, Mail, Due, NothingAwaited, Workers

\* No command and no acknowledgement meets a full mailbox, although the decoder and
\* the workers ignore the status that would say so.
THEOREM Mailboxes == ASSUME OneVideo PROVE Spec => []NoMessageRefused
BY Invariance, NoneRefused, PTL

\* The read descriptor is queued behind the wait for the plane's decoder.
LEMMA ReadIsDecoded == IInv => CoefficientsReady
<1> SUFFICES ASSUME IInv, dma = "reading" PROVE dcac[Head(readQ)] = frame
  BY DEF CoefficientsReady
<1>1. PICK p \in Planes : main \in Flight(p) /\ Carries(p)
  BY DEF IInv, TypeInv, DmaInv, Free
<1>2. Head(readQ) = p /\ main \in Decoded(p)
  BY <1>1, TailOfOne DEF Carries, Flight, Decoded, Planes
<1> QED BY <1>2 DEF IInv, PlanesInv

\* While one video is decoded, the DMA reads coefficients of this pass only. A
\* second video breaks this (the run PipelineSecondVideo).
THEOREM Coefficients == ASSUME OneVideo PROVE Spec => []CoefficientsReady
BY Invariance, ReadIsDecoded, PTL

\* Of the package, the color blocks and the coefficients.
LEMMA InputsWhole == IInv => InputsStable
<1> SUFFICES ASSUME IInv, main \notin {"over", "idle"}, NEW w \in Workers
             PROVE  /\ worker[w] = "ld" => payload = job[w].frame
                    /\ worker[w] = "cc" => /\ Package(w).frame = job[w].frame
                                           /\ FrameIn(Package(w).set) = job[w].frame
  BY ReadIsDecoded DEF InputsStable, CoefficientsReady
<1>1. worker[w] \in {"ld", "cc"} => job[w] = Due(w) /\ Due(w).command = worker[w]
  BY DEF IInv, MailInv, Mail
<1>2. CASE worker[w] = "ld"
  <2>1. Due(w) = Message("ld")
    BY <1>1, <1>2 DEF Due, None, Conversion
  <2> QED BY <1>1, <1>2, <2>1 DEF Message, IInv, PackageInv
<1>3. CASE worker[w] = "cc"
  <2>1. /\ job[w] = Conversion /\ frame >= 2
        /\ Package(w) = [frame |-> LastFrame, set |-> Source, buffer |-> Drawn]
    BY <1>1, <1>3, ConversionIs DEF IInv, Package
  <2>2. frame >= 1
    BY <2>1 DEF IInv, TypeInv, MainTypes
  <2>3. FrameIn(Source) = LastFrame
    BY <2>2, SourceWhole DEF IInv
  <2> QED BY <1>3, <2>1, <2>3 DEF Conversion
<1> QED BY <1>2, <1>3

\* Whoever is in the middle of a job finds its input whole: the bitstream, the
\* package, the color blocks, the coefficients.
THEOREM Inputs == ASSUME OneVideo PROVE Spec => []InputsStable
BY Invariance, InputsWhole, PTL

\* Whoever converts draws into the newest registered buffer, or the target.
LEMMA DrawingIs == ASSUME IInv, NEW b \in Drawing PROVE b = Drawn
<1>1. ASSUME NEW w \in Workers, worker[w] = "cc" PROVE Package(w).buffer = Drawn
  <2>1. Due(w).command = "cc" /\ job[w] = Due(w)
    BY <1>1 DEF IInv, MailInv, Mail
  <2> QED BY <2>1, ConversionIs DEF IInv, Package
<1>2. ASSUME main \in {"convertLow", "convertBottom"}, frameIndex # 0
      PROVE  lastBuffer = Drawn
  <2>1. main \in Decoding /\ frameIndex \in Nat /\ frame \in Nat
    BY <1>2 DEF IInv, TypeInv, MainTypes, Decoding
  <2>2. frame >= 2
    BY <1>2, <2>1 DEF IInv, FramesInv
  <2> QED BY <2>1, <2>2 DEF IInv, PackageInv
<1> QED BY <1>1, <1>2 DEF Drawing

\* It is on the screen only when nothing else is left to show.
LEMMA DrawnOnScreen ==
  ASSUME TypeInv, RingInv, FramesInv, onScreen = Drawn
  PROVE  queue = << >>
<1>1. /\ target \in 0 .. NumBuffers - 1 /\ Len(queue) \in Nat /\ Len(queue) <= NumBuffers - 1
      /\ queue \in Seq(Display!Buffers)
  BY LenProperties DEF TypeInv, MainTypes, RingInv, Display!Buffers
<1>2. onScreen = Back(Len(queue) + 1) /\ (~Registered => Len(queue) <= 0)
  BY DEF RingInv, FramesInv
<1>3. Len(queue) = 0
  BY <1>1, <1>2, ConstantTypes DEF Drawn, Back
<1> QED BY <1>1, <1>3, EmptySeq

\* Of the frames in the buffers.
LEMMA QueuedWhole == IInv => OnlyNewestUnfinished
<1> SUFFICES ASSUME IInv PROVE OnlyNewestUnfinished
  OBVIOUS
<1>1. Len(queue) \in Nat /\ frame \in Nat
  BY LenProperties DEF IInv, TypeInv, MainTypes
<1>2. ASSUME NEW i \in 1 .. Len(queue) - 1
      PROVE  /\ Whole(queue[i])
             /\ i > 1 => FrameShown(queue[i]) = FrameShown(queue[i - 1]) + 1
  <2>1. \A d \in Bands : pixels[queue[i]][d] = LastFrame - (Len(queue) - i)
    BY DEF IInv, PixelsInv
  <2>2. Len(queue) <= LastFrame - 1 /\ LastFrame \in Int /\ LastFrame <= frame
    BY <1>1, <1>2 DEF IInv, FramesInv, LastFrame
  <2>3. LastFrame - (Len(queue) - i) \in Frames \ {Torn}
    <3>1. LastFrame - (Len(queue) - i) \in 1 .. frame
      BY <1>1, <2>2
    <3>2. 0 .. frame \subseteq Frames
      BY FrameTyped DEF IInv, TypeInv
    <3> QED BY <3>1, <3>2 DEF Torn
  <2>4. ASSUME i > 1
        PROVE  FrameShown(queue[i]) = FrameShown(queue[i - 1]) + 1
    <3>1. i - 1 \in 1 .. Len(queue) - 1 /\ "top" \in Bands
      BY <1>1, <2>4 DEF Bands
    <3>2. pixels[queue[i - 1]]["top"] = LastFrame - (Len(queue) - (i - 1))
      BY <3>1 DEF IInv, PixelsInv
    <3> QED BY <1>1, <2>1, <2>2, <3>1, <3>2 DEF FrameShown
  <2> QED BY <2>1, <2>3, <2>4 DEF Whole
<1>3. onScreen \in Drawing => queue = << >>
  BY DrawingIs, DrawnOnScreen DEF IInv
<1> QED BY <1>2, <1>3 DEF OnlyNewestUnfinished

\* The buffers waiting behind the newest are whole and hold consecutive frames, and nobody
\* draws into the buffer on the screen: the display never shows a half-drawn one, unless
\* it catches up with the newest.
THEOREM Buffers == ASSUME OneVideo PROVE Spec => []OnlyNewestUnfinished
BY Invariance, QueuedWhole, PTL

=============================================================================
