-------------------------- MODULE DecoderPipeline --------------------------
(***************************************************************************)
(* mjpeg423_decode on the main CPU, the two worker CPUs, the four          *)
(* mailboxes between them, the read and write msgDMA around the IDCT       *)
(* accelerator, and the display as the queue FrameQueue.                   *)
(*                                                                         *)
(* Data is abstracted to the number of the decoded frame it belongs to:    *)
(* frame f is the f-th pass of the decode loop.  Something being written,  *)
(* freed, or put together from two frames is Torn.                         *)
(*                                                                         *)
(* slow = FALSE is the timing on the board (README, "Timing"): a worker is *)
(* back in retrieve_poll before the next command arrives; slow = TRUE      *)
(* leaves open when it is.                                                 *)
(* Memory is what the CPUs wrote last: the data caches are left out.       *)
(***************************************************************************)
EXTENDS Integers, Sequences, FiniteSets

CONSTANTS
  NumBuffers,              \* frame buffers of the display
  NumFrames,               \* num_frames of each video's header
  MaxVideos,               \* bound: calls of mjpeg423_decode
  IFrames,                 \* frame_index of each entry of the I-frame trailer
  FwLook, FwStep, RvStep,  \* 120, 110 and 120 in the code, scaled with NumFrames
  Buttons,                 \* the skip buttons the user presses: "fw", "rv"
  MaxSkips,                \* bound: presses of them
  FirstSkip,               \* skips are asked for only if they lead to this
                           \* frame_index or a later one
  SlowWorkers              \* the timings explored: the values of slow

ASSUME PipelineAssumption ==
  /\ NumBuffers \in Nat /\ NumBuffers >= 2
  /\ {NumFrames, MaxVideos, FwLook, FwStep, RvStep, MaxSkips, FirstSkip} \subseteq Nat
  /\ IFrames \subseteq 0 .. NumFrames - 1
  /\ Buttons \subseteq {"fw", "rv"}
  /\ SlowWorkers \subseteq BOOLEAN

Workers == {1, 2}
Planes == {"Y", "Cb", "Cr"}
Plane(w) == IF w = 1 THEN "Y" ELSE "Cb"

\* Who converts which rows of a frame: worker 2 the top, worker 1 the middle, the
\* main CPU the next tenth and then, after the wait for a buffer, the last one.
Bands == {"top", "middle", "low", "bottom"}
Band(w) == IF w = 1 THEN "middle" ELSE "top"

Torn == 0
None == [command |-> "none", frame |-> 0, video |-> 0]
NoBuffer == -1

VARIABLES
  \* the main CPU
  main,           \* where it is in mjpeg423_decode
  frameIndex,     \* frame_index
  oddFrame,       \* odd_frame: the set of color blocks the DMA writes
  lastBuffer,     \* last_buffer: where the previous frame is converted to
  dmaComplete,    \* dma_complete
  skip,           \* the skip flags that are set
  video,          \* the call of mjpeg423_decode, 0 before the first
  frame,          \* history: passes of the loop so far
  skips,          \* history: presses of the skip buttons so far
  \* messages
  command, ack,   \* the mailbox to and from each worker
  payload,        \* the frame in the bitstream buffer and in Y_msg and Cb_msg
  ccPackage,      \* CPU1_CC_msg and CPU2_CC_msg of each call
  worker, job,    \* where each worker is, and the message it works on
  slow,           \* a worker may be slow to return to its mailbox (never changes)
  \* data
  dcac,           \* the frame in YDCAC, CbDCAC, CrDCAC
  blocks,         \* the frame in each set of color blocks
  pixels,         \* the frame in each band of each frame buffer
  \* the DMA
  readQ, writeQ,  \* descriptors in the two FIFOs
  dma,            \* "idle", "reading", "draining"
  stream,         \* the frame inside the accelerator
  \* the display
  target, queue, onScreen, primed, playing

mainVars == <<main, frameIndex, oddFrame, lastBuffer, skip, video, frame, skips>>
mailVars == <<command, ack>>
workerVars == <<worker, job, slow>>
packageVars == <<payload, ccPackage>>
dataVars == <<dcac, blocks, pixels>>
dmaVars == <<readQ, writeQ, dma, stream>>
displayVars == <<target, queue, onScreen, primed, playing>>
vars == <<mainVars, dmaComplete, mailVars, workerVars, packageVars, dataVars,
          dmaVars, displayVars>>

Display == INSTANCE FrameQueue

Init ==
  /\ main = "idle" /\ frameIndex = 0 /\ oddFrame = 0 /\ lastBuffer = NoBuffer
  /\ dmaComplete = TRUE
  /\ skip = {} /\ video = 0 /\ frame = 0 /\ skips = 0
  /\ command = [w \in Workers |-> None] /\ ack = [w \in Workers |-> None]
  /\ payload = Torn
  /\ ccPackage = [v \in 1 .. MaxVideos |->
                    [frame |-> Torn, set |-> 0, buffer |-> NoBuffer]]
  /\ worker = [w \in Workers |-> "poll"] /\ job = [w \in Workers |-> None]
  /\ slow \in SlowWorkers
  /\ dcac = [p \in Planes |-> Torn]
  /\ blocks = [s \in {0, 1} |-> [p \in Planes |-> Torn]]
  /\ pixels = [b \in Display!Buffers |-> [d \in Bands |-> Torn]]
  /\ readQ = << >> /\ writeQ = << >> /\ dma = "idle" /\ stream = Torn
  /\ Display!Init

-----------------------------------------------------------------------------
(* Helpers                                                                 *)

\* altera_avalon_mailbox_send with its status ignored: a full mailbox drops m.
Send(box, w, m) == IF box[w] = None THEN [box EXCEPT ![w] = m] ELSE box
Emptied(box, w) == [box EXCEPT ![w] = None]

Message(c) == [command |-> c, frame |-> IF c = "cc" THEN frame - 1 ELSE frame,
               video |-> video]

\* The frame a set of color blocks holds, Torn unless its planes agree.
FrameIn(s) ==
  IF \A p \in Planes : blocks[s][p] = blocks[s]["Y"] THEN blocks[s]["Y"] ELSE Torn

Smallest(S) == CHOOSE i \in S : \A j \in S : i <= j

\* The search of the trailer: the first I-frame from index i on, if there is one.
SeekIFrame(i) ==
  LET later == {t \in IFrames : t >= i}
  IN  IF later = {} THEN i ELSE Smallest(later)

SkipForward(i) == IF "fw" \in skip THEN SeekIFrame(i + FwStep) ELSE i
SkipReverse(i) ==
  IF "rv" \in skip THEN SeekIFrame(IF i - RvStep > 0 THEN i - RvStep ELSE 0) ELSE i

-----------------------------------------------------------------------------
(* The main CPU, in the order of the code                                  *)

\* main() calls mjpeg423_decode on a newly opened file.  The block arrays are
\* allocated again; dma_complete, odd_frame and last_buffer are globals and keep
\* their values, and nothing empties the mailboxes.
StartVideo ==
  /\ main = "idle" /\ playing /\ video < MaxVideos
  /\ main' = "frame" /\ frameIndex' = 0 /\ video' = video + 1
  /\ dcac' = [p \in Planes |-> Torn]
  /\ blocks' = [s \in {0, 1} |-> [p \in Planes |-> Torn]]
  /\ UNCHANGED <<oddFrame, lastBuffer, skip, frame, skips, dmaComplete, mailVars,
                 workerVars, packageVars, pixels, dmaVars, displayVars>>

\* Mutant of NextFrame: the acknowledgements are awaited one frame too late.
NextFrameLate ==
  /\ main = "frame" /\ frameIndex < NumFrames
  /\ ~("fw" \in skip /\ frameIndex + FwLook >= NumFrames)
  /\ frameIndex' = SkipReverse(SkipForward(frameIndex))
  /\ skip' = {}
  /\ frame' = frame + 1
  /\ payload' = frame + 1
  /\ main' = IF frameIndex' > 2 THEN "ccAck2" ELSE "sendLd2"
  /\ UNCHANGED <<oddFrame, lastBuffer, video, skips, dmaComplete, mailVars,
                 workerVars, ccPackage, dataVars, dmaVars, displayVars>>

\* The top of the loop: the skip flags, then the frame's header and payload.
NextFrame ==
  /\ main = "frame" /\ frameIndex < NumFrames
  /\ ~("fw" \in skip /\ frameIndex + FwLook >= NumFrames)
  /\ frameIndex' = SkipReverse(SkipForward(frameIndex))
  /\ skip' = {}
  /\ frame' = frame + 1
  /\ payload' = frame + 1
  /\ main' = IF frameIndex' >= 2 THEN "ccAck2" ELSE "sendLd2"
  /\ UNCHANGED <<oddFrame, lastBuffer, video, skips, dmaComplete, mailVars,
                 workerVars, ccPackage, dataVars, dmaVars, displayVars>>

\* A forward skip close to the end returns at once.
SkipToEnd ==
  /\ main = "frame" /\ frameIndex < NumFrames
  /\ "fw" \in skip /\ frameIndex + FwLook >= NumFrames
  /\ skip' = skip \ {"fw"}
  /\ main' = "over"
  /\ UNCHANGED <<frameIndex, oddFrame, lastBuffer, video, frame, skips, dmaComplete,
                 mailVars, workerVars, packageVars, dataVars, dmaVars, displayVars>>

\* The loop ends and the block arrays are freed.
LastFrameDone ==
  /\ main = "frame" /\ frameIndex >= NumFrames
  /\ blocks' = [s \in {0, 1} |-> [p \in Planes |-> Torn]]
  /\ dcac' = [p \in Planes |-> Torn]
  /\ main' = "over"
  /\ UNCHANGED <<frameIndex, oddFrame, lastBuffer, skip, video, frame, skips,
                 dmaComplete, mailVars, workerVars, packageVars, pixels,
                 dmaVars, displayVars>>

\* main() waits for video_play_flag to fall before it looks for the next video.
AwaitPlaybackEnd ==
  /\ main = "over" /\ ~playing
  /\ main' = "idle"
  /\ UNCHANGED <<frameIndex, oddFrame, lastBuffer, skip, video, frame, skips,
                 dmaComplete, mailVars, workerVars, packageVars, dataVars, dmaVars,
                 displayVars>>

\* The acknowledgements of the previous pass's color conversion, and the
\* registration of the buffer the display is to show next.
RetrieveCcAck2 ==
  /\ main = "ccAck2" /\ ack[2] # None
  /\ ack' = Emptied(ack, 2)
  /\ main' = "ccAck1"
  /\ UNCHANGED <<frameIndex, oddFrame, lastBuffer, skip, video, frame, skips,
                 dmaComplete, command, workerVars, packageVars, dataVars, dmaVars,
                 displayVars>>

RetrieveCcAck1 ==
  /\ main = "ccAck1" /\ ack[1] # None
  /\ ack' = Emptied(ack, 1)
  /\ Display!Register
  /\ main' = "sendLd2"
  /\ UNCHANGED <<frameIndex, oddFrame, lastBuffer, skip, video, frame, skips,
                 dmaComplete, command, workerVars, packageVars, dataVars, dmaVars>>

\* alt_dcache_flush_all, then COMMAND_LOSSLESS_DECODE to worker 2.
SendLd2 ==
  /\ main = "sendLd2"
  /\ command' = Send(command, 2, Message("ld"))
  /\ main' = "sendLd1"
  /\ UNCHANGED <<frameIndex, oddFrame, lastBuffer, skip, video, frame, skips,
                 dmaComplete, ack, workerVars, packageVars, dcac, blocks, pixels,
                 dmaVars, displayVars>>

\* The same to worker 1; then the color-conversion package is filled for the
\* previous frame and the main CPU starts on the Cr plane.
SendLd1 ==
  /\ main = "sendLd1"
  /\ command' = Send(command, 1, Message("ld"))
  /\ ccPackage' = [ccPackage EXCEPT ![video] =
                     [frame |-> frame - 1, set |-> 1 - oddFrame, buffer |-> lastBuffer]]
  /\ dcac' = [dcac EXCEPT !["Cr"] = Torn]
  /\ main' = "decodeCr"
  /\ UNCHANGED <<frameIndex, oddFrame, lastBuffer, skip, video, frame, skips,
                 dmaComplete, ack, workerVars, payload, blocks, pixels,
                 dmaVars, displayVars>>

\* lossless_decode of the Cr plane; the flush after it is commented out.
DecodeCr ==
  /\ main = "decodeCr"
  /\ dcac' = [dcac EXCEPT !["Cr"] = frame]
  /\ main' = "waitCr"
  /\ UNCHANGED <<frameIndex, oddFrame, lastBuffer, skip, video, frame, skips,
                 dmaComplete, mailVars, workerVars, packageVars, blocks, pixels,
                 dmaVars, displayVars>>

\* Mutant of AwaitDma: the flag is left set.
AwaitDmaUncleared(here, next) ==
  /\ main = here /\ dmaComplete
  /\ main' = next
  /\ UNCHANGED <<frameIndex, oddFrame, lastBuffer, skip, video, frame, skips,
                 dmaComplete, mailVars, workerVars, packageVars, dataVars, dmaVars,
                 displayVars>>

\* while(dma_complete == 0); dma_complete = 0;
AwaitDma(here, next) ==
  /\ main = here /\ dmaComplete
  /\ dmaComplete' = FALSE
  /\ main' = next
  /\ UNCHANGED <<frameIndex, oddFrame, lastBuffer, skip, video, frame, skips,
                 mailVars, workerVars, packageVars, dataVars, dmaVars, displayVars>>

\* The two async_transfer calls: the write descriptor, then the read descriptor.
\* IdctDma has the two dispatchers and their interrupts.
StartDma(here, p, next) ==
  /\ main = here
  /\ writeQ' = Append(writeQ, [set |-> oddFrame, plane |-> p])
  /\ readQ' = Append(readQ, p)
  /\ main' = next
  /\ UNCHANGED <<frameIndex, oddFrame, lastBuffer, skip, video, frame, skips,
                 dmaComplete, mailVars, workerVars, packageVars, dataVars, dma, stream,
                 displayVars>>

\* The main CPU converts its rows of the previous frame into last_buffer.
Convert(d) ==
  pixels' = IF frameIndex = 0 THEN pixels
            ELSE [pixels EXCEPT ![lastBuffer][d] = FrameIn(1 - oddFrame)]

\* Rows 8/10 to 9/10 of the previous frame, then alt_dcache_flush_all.
ConvertLow ==
  /\ main = "convertLow"
  /\ Convert("low")
  /\ main' = "ldAck2"
  /\ UNCHANGED <<frameIndex, oddFrame, lastBuffer, skip, video, frame, skips,
                 dmaComplete, mailVars, workerVars, packageVars, dcac, blocks, dmaVars,
                 displayVars>>

\* Mutant of RetrieveLdAck: the color conversion is sent without waiting for the
\* acknowledgement.
RetrieveLdAckAtOnce(here, w, next) ==
  /\ main = here
  /\ ack' = Emptied(ack, w)
  /\ command' = IF frameIndex = 0 THEN command ELSE Send(command, w, Message("cc"))
  /\ main' = next
  /\ UNCHANGED <<frameIndex, oddFrame, lastBuffer, skip, video, frame, skips,
                 dmaComplete, workerVars, packageVars, dataVars, dmaVars, displayVars>>

\* The worker's plane is decoded: from the second frame on it is sent
\* COMMAND_COLOR_CONVERT for the previous frame.
RetrieveLdAck(here, w, next) ==
  /\ main = here /\ ack[w] # None
  /\ ack' = Emptied(ack, w)
  /\ command' = IF frameIndex = 0 THEN command ELSE Send(command, w, Message("cc"))
  /\ main' = next
  /\ UNCHANGED <<frameIndex, oddFrame, lastBuffer, skip, video, frame, skips,
                 dmaComplete, workerVars, packageVars, dataVars, dmaVars, displayVars>>

\* Mutant of AwaitLastDma: the flag is cleared here as after the other waits.
AwaitLastDmaCleared ==
  /\ main = "waitLast" /\ dmaComplete
  /\ dmaComplete' = FALSE
  /\ main' = "acquire"
  /\ UNCHANGED <<frameIndex, oddFrame, lastBuffer, skip, video, frame, skips,
                 mailVars, workerVars, packageVars, dataVars, dmaVars, displayVars>>

\* The wait for the Y transfer leaves dma_complete set.
AwaitLastDma ==
  /\ main = "waitLast" /\ dmaComplete
  /\ main' = "acquire"
  /\ UNCHANGED <<frameIndex, oddFrame, lastBuffer, skip, video, frame, skips,
                 dmaComplete, mailVars, workerVars, packageVars, dataVars, dmaVars,
                 displayVars>>

\* Mutant of AwaitBuffer: the busy-wait for a free buffer is gone.
AwaitBufferNever ==
  /\ main = "acquire"
  /\ main' = "convertBottom"
  /\ UNCHANGED <<frameIndex, oddFrame, lastBuffer, skip, video, frame, skips,
                 dmaComplete, mailVars, workerVars, packageVars, dataVars, dmaVars,
                 displayVars>>

AwaitBuffer ==
  /\ main = "acquire" /\ Display!Available
  /\ main' = "convertBottom"
  /\ UNCHANGED <<frameIndex, oddFrame, lastBuffer, skip, video, frame, skips,
                 dmaComplete, mailVars, workerVars, packageVars, dataVars, dmaVars,
                 displayVars>>

\* Mutants of ConvertBottom: the sets of blocks do not change roles, and last_buffer
\* is taken one buffer further.
ConvertBottomSameSet ==
  /\ main = "convertBottom"
  /\ Convert("bottom")
  /\ lastBuffer' = target
  /\ frameIndex' = frameIndex + 1
  /\ main' = "frame"
  /\ UNCHANGED <<oddFrame, skip, video, frame, skips, dmaComplete, mailVars,
                 workerVars, packageVars, dcac, blocks, dmaVars, displayVars>>

ConvertBottomAhead ==
  /\ main = "convertBottom"
  /\ Convert("bottom")
  /\ oddFrame' = 1 - oddFrame
  /\ lastBuffer' = Display!NextBuffer(target)
  /\ frameIndex' = frameIndex + 1
  /\ main' = "frame"
  /\ UNCHANGED <<skip, video, frame, skips, dmaComplete, mailVars, workerVars,
                 packageVars, dcac, blocks, dmaVars, displayVars>>

\* The last rows of the previous frame; the buffer just obtained (current_buffer)
\* becomes last_buffer and the two sets of blocks change roles.
ConvertBottom ==
  /\ main = "convertBottom"
  /\ Convert("bottom")
  /\ oddFrame' = 1 - oddFrame
  /\ lastBuffer' = target
  /\ frameIndex' = frameIndex + 1
  /\ main' = "frame"
  /\ UNCHANGED <<skip, video, frame, skips, dmaComplete, mailVars, workerVars,
                 packageVars, dcac, blocks, dmaVars, displayVars>>

Main ==
  \/ StartVideo \/ NextFrame \/ SkipToEnd \/ LastFrameDone \/ AwaitPlaybackEnd
  \/ RetrieveCcAck2 \/ RetrieveCcAck1 \/ SendLd2 \/ SendLd1 \/ DecodeCr
  \/ AwaitDma("waitCr", "startCr") \/ StartDma("startCr", "Cr", "convertLow")
  \/ ConvertLow
  \/ RetrieveLdAck("ldAck2", 2, "waitCb")
  \/ AwaitDma("waitCb", "startCb") \/ StartDma("startCb", "Cb", "ldAck1")
  \/ RetrieveLdAck("ldAck1", 1, "waitY")
  \/ AwaitDma("waitY", "startY") \/ StartDma("startY", "Y", "waitLast")
  \/ AwaitLastDma \/ AwaitBuffer \/ ConvertBottom

-----------------------------------------------------------------------------
(* The workers                                                             *)

Package(w) == ccPackage[job[w].video]

\* retrieve_poll returns and the handler starts: from here on it writes its plane
\* of coefficients, or its band of the frame buffer.
WorkerReceive(w) ==
  /\ worker[w] = "poll" /\ command[w] # None
  /\ job' = [job EXCEPT ![w] = command[w]]
  /\ command' = Emptied(command, w)
  /\ worker' = [worker EXCEPT ![w] = command[w].command]
  /\ IF command[w].command = "ld"
     THEN /\ dcac' = [dcac EXCEPT ![Plane(w)] = Torn]
          /\ UNCHANGED pixels
     ELSE /\ pixels' = [pixels EXCEPT
                          ![ccPackage[command[w].video].buffer][Band(w)] = Torn]
          /\ UNCHANGED dcac
  /\ UNCHANGED <<mainVars, dmaComplete, ack, slow, packageVars, blocks, dmaVars,
                 displayVars>>

\* handle_lossless_decode ends, its cache flushed.
WorkerDecode(w) ==
  /\ worker[w] = "ld"
  /\ dcac' = [dcac EXCEPT ![Plane(w)] = IF payload = job[w].frame THEN payload ELSE Torn]
  /\ worker' = [worker EXCEPT ![w] = "ack"]
  /\ UNCHANGED <<mainVars, dmaComplete, mailVars, job, slow, packageVars, blocks,
                 pixels, dmaVars, displayVars>>

\* handle_color_convert ends, its cache flushed.
WorkerConvert(w) ==
  /\ worker[w] = "cc"
  /\ pixels' = [pixels EXCEPT ![Package(w).buffer][Band(w)] = FrameIn(Package(w).set)]
  /\ worker' = [worker EXCEPT ![w] = "ack"]
  /\ UNCHANGED <<mainVars, dmaComplete, mailVars, job, slow, packageVars, dcac,
                 blocks, dmaVars, displayVars>>

\* acknowledge sends the command's own message back, and the loop returns to
\* retrieve_poll.
WorkerAck(w) ==
  /\ worker[w] = "ack"
  /\ ack' = Send(ack, w, job[w])
  /\ worker' = [worker EXCEPT ![w] = IF slow THEN "loop" ELSE "poll"]
  /\ UNCHANGED <<mainVars, dmaComplete, command, job, slow, packageVars, dataVars, dmaVars,
                 displayVars>>

WorkerLoop(w) ==
  /\ worker[w] = "loop"
  /\ worker' = [worker EXCEPT ![w] = "poll"]
  /\ UNCHANGED <<mainVars, dmaComplete, mailVars, job, slow, packageVars, dataVars, dmaVars,
                 displayVars>>

\* Outside retrieve_poll the receive interrupt is enabled: rx_isr reads the
\* message out of the mailbox and rx_cb only prints it.
RxInterrupt(w) ==
  /\ worker[w] # "poll" /\ command[w] # None
  /\ command' = Emptied(command, w)
  /\ UNCHANGED <<mainVars, dmaComplete, ack, workerVars, packageVars, dataVars, dmaVars,
                 displayVars>>

Worker(w) ==
  \/ WorkerReceive(w) \/ WorkerDecode(w) \/ WorkerConvert(w) \/ WorkerAck(w)
  \/ WorkerLoop(w)

-----------------------------------------------------------------------------
(* The DMA and the accelerator                                             *)

DmaStart ==
  /\ dma = "idle" /\ readQ # << >> /\ writeQ # << >>
  /\ dma' = "reading"
  /\ blocks' = [blocks EXCEPT ![Head(writeQ).set][Head(writeQ).plane] = Torn]
  /\ UNCHANGED <<mainVars, dmaComplete, mailVars, workerVars, packageVars, dcac,
                 pixels, readQ, writeQ, stream, displayVars>>

\* The read master has fetched the whole plane.
ReadComplete ==
  /\ dma = "reading"
  /\ stream' = dcac[Head(readQ)]
  /\ readQ' = Tail(readQ)
  /\ dma' = "draining"
  /\ UNCHANGED <<mainVars, dmaComplete, mailVars, workerVars, packageVars, dataVars,
                 writeQ, displayVars>>

\* The write master has stored the last block, and the completion interrupts of
\* both dispatchers have been served before the main CPU goes on (IdctDma).
WriteComplete ==
  /\ dma = "draining"
  /\ blocks' = [blocks EXCEPT ![Head(writeQ).set][Head(writeQ).plane] = stream]
  /\ writeQ' = Tail(writeQ)
  /\ dma' = "idle" /\ stream' = Torn
  /\ dmaComplete' = TRUE
  /\ UNCHANGED <<mainVars, mailVars, workerVars, packageVars, dcac, pixels,
                 readQ, displayVars>>

Dma == DmaStart \/ ReadComplete \/ WriteComplete

-----------------------------------------------------------------------------
(* The timer and the buttons                                               *)

TimerIsr ==
  /\ Display!Prime \/ Display!Show \/ Display!Underrun
  /\ UNCHANGED <<mainVars, dmaComplete, mailVars, workerVars, packageVars, dataVars,
                 dmaVars>>

PlayButton ==
  /\ Display!TogglePlay
  /\ UNCHANGED <<mainVars, dmaComplete, mailVars, workerVars, packageVars, dataVars,
                 dmaVars>>

SkipButton ==
  /\ skips < MaxSkips /\ video > 0
  /\ \E b \in Buttons :
       /\ frameIndex >= IF b = "fw" THEN FirstSkip ELSE FirstSkip + RvStep
       /\ skip' = skip \cup {b}
  /\ skips' = skips + 1
  /\ UNCHANGED <<main, frameIndex, oddFrame, lastBuffer, video, frame, dmaComplete,
                 mailVars, workerVars, packageVars, dataVars, dmaVars, displayVars>>

Next ==
  \/ Main \/ Dma \/ TimerIsr \/ PlayButton \/ SkipButton
  \/ \E w \in Workers : Worker(w) \/ RxInterrupt(w)

Spec == Init /\ [][Next]_vars

\* The processors and the DMA keep going and the timer is periodic; the user need
\* not press anything.
FairSpec ==
  /\ Spec
  /\ WF_vars(Main) /\ WF_vars(Dma) /\ WF_vars(TimerIsr)
  /\ \A w \in Workers : WF_vars(Worker(w)) /\ WF_vars(RxInterrupt(w))

-----------------------------------------------------------------------------
(* Properties.                                                             *)

Frames == 0 .. MaxVideos * (NumFrames + 1) + MaxSkips * RvStep
Letters == [command : {"none", "ld", "cc"}, frame : Frames, video : 0 .. MaxVideos]

\* The types; at most one descriptor waits in each FIFO, so that the transfers
\* whose result the decoder only prints are never refused.
TypeOK ==
  /\ frameIndex \in Nat /\ oddFrame \in {0, 1}
  /\ lastBuffer \in Display!Buffers \cup {NoBuffer}
  /\ dmaComplete \in BOOLEAN /\ skip \subseteq {"fw", "rv"}
  /\ video \in 0 .. MaxVideos /\ frame \in Frames /\ skips \in 0 .. MaxSkips
  /\ command \in [Workers -> Letters] /\ ack \in [Workers -> Letters]
  /\ job \in [Workers -> Letters]
  /\ worker \in [Workers -> {"poll", "ld", "cc", "ack", "loop"}] /\ slow \in SlowWorkers
  /\ payload \in Frames
  /\ dcac \in [Planes -> Frames]
  /\ blocks \in [{0, 1} -> [Planes -> Frames]]
  /\ pixels \in [Display!Buffers -> [Bands -> Frames]]
  /\ Len(readQ) <= 1 /\ Len(writeQ) <= 1
  /\ dma \in {"idle", "reading", "draining"}

\* retrieve_poll does not look at the message it returns.  Yet an acknowledgement
\* the main CPU is about to take is that of the command it waits for: of this
\* pass's lossless decode, or of the previous pass's color conversion.
AcksMatch ==
  \A w \in Workers : ack[w] # None =>
    /\ main = (IF w = 1 THEN "ldAck1" ELSE "ldAck2")
         => ack[w] = Message("ld")
    /\ main = (IF w = 1 THEN "ccAck1" ELSE "ccAck2")
         => ack[w] = [Message("cc") EXCEPT !.frame = frame - 2]

\* Whoever is in the middle of a job finds its input whole and unchanged: a
\* decoding worker the bitstream, a converting worker its package and the set of
\* color blocks it names, the read DMA the coefficients.  No mailbox or flag says
\* so directly; the three are reused on every pass.  Only until the loop ends: then
\* the arrays are freed while the workers still convert from them.
InputsStable == main \notin {"over", "idle"} =>
  /\ \A w \in Workers :
       /\ worker[w] = "ld" => payload = job[w].frame
       /\ worker[w] = "cc" => /\ Package(w).frame = job[w].frame
                              /\ FrameIn(Package(w).set) = job[w].frame
  /\ dma = "reading" => dcac[Head(readQ)] = frame

\* The ring is never full when the decoder registers a buffer, although it tests
\* for a free buffer on one pass and registers on the next.
RegisterNeverOverflows == main = "ccAck1" => Display!Available

Whole(b) == \E f \in Frames \ {Torn} : \A d \in Bands : pixels[b][d] = f
FrameShown(b) == pixels[b]["top"]

\* The buffers that someone converts a frame into at this moment.
Drawing ==
  {Package(w).buffer : w \in {x \in Workers : worker[x] = "cc"}} \cup
  (IF main \in {"convertLow", "convertBottom"} /\ frameIndex # 0 THEN {lastBuffer} ELSE {})

\* A buffer is registered before it is drawn.  Yet of the buffers waiting to be displayed
\* only the newest may be unfinished: the others are whole, and hold consecutive frames;
\* and the buffer on the screen is drawn into only if the display has caught up with it.
OnlyNewestUnfinished ==
  /\ \A i \in 1 .. Len(queue) - 1 :
       /\ Whole(queue[i])
       /\ i > 1 => FrameShown(queue[i]) = FrameShown(queue[i - 1]) + 1
  /\ onScreen \in Drawing => queue = << >>

\* No command or acknowledgement meets a full mailbox: the status that the
\* decoder and the workers ignore is never a refusal.
NoMessageRefused ==
  /\ main = "sendLd2" => command[2] = None
  /\ main = "sendLd1" => command[1] = None
  /\ main = "ldAck2" /\ ack[2] # None => command[2] = None
  /\ main = "ldAck1" /\ ack[1] # None => command[1] = None
  /\ \A w \in Workers : worker[w] = "ack" => ack[w] = None

\* The decoder gets to the end of the video; only a pause with a full ring holds
\* it up.  No wait for a mailbox, for the DMA or for a buffer lasts for ever, unless
\* a slow worker has lost a command.
DecodeFinishes ==
  [](main = "frame" /\ ~slow => <>(main = "over" \/ (~playing /\ ~Display!Available)))

\* What main_decoder_app.c says of the flush before each video: later videos too
\* start with whole coefficients going into the accelerator.
CoefficientsReady == dma = "reading" => dcac[Head(readQ)] = frame

\* What main_decoder_app.c says of the main CPU: it owns the playback controls.  A
\* skip is served and decoding goes on, or it ends the video.
SkipIsServed ==
  [](skip # {} => <>(main \in {"acquire", "over", "idle"}))
=============================================================================
