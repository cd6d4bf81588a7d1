---------------------------- MODULE DisplayRing ----------------------------
(***************************************************************************)
(* The display driver (ece423_vid_ctl.c), the two interrupt routines that  *)
(* drive it (timer_isr and pio_isr of main_decoder_app.c) and the video    *)
(* DMA that scans frames out (a msgDMA read dispatcher with parked         *)
(* descriptors).  The decoder appears through the three calls it makes:    *)
(* wait until HW_video_display_buffer_is_available returns 0, take the     *)
(* buffer, and HW_video_display_register_written_buffer.                   *)
(*                                                                         *)
(* The main CPU and its interrupt routines share written and displayed     *)
(* without a lock; while an interrupt routine runs the decoder does not.   *)
(***************************************************************************)
EXTENDS Integers, Sequences

CONSTANTS
  NumBuffers,   \* num_frame_buffers
  MaxFrames,    \* bound: frames the decoder registers
  MaxPresses    \* bound: presses of the play/pause button

ASSUME RingAssumption ==
  /\ NumBuffers \in Nat /\ NumBuffers >= 2
  /\ MaxFrames \in Nat
  /\ MaxPresses \in Nat

VARIABLES
  written,      \* buffer_being_written
  displayed,    \* buffer_being_displayed
  fifo,         \* descriptors in the video DMA's read FIFO, named by buffer
  scan,         \* the buffer the read master is scanning out
  isr,          \* "idle", or "wait" inside the loop of switch_frames
  showBuffers,  \* show_buffers_flag
  playFlag,     \* video_play_flag
  decoder,      \* "acquire": polls for a buffer; "hold": has taken written, which it
                \* registers on its next pass and draws into after that
  slot,         \* history: the number of the frame registered in each buffer
  registered,   \* history: frames registered so far
  presses       \* history: presses of the button so far

vars == <<written, displayed, fifo, scan, isr, showBuffers, playFlag, decoder,
          slot, registered, presses>>

ringVars == <<written, displayed>>
historyVars == <<slot, registered, presses>>

Buffers == 0 .. NumBuffers - 1

Succ(b) == (b + 1) % NumBuffers

Init ==
  /\ displayed = 0 /\ written = 1
  /\ fifo = <<0>> /\ scan = 0
  /\ isr = "idle"
  /\ showBuffers = FALSE /\ playFlag = FALSE
  /\ decoder = "acquire"
  /\ slot = [b \in Buffers |-> 0]
  /\ registered = 0 /\ presses = 0

-----------------------------------------------------------------------------
(* The decoder, on the main CPU outside the interrupt routines.            *)

IsAvailable == displayed # written

\* Mutant of AcquireBuffer: the buffer is taken without the busy-wait.
AcquireBufferAtOnce ==
  /\ isr = "idle"
  /\ decoder = "acquire"
  /\ decoder' = "hold"
  /\ UNCHANGED <<ringVars, fifo, scan, isr, showBuffers, playFlag, historyVars>>

\* The decoder's busy-wait ends and it takes the buffer being written.
AcquireBuffer ==
  /\ isr = "idle"
  /\ decoder = "acquire" /\ IsAvailable
  /\ decoder' = "hold"
  /\ UNCHANGED <<ringVars, fifo, scan, isr, showBuffers, playFlag, historyVars>>

RegisterWrittenBuffer ==
  /\ isr = "idle"
  /\ decoder = "hold" /\ registered < MaxFrames
  /\ written' = Succ(written)
  /\ decoder' = "acquire"
  /\ registered' = registered + 1
  /\ slot' = [slot EXCEPT ![written] = registered + 1]
  /\ UNCHANGED <<displayed, fifo, scan, isr, showBuffers, playFlag, presses>>

\* The first two frames of a video are not registered: the same buffer is
\* taken again.
ReacquireBuffer ==
  /\ isr = "idle"
  /\ decoder = "hold"
  /\ decoder' = "acquire"
  /\ UNCHANGED <<ringVars, fifo, scan, isr, showBuffers, playFlag, historyVars>>

-----------------------------------------------------------------------------
(* The interrupt routines.                                                 *)

\* Mutant of QueueNext: the next buffer is shown whether or not it is registered.
QueueNextUnchecked ==
  /\ fifo' = Append(fifo, Succ(displayed))
  /\ isr' = "wait"
  /\ UNCHANGED playFlag

\* HW_video_display_switch_frames up to its busy-wait: the next buffer's
\* descriptor goes to the video DMA, or there is no next buffer.
QueueNext ==
  /\ Succ(displayed) # written
  /\ fifo' = Append(fifo, Succ(displayed))
  /\ isr' = "wait"
  /\ UNCHANGED playFlag

DropFrame ==
  /\ Succ(displayed) = written
  /\ playFlag' = FALSE
  /\ UNCHANGED <<fifo, isr>>

\* Mutant of TimerIsr: playback starts without waiting for a full ring.
TimerIsrUnprimed ==
  /\ isr = "idle" /\ playFlag
  /\ showBuffers' = TRUE
  /\ QueueNext \/ DropFrame
  /\ UNCHANGED <<ringVars, scan, decoder, historyVars>>

\* A tick that is too early (playback has not started, or the ring has not
\* been full yet) changes nothing and is not an action.
TimerIsr ==
  /\ isr = "idle" /\ playFlag
  /\ showBuffers \/ ~IsAvailable
  /\ showBuffers' = TRUE
  /\ QueueNext \/ DropFrame
  /\ UNCHANGED <<ringVars, scan, decoder, historyVars>>

\* Mutants of SwitchFrames: no wait for the video DMA, and a wait for an empty
\* FIFO, which a parked descriptor never leaves.
SwitchFramesAtOnce ==
  /\ isr = "wait"
  /\ displayed' = Succ(displayed)
  /\ isr' = "idle"
  /\ UNCHANGED <<written, fifo, scan, showBuffers, playFlag, decoder, historyVars>>

SwitchFramesWhenEmpty ==
  /\ isr = "wait" /\ Len(fifo) < 1
  /\ displayed' = Succ(displayed)
  /\ isr' = "idle"
  /\ UNCHANGED <<written, fifo, scan, showBuffers, playFlag, decoder, historyVars>>

\* The busy-wait of switch_frames ends when at most one descriptor is left.
SwitchFrames ==
  /\ isr = "wait" /\ Len(fifo) <= 1
  /\ displayed' = Succ(displayed)
  /\ isr' = "idle"
  /\ UNCHANGED <<written, fifo, scan, showBuffers, playFlag, decoder, historyVars>>

PioIsr ==
  /\ isr = "idle" /\ presses < MaxPresses
  /\ playFlag' = ~playFlag
  /\ presses' = presses + 1
  /\ UNCHANGED <<ringVars, fifo, scan, isr, showBuffers, decoder, slot, registered>>

-----------------------------------------------------------------------------
\* The read master finished a frame and takes the next command: the head of the
\* FIFO, which stays there while it is the only (parked) descriptor.
FrameBoundary ==
  /\ scan' = Head(fifo)
  /\ fifo' = IF Len(fifo) = 1 THEN fifo ELSE Tail(fifo)
  /\ UNCHANGED <<ringVars, isr, showBuffers, playFlag, decoder, historyVars>>

Next ==
  \/ AcquireBuffer \/ RegisterWrittenBuffer \/ ReacquireBuffer
  \/ TimerIsr \/ SwitchFrames \/ PioIsr
  \/ FrameBoundary

Spec == Init /\ [][Next]_vars

\* The timer is periodic, the scan-out never stops and an interrupt routine runs
\* to its end.  Nothing is assumed of the decoder or of the user.
RingFairness == WF_vars(TimerIsr) /\ WF_vars(SwitchFrames) /\ WF_vars(FrameBoundary)

-----------------------------------------------------------------------------
(* Properties.                                                             *)

TypeOK ==
  /\ written \in Buffers /\ displayed \in Buffers /\ scan \in Buffers
  /\ fifo \in Seq(Buffers) /\ fifo # << >>
  /\ isr \in {"idle", "wait"}
  /\ showBuffers \in BOOLEAN /\ playFlag \in BOOLEAN
  /\ decoder \in {"acquire", "hold"}
  /\ slot \in [Buffers -> Nat]
  /\ registered \in Nat /\ presses \in Nat

\* However the timer interrupt falls between the decoder's calls, the buffer the
\* decoder took from HW_video_display_get_buffer never becomes the buffer being
\* displayed before it is registered.  The drawing comes only then: what keeps it off
\* the screen is DecoderPipeline's OnlyNewestUnfinished.
HeldNotDisplayed == decoder = "hold" => written # displayed

\* Every switch of timer_isr shows the frame registered right after the one on
\* the screen: none is skipped, repeated or shown before its registration.
ShownInOrder ==
  [][displayed' # displayed => slot[displayed'] = slot[displayed] + 1]_vars

\* When no switch is under way the scan-out is at most one frame behind
\* buffer_being_displayed: what the wait in switch_frames achieves.
ScanAtMostOneBehind == isr = "idle" => displayed \in {scan, Succ(scan)}

\* Once playback has started, a registered frame reaches the screen unless
\* playback stops: no interleaving of the two indices strands a frame.
RegisteredIsShown ==
  \A b \in Buffers :
    (slot[b] > slot[displayed] /\ showBuffers /\ playFlag) ~> (displayed = b \/ ~playFlag)

\* The number of registered buffers not yet displayed, and those buffers in order.
Count ==
  IF written > displayed THEN written - displayed - 1
                         ELSE written - displayed - 1 + NumBuffers
Waiting == [i \in 1 .. Count |-> (displayed + i) % NumBuffers]

\* The two indices and the interrupt routine implement the bounded queue.
Queue == INSTANCE FrameQueue
  WITH target <- written, onScreen <- displayed, queue <- Waiting,
       primed <- showBuffers, playing <- playFlag
QueueImplemented == Queue!Spec

\* What the header comment of HW_video_display_buffer_is_available says, "This Checks
\* If Frame Buf is free to write to": so the video DMA is not reading the buffer that the
\* decoder has been told is free.
HeldNotScanned == decoder = "hold" => scan # written
=============================================================================
