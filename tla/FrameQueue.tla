---------------------------- MODULE FrameQueue ----------------------------
(***************************************************************************)
(* What the video display driver promises the decoder: a bounded queue of  *)
(* frame buffers.  The decoder takes the target buffer and registers it    *)
(* (and draws into it then, which is its own affair); registered buffers   *)
(* are put on the screen in the order of their registration, none skipped  *)
(* and none shown twice, as long as playback runs.  Playback starts only   *)
(* once every buffer is taken, and an empty queue stops it.  DisplayRing   *)
(* is the driver that implements this queue with two ring indices and a    *)
(* timer interrupt; DecoderPipeline uses the queue in its place.           *)
(***************************************************************************)
EXTENDS Integers, Sequences

CONSTANT NumBuffers   \* num_frame_buffers, after HW_video_display_init clamped it

VARIABLES
  target,     \* the buffer HW_video_display_get_buffer returns
  queue,      \* registered buffers that have not been on the screen yet
  onScreen,   \* the buffer on the screen
  primed,     \* show_buffers_flag: the queue has been full once
  playing     \* video_play_flag

queueVars == <<target, queue, onScreen, primed, playing>>

Buffers == 0 .. NumBuffers - 1
NextBuffer(b) == (b + 1) % NumBuffers

Init ==
  /\ target = 1 /\ onScreen = 0
  /\ queue = << >>
  /\ primed = FALSE /\ playing = FALSE

\* The target may be taken: it is not the buffer on the screen.
Available == Len(queue) < NumBuffers - 1

Register ==
  /\ Available
  /\ queue' = Append(queue, target)
  /\ target' = NextBuffer(target)
  /\ UNCHANGED <<onScreen, primed, playing>>

\* The first full queue starts the show.
Prime ==
  /\ playing /\ ~primed /\ ~Available
  /\ primed' = TRUE
  /\ UNCHANGED <<target, queue, onScreen, playing>>

Show ==
  /\ playing /\ primed /\ queue # << >>
  /\ onScreen' = Head(queue)
  /\ queue' = Tail(queue)
  /\ UNCHANGED <<target, primed, playing>>

Underrun ==
  /\ playing /\ primed /\ queue = << >>
  /\ playing' = FALSE
  /\ UNCHANGED <<target, queue, onScreen, primed>>

TogglePlay ==
  /\ playing' = ~playing
  /\ UNCHANGED <<target, queue, onScreen, primed>>

Next == Register \/ Prime \/ Show \/ Underrun \/ TogglePlay

Spec == Init /\ [][Next]_queueVars
=============================================================================
