----------------------------- MODULE Playback ------------------------------
(***************************************************************************)
(* The main CPU's loop (main and pio_functionality in main_decoder_app.c)  *)
(* with the frame loop of mjpeg423_decode, over the display ring: keys are *)
(* pressed, videos selected, decoded and played out, one after the other.  *)
(*                                                                         *)
(* Of a pass of the frame loop the module keeps what steers it: the skips, *)
(* the mailboxes between the main CPU and its two workers, and the display *)
(* buffers.  What a message says is left out, since retrieve_poll does not *)
(* look at it; what the CPUs compute is DecoderPipeline's.                 *)
(***************************************************************************)
EXTENDS DisplayRing

CONSTANTS
  Lengths,     \* num_frames of the videos
  KeyDistance, \* every so many frames there is an I frame
  Reach,       \* 120: how near to the end a skip ends the video, how far one goes back
  Step,        \* 110: how far a skip goes forward
  MaxKeys      \* bound: presses of keys other than play/pause

ASSUME PlaybackAssumption ==
  /\ Lengths \subseteq Nat \ {0} /\ KeyDistance \in Nat \ {0}
  /\ Reach \in Nat /\ Step \in 1 .. Reach /\ MaxKeys \in Nat

Workers == {1, 2}

VARIABLES
  main,       \* what the main CPU does next
  push,       \* push_button_flag
  forward,    \* skip_fw_flag
  back,       \* skip_rv_flag
  file,       \* "opened"; "read" from its beginning on; "lost": read from elsewhere
  length,     \* num_frames
  frame,      \* frame_index
  busy,       \* the workers with a command that is not acknowledged
  sent,       \* those with another one in the mailbox
  answered,   \* the workers whose acknowledgement mailbox is full
  keys,       \* history: presses of those keys
  rushed,     \* history: a skip has been served that led out of the first two frames
  undisturbed \* history: playback went on from the end of decoding to its own end

mailVars == <<busy, sent, answered>>
loopVars == <<main, push, forward, back, file, length, frame>>
pastVars == <<keys, rushed, undisturbed>>
allVars == <<vars, loopVars, mailVars, pastVars>>

Keys == {"next", "forward", "back", "several"}

PlaybackInit ==
  /\ Init
  /\ main = "loop" /\ push = "none" /\ forward = FALSE /\ back = FALSE
  /\ file = "lost" /\ length = 0 /\ frame = 0
  /\ busy = {} /\ sent = {} /\ answered = {}
  /\ keys = 0 /\ rushed = FALSE /\ undisturbed = FALSE

-----------------------------------------------------------------------------
(* The loop in main.  An interrupt routine that has begun runs to its end  *)
(* first.                                                                  *)

Loop ==
  /\ isr = "idle" /\ main = "loop"
  /\ main' = IF push = "next" THEN "browse" ELSE "play"
  /\ UNCHANGED <<vars, push, forward, back, file, length, frame, mailVars, pastVars>>

\* Another video is selected and opened.  The flag is cleared when that is done.
Browse ==
  /\ isr = "idle" /\ main = "browse"
  /\ main' = "play" /\ push' = "none" /\ file' = "opened"
  /\ UNCHANGED <<vars, forward, back, length, frame, mailVars, pastVars>>

\* The number of frames comes from the file, if it is at its beginning: nothing opens or
\* rewinds it for a second time, and what is read in place of the header may be anything.
\* Skips asked for before, and the mailboxes, are as the last video left them.
Play ==
  /\ isr = "idle" /\ main = "play"
  /\ IF playFlag
     THEN /\ main' = "pass" /\ frame' = 0
          /\ file' = IF file = "opened" THEN "read" ELSE "lost"
          /\ length' \in IF file = "opened" THEN Lengths ELSE Lengths \cup {0}
     ELSE main' = "loop" /\ UNCHANGED <<file, length, frame>>
  /\ UNCHANGED <<vars, push, forward, back, mailVars, pastVars>>

\* Mutants of Drain: playback is not awaited; the last key is forgotten.
DrainAtOnce ==
  /\ isr = "idle" /\ main = "drain"
  /\ main' = "loop"
  /\ UNCHANGED <<vars, push, forward, back, file, length, frame, mailVars, pastVars>>
DrainForgets ==
  /\ isr = "idle" /\ main = "drain" /\ ~playFlag
  /\ main' = "loop" /\ push' = "none"
  /\ UNCHANGED <<vars, forward, back, file, length, frame, mailVars, pastVars>>

Drain ==
  /\ isr = "idle" /\ main = "drain" /\ ~playFlag
  /\ main' = "loop"
  /\ UNCHANGED <<vars, push, forward, back, file, length, frame, mailVars, pastVars>>

-----------------------------------------------------------------------------
(* mjpeg423_decode                                                         *)

\* The first I frame from i on, or i if there is none.
KeyFrame(i) ==
  LET later == {k \in i .. length - 1 : k % KeyDistance = 0}
  IN  IF later = {} THEN i ELSE CHOOSE k \in later : \A j \in later : k <= j

\* Where a search of the trailer from frame i on ends.  What is read in place of the
\* trailer may lead behind the end, for which length stands.
Found(i) == IF file = "read" THEN {KeyFrame(i)} ELSE i .. length

Forward == IF forward THEN Found(frame + Step) ELSE {frame}
Back(i) == IF back THEN Found(IF i > Reach THEN i - Reach ELSE 0) ELSE {i}
Targets == UNION {Back(i) : i \in Forward}

Return == main' = "drain" /\ undisturbed' = playFlag /\ UNCHANGED <<frame, rushed>>

Decode(i) ==
  /\ frame' = i /\ main' = "retrieve"
  /\ rushed' = (rushed \/ (frame < 2 /\ i >= 2))
  /\ UNCHANGED undisturbed

\* Mutants of Pass: a skip may lead behind the end; a skip is served again and again.
PassUnchecked ==
  /\ isr = "idle" /\ main = "pass"
  /\ forward' = FALSE
  /\ IF frame = length THEN Return /\ UNCHANGED back
     ELSE back' = FALSE /\ \E i \in Targets : Decode(i)
  /\ UNCHANGED <<vars, push, file, length, mailVars, keys>>
PassUncleared ==
  /\ isr = "idle" /\ main = "pass"
  /\ IF frame >= length THEN Return /\ UNCHANGED <<forward, back>>
     ELSE /\ forward' = FALSE /\ UNCHANGED back
          /\ IF forward /\ frame + Reach >= length
             THEN Return
             ELSE \E i \in Targets : Decode(i)
  /\ UNCHANGED <<vars, push, file, length, mailVars, keys>>

\* The head of the frame loop and the skips, up to the reading of the frame.
Pass ==
  /\ isr = "idle" /\ main = "pass"
  /\ IF frame >= length THEN Return /\ UNCHANGED <<forward, back>>
     ELSE /\ forward' = FALSE
          /\ IF forward /\ frame + Reach >= length
             THEN Return /\ UNCHANGED back
             ELSE back' = FALSE /\ \E i \in Targets : Decode(i)
  /\ UNCHANGED <<vars, push, file, length, mailVars, keys>>

\* altera_avalon_mailbox_retrieve_poll: main waits here for worker w and takes what there
\* is in its mailbox.
Retrieve(w) == isr = "idle" /\ w \in answered /\ answered' = answered \ {w}

\* altera_avalon_mailbox_send, its status ignored.  A worker that polls takes the command
\* up.  A second one is refused if the first is still in the mailbox; rx_isr reads it away
\* while the worker is at work; or the worker finds it when it is done.
Send(ws) ==
  /\ busy' = busy \cup ws
  /\ \E kept \in SUBSET (ws \cap busy) : sent' = sent \cup kept

\* From the third frame on the last one has been converted and is registered.  Then both
\* workers are sent their plane.
RetrieveConverted2 ==
  /\ main = "retrieve" /\ frame >= 2 /\ Retrieve(2)
  /\ main' = "register"
  /\ UNCHANGED <<vars, push, forward, back, file, length, frame, busy, sent, pastVars>>

RetrieveConverted1 ==
  /\ main = "register" /\ Retrieve(1)
  /\ RegisterWrittenBuffer
  /\ Send(Workers) /\ main' = "decoded2"
  /\ UNCHANGED <<push, forward, back, file, length, frame, pastVars>>

\* The buffer of the pass before, or of the video before, is taken again.
RetrieveNone ==
  /\ isr = "idle" /\ main = "retrieve" /\ frame < 2
  /\ ReacquireBuffer \/ (decoder = "acquire" /\ UNCHANGED vars)
  /\ Send(Workers) /\ main' = "decoded2"
  /\ UNCHANGED <<push, forward, back, file, length, frame, answered, pastVars>>

\* Mutant of RetrieveDecoded: the conversions begin one frame late.
RetrieveDecodedLate(w) ==
  /\ main = (IF w = 2 THEN "decoded2" ELSE "decoded1") /\ Retrieve(w)
  /\ Send(IF frame <= 1 THEN {} ELSE {w})
  /\ main' = IF w = 2 THEN "decoded1" ELSE "acquire"
  /\ UNCHANGED <<vars, push, forward, back, file, length, frame, pastVars>>

\* A plane has been decoded.  From the second frame on the worker converts the last one.
RetrieveDecoded(w) ==
  /\ main = (IF w = 2 THEN "decoded2" ELSE "decoded1") /\ Retrieve(w)
  /\ Send(IF frame = 0 THEN {} ELSE {w})
  /\ main' = IF w = 2 THEN "decoded1" ELSE "acquire"
  /\ UNCHANGED <<vars, push, forward, back, file, length, frame, pastVars>>

\* The rest of the pass.
Acquire ==
  /\ main = "acquire" /\ AcquireBuffer
  /\ main' = "pass" /\ frame' = frame + 1
  /\ UNCHANGED <<push, forward, back, file, length, mailVars, pastVars>>

-----------------------------------------------------------------------------
(* The workers                                                             *)

\* The command has been carried out; acknowledge ignores that its mailbox may be full, and
\* the worker is back in retrieve_poll before another command comes.
Acknowledge(w) ==
  /\ w \in busy /\ answered' = answered \cup {w}
  /\ IF w \in sent THEN sent' = sent \ {w} /\ UNCHANGED busy
                   ELSE busy' = busy \ {w} /\ UNCHANGED sent
  /\ UNCHANGED <<vars, loopVars, pastVars>>

-----------------------------------------------------------------------------
(* The interrupt routines and the video DMA                                *)

PressPlay ==
  /\ PioIsr /\ push' = "play" /\ undisturbed' = FALSE
  /\ UNCHANGED <<main, forward, back, file, length, frame, mailVars, keys, rushed>>

\* pio_isr for another key, or for several at once, which it takes for none of them.
Press(k) ==
  /\ isr = "idle" /\ keys < MaxKeys
  /\ keys' = keys + 1 /\ push' = k
  /\ forward' = (forward \/ k = "forward") /\ back' = (back \/ k = "back")
  /\ UNCHANGED <<vars, main, file, length, frame, mailVars, rushed, undisturbed>>

Display ==
  /\ TimerIsr \/ SwitchFrames \/ FrameBoundary
  /\ UNCHANGED <<loopVars, mailVars, pastVars>>

Main ==
  \/ Loop \/ Browse \/ Play \/ Drain
  \/ Pass \/ RetrieveConverted2 \/ RetrieveConverted1 \/ RetrieveNone
  \/ (\E w \in Workers : RetrieveDecoded(w)) \/ Acquire

PlaybackNext ==
  \/ Main \/ (\E w \in Workers : Acknowledge(w))
  \/ PressPlay \/ (\E k \in Keys : Press(k)) \/ Display

PlaybackSpec == PlaybackInit /\ [][PlaybackNext]_allVars

\* What the main CPU waits for is the ring and the workers, which answer the commands they
\* get.  The user need not do anything.
FairSpec ==
  /\ PlaybackSpec
  /\ WF_allVars(Main) /\ WF_allVars(\E w \in Workers : Acknowledge(w)) /\ RingFairness

-----------------------------------------------------------------------------
(* Properties.                                                             *)

Passing == {"retrieve", "register", "decoded2", "decoded1", "acquire"}

\* The types; a skip leaves the frame within a video whose header was read, and MaxFrames
\* never holds the decoder up.
PlaybackTypeOK ==
  /\ TypeOK
  /\ main \in {"loop", "browse", "play", "drain", "pass"} \cup Passing
  /\ push \in Keys \cup {"none", "play"} /\ {forward, back} \subseteq BOOLEAN
  /\ file \in {"opened", "read", "lost"}
  /\ length \in Lengths \cup {0} /\ frame \in 0 .. length + 1
  /\ file = "read" => frame <= length
  /\ {busy, sent, answered} \subseteq SUBSET Workers
  /\ keys \in 0 .. MaxKeys /\ {rushed, undisturbed} \subseteq BOOLEAN
  /\ registered < MaxFrames

\* A video whose playback went on undisturbed is on the screen to its last registered
\* frame when main turns to the next one: the wait for video_play_flag in main and the
\* underrun in timer_isr fit together.
PlayedOut == main \in {"loop", "browse", "play"} /\ undisturbed => Count = 0

\* The workers whose acknowledgement the main CPU is going to take next.
Awaited ==
  CASE main = "retrieve" /\ frame >= 2 -> Workers
    [] main = "register"               -> {1}
    [] main = "decoded2"               -> Workers
    [] main = "decoded1"               -> {1}
    [] OTHER                           -> {}

\* Whoever is waited for has a command or has answered, although acknowledgements of one
\* video or skip are left for the next, commands and acknowledgements meet full mailboxes
\* and get lost: a message is lost only where there is one too many.  The exception is a
\* skip out of the first two frames, which leads to conversions nobody was asked for.
AwaitedComes == ~rushed => Awaited \subseteq busy \cup answered

\* Where the main CPU can come to a stop: the ring is full and playback paused; after such
\* a skip an acknowledgement is waited for that nobody sends; a video too short to fill the
\* ring has been decoded, whose playback never starts, so that it never ends.
Stopped ==
  \/ main = "acquire" /\ ~IsAvailable /\ ~playFlag
  \/ rushed /\ ~(Awaited \subseteq busy \cup answered)
  \/ main = "drain" /\ playFlag /\ ~showBuffers

\* Every video comes to its end and main back to its loop, with skips in both directions
\* and pauses at any time -- unless the main CPU stops where it is and nobody presses
\* play/pause again.
VideoEnds == main \in {"pass"} \cup Passing ~> main = "loop" \/ []Stopped

\* A press of the key for the next video, during a video for example, is not forgotten
\* unless another key is pressed before main has seen it, main is just selecting a video,
\* or the main CPU stops.
NextServed ==
  push = "next" ~> main = "browse" \/ push \in {"play", "forward", "back", "several"}
                   \/ []Stopped
=============================================================================
