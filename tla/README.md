# Verification of the FPGA video decoder

TLA+ models of the software in `src/Software` (three Nios II CPUs) and of the
hardware it hands work to, with TLC runs and TLAPS proofs. A `.mpg` file on an
SD card is decoded frame by frame: the main CPU reads it and decodes one plane,
two worker CPUs decode the other two, an accelerator in the FPGA does the
inverse DCT between a read and a write DMA, all three CPUs convert colors, and
a video DMA sends the frame buffers to the screen.

    cd tla
    tlc -config Pipeline.cfg DecoderPipeline     # a run, see the table below
    tlc -config SdCard.cfg MCSdCard
    tlapm PlaybackProofs.tla                     # a proof module

Every definition names the code it models in `PROJECT.json` (`map`). Operators
called `<Definition><Something>` with a comment that begins "Mutant of" are
plausible bugs; nothing uses them in the specifications. They record, for every
property, one change of the code that would break it.

## 1. Inventory

| Component | Code | State | Operations | Talks to |
|---|---|---|---|---|
| Decode loop, main CPU | `HW_00/decoder/mjpeg423_decoder.c` | `frame_index`, `odd_frame`, `last_buffer`, `dma_complete`, skip flags, block arrays | `mjpeg423_decode`, `write_dma_isr` | workers (mailboxes, shared memory), DMA (descriptors, IRQ), display driver (calls), file system |
| Display driver | `HW_00/ece423_vid_ctl/ece423_vid_ctl.c` | ring of buffers, `buffer_being_written`, `buffer_being_displayed` | `buffer_is_available`, `get_written_buffer`, `register_written_buffer`, `switch_frames` | decode loop (calls), `timer_isr` (interrupt), video DMA (descriptors) |
| Main application | `HW_00/main_decoder_app.c` | `video_play_flag`, `show_buffers_flag`, skip flags, current file | `main`, `timer_isr`, `pio_isr` | all of the above |
| Workers | `HW_01/worker_cpu_1.c`, `HW_02/worker_cpu_2.c` | the command at hand | lossless decode, color conversion, acknowledge, `rx_cb` | main CPU (mailboxes, shared memory) |
| Mailbox | `drivers/src/altera_avalon_mailbox_simple.c`, `altera_avalon_mailbox.v` | command, pointer, status and mask registers | `open`, `send`, `retrieve_poll`, `rx_isr` | two CPUs |
| msgDMA | `drivers/src/altera_msgdma.c`, `csr_block.v`, `descriptor_buffers.v`, `dispatcher.v` | descriptor FIFO, control and status registers | `async_transfer`, `alt_msgdma_irq`, parking | CPU (registers, IRQ), accelerator (streams) |
| Lossless decoder | `HW_00/decoder/lossless_decode.c` | `bitbuffer`, `bitstream`, `bitcount`, zig-zag index | `lossless_decode`, `update_buffer`, `input_DC`, `input_AC` | its caller |
| Color conversion | `handle_color_convert` of both workers, `mjpeg423_decode` | row ranges | three loops over block rows | frame buffer |
| FAT file system | `HW_00/ece423_sd/FatFileSystem.c`, `FatInternal.c` | mounted volume, one cached sector, directory index of a browse handle, the one open file (position, cluster) | `Fat_Mount`, `Fat_FileBrowseBegin/Next`, `Fat_FileOpen`, `Fat_FileRead`, `Fat_FileSeek` | main and decode loop (calls), SD driver |
| SD driver | `HW_00/ece423_sd/mmc.c`, `ocsdc.c`, `sd_lib.c` | `struct mmc` (version, capacity, bus width, clock, `has_init`), retry counters | `SDLIB_Init`, `mmc_bread`, `ocsdc_send_cmd` with its two polling loops | SD controller (registers), file system |
| SD controller | `ip/sd_cont/*.v` | command and data state machines, status registers, address and count registers, FIFO | commands, transfers of blocks to memory | SD driver (registers), the card, memory |
| IDCT accelerator | `IDCT/twod_idct_st_hw.vhd` | double buffer of a block, stream handshake | one process on the clock: words in, rows, columns, words out | read and write DMA |

What makes it hard:

- **Interleaving.** Three CPUs, four interrupt routines and three DMA engines
  share memory without a lock. Their only synchronization is one flag
  (`dma_complete`), two ring indices and one-place mailboxes.
- **Ordering.** The loop is software-pipelined: pass *n* decodes frame *n*,
  transforms it, and converts and draws frame *n*-1; the buffer for frame *n*-1
  is registered on pass *n*+1. Guards on `frame_index` (0, 1, 2 and later)
  decide which acknowledgements are due.
- **Lost messages and interrupts.** Statuses of `send` and of `async_transfer`
  are ignored or only printed; `retrieve_poll` and `async_transfer` mask
  interrupts; the worker's receive interrupt competes with its poll.
- **Failure.** The card may not get a command, may not answer, may send a wrong
  checksum or a block too late. The driver retries some commands, ignores some
  failures and repeats the whole initialization; a failed read leaves hardware and
  file position where they are, and the decoder goes on.
- **Limits.** The ring, the FIFO and the mailbox can be full; the bit buffer
  refills by whole bytes; row ranges come from three integer divisions.
- **Liveness.** The loop has seven unbounded waits per frame.

What makes each part correct:

- Display ring: the buffer that the decoder takes is never the one on display, and
  what it draws into later is on display only if the display has caught up; frames are
  shown once, in order; a full ring is not taken for an empty one; a registered
  frame is shown.
- Mailbox: a message arrives whole, once, or is reported as refused.
- Decode loop and workers: each acknowledgement taken is the one meant; no input
  changes under its reader; nothing queued for display is drawn into, except
  what the design registers early; the video ends.
- DMA hand-off: the end of a wait means the data is there, and every wait ends.
- Lossless decoder: no bit of the stream is lost, repeated or mixed.
- Row ranges: they cover a frame and do not overlap.
- File: a read returns the file's bytes from the position on, whatever failed
  before the last seek; every call returns.
- Accelerator: every word of a block enters and leaves once and in order; blocks
  overlap without touching each other's buffers; no block stays inside.
- Browsing: the next video around the directory is selected, what is selected is
  what is opened and decoded, and every search ends.
- Playback: a video that nobody disturbs is shown to its end before main turns to
  the next one, main comes back to its loop, and a request for the next video is
  not forgotten.
- SD driver and controller: an answer and a transfer are those of the command they
  are taken for; nothing is stored outside the caller's buffer; a card reported as
  found agrees with the host on address, width and speed; a read returns the blocks
  asked for; every retry ends.

`PROJECT.json` lists under `hazards` where each of these can go wrong.

## 2. Modules

    FrameQueue     what the display promises           MessageChannel   what a mailbox promises
       ^  implemented by                                  ^  implemented by
    DisplayRing    the driver, timer_isr, pio_isr      Mailbox          device and driver
       ^  extended by
    Playback       main's loop and the frame loop's skips and waits, over the ring

    DecoderPipeline   main CPU, workers, DMA, accelerator, timer, buttons; display by FrameQueue
       IdctDma        its DMA hand-off in detail
       IdctStream     its accelerator in detail
       WorkerJobs     what a worker computes for a command:
         LosslessBits   the bit reader
         RowSplit       the rows of the color conversion

    FatFile        the open file                       SdHost   ocsdc.c and the SD controller
       ^  extended by                                     ^  extended by
    FatVolume      mounting, searching, browsing,      SdCard   mmc.c, and the card
                   opening, then reading

`MCFatVolume` and `MCSdCard` give those modules' structured constants to TLC.

**FrameQueue** is the abstract display: a queue of at most `NumBuffers - 1`
frames and the frame on screen. `target` is the buffer the decoder takes, and registers.
Playback begins (`primed`) only when the ring is full; after that every tick
shows the head of the queue, and a tick on an empty queue stops playback.

**DisplayRing** is the driver. `written` and `displayed` are its two indices,
`fifo` the descriptors it has handed to the video DMA, and `scan` the buffer
the read master reads. `IsAvailable`, `AcquireBuffer`, `RegisterWrittenBuffer`
and `ReacquireBuffer` are the decoder's calls (a buffer is taken on one pass,
`decoder = "hold"`, registered on the next, and drawn into after that); `TimerIsr` and the two halves of
`HW_video_display_switch_frames` (`QueueNext`, which hands over a descriptor,
and `SwitchFrames`, after the busy-wait for the FIFO to drain) are the interrupt,
during which the decoder does not run; `FrameBoundary` is the dispatcher taking
the next descriptor, or parking on the last, at the end of a scan.

**Playback** extends DisplayRing by the main CPU that uses it. `main` is its
program counter: the loop in `main` (`Loop`, `Browse`, `Play`, `Drain`) and a pass of
the frame loop: `Pass` with both skips, the waits for the color conversions
(`RetrieveConverted2`, `RetrieveConverted1`, or `RetrieveNone` on the first two frames),
which end with the commands to decode, those for the decoding (`RetrieveDecoded`), which
end with the commands to convert, and `Acquire`. Mailboxes hold one message: a worker is
`busy` with a command, has one more in its mailbox (`sent`), has `answered`; a command
that finds the mailbox full, or that the worker's `rx_isr` reads away, and an
acknowledgement (`Acknowledge`) that finds its mailbox full are lost, and nobody looks at
the status. So two acknowledgements that a video leaves behind are not there for ever:
those of the next video's commands are refused while they lie in the mailboxes. What a
message says is left out, for the main CPU does not look at it; DecoderPipeline has that.
`file` says where the header comes from: a video played for a second time is not opened
again, so that header and trailer are read from wherever the file is, and
`num_frames` and the frames a skip finds may be anything. `push` is `push_button_flag`,
which the last key overwrites. `undisturbed` records that nobody paused playback since
decoding ended, `rushed` that a skip has led out of the first two frames. What is displayed
and by whom is DisplayRing's, whose actions Playback's actions contain.

**MessageChannel** is a one-place channel; `lossy` if the receiver's interrupt
reads it too. **Mailbox** has one action per register access: the pointer and
command words, the full bit set by the write and cleared by the read of the
command word, the interrupt mask that `retrieve_poll` saves, clears and restores,
and `rx_isr`. `rxIsr` is FALSE for the main CPU's mailboxes and TRUE for the
workers'.

**DecoderPipeline** puts the main CPU, both workers, the DMA, the accelerator,
the timer and the buttons together. Data is the number of the frame it belongs
to, or `Torn` while it is being written. `main` is the program counter of
`mjpeg423_decode`, with one action per stretch of code between two points at
which it meets another actor. Mailboxes are one-place, the display is
`FrameQueue` by INSTANCE. `payload` and `ccPackage` are the shared bitstream and
conversion packages, `dcac` the coefficients, `blocks` the two sets of color
blocks, `pixels` the four bands of every frame buffer.

**IdctDma** details `AwaitDma`, `StartDma`, `ReadComplete` and `WriteComplete`
of the pipeline: two dispatchers, each with FIFO, stop bit, interrupt mask and
pending interrupt; the routine that both share; and
`alt_msgdma_descriptor_async_transfer` step by step.

**IdctStream** details the accelerator, which is a pipe in the pipeline and in IdctDma.
`Clock` is one rising edge: the conjuncts compute the registers' next values from
the old ones, as the VHDL process does, in groups of assignments to the same registers.
Words are numbered in the order the source sends them, rows and columns likewise; a row
assembled from the wrong words, or output taken from `idct_1D` in the wrong cycle, is
`Torn`, and cannot become a word that leaves in order.

**RowSplit** and **LosslessBits** are the two computations whose arithmetic a
test would hardly exhaust. LosslessBits names every bit by its position in the
stream, so that the buffer's content says what was read from where. **WorkerJobs** is the
loop of worker 1 around them: `ReceiveDecode` begins a new plane with new locals,
`ReceiveConvert` the worker's rows of the frame, each runs to `DecodeDone` or
`ConvertDone`, and the next command may be either; meanwhile the other CPUs convert theirs
(`OtherConvert`), and `NextFrame` is the main CPU turning to a frame of this height
or, with another video, of another one.

**FatFile** is an open file: `Seek` is `Fat_FileSeek`, and `Call`, `Walk`,
`WalkEnds`, `First`, `FollowChain`, `Runs` and `Last` are the stretches of
`Fat_FileRead` between two accesses to the card. A byte is named by its address
on the card, so that `buffer` says where each byte was read from. Every access may fail;
`damaged` records that one has since the last seek, or that a call has asked for more than
there is of the file, as the header of a video played again does: `Fat_FileRead` does not
look at the file's size, and reads what the last cluster holds behind it or walks off the
chain. A failed call leaves the file's cluster ahead of its position. The next call without
a seek then starts from a wrapped position, walks off the chain and may even return TRUE
with bytes of another place; the decoder, which only prints the failure, does make such
calls.

**FatVolume** extends FatFile by all that comes before a read. A turn of the loop in
`Fat_FileBrowseNext` reads one directory entry through the cached sector and either
goes on (`Skips`), returns TRUE (`Finds`) or FALSE (`FindsNone`); the same three serve
the search in `main` (`Search`), the browsing in `pio_functionality` (`BrowseNext`,
`BrowseAgain`) and `Fat_FileOpen` (`OpenSkips`, `OpenFinds`, `OpenFails`), which differ
in handle and in what they make of the result. `Decode` lets FatFile's actions run while
main is in `mjpeg423_decode`. `"wild"` is main with an uninitialized or null handle.

**SdHost** is the boundary of software and controller: `Send`, `Finish` and
`DataFinish` are `ocsdc_send_cmd` and its two polling loops, `Reset` the reset that a
change of clock or bus width includes; `Start` is the pulse of a command arriving in
the card's clock domain, `Complete`, `NotBusy` and `BlockArrives` the state machines on
that side. `HostSpec` lets any command be sent and anything arrive, for the proofs.
**SdCard** puts `mmc.c` and a card around it. `step` names the last command sent; an
action that follows it takes its outcome and sends the next. The card has the states of
the standard as far as `mmc.c` relies on them, keeps silent when a command is not for
its state, and has faults: a command not received, an answer lost or damaged, a block
damaged, data that never comes. A card that can run at high speed may be busy when it is
asked (`SwitchBusy` asks again, up to four times), or accept the switch without making it.
`Capacity` is the number of blocks `mmc_bread` believes in: as a 32-bit number of bytes it
has overflown on a card of 4 GiB, whose higher blocks are refused.

The `...Proofs` modules hold the theorems (section 5), one per component;
`WorkerJobsProofs` holds those of both computations, and the second part of
`PipelineProofs` is about what holds while one video is decoded.

## 3. Runs

| Run | Module | Outcome | Shows |
|---|---|---|---|
| Playback | Playback | pass | Three buffers, videos of four frames, replays of an open file, two presses of play/pause, two of the other keys (skips both ways, the next video, several at once) at every position of the interrupts and workers. The buffer taken is not the one displayed, scan-out is at most one buffer behind, frames are shown in order, a registered frame is shown while playback goes on, the ring implements `FrameQueue`; a video left undisturbed is shown to its end (`PlayedOut`), whom main waits for has a command or has answered although messages are lost (`AwaitedComes`), main comes back from every video unless it stops at one of the three places in `Stopped` (`VideoEnds`), and the key for the next video is served (`NextServed`). |
| DisplayRingTear | DisplayRing | violation | `HeldNotScanned`: the video DMA can still be reading the buffer that the decoder is told is free to write to, and takes. It draws into it a pass later, and sleeps for 5 ms first if the ring was full: the run shows the answer to be wrong, not a torn picture. |
| Mailbox | Mailbox | pass | Four messages, with and without the receiver's interrupt: both words of a message match, every posted message is in exactly one place, and the mailbox implements `MessageChannel` (lossy only with the interrupt). |
| MailboxLost | Mailbox | violation | `EveryPostedIsReturned`: with the interrupt a command may never reach the worker's loop. |
| Pipeline | DecoderPipeline | pass | A video on three buffers, with up to two skips forward or back between its third frame and its end, including the skip that ends the video: all safety properties of the loop (of the buffers waiting for display only the newest is unfinished, and the one on screen is drawn into only if the display has caught up with the decoder), and it finishes. With workers slow to return to their mailbox a command can be lost and everything stops, but the safety properties hold all the same: nothing is decoded from or drawn to the wrong place. |
| PipelineSecondVideo | DecoderPipeline | violation | `CoefficientsReady`: two acknowledgements of the first video are still in the mailboxes when the second starts. It takes them for its own and starts the DMA before the workers have decoded. |
| PipelineSkipFirst | DecoderPipeline | violation | `SkipIsServed`: a forward skip taken after the first frame makes the loop wait for acknowledgements nobody sends. |
| IdctDma | IdctDma | pass | Four passes with both timings of the last store. If it falls into the read interrupt's routine, `dma_complete` means that all data is in memory. If it is later, interrupts are lost in masked windows and descriptors refused, and yet no wait hangs. |
| IdctStream | IdctStream | pass | Three blocks, every pattern of gaps of source and sink: what the source hands over is taken in, each word leaves once and in order as long as the sink is ready while a block is in `OUTBUF`, and in every case all blocks leave. |
| FatVolume | MCFatVolume | pass | Three directories (deleted entries, long names, a long name without attributes, a video as the last entry), two rounds of browsing, two reads each of four sizes from three sought positions, beyond the end of the file too, two failing reads of the card anywhere. The video selected is the next one (`SelectedIsNext`), the one selected is decoded (`PlaysSelected`), `Fat_FileRead` returns exactly the file's bytes unless since the last seek a read failed or went beyond the end, never overruns the buffer and always returns; search and browsing end. |
| WorkerJobs | WorkerJobs | pass | Commands in any order, planes of up to 72 bits of DC and AC symbols of all shapes, frames 9 and 13 blocks high: whatever the worker has done before, the buffer is a window on the plane's stream (`BufferIsWindow`), and of each frame no row is converted twice and none is missing (`EachRowOnce`). |
| SdCard | MCSdCard | pass | Cards of three kinds, busy or not when they are to switch and switching or not, larger than 32 bits can say, two initializations, two reads, three faults: answers and data are taken for those of their own command, nothing is stored outside the buffer, a card that was found is usable, what is read is what was asked for, and every call returns, with the exceptions the properties name. |

The violations are disagreements between the code and what its comments or
README say; `findings` quotes the lines. Others are exceptions in properties that
hold, each needed (TLC refutes the property without it):

- `InitMeansUsable`, `ReadIsExact` of SdCard: `mmc.c:827` says "If the command timed
  out", but `sd_send_op_cond` never returns `TIMEOUT`; its failure is ignored and
  `mmc_startup` runs on a card that may not be ready (`opIgnored`).
- `DataIsOwn`, `WritesInside`: a command that reads and fails leaves the data path armed
  with the registers of the next command (`upset`).
- `CallReturns` of SdCard: a card that withholds data hangs `ocsdc_data_finish` (`silent`).
- `SelectionEnds`, for the search of the first video (`SearchEnds`): one failed read of the directory, and `main` searches for ever.
- `SelectionEnds`, for browsing (`BrowseEnds`): videos behind a long name that has neither the archive nor the directory
  attribute are never reached, and if there are no others browsing never ends.
- `SelectedIsNext`: if the video selected is the last entry of the directory, the next
  one is itself, for `Fat_FileBrowseNext` leaves the name of the last entry in place when
  it returns FALSE and `pio_functionality` ignores that result.
- `PlaysSelected`: play before the first selection decodes from an uninitialized handle.
- `VideoEnds`: a video too short to fill the ring is never shown, and main waits for the
  end of its playback until the user presses play/pause.
- `VideoEnds`, `AwaitedComes`: a skip that is served on the first or second frame, such as
  one pressed after the end of the video before, leads to a wait for acknowledgements of
  conversions that nobody asked for. Two that the video before has left do not help: they
  are taken for the wrong ones, or the workers' next ones are refused in their favour.

Four further ones are not runs. Below
nine block rows (videos lower than 72 pixels) the three extra rows of worker 2
overlap the main CPU's ranges or leave the frame: with `Heights = {8}` in
`WorkerJobs.cfg` TLC violates `EachRowOnce`, which is why the proofs in section 5
assume nine rows. And the comment at `lossless_decode.c:64` says the opposite of
`bitcount`: it counts bits still missing from the buffer, as `BufferIsWindow`
states. `2d_idct_st_hw_hw.tcl:79` declares `dst` with `readyLatency 0`: a sink may
be unready in any cycle. But the next word is chosen from earlier values of
`DST_READY`: without `~stalled` in `WordsInOrder` TLC finds a sink that becomes ready
as the first word is shown and gets it twice, and the second word never. The FIFO of
the write DMA hides this as long as it has room. And `README.md:55` says that the main
CPU registers *completed* frame buffers; it registers a buffer one step before it is
converted, which `OnlyNewestUnfinished` limits to the last one registered.

### Bounds

- *Buffers*: 3 instead of 24. The ring's cases (empty, one free, full,
  wrap-around) all occur with three buffers. The proofs cover every number from 2 up.
- *Videos*: in Playback of four frames, more than the ring of three holds, so that a pass
  finds it full and the indices wrap around; a header read from the wrong place may also
  say that there are none. Two presses of play/pause play one video twice or two videos, or
  one with a pause; two of the other keys are two skips, a skip and the next video, and so
  on. With key frames every two frames, `Reach` 3 and `Step` 2, skips lead before, onto and
  behind the second frame and end the video. `MaxFrames` is never reached
  (`PlaybackTypeOK`).
- *Frames*: in Pipeline five frames and up to two skips, forward and back, reach each of the loop's special passes (the first, the
  second, which has no acknowledgement to await, the last), the wrap-around of
  the ring, both values of `odd_frame`, a full ring, and skips before and after
  each other. 120 and 110, the distances of a skip, are scaled to 2 and 1 (3 and 2 in the
  other runs), and skips are asked for only where they lead to the third frame or a later
  one (`FirstSkip`): PipelineSkipFirst shows what happens otherwise. What
  matters is whether the target lies past the trailer's entries and whether the
  skip ends the video, and both happen.
- *Messages*: four calls of `send`, enough for a refusal with one message in the
  mailbox, one on its way and one in the receiver's hands.
- *DMA*: four passes are twelve transfers. A FIFO of 2 instead of 16 makes the
  refusal happen.
- *File*: two bytes a sector, two sectors a cluster and three clusters, whose
  entries lie in two sectors of the FAT, place reads of 1 to 9 bytes in every
  position relative to sectors and clusters. Three entries of the directory share a sector,
  so that browsing crosses sectors, and FAT, directory and data evict each other from the
  cache. `MaxBrowses` is 2, for a second selection after a first video was decoded. Two calls, seeks
  between them and two faults suffice for a failed call or one beyond the end, and one from
  the position it has left, wrapped, or after a seek. `Word = 32` stands for 2^32; a wrapped position is then still larger than the file.
- *Card*: the tries of each retry loop are scaled to one repetition and the
  initialization to two; `MaxPolls` is 2, so that a card may be ready in time, on the last
  try or too late. Two blocks a command instead of 256 and requests of one to three
  blocks give reads of one command and of two, one and several blocks; of the card's seven
  blocks the driver believes in three (`SizeBlocks` 4). Three faults allow
  a failed attempt, a failure in its repetition and one in a read.
- *Blocks*: three pass through the accelerator: one leaves, one is swept and one enters
  at the same time, and buffers are reused.
- *Symbols*: 72 bits are more than two refills of the buffer, with sizes 1, 7
  and 15 and runs up to 14; `bitcount` takes each of its eight values.
- *Rows*: with a height of 9 blocks worker 1 has no row at all, with 13 it has one;
  the ranges abut in both.

`CHECK_DEADLOCK FALSE` is given where the system may stop: when all messages are
sent, passes or rows done, or the user leaves the player paused after a loss.

### Timing

Two interleavings the model could have are ruled out in the runs that pass,
because of what the board does; another run or case admits each.

- *Completion interrupts.* The write DMA stores the last block within some ten
  cycles of the read DMA's completion, and the HAL's interrupt entry alone takes
  more. `alt_irq_handler` serves all pending interrupts before the main program
  goes on, so that the main CPU sees both as one. `WriteComplete` in the pipeline
  is that moment. IdctDma admits the other timing (`late`): `dma_complete` then
  no longer stands for the data, transfers overlap, but every wait still ends,
  because each transfer has two interrupts and one survives.
- *Workers.* After its acknowledgement a worker needs a few instructions to mask
  its receive interrupt again. That it is there before the next command is an assumption:
  in most places the main CPU flushes its data cache between the acknowledgement and the
  command, but worker 2 gets its conversion right after it has acknowledged the decoding
  (the flush at 509 comes before the retrieve at 510, and nothing waits before the send at
  519). `slow` in `Pipeline` drops the assumption. Playback makes it for a worker that has
  acknowledged, not for a command that comes while the worker is at work, which `rx_isr`
  may or may not read away.

- *SD controller.* The write that clears a status has crossed to the controller before
  the driver's next poll reads it, a command is written later than the four clocks
  (`INIT_DELAY`) the command machine takes after a reset, and the block of a transfer is in
  memory before its status is set: in each case the driver runs tens of instructions, or
  the FIFO empties, between. That the *start* of a command may cross only after the driver
  has begun to poll is modelled (`start`), because only the hiding of the status by the
  busy state machine protects against it.

### Fairness

- `WF_vars(Main)`, `WF_vars(Dma)`, `WF_vars(Isr)`, `WF_vars(Worker(w))`: a CPU
  or a DMA engine that can take a step takes one. Each CPU runs one thread,
  each engine one transfer; weak fairness suffices, since a step of theirs stays
  enabled until it is taken or an interrupt, itself fair, has ended.
- `WF_allVars(Main)`, `WF_allVars(\E w \in Workers : Acknowledge(w))` and `RingFairness`
  in Playback: a worker finishes what it has begun; the main CPU takes a step when no
  interrupt routine is running, which is the case again after every tick; the timer, the
  wait in `switch_frames` and the scan-out go on.
- `WF_allVars(Select)`, `WF_allVars(Decode(Read))` in FatVolume: a loop or call under way
  goes on; that the card driver returns at all is assumed there.
- `WF_vars(Cpu)`, `WF_vars(Controller)`, `WF_vars(Card)` in SdCard: the card answers or the
  watchdog ends the command. Data has no watchdog: `SendNothing` is the card's silence, and
  `ReadBlocks`, the caller's wish, is not fair.
- `SF_vars(\E ready : Edge(TRUE, ready))` and `SF_vars(\E valid : Edge(valid, TRUE))` in
  IdctStream: the clock runs, the read master has words again and again while there
  are any, and the write master has room again and again. Strong fairness, because
  the other side decides each cycle what else it does.
- `WF_vars(TimerIsr)`: the timer is periodic (20 per second) and its interrupt
  is not masked for ever.
- Buttons (`PlayButton`, `SkipButton`, `PressPlay`, `Press`, `Browse` of FatVolume) and the calls of `send` in
  Mailbox are not fair: the user need not press anything and the caller need not
  call. `DecodeFinishes` therefore allows a pause with a full ring, and
  `RegisteredIsShown` speaks of playback that goes on.

## 4. What the models leave out

- The values of pixels and coefficients, dequantization, the inverse DCT and the
  conversion to RGB: pure arithmetic without control.
- Data caches. Flushes are no-ops: memory is what was written last. The one
  place where the code relies on luck is `mjpeg423_decoder.c:444`, where the
  flush between decoding the Cr plane and its DMA transfer is commented out.
- Reading the file in the pipeline: a pass gets its frame. What a failing read
  does is modelled in FatFile; what the decoder then makes of an old header is
  not. In FatVolume the card driver is a read that succeeds or fails, which
  SdCard's `ReadIsExact` and `CallReturns` justify.
- File names are what browsing tells apart. Long names that spell a short name, the
  order numbers of a long name's parts, `Fat_FileCount`, `Fat_FileExist` and all that
  writes are not modelled; none of the latter is called.
- The MMC branch of `mmc.c`, which no path reaches, writing to the card, and the bits and
  checksums on its lines.
- Board support package and FPGA IP other than the mailbox, the msgDMA and the SD
  controller. The larger part of `src` is generated by the tool chain (the memory
  calibration `sequencer.c`, interconnect, CPU cores, copies of the HAL and its drivers) or
  test material, and has no logic of this program; hence the small share of all lines that
  `map` covers.
- Set-up of the HDMI transmitter by I2C (`i2c.c`): bit-level I/O before playback, which shares no
  state with the rest.
- Dead code (`idct_hw` and its helpers, the software inverse DCT in `idct.c`, the
  extended descriptors, the transmit interrupt of the mailbox, which no CPU connects, timeouts other than 0).

## 5. Proofs

| Theorem | Module | For |
|---|---|---|
| `RingInductive`, `RingTypes`, `HeldApart`, `InOrder`, `ScanFollows`, `Refinement` | PlaybackProofs | every number of buffers from 2, of frames and of button presses |
| `PlaybackUsesRing`, `PlayerImplementsQueue`, `VideoPlayedOut`, `PlayerTyping`, `NobodyStarves` | PlaybackProofs | the same, of videos, replays, keys and skip distances, and messages lost in any way |
| `Inductive`, `Typing`, `MessageIsWhole`, `NoneUnaccounted`, `ImplementsChannel` | MailboxProofs | every number of messages, with and without the receiver's interrupt |
| `Typing`, `NoOverflow` | PipelineProofs | every number of buffers from 2, of videos and frames, all skips at any time, slow workers |
| `Invariance`, `Acknowledgements`, `Mailboxes`, `Inputs`, `Coefficients`, `Buffers` | PipelineProofs | the same, but one video, and skips from its third frame on |
| `Invariance`, `Typing`, `FlagIsStored`, `NeverRefused` | IdctDmaProofs | every number of passes, every depth of the FIFOs |
| `StreamFlow`, `Accepting`, `StreamInductive`, `WordsKept` | IdctStreamProofs | every number of blocks, all gaps in the source's words |
| `HostInductive`, `AnswersMatch`, `DataMatches`, `StoresInside` | SdCardProofs | every sequence of commands, every card |
| `CardUsesHost`, `DriverKeepsApart`, `CardInductive`, `FoundIsUsable`, `ReadInductive`, `BlocksAsAsked` | SdCardProofs | every size of card and request, bound of a retry, number of faults |
| `FileInductive`, `FatTypes`, `ReadsAreExact` | FatVolumeProofs | every size of sector, cluster and volume, all files, requests and faults |
| `VolumeInductive`, `SelectedIsPlayed`, `SelectionIsNext` | FatVolumeProofs | the same, and all directories, names and button presses |
| `BitsInductive`, `BitsTyping`, `WindowHolds`, `SymbolsBuffered` | WorkerJobsProofs | every length of stream, every set of sizes and run lengths |
| `RowsInductive`, `RowsSplit` | WorkerJobsProofs | every height of at least nine blocks |
| `JobsKeepWindow`, `JobsSplitRows` | WorkerJobsProofs | both, for any sequence of commands, planes and frames |

They rest on the constants' named assumptions only (`...Assumption` in each
module), plus one hypothesis on a bound of the model (`Suffices`, for `PlayerTyping`: `MaxFrames` allows
for as many videos of the longest kind, and a frame more each, as keys can be pressed) and two without which the code
does not do what is claimed:
`TallEnough`, nine block rows, for the rows, and `OneVideo` for the second part of PipelineProofs: one video,
and no skip out of its first two frames. Without the first half of `OneVideo` TLC violates
`CoefficientsReady` (PipelineSecondVideo), without the second the loop waits for
acknowledgements that nobody sends (PipelineSkipFirst). The Pipeline run checks the same
properties under the same hypothesis; the proofs remove its bounds on frames, buffers and
skips.

*Display ring.* That the held buffer is not the one displayed is not inductive
by itself: the switch moves `displayed` a busy-wait after it was allowed to, with
the decoder stopped in between. `IInv` adds `SwitchIsSafe` (while the interrupt
routine waits, the next buffer is a registered one) and, for the order of frames,
`SlotsInOrder`: the buffer on display and the `Count` buffers after it hold the
last `Count + 1` frames registered, in ring order. `FifoFollows` ties the
descriptors to the index: outside the switch the FIFO holds the parked
descriptor of the displayed buffer alone, during the wait the next one behind it
or, once taken, by itself. `Refinement` also needs `SwitchWhilePlaying` (nobody
stops playback during the wait); the tick that finds the ring full for the first
time maps to `Prime`, the other ticks that queue a descriptor and all steps of
the scan-out and of the decoder's polling to stuttering, `SwitchFrames` to
`Show`, and `RegisterWrittenBuffer` to `Register`.

*Player.* Every action of Playback contains one of DisplayRing's or leaves the ring's
variables alone (`RingStep`), so that a behaviour of the player is one of the ring
(`PlaybackUsesRing`) and the ring's theorems carry over. `PlayedOut` needs `Over`: while
main waits for the end of undisturbed playback, `video_play_flag` is cleared only on an
empty ring, and when main has left, nothing is registered and nothing sets the flag but a
key, which ends the claim. That no switch is pending at that moment is
`SwitchWhilePlaying`. The bounds of `PlaybackTypeOK` count what can begin a video or repeat a part
of one (`Served`: the keys pressed but for the skips still to be served): each registers at
most one frame more than the longest video has (`RegisteredInv`), for what is read in place
of a trailer may lead behind the end. `AwaitedComes` is
`AskedInv` where main waits: from the command on a worker has a command or has answered
(`Answering`), until main takes the answer; from the second frame on this holds of the
conversion, too, at the end of a pass, so that the next one may wait for it. It counts no
messages, and so does not mind that any of those in excess are lost. `HeldNotDisplayed` is
about the buffer taken; when it is drawn into it is registered, and what keeps it off the
screen then is proved of the pipeline (`Buffers`).

*Mailbox.* Every message posted is in one place only if no place is written while it is in
use: `SenderInv` says that the sender writes its words into an empty mailbox, `ReceiverInv`
that the receiver reads a full one with the interrupt masked, so that the interrupt routine
cannot empty it in between, and `WordsInv` that the words of the mailbox belong together.
With them `PostCommand` is `Post`, `ReadCommand` is `Take`, `RxInterrupt` is `Lose` of
MessageChannel, and all other steps are stuttering (`ImplementsChannel`).

*Pipeline, always.* `MainTypes`, `CountInv`, `DmaInv`, `MailTypes` and `DataTypes`
(PipelineProofs) are the inductive form of `TypeOK`. What takes work is the bounds:
`CountInv` says how many frames a video can have been through after its skips, and `DmaInv`
that at most one descriptor is with either DMA, because the main CPU waits for
`dma_complete` before every start. `RingInv` says that between `AwaitBuffer` and the
registration of the buffer one place in the ring stays free, although the timer, the user
and further passes come in between; it needs no hypothesis, so that
`RegisterNeverOverflows` holds with a second video, too. It also says which buffer is on
the screen: the one as far behind the last registered as the queue is long.

*Pipeline, one video.* The invariant `IInv` of its second part is a chain, each part of which is
proved from those before it. `FramesInv` ties the three counters of the loop together:
`frame_index` counts the passes of the video exactly until the third, and stays above it
after any skip, so that the guards on `frame_index` in the code (0, 1, 2) ask whether there
is an acknowledgement due, which is what they are for. `MailInv` builds on that: between
the main CPU and a worker there is at most one message, the one that is `Due` at the main
CPU's program counter; it is in the command mailbox, in the worker's hands or in the
acknowledgement mailbox. A second video breaks this at its first message, for the last
video's conversions are acknowledged when nothing is due. The rest follows the data along
these messages: `PackageInv` (the bitstream and the packages are this pass's until the
workers' acknowledgement), `BlocksInv` and `PlanesInv` (the two sets of color blocks and the
coefficients hold this frame's planes from the decoding, or the end of the DMA wait, that
the main CPU has seen) and `PixelsInv` (the queue holds consecutive frames, whole but for the
newest, whose bands are those of the converters that have finished). `AcksMatch` and
`NoMessageRefused` are read off `MailInv`, `CoefficientsReady` and `InputsStable` off
`PlanesInv`, `PackageInv` and `BlocksInv`, `OnlyNewestUnfinished` off `PixelsInv`; that who draws does
so into the last buffer registered, and so not into the one on the screen while anything is
queued, comes from `PackageInv` and `RingInv`.

*DMA hand-off.* `dma_complete` is set by the routines of two dispatchers and cleared by the
main CPU, which masks and clears interrupts while it hands over a descriptor. `Accounted`
counts each descriptor as waiting, at work or done, so that none is refused; `InCall` keeps
a stopped dispatcher stopped until `async_transfer` starts it. Unless completions come late,
`NothingLeft` says that a transfer is started with all before it stored and no interrupt
left that could set the flag, and `FlagFollows` that while it is waited for, the flag stays
clear until the read's routine runs, which does not end before the store.
`WaitMeansStored` is `FlagFollows` at the end of the wait, and `NeverRefused` shows that the
status of `async_transfer`, which the code only prints, cannot be -ENOSPC.

*Accelerator.* `FlowInv` is about the counters alone. A row needs four words to come in and
less than four more cycles to reach TMPBUF (`Delays`), so that while a block comes in at most
one row is on its way (`Filling`), and when it is complete SRC_READY stays down until the
sweep has freed TMPBUF (`Draining`): `ReadyMeansAccepted` is read off. `DataInv` says where
the data is. `Block` and `OutBlock` are the blocks on either side of TMPBUF, of which INBUF,
TMPBUF and OUTBUF hold as many words, rows and columns as the counters say; a row's delay
counts the stage of `idct_1D` it is in (`RowsInv`), and so do `sweep` and `fetch` for the columns,
which share the stages with no row as long as they are inside (`ColumnsInv`). `CountInv` ties
`dma_output_count` to the words taken. `ShowInv` is `WordsInOrder` as a state: `DATAOUT` is
the next word unless the sink has stalled. It is inductive only with its last clause, that
`LAST_DST_READY_STATE` is up when a block is about to leave; a sink unready just before its
first word breaks exactly that.

*SD host.* The invariant of the host (SdCardProofs) has three parts. `CommandPath`: a pulse on its way
finds the state machine idle and the status clear, and a status that shows is that of the
driver's command. `Transfer` describes the data path between arming and the driver's
reading of the status, where `got + left = blocks - 1` and the address register still is
the command's; `DataPath` says when there is such a transfer and when the path is clean,
unless a command that reads has failed. `CardUsesHost` then shows that `mmc.c` with its card
is one of the environments `HostSpec` allows, for which it needs the types of the requests
(`CallTypes`).

*SD card and its driver.* The claims about `mmc.c` need what its card knows. `AnswerInv`
says that only a card that has obeyed a command answers it well; from it `InitInv` collects,
one step of the initialization after the other, what the steps passed so far have established
(the card's address is known, its clock and bus width are those of the driver, its kind
decides the unit of addresses), so that a card reported found is one in the state reading
needs (`FoundIsUsable`). For a read, `RequestInv` ties the registers of each command to what
is left of the request, `StreamInv` says that the block which the card sends next is the one
due, `start0 + got`, and `FilledInv` that the buffer is filled that far (both unless a
command that reads has failed); `BlocksAsAsked` is the state at a return without an error.

*File system.* `ReadIsExact` speaks of a call's end only. `ExactInv` says of every moment of
it that the file's cluster is the one it is taken for and not beyond the position reached, and
that the sector read next is that of the position (`AtSector`); `CacheInv`, that the cached
sector is the one it is taken for, whatever a failed read has left in the buffer.
A call beyond the end of the file counts as `damaged` from its start, and the types of the
position and of what is read hold nevertheless.
`CallInDecode` confines the reads' private steps to calls. For the names,
`NamesInv` says that `bLongFilename` is set exactly behind a part of a long name unless a
read failed there, so that a name found is a short entry's own; `OpenInv`, that the search
of `Fat_FileOpen` has not passed the entry it seeks, and `BrowseInv` what main's handle
has passed: with it the next name shown is the next video's (`SelectionIsNext`) and the file
opened is the one shown (`SelectedIsPlayed`).

*Bit reader.* `BufferIsWindow` is inductive together with the types and
`Position`: `8 * bitstream + bitcount = consumed + 32`. A symbol has at most 23
bits, which with `bitcount <= 7` leaves at most 30 bits due, the range in which
the comparisons of `Bytes` are the division by 8. `SymbolsBuffered` concludes
that no symbol is taken from bits that have not arrived.

*Row ranges.* `Progress` bounds each loop's `row` and says that the converted
rows are exactly those from `FirstRow` to `row - 1`. The rest is `RangesAbut`,
arithmetic on the divisions: `(5h) div 10 + 3 <= (8h) div 10` needs `h >= 9`.

*A worker's commands.* A step of WorkerJobs is one of the bit reader or begins a plane, and
is one of the rows' or begins a frame (`JobStep`). What makes the results hold from one
command to the next is that a plane's beginning establishes the window and a frame's
beginning the rows' invariant in whatever state the last one was left, and that the
computation a command is not for keeps its state (`ReceiveKeepsBits`,
`NextFrameKeepsRows`).

Only model-checked: all liveness (`RegisteredIsShown`, `VideoEnds`, `NextServed`,
`DecodeFinishes`, `WaitsEnd`, `CallReturns`, `SelectionEnds`, `AllLeave`, and
the fairness part of `ChannelImplemented`), which is out of the prover's reach. The types of
the mailbox, the bit reader and the SD host are proved only (`Typing`, `BitsTyping` and
`HostInductive`).

## 6. Plan

1. *Done*: the display ring and its queue, the player over it, the mailbox and its
   channel, the pipeline with skips both ways, the DMA hand-off, row ranges, bit reader,
   accelerator, the file system from mounting to reading, the SD driver with its
   controller and card; the proofs above, those of the pipeline and of the DMA hand-off
   among them.
2. *Modules to add*: FatVolume's reads by SdCard's (a failed read as the retries leave it);
   caches for the Cr plane.
3. *Theorems to add*: all safety properties the runs check are proved; what is left is
   between the levels: that IdctStream is the pipe for which IdctDma takes the accelerator,
   that IdctDma's hand-off is the DMA of DecoderPipeline, and that SdCard's read is the
   access to the card of FatFile.
