------------------------------- MODULE SdCard -------------------------------
(***************************************************************************)
(* mmc.c and sd_lib.c on the SD host, and the card they drive: the         *)
(* initialization that SDLIB_Init runs and fatMountSdcard repeats, and     *)
(* mmc_bread.  step names the last command sent; an action that follows it *)
(* takes its outcome and sends the next.                                   *)
(*                                                                         *)
(* The card is modelled from what mmc.c expects of it: its states, its     *)
(* silence when a command is not for its state, and its faults -- a        *)
(* command it does not get, a response that is lost or has a wrong         *)
(* checksum, a block with a wrong checksum, data that never comes.         *)
(***************************************************************************)
EXTENDS SdHost

CONSTANTS
  BMax,           \* b_max, 256: blocks of one command
  OpTries,        \* timeout of sd_send_op_cond, 1000
  ScrTries,       \* timeout of retry_scr, 3
  SwitchTries,    \* checks of the switch before the last, 3: the loop's timeout is 4
  StatusRetries,  \* retries of mmc_send_status, 5
  InitTries,      \* nMaxTry of fatMountSdcard, 10
  BlockBytes,     \* read_bl_len, 512
  CardBlocks,     \* blocks of the card
  SizeBlocks,     \* 2^32 bytes in blocks: capacity is a 32-bit size_t
  SmallCapacity,  \* what a CSD of version 2 says when it is read as one of version 1
  Requests,       \* the <<block_number, n>> of SDLIB_ReadBlocks
  MaxCalls,       \* bound: calls of SDLIB_ReadBlocks
  MaxPolls,       \* bound: times the card says it is not ready yet
  MaxFaults       \* bound: faults of the card

ASSUME SdAssumption ==
  /\ {BMax, BlockBytes, CardBlocks, SizeBlocks, InitTries} \subseteq Nat \ {0}
  /\ {OpTries, ScrTries, SwitchTries, StatusRetries, SmallCapacity} \subseteq Nat
  /\ Requests \subseteq (0 .. CardBlocks - 1) \X (1 .. CardBlocks)
  /\ {MaxCalls, MaxPolls, MaxFaults} \subseteq Nat

VARIABLES
  \* struct mmc
  version,       \* "none", "SD1" or "SD2"
  highCapacity,  \* high_capacity
  highSpeed,     \* MMC_MODE_HS in card_caps
  rcaKnown,      \* rca is the card's address
  busWidth,      \* bus_width
  fast,          \* clock is that of high speed
  hasInit,       \* has_init
  \* the calls
  step,          \* the command sent last; "off" before and between initializations,
                 \* "reset" when one begins, "ready" between reads
  tries,         \* the counter of the loop that step is in
  csdOk,         \* err of mmc_startup while it polls the status
  start0, todo,  \* start and blkcnt of mmc_bread, of the blocks still to be read
  asked,         \* history: the request
  result,        \* of the last read
  inits, calls,
  opIgnored,     \* history: this initialization went on after sd_send_op_cond failed
  \* the card
  kind,          \* "SD1", "SD2" or "SDHC", which can run at high speed too
  cardState, app, ifCond, cardWidth, cardFast,
  stream,        \* the block it sends next
  reply,         \* its answer to the command; "wait" before it has one
  polls, faults,
  silent         \* history: data has not come

mmcVars == <<version, highCapacity, highSpeed, rcaKnown, busWidth, fast, hasInit>>
callVars == <<step, tries, csdOk, start0, todo, asked, result, inits, calls, opIgnored>>
cardVars == <<kind, cardState, app, ifCond, cardWidth, cardFast, stream, reply, polls,
              faults, silent>>
vars == <<hostVars, mmcVars, callVars, cardVars>>

Register == -2       \* a register the card sends as data
Elsewhere == 1000    \* the address of any destination but the caller's buffer

Init ==
  /\ HostInit(0 .. CardBlocks)
  /\ version = "none" /\ highCapacity = FALSE /\ highSpeed = FALSE /\ rcaKnown = FALSE
  /\ busWidth = 1 /\ fast = FALSE /\ hasInit = FALSE
  /\ step = "off" /\ tries = 0 /\ csdOk = TRUE /\ start0 = 0 /\ todo = 0
  /\ asked = <<0, 0>> /\ result = "none" /\ inits = 0 /\ calls = 0 /\ opIgnored = FALSE
  /\ kind \in {"SD1", "SD2", "SDHC"}
  /\ cardState = "idle" /\ app = FALSE /\ ifCond = FALSE /\ cardWidth = 1
  /\ cardFast = FALSE /\ stream = 0 /\ reply = "wait" /\ polls = 0 /\ faults = 0
  /\ silent = FALSE

-----------------------------------------------------------------------------
(* SDLIB_Init and mmc_init                                                 *)

Done(s) == step = s /\ phase = "idle" /\ outcome = "ok"
Failed(s) == step = s /\ phase = "idle" /\ outcome = "error"

Issue(s, response) ==
  step' = s /\ Send([arg |-> 0, response |-> response, blocks |-> 0, dst |-> 0])
IssueRead(s, arg, n, at) ==
  step' = s /\ Send([arg |-> arg, response |-> "R1", blocks |-> n, dst |-> at])

\* What the stretches of the initialization leave alone.
Keep == UNCHANGED <<busWidth, fast, hasInit, start0, todo, asked, result, inits, calls, cardVars>>

\* Resets by ocsdc_init, mmc_set_bus_width and mmc_set_clock.
Begin ==
  /\ step = "off" /\ ~hasInit /\ inits < InitTries
  /\ Reset
  /\ step' = "reset" /\ inits' = inits + 1 /\ busWidth' = 1 /\ fast' = FALSE
  /\ UNCHANGED <<version, highCapacity, highSpeed, rcaKnown, hasInit, tries, csdOk, start0,
                 todo, asked, result, calls, opIgnored, cardVars>>

GoIdle ==
  /\ step = "reset" /\ Issue("go_idle", "none")
  /\ UNCHANGED <<version, highCapacity, highSpeed, rcaKnown, tries, csdOk, opIgnored>> /\ Keep

SendIfCond ==
  /\ Done("go_idle") /\ Issue("if_cond", "R1")
  /\ UNCHANGED <<version, highCapacity, highSpeed, rcaKnown, tries, csdOk, opIgnored>> /\ Keep

\* The result of mmc_send_if_cond is overwritten; without an answer the version stays.
OpCondBegin ==
  /\ Done("if_cond") \/ Failed("if_cond")
  /\ version' = IF outcome = "ok" THEN "SD2" ELSE version
  /\ tries' = OpTries /\ Issue("app_op", "R1")
  /\ UNCHANGED <<highCapacity, highSpeed, rcaKnown, csdOk, opIgnored>> /\ Keep

OpCond ==
  /\ Done("app_op") /\ Issue("op_cond", "R3")
  /\ UNCHANGED <<version, highCapacity, highSpeed, rcaKnown, tries, csdOk, opIgnored>> /\ Keep

\* The response holds the state of the card.
CardIsReady == cardState = "ready"

OpCondAgain ==
  /\ Done("op_cond") /\ ~CardIsReady /\ tries > 0
  /\ tries' = tries - 1 /\ Issue("app_op", "R1")
  /\ UNCHANGED <<version, highCapacity, highSpeed, rcaKnown, csdOk, opIgnored>> /\ Keep

\* The counter is tested after it: a card that is ready at the last try is unusable.
OpCondDone ==
  /\ Done("op_cond") /\ CardIsReady /\ tries > 0
  /\ version' = IF version = "SD2" THEN version ELSE "SD1"
  /\ highCapacity' = (kind = "SDHC") /\ rcaKnown' = FALSE /\ opIgnored' = FALSE
  /\ Issue("all_cid", "R1")
  /\ UNCHANGED <<highSpeed, tries, csdOk>> /\ Keep

\* Only TIMEOUT would lead to another kind of card, and nothing returns it: mmc_startup
\* goes on with the struct as it is.
OpCondIgnored ==
  /\ Failed("app_op") \/ Failed("op_cond") \/ (Done("op_cond") /\ tries = 0)
  /\ opIgnored' = TRUE /\ Issue("all_cid", "R1")
  /\ UNCHANGED <<version, highCapacity, highSpeed, rcaKnown, tries, csdOk>> /\ Keep

-----------------------------------------------------------------------------
(* mmc_startup                                                             *)

RelativeAddr ==
  /\ Done("all_cid") /\ Issue("rel_addr", "R1")
  /\ UNCHANGED <<version, highCapacity, highSpeed, rcaKnown, tries, csdOk, opIgnored>> /\ Keep

\* An MMC card would take the address it is told; an SD card has chosen its own.
SendCsd ==
  /\ Done("rel_addr") /\ rcaKnown' = (version # "none") /\ Issue("csd", "R1")
  /\ UNCHANGED <<version, highCapacity, highSpeed, tries, csdOk, opIgnored>> /\ Keep

SendStatus ==
  /\ Done("csd") \/ Failed("csd")
  /\ csdOk' = (outcome = "ok") /\ tries' = StatusRetries /\ Issue("status", "R1")
  /\ UNCHANGED <<version, highCapacity, highSpeed, rcaKnown, opIgnored>> /\ Keep

\* Mutant of StatusAgain: the retries are not counted.
StatusAgainUncounted ==
  /\ Failed("status") /\ tries > 0
  /\ Issue("status", "R1")
  /\ UNCHANGED <<version, highCapacity, highSpeed, rcaKnown, tries, csdOk, opIgnored>> /\ Keep

StatusAgain ==
  /\ Failed("status") /\ tries > 0
  /\ tries' = tries - 1 /\ Issue("status", "R1")
  /\ UNCHANGED <<version, highCapacity, highSpeed, rcaKnown, csdOk, opIgnored>> /\ Keep

StatusEnds == Done("status") \/ (Failed("status") /\ tries = 0)

\* The result of mmc_send_status is not used, that of the CSD command is.
Select ==
  /\ StatusEnds /\ csdOk /\ Issue("select", "R1")
  /\ UNCHANGED <<version, highCapacity, highSpeed, rcaKnown, tries, csdOk, opIgnored>> /\ Keep

\* sd_change_freq
AppScr ==
  /\ Done("select") /\ highSpeed' = FALSE /\ Issue("app_scr", "R1")
  /\ UNCHANGED <<version, highCapacity, rcaKnown, tries, csdOk, opIgnored>> /\ Keep

ReadScr ==
  /\ Done("app_scr") /\ tries' = ScrTries /\ IssueRead("scr", 0, 1, Elsewhere)
  /\ UNCHANGED <<version, highCapacity, highSpeed, rcaKnown, csdOk, opIgnored>> /\ Keep

\* retry_scr: without the APP_CMD that makes the card read the command as ACMD51.
ReadScrAgain ==
  /\ Failed("scr") /\ tries > 0 /\ tries' = tries - 1 /\ IssueRead("scr", 0, 1, Elsewhere)
  /\ UNCHANGED <<version, highCapacity, highSpeed, rcaKnown, csdOk, opIgnored>> /\ Keep

SwitchCheck ==
  /\ Done("scr") /\ kind # "SD1"
  /\ version' = "SD2" /\ tries' = SwitchTries /\ IssueRead("switch_check", 0, 1, Elsewhere)
  /\ UNCHANGED <<highCapacity, highSpeed, rcaKnown, csdOk, opIgnored>> /\ Keep

\* The card says that the function is busy.  After the last check that is ignored.
SwitchBusy ==
  /\ Done("switch_check") /\ tries > 0
  /\ tries' = tries - 1 /\ IssueRead("switch_check", 0, 1, Elsewhere)
  /\ UNCHANGED <<version, highCapacity, highSpeed, rcaKnown, csdOk, opIgnored>> /\ Keep

Switch ==
  /\ Done("switch_check") /\ kind = "SDHC" /\ IssueRead("switch", 0, 1, Elsewhere)
  /\ UNCHANGED <<version, highCapacity, highSpeed, rcaKnown, tries, csdOk, opIgnored>> /\ Keep

\* sd_change_freq has returned; the status of the switch says whether the card has made
\* it.  Every SD card can use four lines.
AppWidth ==
  /\ \/ Done("scr") /\ kind = "SD1" /\ version' = "SD1" /\ UNCHANGED highSpeed
     \/ Done("switch_check") /\ kind # "SDHC" /\ UNCHANGED <<version, highSpeed>>
     \/ Done("switch") /\ highSpeed' = cardFast /\ UNCHANGED version
  /\ Issue("app_width", "R1")
  /\ UNCHANGED <<highCapacity, rcaKnown, tries, csdOk, opIgnored>> /\ Keep

SetWidth ==
  /\ Done("app_width") /\ Issue("width", "R1")
  /\ UNCHANGED <<version, highCapacity, highSpeed, rcaKnown, tries, csdOk, opIgnored>> /\ Keep

\* Mutant of InitDone: the error of the last command is not tested.
InitDoneUnchecked ==
  /\ Done("width") \/ Failed("width")
  /\ Reset
  /\ busWidth' = 4 /\ fast' = highSpeed /\ hasInit' = TRUE /\ step' = "ready"
  /\ UNCHANGED <<version, highCapacity, highSpeed, rcaKnown, tries, csdOk, start0, todo, asked,
                 result, inits, calls, opIgnored, cardVars>>

\* mmc_set_bus_width and mmc_set_clock reset the controller.
InitDone ==
  /\ Done("width")
  /\ Reset
  /\ busWidth' = 4 /\ fast' = highSpeed /\ hasInit' = TRUE /\ step' = "ready"
  /\ UNCHANGED <<version, highCapacity, highSpeed, rcaKnown, tries, csdOk, start0, todo, asked,
                 result, inits, calls, opIgnored, cardVars>>

\* A command failed that must not; the next call of SDLIB_Init begins again.
InitFails ==
  /\ \/ \E s \in {"all_cid", "rel_addr", "select", "app_scr", "switch_check", "switch",
                  "app_width", "width"} : Failed(s)
     \/ Failed("scr") /\ tries = 0
     \/ StatusEnds /\ ~csdOk
  /\ step' = "off"
  /\ UNCHANGED <<version, highCapacity, highSpeed, rcaKnown, tries, csdOk, opIgnored, hostVars>>
  /\ Keep

-----------------------------------------------------------------------------
(* mmc_bread                                                               *)

KeepRead == UNCHANGED <<mmcVars, tries, csdOk, inits, opIgnored, cardVars>>

\* The number of bytes overflows; the blocks behind it cannot be read.
Capacity == IF highCapacity = (kind = "SDHC") THEN CardBlocks % SizeBlocks ELSE SmallCapacity

\* Requests beyond the capacity are refused and change nothing.
ReadBlocks(start1, n) ==
  /\ step = "ready" /\ calls < MaxCalls /\ start1 + n <= Capacity
  /\ Issue("blocklen", "R1")
  /\ start0' = start1 /\ todo' = n /\ asked' = <<start1, n>> /\ result' = "none"
  /\ calls' = calls + 1
  /\ KeepRead

Chunk == IF todo > BMax THEN BMax ELSE todo
Address(b) == IF highCapacity THEN b ELSE b * BlockBytes

\* Mutant of ReadChunk: dst is not advanced.
ReadChunkSameDst(b, n) ==
  IssueRead("read", Address(b), n, 0)

\* mmc_read_blocks, of n blocks from b.
ReadChunk(b, n) ==
  IssueRead("read", Address(b), n, b - asked[1])

ReadFirst ==
  /\ Done("blocklen") /\ ReadChunk(start0, Chunk)
  /\ UNCHANGED <<start0, todo, asked, result, calls>> /\ KeepRead

StopTransmission ==
  /\ Done("read") /\ Chunk > 1 /\ Issue("stop", "R1b")
  /\ UNCHANGED <<start0, todo, asked, result, calls>> /\ KeepRead

\* One command's blocks are read: the next command or the return.
ChunkDone ==
  /\ Done("stop") \/ (Done("read") /\ Chunk = 1)
  /\ start0' = start0 + Chunk /\ todo' = todo - Chunk
  /\ IF todo' > 0
     THEN ReadChunk(start0', IF todo' > BMax THEN BMax ELSE todo') /\ UNCHANGED result
     ELSE step' = "ready" /\ result' = "ok" /\ UNCHANGED hostVars
  /\ UNCHANGED <<asked, calls>> /\ KeepRead

\* Nothing is sent to the card: it may still be sending data.
ReadFails ==
  /\ Failed("blocklen") \/ Failed("read") \/ Failed("stop")
  /\ step' = "ready" /\ result' = "fail"
  /\ UNCHANGED <<hostVars, start0, todo, asked, calls>> /\ KeepRead

Driver ==
  \/ GoIdle \/ SendIfCond \/ OpCondBegin \/ OpCond \/ OpCondAgain \/ OpCondDone \/ OpCondIgnored
  \/ RelativeAddr \/ SendCsd \/ SendStatus \/ StatusAgain \/ Select
  \/ AppScr \/ ReadScr \/ ReadScrAgain \/ SwitchCheck \/ SwitchBusy \/ Switch
  \/ AppWidth \/ SetWidth \/ InitDone \/ InitFails
  \/ ReadFirst \/ StopTransmission \/ ChunkDone \/ ReadFails

-----------------------------------------------------------------------------
(* The card                                                                *)

\* The card has got the command while it was on the line: it answers, or its
\* answer is lost or damaged.
Replies ==
  \/ reply' = (IF step = "go_idle" THEN "none" ELSE "good") /\ UNCHANGED faults
  \/ /\ step # "go_idle" /\ faults < MaxFaults /\ faults' = faults + 1
     /\ reply' \in {"none"} \cup (IF command.response = "R3" THEN {} ELSE {"bad"})

\* The state a command is for, and the one it leads to.
From == [if_cond |-> "idle", app_op |-> "idle", op_cond |-> "idle", all_cid |-> "ready",
         rel_addr |-> "ident", csd |-> "stby", status |-> "stby", select |-> "stby",
         app_scr |-> "tran", scr |-> "tran", switch_check |-> "tran", switch |-> "tran",
         app_width |-> "tran", width |-> "tran", blocklen |-> "tran", read |-> "tran",
         stop |-> "multi"]
To == [From EXCEPT !.all_cid = "ident", !.rel_addr = "stby", !.select = "tran",
                   !.scr = "data", !.switch_check = "data", !.switch = "data",
                   !.read = IF command.blocks > 1 THEN "multi" ELSE "data",
                   !.stop = "tran"]

Legal ==
  step # "go_idle" =>
     /\ cardState = From[step]
     /\ step \in {"op_cond", "scr", "width"} => app
     /\ step \in {"csd", "status", "select", "app_scr", "app_width"} => rcaKnown
     /\ step = "if_cond" => kind # "SD1"

\* A card of high capacity waits for a host that says it can use one.
SeesHost == kind = "SDHC" => ifCond /\ version = "SD2"

NextStates ==
  IF step = "go_idle" THEN {"idle"}
  ELSE IF step # "op_cond" THEN {To[step]}
  ELSE {s \in {"idle", "ready"} :
          IF s = "ready" THEN SeesHost ELSE polls < MaxPolls \/ ~SeesHost}

Obeys ==
  /\ Legal
  /\ cardState' \in NextStates
  /\ app' = (step \in {"app_op", "app_scr", "app_width"})
  /\ ifCond' = (step # "go_idle" /\ (ifCond \/ step = "if_cond"))
  /\ cardWidth' = IF step = "go_idle" THEN 1 ELSE IF step = "width" THEN 4 ELSE cardWidth
  /\ \/ cardFast' = (step # "go_idle" /\ cardFast)
     \/ step = "switch" /\ cardFast' = TRUE
  /\ stream' = IF step # "read" THEN Register
               ELSE IF kind = "SDHC" THEN command.arg ELSE command.arg \div BlockBytes
  /\ polls' = IF step = "op_cond" /\ SeesHost /\ cardState' = "idle" THEN polls + 1 ELSE polls
  /\ Replies

\* Silence: the command is not for this state or this card.
Ignores ==
  /\ ~Legal
  /\ reply' = "none" /\ app' = FALSE
  /\ UNCHANGED <<cardState, ifCond, cardWidth, cardFast, stream, polls, faults>>

Misses ==
  /\ faults < MaxFaults /\ faults' = faults + 1 /\ reply' = "none"
  /\ UNCHANGED <<cardState, app, ifCond, cardWidth, cardFast, stream, polls>>

TakeCommand ==
  /\ cmdFsm = "EXECUTE" /\ reply = "wait"
  /\ Obeys \/ Ignores \/ Misses
  /\ UNCHANGED <<hostVars, mmcVars, callVars, kind, silent>>

CompleteCommand ==
  /\ reply # "wait" /\ Complete(reply) /\ reply' = "wait"
  /\ UNCHANGED <<mmcVars, callVars, kind, cardState, app, ifCond, cardWidth, cardFast, stream,
                 polls, faults, silent>>

\* One block, or one after the other until the transmission is stopped, to a host that
\* listens.  Data may come before the response has ended.
SendBlock ==
  /\ cardState \in {"data", "multi"}
  /\ \/ BlockArrives(stream) /\ UNCHANGED faults
     \/ faults < MaxFaults /\ faults' = faults + 1 /\ BlockArrives(Garbage)
  /\ IF cardState = "multi" THEN stream' = stream + 1 /\ UNCHANGED cardState
     ELSE cardState' = "tran" /\ UNCHANGED stream
  /\ UNCHANGED <<mmcVars, callVars, kind, app, ifCond, cardWidth, cardFast, reply, polls, silent>>

SendNothing ==
  /\ cardState \in {"data", "multi"} /\ cardState' = "tran"
  /\ faults < MaxFaults /\ faults' = faults + 1 /\ silent' = TRUE
  /\ UNCHANGED <<hostVars, mmcVars, callVars, kind, app, ifCond, cardWidth, cardFast, stream,
                 reply, polls>>

Quiet == UNCHANGED <<mmcVars, callVars, cardVars>>

Cpu == Begin \/ Driver \/ ((Finish \/ DataFinish) /\ Quiet)
Controller == CompleteCommand \/ ((Start \/ NotBusy) /\ Quiet)
Card == TakeCommand \/ SendBlock

Next ==
  \/ Cpu \/ Controller \/ Card \/ SendNothing
  \/ \E r \in Requests : ReadBlocks(r[1], r[2])

Spec == Init /\ [][Next]_vars

FairSpec == Spec /\ WF_vars(Cpu) /\ WF_vars(Controller) /\ WF_vars(Card)

-----------------------------------------------------------------------------
(* Properties                                                              *)

\* A card that SDLIB_Init reports as found is selected and agrees with the host on bus
\* width, speed and what a block address is, whatever commands, responses and data were
\* lost on the way and however often the initialization was begun -- unless the failure
\* of sd_send_op_cond was ignored.
InitMeansUsable ==
  hasInit =>
    /\ cardState \in {"tran", "data", "multi"} /\ rcaKnown
    /\ busWidth = cardWidth /\ fast = cardFast
    /\ ~opIgnored => highCapacity = (kind = "SDHC")

\* A read that mmc_bread reports as done has put the blocks asked for into the buffer,
\* cut into commands of BMax, from a card with blocks or bytes as addresses -- unless an
\* earlier read's command failed, which leaves the data path armed.
ReadIsExact ==
  result = "ok" /\ ~upset /\ ~opIgnored =>
    \A i \in 0 .. asked[2] - 1 : memory[i] = asked[1] + i

\* Initialization and every read return, unless the card withholds data or an earlier
\* read's command failed.
AtRest == step = "ready" \/ (step = "off" /\ inits = InitTries)
CallReturns == ~AtRest ~> AtRest \/ silent \/ (hasInit /\ upset)
=============================================================================
