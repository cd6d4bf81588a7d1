------------------------------- MODULE SdHost -------------------------------
(***************************************************************************)
(* The SD host: ocsdc.c on the main CPU and the controller of              *)
(* ip/sd_cont, whose command and data paths run on the clock of the card.  *)
(* The driver writes a command, polls its status, and if the command reads *)
(* blocks polls the status of the data path, which stores them in memory   *)
(* by itself.                                                              *)
(*                                                                         *)
(* Which commands are sent is left to mmc.c, what arrives to the card      *)
(* (SdCard); HostSpec allows any.  A block is named by a number, Garbage   *)
(* if the checksum of its bits or the FIFO found it wrong.                 *)
(***************************************************************************)
EXTENDS Integers

Garbage == -1

\* A command's response is "none", "R1", "R1b" (followed by a busy signal) or "R3" (without
\* a checksum); R2, R6 and R7 are checked like R1.  Its index is the card's business.
Command == [arg : Int, response : {"none", "R1", "R1b", "R3"}, blocks : Nat, dst : Int]
NoCommand == [arg |-> 0, response |-> "none", blocks |-> 0, dst |-> 0]

VARIABLES
  \* ocsdc.c
  phase,       \* "idle", in ocsdc_finish, or in ocsdc_data_finish ("data")
  command,     \* what is in the registers
  outcome,     \* of the last ocsdc_send_cmd
  \* the controller
  start,       \* the pulse that starts a command is on its way to the card's clock
  cmdFsm,      \* sd_cmd_master
  cmdStatus,   \* its int_status_reg
  dataFsm,     \* sd_data_master and sd_data_serial_host
  blockCount,  \* block_count_reg
  left,        \* blkcnt_reg
  dst,         \* dma_addr_reg
  offset,      \* of sd_fifo_filler, in blocks
  dataStatus,  \* int_status_o of sd_data_master
  memory,      \* the blocks of the caller's buffer
  \* history
  served,      \* the controller has completed the command the driver sent last
  got,         \* blocks stored since the last command that reads
  upset        \* a command that reads failed since the last reset

driverVars == <<phase, command, outcome>>
cmdVars == <<start, cmdFsm, cmdStatus, served>>
dataVars == <<dataFsm, left, offset, dataStatus, memory, got>>
hostVars == <<driverVars, cmdVars, dataVars, blockCount, dst, upset>>

Reads(cmd) == cmd.blocks > 0

HostInit(cells) ==
  /\ phase = "idle" /\ command = NoCommand /\ outcome = "ok"
  /\ start = FALSE /\ cmdFsm = "IDLE" /\ cmdStatus = {} /\ served = TRUE
  /\ dataFsm = "IDLE" /\ blockCount = 0 /\ left = 0 /\ dst = 0 /\ offset = 0
  /\ dataStatus = {} /\ memory = [a \in cells |-> Garbage]
  /\ got = 0 /\ upset = FALSE

-----------------------------------------------------------------------------
(* The driver                                                              *)

\* Mutant of Send: the register gets the number of blocks, not one less.
SendFullCount(cmd) ==
  /\ phase = "idle"
  /\ phase' = "finish" /\ command' = cmd
  /\ start' = TRUE /\ served' = FALSE
  /\ IF Reads(cmd)
     THEN dst' = cmd.dst /\ blockCount' = cmd.blocks /\ got' = 0
     ELSE UNCHANGED <<dst, blockCount, got>>
  /\ UNCHANGED <<outcome, cmdFsm, cmdStatus, dataFsm, left, offset, dataStatus, memory, upset>>

\* ocsdc_send_cmd up to the polling.  The registers of a transfer are written only for
\* a command that reads; the write of the argument starts the command.
Send(cmd) ==
  /\ phase = "idle"
  /\ phase' = "finish" /\ command' = cmd
  /\ start' = TRUE /\ served' = FALSE
  /\ IF Reads(cmd)
     THEN dst' = cmd.dst /\ blockCount' = cmd.blocks - 1 /\ got' = 0
     ELSE UNCHANGED <<dst, blockCount, got>>
  /\ UNCHANGED <<outcome, cmdFsm, cmdStatus, dataFsm, left, offset, dataStatus, memory, upset>>

\* Mutants of Finish: the status is not cleared; the data is not waited for.
FinishUncleared ==
  /\ phase = "finish" /\ cmdFsm = "IDLE" /\ cmdStatus # {}
  /\ IF "EI" \in cmdStatus
     THEN phase' = "idle" /\ outcome' = "error" /\ upset' = (upset \/ Reads(command))
     ELSE IF Reads(command)
          THEN phase' = "data" /\ UNCHANGED <<outcome, upset>>
          ELSE phase' = "idle" /\ outcome' = "ok" /\ UNCHANGED upset
  /\ UNCHANGED <<command, cmdVars, dataVars, blockCount, dst>>
FinishKeepsData ==
  /\ phase = "finish" /\ cmdFsm = "IDLE" /\ cmdStatus # {}
  /\ phase' = "idle" /\ cmdStatus' = {}
  /\ outcome' = IF "EI" \in cmdStatus THEN "error" ELSE "ok"
  /\ upset' = (upset \/ (Reads(command) /\ outcome' = "error"))
  /\ UNCHANGED <<command, start, cmdFsm, served, dataVars, blockCount, dst>>

\* ocsdc_finish sees a status, which shows only while the state machine is idle.
\* The write that clears it arrives before the driver polls again.
Finish ==
  /\ phase = "finish" /\ cmdFsm = "IDLE" /\ cmdStatus # {}
  /\ cmdStatus' = {}
  /\ IF "EI" \in cmdStatus
     THEN phase' = "idle" /\ outcome' = "error" /\ upset' = (upset \/ Reads(command))
     ELSE IF Reads(command)
          THEN phase' = "data" /\ UNCHANGED <<outcome, upset>>
          ELSE phase' = "idle" /\ outcome' = "ok" /\ UNCHANGED upset
  /\ UNCHANGED <<command, start, cmdFsm, served, dataVars, blockCount, dst>>

\* ocsdc_data_finish
DataFinish ==
  /\ phase = "data" /\ dataStatus # {}
  /\ dataStatus' = {} /\ phase' = "idle"
  /\ outcome' = IF "TRS" \in dataStatus THEN "ok" ELSE "error"
  /\ UNCHANGED <<command, cmdVars, dataFsm, left, offset, memory, got, blockCount, dst, upset>>

\* The software reset of ocsdc_set_clock, and of every change of the bus width, clears
\* both paths.  It does not clear the registers.
Reset ==
  /\ phase = "idle"
  /\ cmdFsm' = "IDLE" /\ cmdStatus' = {} /\ start' = FALSE
  /\ dataFsm' = "IDLE" /\ dataStatus' = {} /\ left' = 0 /\ offset' = 0
  /\ upset' = FALSE
  /\ UNCHANGED <<driverVars, served, memory, got, blockCount, dst>>

-----------------------------------------------------------------------------
(* The controller                                                          *)

\* A command that reads arms the data path at once, whatever becomes of the command,
\* unless that path is still busy.
Arm ==
  IF Reads(command) /\ dataFsm = "IDLE"
  THEN dataFsm' = "READ_WAIT" /\ left' = blockCount /\ offset' = 0
  ELSE UNCHANGED <<dataFsm, left, offset>>

\* The pulse arrives.
Start ==
  /\ start /\ start' = FALSE
  /\ IF cmdFsm = "IDLE" THEN cmdFsm' = "EXECUTE" /\ cmdStatus' = {}
     ELSE UNCHANGED <<cmdFsm, cmdStatus>>
  /\ Arm
  /\ UNCHANGED <<driverVars, served, dataStatus, memory, got, blockCount, dst, upset>>

\* The command ends with the card's response, "good" or with a wrong checksum
\* ("bad"), or with the watchdog if there is none.
Complete(answer) ==
  /\ cmdFsm = "EXECUTE"
  /\ LET expected == command.response # "none"
         timeout  == expected /\ answer = "none"
         wrong    == answer = "bad" /\ command.response \in {"R1", "R1b"}
     IN  /\ cmdStatus' = IF timeout THEN {"EI"} ELSE IF wrong THEN {"EI", "CC"} ELSE {"CC"}
         /\ cmdFsm' = IF command.response = "R1b" /\ ~timeout THEN "BUSY_CHECK" ELSE "IDLE"
  /\ served' = ~start
  /\ UNCHANGED <<driverVars, start, dataVars, blockCount, dst, upset>>

\* The card releases the data line.
NotBusy ==
  /\ cmdFsm = "BUSY_CHECK" /\ cmdFsm' = "IDLE"
  /\ UNCHANGED <<driverVars, start, cmdStatus, served, dataVars, blockCount, dst, upset>>

\* A block is stored at the address that is in the register now.
Store(block) ==
  /\ memory' = [a \in DOMAIN memory |-> IF a = dst + offset THEN block ELSE memory[a]]
  /\ offset' = offset + 1 /\ got' = got + 1

EndTransfer(block) ==
  /\ dataFsm' = "IDLE"
  /\ dataStatus' = dataStatus \cup {IF block = Garbage THEN "ERR" ELSE "TRS"}

\* The transfer ends with the last block or a wrong one.
BlockArrives(block) ==
  /\ dataFsm = "READ_WAIT"
  /\ Store(block)
  /\ IF block # Garbage /\ left > 0
     THEN left' = left - 1 /\ UNCHANGED <<dataFsm, dataStatus>>
     ELSE EndTransfer(block) /\ UNCHANGED left
  /\ UNCHANGED <<driverVars, cmdVars, blockCount, dst, upset>>

HostNext ==
  \/ \E cmd \in Command : Send(cmd)
  \/ Finish \/ DataFinish \/ Reset
  \/ Start \/ (\E answer \in {"good", "bad", "none"} : Complete(answer)) \/ NotBusy
  \/ \E block \in Int : BlockArrives(block)

\* Any commands and any card.
HostSpec == (\E cells \in SUBSET Int : HostInit(cells)) /\ [][HostNext]_hostVars

-----------------------------------------------------------------------------
(* Properties                                                              *)

CommandTypes ==
  /\ phase \in {"idle", "finish", "data"} /\ outcome \in {"ok", "error"}
  /\ command \in Command
  /\ start \in BOOLEAN /\ served \in BOOLEAN /\ upset \in BOOLEAN
  /\ cmdFsm \in {"IDLE", "EXECUTE", "BUSY_CHECK"} /\ cmdStatus \subseteq {"CC", "EI"}
DataTypes ==
  /\ dataFsm \in {"IDLE", "READ_WAIT"} /\ dataStatus \subseteq {"TRS", "ERR"}
  /\ blockCount \in Nat /\ left \in Nat /\ offset \in Nat /\ got \in Nat /\ dst \in Int
HostTypeOK == CommandTypes /\ DataTypes

\* What ocsdc_finish returns is the outcome of the command it was called for: the
\* pulse of a new command may still be crossing to the card's clock when the driver
\* polls, and the status of the old one must not be taken for it.
AnswerIsOwn == phase # "finish" => served

\* When ocsdc_data_finish takes a transfer for done, exactly the blocks asked for have
\* been stored, and when ocsdc_send_cmd returns nothing is left of the transfer that
\* could end or disturb the next one -- as long as no command that reads has failed
\* since the last reset.
DataIsOwn ==
  ~upset =>
    /\ phase = "data" /\ "TRS" \in dataStatus => got = command.blocks
    /\ phase = "idle" => dataFsm = "IDLE" /\ dataStatus = {}

\* Under the same condition the controller, which takes its address and its count from
\* registers the driver goes on writing, stores nothing outside the buffer of the
\* command under way.
WritesInside ==
  ~upset /\ dataFsm = "READ_WAIT" =>
    phase # "idle" /\ dst = command.dst /\ offset < command.blocks
=============================================================================
