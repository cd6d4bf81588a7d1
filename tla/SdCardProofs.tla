---------------------------- MODULE SdCardProofs ----------------------------
(***************************************************************************)
(* The SD host, for every sequence of commands and any card; that mmc.c    *)
(* uses the host as HostSpec allows, so that what is proved of the host    *)
(* holds of the driver with its card; and, for the two together, that a    *)
(* card that is found is usable and a read returns what was asked for.     *)
(***************************************************************************)
EXTENDS SdCard, TLAPS

-----------------------------------------------------------------------------
(* The host.                                                               *)

Clean == dataFsm = "IDLE" /\ dataStatus = {}

\* The command path: a pulse on its way finds the path idle, a status that shows is
\* that of the driver's command, and none shows after the driver has taken it.
CommandPath ==
  /\ start => phase = "finish" /\ ~served /\ cmdFsm = "IDLE" /\ cmdStatus = {}
  /\ phase # "finish" => served /\ ~start /\ cmdFsm = "IDLE" /\ cmdStatus = {}
  /\ cmdStatus # {} => served
  /\ cmdFsm = "EXECUTE" => cmdStatus = {}

\* The data path between arming and the driver's reading of the status.
Transfer ==
  \/ /\ dataFsm = "READ_WAIT" /\ dataStatus = {}
     /\ got + left = command.blocks - 1 /\ offset = got /\ dst = command.dst
  \/ /\ dataFsm = "IDLE"
     /\ (dataStatus = {"TRS"} /\ got = command.blocks) \/ dataStatus = {"ERR"}

DataPath ==
  /\ phase = "idle" => Clean
  /\ phase = "data" => Reads(command)
  /\ phase # "idle" /\ ~Reads(command) => Clean
  /\ phase # "idle" /\ Reads(command) /\ start =>
       Clean /\ got = 0 /\ blockCount = command.blocks - 1 /\ dst = command.dst
  /\ phase # "idle" /\ Reads(command) /\ ~start => Transfer

IInv == HostTypeOK /\ CommandPath /\ (~upset => DataPath)

USE DEF driverVars, cmdVars, dataVars, hostVars

\* Nothing is under way at first.
LEMMA Initially == ASSUME NEW cells, HostInit(cells) PROVE IInv
<1>1. HostTypeOK
  <2>1. NoCommand \in Command
    BY DEF NoCommand, Command
  <2>2. CommandTypes
    BY <2>1 DEF HostInit, CommandTypes
  <2>3. DataTypes
    BY DEF HostInit, DataTypes
  <2> QED BY <2>2, <2>3 DEF HostTypeOK
<1>2. CommandPath /\ DataPath
  BY DEF HostInit, NoCommand, CommandPath, DataPath, Clean
<1> QED BY <1>1, <1>2 DEF IInv

LEMMA SendKeeps == ASSUME IInv, NEW cmd \in Command, Send(cmd) PROVE IInv'
<1>1. HostTypeOK'
  <2>1. CommandTypes'
    BY DEF IInv, HostTypeOK, CommandTypes, Send
  <2>2. DataTypes'
    BY DEF IInv, HostTypeOK, DataTypes, Send, Reads, Command
  <2> QED BY <2>1, <2>2 DEF HostTypeOK
<1>2. CommandPath'
  BY DEF IInv, CommandPath, Send
<1>3. ~upset' => DataPath'
  BY DEF IInv, HostTypeOK, CommandTypes, CommandPath, DataPath, Clean, Send, Reads, Command
<1> QED BY <1>1, <1>2, <1>3 DEF IInv

LEMMA FinishKeeps == ASSUME IInv, Finish PROVE IInv'
<1>1. HostTypeOK'
  <2>1. CommandTypes'
    BY DEF IInv, HostTypeOK, CommandTypes, Finish
  <2>2. DataTypes'
    BY DEF IInv, HostTypeOK, DataTypes, Finish
  <2> QED BY <2>1, <2>2 DEF HostTypeOK
<1>2. CommandPath'
  BY DEF IInv, CommandPath, Finish
<1>3. ~upset' => DataPath'
  BY DEF IInv, CommandPath, DataPath, Transfer, Clean, Finish, Reads
<1> QED BY <1>1, <1>2, <1>3 DEF IInv

LEMMA DataFinishKeeps == ASSUME IInv, DataFinish PROVE IInv'
<1>1. HostTypeOK'
  <2>1. CommandTypes'
    BY DEF IInv, HostTypeOK, CommandTypes, DataFinish
  <2>2. DataTypes'
    BY DEF IInv, HostTypeOK, DataTypes, DataFinish
  <2> QED BY <2>1, <2>2 DEF HostTypeOK
<1>2. CommandPath'
  BY DEF IInv, CommandPath, DataFinish
<1>3. ~upset' => DataPath'
  BY DEF IInv, CommandPath, DataPath, Transfer, Clean, DataFinish, Reads
<1> QED BY <1>1, <1>2, <1>3 DEF IInv

\* A reset makes up for a read that failed.
LEMMA ResetKeeps == ASSUME IInv, Reset PROVE IInv'
<1>1. HostTypeOK'
  <2>1. CommandTypes'
    BY DEF IInv, HostTypeOK, CommandTypes, Reset
  <2>2. DataTypes'
    BY DEF IInv, HostTypeOK, DataTypes, Reset
  <2> QED BY <2>1, <2>2 DEF HostTypeOK
<1>2. CommandPath' /\ DataPath'
  BY DEF IInv, CommandPath, DataPath, Clean, Reset
<1> QED BY <1>1, <1>2 DEF IInv

LEMMA StartKeeps == ASSUME IInv, Start PROVE IInv'
<1>1. HostTypeOK'
  <2>1. CommandTypes'
    BY DEF IInv, HostTypeOK, CommandTypes, Start, Arm
  <2>2. DataTypes'
    BY DEF IInv, HostTypeOK, DataTypes, Start, Arm
  <2> QED BY <2>1, <2>2 DEF HostTypeOK
<1>2. CommandPath'
  BY DEF IInv, CommandPath, Start, Arm
<1>3. ~upset' => DataPath'
  BY DEF IInv, HostTypeOK, CommandTypes, DataTypes, Command, CommandPath, DataPath, Transfer,
         Clean, Start, Arm, Reads
<1> QED BY <1>1, <1>2, <1>3 DEF IInv

LEMMA CompleteKeeps == ASSUME IInv, NEW answer, Complete(answer) PROVE IInv'
<1>1. HostTypeOK'
  <2>1. CommandTypes'
    BY DEF IInv, HostTypeOK, CommandTypes, Complete
  <2>2. DataTypes'
    BY DEF IInv, HostTypeOK, DataTypes, Complete
  <2> QED BY <2>1, <2>2 DEF HostTypeOK
<1>2. CommandPath'
  BY DEF IInv, HostTypeOK, CommandTypes, CommandPath, Complete
<1>3. ~upset' => DataPath'
  BY DEF IInv, DataPath, Transfer, Clean, Complete, Reads
<1> QED BY <1>1, <1>2, <1>3 DEF IInv

LEMMA NotBusyKeeps == ASSUME IInv, NotBusy PROVE IInv'
<1>1. HostTypeOK'
  <2>1. CommandTypes'
    BY DEF IInv, HostTypeOK, CommandTypes, NotBusy
  <2>2. DataTypes'
    BY DEF IInv, HostTypeOK, DataTypes, NotBusy
  <2> QED BY <2>1, <2>2 DEF HostTypeOK
<1>2. CommandPath'
  BY DEF IInv, CommandPath, NotBusy
<1>3. ~upset' => DataPath'
  BY DEF IInv, DataPath, Transfer, Clean, NotBusy, Reads
<1> QED BY <1>1, <1>2, <1>3 DEF IInv

\* Only a command that reads has armed the data path, and its count and the stored
\* blocks add up.
LEMMA BlockKeeps == ASSUME IInv, NEW block, BlockArrives(block) PROVE IInv'
<1>1. HostTypeOK'
  <2>1. CommandTypes'
    BY DEF IInv, HostTypeOK, CommandTypes, BlockArrives, Store, EndTransfer
  <2>2. DataTypes
    BY DEF IInv, HostTypeOK
  <2>3. dataFsm' \in {"IDLE", "READ_WAIT"} /\ dataStatus' \subseteq {"TRS", "ERR"}
    BY <2>2 DEF DataTypes, BlockArrives, Store, EndTransfer
  <2>4. left' \in Nat /\ offset' \in Nat /\ got' \in Nat
    BY <2>2 DEF DataTypes, BlockArrives, Store, EndTransfer
  <2>5. DataTypes'
    BY <2>2, <2>3, <2>4 DEF DataTypes, BlockArrives, Store, EndTransfer
  <2> QED BY <2>1, <2>5 DEF HostTypeOK
<1>2. CommandPath'
  BY DEF IInv, CommandPath, BlockArrives, Store, EndTransfer
<1>3. ASSUME ~upset' PROVE DataPath'
  <2>1. ~upset /\ DataPath /\ dataFsm = "READ_WAIT"
    BY <1>3 DEF IInv, BlockArrives, Store, EndTransfer
  <2>2. phase # "idle" /\ Reads(command) /\ ~start /\ Transfer
    BY <2>1 DEF DataPath, Clean
  <2>3. command.blocks \in Nat /\ left \in Nat /\ got \in Nat /\ dataStatus = {}
    BY <2>1, <2>2 DEF IInv, HostTypeOK, CommandTypes, DataTypes, Command, Transfer
  <2>4. Transfer'
    <3>1. CASE block # Garbage /\ left > 0
      BY <2>1, <2>2, <2>3, <3>1 DEF Transfer, BlockArrives, Store, EndTransfer
    <3>2. CASE block # Garbage /\ left = 0
      BY <2>1, <2>2, <2>3, <3>2 DEF Transfer, BlockArrives, Store, EndTransfer
    <3>3. CASE block = Garbage
      BY <2>1, <2>2, <2>3, <3>3 DEF Transfer, BlockArrives, Store, EndTransfer
    <3> QED BY <2>3, <3>1, <3>2, <3>3
  <2> QED BY <2>2, <2>4 DEF DataPath, BlockArrives, Store, EndTransfer, Reads
<1> QED BY <1>1, <1>2, <1>3 DEF IInv

LEMMA StepKeeps == ASSUME IInv, [HostNext]_hostVars PROVE IInv'
<1>1. CASE \E cmd \in Command : Send(cmd)
  BY <1>1, SendKeeps
<1>2. CASE Finish
  BY <1>2, FinishKeeps
<1>3. CASE DataFinish
  BY <1>3, DataFinishKeeps
<1>4. CASE Reset
  BY <1>4, ResetKeeps
<1>5. CASE Start
  BY <1>5, StartKeeps
<1>6. CASE \E answer \in {"good", "bad", "none"} : Complete(answer)
  BY <1>6, CompleteKeeps
<1>7. CASE NotBusy
  BY <1>7, NotBusyKeeps
<1>8. CASE \E block \in Int : BlockArrives(block)
  BY <1>8, BlockKeeps
<1>9. CASE UNCHANGED hostVars
  BY <1>9
     DEF IInv, HostTypeOK, CommandTypes, DataTypes, CommandPath, DataPath, Clean, Transfer,
         Reads
<1> QED BY <1>1, <1>2, <1>3, <1>4, <1>5, <1>6, <1>7, <1>8, <1>9 DEF HostNext

\* The types, and the invariant that carries the theorems below.
THEOREM HostInductive == HostSpec => []IInv
<1>1. (\E cells \in SUBSET Int : HostInit(cells)) => IInv
  BY Initially
<1>2. IInv /\ [HostNext]_hostVars => IInv'
  BY StepKeeps
<1> QED BY <1>1, <1>2, PTL DEF HostSpec

\* ocsdc_finish returns the outcome of its own command (ocsdc.c:125).
THEOREM AnswersMatch == HostSpec => []AnswerIsOwn
<1>1. IInv => AnswerIsOwn
  BY DEF IInv, CommandPath, AnswerIsOwn
<1> QED BY <1>1, HostInductive, PTL

\* ocsdc_data_finish returns when its own transfer is done (ocsdc.c:160).
THEOREM DataMatches == HostSpec => []DataIsOwn
<1>1. IInv => DataIsOwn
  BY DEF IInv, CommandPath, DataPath, Transfer, Clean, DataIsOwn
<1> QED BY <1>1, HostInductive, PTL

\* No block is stored outside the buffer of the command (sd_fifo_filler.v:160).
THEOREM StoresInside == HostSpec => []WritesInside
<1>1. IInv => WritesInside
  BY DEF IInv, HostTypeOK, CommandTypes, DataTypes, Command, DataPath, Transfer, Clean,
         WritesInside
<1> QED BY <1>1, HostInductive, PTL

-----------------------------------------------------------------------------
(* The driver with its card.                                               *)

\* What the commands' arguments are made of.
CallTypes ==
  start0 \in Int /\ todo \in Nat /\ asked \in Int \X Int /\ stream \in Int

HostStep == [HostNext]_hostVars

LEMMA IssueSteps ==
  ASSUME NEW s, NEW r \in {"none", "R1", "R1b", "R3"}, Issue(s, r)
  PROVE  HostStep
<1> DEFINE cmd == [arg |-> 0, response |-> r, blocks |-> 0, dst |-> 0]
<1>1. cmd \in Command
  BY DEF Command
<1>2. Send(cmd)
  BY DEF Issue
<1> QED BY <1>1, <1>2 DEF HostNext, HostStep

LEMMA IssueReadSteps ==
  ASSUME NEW s, NEW a \in Int, NEW n \in Nat, NEW at \in Int, IssueRead(s, a, n, at)
  PROVE  HostStep
<1> DEFINE cmd == [arg |-> a, response |-> "R1", blocks |-> n, dst |-> at]
<1>1. cmd \in Command
  BY DEF Command
<1>2. Send(cmd)
  BY DEF IssueRead
<1> QED BY <1>1, <1>2 DEF HostNext, HostStep

LEMMA ChunkTypes == ASSUME CallTypes PROVE Chunk \in Nat /\ Chunk <= todo
  BY SdAssumption DEF Chunk, CallTypes

LEMMA AddressTypes == ASSUME NEW b \in Int PROVE Address(b) \in Int
<1>1. BlockBytes \in Int
  BY SdAssumption
<1> QED BY <1>1 DEF Address

LEMMA ReadChunkSteps ==
  ASSUME CallTypes, NEW b \in Int, NEW n \in Nat, ReadChunk(b, n)
  PROVE  HostStep
<1>1. b - asked[1] \in Int
  BY DEF CallTypes
<1> QED BY <1>1, AddressTypes, IssueReadSteps DEF ReadChunk

\* The initialization: what it sends are commands, and it leaves the read alone.
StartupStep ==
  \/ GoIdle \/ SendIfCond \/ OpCondBegin \/ OpCond \/ OpCondAgain
  \/ OpCondDone \/ OpCondIgnored \/ RelativeAddr \/ SendCsd \/ SendStatus
  \/ StatusAgain \/ Select \/ AppScr \/ ReadScr \/ ReadScrAgain
  \/ SwitchCheck \/ SwitchBusy \/ Switch \/ AppWidth \/ SetWidth

LEMMA StartupSteps == ASSUME StartupStep PROVE HostStep /\ Keep
<1>1. CASE GoIdle
  BY <1>1, IssueSteps DEF GoIdle
<1>2. CASE SendIfCond
  BY <1>2, IssueSteps DEF SendIfCond
<1>3. CASE OpCondBegin
  BY <1>3, IssueSteps DEF OpCondBegin
<1>4. CASE OpCond
  BY <1>4, IssueSteps DEF OpCond
<1>5. CASE OpCondAgain
  BY <1>5, IssueSteps DEF OpCondAgain
<1>6. CASE OpCondDone
  BY <1>6, IssueSteps DEF OpCondDone
<1>7. CASE OpCondIgnored
  BY <1>7, IssueSteps DEF OpCondIgnored
<1>8. CASE RelativeAddr
  BY <1>8, IssueSteps DEF RelativeAddr
<1>9. CASE SendCsd
  BY <1>9, IssueSteps DEF SendCsd
<1>10. CASE SendStatus
  BY <1>10, IssueSteps DEF SendStatus
<1>11. CASE StatusAgain
  BY <1>11, IssueSteps DEF StatusAgain
<1>12. CASE Select
  BY <1>12, IssueSteps DEF Select
<1>13. CASE AppScr
  BY <1>13, IssueSteps DEF AppScr
<1>14. CASE ReadScr
  BY <1>14, IssueReadSteps DEF ReadScr, Elsewhere
<1>15. CASE ReadScrAgain
  BY <1>15, IssueReadSteps DEF ReadScrAgain, Elsewhere
<1>16. CASE SwitchCheck
  BY <1>16, IssueReadSteps DEF SwitchCheck, Elsewhere
<1>17. CASE Switch
  BY <1>17, IssueReadSteps DEF Switch, Elsewhere
<1>18. CASE AppWidth
  BY <1>18, IssueSteps DEF AppWidth
<1>19. CASE SetWidth
  BY <1>19, IssueSteps DEF SetWidth
<1>20. CASE SwitchBusy
  BY <1>20, IssueReadSteps DEF SwitchBusy, Elsewhere
<1> QED BY <1>1, <1>2, <1>3, <1>4, <1>5, <1>6, <1>7, <1>8, <1>9, <1>10, <1>11,
           <1>12, <1>13, <1>14, <1>15, <1>16, <1>17, <1>18, <1>19, <1>20
           DEF StartupStep

LEMMA DriverSteps == ASSUME CallTypes, Driver PROVE HostStep /\ CallTypes'
<1>1. CASE StartupStep
  BY <1>1, StartupSteps DEF Keep, cardVars, CallTypes
<1>2. CASE InitDone
  BY <1>2 DEF InitDone, HostStep, HostNext, cardVars, CallTypes
<1>3. CASE InitFails
  BY <1>3 DEF InitFails, HostStep, Keep, cardVars, CallTypes
<1>4. CASE ReadFirst
  <2>1. HostStep
    BY <1>4, ChunkTypes, ReadChunkSteps DEF ReadFirst, CallTypes
  <2>2. CallTypes'
    BY <1>4 DEF ReadFirst, KeepRead, cardVars, CallTypes
  <2> QED BY <2>1, <2>2
<1>5. CASE StopTransmission
  BY <1>5, IssueSteps DEF StopTransmission, KeepRead, cardVars, CallTypes
<1>6. CASE ChunkDone
  <2>1. start0' \in Int /\ todo' \in Nat
    BY <1>6, ChunkTypes DEF ChunkDone, CallTypes
  <2>2. CallTypes'
    BY <1>6, <2>1 DEF ChunkDone, KeepRead, cardVars, CallTypes
  <2>3. CASE todo' > 0
    <3>1. (IF todo' > BMax THEN BMax ELSE todo') \in Nat
      BY <2>1, SdAssumption
    <3>2. ReadChunk(start0', IF todo' > BMax THEN BMax ELSE todo')
      BY <1>6, <2>3 DEF ChunkDone
    <3> QED BY <2>1, <2>2, <3>1, <3>2, ReadChunkSteps
  <2>4. CASE ~(todo' > 0)
    BY <1>6, <2>2, <2>4 DEF ChunkDone, HostStep
  <2> QED BY <2>3, <2>4
<1>7. CASE ReadFails
  BY <1>7 DEF ReadFails, HostStep, KeepRead, cardVars, CallTypes
<1> QED BY <1>1, <1>2, <1>3, <1>4, <1>5, <1>6, <1>7 DEF Driver, StartupStep

LEMMA CpuSteps == ASSUME CallTypes, Cpu PROVE HostStep /\ CallTypes'
<1>1. CASE Begin
  BY <1>1 DEF Begin, HostStep, HostNext, cardVars, CallTypes
<1>2. CASE Driver
  BY <1>2, DriverSteps
<1>3. CASE (Finish \/ DataFinish) /\ Quiet
  BY <1>3 DEF HostStep, HostNext, Quiet, callVars, cardVars, CallTypes
<1> QED BY <1>1, <1>2, <1>3 DEF Cpu

\* The answers are those the controller tells apart.
ReplyTypes == reply \in {"wait", "good", "bad", "none"}

LEMMA ControllerSteps == ASSUME CallTypes, ReplyTypes, Controller PROVE HostStep /\ CallTypes'
<1>1. CASE CompleteCommand
  <2>1. reply \in {"good", "bad", "none"} /\ Complete(reply)
    BY <1>1 DEF CompleteCommand, ReplyTypes
  <2> QED BY <1>1, <2>1 DEF CompleteCommand, HostStep, HostNext, callVars, CallTypes
<1>2. CASE (Start \/ NotBusy) /\ Quiet
  BY <1>2 DEF HostStep, HostNext, Quiet, callVars, cardVars, CallTypes
<1> QED BY <1>1, <1>2 DEF Controller

LEMMA CardSteps == ASSUME IInv, CallTypes, Card PROVE HostStep /\ CallTypes'
<1>1. CASE TakeCommand
  <2>1. HostStep /\ UNCHANGED callVars
    BY <1>1 DEF TakeCommand, HostStep
  <2>2. command.arg \in Int /\ command.arg \div BlockBytes \in Int
    <3>1. command.arg \in Int
      BY DEF IInv, HostTypeOK, CommandTypes, Command
    <3> QED BY <3>1, SdAssumption
  <2>3. stream' \in Int
    BY <1>1, <2>2 DEF TakeCommand, Obeys, Ignores, Misses, Register, CallTypes
  <2> QED BY <2>1, <2>3 DEF callVars, CallTypes
<1>2. CASE SendBlock
  <2>1. HostStep
    BY <1>2 DEF SendBlock, HostStep, HostNext, Garbage, CallTypes
  <2> QED BY <1>2, <2>1 DEF SendBlock, callVars, CallTypes
<1> QED BY <1>1, <1>2 DEF Card

LEMMA RequestSteps ==
  ASSUME CallTypes, NEW q \in Requests, ReadBlocks(q[1], q[2])
  PROVE  HostStep /\ CallTypes'
<1>1. q \in Int \X Nat /\ CardBlocks \in Nat
  BY SdAssumption
<1>2. HostStep
  BY IssueSteps DEF ReadBlocks
<1> QED BY <1>1, <1>2 DEF ReadBlocks, KeepRead, cardVars, CallTypes

LEMMA NextSteps ==
  ASSUME IInv, CallTypes, ReplyTypes, [Next]_vars
  PROVE  HostStep /\ CallTypes'
<1>1. CASE Cpu
  BY <1>1, CpuSteps
<1>2. CASE Controller
  BY <1>2, ControllerSteps
<1>3. CASE Card
  BY <1>3, CardSteps
<1>4. CASE SendNothing
  BY <1>4 DEF SendNothing, HostStep, callVars, CallTypes
<1>5. CASE \E q \in Requests : ReadBlocks(q[1], q[2])
  BY <1>5, RequestSteps
<1>6. CASE UNCHANGED vars
  BY <1>6 DEF vars, HostStep, callVars, cardVars, CallTypes
<1> QED BY <1>1, <1>2, <1>3, <1>4, <1>5, <1>6 DEF Next

\* Only the card and the controller change the reply.
LEMMA ReplyTyped == ASSUME ReplyTypes, [Next]_vars PROVE ReplyTypes'
<1>1. CASE TakeCommand
  BY <1>1 DEF TakeCommand, Obeys, Ignores, Misses, Replies, ReplyTypes
<1>2. CASE CompleteCommand
  BY <1>2 DEF CompleteCommand, ReplyTypes
<1>3. CASE Driver
  <2>1. CASE StartupStep
    BY <2>1, StartupSteps DEF Keep, cardVars, ReplyTypes
  <2> QED BY <1>3, <2>1
             DEF Driver, StartupStep, InitDone, InitFails, ReadFirst, StopTransmission,
                 ChunkDone, ReadFails, Keep, KeepRead, cardVars, ReplyTypes
<1>4. CASE Begin \/ SendBlock \/ SendNothing \/ (\E q \in Requests : ReadBlocks(q[1], q[2]))
  BY <1>4
     DEF Begin, SendBlock, SendNothing, ReadBlocks, KeepRead, cardVars, ReplyTypes
<1>5. CASE Quiet \/ UNCHANGED vars
  BY <1>5 DEF Quiet, vars, cardVars, ReplyTypes
<1> QED BY <1>1, <1>2, <1>3, <1>4, <1>5 DEF Next, Cpu, Controller, Card

Together == IInv /\ CallTypes /\ ReplyTypes

LEMMA Beginning == ASSUME Init PROVE Together
<1>1. IInv
  BY Initially DEF Init
<1>2. CallTypes /\ ReplyTypes
  BY DEF Init, CallTypes, ReplyTypes
<1> QED BY <1>1, <1>2 DEF Together

\* It is inductive.
LEMMA TogetherStep == ASSUME Together, [Next]_vars PROVE Together'
<1>1. [HostNext]_hostVars /\ CallTypes'
  BY NextSteps DEF Together, HostStep
<1>2. IInv'
  BY <1>1, StepKeeps DEF Together
<1> QED BY <1>1, <1>2, ReplyTyped DEF Together

\* mmc.c and its card are one of the environments that HostSpec allows.
THEOREM CardUsesHost == Spec => HostSpec
<1>1. Init => Together
  BY Beginning
<1>2. Init => \E cells \in SUBSET Int : HostInit(cells)
  BY SdAssumption DEF Init
<1>3. Together /\ [Next]_vars => Together'
  BY TogetherStep
<1>4. Together /\ [Next]_vars => [HostNext]_hostVars
  BY NextSteps DEF Together, HostStep
<1> QED BY <1>1, <1>2, <1>3, <1>4, PTL DEF Spec, HostSpec

\* What is proved of the host holds of the SD card driver: answers are not mixed up,
\* transfers are complete, and nothing is stored outside the buffer.
THEOREM DriverKeepsApart == Spec => [](AnswerIsOwn /\ DataIsOwn /\ WritesInside)
<1> QED BY CardUsesHost, AnswersMatch, DataMatches, StoresInside, PTL

-----------------------------------------------------------------------------
(* What host and card know of each other.                                  *)

\* The commands that begin an initialization, those to the card once it is selected, and
\* those after which it is clear what an address is; no command is under way between.
Startup == {"go_idle", "if_cond", "app_op", "op_cond", "all_cid", "rel_addr", "csd",
            "status", "select"}
Selected == {"app_scr", "scr", "switch_check", "switch", "app_width", "width"}
Reading == {"ready", "blocklen", "read", "stop"}
Addressed == {"all_cid", "rel_addr", "csd", "status", "select"} \cup Selected \cup Reading
Between == {"off", "reset", "ready"}

\* The types of the steps and of the card.
CardTypes ==
  /\ step \in Between \cup Startup \cup Selected \cup Reading
  /\ step \in Between => phase = "idle"
  /\ cardState \in {"idle", "ready", "ident", "stby", "tran", "data", "multi"}
  /\ cardFast \in BOOLEAN /\ highSpeed \in BOOLEAN

\* What a card that has obeyed the command at hand is known to be in, for the commands
\* whose success something later relies on.
HasObeyed ==
  /\ step = "select" => rcaKnown
  /\ step = "width" => cardState = "tran" /\ cardWidth = 4
  /\ step \in {"blocklen", "stop"} => cardState = "tran"

\* The card answers the command, and the driver has not found it to fail.
Answered ==
  \/ reply = "good"
  \/ phase = "finish" /\ cmdStatus # {} /\ "EI" \notin cmdStatus
  \/ phase = "data"
  \/ phase = "idle" /\ outcome = "ok"

\* Only a card that has obeyed a command answers it well.  (The command that resets the
\* card has no answer.)
AnswerInv ==
  /\ reply # "wait" => cmdFsm = "EXECUTE"
  /\ reply = "bad" => command.response # "R3"
  /\ phase = "finish" /\ command.response = "none" => step = "go_idle"
  /\ step \notin Between \cup {"go_idle"} /\ Answered => HasObeyed

\* How far an initialization has come, and that what was found out in it is so.
InitInv ==
  /\ step \in Selected => rcaKnown
  /\ step \in {"app_scr", "scr", "switch_check", "switch"} => ~highSpeed
  /\ step = "switch" \/ cardFast => kind = "SDHC"
  /\ step \in {"app_width", "width"} => highSpeed = cardFast
  /\ step \in Addressed /\ ~opIgnored => highCapacity = (kind = "SDHC")
  /\ hasInit <=> step \in Reading
  /\ hasInit =>
       /\ cardState \in {"tran", "data", "multi"} /\ rcaKnown
       /\ busWidth = 4 /\ cardWidth = 4 /\ fast = cardFast

\* A command is sent.
Sends(s) ==
  /\ step' = s /\ phase = "idle" /\ phase' = "finish"
  /\ command'.response = "none" => s = "go_idle"
  /\ UNCHANGED <<outcome, cmdFsm, cmdStatus, memory, upset, reply>>

\* Every stretch of the initialization ends with a command.
LEMMA StartupSends ==
  ASSUME StartupStep
  PROVE  /\ step \notin Reading /\ step' \in Startup \cup Selected /\ Sends(step') /\ Keep
<1> USE DEF Issue, IssueRead, Send, Sends, Done, Failed, Reading, Startup, Selected,
            StatusEnds, cardVars
<1>1. Keep
  BY StartupSteps
<1>2. /\ reply' = reply /\ step \notin Reading
  BY <1>1
     DEF Keep, StartupStep, GoIdle, SendIfCond, OpCondBegin, OpCond, OpCondAgain, OpCondDone,
         OpCondIgnored, RelativeAddr, SendCsd, SendStatus, StatusAgain, Select, AppScr,
         ReadScr, ReadScrAgain, SwitchCheck, SwitchBusy, Switch, AppWidth, SetWidth
<1>3. /\ step' \in Startup \cup Selected
  BY DEF StartupStep, GoIdle, SendIfCond, OpCondBegin, OpCond, OpCondAgain, OpCondDone,
         OpCondIgnored, RelativeAddr, SendCsd, SendStatus, StatusAgain, Select, AppScr,
         ReadScr, ReadScrAgain, SwitchCheck, SwitchBusy, Switch, AppWidth, SetWidth
<1>4. command'.response = "none" => step' = "go_idle"
  BY DEF StartupStep, GoIdle, SendIfCond, OpCondBegin, OpCond, OpCondAgain, OpCondDone,
         OpCondIgnored, RelativeAddr, SendCsd, SendStatus, StatusAgain, Select, AppScr,
         ReadScr, ReadScrAgain, SwitchCheck, SwitchBusy, Switch, AppWidth, SetWidth
<1>5. phase = "idle" /\ phase' = "finish"
  /\ UNCHANGED <<outcome, cmdFsm, cmdStatus, memory, upset>>
  BY DEF StartupStep, GoIdle, SendIfCond, OpCondBegin, OpCond, OpCondAgain, OpCondDone,
         OpCondIgnored, RelativeAddr, SendCsd, SendStatus, StatusAgain, Select, AppScr,
         ReadScr, ReadScrAgain, SwitchCheck, SwitchBusy, Switch, AppWidth, SetWidth
<1> QED BY <1>1, <1>2, <1>3, <1>5, <1>4

\* A command that has just been sent is not answered.
LEMMA SendsAnswers ==
  ASSUME NEW s, Sends(s), CommandPath, AnswerInv, ReplyTypes
  PROVE  AnswerInv'
<1>1. cmdFsm = "IDLE" /\ cmdStatus = {} /\ reply = "wait"
  BY DEF Sends, CommandPath, AnswerInv
<1> QED BY <1>1 DEF Sends, AnswerInv, Answered

\* The stretches of mmc_bread.
ReadStep == ReadFirst \/ StopTransmission \/ ChunkDone \/ ReadFails

\* What a step of mmc_bread leaves alone.
LEMMA ReadIs ==
  ASSUME ReadStep, CardTypes
  PROVE  /\ step \in {"blocklen", "read", "stop"} /\ phase = "idle"
         /\ \/ step' \in {"read", "stop"} /\ Sends(step')
            \/ step' = "ready" /\ UNCHANGED hostVars
         /\ KeepRead
<1> USE
    DEF Issue, ReadChunk, IssueRead, Send, Sends, Done, Failed, cardVars, KeepRead
<1>1. CASE ReadFirst
  BY <1>1 DEF ReadFirst
<1>2. CASE StopTransmission
  BY <1>2 DEF StopTransmission
<1>3. CASE ChunkDone
  BY <1>3 DEF ChunkDone
<1>4. CASE ReadFails
  BY <1>4 DEF ReadFails
<1> QED BY <1>1, <1>2, <1>3, <1>4 DEF ReadStep

\* A read begins with the length of a block.
LEMMA RequestIs ==
  ASSUME NEW q \in Requests, ReadBlocks(q[1], q[2])
  PROVE  step = "ready" /\ step' = "blocklen" /\ Sends("blocklen") /\ KeepRead
BY DEF ReadBlocks, Issue, Send, Sends, KeepRead, cardVars

\* The stretches of the driver.
LEMMA DriverIs == Driver <=> StartupStep \/ InitDone \/ InitFails \/ ReadStep
BY DEF Driver, StartupStep, ReadStep

\* The types of step and card.
LEMMA CardTypesStep == ASSUME CardTypes, ReplyTypes, IInv, [Next]_vars PROVE CardTypes'
<1> USE DEF CardTypes, Between, Startup, Selected, Reading
<1>1. CASE StartupStep
  <2>1. highSpeed' \in BOOLEAN
    BY <1>1
       DEF StartupStep, GoIdle, SendIfCond, OpCondBegin, OpCond, OpCondAgain, OpCondDone,
           OpCondIgnored, RelativeAddr, SendCsd, SendStatus, StatusAgain, Select, AppScr,
           ReadScr, ReadScrAgain, SwitchCheck, SwitchBusy, Switch, AppWidth, SetWidth
  <2> QED BY <1>1, <2>1, StartupSends DEF Keep, cardVars, Sends
<1>2. CASE Begin \/ InitDone
  BY <1>2 DEF Begin, InitDone, Reset, cardVars
<1>3. CASE InitFails
  BY <1>3 DEF InitFails, Failed, StatusEnds, Done, Keep, cardVars
<1>4. CASE ReadStep
  BY <1>4, ReadIs DEF KeepRead, mmcVars, cardVars, Sends
<1>5. CASE \E q \in Requests : ReadBlocks(q[1], q[2])
  BY <1>5, RequestIs DEF KeepRead, mmcVars, cardVars, Sends
<1>6. CASE (Finish \/ DataFinish \/ Start \/ NotBusy) /\ Quiet
  BY <1>6 DEF Finish, DataFinish, Start, NotBusy, Quiet, mmcVars, callVars, cardVars
<1>7. CASE CompleteCommand
  BY <1>7 DEF CompleteCommand, Complete, mmcVars, callVars, cardVars
<1>8. CASE TakeCommand
  <2>1. UNCHANGED <<step, phase, highSpeed>> /\ phase = "finish"
    BY <1>8 DEF TakeCommand, mmcVars, callVars, IInv, CommandPath
  <2>2. cardState' \in {"idle", "ready", "ident", "stby", "tran", "data", "multi"}
    BY <1>8, <2>1
       DEF TakeCommand, Obeys, Ignores, Misses, Legal, NextStates, To, From
  <2>3. cardFast' \in BOOLEAN
    BY <1>8 DEF TakeCommand, Obeys, Ignores, Misses
  <2> QED BY <2>1, <2>2, <2>3
<1>9. CASE SendBlock
  BY <1>9 DEF SendBlock, BlockArrives, Store, EndTransfer, mmcVars, callVars
<1>10. CASE SendNothing
  BY <1>10 DEF SendNothing, mmcVars, callVars
<1>11. CASE UNCHANGED vars
  BY <1>11 DEF vars, mmcVars, callVars, cardVars
<1> QED BY <1>1, <1>2, <1>3, <1>4, <1>5, <1>6, <1>7, <1>8, <1>9, <1>10, <1>11,
           DriverIs
           DEF Next, Cpu, Controller, Card

\* An answer that counts is one to a command the card has obeyed.
LEMMA AnswerStep ==
  ASSUME CardTypes, AnswerInv, ReplyTypes, IInv, [Next]_vars PROVE AnswerInv'
<1> USE DEF AnswerInv, Between
<1>1. CommandPath /\ CommandTypes
  BY DEF IInv, HostTypeOK
<1>2. CASE StartupStep
  BY <1>1, <1>2, StartupSends, SendsAnswers
<1>3. CASE Begin \/ InitDone
  BY <1>1, <1>3 DEF Begin, InitDone, Reset, cardVars, CommandPath
<1>4. CASE InitFails
  BY <1>4 DEF InitFails, Failed, Done, StatusEnds, Keep, cardVars
<1>5. CASE ReadStep
  <2>1. CASE step' \in {"read", "stop"} /\ Sends(step')
    BY <1>1, <2>1, SendsAnswers
  <2>2. CASE step' = "ready" /\ UNCHANGED hostVars
    BY <1>5, <2>2, ReadIs DEF KeepRead, cardVars
  <2> QED BY <1>5, <2>1, <2>2, ReadIs
<1>6. CASE \E q \in Requests : ReadBlocks(q[1], q[2])
  BY <1>1, <1>6, RequestIs, SendsAnswers
<1>7. CASE (Finish \/ DataFinish) /\ Quiet
  <2>1. UNCHANGED <<command, step, reply, cardState, rcaKnown, cardFast, cardWidth, cmdFsm>>
    BY <1>7 DEF Finish, DataFinish, Quiet, mmcVars, callVars, cardVars
  <2>2. Answered' => Answered
    BY <1>7, <2>1 DEF Finish, DataFinish, Answered
  <2>3. phase' # "finish"
    BY <1>7 DEF Finish, DataFinish
  <2> QED BY <2>1, <2>2, <2>3 DEF HasObeyed
<1>8. CASE (Start \/ NotBusy) /\ Quiet
  <2>1. UNCHANGED <<command, step, reply, cardState, rcaKnown, cardFast, cardWidth, phase, outcome>>
    BY <1>8 DEF Start, NotBusy, Quiet, mmcVars, callVars, cardVars
  <2>2. Answered' => Answered
    BY <1>1, <1>8, <2>1 DEF Start, NotBusy, Answered, CommandPath
  <2>3. reply' = "wait"
    BY <1>1, <1>8, <2>1 DEF Start, NotBusy, CommandPath
  <2> QED BY <2>1, <2>2, <2>3 DEF HasObeyed
<1>9. CASE CompleteCommand
  <2>1. /\ UNCHANGED <<command, step, cardState, rcaKnown, cardFast, cardWidth, phase, outcome>>
        /\ Complete(reply) /\ reply' = "wait" /\ reply \in {"good", "bad", "none"}
    BY <1>9 DEF CompleteCommand, Complete, mmcVars, callVars, cardVars, ReplyTypes
  <2>2. phase = "finish" /\ command.response \in {"none", "R1", "R1b", "R3"}
    BY <1>1, <2>1 DEF Complete, CommandPath, CommandTypes, Command
  <2>3. Answered' => "EI" \notin cmdStatus'
    BY <2>1, <2>2 DEF Answered
  <2>4. "EI" \notin cmdStatus' /\ step # "go_idle" => reply = "good"
    BY <2>1, <2>2 DEF Complete
  <2>5. step # "go_idle" /\ Answered' => Answered
    BY <2>3, <2>4 DEF Answered
  <2> QED BY <2>1, <2>2, <2>5 DEF HasObeyed
<1>10. CASE TakeCommand
  <2>1. /\ UNCHANGED <<command, step, rcaKnown, phase, outcome, cmdFsm, cmdStatus>>
        /\ phase = "finish" /\ cmdFsm = "EXECUTE" /\ cmdStatus = {}
    BY <1>1, <1>10 DEF TakeCommand, mmcVars, callVars, CommandPath
  <2>2. Answered' => reply' = "good"
    BY <2>1 DEF Answered
  <2>3. ASSUME reply' = "good", step # "go_idle" PROVE HasObeyed'
    <3>1. Obeys
      BY <1>10, <2>3 DEF TakeCommand, Ignores, Misses
    <3>2. To.width = "tran" /\ To.blocklen = "tran" /\ To.stop = "tran"
      BY DEF To, From
    <3>3. step \in {"width", "blocklen", "stop"} => cardState' = "tran"
      BY <3>1, <3>2 DEF Obeys, NextStates
    <3>4. /\ step = "select" => rcaKnown
          /\ step = "width" => cardWidth' = 4
      BY <3>1 DEF Obeys, Legal
    <3> QED BY <2>1, <3>3, <3>4 DEF HasObeyed
  <2>4. reply' = "bad" => command.response # "R3"
    BY <1>10 DEF TakeCommand, Obeys, Ignores, Misses, Replies
  <2> QED BY <2>1, <2>2, <2>3, <2>4
<1>11. CASE SendBlock
  <2>1. /\ UNCHANGED <<command, step, rcaKnown, phase, outcome, cmdFsm, cmdStatus>>
        /\ UNCHANGED <<reply, cardFast, cardWidth>>
    BY <1>11 DEF SendBlock, BlockArrives, Store, EndTransfer, mmcVars, callVars
  <2>2. cardState # "tran"
    BY <1>11 DEF SendBlock
  <2>3. Answered' => Answered
    BY <2>1 DEF Answered
  <2> QED BY <2>1, <2>2, <2>3 DEF HasObeyed
<1>12. CASE SendNothing
  <2>1. /\ UNCHANGED <<command, step, rcaKnown, phase, outcome, cmdFsm, cmdStatus>>
        /\ UNCHANGED <<reply, cardFast, cardWidth>>
    BY <1>12 DEF SendNothing, mmcVars, callVars
  <2>2. cardState # "tran"
    BY <1>12 DEF SendNothing
  <2>3. Answered' => Answered
    BY <2>1 DEF Answered
  <2> QED BY <2>1, <2>2, <2>3 DEF HasObeyed
<1>13. CASE UNCHANGED vars
  BY <1>13 DEF vars, mmcVars, callVars, cardVars, HasObeyed, Answered
<1> QED BY <1>2, <1>3, <1>4, <1>5, <1>6, <1>7, <1>8, <1>9, <1>10, <1>11, <1>12,
           <1>13, DriverIs
           DEF Next, Cpu, Controller, Card

\* Host and card keep in step.
LEMMA InitStep ==
  ASSUME CardTypes, AnswerInv, InitInv, ReplyTypes, IInv, [Next]_vars PROVE InitInv'
<1>1. CommandPath /\ CommandTypes
  BY DEF IInv, HostTypeOK
<1>2. CASE StartupStep
  <2>1. /\ UNCHANGED <<kind, cardFast, hasInit>> /\ step \notin Reading
        /\ step' \in Startup \cup Selected
    BY <1>2, StartupSends DEF Keep, cardVars
  <2>2. step' \in Selected => rcaKnown'
    <3> USE DEF AnswerInv, Answered, HasObeyed, InitInv, Selected
    <3>1. CASE AppScr
      BY <3>1 DEF AppScr, Issue, Done, Between
    <3>2. CASE \/ ReadScr \/ ReadScrAgain \/ SwitchCheck \/ SwitchBusy \/ Switch
               \/ AppWidth \/ SetWidth
      BY <3>2
         DEF ReadScr, ReadScrAgain, SwitchCheck, SwitchBusy, Switch, AppWidth, SetWidth,
             Done, Failed
    <3>3. CASE ~(AppScr \/ ReadScr \/ ReadScrAgain \/ SwitchCheck \/ SwitchBusy \/ Switch
                 \/ AppWidth \/ SetWidth)
      BY <1>2, <3>3
         DEF StartupStep, GoIdle, SendIfCond, OpCondBegin, OpCond, OpCondAgain, OpCondDone,
             OpCondIgnored, RelativeAddr, SendCsd, SendStatus, StatusAgain, Select, AppScr,
             ReadScr, ReadScrAgain, SwitchCheck, SwitchBusy, Switch, AppWidth, SetWidth, Issue,
             IssueRead,
             Done, Failed, StatusEnds
    <3> QED BY <3>1, <3>2, <3>3
  <2>3. step' = "switch" => kind = "SDHC"
    BY <1>2
       DEF InitInv, StartupStep, GoIdle, SendIfCond, OpCondBegin, OpCond, OpCondAgain,
           OpCondDone, OpCondIgnored, RelativeAddr, SendCsd, SendStatus, StatusAgain, Select,
           AppScr, ReadScr, ReadScrAgain, SwitchCheck, SwitchBusy, Switch, AppWidth, SetWidth, Issue,
           IssueRead, Done, Failed, StatusEnds
  <2>4. step' \in {"app_scr", "scr", "switch_check", "switch"} => ~highSpeed'
    BY <1>2
       DEF InitInv, StartupStep, GoIdle, SendIfCond, OpCondBegin, OpCond, OpCondAgain,
           OpCondDone, OpCondIgnored, RelativeAddr, SendCsd, SendStatus, StatusAgain, Select,
           AppScr, ReadScr, ReadScrAgain, SwitchCheck, SwitchBusy, Switch, AppWidth, SetWidth, Issue,
           IssueRead, Done, Failed, StatusEnds
  <2>5. step' \in {"app_width", "width"} => highSpeed' = cardFast
    <3>1. CASE AppWidth
      <4>1. CASE Done("scr") /\ kind = "SD1" /\ UNCHANGED highSpeed
        BY <4>1 DEF InitInv, Done, CardTypes
      <4>2. CASE Done("switch_check") /\ kind # "SDHC" /\ UNCHANGED highSpeed
        BY <4>2 DEF InitInv, Done, CardTypes
      <4>3. CASE Done("switch") /\ highSpeed' = cardFast
        BY <4>3
      <4> QED BY <3>1, <4>1, <4>2, <4>3 DEF AppWidth
    <3>2. CASE SetWidth
      BY <3>2 DEF SetWidth, Done, InitInv
    <3>3. CASE ~(AppWidth \/ SetWidth)
      BY <1>2, <3>3
         DEF StartupStep, GoIdle, SendIfCond, OpCondBegin, OpCond, OpCondAgain, OpCondDone,
             OpCondIgnored, RelativeAddr, SendCsd, SendStatus, StatusAgain, Select, AppScr,
             ReadScr, ReadScrAgain, SwitchCheck, SwitchBusy, Switch, AppWidth, SetWidth, Issue,
             IssueRead,
             Done, Failed, StatusEnds
    <3> QED BY <3>1, <3>2, <3>3
  <2>6. step' \in Addressed /\ ~opIgnored' => highCapacity' = (kind = "SDHC")
    <3>1. CASE OpCondDone
      BY <3>1 DEF OpCondDone
    <3>2. CASE OpCondIgnored
      BY <3>2 DEF OpCondIgnored
    <3>3. CASE ~(OpCondDone \/ OpCondIgnored)
      <4>1. step' \in Addressed => step \in Addressed
        BY <1>2, <3>3 DEF Addressed, Selected, Reading, StartupStep, GoIdle, SendIfCond,
                          OpCondBegin, OpCond, OpCondAgain, OpCondDone, OpCondIgnored,
                          RelativeAddr, SendCsd, SendStatus, StatusAgain, Select, AppScr,
                          ReadScr, ReadScrAgain, SwitchCheck, SwitchBusy, Switch, AppWidth, SetWidth,
                          Issue, IssueRead, Done, Failed, StatusEnds
      <4>2. UNCHANGED <<opIgnored, highCapacity>>
        BY <1>2, <3>3
           DEF StartupStep, GoIdle, SendIfCond, OpCondBegin, OpCond, OpCondAgain, OpCondDone,
               OpCondIgnored, RelativeAddr, SendCsd, SendStatus, StatusAgain, Select, AppScr,
               ReadScr, ReadScrAgain, SwitchCheck, SwitchBusy, Switch, AppWidth, SetWidth, Issue,
               IssueRead, Done, Failed, StatusEnds
      <4> QED BY <4>1, <4>2 DEF InitInv
    <3> QED BY <3>1, <3>2, <3>3
  <2>7. ~hasInit' /\ step' \notin Reading
    BY <2>1 DEF InitInv, Startup, Selected, Reading
  <2> QED BY <2>1, <2>2, <2>4, <2>5, <2>6, <2>7, <2>3 DEF InitInv
<1>3. CASE Begin
  BY <1>3 DEF Begin, InitInv, Selected, Reading, Addressed, cardVars
<1>4. CASE InitDone
  <2>1. cardState = "tran" /\ cardWidth = 4 /\ rcaKnown /\ highSpeed = cardFast
    BY <1>4
       DEF InitDone, Done, AnswerInv, Answered, HasObeyed, Between, InitInv, Selected
  <2> QED BY <1>4, <2>1
             DEF InitDone, Done, InitInv, Selected, Reading, Addressed, cardVars
<1>5. CASE InitFails
  <2>1. step \notin Reading
    BY <1>5 DEF InitFails, Done, Failed, StatusEnds, Reading
  <2> QED BY <1>5, <2>1
             DEF InitFails, Keep, InitInv, Selected, Reading, Addressed, cardVars
<1>6. CASE ReadStep \/ \E q \in Requests : ReadBlocks(q[1], q[2])
  <2>1. step \in Reading /\ step' \in Reading \ Selected /\ step' \notin {"width"} /\ KeepRead
    BY <1>6, ReadIs, RequestIs DEF Reading, Selected
  <2> QED BY <2>1
             DEF KeepRead, mmcVars, cardVars, InitInv, Selected, Reading, Addressed
<1>7. CASE (Finish \/ DataFinish \/ Start \/ NotBusy) /\ Quiet
  BY <1>7 DEF Quiet, mmcVars, callVars, cardVars, InitInv
<1>8. CASE CompleteCommand
  BY <1>8 DEF CompleteCommand, mmcVars, callVars, cardVars, InitInv
<1>9. CASE TakeCommand
  <2>1. UNCHANGED <<mmcVars, callVars, kind>> /\ phase = "finish"
    BY <1>1, <1>9 DEF TakeCommand, CommandPath
  <2>2. CASE Obeys
    <3>1. cardFast' => kind = "SDHC"
      BY <2>2 DEF Obeys, InitInv
    <3>2. step \in {"app_width", "width"} => cardFast' = cardFast
      BY <2>2 DEF Obeys, CardTypes
    <3>3. ASSUME hasInit
          PROVE  /\ cardState' \in {"tran", "data", "multi"}
                 /\ cardWidth' = cardWidth /\ cardFast' = cardFast
      <4>1. step \in {"blocklen", "read", "stop"}
        BY <2>1, <3>3 DEF InitInv, Reading, CardTypes, Between
      <4>2. To.blocklen = "tran" /\ To.stop = "tran" /\ To.read \in {"multi", "data"}
        BY DEF To, From
      <4>3. cardState' = To[step]
        BY <2>2, <4>1 DEF Obeys, NextStates
      <4>4. cardState' \in {"tran", "data", "multi"}
        BY <4>1, <4>2, <4>3
      <4> QED BY <2>2, <4>1, <4>4 DEF Obeys, CardTypes
    <3> QED BY <2>1, <3>1, <3>2, <3>3 DEF mmcVars, callVars, InitInv
  <2>3. CASE Ignores \/ Misses
    BY <2>1, <2>3 DEF Ignores, Misses, mmcVars, callVars, InitInv
  <2> QED BY <1>9, <2>2, <2>3 DEF TakeCommand
<1>10. CASE SendBlock
  BY <1>10 DEF SendBlock, mmcVars, callVars, InitInv
<1>11. CASE SendNothing
  BY <1>11 DEF SendNothing, mmcVars, callVars, InitInv
<1>12. CASE UNCHANGED vars
  BY <1>12 DEF vars, mmcVars, callVars, cardVars, InitInv
<1> QED BY <1>2, <1>3, <1>4, <1>5, <1>6, <1>7, <1>8, <1>9, <1>10, <1>11, <1>12,
           DriverIs
           DEF Next, Cpu, Controller, Card

\* The three together.
CardInv == CardTypes /\ AnswerInv /\ InitInv

\* Before the first initialization the card is as it comes up.
LEMMA CardBegins == ASSUME Init PROVE CardInv
BY DEF Init, HostInit, NoCommand, CardInv, CardTypes, AnswerInv, Answered, InitInv, Between,
       Startup, Selected, Reading, Addressed

\* Host, driver and card together.
THEOREM CardInductive == Spec => [](Together /\ CardInv)
<1>1. Init => Together /\ CardInv
  BY Beginning, CardBegins
<1>2. Together /\ CardInv /\ [Next]_vars => (Together /\ CardInv)'
  <2> SUFFICES ASSUME Together, CardInv, [Next]_vars PROVE Together' /\ CardInv'
    OBVIOUS
  <2>1. Together'
    BY TogetherStep
  <2>2. CardInv'
    BY CardTypesStep, AnswerStep, InitStep DEF Together, CardInv
  <2> QED BY <2>1, <2>2
<1> QED BY <1>1, <1>2, PTL DEF Spec

\* A card that SDLIB_Init reports as found is selected, and host and card agree on width,
\* speed and addresses, whatever failed or was tried again on the way (mmc.c:798).
THEOREM FoundIsUsable == Spec => []InitMeansUsable
<1>1. CardInv => InitMeansUsable
  BY DEF CardInv, InitInv, InitMeansUsable, Addressed
<1> QED BY <1>1, CardInductive, PTL

-----------------------------------------------------------------------------
(* What is read.                                                           *)

\* A read of blocks is under way, and Chunk of the todo blocks from start0 on are being
\* read.
InRead == step \in {"blocklen", "read", "stop"}

\* The request and the registers of its command belong together, and only a read that
\* has ended has a result.
RequestInv ==
  /\ memory \in [0 .. CardBlocks -> Int]
  /\ InRead =>
       /\ asked \in Nat \X (1 .. CardBlocks) /\ start0 \in Nat /\ todo \in Nat \ {0}
       /\ start0 + todo = asked[1] + asked[2] /\ start0 >= asked[1] /\ result = "none"
  /\ step = "read" =>
       /\ command.blocks = Chunk /\ command.arg = Address(start0)
       /\ command.dst = start0 - asked[1]
  /\ step \in {"blocklen", "stop"} => ~Reads(command)
  /\ result = "ok" => step = "ready"

\* No command that reads has failed, nor sd_send_op_cond in the initialization.
Good == ~upset /\ ~opIgnored

\* The card has not got the command yet.
Unheard == start \/ (cmdFsm = "EXECUTE" /\ reply = "wait")

\* The card sends the blocks of this command, in order: the next one is the one due.
StreamInv ==
  step = "read" /\ Good =>
    /\ Unheard => got = 0 /\ cardState = "tran"
    /\ cardState \in {"data", "multi"} =>
         /\ stream = start0 + got
         /\ command.blocks = 1 => cardState = "data" /\ got = 0

\* The first n blocks of the request are in the buffer.
Filled(n) == \A i \in 0 .. n - 1 : memory[i] = asked[1] + i

\* The buffer is filled as far as the request has been served, unless a block was bad.
FilledInv ==
  Good =>
    /\ step = "blocklen" => start0 = asked[1]
    /\ step = "read" =>
         \/ Filled(start0 - asked[1] + got) /\ (phase = "idle" => got = command.blocks)
         \/ dataStatus = {"ERR"} \/ (phase = "idle" /\ outcome = "error")
    /\ step = "stop" => Filled(start0 - asked[1] + Chunk)
    /\ result = "ok" => Filled(asked[2])

\* The three together.
ReadInv == RequestInv /\ StreamInv /\ FilledInv

\* A command reads a block at least, and no more than are to be read.
LEMMA ChunkIs == ASSUME todo \in Nat \ {0} PROVE Chunk \in Nat \ {0} /\ Chunk <= todo
BY SdAssumption DEF Chunk

\* What the steps of the initialization leave alone, and that they are no reads.
LEMMA NoRead ==
  ASSUME CardTypes, Begin \/ StartupStep \/ InitDone \/ InitFails
  PROVE  /\ UNCHANGED <<memory, result>> /\ step \notin Reading
         /\ step' \in Between \cup Startup \cup Selected
<1>1. CASE Begin \/ InitDone
  BY <1>1 DEF Begin, InitDone, Reset, Done, Between, Reading
<1>2. CASE StartupStep
  BY <1>2, StartupSends DEF Sends, Keep
<1>3. CASE InitFails
  BY <1>3 DEF InitFails, Done, Failed, StatusEnds, Between, Reading, Keep
<1> QED BY <1>1, <1>2, <1>3

\* The host's own steps and the card's leave the read alone.
LEMMA ReadSame ==
  ASSUME Controller \/ Card \/ SendNothing \/ ((Finish \/ DataFinish) /\ Quiet)
  PROVE  UNCHANGED <<mmcVars, callVars, command, kind>>
BY DEF Controller, Card, CompleteCommand, Complete, TakeCommand, SendBlock, BlockArrives,
       Store, EndTransfer, SendNothing, Start, NotBusy, Finish, DataFinish, Quiet, cardVars

\* Nothing but a block is stored.
LEMMA MemorySame ==
  ASSUME Controller \/ TakeCommand \/ SendNothing \/ ((Finish \/ DataFinish) /\ Quiet)
  PROVE  UNCHANGED <<memory, got>>
BY DEF Controller, CompleteCommand, Complete, TakeCommand, SendNothing, Start, NotBusy, Finish,
       DataFinish, Quiet

\* A block changes one place of the buffer.
LEMMA BlockStored ==
  ASSUME NEW b \in Int, BlockArrives(b), memory \in [0 .. CardBlocks -> Int]
  PROVE  /\ memory' \in [0 .. CardBlocks -> Int]
         /\ \A i \in 0 .. CardBlocks : memory'[i] = IF i = dst + offset THEN b ELSE memory[i]
         /\ got' = got + 1
BY DEF BlockArrives, Store

\* Every step keeps request, registers and result together.
LEMMA RequestStep ==
  ASSUME CardTypes, CallTypes, InitInv, RequestInv, [Next]_vars PROVE RequestInv'
<1> USE DEF RequestInv, InRead
<1>1. CASE Begin \/ StartupStep \/ InitDone \/ InitFails
  <2>1. step' \notin {"blocklen", "read", "stop"} /\ result # "ok"
    BY <1>1, NoRead DEF Between, Startup, Selected, Reading
  <2> QED BY <1>1, <2>1, NoRead
<1>2. CASE ReadFirst
  <2>1. /\ step' = "read" /\ step = "blocklen" /\ memory' = memory
        /\ UNCHANGED <<start0, todo, asked, result, highCapacity>>
        /\ command' = [arg |-> Address(start0), response |-> "R1", blocks |-> Chunk,
                       dst |-> start0 - asked[1]]
    BY <1>2 DEF ReadFirst, Done, ReadChunk, IssueRead, Send, KeepRead, mmcVars
  <2> QED BY <2>1 DEF Chunk, Address
<1>3. CASE StopTransmission
  <2>1. /\ step' = "stop" /\ step = "read" /\ memory' = memory /\ command'.blocks = 0
        /\ UNCHANGED <<start0, todo, asked, result>>
    BY <1>3 DEF StopTransmission, Done, Issue, Send
  <2> QED BY <2>1 DEF Reads
<1>4. CASE ChunkDone
  <2>1. /\ step \in {"read", "stop"} /\ memory' = memory /\ asked' = asked
        /\ start0' = start0 + Chunk /\ todo' = todo - Chunk /\ highCapacity' = highCapacity
    BY <1>4 DEF ChunkDone, Done, ReadChunk, IssueRead, Send, KeepRead, mmcVars
  <2>2. Chunk \in Nat \ {0} /\ Chunk <= todo
    BY <2>1, ChunkIs
  <2>3. CASE todo' > 0
    <3>1. /\ step' = "read" /\ result' = result
          /\ command' = [arg |-> Address(start0'), response |-> "R1", blocks |-> Chunk',
                         dst |-> start0' - asked[1]]
      BY <1>4, <2>3 DEF ChunkDone, ReadChunk, IssueRead, Send, Chunk
    <3>2. Address(start0') = Address(start0)'
      BY <2>1 DEF Address
    <3>3. /\ command'.blocks = Chunk' /\ command'.arg = Address(start0)'
          /\ command'.dst = start0' - asked[1]
      BY <3>1, <3>2
    <3>4. /\ asked \in Nat \X (1 .. CardBlocks) /\ start0' \in Nat /\ todo' \in Nat \ {0}
          /\ start0' + todo' = asked[1] + asked[2] /\ start0' >= asked[1] /\ result = "none"
      <4>1. /\ asked \in Nat \X (1 .. CardBlocks) /\ start0 \in Nat /\ todo \in Nat
            /\ start0 + todo = asked[1] + asked[2] /\ start0 >= asked[1] /\ result = "none"
        BY <2>1
      <4>2. asked[1] \in Nat /\ asked[2] \in Nat
        <5>1. CardBlocks \in Nat
          BY SdAssumption
        <5> QED BY <4>1, <5>1
      <4>3. start0' = start0 + Chunk /\ todo' = todo - Chunk
        BY <2>1
      <4> HIDE DEF RequestInv
      <4> QED BY <2>2, <2>3, <4>1, <4>2, <4>3
    <3> QED BY <2>1, <3>1, <3>3, <3>4
  <2>4. CASE ~(todo' > 0)
    BY <1>4, <2>1, <2>4 DEF ChunkDone
  <2> QED BY <2>3, <2>4
<1>5. CASE ReadFails
  BY <1>5 DEF ReadFails
<1>6. CASE \E q \in Requests : ReadBlocks(q[1], q[2])
  <2>1. PICK q \in Requests : ReadBlocks(q[1], q[2])
    BY <1>6
  <2>2. q[1] \in Nat /\ q[2] \in 1 .. CardBlocks /\ CardBlocks \in Nat
    BY SdAssumption
  <2>3. /\ step' = "blocklen" /\ start0' = q[1] /\ todo' = q[2] /\ asked' = <<q[1], q[2]>>
        /\ result' = "none" /\ command'.blocks = 0 /\ memory' = memory
    BY <2>1 DEF ReadBlocks, Issue, Send
  <2> QED BY <2>2, <2>3 DEF Reads
<1>7. CASE Controller \/ TakeCommand \/ SendNothing \/ ((Finish \/ DataFinish) /\ Quiet)
  <2>1. UNCHANGED <<mmcVars, callVars, command, memory>>
    BY <1>7, ReadSame, MemorySame DEF Card
  <2> QED BY <2>1 DEF mmcVars, callVars, Chunk, Address
<1>8. CASE SendBlock
  <2>1. UNCHANGED <<mmcVars, callVars, command>>
    BY <1>8, ReadSame DEF Card
  <2>2. memory' \in [0 .. CardBlocks -> Int]
    BY <1>8, BlockStored DEF SendBlock, CallTypes, Garbage
  <2> QED BY <2>1, <2>2 DEF mmcVars, callVars, Chunk, Address
<1>9. CASE UNCHANGED vars
  BY <1>9 DEF vars, mmcVars, callVars, Chunk, Address
<1> QED BY <1>1, <1>2, <1>3, <1>4, <1>5, <1>6, <1>7, <1>8, <1>9
           DEF Next, Cpu, Driver, StartupStep, Card

\* After these commands the card waits for another.
LEMMA DoneIs ==
  ASSUME CardInv, NEW s \in {"blocklen", "stop"}, Done(s)
  PROVE  cardState = "tran"
BY DEF CardInv, AnswerInv, Answered, HasObeyed, Done, Between

\* A chunk of blocks has been read as a whole, and the card waits for a command.
LEMMA ChunkRead ==
  ASSUME CardInv, RequestInv, StreamInv, FilledInv, IInv, Good,
         Done("stop") \/ (Done("read") /\ Chunk = 1)
  PROVE  cardState = "tran" /\ Filled(start0 - asked[1] + Chunk)
<1>1. CASE Done("stop")
  BY <1>1, DoneIs DEF FilledInv, Done
<1>2. CASE Done("read") /\ Chunk = 1
  <2>1. dataStatus # {"ERR"}
    BY <1>2 DEF IInv, DataPath, Clean, Good, Done
  <2>2. got = 1 /\ command.blocks = 1 /\ Filled(start0 - asked[1] + got)
    BY <1>2, <2>1 DEF FilledInv, Done, RequestInv
  <2>3. cardState \in {"tran", "data", "multi"}
    BY <1>2 DEF CardInv, InitInv, Reading, Done
  <2> QED BY <1>2, <2>2, <2>3 DEF StreamInv, Done
<1> QED BY <1>1, <1>2

\* A command to read has been sent and not yet been received.
LEMMA ReadSent ==
  ASSUME NEW b, NEW n \in Nat \ {0}, ReadChunk(b, n)
  PROVE  /\ step' = "read" /\ phase' = "finish" /\ got' = 0
         /\ UNCHANGED <<memory, upset, dataStatus>>
BY DEF ReadChunk, IssueRead, Send, Reads

\* Once the card is found, a failure is never forgotten.
LEMMA GoodKept ==
  ASSUME step \notin Selected \cup Startup \cup {"off", "reset"}, IInv, CardInv,
         [Next]_vars, Good'
  PROVE  Good
<1>1. CASE Begin \/ StartupStep \/ InitDone \/ InitFails
  BY <1>1, NoRead DEF CardInv, CardTypes, Between, Reading
<1>2. CASE ReadStep \/ \E q \in Requests : ReadBlocks(q[1], q[2])
  BY <1>2, ReadIs, RequestIs DEF CardInv, Sends, KeepRead, Good
<1>3. CASE (Finish \/ DataFinish \/ Start \/ NotBusy) /\ Quiet
  <2>1. ~upset'
    BY DEF Good
  <2>2. ~upset
    BY <1>3, <2>1
       DEF Finish, DataFinish, Start, NotBusy, IInv, HostTypeOK, CommandTypes
  <2> QED BY <1>3, <2>2 DEF Quiet, callVars, Good
<1>4. CASE CompleteCommand \/ TakeCommand \/ SendBlock \/ SendNothing
  BY <1>4
     DEF CompleteCommand, Complete, TakeCommand, SendBlock, BlockArrives, Store, EndTransfer,
         SendNothing, callVars, Good
<1>5. CASE UNCHANGED vars
  BY <1>5 DEF vars, callVars, Good
<1> QED BY <1>1, <1>2, <1>3, <1>4, <1>5, DriverIs DEF Next, Cpu, Controller, Card

\* Every step keeps the card sending the block that is due.
LEMMA StreamStep ==
  ASSUME Together, CardInv, RequestInv, StreamInv, FilledInv, [Next]_vars
  PROVE  StreamInv'
<1> SUFFICES ASSUME step' = "read", Good'
             PROVE  /\ Unheard' => got' = 0 /\ cardState' = "tran"
                    /\ cardState' \in {"data", "multi"} =>
                         /\ stream' = start0' + got'
                         /\ command'.blocks = 1 => cardState' = "data" /\ got' = 0
  BY DEF StreamInv
<1>1. CardTypes /\ InitInv /\ IInv /\ CommandPath /\ CallTypes /\ ReplyTypes
  BY DEF CardInv, Together, IInv
<1>2. CASE Begin \/ StartupStep \/ InitDone \/ InitFails
  BY <1>1, <1>2, NoRead DEF Between, Startup, Selected
<1>3. CASE ReadFirst
  <2>1. Done("blocklen") /\ ReadChunk(start0, Chunk) /\ cardState' = cardState
    BY <1>3 DEF ReadFirst, KeepRead, cardVars
  <2>2. Chunk \in Nat \ {0}
    BY <2>1, ChunkIs DEF RequestInv, InRead, Done
  <2> QED BY <2>1, <2>2, ReadSent, DoneIs
<1>4. CASE ChunkDone
  <2>1. /\ Done("stop") \/ (Done("read") /\ Chunk = 1)
        /\ step' = "read" => ReadChunk(start0', IF todo' > BMax THEN BMax ELSE todo')
        /\ todo' > 0 /\ todo' = todo - Chunk /\ cardState' = cardState
    BY <1>4 DEF ChunkDone, KeepRead, cardVars
  <2>2. (IF todo' > BMax THEN BMax ELSE todo') \in Nat \ {0}
    <3>1. todo \in Nat \ {0} /\ Chunk \in Nat
      BY <2>1, ChunkIs DEF RequestInv, InRead, Done
    <3> QED BY <2>1, <3>1, SdAssumption
  <2>3. Good
    BY <1>1, <2>1, GoodKept DEF Done, Selected, Startup
  <2> QED BY <1>1, <2>1, <2>2, <2>3, ReadSent, ChunkRead
<1>5. CASE StopTransmission \/ ReadFails \/ \E q \in Requests : ReadBlocks(q[1], q[2])
  BY <1>5 DEF StopTransmission, ReadFails, ReadBlocks, Issue
<1>6. CASE Controller \/ Card \/ SendNothing \/ ((Finish \/ DataFinish) /\ Quiet)
  <2>1. UNCHANGED <<mmcVars, callVars, command, kind>> /\ step = "read" /\ start0' = start0
    BY <1>6, ReadSame DEF callVars
  <2>2. Good
    BY <1>1, <2>1, GoodKept DEF Selected, Startup
  <2>3. CASE Controller \/ ((Finish \/ DataFinish) /\ Quiet)
    <3>1. UNCHANGED <<got, cardState, stream>>
      BY <2>3, MemorySame DEF Controller, CompleteCommand, Quiet, cardVars
    <3>2. Unheard' => Unheard
      BY <1>1, <2>3
         DEF Controller, CompleteCommand, Complete, Start, NotBusy, Finish, DataFinish, Quiet,
             cardVars, Unheard, CommandPath, ReplyTypes
    <3> QED BY <2>1, <2>2, <3>1, <3>2 DEF StreamInv
  <2>4. CASE TakeCommand
    <3>1. Unheard /\ ~start /\ got' = got /\ got = 0 /\ cardState = "tran" /\ start' = start
      BY <1>1, <2>1, <2>2, <2>4 DEF TakeCommand, Unheard, CommandPath, StreamInv
    <3>2. ~Unheard'
      BY <2>4, <3>1 DEF TakeCommand, Obeys, Ignores, Misses, Replies, Unheard
    <3>3. CASE Obeys
      <4>1. To.read = IF command.blocks > 1 THEN "multi" ELSE "data"
        BY DEF To, From
      <4>2. cardState' = To.read
        BY <2>1, <3>3 DEF Obeys, NextStates
      <4>3. command.arg = Address(start0) /\ highCapacity = (kind = "SDHC")
        BY <1>1, <2>1, <2>2 DEF RequestInv, InitInv, Addressed, Reading, Good
      <4>4. stream' = start0
        <5>1. CASE kind = "SDHC"
          BY <2>1, <3>3, <4>3, <5>1 DEF Obeys, Address
        <5>2. CASE kind # "SDHC"
          <6>1. stream' = (start0 * BlockBytes) \div BlockBytes
            BY <2>1, <3>3, <4>3, <5>2 DEF Obeys, Address
          <6>2. start0 \in Nat /\ BlockBytes \in Nat \ {0}
            BY <2>1, SdAssumption DEF RequestInv, InRead
          <6>3. \A a \in Nat, b \in Nat \ {0} : (a * b) \div b = a
            OBVIOUS
          <6> QED BY <6>1, <6>2, <6>3
        <5> QED BY <5>1, <5>2
      <4>5. start0 \in Nat
        BY <2>1 DEF RequestInv, InRead
      <4> QED BY <2>1, <3>1, <3>2, <4>1, <4>2, <4>4, <4>5
    <3>4. CASE Ignores \/ Misses
      BY <3>1, <3>2, <3>4 DEF Ignores, Misses
    <3> QED BY <2>4, <3>3, <3>4 DEF TakeCommand
  <2>5. CASE SendBlock
    <3>1. /\ cardState \in {"data", "multi"} /\ got' = got + 1
          /\ UNCHANGED <<start, cmdFsm, reply>>
      BY <2>5 DEF SendBlock, BlockArrives, Store, EndTransfer
    <3>2. ~Unheard /\ stream = start0 + got /\ (command.blocks = 1 => cardState = "data")
      BY <2>1, <2>2, <3>1 DEF StreamInv
    <3>3. ~Unheard'
      BY <3>1, <3>2 DEF Unheard
    <3>4. start0 \in Nat /\ got \in Nat
      BY <1>1, <2>1 DEF RequestInv, InRead, IInv, HostTypeOK, DataTypes
    <3>5. IF cardState = "multi" THEN stream' = stream + 1 /\ cardState' = cardState
          ELSE cardState' = "tran"
      BY <2>5 DEF SendBlock
    <3>6. CASE cardState = "multi"
      BY <2>1, <3>1, <3>2, <3>3, <3>4, <3>5, <3>6
    <3>7. CASE cardState # "multi"
      BY <3>3, <3>5, <3>7
    <3> QED BY <3>6, <3>7
  <2>6. CASE SendNothing
    <3>1. cardState \in {"data", "multi"} /\ cardState' = "tran" /\ Unheard' = Unheard
      BY <2>6 DEF SendNothing, Unheard
    <3> QED BY <2>1, <2>2, <3>1 DEF StreamInv
  <2> QED BY <1>6, <2>3, <2>4, <2>5, <2>6 DEF Card
<1>7. CASE UNCHANGED vars
  BY <1>7 DEF vars, callVars, cardVars, StreamInv, Good, Unheard
<1> QED BY <1>2, <1>3, <1>4, <1>5, <1>6, <1>7 DEF Next, Cpu, Driver, StartupStep

\* The numbers of a read under way.
LEMMA RequestTypes ==
  ASSUME RequestInv, InRead
  PROVE  /\ asked[1] \in Nat /\ asked[2] \in Nat /\ asked[2] <= CardBlocks /\ CardBlocks \in Nat
         /\ start0 \in Nat /\ todo \in Nat \ {0}
         /\ Chunk \in Nat \ {0} /\ Chunk <= todo /\ result = "none"
         /\ start0 + todo = asked[1] + asked[2] /\ start0 >= asked[1]
         /\ step = "read" => Reads(command)
<1>1. /\ asked \in Nat \X (1 .. CardBlocks) /\ start0 \in Nat /\ todo \in Nat \ {0}
      /\ start0 + todo = asked[1] + asked[2] /\ start0 >= asked[1] /\ result = "none"
      /\ step = "read" => command.blocks = Chunk
  BY DEF RequestInv
<1>2. CardBlocks \in Nat
  BY SdAssumption
<1> QED BY <1>1, <1>2, ChunkIs DEF Reads

\* Every step keeps the buffer filled as far as the request is served.
LEMMA FilledStep ==
  ASSUME Together, CardInv, RequestInv, StreamInv, FilledInv, [Next]_vars
  PROVE  FilledInv'
<1>1. CardTypes /\ InitInv /\ IInv /\ CommandPath /\ CallTypes /\ ReplyTypes
  BY DEF CardInv, Together, IInv
<1>2. CASE Begin \/ StartupStep \/ InitDone \/ InitFails
  <2>1. step' \notin {"blocklen", "read", "stop"} /\ result' # "ok"
    BY <1>1, <1>2, NoRead DEF Between, Startup, Selected, Reading, RequestInv
  <2> QED BY <2>1 DEF FilledInv
<1> SUFFICES ASSUME ~(Begin \/ StartupStep \/ InitDone \/ InitFails), Good'
             PROVE  FilledInv'
  BY <1>2 DEF FilledInv
<1>3. CASE ReadFirst
  <2>1. Done("blocklen") /\ ReadChunk(start0, Chunk) /\ UNCHANGED <<start0, asked, result>>
    BY <1>3 DEF ReadFirst
  <2>2. Chunk \in Nat \ {0} /\ start0 = asked[1] /\ result = "none" /\ asked[1] \in Nat
    <3>1. Good
      BY <1>1, <2>1, GoodKept DEF Done, Selected, Startup
    <3> QED BY <2>1, <3>1, ChunkIs DEF RequestInv, FilledInv, InRead, Done
  <2>3. step' = "read" /\ phase' = "finish" /\ got' = 0
    BY <2>1, <2>2, ReadSent
  <2>4. Filled(start0 - asked[1] + got)'
    BY <2>1, <2>2, <2>3 DEF Filled
  <2> QED BY <2>1, <2>2, <2>3, <2>4 DEF FilledInv
<1>4. CASE StopTransmission
  <2>1. /\ Done("read") /\ step' = "stop" /\ UNCHANGED <<start0, todo, asked, result, memory>>
        /\ todo \in Nat /\ result = "none"
    BY <1>4 DEF StopTransmission, Issue, Send, RequestInv, InRead, Done
  <2>2. Good
    BY <1>1, <2>1, GoodKept DEF Done, Selected, Startup
  <2>3. dataStatus # {"ERR"}
    BY <1>1, <2>1, <2>2 DEF IInv, DataPath, Clean, Good, Done
  <2>4. Filled(start0 - asked[1] + Chunk)
    BY <2>1, <2>2, <2>3 DEF FilledInv, Done, RequestInv
  <2>5. Filled(start0 - asked[1] + Chunk)'
    BY <2>1, <2>4 DEF Filled, Chunk
  <2> QED BY <2>1, <2>5 DEF FilledInv
<1>5. CASE ChunkDone
  <2>1. /\ Done("stop") \/ (Done("read") /\ Chunk = 1)
        /\ start0' = start0 + Chunk /\ todo' = todo - Chunk /\ asked' = asked
        /\ IF todo' > 0
           THEN ReadChunk(start0', IF todo' > BMax THEN BMax ELSE todo') /\ result' = result
           ELSE step' = "ready" /\ result' = "ok" /\ UNCHANGED hostVars
    BY <1>5 DEF ChunkDone
  <2>2. Good
    BY <1>1, <2>1, GoodKept DEF Done, Selected, Startup
  <2>3. /\ Filled(start0 - asked[1] + Chunk) /\ todo \in Nat \ {0} /\ result = "none"
        /\ Chunk \in Nat \ {0} /\ Chunk <= todo /\ start0 \in Nat /\ asked[1] \in Nat
        /\ asked[2] \in Nat /\ start0 + todo = asked[1] + asked[2]
    <3>1. InRead
      BY <2>1 DEF InRead, Done
    <3> QED BY <1>1, <2>1, <2>2, <3>1, ChunkRead, RequestTypes
  <2>4. CASE todo' > 0
    <3>1. (IF todo' > BMax THEN BMax ELSE todo') \in Nat \ {0}
      BY <2>1, <2>3, <2>4, SdAssumption
    <3>2. step' = "read" /\ phase' = "finish" /\ got' = 0 /\ memory' = memory
      BY <2>1, <2>4, <3>1, ReadSent
    <3>3. start0' - asked[1] + got' = start0 - asked[1] + Chunk
      BY <2>1, <2>3, <3>2
    <3>4. Filled(start0 - asked[1] + got)'
      BY <2>1, <2>3, <3>2, <3>3 DEF Filled
    <3> QED BY <2>1, <2>3, <2>4, <3>2, <3>4 DEF FilledInv
  <2>5. CASE ~(todo' > 0)
    <3>1. start0 - asked[1] + Chunk = asked[2] /\ memory' = memory
      BY <2>1, <2>3, <2>5
    <3>2. Filled(asked[2])'
      BY <2>1, <2>3, <3>1 DEF Filled
    <3> QED BY <2>1, <2>5, <3>2 DEF FilledInv
  <2> QED BY <2>4, <2>5
<1>6. CASE ReadFails
  BY <1>6 DEF ReadFails, FilledInv
<1>7. CASE \E q \in Requests : ReadBlocks(q[1], q[2])
  <2>1. PICK q \in Requests : ReadBlocks(q[1], q[2])
    BY <1>7
  <2> QED BY <2>1 DEF ReadBlocks, Issue, FilledInv
<1>8. CASE Controller \/ Card \/ SendNothing \/ ((Finish \/ DataFinish) /\ Quiet)
  <2>1. UNCHANGED <<callVars, command>>
    BY <1>8, ReadSame
  <2>2. CASE ~(InRead \/ result = "ok")
    BY <2>1, <2>2 DEF callVars, InRead, FilledInv
  <2>3. CASE InRead \/ result = "ok"
    <3>1. Good /\ FilledInv
      BY <1>1, <2>3, GoodKept DEF InRead, Selected, Startup, RequestInv
    <3>2. CASE Controller \/ TakeCommand \/ SendNothing
      <4>1. UNCHANGED <<memory, got, phase, outcome, dataStatus>>
        BY <3>2, MemorySame
           DEF Controller, CompleteCommand, Complete, Start, NotBusy, TakeCommand, SendNothing
      <4> QED BY <2>1, <3>1, <4>1 DEF callVars, FilledInv, Filled, Chunk
    <3>3. CASE Finish /\ Quiet
      <4>1. UNCHANGED <<memory, got, dataStatus>> /\ phase = "finish"
        BY <3>3 DEF Finish
      <4>2. step = "read" => phase' # "idle"
        BY <1>1, <3>3, RequestTypes
           DEF Finish, Good, InRead, IInv, HostTypeOK, CommandTypes
      <4> QED BY <2>1, <3>1, <4>1, <4>2 DEF callVars, FilledInv, Filled, Chunk
    <3>4. CASE DataFinish /\ Quiet
      <4>1. UNCHANGED <<memory, got>> /\ phase = "data" /\ phase' = "idle"
        BY <3>4 DEF DataFinish
      <4>2. \/ dataStatus = {"TRS"} /\ got = command.blocks
            \/ dataStatus = {"ERR"} /\ outcome' = "error"
        BY <1>1, <3>1, <3>4
           DEF DataFinish, Good, IInv, DataPath, Transfer, CommandPath
      <4> QED BY <2>1, <3>1, <4>1, <4>2 DEF callVars, FilledInv, Filled, Chunk
    <3>5. CASE SendBlock
      <4>1. PICK block \in {stream, Garbage} : BlockArrives(block)
        BY <3>5 DEF SendBlock
      <4>2. /\ dataFsm = "READ_WAIT" /\ UNCHANGED <<phase, outcome>>
            /\ cardState \in {"data", "multi"} /\ block \in Int
        BY <1>1, <3>5, <4>1 DEF SendBlock, BlockArrives, CallTypes, Garbage
      <4>3. /\ phase # "idle" /\ Reads(command) /\ dataStatus = {}
            /\ got + left = command.blocks - 1 /\ offset = got /\ dst = command.dst
        BY <1>1, <3>1, <4>2 DEF Good, IInv, DataPath, Transfer, Clean
      <4>4. step = "read" /\ result # "ok"
        BY <1>1, <2>3, <4>3 DEF CardTypes, Between, RequestInv, InRead
      <4>5. CASE block = Garbage
        <5>1. dataStatus' = {"ERR"}
          BY <4>1, <4>3, <4>5 DEF BlockArrives, EndTransfer
        <5> QED BY <2>1, <4>4, <5>1 DEF callVars, FilledInv
      <4>6. CASE block = stream
        <5> DEFINE k == start0 - asked[1] + got
        <5>1. Filled(k) /\ stream = start0 + got
          BY <3>1, <4>2, <4>3, <4>4 DEF FilledInv, StreamInv
        <5>2. /\ start0 \in Nat /\ asked[1] \in Nat /\ asked[2] \in Nat /\ CardBlocks \in Nat
              /\ asked[2] <= CardBlocks /\ start0 >= asked[1] /\ got \in Nat /\ left \in Nat
              /\ start0 + todo = asked[1] + asked[2] /\ todo \in Nat
              /\ command.blocks = Chunk /\ Chunk <= todo /\ Chunk \in Nat
              /\ command.dst = start0 - asked[1]
          <6>1. InRead /\ got \in Nat /\ left \in Nat
            BY <1>1, <4>4 DEF InRead, IInv, HostTypeOK, DataTypes
          <6>2. command.blocks = Chunk /\ command.dst = start0 - asked[1]
            BY <4>4 DEF RequestInv
          <6> QED BY <6>1, <6>2, RequestTypes
        <5>3. k \in 0 .. CardBlocks /\ dst + offset = k /\ k + asked[1] = stream
          BY <4>3, <5>1, <5>2
        <5>4. /\ \A i \in 0 .. CardBlocks : memory'[i] = IF i = k THEN stream ELSE memory[i]
              /\ got' = got + 1
          BY <4>1, <4>2, <4>6, <5>3, BlockStored DEF RequestInv
        <5>5. \A i \in 0 .. k : memory'[i] = asked[1] + i
          BY <5>1, <5>2, <5>3, <5>4 DEF Filled
        <5>6. start0' - asked'[1] + got' = k + 1 /\ asked' = asked
          BY <2>1, <5>2, <5>4 DEF callVars
        <5>7. Filled(start0 - asked[1] + got)'
          BY <5>2, <5>5, <5>6 DEF Filled
        <5> QED BY <2>1, <4>2, <4>3, <4>4, <5>7 DEF callVars, FilledInv
      <4> QED BY <4>5, <4>6
    <3> QED BY <1>8, <3>2, <3>3, <3>4, <3>5 DEF Card
  <2> QED BY <2>2, <2>3
<1>9. CASE UNCHANGED vars
  BY <1>9 DEF vars, callVars, FilledInv, Good, Filled, Chunk
<1> QED BY <1>3, <1>4, <1>5, <1>6, <1>7, <1>8, <1>9
           DEF Next, Cpu, Driver, StartupStep

\* Nothing has been read at first.
LEMMA ReadBegins == ASSUME Init PROVE ReadInv
BY DEF Init, HostInit, NoCommand, ReadInv, RequestInv, InRead, StreamInv, FilledInv, Garbage

\* They hold of the driver with its card.
THEOREM ReadInductive == Spec => []ReadInv
<1>1. Init => ReadInv
  BY ReadBegins
<1>2. Together /\ CardInv /\ ReadInv /\ [Next]_vars => ReadInv'
  <2> SUFFICES ASSUME Together, CardInv, ReadInv, [Next]_vars PROVE ReadInv'
    OBVIOUS
  <2> QED BY RequestStep, StreamStep, FilledStep DEF Together, CardInv, ReadInv
<1> QED BY <1>1, <1>2, CardInductive, PTL DEF Spec

\* A read that mmc_bread reports as done has put the blocks asked for into the buffer, in
\* as many commands as it takes (mmc.c:760), for every size of card, request and command.
THEOREM BlocksAsAsked == Spec => []ReadIsExact
<1>1. ReadInv => ReadIsExact
  BY DEF ReadInv, FilledInv, Good, Filled, ReadIsExact
<1> QED BY <1>1, ReadInductive, PTL
=============================================================================
