----------------------------- MODULE WorkerJobs -----------------------------
(***************************************************************************)
(* Worker 1 takes one command after the other and computes: the bits of a  *)
(* plane (LosslessBits), or its rows of a frame (RowSplit), while worker 2 *)
(* and the main CPU convert theirs.  The commands may come in any order,   *)
(* but a frame is converted once.                                          *)
(***************************************************************************)
EXTENDS LosslessBits, RowSplit

VARIABLE command   \* message[0] while the worker is at it, otherwise "none"

jobVars == <<command, vars, rowVars>>

JobInit == command = "none" /\ Init /\ RowInit

\* lossless_decode is called for another plane: its locals are new.
ReceiveDecode ==
  /\ command = "none" /\ command' = "COMMAND_LOSSLESS_DECODE"
  /\ bitbuffer' = [i \in 1 .. 32 |-> Zero] /\ bitstream' = 0 /\ bitcount' = 0
  /\ next' = "fill" /\ index' = 0 /\ consumed' = 0
  /\ UNCHANGED rowVars

LosslessDecode ==
  /\ command = "COMMAND_LOSSLESS_DECODE"
  /\ Next
  /\ UNCHANGED <<command, rowVars>>

\* num_blocks blocks are decoded.
DecodeDone ==
  /\ command = "COMMAND_LOSSLESS_DECODE" /\ next = "DC" /\ index # 0
  /\ command' = "none"
  /\ UNCHANGED <<vars, rowVars>>

ReceiveConvert ==
  /\ command = "none" /\ command' = "COMMAND_COLOR_CONVERT"
  /\ Begin("middle")
  /\ UNCHANGED vars

ColorConvert ==
  /\ command = "COMMAND_COLOR_CONVERT"
  /\ ConvertRow("middle")
  /\ UNCHANGED <<command, vars>>

ConvertDone ==
  /\ command = "COMMAND_COLOR_CONVERT" /\ Done("middle")
  /\ command' = "none"
  /\ UNCHANGED <<vars, rowVars>>

\* Worker 2 and the main CPU.
OtherConvert ==
  /\ \E range \in Ranges \ {"middle"} : Begin(range) \/ ConvertRow(range)
  /\ UNCHANGED <<command, vars>>

\* The main CPU has both acknowledgements and turns to the next frame, or video.
NextFrame ==
  /\ \A range \in Ranges : Done(range)
  /\ command # "COMMAND_COLOR_CONVERT"
  /\ height' \in Heights
  /\ row' = [range \in Ranges |-> 0] /\ started' = {}
  /\ conversions' = [range \in Ranges |-> {}]
  /\ UNCHANGED <<command, vars>>

JobNext ==
  \/ ReceiveDecode \/ LosslessDecode \/ DecodeDone
  \/ ReceiveConvert \/ ColorConvert \/ ConvertDone
  \/ OtherConvert \/ NextFrame

JobSpec == JobInit /\ [][JobNext]_jobVars
=============================================================================
