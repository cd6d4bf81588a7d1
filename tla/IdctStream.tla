---------------------------- MODULE IdctStream ----------------------------
(***************************************************************************)
(* The streaming accelerator twod_idct_st_hw, clock cycle by clock cycle.  *)
(* A block enters as 32 words of two coefficients and leaves as 16 words   *)
(* of four.  Each row of four words goes through the pipelined idct_1D     *)
(* into TMPBUF; when it holds eight rows its columns go through idct_1D    *)
(* into OUTBUF, from which the block leaves while the next one enters.     *)
(*                                                                         *)
(* Words are numbered through all blocks, in the order the source sends    *)
(* them; rows, columns and outgoing words likewise.  What is not whole, or *)
(* not of one block, is Torn.  A register's new value is computed from the *)
(* old ones; of several assignments in the process the last one counts.    *)
(***************************************************************************)
EXTENDS Integers, Sequences

CONSTANT Blocks   \* bound: blocks the source sends

ASSUME StreamAssumption == Blocks \in Nat

VARIABLES
  \* rows in
  srcReady,     \* SRC_READY, SRC_READY_SIG
  inputCount,   \* DATA_input_count, in words
  dataCount,    \* DATA_count: words of the row coming in
  idctCount,    \* IDCT_count: rows that have come in
  inbuf,        \* INBUF, by words
  rowDue,       \* IDCT_flag
  rowTimer,     \* IDCT_timeout
  \* the transform
  stages,       \* i_r and the three register stages of idct_1D
  pass,         \* PASS_R, counted from 1
  tmpFree,      \* TMPBUF_FREE
  tmpCount,     \* TMPBUF_count
  tmpbuf,       \* TMPBUF, by rows
  \* columns out
  sweep,        \* sweep_horizontal_count
  fetch,        \* fetch_outbuf
  outFree,      \* OUTBUF_FREE
  outbuf,       \* OUTBUF, by columns
  outCount,     \* dma_output_count
  dstValid,     \* DST_VALID, DST_VALID_SIG
  dataOut,      \* DATAOUT
  lastReady,    \* LAST_DST_READY_STATE
  lastValid,    \* LAST_DST_VALID_SIG
  streaming,    \* testtest
  \* history
  sent,         \* words taken from the source
  received,     \* words taken by the sink
  stalled       \* the sink has been unready while a block was in OUTBUF

rowVars == <<srcReady, inputCount, dataCount, idctCount, inbuf, rowDue, rowTimer>>
transformVars == <<stages, pass, tmpFree, tmpCount, tmpbuf, sweep, fetch, outbuf>>
outVars == <<outFree, outCount, dstValid, dataOut, lastReady, lastValid, streaming>>
vars == <<rowVars, transformVars, outVars, sent, received, stalled>>

Torn == -1

Init ==
  /\ srcReady = TRUE /\ inputCount = 0 /\ dataCount = 0 /\ idctCount = 0
  /\ inbuf = [i \in 0 .. 31 |-> Torn] /\ rowDue = 0 /\ rowTimer = 0
  /\ stages = [i \in 1 .. 4 |-> [pass |-> 1, line |-> Torn]] /\ pass = 1
  /\ tmpFree = TRUE /\ tmpCount = 0 /\ tmpbuf = [r \in 0 .. 7 |-> Torn]
  /\ sweep = 0 /\ fetch = 0 /\ outbuf = [c \in 0 .. 7 |-> Torn]
  /\ outFree = TRUE /\ outCount = 0 /\ dstValid = FALSE /\ dataOut = Torn
  /\ lastReady = FALSE /\ lastValid = FALSE /\ streaming = FALSE
  /\ sent = 0 /\ received = 0 /\ stalled = FALSE

\* What happens on a clock edge, given SRC_VALID and DST_READY.
Accepted(valid) == valid /\ srcReady /\ tmpFree /\ sweep = 0
RowIn(valid) == Accepted(valid) /\ dataCount = 3
BlockIn(valid) == RowIn(valid) /\ idctCount = 7
Sweeping == tmpCount = 8 /\ outFree /\ sweep < 8
Swept == sweep = 8
Storing == rowTimer = 1 /\ sweep = 0
Sending == fetch = 0 /\ outCount > 0
Taken(ready) == dstValid /\ ready
BlockOut(ready) == Taken(ready) /\ outCount = 1

\* Line i of a block whose parts are the n numbers of f, one after the other.
Whole(f, first, n) == f[first] # Torn /\ \A i \in 0 .. n - 1 : f[first + i] = f[first] + i

-----------------------------------------------------------------------------
(* Rows in                                                                 *)

CollectWords(valid) ==
  /\ sent' = IF valid /\ srcReady THEN sent + 1 ELSE sent
  /\ inbuf' = IF Accepted(valid) THEN [inbuf EXCEPT ![inputCount] = sent] ELSE inbuf
  /\ inputCount' = IF BlockIn(valid) THEN 0
                   ELSE IF Accepted(valid) THEN inputCount + 1 ELSE inputCount

\* A row is due the cycle after its last word; a word that comes in then counts for
\* the next row (even if SRC_READY is down, which the end of the block corrects).
CountRows(valid) ==
  LET row == dataCount > 3
  IN  /\ dataCount' = IF tmpCount = 8 THEN 0
                      ELSE IF row THEN dataCount - (IF valid THEN 3 ELSE 4)
                      ELSE IF Accepted(valid) THEN dataCount + 1 ELSE dataCount
      /\ idctCount' = IF tmpCount = 8 THEN 0
                      ELSE IF row THEN idctCount + 1 ELSE idctCount
      /\ rowDue' = IF rowDue # 0 /\ rowTimer = 0 THEN rowDue - 1
                   ELSE IF row THEN rowDue + 1 ELSE rowDue
      /\ rowTimer' = IF rowTimer # 0 THEN rowTimer - 1 ELSE IF rowDue # 0 THEN 2 ELSE 0

\* Mutant of OfferSource: the source may go on while TMPBUF is in use.
OfferSourceAtOnce(valid) ==
  srcReady' = (Sending \/ (srcReady /\ ~BlockIn(valid)))

\* The next block may come in from when this one leaves and TMPBUF is free.
OfferSource(valid) ==
  srcReady' = \/ Sending /\ tmpFree /\ ~(idctCount = 7 /\ dataCount = 3)
              \/ srcReady /\ ~BlockIn(valid)

-----------------------------------------------------------------------------
(* The two passes                                                          *)

\* The row whose fourth word is on DATAIN, and the column at sweep.
TheRow ==
  LET first == 4 * idctCount
  IN  IF Whole(inbuf, first, 3) /\ inbuf[first] % 4 = 0 /\ sent = inbuf[first] + 3
      THEN sent \div 4 ELSE Torn
TheColumn ==
  IF Whole(tmpbuf, 0, 8) /\ tmpbuf[0] % 8 = 0 THEN tmpbuf[0] + sweep ELSE Torn

\* The registers of idct_1D; the pass selects its scaling behind the last of them.
Transform(valid) ==
  /\ stages' = << IF Sweeping THEN [pass |-> 2, line |-> TheColumn]
                  ELSE IF RowIn(valid) THEN [pass |-> 1, line |-> TheRow]
                  ELSE stages[1] >> \o SubSeq(stages, 1, 3)
  /\ pass' = IF Sweeping THEN 2 ELSE IF RowIn(valid) \/ dataCount > 3 THEN 1 ELSE pass
Output1D == IF stages[4].pass = pass THEN stages[4].line ELSE Torn

StoreRow(valid) ==
  /\ tmpbuf' = IF Storing THEN [tmpbuf EXCEPT ![tmpCount] = Output1D] ELSE tmpbuf
  /\ tmpCount' = IF Swept THEN 0 ELSE IF Storing THEN tmpCount + 1 ELSE tmpCount
  /\ tmpFree' = (Swept \/ (tmpFree /\ ~BlockIn(valid)))

\* Mutant of StoreColumn: the first column is taken from idct_1D a cycle early.
StoreColumnEarly ==
  /\ sweep' = IF Swept THEN 0 ELSE IF Sweeping THEN sweep + 1 ELSE sweep
  /\ fetch' = IF fetch # 0 THEN fetch - 1 ELSE IF Sweeping /\ sweep = 2 THEN 8 ELSE 0
  /\ outbuf' = IF fetch # 0 THEN [outbuf EXCEPT ![8 - fetch] = Output1D] ELSE outbuf

\* The columns leave idct_1D four cycles after they enter it.
StoreColumn ==
  /\ sweep' = IF Swept THEN 0 ELSE IF Sweeping THEN sweep + 1 ELSE sweep
  /\ fetch' = IF fetch # 0 THEN fetch - 1 ELSE IF Sweeping /\ sweep = 3 THEN 8 ELSE 0
  /\ outbuf' = IF fetch # 0 THEN [outbuf EXCEPT ![8 - fetch] = Output1D] ELSE outbuf

-----------------------------------------------------------------------------
(* Words out                                                               *)

\* The k-th word of the block in OUTBUF: half a row.
WordOut(k) ==
  LET first == 4 * (k % 2)
  IN  IF Whole(outbuf, first, 4) /\ outbuf[first] % 8 = first
      THEN 16 * (outbuf[first] \div 8) + k ELSE Torn

\* The word shown next is the one after the current word if the current one is known
\* to be taken.
ShowWord(ready) ==
  LET k == 16 - outCount
  IN  dataOut' = IF ~Sending THEN dataOut
                 ELSE IF outCount # 1 /\ (streaming \/ (~lastReady /\ ready /\ k # 0))
                      THEN WordOut(k + 1) ELSE WordOut(k)

\* Mutant of CountWords: OUTBUF stays in use.
CountWordsHeld(ready) ==
  /\ outCount' = IF BlockOut(ready) THEN 0
                 ELSE IF Taken(ready) /\ outCount > 1 THEN outCount - 1
                 ELSE IF fetch # 0 THEN outCount + 2 ELSE outCount
  /\ outFree' = (outFree /\ ~Swept)
  /\ dstValid' = (~BlockOut(ready) /\ (dstValid \/ Sending))

CountWords(ready) ==
  /\ outCount' = IF BlockOut(ready) THEN 0
                 ELSE IF Taken(ready) /\ outCount > 1 THEN outCount - 1
                 ELSE IF fetch # 0 THEN outCount + 2 ELSE outCount
  /\ outFree' = (BlockOut(ready) \/ (outFree /\ ~Swept))
  /\ dstValid' = (~BlockOut(ready) /\ (dstValid \/ Sending))

Remember(ready) ==
  /\ streaming' = /\ ready /\ (dstValid \/ ~lastValid) /\ ~BlockOut(ready)
                  /\ streaming \/ (Sending /\ lastReady)
  /\ lastReady' = ready /\ lastValid' = dstValid
  /\ received' = IF Taken(ready) THEN received + 1 ELSE received
  /\ stalled' = (stalled \/ (outCount > 0 /\ ~ready))

-----------------------------------------------------------------------------
Clock(valid, ready) ==
  /\ CollectWords(valid) /\ CountRows(valid) /\ OfferSource(valid)
  /\ Transform(valid) /\ StoreRow(valid) /\ StoreColumn
  /\ ShowWord(ready) /\ CountWords(ready) /\ Remember(ready)

\* The read master has a word or not; the write master has room or not.
Edge(valid, ready) ==
  /\ valid => sent < 32 * Blocks
  /\ Clock(valid, ready)

Next == \E valid, ready \in BOOLEAN : Edge(valid, ready)

Spec == Init /\ [][Next]_vars

\* The clock runs; a source with words left offers one again and again, and the sink
\* has room again and again.
FairSpec ==
  /\ Spec
  /\ SF_vars(\E ready \in BOOLEAN : Edge(TRUE, ready))
  /\ SF_vars(\E valid \in BOOLEAN : Edge(valid, TRUE))

-----------------------------------------------------------------------------
(* Properties.                                                             *)

\* A word the source hands over is taken in and has its place in INBUF, as a row has in
\* TMPBUF: SRC_READY is never up while TMPBUF is in use or swept, although three places
\* in the process decide on it and the rows arrive when TMPBUF may be full already.
ReadyMeansAccepted ==
  /\ srcReady => tmpFree /\ sweep = 0 /\ inputCount < 32
  /\ Storing => tmpCount < 8

\* The sink gets every word of every block once and in order, whole, whatever the
\* gaps in the source's words and between blocks.  If the sink becomes ready only as
\* the first word is shown, or later stalls, a word comes twice and the next one never.
WordsInOrder == [][received' # received /\ ~stalled => dataOut = received]_vars

\* All blocks that come in leave, with as many words as they have, even if the sink
\* stalls: rows, columns and the three buffers never wait for each other.
AllLeave == <>(received = 16 * Blocks)
=============================================================================
