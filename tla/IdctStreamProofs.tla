-------------------------- MODULE IdctStreamProofs --------------------------
(***************************************************************************)
(* Words, rows and columns keep to their places in the accelerator, for    *)
(* every number of blocks and whatever the gaps in the source's words.     *)
(***************************************************************************)
EXTENDS IdctStream, SequenceTheorems, TLAPS

-----------------------------------------------------------------------------
(* Rows in.                                                                *)

RowTypes ==
  /\ srcReady \in BOOLEAN /\ tmpFree \in BOOLEAN
  /\ inputCount \in 0 .. 31 /\ dataCount \in 0 .. 4 /\ idctCount \in 0 .. 8
  /\ rowDue \in 0 .. 1 /\ rowTimer \in 0 .. 2
  /\ tmpCount \in 0 .. 8 /\ sweep \in 0 .. 8

\* The rows that have come in and are not in TMPBUF yet.
OnTheirWay == rowDue + (IF rowTimer = 0 THEN 0 ELSE 1)

\* While a block comes in its words are counted, SRC_READY stays up, and each row is in
\* TMPBUF before the next one is complete: the delays are shorter than four words.
Filling ==
  tmpFree =>
    /\ inputCount = 4 * idctCount + dataCount
    /\ inputCount # 0 => srcReady
    /\ idctCount = tmpCount + OnTheirWay /\ sweep = 0

\* When it is complete its last row arrives, and the counters are reset.
Draining ==
  ~tmpFree =>
    /\ inputCount = 0 /\ ~srcReady
    /\ \/ tmpCount = 7 /\ idctCount = 7 /\ dataCount = 4 /\ sweep = 0
       \/ tmpCount = 7 /\ idctCount = 8 /\ dataCount <= 1 /\ OnTheirWay = 1 /\ sweep = 0
       \/ tmpCount = 8 /\ dataCount <= 1 /\ OnTheirWay = 0

Delays ==
  /\ rowDue = 1 => rowTimer = 0 /\ dataCount <= 1
  /\ rowTimer # 0 => dataCount + rowTimer <= 4

FlowInv == RowTypes /\ Filling /\ Draining /\ Delays

\* The rows' delays take their course; a row is stored while the next one comes in.
LEMMA DelayStep ==
  ASSUME FlowInv, NEW valid \in BOOLEAN, NEW ready \in BOOLEAN, Clock(valid, ready)
  PROVE  /\ rowDue' = IF dataCount = 4 THEN 1 ELSE 0
         /\ rowTimer' = IF rowDue = 1 THEN 2 ELSE IF rowTimer = 2 THEN 1 ELSE 0
         /\ Storing <=> rowTimer = 1
         /\ sweep' = IF Swept THEN 0 ELSE IF Sweeping THEN sweep + 1 ELSE sweep
         /\ tmpCount' = IF Swept THEN 0 ELSE IF rowTimer = 1 THEN tmpCount + 1 ELSE tmpCount
         /\ tmpFree' = (Swept \/ (tmpFree /\ ~BlockIn(valid)))
<1>1. rowTimer = 1 => sweep = 0
  BY DEF FlowInv, RowTypes, Filling, Draining, OnTheirWay
<1>2. Storing <=> rowTimer = 1
  BY <1>1 DEF Storing
<1>3. /\ rowDue' = IF dataCount = 4 THEN 1 ELSE 0
      /\ rowTimer' = IF rowDue = 1 THEN 2 ELSE IF rowTimer = 2 THEN 1 ELSE 0
  BY DEF FlowInv, RowTypes, Delays, Clock, CountRows
<1> QED BY <1>2, <1>3 DEF Clock, StoreRow, StoreColumn

\* The words' counters.
LEMMA WordStep ==
  ASSUME FlowInv, NEW valid \in BOOLEAN, NEW ready \in BOOLEAN, Clock(valid, ready)
  PROVE  /\ Accepted(valid) <=> valid /\ srcReady
         /\ srcReady => tmpFree
         /\ inputCount' = IF BlockIn(valid) THEN 0
                          ELSE IF Accepted(valid) THEN inputCount + 1 ELSE inputCount
         /\ sent' = IF Accepted(valid) THEN sent + 1 ELSE sent
         /\ BlockIn(valid) <=> Accepted(valid) /\ inputCount = 31
         /\ srcReady' => \/ Sending /\ tmpFree /\ ~BlockIn(valid)
                         \/ srcReady /\ ~BlockIn(valid)
         /\ srcReady /\ ~BlockIn(valid) => srcReady'
<1>1. srcReady => tmpFree /\ sweep = 0
  BY DEF FlowInv, RowTypes, Filling, Draining
<1>2. Accepted(valid) <=> valid /\ srcReady
  BY <1>1 DEF Accepted
<1>3. BlockIn(valid) <=> Accepted(valid) /\ inputCount = 31
  BY <1>1, <1>2 DEF FlowInv, RowTypes, Filling, BlockIn, RowIn
<1> QED BY <1>1, <1>2, <1>3
        DEF Clock, CollectWords, OfferSource, BlockIn, RowIn

\* The counters of a row and of the rows.
LEMMA RowStep ==
  ASSUME FlowInv, NEW valid \in BOOLEAN, NEW ready \in BOOLEAN, Clock(valid, ready)
  PROVE  /\ tmpCount = 8 => dataCount' = 0 /\ idctCount' = 0
         /\ tmpCount # 8 /\ dataCount = 4 =>
              dataCount' = (IF valid THEN 1 ELSE 0) /\ idctCount' = idctCount + 1
         /\ tmpCount # 8 /\ dataCount # 4 =>
              /\ dataCount' = (IF Accepted(valid) THEN dataCount + 1 ELSE dataCount)
              /\ idctCount' = idctCount
<1>1. dataCount \in 0 .. 4 /\ tmpCount \in 0 .. 8
  BY DEF FlowInv, RowTypes
<1> QED BY <1>1 DEF Clock, CountRows

LEMMA FlowStep ==
  ASSUME FlowInv, NEW valid \in BOOLEAN, NEW ready \in BOOLEAN, Clock(valid, ready)
  PROVE  FlowInv'
<1> DEFINE sr == srcReady'
           tf == tmpFree'
           n == inputCount'
           d == dataCount'
           i == idctCount'
           rd == rowDue'
           rt == rowTimer'
           t == tmpCount'
           s == sweep'
           w == OnTheirWay'
           in == Accepted(valid)
           out == Swept
           up == Sending
           go == Sweeping
<1>1. sr \in BOOLEAN /\ tf \in BOOLEAN
  BY DEF Clock, OfferSource, StoreRow
<1>2. w = rd + (IF rt = 0 THEN 0 ELSE 1)
  BY DEF OnTheirWay
<1>3. /\ rd = IF dataCount = 4 THEN 1 ELSE 0
      /\ rt = IF rowDue = 1 THEN 2 ELSE IF rowTimer = 2 THEN 1 ELSE 0
      /\ s = IF out THEN 0 ELSE IF go THEN sweep + 1 ELSE sweep
      /\ t = IF out THEN 0 ELSE IF rowTimer = 1 THEN tmpCount + 1 ELSE tmpCount
      /\ tf <=> out \/ (tmpFree /\ ~ (in /\ inputCount = 31))
  BY <1>1, DelayStep, WordStep
<1>4. /\ in <=> valid /\ srcReady
      /\ n = IF in /\ inputCount = 31 THEN 0 ELSE IF in THEN inputCount + 1 ELSE inputCount
      /\ sr => ((up /\ tmpFree) \/ srcReady) /\ ~ (in /\ inputCount = 31)
      /\ srcReady /\ ~ (in /\ inputCount = 31) => sr
  BY WordStep
<1>5. /\ tmpCount = 8 => d = 0 /\ i = 0
      /\ tmpCount # 8 /\ dataCount = 4 =>
           d = (IF valid THEN 1 ELSE 0) /\ i = idctCount + 1
      /\ tmpCount # 8 /\ dataCount # 4 =>
           d = (IF in THEN dataCount + 1 ELSE dataCount) /\ i = idctCount
  BY RowStep
<1>6. /\ out <=> sweep = 8
      /\ go => tmpCount = 8 /\ sweep < 8
  BY DEF Swept, Sweeping
<1>7. SUFFICES
      /\ n \in 0 .. 31 /\ d \in 0 .. 4 /\ i \in 0 .. 8 /\ rd \in 0 .. 1 /\ rt \in 0 .. 2
      /\ t \in 0 .. 8 /\ s \in 0 .. 8
      /\ tf => n = 4 * i + d /\ (n # 0 => sr) /\ i = t + w /\ s = 0
      /\ ~tf => /\ n = 0 /\ ~sr
                /\ \/ t = 7 /\ i = 7 /\ d = 4 /\ s = 0
                   \/ t = 7 /\ i = 8 /\ d <= 1 /\ w = 1 /\ s = 0
                   \/ t = 8 /\ d <= 1 /\ w = 0
      /\ rd = 1 => rt = 0 /\ d <= 1
      /\ rt # 0 => d + rt <= 4
  BY <1>1 DEF FlowInv, RowTypes, Filling, Draining, Delays
<1> HIDE DEF sr, tf, n, d, i, rd, rt, t, s, w, in, out, up, go
<1> USE DEF FlowInv, RowTypes, Filling, Draining, Delays, OnTheirWay
<1>8. CASE tmpFree /\ dataCount = 4
  BY <1>1, <1>2, <1>3, <1>4, <1>5, <1>6, <1>8
<1>9. CASE tmpFree /\ dataCount # 4
  BY <1>1, <1>2, <1>3, <1>4, <1>5, <1>6, <1>9
<1>10. CASE ~tmpFree /\ tmpCount # 8
  BY <1>1, <1>2, <1>3, <1>4, <1>5, <1>6, <1>10
<1>11. CASE ~tmpFree /\ tmpCount = 8
  <2>1. rowDue = 0 /\ rowTimer = 0 /\ dataCount # 4 /\ ~srcReady /\ inputCount = 0
    BY <1>11
  <2>2. CASE out
    BY <1>1, <1>2, <1>3, <1>4, <1>5, <1>6, <1>11, <2>1, <2>2
  <2>3. CASE ~out
    BY <1>1, <1>2, <1>3, <1>4, <1>5, <1>6, <1>11, <2>1, <2>3
  <2> QED BY <2>2, <2>3
<1> QED BY <1>8, <1>9, <1>10, <1>11

LEMMA FlowInit == Init => FlowInv
BY DEF Init, FlowInv, RowTypes, Filling, Draining, Delays, OnTheirWay

THEOREM StreamFlow == Spec => []FlowInv
<1>1. FlowInv /\ [Next]_vars => FlowInv'
  <2>1. ASSUME FlowInv, UNCHANGED vars PROVE FlowInv'
    BY <2>1 DEF vars, rowVars, transformVars, FlowInv, RowTypes, Filling, Draining, Delays,
                OnTheirWay
  <2> QED BY <2>1, FlowStep DEF Next, Edge
<1> QED BY <1>1, FlowInit, PTL DEF Spec

\* A word the source hands over is taken in and has its place in INBUF, and a row in TMPBUF,
\* for every number of blocks and whatever the gaps between words.
THEOREM Accepting == Spec => []ReadyMeansAccepted
<1>1. FlowInv => ReadyMeansAccepted
  BY DEF FlowInv, RowTypes, Filling, Draining, OnTheirWay, ReadyMeansAccepted, Storing
<1> QED BY <1>1, StreamFlow, PTL

-----------------------------------------------------------------------------
(* The invariant of the data.                                              *)

\* The block that comes in or is in TMPBUF, and the one that is in OUTBUF or will be next.
Block == IF tmpFree THEN (sent - inputCount) \div 32 ELSE sent \div 32 - 1
OutBlock == IF outFree THEN Block ELSE Block - 1

\* INBUF holds the words of the block so far.
WordsInv ==
  /\ sent \in Nat /\ inbuf \in [0 .. 31 -> Int]
  /\ sent = 32 * Block + (IF tmpFree THEN inputCount ELSE 32)
  /\ \A i \in 0 .. inputCount - 1 : inbuf[i] = 32 * Block + i

\* A row or column in a register of idct_1D.
Row(r) == [pass |-> 1, line |-> r]
Column(c) == [pass |-> 2, line |-> c]

\* The row on its way to TMPBUF is the next one there, and its delay counts its stages.
RowsInv ==
  /\ stages \in Seq([pass : {1, 2}, line : Int]) /\ Len(stages) = 4 /\ pass \in {1, 2}
  /\ tmpbuf \in [0 .. 7 -> Int]
  /\ \A r \in 0 .. tmpCount - 1 : tmpbuf[r] = 8 * Block + r
  /\ dataCount = 4 => pass = 1 /\ stages[1] = Row(8 * Block + tmpCount)
  /\ rowDue = 1 => pass = 1 /\ stages[2] = Row(8 * Block + tmpCount)
  /\ rowTimer # 0 => pass = 1 /\ stages[5 - rowTimer] = Row(8 * Block + tmpCount)

\* The columns that have gone into idct_1D, counted on until the last has come out.
Entered == IF fetch = 0 THEN sweep ELSE 12 - fetch

\* A sweep is not interrupted, and the columns in idct_1D come out in their order.
ColumnsInv ==
  /\ fetch \in 0 .. 8 /\ outFree \in BOOLEAN
  /\ sweep # 0 => outFree /\ tmpCount = 8 /\ (fetch = 0 <=> sweep < 4) /\ Entered = sweep
  /\ sweep = 0 => fetch < 4
  /\ sweep = 0 /\ fetch # 0 => ~outFree /\ tmpFree
  /\ srcReady => fetch = 0
  /\ Entered # 0 => pass = 2
  /\ \A k \in 1 .. 4 : Entered - k \in 0 .. 7 => stages[k] = Column(8 * OutBlock + Entered - k)

\* OUTBUF holds the columns that have come out, then the whole block.
Filled == IF fetch # 0 THEN 8 - fetch ELSE IF outFree THEN 0 ELSE 8
OutbufInv ==
  /\ outbuf \in [0 .. 7 -> Int]
  /\ \A c \in 0 .. Filled - 1 : outbuf[c] = 8 * OutBlock + c

\* The words of the block are counted out.
CountInv ==
  /\ dstValid \in BOOLEAN /\ outCount \in 0 .. 16 /\ received \in Int
  /\ fetch # 0 \/ outFree => outCount = 2 * Filled /\ ~dstValid /\ received = 16 * OutBlock
  /\ fetch = 0 /\ ~outFree =>
       /\ outCount # 0 /\ received = 16 * OutBlock + 16 - outCount
       /\ ~dstValid => outCount = 16

\* Unless the sink has stalled, the word shown is the one to be taken next, and the word
\* after it is shown when it is.
ShowInv ==
  /\ streaming \in BOOLEAN /\ lastReady \in BOOLEAN /\ lastValid \in BOOLEAN /\ stalled \in BOOLEAN
  /\ streaming => dstValid
  /\ lastValid /\ ~dstValid => outFree /\ Entered = 0
  /\ ~stalled /\ dstValid => streaming /\ dataOut = received
  /\ ~stalled /\ ~dstValid /\ fetch = 0 /\ ~outFree => lastReady

DataInv == WordsInv /\ RowsInv /\ ColumnsInv /\ OutbufInv /\ CountInv /\ ShowInv

-----------------------------------------------------------------------------
(* Words.                                                                  *)

LEMMA Multiples ==
  ASSUME NEW x \in Int
  PROVE  /\ (32 * x) \div 32 = x /\ (32 * x + 32) \div 32 = x + 1
         /\ \A j \in 0 .. 7 : (8 * x + j) \div 8 = x /\ (8 * x + j) % 8 = j
         /\ \A j \in 0 .. 7 : (32 * x + 4 * j) % 4 = 0 /\ (32 * x + 4 * j + 3) \div 4 = 8 * x + j
OBVIOUS

LEMMA WordsStep ==
  ASSUME FlowInv, WordsInv, NEW valid \in BOOLEAN, NEW ready \in BOOLEAN, Clock(valid, ready)
  PROVE  /\ WordsInv' /\ Block \in Int
         /\ Block' = IF Swept THEN Block + 1 ELSE Block
<1> DEFINE tf == tmpFree'
           n == inputCount'
           st == sent'
           ib == inbuf'
           b == Block
           bb == Block'
           in == Accepted(valid)
           out == Swept
<1>1. /\ tf <=> out \/ (tmpFree /\ ~ (in /\ inputCount = 31))
      /\ out => ~tmpFree
  <2>1. tf \in BOOLEAN
    BY DEF Clock, StoreRow
  <2>2. out => ~tmpFree
    BY DEF FlowInv, RowTypes, Filling, Swept
  <2> QED BY <2>1, <2>2, DelayStep, WordStep
<1>2. /\ in => srcReady /\ tmpFree
      /\ n = IF in /\ inputCount = 31 THEN 0 ELSE IF in THEN inputCount + 1 ELSE inputCount
      /\ st = IF in THEN sent + 1 ELSE sent
  BY WordStep
<1>3. inputCount \in 0 .. 31 /\ (~tmpFree => inputCount = 0)
  BY DEF FlowInv, RowTypes, Draining
<1>4. ib = IF in THEN [inbuf EXCEPT ![inputCount] = sent] ELSE inbuf
  BY DEF Clock, CollectWords
<1>5. /\ b \in Int /\ sent \in Nat /\ inbuf \in [0 .. 31 -> Int]
      /\ sent = 32 * b + (IF tmpFree THEN inputCount ELSE 32)
      /\ \A i \in 0 .. inputCount - 1 : inbuf[i] = 32 * b + i
  BY <1>3 DEF WordsInv, Block
<1>6. bb = IF tf THEN (st - n) \div 32 ELSE st \div 32 - 1
  BY DEF Block
<1>7. SUFFICES
      /\ st \in Nat /\ ib \in [0 .. 31 -> Int]
      /\ st = 32 * bb + (IF tf THEN n ELSE 32)
      /\ \A i \in 0 .. n - 1 : ib[i] = 32 * bb + i
      /\ bb = IF out THEN b + 1 ELSE b
  BY <1>5 DEF WordsInv
<1> HIDE DEF tf, n, st, ib, b, bb, in, out
<1>8. st \in Nat /\ ib \in [0 .. 31 -> Int]
  BY <1>2, <1>3, <1>4, <1>5
<1>9. (32 * b) \div 32 = b /\ (32 * b + 32) \div 32 = b + 1
  BY <1>5, Multiples
<1>10. CASE tmpFree /\ tf
  <2>1. st - n = 32 * b /\ ~out
    BY <1>1, <1>2, <1>3, <1>5, <1>10
  <2>2. bb = b
    BY <1>6, <1>9, <1>10, <2>1
  <2>3. \A i \in 0 .. n - 1 : ib[i] = 32 * b + i
    BY <1>1, <1>2, <1>3, <1>4, <1>5, <1>10
  <2> QED BY <1>2, <1>3, <1>5, <1>8, <1>10, <2>1, <2>2, <2>3
<1>11. CASE tmpFree /\ ~tf
  <2>1. st = 32 * b + 32 /\ n = 0 /\ ~out
    BY <1>1, <1>2, <1>3, <1>5, <1>11
  <2>2. bb = b
    BY <1>5, <1>6, <1>9, <1>11, <2>1
  <2> QED BY <1>8, <1>11, <2>1, <2>2
<1>12. CASE ~tmpFree
  <2>1. st = 32 * b + 32 /\ n = 0 /\ (tf <=> out)
    BY <1>1, <1>2, <1>3, <1>5, <1>12
  <2>2. CASE out
    <3>1. bb = b + 1
      BY <1>5, <1>6, <1>9, <2>1, <2>2
    <3> QED BY <1>5, <1>8, <2>1, <2>2, <3>1
  <2>3. CASE ~out
    <3>1. bb = b
      BY <1>5, <1>6, <1>9, <2>1, <2>3
    <3> QED BY <1>5, <1>8, <2>1, <2>3, <3>1
  <2> QED BY <2>2, <2>3
<1> QED BY <1>10, <1>11, <1>12

-----------------------------------------------------------------------------
(* Rows.                                                                   *)

\* The row whose last word has come in, and the column the sweep is at.
LEMMA RowIs ==
  ASSUME FlowInv, WordsInv, NEW valid \in BOOLEAN, RowIn(valid)
  PROVE  TheRow = 8 * Block + idctCount /\ tmpFree
<1>1. /\ tmpFree /\ srcReady /\ dataCount = 3 /\ idctCount \in 0 .. 7
      /\ inputCount = 4 * idctCount + 3
  BY DEF RowIn, Accepted, FlowInv, RowTypes, Filling, Draining
<1> DEFINE b == Block
           f == 4 * idctCount
<1>2. b \in Int /\ sent = 32 * b + inputCount
  BY <1>1 DEF FlowInv, RowTypes, WordsInv, Block
<1>3. \A i \in 0 .. inputCount - 1 : inbuf[i] = 32 * b + i
  BY DEF WordsInv
<1> HIDE DEF b
<1>4. inbuf[f] = 32 * b + f /\ inbuf[f + 1] = 32 * b + f + 1 /\ inbuf[f + 2] = 32 * b + f + 2
  BY <1>1, <1>2, <1>3
<1>5. Whole(inbuf, f, 3)
  <2>1. inbuf[f] # Torn
    BY <1>1, <1>2, <1>4 DEF Torn
  <2>2. \A i \in 0 .. 3 - 1 : inbuf[f + i] = inbuf[f] + i
    <3> SUFFICES ASSUME NEW i \in 0 .. 3 - 1 PROVE inbuf[f + i] = inbuf[f] + i
      OBVIOUS
    <3>1. i = 0 \/ i = 1 \/ i = 2
      OBVIOUS
    <3> QED BY <1>1, <1>2, <1>4, <3>1
  <2> QED BY <2>1, <2>2 DEF Whole
<1>6. inbuf[f] % 4 = 0 /\ sent = inbuf[f] + 3 /\ sent \div 4 = 8 * b + idctCount
  BY <1>1, <1>2, <1>4, Multiples
<1> QED BY <1>1, <1>5, <1>6 DEF TheRow, b

LEMMA ColumnIs ==
  ASSUME FlowInv, Block \in Int, RowsInv, Sweeping
  PROVE  TheColumn = 8 * Block + sweep
<1>1. /\ tmpCount = 8 /\ sweep \in 0 .. 8
  BY DEF Sweeping, FlowInv, RowTypes
<1> DEFINE b == Block
<1>2. b \in Int /\ \A r \in 0 .. 7 : tmpbuf[r] = 8 * b + r
  BY <1>1 DEF RowsInv
<1> HIDE DEF b
<1>3. Whole(tmpbuf, 0, 8) /\ tmpbuf[0] % 8 = 0 /\ tmpbuf[0] = 8 * b
  <2>1. tmpbuf[0] = 8 * b + 0
    BY <1>2
  <2>2. tmpbuf[0] # Torn /\ tmpbuf[0] % 8 = 0
    BY <1>2, <2>1, Multiples DEF Torn
  <2> QED BY <1>2, <2>1, <2>2 DEF Whole
<1> QED BY <1>2, <1>3 DEF TheColumn, b

\* A clock edge moves the stages on.
LEMMA StageStep ==
  ASSUME FlowInv, WordsInv, RowsInv, NEW valid \in BOOLEAN, NEW ready \in BOOLEAN,
         Clock(valid, ready)
  PROVE  /\ stages' \in Seq([pass : {1, 2}, line : Int]) /\ Len(stages') = 4
         /\ stages'[1] = IF Sweeping THEN Column(8 * Block + sweep)
                         ELSE IF RowIn(valid) THEN Row(8 * Block + idctCount) ELSE stages[1]
         /\ stages'[2] = stages[1] /\ stages'[3] = stages[2] /\ stages'[4] = stages[3]
<1> DEFINE S == [pass : {1, 2}, line : Int]
           x == IF Sweeping THEN Column(8 * Block + sweep)
                ELSE IF RowIn(valid) THEN Row(8 * Block + idctCount) ELSE stages[1]
<1>1. stages \in Seq(S) /\ Len(stages) = 4
  BY DEF RowsInv
<1>2. Block \in Int /\ sweep \in Int /\ idctCount \in Int
  BY WordsStep DEF FlowInv, RowTypes
<1>3. stages' = <<x>> \o SubSeq(stages, 1, 3)
  BY <1>2, RowIs, ColumnIs DEF Clock, Transform, Row, Column
<1>4. x \in S
  <2>1. stages[1] \in S
    <3> HIDE DEF S
    <3> QED BY <1>1, ElementOfSeq
  <2>2. 8 * Block + sweep \in Int /\ 8 * Block + idctCount \in Int
    BY <1>2
  <2> QED BY <2>1, <2>2 DEF Row, Column
<1> HIDE DEF S, x
<1>5. /\ SubSeq(stages, 1, 3) \in Seq(S) /\ Len(SubSeq(stages, 1, 3)) = 3
      /\ \A i \in 1 .. 3 : SubSeq(stages, 1, 3)[i] = stages[i]
  BY <1>1, SubSeqProperties
<1>6. /\ <<x>> \in Seq(S) /\ Len(<<x>>) = 1 /\ <<x>>[1] = x
  BY <1>4
<1>7. /\ stages' \in Seq(S) /\ Len(stages') = 4
      /\ stages'[1] = x /\ \A i \in 1 .. 3 : stages'[i + 1] = stages[i]
  BY <1>3, <1>5, <1>6, ConcatProperties
<1>8. stages'[1 + 1] = stages[1] /\ stages'[2 + 1] = stages[2] /\ stages'[3 + 1] = stages[3]
  BY <1>7
<1> QED BY <1>7, <1>8 DEF S, x

LEMMA RowsStep ==
  ASSUME FlowInv, FlowInv', WordsInv, RowsInv, NEW valid \in BOOLEAN, NEW ready \in BOOLEAN,
         Clock(valid, ready)
  PROVE  RowsInv'
<1> DEFINE d == dataCount'
           rd == rowDue'
           rt == rowTimer'
           t == tmpCount'
           i == idctCount'
           tf == tmpFree'
           in == Accepted(valid)
           tb == tmpbuf'
           sg == stages'
           p == pass'
           b == Block
           bb == Block'
           out == Swept
           go == Sweeping
           row == RowIn(valid)
           v == Output1D
<1>1. /\ rd = IF dataCount = 4 THEN 1 ELSE 0
      /\ rt = IF rowDue = 1 THEN 2 ELSE IF rowTimer = 2 THEN 1 ELSE 0
      /\ t = IF out THEN 0 ELSE IF rowTimer = 1 THEN tmpCount + 1 ELSE tmpCount
      /\ tb = IF rowTimer = 1 THEN [tmpbuf EXCEPT ![tmpCount] = v] ELSE tmpbuf
      /\ p = IF go THEN 2 ELSE IF row \/ dataCount > 3 THEN 1 ELSE pass
  BY DelayStep DEF Clock, Transform, StoreRow
<1>2. /\ tmpCount = 8 => d = 0 /\ i = 0
      /\ tmpCount # 8 /\ dataCount = 4 =>
           d = (IF valid THEN 1 ELSE 0) /\ i = idctCount + 1
      /\ tmpCount # 8 /\ dataCount # 4 =>
           d = (IF in THEN dataCount + 1 ELSE dataCount) /\ i = idctCount
  BY RowStep
<1>3. /\ sg \in Seq([pass : {1, 2}, line : Int]) /\ Len(sg) = 4
      /\ sg[1] = IF go THEN Column(8 * b + sweep)
                 ELSE IF row THEN Row(8 * b + idctCount) ELSE stages[1]
      /\ sg[2] = stages[1] /\ sg[3] = stages[2] /\ sg[4] = stages[3]
  BY StageStep
<1>4. b \in Int /\ bb = IF out THEN b + 1 ELSE b
  BY WordsStep
<1>5. /\ go => tmpCount = 8
      /\ out => tmpCount = 8
      /\ tmpCount = 8 => dataCount <= 1 /\ rowDue = 0 /\ rowTimer = 0
      /\ dataCount = 4 \/ rowDue = 1 => rowTimer = 0
      /\ dataCount = 4 => rowDue = 0
  BY DEF Sweeping, Swept, FlowInv, RowTypes, Filling, Draining, Delays, OnTheirWay
<1>6. /\ d \in 0 .. 4 /\ rd \in 0 .. 1 /\ rt \in 0 .. 2 /\ i \in 0 .. 8 /\ t \in 0 .. 8
      /\ rd = 1 => rt = 0 /\ d <= 1
      /\ rt # 0 => d + rt <= 4
      /\ tf => i = t + (rd + (IF rt = 0 THEN 0 ELSE 1))
      /\ ~tf => \/ t = 7 /\ i = 7 /\ d = 4
                \/ d <= 1
      /\ row <=> in /\ dataCount = 3
  BY DEF FlowInv, RowTypes, Delays, Filling, Draining, OnTheirWay, RowIn
<1>7. /\ dataCount \in 0 .. 4 /\ rowDue \in 0 .. 1 /\ rowTimer \in 0 .. 2 /\ tmpCount \in 0 .. 8
      /\ (rowTimer = 1 => tmpCount < 8)
  BY DEF FlowInv, RowTypes, Draining, Filling, OnTheirWay
<1>8. /\ tmpbuf \in [0 .. 7 -> Int] /\ pass \in {1, 2}
      /\ \A r \in 0 .. tmpCount - 1 : tmpbuf[r] = 8 * b + r
      /\ dataCount = 4 => pass = 1 /\ stages[1] = Row(8 * b + tmpCount)
      /\ rowDue = 1 => pass = 1 /\ stages[2] = Row(8 * b + tmpCount)
      /\ rowTimer = 2 => pass = 1 /\ stages[3] = Row(8 * b + tmpCount)
      /\ rowTimer = 1 => pass = 1 /\ stages[4] = Row(8 * b + tmpCount)
  BY DEF RowsInv
<1>9. rowTimer = 1 => v = 8 * b + tmpCount
  BY <1>8 DEF Output1D, Row
<1>10. SUFFICES
      /\ p \in {1, 2} /\ tb \in [0 .. 7 -> Int]
      /\ \A r \in 0 .. t - 1 : tb[r] = 8 * bb + r
      /\ d = 4 => p = 1 /\ sg[1] = Row(8 * bb + t)
      /\ rd = 1 => p = 1 /\ sg[2] = Row(8 * bb + t)
      /\ rt # 0 => p = 1 /\ sg[5 - rt] = Row(8 * bb + t)
  BY <1>3 DEF RowsInv
<1> HIDE DEF d, rd, rt, t, i, tf, in, tb, sg, p, b, bb, out, go, row, v
<1>11. p \in {1, 2}
  BY <1>1, <1>8
<1>12. /\ tb \in [0 .. 7 -> Int] /\ \A r \in 0 .. t - 1 : tb[r] = 8 * bb + r
  <2>1. CASE out
    BY <1>1, <1>4, <1>5, <1>8, <2>1
  <2>2. CASE ~out /\ rowTimer = 1
    BY <1>1, <1>4, <1>7, <1>8, <1>9, <2>2
  <2>3. CASE ~out /\ rowTimer # 1
    BY <1>1, <1>4, <1>8, <2>3
  <2> QED BY <2>1, <2>2, <2>3
<1>13. d = 4 => p = 1 /\ sg[1] = Row(8 * bb + t)
  <2>1. SUFFICES ASSUME d = 4 PROVE p = 1 /\ sg[1] = Row(8 * bb + t)
    OBVIOUS
  <2>2. rd = 0 /\ rt = 0 /\ i = t
    BY <1>6, <2>1
  <2>3. dataCount = 3 /\ in /\ tmpCount # 8 /\ i = idctCount
    BY <1>1, <1>2, <1>7, <2>1, <2>2
  <2>4. ~out /\ ~go /\ row /\ t = idctCount /\ bb = b
    BY <1>4, <1>5, <1>6, <2>2, <2>3
  <2> QED BY <1>1, <1>3, <2>4
<1>14. rd = 1 => p = 1 /\ sg[2] = Row(8 * bb + t)
  <2>1. SUFFICES ASSUME dataCount = 4 PROVE p = 1 /\ sg[2] = Row(8 * bb + t)
    BY <1>1
  <2>2. ~out /\ ~go /\ t = tmpCount /\ bb = b
    BY <1>1, <1>4, <1>5, <1>7, <2>1
  <2> QED BY <1>1, <1>3, <1>8, <2>1, <2>2
<1>15. rt # 0 => p = 1 /\ sg[5 - rt] = Row(8 * bb + t)
  <2>1. CASE rowDue = 1
    <3>1. ~out /\ ~go /\ t = tmpCount /\ bb = b /\ rt = 2 /\ 5 - rt = 3
      BY <1>1, <1>4, <1>5, <1>7, <2>1
    <3> QED BY <1>1, <1>3, <1>8, <2>1, <3>1
  <2>2. CASE rowDue # 1 /\ rowTimer = 2
    <3>1. ~out /\ ~go /\ t = tmpCount /\ bb = b /\ rt = 1 /\ 5 - rt = 4
      BY <1>1, <1>4, <1>5, <1>7, <2>2
    <3> QED BY <1>1, <1>3, <1>8, <2>2, <3>1
  <2>3. CASE rowDue # 1 /\ rowTimer # 2
    BY <1>1, <2>3
  <2> QED BY <2>1, <2>2, <2>3
<1> QED BY <1>11, <1>12, <1>13, <1>14, <1>15

-----------------------------------------------------------------------------
(* Columns.                                                                *)

\* What the edge does to the sweep, to the columns counted in and to the block in OUTBUF.
LEMMA SweepStep ==
  ASSUME FlowInv, WordsInv, ColumnsInv, CountInv, NEW valid \in BOOLEAN,
         NEW ready \in BOOLEAN, Clock(valid, ready)
  PROVE  /\ outFree' \in BOOLEAN
         /\ outFree' <=> BlockOut(ready) \/ (outFree /\ ~Swept)
         /\ BlockOut(ready) => ~outFree /\ fetch = 0 /\ sweep = 0
         /\ fetch' = IF fetch # 0 THEN fetch - 1 ELSE IF Sweeping /\ sweep = 3 THEN 8 ELSE 0
         /\ sweep' = IF Swept THEN 0 ELSE IF Sweeping THEN sweep + 1 ELSE sweep
         /\ OutBlock \in Int /\ Block \in Int
         /\ outFree => OutBlock = Block
         /\ OutBlock' = IF BlockOut(ready) THEN OutBlock + 1 ELSE OutBlock
<1>1. /\ outFree' \in BOOLEAN /\ outFree \in BOOLEAN
      /\ outFree' = (BlockOut(ready) \/ (outFree /\ ~Swept))
  BY DEF Clock, CountWords, ColumnsInv
<1>2. outFree' <=> BlockOut(ready) \/ (outFree /\ ~Swept)
  BY <1>1
<1>3. BlockOut(ready) => ~outFree /\ fetch = 0 /\ sweep = 0
  BY DEF BlockOut, Taken, CountInv, ColumnsInv
<1>4. /\ fetch' = IF fetch # 0 THEN fetch - 1 ELSE IF Sweeping /\ sweep = 3 THEN 8 ELSE 0
      /\ sweep' = IF Swept THEN 0 ELSE IF Sweeping THEN sweep + 1 ELSE sweep
  BY DEF Clock, StoreColumn
<1>5. Block \in Int /\ Block' = IF Swept THEN Block + 1 ELSE Block
  BY WordsStep
<1>6. OutBlock \in Int /\ (outFree => OutBlock = Block)
  BY <1>5 DEF OutBlock
<1>7. OutBlock' = IF BlockOut(ready) THEN OutBlock + 1 ELSE OutBlock
  <2> DEFINE b == Block
             bb == Block'
             of == outFree'
             out == Swept
             done == BlockOut(ready)
  <2>1. /\ OutBlock = IF outFree THEN b ELSE b - 1
        /\ OutBlock' = IF of THEN bb ELSE bb - 1
    BY DEF OutBlock
  <2>2. out => outFree
    BY DEF Swept, ColumnsInv
  <2>3. /\ b \in Int /\ bb = IF out THEN b + 1 ELSE b
        /\ of <=> done \/ (outFree /\ ~out)
        /\ done => ~outFree
    BY <1>2, <1>3, <1>5
  <2>4. SUFFICES OutBlock' = IF done THEN OutBlock + 1 ELSE OutBlock
    OBVIOUS
  <2> HIDE DEF b, bb, of, out, done
  <2>5. CASE done
    BY <1>1, <2>1, <2>2, <2>3, <2>5
  <2>6. CASE ~done
    BY <1>1, <2>1, <2>2, <2>3, <2>6
  <2> QED BY <2>5, <2>6
<1> QED BY <1>1, <1>2, <1>3, <1>4, <1>5, <1>6, <1>7

LEMMA ColumnsStep ==
  ASSUME FlowInv, FlowInv', WordsInv, RowsInv, ColumnsInv, CountInv, NEW valid \in BOOLEAN,
         NEW ready \in BOOLEAN, Clock(valid, ready)
  PROVE  ColumnsInv'
<1> DEFINE f == fetch'
           s == sweep'
           t == tmpCount'
           tf == tmpFree'
           of == outFree'
           sr == srcReady'
           p == pass'
           sg == stages'
           e == Entered
           ee == Entered'
           b == OutBlock
           bb == OutBlock'
           row == RowIn(valid)
           in == BlockIn(valid)
           go == Sweeping
           out == Swept
           done == BlockOut(ready)
<1>1. /\ of \in BOOLEAN /\ (of <=> done \/ (outFree /\ ~out))
      /\ done => ~outFree /\ fetch = 0 /\ sweep = 0
      /\ f = IF fetch # 0 THEN fetch - 1 ELSE IF go /\ sweep = 3 THEN 8 ELSE 0
      /\ s = IF out THEN 0 ELSE IF go THEN sweep + 1 ELSE sweep
      /\ b \in Int /\ bb = IF done THEN b + 1 ELSE b
  BY SweepStep
<1>2. /\ go <=> tmpCount = 8 /\ outFree /\ sweep < 8
      /\ out <=> sweep = 8
      /\ in => srcReady
      /\ row => srcReady
      /\ srcReady => tmpFree
      /\ sr => srcReady \/ (fetch = 0 /\ tmpFree)
  BY WordStep DEF Sweeping, Swept, BlockIn, RowIn, Accepted, Sending
<1>3. /\ t = IF out THEN 0 ELSE IF rowTimer = 1 THEN tmpCount + 1 ELSE tmpCount
      /\ tf \in BOOLEAN /\ (tf <=> out \/ (tmpFree /\ ~in))
      /\ p = IF go THEN 2 ELSE IF row \/ dataCount > 3 THEN 1 ELSE pass
  BY DelayStep DEF Clock, Transform, StoreRow
<1>4. /\ e = IF fetch = 0 THEN sweep ELSE 12 - fetch
      /\ ee = IF f = 0 THEN s ELSE 12 - f
  BY DEF Entered
<1>5. /\ tmpFree => sweep = 0 /\ tmpCount < 8
      /\ tmpCount = 8 => dataCount <= 1 /\ rowTimer = 0
      /\ tmpFree /\ ~srcReady => dataCount = 0
      /\ dataCount \in 0 .. 4 /\ tmpCount \in 0 .. 8 /\ sweep \in 0 .. 8
  <2>1. tmpFree /\ ~srcReady => dataCount = 0
    BY DEF FlowInv, RowTypes, Filling
  <2> QED BY <2>1 DEF FlowInv, RowTypes, Filling, Draining, OnTheirWay
<1>6. /\ fetch \in 0 .. 8 /\ outFree \in BOOLEAN
      /\ sweep # 0 => outFree /\ tmpCount = 8 /\ (fetch = 0 <=> sweep < 4) /\ e = sweep
      /\ sweep = 0 => fetch < 4
      /\ sweep = 0 /\ fetch # 0 => ~outFree /\ tmpFree
      /\ srcReady => fetch = 0
      /\ e # 0 => pass = 2
      /\ \A k \in 1 .. 4 : e - k \in 0 .. 7 => stages[k] = Column(8 * b + e - k)
  BY DEF ColumnsInv
<1>7. /\ go => sg[1] = Column(8 * b + sweep)
      /\ sg[2] = stages[1] /\ sg[3] = stages[2] /\ sg[4] = stages[3]
  <2>1. go => OutBlock = Block
    BY SweepStep DEF Sweeping
  <2> QED BY <2>1, StageStep
<1>8. SUFFICES
      /\ f \in 0 .. 8
      /\ s # 0 => of /\ t = 8 /\ (f = 0 <=> s < 4) /\ ee = s
      /\ s = 0 => f < 4
      /\ s = 0 /\ f # 0 => ~of /\ tf
      /\ sr => f = 0
      /\ ee # 0 => p = 2
      /\ \A k \in 1 .. 4 : ee - k \in 0 .. 7 => sg[k] = Column(8 * bb + ee - k)
  BY <1>1 DEF ColumnsInv
<1> HIDE DEF f, s, t, tf, of, sr, p, sg, e, ee, b, bb, row, in, go, out, done
<1>9. f \in 0 .. 8 /\ e \in 0 .. 11
  BY <1>1, <1>4, <1>5, <1>6
<1>10. s # 0 => of /\ t = 8 /\ (f = 0 <=> s < 4) /\ ee = s
  BY <1>1, <1>2, <1>3, <1>4, <1>5, <1>6
<1>11. s = 0 => f < 4
  BY <1>1, <1>2, <1>3, <1>4, <1>5, <1>6
<1>12. s = 0 /\ f # 0 => ~of /\ tf
  BY <1>1, <1>2, <1>3, <1>4, <1>5, <1>6
<1>13. sr => f = 0
  BY <1>1, <1>2, <1>5, <1>6
<1>14. \/ ee = 0
       \/ ee = e + 1 /\ ee > 1 /\ ~done /\ (ee <= 8 => go /\ sweep = e)
       \/ ee = 1 /\ go /\ sweep = 0 /\ ~done
  BY <1>1, <1>2, <1>4, <1>5, <1>6
<1>15. ee # 0 => p = 2
  BY <1>2, <1>3, <1>4, <1>5, <1>6, <1>9, <1>14
<1>16. ASSUME NEW k \in 1 .. 4, ee - k \in 0 .. 7
       PROVE  sg[k] = Column(8 * bb + ee - k)
  <2>1. CASE k = 1
    <3>1. go /\ bb = b /\ sweep = ee - 1
      BY <1>1, <1>9, <1>14, <1>16, <2>1
    <3>2. 8 * b + sweep = 8 * bb + ee - k
      BY <1>1, <1>9, <1>14, <2>1, <3>1
    <3> QED BY <1>7, <2>1, <3>1, <3>2
  <2>2. CASE k # 1
    <3>1. ee = e + 1 /\ bb = b
      BY <1>1, <1>9, <1>14, <1>16, <2>2
    <3>2. k - 1 \in 1 .. 4 /\ e - (k - 1) \in 0 .. 7
          /\ 8 * b + e - (k - 1) = 8 * bb + ee - k
      BY <1>1, <1>9, <1>16, <2>2, <3>1
    <3>3. stages[k - 1] = Column(8 * b + e - (k - 1))
      BY <1>6, <3>2
    <3>4. sg[k] = stages[k - 1]
      <4>1. k = 2 \/ k = 3 \/ k = 4
        BY <2>2
      <4> QED BY <1>7, <4>1
    <3> QED BY <3>2, <3>3, <3>4
  <2> QED BY <2>1, <2>2
<1> QED BY <1>9, <1>10, <1>11, <1>12, <1>13, <1>15, <1>16

-----------------------------------------------------------------------------
(* Words out.                                                              *)

LEMMA OutbufStep ==
  ASSUME FlowInv, WordsInv, ColumnsInv, OutbufInv, CountInv, NEW valid \in BOOLEAN,
         NEW ready \in BOOLEAN, Clock(valid, ready)
  PROVE  OutbufInv'
<1> DEFINE f == fetch'
           of == outFree'
           ob == outbuf'
           n == Filled
           nn == Filled'
           b == OutBlock
           bb == OutBlock'
           go == Sweeping
           out == Swept
           done == BlockOut(ready)
           v == Output1D
<1>1. /\ of \in BOOLEAN /\ (of <=> done \/ (outFree /\ ~out))
      /\ done => ~outFree /\ fetch = 0 /\ sweep = 0
      /\ f = IF fetch # 0 THEN fetch - 1 ELSE IF go /\ sweep = 3 THEN 8 ELSE 0
      /\ b \in Int /\ bb = IF done THEN b + 1 ELSE b
  BY SweepStep
<1>2. ob = IF fetch # 0 THEN [outbuf EXCEPT ![8 - fetch] = v] ELSE outbuf
  BY DEF Clock, StoreColumn
<1>3. /\ n = IF fetch # 0 THEN 8 - fetch ELSE IF outFree THEN 0 ELSE 8
      /\ nn = IF f # 0 THEN 8 - f ELSE IF of THEN 0 ELSE 8
  BY DEF Filled
<1>4. /\ fetch \in 0 .. 8 /\ outFree \in BOOLEAN
      /\ sweep # 0 => outFree /\ (fetch = 0 <=> sweep < 4) /\ Entered = sweep
      /\ sweep = 0 /\ fetch # 0 => ~outFree
      /\ go => outFree
      /\ out <=> sweep = 8
      /\ sweep \in 0 .. 8
  BY DEF ColumnsInv, Sweeping, Swept, FlowInv, RowTypes
<1>5. fetch # 0 => Entered = 12 - fetch
  BY DEF Entered
<1>6. ASSUME fetch # 0 PROVE v = 8 * b + (8 - fetch)
  <2>1. Entered = 12 - fetch /\ Entered # 0 /\ Entered - 4 \in 0 .. 7
    BY <1>4, <1>5, <1>6
  <2>2. pass = 2 /\ stages[4] = Column(8 * OutBlock + Entered - 4)
    BY <2>1 DEF ColumnsInv
  <2>3. v = 8 * OutBlock + Entered - 4
    BY <2>2 DEF Output1D, Column
  <2> QED BY <1>1, <1>4, <2>1, <2>3
<1>7. outbuf \in [0 .. 7 -> Int] /\ \A c \in 0 .. n - 1 : outbuf[c] = 8 * b + c
  BY DEF OutbufInv
<1>8. SUFFICES ob \in [0 .. 7 -> Int] /\ \A c \in 0 .. nn - 1 : ob[c] = 8 * bb + c
  BY DEF OutbufInv
<1> HIDE DEF f, of, ob, n, nn, b, bb, go, out, done, v
<1>9. CASE fetch # 0
  <2>1. /\ bb = b /\ n = 8 - fetch /\ nn = n + 1
    BY <1>1, <1>3, <1>4, <1>5, <1>9
  <2> QED BY <1>1, <1>2, <1>4, <1>6, <1>7, <1>9, <2>1
<1>10. CASE fetch = 0
  <2>1. nn = 0 \/ (nn = n /\ bb = b)
    BY <1>1, <1>3, <1>4, <1>10
  <2> QED BY <1>2, <1>7, <1>10, <2>1
<1> QED BY <1>9, <1>10

LEMMA CountStep ==
  ASSUME FlowInv, WordsInv, ColumnsInv, CountInv, NEW valid \in BOOLEAN,
         NEW ready \in BOOLEAN, Clock(valid, ready)
  PROVE  CountInv'
<1> DEFINE f == fetch'
           of == outFree'
           dv == dstValid'
           oc == outCount'
           rc == received'
           n == Filled
           nn == Filled'
           b == OutBlock
           bb == OutBlock'
           go == Sweeping
           out == Swept
           got == Taken(ready)
           done == BlockOut(ready)
           up == Sending
<1>1. /\ of \in BOOLEAN /\ (of <=> done \/ (outFree /\ ~out))
      /\ f = IF fetch # 0 THEN fetch - 1 ELSE IF go /\ sweep = 3 THEN 8 ELSE 0
      /\ b \in Int /\ bb = IF done THEN b + 1 ELSE b
  BY SweepStep
<1>2. /\ n = IF fetch # 0 THEN 8 - fetch ELSE IF outFree THEN 0 ELSE 8
      /\ nn = IF f # 0 THEN 8 - f ELSE IF of THEN 0 ELSE 8
  BY DEF Filled
<1>3. /\ fetch \in 0 .. 8 /\ outFree \in BOOLEAN
      /\ out => sweep # 0 /\ outFree /\ fetch # 0 /\ fetch = 12 - sweep /\ sweep = 8
      /\ sweep = 0 /\ fetch # 0 => ~outFree
      /\ sweep # 0 /\ fetch # 0 => sweep = 12 - fetch
      /\ go => outFree
      /\ sweep \in 0 .. 8
  BY DEF ColumnsInv, Sweeping, Swept, FlowInv, RowTypes, Entered
<1>4. /\ dstValid \in BOOLEAN /\ outCount \in 0 .. 16 /\ received \in Int
      /\ fetch # 0 \/ outFree => outCount = 2 * n /\ ~dstValid /\ received = 16 * b
      /\ fetch = 0 /\ ~outFree =>
           /\ outCount # 0 /\ received = 16 * b + 16 - outCount
           /\ ~dstValid => outCount = 16
  BY DEF CountInv
<1>5. /\ got => dstValid
      /\ done <=> got /\ outCount = 1
      /\ up <=> fetch = 0 /\ outCount > 0
  BY DEF Taken, BlockOut, Sending
<1>6. dv \in BOOLEAN /\ (dv <=> ~done /\ (dstValid \/ up))
  <2>1. dv = (~done /\ (dstValid \/ up))
    BY DEF Clock, CountWords
  <2> QED BY <2>1
<1>7. /\ oc = IF done THEN 0 ELSE IF got /\ outCount > 1 THEN outCount - 1
              ELSE IF fetch # 0 THEN outCount + 2 ELSE outCount
      /\ rc = IF got THEN received + 1 ELSE received
  BY DEF Clock, CountWords, Remember
<1>8. SUFFICES
      /\ oc \in 0 .. 16 /\ rc \in Int
      /\ f # 0 \/ of => oc = 2 * nn /\ ~dv /\ rc = 16 * bb
      /\ f = 0 /\ ~of => oc # 0 /\ rc = 16 * bb + 16 - oc /\ (~dv => oc = 16)
  BY <1>6 DEF CountInv
<1> HIDE DEF f, of, dv, oc, rc, n, nn, b, bb, go, out, got, done, up
<1>9. CASE fetch # 0
  BY <1>1, <1>2, <1>3, <1>4, <1>5, <1>6, <1>7, <1>9
<1>10. CASE fetch = 0 /\ outFree
  BY <1>1, <1>2, <1>3, <1>4, <1>5, <1>6, <1>7, <1>10
<1>11. CASE fetch = 0 /\ ~outFree
  BY <1>1, <1>2, <1>3, <1>4, <1>5, <1>6, <1>7, <1>11
<1> QED BY <1>3, <1>9, <1>10, <1>11

\* A word of the block that is whole in OUTBUF.
LEMMA WordIs ==
  ASSUME OutBlock \in Int, OutbufInv, Filled = 8, NEW k \in 0 .. 15
  PROVE  WordOut(k) = 16 * OutBlock + k
<1> DEFINE b == OutBlock
           first == 4 * (k % 2)
<1>1. b \in Int /\ \A c \in 0 .. 7 : outbuf[c] = 8 * b + c
  BY DEF OutbufInv
<1>2. first = 0 \/ first = 4
  BY Z3
<1> HIDE DEF b
<1>3. WordOut(k) = IF Whole(outbuf, first, 4) /\ outbuf[first] % 8 = first
                   THEN 16 * (outbuf[first] \div 8) + k ELSE Torn
  BY DEF WordOut
<1> HIDE DEF first
<1>4. Whole(outbuf, first, 4)
  <2>1. \A i \in 0 .. 3 : outbuf[first + i] = 8 * b + first + i
    BY <1>1, <1>2
  <2>2. outbuf[first] = 8 * b + first
    BY <1>1, <1>2
  <2>3. outbuf[first] # Torn
    BY <1>1, <1>2, <2>2 DEF Torn
  <2>4. 4 - 1 = 3
    OBVIOUS
  <2> QED BY <1>1, <1>2, <2>1, <2>2, <2>3, <2>4 DEF Whole
<1>5. outbuf[first] % 8 = first /\ outbuf[first] \div 8 = b
  <2>1. outbuf[first] = 8 * b + first /\ first \in 0 .. 7
    BY <1>1, <1>2
  <2> QED BY <1>1, <2>1, Multiples
<1> QED BY <1>3, <1>4, <1>5 DEF b

LEMMA ShowStep ==
  ASSUME FlowInv, WordsInv, ColumnsInv, OutbufInv, CountInv, ShowInv, NEW valid \in BOOLEAN,
         NEW ready \in BOOLEAN, Clock(valid, ready)
  PROVE  ShowInv'
<1> DEFINE f == fetch'
           s == sweep'
           of == outFree'
           dv == dstValid'
           rc == received'
           st == streaming'
           lr == lastReady'
           lv == lastValid'
           sl == stalled'
           do == dataOut'
           ee == Entered'
           b == OutBlock
           go == Sweeping
           out == Swept
           got == Taken(ready)
           done == BlockOut(ready)
           up == Sending
           k == 16 - outCount
           w == WordOut(k)
           ww == WordOut(k + 1)
<1>1. /\ of \in BOOLEAN /\ (of <=> done \/ (outFree /\ ~out))
      /\ f = IF fetch # 0 THEN fetch - 1 ELSE IF go /\ sweep = 3 THEN 8 ELSE 0
      /\ s = IF out THEN 0 ELSE IF go THEN sweep + 1 ELSE sweep
      /\ b \in Int
  BY SweepStep
<1>2. ee = IF f = 0 THEN s ELSE 12 - f
  BY DEF Entered
<1>3. /\ fetch \in 0 .. 8 /\ outFree \in BOOLEAN
      /\ out => outFree /\ fetch # 0
      /\ ~outFree => sweep = 0
      /\ go => outFree
      /\ sweep \in 0 .. 8
  BY DEF ColumnsInv, Sweeping, Swept, FlowInv, RowTypes
<1>4. /\ dstValid \in BOOLEAN /\ outCount \in 0 .. 16 /\ received \in Int
      /\ outFree /\ fetch = 0 => outCount = 0
      /\ fetch # 0 => outCount = 2 * (8 - fetch)
      /\ fetch # 0 \/ outFree => ~dstValid
      /\ fetch = 0 /\ ~outFree =>
           /\ outCount # 0 /\ received = 16 * b + 16 - outCount
           /\ ~dstValid => outCount = 16
  BY DEF CountInv, Filled
<1>5. /\ got <=> dstValid /\ ready
      /\ done <=> got /\ outCount = 1
      /\ up <=> fetch = 0 /\ outCount > 0
  BY DEF Taken, BlockOut, Sending
<1>6. dv \in BOOLEAN /\ (dv <=> ~done /\ (dstValid \/ up))
  <2>1. dv = (~done /\ (dstValid \/ up))
    BY DEF Clock, CountWords
  <2> QED BY <2>1
<1>7. /\ streaming \in BOOLEAN /\ lastReady \in BOOLEAN /\ lastValid \in BOOLEAN
      /\ stalled \in BOOLEAN
      /\ streaming => dstValid
      /\ lastValid /\ ~dstValid => outFree /\ Entered = 0
      /\ ~stalled /\ dstValid => streaming /\ dataOut = received
      /\ ~stalled /\ ~dstValid /\ fetch = 0 /\ ~outFree => lastReady
  BY DEF ShowInv
<1>8. /\ st \in BOOLEAN
      /\ st <=> /\ ready /\ (dstValid \/ ~lastValid) /\ ~done
                /\ streaming \/ (up /\ lastReady)
  <2>1. st = (/\ ready /\ (dstValid \/ ~lastValid) /\ ~done
              /\ streaming \/ (up /\ lastReady))
    BY DEF Clock, Remember
  <2> QED BY <2>1
<1>9. /\ lr = ready /\ lv = dstValid
      /\ rc = IF got THEN received + 1 ELSE received
      /\ do = IF ~up THEN dataOut
              ELSE IF outCount # 1 /\ (streaming \/ (~lastReady /\ ready /\ k # 0))
              THEN ww ELSE w
  BY DEF Clock, Remember, ShowWord
<1>10. sl \in BOOLEAN /\ (sl <=> stalled \/ (outCount > 0 /\ ~ready))
  <2>1. sl = (stalled \/ (outCount > 0 /\ ~ready))
    BY DEF Clock, Remember
  <2> QED BY <1>7, <2>1
<1>11. ASSUME fetch = 0, ~outFree
       PROVE  (outCount > 1 => ww = 16 * b + (k + 1)) /\ w = 16 * b + k
  <2>1. Filled = 8 /\ OutBlock \in Int
    BY <1>1, <1>11 DEF Filled
  <2>2. k \in 0 .. 15 /\ (outCount > 1 => k + 1 \in 0 .. 15)
    BY <1>4, <1>11
  <2> QED BY <2>1, <2>2, WordIs
<1>11a. lr \in BOOLEAN /\ lv \in BOOLEAN
  BY <1>4, <1>9
<1>12. SUFFICES
      /\ st => dv
      /\ lv /\ ~dv => of /\ ee = 0
      /\ ~sl /\ dv => st /\ do = rc
      /\ ~sl /\ ~dv /\ f = 0 /\ ~of => lr
  BY <1>8, <1>10, <1>11a DEF ShowInv
<1> HIDE DEF f, s, of, dv, rc, st, lr, lv, sl, do, ee, b, go, out, got, done, up, k, w, ww
<1>13. st => dv
  BY <1>5, <1>6, <1>7, <1>8
<1>14. lv /\ ~dv => of /\ ee = 0
  BY <1>1, <1>2, <1>3, <1>4, <1>5, <1>6, <1>9
<1>15. ASSUME ~sl, dv PROVE st /\ do = rc
  <2>1. ~stalled /\ (outCount > 0 => ready) /\ ~done /\ (dstValid \/ up)
    BY <1>6, <1>10, <1>15
  <2>2. fetch = 0 /\ ~outFree /\ outCount > 0 /\ ready /\ up
    BY <1>3, <1>4, <1>5, <2>1
  <2>3. CASE dstValid
    <3>1. streaming /\ dataOut = received /\ got /\ outCount > 1
      BY <1>4, <1>5, <1>7, <2>1, <2>2, <2>3
    <3>2. do = ww /\ rc = received + 1
      BY <1>9, <2>2, <3>1
    <3>3. ww = 16 * b + (k + 1) /\ received = 16 * b + k
      BY <1>1, <1>4, <1>11, <2>2, <3>1 DEF k
    <3>4. k \in Int
      BY <1>4 DEF k
    <3> QED BY <1>1, <1>4, <1>8, <2>1, <2>2, <2>3, <3>1, <3>2, <3>3, <3>4
  <2>4. CASE ~dstValid
    <3>1. ~streaming /\ ~lastValid /\ lastReady /\ outCount = 16 /\ ~got
      BY <1>4, <1>5, <1>7, <2>1, <2>2, <2>4
    <3>2. k = 0 /\ w = 16 * b + k /\ received = 16 * b
      BY <1>1, <1>4, <1>11, <2>2, <3>1 DEF k
    <3> QED BY <1>1, <1>8, <1>9, <2>1, <2>2, <3>1, <3>2
  <2> QED BY <2>3, <2>4
<1>16. ~sl /\ ~dv /\ f = 0 /\ ~of => lr
  BY <1>1, <1>3, <1>4, <1>5, <1>6, <1>9, <1>10
<1> QED BY <1>13, <1>14, <1>15, <1>16

-----------------------------------------------------------------------------
(* The theorems.                                                           *)

LEMMA DataInit == Init => DataInv
<1> SUFFICES ASSUME Init PROVE DataInv
  OBVIOUS
<1>1. Block = 0 /\ OutBlock = 0 /\ Entered = 0 /\ Filled = 0
  BY Multiples DEF Init, Block, OutBlock, Entered, Filled
<1>2. WordsInv
  BY <1>1 DEF Init, WordsInv, Torn
<1>3. RowsInv
  <2>1. stages \in Seq([pass : {1, 2}, line : Int]) /\ Len(stages) = 4
    <3>1. [pass |-> 1, line |-> Torn] \in [pass : {1, 2}, line : Int]
      BY DEF Torn
    <3> DEFINE S == [pass : {1, 2}, line : Int]
               x == [pass |-> 1, line |-> Torn]
    <3>2. x \in S
      BY <3>1
    <3>3. stages = [i \in 1 .. 4 |-> x]
      BY DEF Init
    <3> HIDE DEF S, x
    <3>4. stages \in [1 .. 4 -> S]
      BY <3>2, <3>3
    <3>5. stages = <<x, x, x, x>>
      BY <3>3
    <3> QED BY <3>2, <3>5 DEF S
  <2> QED BY <1>1, <2>1 DEF Init, RowsInv, Torn
<1>4. ColumnsInv
  BY <1>1 DEF Init, ColumnsInv
<1>5. OutbufInv
  BY <1>1 DEF Init, OutbufInv, Torn
<1>6. CountInv
  <2>1. ~dstValid /\ dstValid \in BOOLEAN /\ outFree /\ outCount = 0 /\ received = 0
    BY DEF Init
  <2> QED BY <1>1, <2>1 DEF CountInv
<1>7. ShowInv
  <2>1. ~dstValid /\ ~lastReady /\ ~lastValid /\ ~streaming /\ ~stalled /\ outFree
    BY DEF Init
  <2>2. /\ lastReady \in BOOLEAN /\ lastValid \in BOOLEAN /\ streaming \in BOOLEAN
        /\ stalled \in BOOLEAN
    BY DEF Init
  <2> QED BY <2>1, <2>2 DEF ShowInv
<1> QED BY <1>2, <1>3, <1>4, <1>5, <1>6, <1>7 DEF DataInv

\* Every word, row and column is where the counters say: in its place in INBUF, its stage of
\* idct_1D, TMPBUF and OUTBUF, and of the block the counters are at.
THEOREM StreamInductive == Spec => [](FlowInv /\ DataInv)
<1>1. FlowInv /\ DataInv /\ [Next]_vars => FlowInv' /\ DataInv'
  <2> SUFFICES ASSUME FlowInv, DataInv, [Next]_vars PROVE FlowInv' /\ DataInv'
    OBVIOUS
  <2>1. CASE UNCHANGED vars
    BY <2>1 DEF vars, rowVars, transformVars, outVars, FlowInv, RowTypes, Filling, Draining,
                Delays, OnTheirWay, DataInv, WordsInv, RowsInv, ColumnsInv, OutbufInv,
                CountInv, ShowInv, Block, OutBlock, Entered, Filled
  <2>2. ASSUME NEW valid \in BOOLEAN, NEW ready \in BOOLEAN, Edge(valid, ready)
        PROVE  FlowInv' /\ DataInv'
    <3>1. Clock(valid, ready)
      BY <2>2 DEF Edge
    <3>2. FlowInv'
      BY <3>1, FlowStep
    <3>3. /\ WordsInv /\ RowsInv /\ ColumnsInv /\ OutbufInv /\ CountInv /\ ShowInv
      BY DEF DataInv
    <3>4. WordsInv' /\ RowsInv' /\ ColumnsInv'
      BY <3>1, <3>2, <3>3, WordsStep, RowsStep, ColumnsStep
    <3>5. OutbufInv' /\ CountInv' /\ ShowInv'
      BY <3>1, <3>3, OutbufStep, CountStep, ShowStep
    <3> QED BY <3>2, <3>4, <3>5 DEF DataInv
  <2> QED BY <2>1, <2>2 DEF Next
<1> QED BY <1>1, FlowInit, DataInit, PTL DEF Spec

\* Until it stalls the sink takes every word of every block once, in order and whole, for
\* every number of blocks and whatever the gaps in the source's words.
THEOREM WordsKept == Spec => WordsInOrder
<1>1. FlowInv /\ DataInv /\ [Next]_vars => [received' # received /\ ~stalled => dataOut = received]_vars
  <2> SUFFICES ASSUME DataInv, Next, received' # received, ~stalled PROVE dataOut = received
    OBVIOUS
  <2>1. dstValid
    BY DEF Next, Edge, Clock, Remember, Taken
  <2> QED BY <2>1 DEF DataInv, ShowInv
<1> QED BY <1>1, StreamInductive, PTL DEF Spec, WordsInOrder
=============================================================================
