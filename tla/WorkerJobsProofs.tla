-------------------------- MODULE WorkerJobsProofs --------------------------
(***************************************************************************)
(* What a worker computes for its commands: the bit buffer of              *)
(* lossless_decode is a window on the stream, for a stream of any length   *)
(* and every sequence of symbols; the split of the color conversion covers *)
(* every frame of at least nine block rows (72 lines) exactly.  The steps  *)
(* of each computation are looked at alone, and then those of a worker     *)
(* that takes one command after the other.                                 *)
(***************************************************************************)
EXTENDS WorkerJobs, TLAPS

-----------------------------------------------------------------------------
(* The bit buffer.                                                         *)

\* The strengthening: the pointer, bitcount and the bits consumed agree.
Position == next # "fill" => 8 * bitstream + bitcount = consumed + 32
Filled == next = "fill" => /\ bitbuffer = [i \in 1 .. 32 |-> Zero]
                           /\ bitstream = 0 /\ bitcount = 0 /\ consumed = 0
BitsInv == TypeOK /\ Position /\ Filled /\ BufferIsWindow

\* update_buffer shifts in a whole number of bytes and bitcount keeps the rest.
LEMMA BytesAndRest ==
  ASSUME NEW total \in Nat, total <= 30 \/ total = 32
  PROVE  /\ Bytes(total) \in 0 .. 4
         /\ total % 8 \in 0 .. 7
         /\ total = 8 * Bytes(total) + (total % 8)
BY DEF Bytes

\* A symbol taken off the buffer leaves the window where the symbol ended.
LEMMA UpdateKeepsWindow ==
  ASSUME BitsInv, next # "fill", NEW size \in 0 .. 23, UpdateBuffer(size),
         consumed' = consumed + size
  PROVE  /\ bitbuffer' \in [1 .. 32 -> Int] /\ bitstream' \in Nat
         /\ bitcount' \in 0 .. 7 /\ consumed' \in Nat
         /\ 8 * bitstream' + bitcount' = consumed' + 32
         /\ \A i \in 1 .. 32 :
              bitbuffer'[i] = IF i <= 32 - bitcount' THEN consumed' + i ELSE Zero
<1> DEFINE total == bitcount + size
           n == Bytes(total)
           rest == total % 8
<1>1. /\ bitcount \in 0 .. 7 /\ bitstream \in Nat /\ consumed \in Nat
      /\ 8 * bitstream + bitcount = consumed + 32
      /\ \A i \in 1 .. 32 :
           bitbuffer[i] = IF i <= 32 - bitcount THEN consumed + i ELSE Zero
  BY DEF BitsInv, TypeOK, Position, BufferIsWindow
<1>2. total \in Nat /\ total <= 30
  BY <1>1
<1>3. n \in 0 .. 4 /\ rest \in 0 .. 7 /\ total = 8 * n + rest
  BY <1>2, BytesAndRest
<1>4. /\ bitbuffer' = Shifted(size, total)
      /\ bitstream' = bitstream + n /\ bitcount' = rest
  BY DEF UpdateBuffer
<1> HIDE DEF n, rest
<1>5. ASSUME NEW i \in 1 .. 32
      PROVE  /\ bitbuffer'[i] \in Int
             /\ bitbuffer'[i] = IF i <= 32 - rest THEN consumed + size + i ELSE Zero
  <2> DEFINE kept == IF i + size <= 32 THEN bitbuffer[i + size] ELSE Zero
             fresh == 8 * bitstream + i + total - 32
  <2>1. bitbuffer'[i] = IF i \in 33 - total .. 32 - total + 8 * n
                        THEN IF kept = Zero THEN fresh ELSE Mixed ELSE kept
    BY <1>4 DEF Shifted, n
  <2>2. kept = IF i + size <= 32 - bitcount THEN consumed + i + size ELSE Zero
    <3>1. CASE i + size <= 32
      <4>1. i + size \in 1 .. 32
        BY <3>1
      <4>2. bitbuffer[i + size]
              = IF i + size <= 32 - bitcount THEN consumed + (i + size) ELSE Zero
        BY <4>1, <1>1
      <4> QED BY <3>1, <4>2, <1>1
    <3>2. CASE i + size > 32
      BY <3>2, <1>1
    <3> QED BY <3>1, <3>2
  <2>3. fresh = consumed + size + i
    BY <1>1, <1>2
  <2>4. CASE i <= 32 - total
    <3>1. bitbuffer'[i] = consumed + i + size
      BY <2>1, <2>2, <2>4, <1>1, <1>2, <1>3
    <3>2. i <= 32 - rest
      BY <2>4, <1>2, <1>3
    <3> QED BY <3>1, <3>2, <1>1
  <2>5. CASE i > 32 - total /\ i <= 32 - rest
    <3>1. kept = Zero /\ i \in 33 - total .. 32 - total + 8 * n
      BY <2>2, <2>5, <1>1, <1>2, <1>3
    <3> QED BY <3>1, <2>1, <2>3, <2>5, <1>1
  <2>6. CASE i > 32 - rest
    <3>1. kept = Zero /\ i \notin 33 - total .. 32 - total + 8 * n
      BY <2>2, <2>6, <1>1, <1>2, <1>3
    <3> QED BY <3>1, <2>1, <2>6, <1>3 DEF Zero
  <2> QED BY <2>4, <2>5, <2>6, <1>2, <1>3
<1>6. bitbuffer' = [i \in 1 .. 32 |-> bitbuffer'[i]]
  BY <1>4 DEF Shifted
<1>7. bitbuffer' \in [1 .. 32 -> Int]
  BY <1>5, <1>6
<1> QED BY <1>1, <1>2, <1>3, <1>4, <1>5, <1>7

\* Before the first 32 bits nothing is in the buffer, and they fill it.
LEMMA FillWindow ==
  ASSUME BitsInv, Fill
  PROVE  BitsInv'
<1>1. /\ bitbuffer = [i \in 1 .. 32 |-> Zero] /\ bitstream = 0 /\ bitcount = 0
      /\ consumed = 0
  BY DEF BitsInv, Filled, Fill
<1>2. Bytes(32) = 4
  BY DEF Bytes
<1>3. /\ bitbuffer' = Shifted(32, 32) /\ bitstream' = 4 /\ bitcount' = 0
      /\ consumed' = 0 /\ next' = "DC" /\ index' = index
  BY <1>1, <1>2 DEF Fill, UpdateBuffer
<1>4. bitbuffer' = [i \in 1 .. 32 |-> i]
  BY <1>1, <1>2, <1>3 DEF Shifted, Zero
<1> QED BY <1>3, <1>4 DEF BitsInv, TypeOK, Position, Filled, BufferIsWindow

\* Every symbol keeps the window.
LEMMA DecodeKeepsWindow ==
  ASSUME BitsInv, next # "fill", NEW bits \in 0 .. 23, Decode(bits),
         next' \in {"DC", "AC"}, index' \in 0 .. 63
  PROVE  BitsInv'
<1>1. UpdateBuffer(bits) /\ consumed' = consumed + bits
  BY DEF Decode
<1>2. /\ bitbuffer' \in [1 .. 32 -> Int] /\ bitstream' \in Nat
      /\ bitcount' \in 0 .. 7 /\ consumed' \in Nat
      /\ 8 * bitstream' + bitcount' = consumed' + 32
      /\ \A i \in 1 .. 32 :
           bitbuffer'[i] = IF i <= 32 - bitcount' THEN consumed' + i ELSE Zero
  BY <1>1, UpdateKeepsWindow
<1> QED BY <1>2 DEF BitsInv, TypeOK, Position, Filled, BufferIsWindow

\* Every step of the decoder keeps the window and the positions.
LEMMA BitsStep == BitsInv /\ [Next]_vars => BitsInv'
<1> SUFFICES ASSUME BitsInv, [Next]_vars PROVE BitsInv'
  OBVIOUS
<1> USE LosslessAssumption
<1>0. index \in 0 .. 63
  BY DEF BitsInv, TypeOK
<1>1. CASE Fill
  BY <1>1, FillWindow
<1>2. CASE DecodeDC
  <2>1. PICK size \in Sizes \cup {0} : Decode(4 + size)
    BY <1>2 DEF DecodeDC
  <2>2. 4 + size \in 0 .. 23
    OBVIOUS
  <2>3. next # "fill" /\ next' = "AC" /\ index' = 1
    BY <1>2 DEF DecodeDC
  <2> QED BY <2>1, <2>2, <2>3, DecodeKeepsWindow
<1>3. CASE DecodeCoefficient
  <2>1. PICK run \in Runs, size \in Sizes :
          /\ index + run <= 63 /\ Decode(8 + size)
          /\ next' = IF index + run >= 63 THEN "DC" ELSE "AC"
          /\ index' = IF index + run >= 63 THEN index + run ELSE index + run + 1
    BY <1>3 DEF DecodeCoefficient
  <2>2. 8 + size \in 0 .. 23 /\ index' \in 0 .. 63 /\ next' \in {"DC", "AC"}
    BY <1>0, <2>1
  <2>3. next # "fill"
    BY <1>3 DEF DecodeCoefficient
  <2> QED BY <2>1, <2>2, <2>3, DecodeKeepsWindow
<1>4. CASE DecodeZeros
  <2>1. Decode(8) /\ next = "AC" /\ next' = "AC" /\ index' \in 0 .. 63
    BY <1>0, <1>4 DEF DecodeZeros
  <2> QED BY <2>1, DecodeKeepsWindow
<1>5. CASE DecodeEnd
  <2>1. Decode(8) /\ next = "AC" /\ next' = "DC" /\ index' \in 0 .. 63
    BY <1>0, <1>5 DEF DecodeEnd
  <2> QED BY <2>1, DecodeKeepsWindow
<1>6. CASE UNCHANGED vars
  BY <1>6 DEF vars, BitsInv, TypeOK, Position, Filled, BufferIsWindow
<1> QED BY <1>1, <1>2, <1>3, <1>4, <1>5, <1>6 DEF Next

\* The window and the positions are an inductive invariant of the decoder.
THEOREM BitsInductive == Spec => []BitsInv
<1>1. Init => BitsInv
  BY DEF Init, BitsInv, TypeOK, Position, Filled, BufferIsWindow, Zero
<1> QED BY <1>1, BitsStep, PTL DEF Spec

\* update_buffer never loses, repeats or mixes a bit of the stream.
THEOREM WindowHolds == Spec => []BufferIsWindow
<1>1. BitsInv => BufferIsWindow
  BY DEF BitsInv
<1> QED BY BitsInductive, <1>1, PTL

\* The types hold; in particular bitcount stays below 8.
THEOREM BitsTyping == Spec => []TypeOK
<1>1. BitsInv => TypeOK
  BY DEF BitsInv
<1> QED BY BitsInductive, <1>1, PTL

\* The longest symbol lies in the filled part of the buffer whenever input_DC or
\* input_AC looks at it.
THEOREM SymbolsBuffered == Spec => []SymbolInBuffer
<1>1. BitsInv => SymbolInBuffer
  BY DEF BitsInv, TypeOK, BufferIsWindow, SymbolInBuffer
<1> QED BY BitsInductive, <1>1, PTL

-----------------------------------------------------------------------------
(* The split of the rows.                                                  *)

TallEnough == \A h \in Heights : h >= 9

\* The four ranges of a frame follow one another from its first row to its last.
LEMMA RangesAbut ==
  ASSUME NEW h \in Nat, h >= 9
  PROVE  /\ \A r \in Ranges : FirstRow(r, h) \in Nat /\ LastRow(r, h) \in Nat
         /\ FirstRow("top", h) = 0
         /\ FirstRow("top", h) <= LastRow("top", h)
         /\ LastRow("top", h) = FirstRow("middle", h)
         /\ FirstRow("middle", h) <= LastRow("middle", h)
         /\ LastRow("middle", h) = FirstRow("low", h)
         /\ FirstRow("low", h) <= LastRow("low", h)
         /\ LastRow("low", h) = FirstRow("bottom", h)
         /\ FirstRow("bottom", h) <= LastRow("bottom", h)
         /\ LastRow("bottom", h) = h
BY DEF FirstRow, LastRow, Ranges

\* Each loop has converted the rows from its first up to the one it is at.
Progress ==
  \A r \in Ranges :
    IF r \in started
    THEN /\ row[r] \in FirstRow(r, height) .. LastRow(r, height)
         /\ conversions[r] = FirstRow(r, height) .. row[r] - 1
    ELSE conversions[r] = {}
RowsInv ==
  /\ height \in Heights
  /\ row \in [Ranges -> Nat] /\ conversions \in [Ranges -> SUBSET Nat]
  /\ started \subseteq Ranges
  /\ Progress

\* What a range has converted lies within it.
LEMMA WithinRange ==
  ASSUME TallEnough, RowsInv, NEW r \in Ranges
  PROVE  conversions[r] \subseteq FirstRow(r, height) .. LastRow(r, height) - 1
<1>1. height \in Nat /\ height >= 9
  BY RowSplitAssumption DEF RowsInv, TallEnough
<1>2. FirstRow(r, height) \in Nat /\ LastRow(r, height) \in Nat
  BY <1>1, RangesAbut
<1>3. CASE r \in started
  BY <1>2, <1>3 DEF RowsInv, Progress
<1>4. CASE r \notin started
  BY <1>4 DEF RowsInv, Progress
<1> QED BY <1>3, <1>4

\* The loops make progress as Progress says, whatever their interleaving.
LEMMA RowsStep ==
  ASSUME TallEnough, RowsInv, [RowNext]_rowVars PROVE RowsInv'
<1>1. height \in Nat /\ height >= 9
  BY RowSplitAssumption DEF RowsInv, TallEnough
<1>2. \A r \in Ranges : /\ FirstRow(r, height) \in Nat /\ LastRow(r, height) \in Nat
                        /\ FirstRow(r, height) <= LastRow(r, height)
  <2>1. \A r \in Ranges : r = "top" \/ r = "middle" \/ r = "low" \/ r = "bottom"
    BY DEF Ranges
  <2> QED BY <1>1, <2>1, RangesAbut
<1>3. ASSUME NEW range \in Ranges, Begin(range) PROVE RowsInv'
  <2> USE <1>3 DEF Begin
  <2>1. /\ height' = height /\ started' = started \cup {range}
        /\ row' = [row EXCEPT ![range] = FirstRow(range, height)]
        /\ conversions' = conversions /\ range \notin started
    OBVIOUS
  <2>2. row' \in [Ranges -> Nat]
    BY <1>2, <2>1 DEF RowsInv
  <2>3. ASSUME NEW r \in Ranges
        PROVE  IF r \in started'
               THEN /\ row'[r] \in FirstRow(r, height) .. LastRow(r, height)
                    /\ conversions'[r] = FirstRow(r, height) .. row'[r] - 1
               ELSE conversions'[r] = {}
    <3>1. CASE r = range
      <4>1. row'[r] = FirstRow(r, height) /\ conversions'[r] = {}
        BY <2>1, <3>1 DEF RowsInv, Progress
      <4>2. FirstRow(r, height) .. FirstRow(r, height) - 1 = {}
        BY <1>2
      <4> QED BY <4>1, <4>2, <1>2, <2>1, <3>1
    <3>2. CASE r # range
      BY <2>1, <3>2 DEF RowsInv, Progress
    <3> QED BY <3>1, <3>2
  <2> QED BY <2>1, <2>2, <2>3 DEF RowsInv, Progress
<1>4. ASSUME NEW range \in Ranges, ConvertRow(range) PROVE RowsInv'
  <2>1. /\ height' = height /\ started' = started /\ range \in started
        /\ row' = [row EXCEPT ![range] = row[range] + 1]
        /\ conversions' = [conversions EXCEPT
                             ![range] = conversions[range] \cup {row[range]}]
        /\ row[range] < LastRow(range, height)
    BY <1>4 DEF ConvertRow
  <2>2. /\ row[range] \in FirstRow(range, height) .. LastRow(range, height)
        /\ conversions[range] = FirstRow(range, height) .. row[range] - 1
    BY <2>1 DEF RowsInv, Progress
  <2>3. /\ row'[range] \in FirstRow(range, height) .. LastRow(range, height)
        /\ conversions'[range] = FirstRow(range, height) .. row'[range] - 1
    <3>1. row'[range] = row[range] + 1
      BY <2>1 DEF RowsInv
    <3>2. conversions'[range] = conversions[range] \cup {row[range]}
      BY <2>1 DEF RowsInv
    <3> QED BY <3>1, <3>2, <2>1, <2>2, <1>2
  <2>4. \A r \in Ranges \ {range} : row'[r] = row[r] /\ conversions'[r] = conversions[r]
    BY <2>1 DEF RowsInv
  <2>5. row' \in [Ranges -> Nat] /\ conversions' \in [Ranges -> SUBSET Nat]
    BY <2>1, <2>2, <1>2 DEF RowsInv
  <2> QED BY <2>1, <2>3, <2>4, <2>5 DEF RowsInv, Progress
<1>5. CASE UNCHANGED rowVars
  BY <1>5 DEF rowVars, RowsInv, Progress
<1> QED BY <1>3, <1>4, <1>5 DEF RowNext

\* The progress of the loops is an inductive invariant.
THEOREM RowsInductive ==
  ASSUME TallEnough
  PROVE  RowSpec => []RowsInv
<1>1. RowInit => RowsInv
  BY RowSplitAssumption DEF RowInit, RowsInv, Progress
<1>2. RowsInv /\ [RowNext]_rowVars => RowsInv'
  BY RowsStep
<1> QED BY <1>1, <1>2, PTL DEF RowSpec

\* Progress is enough: the ranges abut.
LEMMA ProgressSplits == ASSUME TallEnough, RowsInv PROVE EachRowOnce
<1>1. height \in Nat /\ height >= 9
  BY RowSplitAssumption DEF RowsInv, TallEnough
<1>2. \A r \in Ranges :
        conversions[r] \subseteq FirstRow(r, height) .. LastRow(r, height) - 1
  BY WithinRange
<1>3. \A r, s \in Ranges : r # s =>
        \/ LastRow(r, height) <= FirstRow(s, height)
        \/ LastRow(s, height) <= FirstRow(r, height)
  BY <1>1, RangesAbut DEF Ranges
<1>4. \A r \in Ranges : /\ FirstRow(r, height) \in Nat /\ LastRow(r, height) \in Nat
                        /\ LastRow(r, height) <= height
  BY <1>1, RangesAbut DEF Ranges
<1>5. ASSUME NEW r \in Ranges, NEW s \in Ranges, r # s
      PROVE  conversions[r] \cap conversions[s] = {}
  BY <1>2, <1>3, <1>4, <1>5
<1>6. ASSUME NEW r \in Ranges PROVE conversions[r] \subseteq 0 .. height - 1
  BY <1>1, <1>2, <1>4
<1>7. ASSUME \A r \in Ranges : Done(r)
      PROVE  UNION {conversions[r] : r \in Ranges} = 0 .. height - 1
  <2>1. \A r \in Ranges :
          conversions[r] = FirstRow(r, height) .. LastRow(r, height) - 1
    BY <1>1, <1>7, RangesAbut DEF RowsInv, Progress, Done
  <2>2. UNION {conversions[r] : r \in Ranges}
          = conversions["top"] \cup conversions["middle"] \cup conversions["low"]
              \cup conversions["bottom"]
    BY DEF Ranges
  <2> QED BY <1>1, <2>1, <2>2, RangesAbut DEF Ranges
<1> QED BY <1>5, <1>6, <1>7 DEF EachRowOnce

\* For one frame: no row is converted by two CPUs, none outside the frame, and all when
\* the loops have ended.
THEOREM RowsSplit ==
  ASSUME TallEnough
  PROVE  RowSpec => []EachRowOnce
<1>1. RowsInv => EachRowOnce
  BY ProgressSplits
<1> QED BY RowsInductive, <1>1, PTL

-----------------------------------------------------------------------------
(* One command after the other.                                            *)

\* A new call of lossless_decode begins with an empty buffer at the stream's start,
\* whatever the last one left.
LEMMA ReceiveKeepsBits == ASSUME BitsInv, ReceiveDecode PROVE BitsInv'
BY DEF ReceiveDecode, BitsInv, TypeOK, Position, Filled, BufferIsWindow, Zero

\* A new frame, of this height or another, begins with nothing converted.
LEMMA NextFrameKeepsRows == ASSUME RowsInv, NextFrame PROVE RowsInv'
<1>1. /\ height' \in Heights /\ started' = {}
      /\ row' \in [Ranges -> Nat] /\ conversions' = [range \in Ranges |-> {}]
  BY DEF NextFrame
<1> QED BY <1>1 DEF RowsInv, Progress

\* A step of a worker is one of the decoder or of the conversion, or begins a plane or a
\* frame; and none disturbs what the other computation has under way.
LEMMA JobStep ==
  ASSUME [JobNext]_jobVars
  PROVE  /\ ReceiveDecode \/ [Next]_vars
         /\ NextFrame \/ [RowNext]_rowVars
<1>1. CASE ReceiveDecode \/ LosslessDecode \/ DecodeDone
  BY <1>1 DEF ReceiveDecode, LosslessDecode, DecodeDone
<1>2. CASE ReceiveConvert \/ ColorConvert \/ ConvertDone \/ OtherConvert
  BY <1>2 DEF ReceiveConvert, ColorConvert, ConvertDone, OtherConvert, RowNext, Ranges
<1>3. CASE NextFrame
  BY <1>3 DEF NextFrame
<1>4. CASE UNCHANGED jobVars
  BY <1>4 DEF jobVars
<1> QED BY <1>1, <1>2, <1>3, <1>4 DEF JobNext

\* Whatever commands come between, and wherever a plane before ended in its stream, no
\* bit of the stream is lost, repeated or mixed in the bit buffer.
THEOREM JobsKeepWindow == JobSpec => []BufferIsWindow
<1>1. JobInit => BitsInv
  BY DEF JobInit, Init, BitsInv, TypeOK, Position, Filled, BufferIsWindow, Zero
<1>2. BitsInv /\ [JobNext]_jobVars => BitsInv'
  BY JobStep, BitsStep, ReceiveKeepsBits
<1>3. BitsInv => BufferIsWindow
  BY DEF BitsInv
<1> QED BY <1>1, <1>2, <1>3, PTL DEF JobSpec

\* Of each of the frames that follow one another, whatever their heights and however a
\* worker's conversion comes between the planes it decodes, no row is converted twice or
\* outside the frame, and all are when the loops have ended.
THEOREM JobsSplitRows ==
  ASSUME TallEnough
  PROVE  JobSpec => []EachRowOnce
<1>1. JobInit => RowsInv
  BY RowSplitAssumption DEF JobInit, RowInit, RowsInv, Progress
<1>2. RowsInv /\ [JobNext]_jobVars => RowsInv'
  BY JobStep, RowsStep, NextFrameKeepsRows
<1>3. RowsInv => EachRowOnce
  BY ProgressSplits
<1> QED BY <1>1, <1>2, <1>3, PTL DEF JobSpec
=============================================================================
