---------------------------- MODULE LosslessBits ----------------------------
(***************************************************************************)
(* lossless_decode's reading of the bitstream: the 32-bit bitbuffer, the   *)
(* byte pointer and bitcount, as input_DC, input_AC and update_buffer move *)
(* them, and the zig-zag index of the coefficient.                         *)
(*                                                                         *)
(* A bit is named by its position in the stream, the first being 1, so     *)
(* that the buffer shows which bits it holds and where.  The values of the *)
(* coefficients are abstracted; the sizes and run lengths of the symbols   *)
(* are any that a well-formed stream contains.                             *)
(***************************************************************************)
EXTENDS Integers

CONSTANTS
  MaxBits,   \* bound: bits of the stream decoded
  Sizes,     \* sizes of the amplitudes, 4 bits each
  Runs       \* run lengths, 4 bits each

ASSUME LosslessAssumption ==
  /\ MaxBits \in Nat
  /\ Sizes \subseteq 1 .. 15 /\ Runs \subseteq 0 .. 15

VARIABLES
  bitbuffer,   \* bitbuffer, its bits numbered from the most significant
  bitstream,   \* bytes the pointer bitstream is past the start
  bitcount,    \* bitcount
  next,        \* "fill" (the first 32 bits are due), "DC" or "AC"
  index,       \* zig-zag order index
  consumed     \* history: bits of the symbols decoded so far

vars == <<bitbuffer, bitstream, bitcount, next, index, consumed>>

Zero == 0      \* a bit that is 0 because nothing was shifted in
Mixed == -1    \* the OR of two bits of the stream

Init ==
  /\ bitbuffer = [i \in 1 .. 32 |-> Zero]
  /\ bitstream = 0 /\ bitcount = 0
  /\ next = "fill" /\ index = 0 /\ consumed = 0

-----------------------------------------------------------------------------
\* Mutant of Bytes: the comparisons of update_buffer are strict.
BytesStrict(total) ==
  IF total = 32 THEN 4 ELSE IF total > 24 THEN 3 ELSE IF total > 16 THEN 2
  ELSE IF total > 8 THEN 1 ELSE 0

\* The bytes update_buffer shifts in when total bits are due.
Bytes(total) ==
  IF total = 32 THEN 4 ELSE IF total >= 24 THEN 3 ELSE IF total >= 16 THEN 2
  ELSE IF total >= 8 THEN 1 ELSE 0

\* The buffer is shifted left by size; byte j of those due is ORed in, shifted left
\* by total - 8 * j.
Shifted(size, total) ==
  [i \in 1 .. 32 |->
     LET kept  == IF i + size <= 32 THEN bitbuffer[i + size] ELSE Zero
         fresh == 8 * bitstream + i + total - 32
     IN  IF i \in 33 - total .. 32 - total + 8 * Bytes(total)
         THEN IF kept = Zero THEN fresh ELSE Mixed
         ELSE kept]

UpdateBuffer(size) ==
  LET total == bitcount + size
  IN  /\ bitbuffer' = Shifted(size, total)
      /\ bitstream' = bitstream + Bytes(total)
      /\ bitcount' = total % 8

\* update_buffer with size 32 on the empty buffer.
Fill ==
  /\ next = "fill"
  /\ UpdateBuffer(32)
  /\ next' = "DC"
  /\ UNCHANGED <<index, consumed>>

\* A symbol of the given number of bits is decoded and removed.
Decode(bits) ==
  /\ consumed + bits <= MaxBits
  /\ UpdateBuffer(bits)
  /\ consumed' = consumed + bits

\* A size field of 0 has no amplitude after it.
DecodeDC ==
  /\ next = "DC"
  /\ \E size \in Sizes \cup {0} : Decode(4 + size)
  /\ next' = "AC" /\ index' = 1

\* The coefficient at index + run; the one at 63 ends the block.
DecodeCoefficient ==
  /\ next = "AC"
  /\ \E run \in Runs, size \in Sizes :
       /\ index + run <= 63
       /\ Decode(8 + size)
       /\ next' = IF index + run >= 63 THEN "DC" ELSE "AC"
       /\ index' = IF index + run >= 63 THEN index + run ELSE index + run + 1

\* ZRL: sixteen zeros, and a coefficient follows.
DecodeZeros ==
  /\ next = "AC" /\ index + 16 <= 63
  /\ Decode(8)
  /\ index' = index + 16
  /\ UNCHANGED next

DecodeEnd ==
  /\ next = "AC"
  /\ Decode(8)
  /\ next' = "DC"
  /\ UNCHANGED index

Next == Fill \/ DecodeDC \/ DecodeCoefficient \/ DecodeZeros \/ DecodeEnd

Spec == Init /\ [][Next]_vars

-----------------------------------------------------------------------------
(* Properties.                                                             *)

TypeOK ==
  /\ bitbuffer \in [1 .. 32 -> Int]
  /\ bitstream \in Nat /\ bitcount \in 0 .. 7
  /\ next \in {"fill", "DC", "AC"} /\ index \in 0 .. 63 /\ consumed \in Nat

\* The buffer is a window on the stream: its upper 32 - bitcount bits are the bits
\* that follow those consumed, none lost, repeated or mixed, and the rest are 0.
BufferIsWindow ==
  next # "fill" =>
    \A i \in 1 .. 32 :
      bitbuffer[i] = IF i <= 32 - bitcount THEN consumed + i ELSE Zero

\* The longest symbol, 23 bits, always lies in the part of the buffer that is
\* filled: input_DC and input_AC never take an amplitude from bits not read yet.
SymbolInBuffer ==
  next # "fill" => \A i \in 1 .. 23 : bitbuffer[i] = consumed + i
=============================================================================
