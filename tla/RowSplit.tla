------------------------------ MODULE RowSplit ------------------------------
(***************************************************************************)
(* How the color conversion of one frame is shared: worker 2, worker 1 and *)
(* the main CPU each compute their range of block rows from the height of  *)
(* the video and convert it row by row, none of them knowing of the        *)
(* others.  The main CPU has two ranges, with a wait for a display buffer  *)
(* between them.                                                           *)
(***************************************************************************)
EXTENDS Integers, FiniteSets

CONSTANT Heights   \* heights of the videos, in blocks (h_size / 8)

ASSUME RowSplitAssumption == Heights \subseteq Nat

VARIABLES
  height,      \* hCb_size
  row,         \* h of the loop of each range
  started,     \* the ranges whose loop has begun
  conversions  \* history: for each range, the rows it has converted

rowVars == <<height, row, started, conversions>>

Ranges == {"top", "middle", "low", "bottom"}

\* Mutant of FirstRow: worker 1 starts without the three rows that were moved to
\* worker 2.
FirstRowUnmoved(range, h) ==
  CASE range = "top"    -> 0
    [] range = "middle" -> (5 * h) \div 10
    [] range = "low"    -> (8 * h) \div 10
    [] range = "bottom" -> (9 * h) \div 10

FirstRow(range, h) ==
  CASE range = "top"    -> 0
    [] range = "middle" -> (5 * h) \div 10 + 3
    [] range = "low"    -> (8 * h) \div 10
    [] range = "bottom" -> (9 * h) \div 10
LastRow(range, h) ==
  CASE range = "top"    -> (5 * h) \div 10 + 3
    [] range = "middle" -> (8 * h) \div 10
    [] range = "low"    -> (9 * h) \div 10
    [] range = "bottom" -> h

RowInit ==
  /\ height \in Heights
  /\ row = [range \in Ranges |-> 0]
  /\ started = {}
  /\ conversions = [range \in Ranges |-> {}]

Done(range) == range \in started /\ row[range] >= LastRow(range, height)

\* The loop begins: on a worker when its command arrives, on the main CPU in the
\* order of the code.
Begin(range) ==
  /\ range \notin started
  /\ range = "bottom" => Done("low")
  /\ started' = started \cup {range}
  /\ row' = [row EXCEPT ![range] = FirstRow(range, height)]
  /\ UNCHANGED <<height, conversions>>

ConvertRow(range) ==
  /\ range \in started /\ row[range] < LastRow(range, height)
  /\ conversions' = [conversions EXCEPT ![range] = @ \cup {row[range]}]
  /\ row' = [row EXCEPT ![range] = @ + 1]
  /\ UNCHANGED <<height, started>>

RowNext == \E range \in Ranges : Begin(range) \/ ConvertRow(range)

RowSpec == RowInit /\ [][RowNext]_rowVars

-----------------------------------------------------------------------------
(* Properties.                                                             *)

\* No two CPUs convert the same row, none touches a row outside the frame, and when all
\* have finished every row of the frame is converted.
EachRowOnce ==
  /\ \A r, s \in Ranges : r # s => conversions[r] \cap conversions[s] = {}
  /\ \A r \in Ranges : conversions[r] \subseteq 0 .. height - 1
  /\ (\A r \in Ranges : Done(r))
       => UNION {conversions[r] : r \in Ranges} = 0 .. height - 1
=============================================================================
