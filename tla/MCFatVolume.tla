---------------------------- MODULE MCFatVolume ----------------------------
(* Two videos, of three clusters out of order that are spread over two sectors of the *)
(* FAT, and of one; three directories.                                                *)
EXTENDS FatVolume

VideoChains == [V1 |-> <<5, 3, 2>>, V2 |-> <<4>>]

Roots == {
  <<"other", "part", "other", "V1", "unused", "V2">>,         \* the last name is a video
  <<"V2", "unused", "V1", "part", "other">>,
  <<"part", "part", "other", "V1", "part", "bare", "V2">>}    \* a long name without attributes
=============================================================================
