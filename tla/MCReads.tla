------------------------------ MODULE MCReads ------------------------------
(* A small instance of Reads for TLC. *)
EXTENDS Reads

MaxKeysArgs == {-1, 1, 2}
RangeArgs   == {-1, 0, 1, 2, 3, 4, 7}
=============================================================================
