---------------------------- MODULE MCMemRefAlloc ----------------------------
(* Model-checking instance of MemRefAlloc.  Bit widths 4 (sub-byte), 8 and *)
(* 16; the machine has no vectors for i4 (getVectorLength 0), 4 lanes of   *)
(* i8 and 2 of i16; unroll 3 makes VL a non power of two.                  *)
EXTENDS MemRefAlloc

MCVectorLength == [bw \in {4, 8, 16} |-> IF bw = 4 THEN 0 ELSE IF bw = 8 THEN 4 ELSE 2]
\* defaultAlign (-1), below and above gDefaultAllocAlign.
MCAlignments == {-1, 8, 64}
=============================================================================
