------------------------- MODULE MultiReductionSpec -------------------------
(***************************************************************************)
(* What VectorBuilder::multiReduction promises its caller: N input vectors *)
(* of the machine vector length VL are reduced group by group (VL inputs   *)
(* per group) into N \div VL output vectors, and lane j of output k is the *)
(* horizontal sum of input vector k*VL + j.  A lane value is the bag of    *)
(* the input cells <<vector, lane>> added into it, so the order in which   *)
(* the additions happen is abstracted away; what is kept is that every     *)
(* input lane is added exactly once, into the right output lane.           *)
(***************************************************************************)
EXTENDS Naturals, Sequences, Bags

CONSTANTS
  MachineVLs,  \* the lengths getMachineVectorLength may report
  MaxN         \* the largest number of input vectors a caller passes

VARIABLES
  N,    \* number of input vectors of this call
  VL,   \* vector length (the code asserts VL = machineVL)
  out   \* outputVecArray

Lanes(vl) == 0 .. vl - 1

\* Lane l of input vector v, as a one-element sum.
Cell(v, l) == SetToBag({<<v, l>>})

\* The reference result: output vector k holds in lane j the sum of all
\* lanes of input vector k*vl + j.
GroupSum(k, vl) ==
  [j \in Lanes(vl) |-> SetToBag({<<k * vl + j, l>> : l \in Lanes(vl)})]

Init ==
  /\ VL \in MachineVLs
  /\ N \in {n \in 1 .. MaxN : n % VL = 0}
  /\ out = << >>

Emit ==
  /\ Len(out) * VL < N
  /\ out' = Append(out, GroupSum(Len(out), VL))
  /\ UNCHANGED <<N, VL>>

vars == <<N, VL, out>>

Spec == Init /\ [][Emit]_vars /\ WF_vars(Emit)
=============================================================================
