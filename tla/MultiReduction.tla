--------------------------- MODULE MultiReduction ---------------------------
(***************************************************************************)
(* VectorBuilder::multiReduction (src/src/Dialect/Mlir/DialectBuilder.cpp) *)
(* and the butterfly shuffles mergeHigh / mergeLow it is built from.  One  *)
(* step of this module is one iteration of one of the three nested loops:  *)
(*   for r (groups of VL inputs)                                           *)
(*     for step = 1, 2, 4, .. < VL                                         *)
(*       for p < numPairs: tmpArray[r+p] := add(mergeHigh, mergeLow)       *)
(* The in-place writes into tmpArray are kept exactly as the code does     *)
(* them, so a write that clobbers a vector still to be read is visible.    *)
(* Lane values are bags of input cells (see MultiReductionSpec).           *)
(***************************************************************************)
EXTENDS Naturals, Sequences, Bags, FiniteSetsExt

CONSTANTS
  MachineVLs,  \* the lengths getMachineVectorLength may report
  MaxN         \* the largest number of input vectors a caller passes

ASSUME MachineVLs \subseteq {2^k : k \in 0 .. 4}
ASSUME MaxN \in Nat \ {0}

VARIABLES
  N,         \* inputVecArray.size()
  VL,        \* getLengthOf1DVector(inputVecArray[0]) = machineVL
  tmp,       \* tmpArray
  out,       \* outputVecArray
  r,         \* first input of the group being reduced
  step,      \* shuffle run length of the current butterfly level
  numPairs,  \* number of vector pairs at the current level
  p          \* pair being reduced

vars == <<N, VL, tmp, out, r, step, numPairs, p>>

Lanes(vl) == 0 .. vl - 1

Cell(v, l) == SetToBag({<<v, l>>})

-----------------------------------------------------------------------------
(* Shuffle masks.  mergeHigh takes step-sized runs alternately from the    *)
(* low half of lhs and of rhs (rhs lanes are numbered VL .. 2VL-1 by the   *)
(* shuffle); mergeLow does the same from the high half.  Mask entries the  *)
(* loops do not reach keep the 0 the SmallVector was filled with.          *)

MergeMask(vl, s, half) ==
  LET pairsOfLhsRhs == vl \div (2 * s)
  IN [i \in Lanes(vl) |->
        IF i < pairsOfLhsRhs * 2 * s
        THEN half + (i \div (2 * s)) * s + (i % s)
                  + (IF (i \div s) % 2 = 1 THEN vl ELSE 0)
        ELSE 0]

\* vector.shuffle: lane i of the result is lane mask[i] of lhs ++ rhs.
shuffle(lhs, rhs, mask) ==
  [i \in DOMAIN mask |->
     IF mask[i] < VL THEN lhs[mask[i]] ELSE rhs[mask[i] - VL]]

\* MathBuilder::add on two vectors: lane-wise sum.
add(a, b) == [i \in DOMAIN a |-> a[i] (+) b[i]]

mergeHigh(lhs, rhs, s) == shuffle(lhs, rhs, MergeMask(VL, s, 0))

mergeLow(lhs, rhs, s) == shuffle(lhs, rhs, MergeMask(VL, s, VL \div 2))

-----------------------------------------------------------------------------
(* The reduction loops.                                                    *)

\* Entry: the asserts (N > 0, VL = machineVL, N % machineVL = 0, all inputs
\* of length VL) restrict the calls that get past them; the inputs are
\* copied into tmpArray, outputVecArray is cleared and the first group
\* starts with step 1 and VL/2 pairs.
Init ==
  /\ VL \in MachineVLs
  /\ N \in {n \in 1 .. MaxN : n % VL = 0}
  /\ tmp = [v \in 0 .. N - 1 |-> [l \in Lanes(VL) |-> Cell(v, l)]]
  /\ out = << >>
  /\ r = 0
  /\ step = 1
  /\ numPairs = VL \div 2
  /\ p = 0

\* Mutation: the sum stored over the first vector of the pair.
ReducePairIntoPairHead ==
  /\ r < N /\ step < VL /\ p < numPairs
  /\ LET lhs == tmp[r + 2 * p]
         rhs == tmp[r + 2 * p + 1]
     IN tmp' = [tmp EXCEPT ![r + 2 * p] =
                  add(mergeHigh(lhs, rhs, step), mergeLow(lhs, rhs, step))]
  /\ p' = p + 1
  /\ UNCHANGED <<N, VL, out, r, step, numPairs>>

\* Innermost body: reduce pair p of the current level into tmpArray[r+p].
ReducePair ==
  /\ r < N /\ step < VL /\ p < numPairs
  /\ LET lhs == tmp[r + 2 * p]
         rhs == tmp[r + 2 * p + 1]
     IN tmp' = [tmp EXCEPT ![r + p] =
                  add(mergeHigh(lhs, rhs, step), mergeLow(lhs, rhs, step))]
  /\ p' = p + 1
  /\ UNCHANGED <<N, VL, out, r, step, numPairs>>

\* Mutation: the next level starts without resetting the pair index.
NextLevelNoPairReset ==
  /\ r < N /\ step < VL /\ p >= numPairs
  /\ numPairs' = numPairs \div 2
  /\ step' = step * 2
  /\ UNCHANGED <<N, VL, tmp, out, r, p>>

\* End of one butterfly level: half as many pairs, runs twice as long.
NextLevel ==
  /\ r < N /\ step < VL /\ p >= numPairs
  /\ numPairs' = numPairs \div 2
  /\ step' = step * 2
  /\ p' = 0
  /\ UNCHANGED <<N, VL, tmp, out, r>>

\* Mutation: the output taken from the last vector of the group.
EmitGroupFromLastSlot ==
  /\ r < N /\ step >= VL
  /\ out' = Append(out, tmp[r + VL - 1])
  /\ r' = r + VL
  /\ step' = 1
  /\ numPairs' = VL \div 2
  /\ p' = 0
  /\ UNCHANGED <<N, VL, tmp>>

\* The group is reduced to tmpArray[r]: emit it and start the next group.
EmitGroup ==
  /\ r < N /\ step >= VL
  /\ out' = Append(out, tmp[r])
  /\ r' = r + VL
  /\ step' = 1
  /\ numPairs' = VL \div 2
  /\ p' = 0
  /\ UNCHANGED <<N, VL, tmp>>

Next == ReducePair \/ NextLevel \/ EmitGroup

\* The loops are sequential code: a step that is enabled is taken.
Spec == Init /\ [][Next]_vars /\ WF_vars(Next)

-----------------------------------------------------------------------------
(* Properties.                                                             *)

TypeOK ==
  /\ VL \in MachineVLs
  /\ N \in 1 .. MaxN
  /\ DOMAIN tmp = 0 .. N - 1
  /\ \A v \in DOMAIN tmp : DOMAIN tmp[v] = Lanes(VL) /\ \A l \in Lanes(VL) : IsABag(tmp[v][l])
  /\ r \in 0 .. N /\ p \in 0 .. numPairs
  /\ step \in {2^k : k \in 0 .. 4} /\ numPairs \in 0 .. VL \div 2

\* Slots of tmpArray that still carry a live partial sum of the current
\* group: the pair heads already written at this level, the vectors not yet
\* read at this level, or, once the levels are done, tmpArray[r] alone.
LiveSlots ==
  IF step < VL
  THEN {r + q : q \in (0 .. p - 1) \cup (2 * p .. 2 * numPairs - 1)}
  ELSE {r}

Copies(c) ==
  MapThenSumSet(LAMBDA sl : CopiesIn(c, tmp[sl[1]][sl[2]]),
                LiveSlots \X Lanes(VL))

\* Inside a group, the live partial sums add up every input lane of the
\* group exactly once and nothing else: the in-place store
\* tmpArray[r+p] = red never overwrites a vector a later pair of the same
\* level still reads, and no lane is dropped or counted twice by the
\* mergeHigh/mergeLow masks.
GroupConserved ==
  r < N =>
    \A v \in 0 .. N - 1, l \in Lanes(VL) :
      Copies(<<v, l>>) = IF v \in r .. r + VL - 1 THEN 1 ELSE 0

\* The loops implement MultiReductionSpec: every output vector appended to
\* outputVecArray is the reference group sum (lane j = horizontal sum of
\* input r+j), and under the fairness of sequential code all N \div VL
\* outputs are produced.
Abstract == INSTANCE MultiReductionSpec

AbstractSpec == Abstract!Spec
=============================================================================
