---------------------------- MODULE MemRefReshape ----------------------------
(***************************************************************************)
(* MemRefBuilder's reshapes and views (src/src/Dialect/Mlir/               *)
(* DialectBuilder.cpp 1087-1275): reshapeToFlat, reshapeFromFlat, cast,    *)
(* reinterpretCast, collapseShape, subView and dim, in any order on a      *)
(* buffer and on each other's results.                                     *)
(*                                                                         *)
(* A value is its memref type (the extents, Dyn for a dynamic one; every   *)
(* type these functions build has the identity layout) together with the  *)
(* run-time layout the op gives it: sizes, strides and offset into the     *)
(* buffer.  An IndexExpr is [lit, val]: a literal or a run-time value.     *)
(***************************************************************************)
EXTENDS Integers, Sequences, SequencesExt

CONSTANTS
  StaticExtents,  \* static extents of the buffer
  DynVals,        \* run-time values of its dynamic extents
  MaxRank,        \* largest rank of the buffer
  MaxVals,        \* values created, the buffer included
  SubViewAllowed(_, _, _)  \* which subviews callers take

ASSUME MaxRank \in Nat /\ MaxVals \in Nat \ {0}

VARIABLES
  vals,     \* the values, vals[1] the buffer
  last,     \* the value the last call returned
  aborted   \* the last call failed an assert

vars == <<vals, last, aborted>>

Dyn == -1
Prod(s) == FoldSeq(LAMBDA x, acc : x * acc, 1, s)
Iota(n) == [p \in 1 .. n |-> p - 1]

\* Row-major strides of sizes: the product of the extents to the right.
RowMajorStrides(sizes) ==
  [d \in DOMAIN sizes |-> Prod(SubSeq(sizes, d + 1, Len(sizes)))]

Value(op, src, type, sizes, strides, offset) ==
  [op |-> op, src |-> src, type |-> type, sizes |-> sizes,
   strides |-> strides, offset |-> offset]

\* A value laid out row-major from offset: what memref.reshape,
\* memref.collapse_shape and an allocation produce.
Contiguous(op, src, type, sizes, offset) ==
  Value(op, src, type, sizes, RowMajorStrides(sizes), offset)

\* IndexExpr arithmetic and getShape().
IE(lit, val) == [lit |-> lit, val |-> val]
IEMul(a, b) == IE(a.lit /\ b.lit, a.val * b.val)
IEProd(s) == FoldSeq(IEMul, IE(TRUE, 1), s)
getShape(ie) == IF ie.lit THEN ie.val ELSE Dyn

\* The dims a caller passes for value v, each from dim(v, d): createOrFold
\* folds a static extent to a literal, a dynamic one is a memref.dim op
\* whose value is the run-time size.
DimsOf(v) == [d \in DOMAIN v.type |->
                IF v.type[d] = Dyn THEN IE(FALSE, v.sizes[d]) ELSE IE(TRUE, v.type[d])]

NumElems(v) == Prod(v.sizes)

\* The buffer positions of v's elements in row-major order.
Dot(a, b) == MapThenSumSet(LAMBDA d : a[d] * b[d], DOMAIN a)
Unlinear(p, sizes) ==
  [d \in DOMAIN sizes |-> (p \div RowMajorStrides(sizes)[d]) % sizes[d]]
Elements(v) == [p \in 1 .. NumElems(v) |-> v.offset + Dot(Unlinear(p - 1, v.sizes), v.strides)]

-----------------------------------------------------------------------------
(* The builder functions.  Each gives what the call does: abort, return   *)
(* an existing value as is, or create a new one.  The hasNonIdentityLayout *)
(* asserts never fire: every type built here has the identity layout.      *)

Abort == [abort |-> TRUE, new |-> FALSE, result |-> 0]
Same(vi) == [abort |-> FALSE, new |-> FALSE, result |-> vi]
New(val) == [abort |-> FALSE, new |-> TRUE, result |-> val]

\* reshapeToFlat: flatten the innermost dimsToFlatten dims (-1 is all);
\* dimsToFlatten = 1 returns the input, once flattenedSize is computed.
reshapeToFlat(v, vi, dims, dimsToFlatten) ==
  LET inputRank == Len(v.type)
      k == IF dimsToFlatten = -1 THEN inputRank ELSE dimsToFlatten
      numOfFlattenedElements == IEProd(SubSeq(dims, inputRank - k + 1, inputRank))
      outputRank == (inputRank - k) + 1
      shapeIE == [d \in 1 .. outputRank |->
                    IF d = outputRank THEN numOfFlattenedElements ELSE dims[d]]
  IN IF ~(k > 0 /\ k <= inputRank) THEN Abort
     ELSE IF k = 1 THEN Same(vi)
     ELSE New(Contiguous("reshapeToFlat", vi,
                [d \in 1 .. outputRank |-> getShape(shapeIE[d])],
                [d \in 1 .. outputRank |-> shapeIE[d].val], v.offset))

\* reshapeFromFlat: store dims into a shape buffer and reshape the input
\* to outputType.
reshapeFromFlat(v, vi, dims, outputType) ==
  New(Contiguous("reshapeFromFlat", vi, outputType,
                [i \in 1 .. Len(outputType) |-> dims[i].val], v.offset))

\* Mutation: the running stride multiplied by the extent left of i.
RECURSIVE StrideLoopOffByOne(_, _, _, _)
StrideLoopOffByOne(sizesIE, i, strideIE, stridesIE) ==
  IF i < 1 THEN stridesIE
  ELSE StrideLoopOffByOne(sizesIE, i - 1,
                  IF i > 1 THEN IEMul(strideIE, sizesIE[i - 1]) ELSE strideIE,
                  [stridesIE EXCEPT ![i] = strideIE])

\* The stride loop of reinterpretCast, from i = rank - 1 down to 0.
RECURSIVE StrideLoop(_, _, _, _)
StrideLoop(sizesIE, i, strideIE, stridesIE) ==
  IF i < 1 THEN stridesIE
  ELSE StrideLoop(sizesIE, i - 1,
                  IF i > 1 THEN IEMul(strideIE, sizesIE[i]) ELSE strideIE,
                  [stridesIE EXCEPT ![i] = strideIE])

\* reinterpretCast: sizes outputDims, row-major strides, offset 0.
reinterpretCast(v, vi, outputDims) ==
  LET rank == Len(outputDims)
      stridesIE == StrideLoop(outputDims, rank, IE(TRUE, 1), [d \in 1 .. rank |-> IE(TRUE, 1)])
  IN New(Value("reinterpretCast", vi,
                  [d \in 1 .. rank |-> getShape(outputDims[d])],
                  [d \in 1 .. rank |-> outputDims[d].val],
                  [d \in 1 .. rank |-> stridesIE[d].val], 0))

\* Mutation: the loop goes on after a dynamic extent (no break).
RECURSIVE GroupShapeNoBreak(_, _, _)
GroupShapeNoBreak(inputShape, group, currShape) ==
  IF group = << >> THEN currShape
  ELSE GroupShapeNoBreak(inputShape, Tail(group),
         IF inputShape[Head(group)] = Dyn THEN Dyn ELSE currShape * inputShape[Head(group)])

\* The extent of one group of collapseShape: the product of the input
\* extents, dynamic as soon as one of them is.
RECURSIVE GroupShape(_, _, _)
GroupShape(inputShape, group, currShape) ==
  IF group = << >> THEN currShape
  ELSE IF inputShape[Head(group)] = Dyn THEN Dyn
  ELSE GroupShape(inputShape, Tail(group), currShape * inputShape[Head(group)])

\* collapseShape: each output dim is a group of consecutive input dims.
collapseShape(v, vi, reassociation) ==
  LET outputRank == Len(reassociation)
      GroupSize(r) == Prod([i \in DOMAIN reassociation[r] |-> v.sizes[reassociation[r][i]]])
  IN IF \E r \in 1 .. outputRank :
          \E i \in DOMAIN reassociation[r] : reassociation[r][i] \notin DOMAIN v.type
     THEN Abort
     ELSE New(Contiguous("collapseShape", vi,
                [r \in 1 .. outputRank |-> GroupShape(v.type, reassociation[r], 1)],
                [r \in 1 .. outputRank |-> GroupSize(r)], v.offset))

\* cast: memref.cast to outputType, the same layout under another type.
cast(v, vi, outputType) ==
  New(Value("cast", vi, outputType, v.sizes, v.strides, v.offset))

\* subView: the region at offsets of the given sizes, unit strides; the
\* result type has the sizes as extents and the identity layout.
subView(v, vi, offsets, sizes) ==
  New(Value("subView", vi, sizes, sizes, v.strides,
                   v.offset + Dot(offsets, v.strides)))

-----------------------------------------------------------------------------
(* Caller inputs.                                                          *)

Shapes == BoundedSeq(StaticExtents \cup {Dyn}, MaxRank)

\* Groupings of 1 .. n into consecutive groups, for collapseShape.
RECURSIVE Groupings(_, _)
Groupings(lo, n) ==
  IF lo > n THEN {<< >>}
  ELSE UNION {{<< [i \in 1 .. (hi - lo + 1) |-> lo + i - 1] >> \o g : g \in Groupings(hi + 1, n)} :
                hi \in lo .. n}

\* Values whose dims have the element count of v, for the reshapes that
\* take the caller's dims.
SameCount(v) == {u \in 1 .. Len(vals) : NumElems(vals[u]) = NumElems(v)}

\* The types a value is cast to: every extent made dynamic, or every
\* extent made static (the run-time sizes; a static extent the run-time
\* size does not have would be the caller's undefined behaviour).
\* A cast to the type v already has creates nothing new and is left out.
CastTypes(v) == {[d \in DOMAIN v.sizes |-> Dyn], v.sizes} \ {v.type}

SubViewInputs(v) ==
  {x \in [offsets : [DOMAIN v.sizes -> {0, 1}], sizes : [DOMAIN v.sizes -> 1 .. Max(Range(v.sizes) \cup {1})]] :
     /\ \A d \in DOMAIN v.sizes : x.offsets[d] + x.sizes[d] <= v.sizes[d]}

-----------------------------------------------------------------------------
Init ==
  /\ \E type \in Shapes, rho \in [1 .. MaxRank -> DynVals] :
       vals = << Contiguous("alloc", 0, type,
                   [d \in DOMAIN type |-> IF type[d] = Dyn THEN rho[d] ELSE type[d]], 0) >>
  /\ last = 1
  /\ aborted = FALSE

\* One builder call on value vi; an abort ends the run.
Apply(ret) ==
  /\ aborted' = ret.abort
  /\ vals' = IF ret.new THEN Append(vals, ret.result) ELSE vals
  /\ last' = CASE ret.abort -> last
               [] ret.new   -> Len(vals) + 1
               [] OTHER     -> ret.result

Call(F(_, _)) ==
  /\ ~aborted
  /\ Len(vals) < MaxVals
  /\ \E vi \in 1 .. Len(vals) : F(vals[vi], vi)

ReshapeToFlat ==
  Call(LAMBDA v, vi : \E k \in {-1} \cup 1 .. MaxRank :
                        Apply(reshapeToFlat(v, vi, DimsOf(v), k)))

ReshapeFromFlat ==
  Call(LAMBDA v, vi : \E u \in SameCount(v) :
                        Apply(reshapeFromFlat(v, vi, DimsOf(vals[u]), vals[u].type)))

ReinterpretCast ==
  Call(LAMBDA v, vi : \E u \in SameCount(v) :
                        Apply(reinterpretCast(v, vi, DimsOf(vals[u]))))

CollapseShape ==
  Call(LAMBDA v, vi : \E g \in Groupings(1, Len(v.type)) :
                        Apply(collapseShape(v, vi, g)))

Cast ==
  Call(LAMBDA v, vi : \E t \in CastTypes(v) : Apply(cast(v, vi, t)))

SubView ==
  Call(LAMBDA v, vi : \E x \in SubViewInputs(v) :
                        /\ SubViewAllowed(v, x.offsets, x.sizes)
                        /\ Apply(subView(v, vi, x.offsets, x.sizes)))

Next == ReshapeToFlat \/ ReshapeFromFlat \/ ReinterpretCast \/ CollapseShape \/ Cast \/ SubView

Spec == Init /\ [][Next]_vars

-----------------------------------------------------------------------------
(* Properties.                                                             *)

\* The run-time meaning of the identity layout: the elements in row-major
\* order are the buffer positions 0, 1, 2, ...
IdentityLayoutHolds(v) == Elements(v) = Iota(NumElems(v))

\* Every value has a type, sizes and strides of its rank.
TypeOK ==
  /\ vals \in Seq([op : STRING, src : Nat, type : Seq(Nat \cup {Dyn}),
                   sizes : Seq(Nat), strides : Seq(Nat), offset : Nat])
  /\ \A i \in DOMAIN vals :
       Len(vals[i].type) = Len(vals[i].sizes) /\ Len(vals[i].strides) = Len(vals[i].sizes)
  /\ last \in DOMAIN vals
  /\ aborted \in BOOLEAN

\* Every static extent of a type built by reshapeToFlat, reshapeFromFlat,
\* reinterpretCast, collapseShape, cast or subView is the run-time size of that
\* dim, after any chain of these calls (IndexExpr literals, the product of
\* the flattened dims, the dynamic groups of collapseShape).
TypeMatchesRuntime ==
  \A i \in DOMAIN vals :
    \A d \in DOMAIN vals[i].type : vals[i].type[d] \in {Dyn, vals[i].sizes[d]}

\* Spec section 4.3: a reshape, reinterpretCast or collapseShape moves no
\* data: read in row-major order, the result has the elements of its
\* (identity-laid-out) source in their order.  Through chains of calls this
\* gives the spec's reshapeToFlat / reshapeFromFlat round trip.
SameElements ==
  \A i \in 2 .. Len(vals) :
    LET w == vals[i]
    IN w.op # "subView" /\ IdentityLayoutHolds(vals[w.src])
         => Elements(w) = Elements(vals[w.src])

=============================================================================
