# TLA+ models of the onnx-mlir dialect builders

This directory holds TLA+ models of the IR builder layer in
`src/src/Dialect/Mlir/DialectBuilder.cpp` and of the ONNX shape-inference
glue in `src/src/compiler/dialect/onnx/onnx_ops.cpp`. TLC checks the
models. PROJECT.json lists the components, the runs, the
mutants, the map from each definition to its source lines, the findings and
the hazards.

## 1. The system

The code is a single-threaded, synchronous IR builder. Each builder call
creates one or a few MLIR operations and returns their value. No call
suspends or runs in parallel. The hard behaviour is therefore not
interleaving. It comes from three places:

* long *sequences of calls*, where the result of one call is the input of
  the next;
* *dispatch* on element kinds: signless, unsigned, float or index,
  each either a scalar or a vector;
* *numeric edges*: wrap-around, poison, padding and ceiling divisions.

| Part | Source | State it changes | Operations |
|---|---|---|---|
| TypeClassifier | DialectBuilder.cpp 54-82 | none (pure) | elementTypeWithVector, getTypeWithVector, is{Integer,UnsignedInteger,Float}WithVector |
| ArithmeticBuilder (MathBuilder) | 84-808 | the operations it emits | constant, add, sub, mul, div, rem, neg, compares, casts, min/max, select, fma, math ops, inf attrs |
| MemoryBuilder (MemRefBuilder) | 830-1275 | allocations, views, reshapes | alloc/alignedAlloc/alloca/alignedAlloca/dealloc, alignedAllocWithSimdPadding, reshape*, reinterpretCast, collapseShape, view, subView, dim |
| VectorReductionEngine (VectorBuilder) | 1330-1515 | the shuffles and adds it emits | mergeHigh, mergeLow, multiReduction, load/store/broadcast wrappers |
| ShapeBuilder, SCFBuilder, LLVMBuilder | 814-825, 1276-1328, 1517-1739 | one op per call | thin wrappers |
| ONNX shape inference | onnx_ops.cpp 45-290 | the result type of an op | inferShapes of element-wise ops, MatMul, Gemm, FullGemm, Reshape |
| MachineVectorProfile | external | none | lanes per element type, at least 1 |

How the parts interact:

* MathBuilder uses TypeClassifier on every call.
* MemRefBuilder uses VectorBuilder::getMachineVectorLength for the
  SIMD padding, and MathBuilder for the view offset.
* multiReduction uses MathBuilder::add for every reduced pair.
* The ONNX glue only propagates types: each op's result type is computed
  from the types of earlier values. The shape inference pass calls it op
  after op.

## 2. Modules

### TypeClassifier.tla

A type is modelled as a record `[kind, w, vec]`.

* `kind` is `"sl"` (signless; width 1 is the boolean), `"ui"`, `"f"` or
  `"idx"`.
* `w` is the width.
* `vec` is TRUE for a 1-D vector.

Widths 1/2/3 stand for i1, the narrow widths and i64/index. Everything the
code does with a width depends only on comparing widths and on arithmetic
mod 2^w.

The module has the helpers of lines 54-82. It also has the whole-type tests
that `cast` makes (`isa<IntegerType>`, `isUnsignedInteger`,
`isSignlessInteger` on the type itself). These are false for any vector,
which is the source of findings 3 and 4.

### ArithBuilder.tla + MCArithBuilder.tla

**State**

* `vals`: the sequence of handles built so far. Each handle has its type,
  its run-time bit pattern, the call that made it and that call's
  arguments.
* `emitted`: the operations the last call created, as name, operand types
  and result type.
* `aborted`: the last call reached an assert or llvm_unreachable.
* `offsetCall`: the last addOffsetToLeastSignificant call, if the last call
  was one: its indices and offsets (handle numbers) and its
  `computedIndices` out-parameter. Every other call resets it.

**Actions**

* `Arg` enumerates caller-supplied values of every type and every bit
  pattern.
* Then come `Constant`, `ConstantIndex`, `Inf` (negativeInf/positiveInf),
  `Add`, `Sub`, `Mul`, `Div`, `Rem`, `Neg`, `Abs`, `Bitwise`
  (andi/ori/xori), `MathUnary` (exp, exp2, log, log2, sqrt, ceil, floor),
  `CopySign`, `Pow`, `MinMax` (min/max), `CeilDiv`, `FloorDiv`, `Fma`,
  `Select`, `Compare` (gt/ge/lt/le), `Equal` (eq/neq), `Cast`
  (cast/castToIndex) and `AddOffset` (addOffsetToLeastSignificant).
* `CeilDiv` and `FloorDiv` take integer operands only. On anything else the
  code ends in llvm_unreachable("expected int"), and no caller passes floats.
  `Inf` takes a scalar integer of a width the switch names (the spec says
  other widths fail fatally) or a float.
  `Select` takes an i1 condition, and a vector of i1 only for vector
  operands. `Fma` takes three handles of one type.
  `Bitwise` takes integers and `MathUnary`, `CopySign` and `Pow` take
  floats, the other kinds ending in llvm_unreachable.
  `Abs` takes values whose element kind is in the constant `AbsKinds`.
  The arith_signless_ops run includes unsigned values. The other runs do
  not, because math.absi on an unsigned value does not verify (finding 2)
  and would read the bit pattern as two's complement.
  `AddOffset` takes one or two indices and at most as many offsets (the
  assert), each offset of its index's type. Its results go to `offsetCall`,
  not to new handles.
* Each action applies the builder operator with the same name to any
  existing handles of equal type (the code asserts equal types), and
  appends the result.

**What the builder operators compute.** The operators (`add`, `cmp`,
`cast`, ...) are translations of the C++ functions, branch for branch. They
return the operations emitted and the value those operations compute under
the arith dialect's semantics. Those semantics are defined at the top of
the module:

* `extsi`, `trunci` and `fptosi`/`fptoui`, which give poison when the value
  does not fit;
* `divsi`/`remsi` and `ceildivsi`/`floordivsi`, which are undefined on 0
  and on INT_MIN / -1;
* `minsi`/`minui` and the max ones, which read the bit patterns signed or
  unsigned.

`Undef` stands for poison and for float results the model does not track.

**The reference.** `Reference` is the spec's semantics of each call: §4.2
and §8, on the *meaning* of the operands. Signless and index values are
read in two's complement, unsigned values as naturals. A boolean source of
a conversion is 0/1. It gives the bit pattern the call must produce, or
`Any` where the spec leaves the result open (undefined behaviour, or float
values).

### MultiReduction.tla and MultiReductionSpec.tla

`MultiReduction` has one step per iteration of the three nested loops of
`multiReduction` (1473-1515):

* `ReducePair`: `tmpArray[r+p] = add(mergeHigh, mergeLow)`;
* `NextLevel`: `numPairs /= 2`, `step *= 2`;
* `EmitGroup`: `outputVecArray.emplace_back(tmpArray[r])`, `r += VL`.

The masks of `mergeHigh`/`mergeLow` are computed by `MergeMask` exactly as
the mask loops compute them, including entries the loops leave at 0.
`shuffle` applies a mask the way `vector.shuffle` does.

A lane value is abstracted as a *bag of input cells* `<<vector, lane>>`.
`add` is bag union. So a lane holds exactly the input cells summed into it,
in any association order. This is the abstraction the spec's §8 statement
needs, without committing to float rounding.

`MultiReductionSpec` is the abstract specification. It emits, one output
at a time, the group sums: lane j of output k is the sum of every lane of
input k·VL+j. `MultiReduction` is shown to implement it.
`Abstract == INSTANCE MultiReductionSpec` uses the identity mapping on
`N`, `VL` and `out`, and `AbstractSpec` is checked as a PROPERTY, liveness
included.

### MemRefAlloc.tla + MCMemRefAlloc.tla

One step is one MemRefBuilder call:

* `Alloc`, `AlignedAlloc`, `Alloca`, `AlignedAlloca` and `Dealloc`;
* `AllocWithSimdPadding`, which covers all four overloads of each.

**State**

* `call`: the last call and its arguments;
* `emitted`: the operations it created. The last of them is the returned
  value, and a view records which op it views.
* `aborted`: the call failed an assert.

**Types and dynamic values.** A memref type is `[bw, shape]`, where an
extent is a static size or `Dyn` (ShapedType::kDynamic). A dynamic value,
whether an SSA index value or an IndexExpr, is modelled by what it
evaluates to at run time. It is a function from the run-time extents `rho`
of the caller's dimensions to a number. So the symbolic size
`totPaddedByteSize` is checked against *every* run-time size of the
dynamic dimensions at once.

**Symbol lists.** Callers pass symbols in one of two ways:

* from `computeDynSymbols`, of the dims or of a same-shaped operand. A null
  operand gives none.
* as an explicit list, which may stop short or, with `SurplusSyms > 0`,
  carry extra symbols.

**Machine vector length.** `getMachineVectorLength` keeps the code's floor
of one lane. It reads the external `VectorMachineSupport` as a constant
table.

### OnnxShapeInference.tla, OnnxShapeContract.tla + MCOnnxShapeInference.tla

**OnnxShapeInference** models the inferShapes methods of onnx_ops.cpp, run
by the shape inference pass over a function body in program order. Each
`Infer` step is one inferShapes call on the op at `pc`.

**State**

* `prog`: the ops, each a kind and the earlier values it uses. Value i is
  argument i; op i defines value NumArgs + i.
* `types`: the type of every value. Arguments are drawn from `ArgTypes`.
  Results start as the unranked tensor the frontend creates.
* `diags`: the ops that called `emitError`.
* `crashed`: an inferShapes call aborted.

**Methods.** Each method is an operator that returns the set of outcomes
of one call. An outcome is abort or not, diagnostic or not, and the
result type.

* The eleven unary ops and the ten variadic ops copy operand 0's type.
* MatMul, Gemm and FullGemm have identical code. They return early when an
  operand is unranked, and otherwise give (lhs[0], rhs[1]).
* Reshape has three `emitError` calls, and the code goes on after each.

Two reads are undefined behaviour:

* `cast<RankedTensorType>` of an unranked type;
* `getShape()[k]` past the rank.

Each offers both outcomes a build can produce. An assert build aborts; a
release build reads garbage, which the model takes as any shape or extent.

**OnnxShapeContract** is the promise of spec sections 6 and 7, over shapes
only:

* element-wise results copy operand 0;
* matrix ops give (rows, cols), or leave the result unresolved;
* a Reshape shape error is a diagnostic that stops only that op;
* a Reshape result has as many dynamic extents as the shape tensor has
  elements.

`RefShape` is a RECURSIVE reference of the shape the contract gives every
value of a program. `WellFormed` uses it to say which programs the contract
covers.

**Refinement.** The detailed module instantiates the contract with a
non-identity mapping:

* `shape` maps to the shape of ranked types and to "unresolved" for
  unranked ones;
* `step` maps to `pc`;
* `diagnosed` maps to `diags`.

An abort maps to a stuttering step. The contract's weak fairness then turns
an abort into a liveness violation, because the pass never visits the
remaining ops.

### MemRefReshape.tla + MCMemRefReshape.tla

One step is one MemRefBuilder call on any value built so far:

* `ReshapeToFlat` (with its call of `reshape`);
* `ReshapeFromFlat`;
* `ReinterpretCast`;
* `CollapseShape`;
* `Cast`: memref.cast to the value's fully dynamic or fully static type
  (a cast to its own type creates nothing and is left out);
* `SubView`.

The dims passed to these calls come from `DimsOf`, which models `dim`:
a static extent folds to a literal, a dynamic one gives the run-time size.

`vals[1]` is the buffer: an allocation of any shape of rank at most 3,
with run-time sizes for its dynamic extents.

**Values.** A value is its type, plus the run-time layout the op gives it:
sizes, strides and an offset into the buffer.

* The type is the extents, with `Dyn` for a dynamic extent. Every type
  these functions build has the identity layout.
* `Elements(v)` is the list of buffer positions that v's elements occupy
  in row-major order.

**IndexExprs.** The dims callers pass are IndexExprs, modelled as
`[lit, val]`: a literal, or a run-time value. `getShape()` gives the
literal, or Dyn for a run-time value.

**The loops.** Two loops are RECURSIVE operators that follow the code:

* `StrideLoop` is reinterpretCast's right-to-left stride loop;
* `GroupShape` is collapseShape's group product, including its `break` on
  a dynamic extent.

**Caller inputs.**

* reshapeToFlat gets a dimsToFlatten in {-1, 1, ..., MaxRank}. Values out
  of range hit the assert.
* reshapeFromFlat and reinterpretCast get the dims and the type of a value
  with the same element count.
* collapseShape gets every grouping into consecutive dims.
* subView gets the subviews `SubViewAllowed` admits.

## 3. Runs

| Run | Module / cfg | Expect | What it shows |
|---|---|---|---|
| arith_scalar | MCArithBuilder / MCArithBuilder.cfg | pass | See below. |
| arith_cast_to_index | MCArithCastIndex.cfg | violation | `cast(index, ui)` returns i64 (finding 1) |
| arith_signless_ops | MCArithSignless.cfg | violation | arith and math ops (math.absi included) are created on unsigned types (finding 2) |
| arith_vector_abort | MCArithVectorAbort.cfg | violation | vector int-to-int casts hit llvm_unreachable (finding 3) |
| arith_vector_value | MCArithVectorValue.cfg | violation | vector float-to-unsigned casts use fptosi (finding 4) |
| multireduction | MultiReduction / MultiReduction.cfg | pass | `GroupConserved` and `AbstractSpec` for VL ∈ {1,2,4,8}, N ≤ 16 |
| memref_alloc | MCMemRefAlloc / MCMemRefAlloc.cfg | pass | `SimdSafe`, `StaticPaddingExact`, `AlignmentHonoured` |
| memref_surplus_symbols | MCMemRefSurplus.cfg | violation | surplus dynamic symbols pass the asserts at 953-954 and reach memref.alloc as operands of a static type (finding 5) |
| onnx_shape_inference | MCOnnxShapeInference / MCOnnxShapeInference.cfg | pass | `ContractSpec` on every program of 3 ops the contract covers |
| onnx_matmul_vector | MCOnnxMatMulVector.cfg | violation | MatMul of a vector reads getShape()[1] out of bounds (finding 7) |
| onnx_reshape | MCOnnxReshape.cfg | violation | Reshape of ranked operands goes on after emitError at 276/282 and types its result (finding 6) |
| memref_reshape | MCMemRefReshape / MCMemRefReshape.cfg | pass | `TypeMatchesRuntime` and `SameElements` over chains of three reshape/view/cast calls |

The arith_scalar run checks every chain of up to two scalar calls after one
argument. Every value is the spec's value (`ValueMatchesReference`),
addOffsetToLeastSignificant lines its offsets up with the least
significant indices (`OffsetsToLeastSignificant`). It also checks
`NoAbort`: no call between scalar int/float/index types aborts.

The properties that carry weight:

* **ValueMatchesReference** (ArithBuilder) compares the bit pattern each
  emitted program computes with the spec's meaning of the call. It relates
  every handle to the handles it was built from. It covers:
  * unsigned add/mul through the extended ops and the casts back;
  * signed versus unsigned div/rem/compare/min/max;
  * floorDiv rounding toward minus infinity (floordivsi, and divui for
    unsigned, as the code's comment argues) and ceilDiv toward plus
    infinity;
  * fma as add(mul) with the unsigned emulation of both;
  * abs in two's complement, and andi/ori/xori against a bit-by-bit
    reference on the two's complement meanings;
  * copySign's operand roles, and ceil/floor on integral floats. exp, log,
    sqrt and pow results are not tracked, so only their dispatch and types
    are checked;
  * the extrema of negativeInf/positiveInf: the least and greatest meaning
    a type has, so signless integers take the signed limits, and the uint64
    maximum survives its int64 detour;
  * every branch of the cast matrix in the code's order.
* **OffsetsToLeastSignificant** (ArithBuilder): addOffsetToLeastSignificant
  returns one index per input index. The leading R-K are unchanged, and
  offset k is added to index R-K+k with the index's type kept. An
  off-by-one in firstOffset, or offsets aligned with the leading indices,
  breaks it whenever the ranks differ.
* **GroupConserved** (MultiReduction) is the conservation law of the
  butterfly. Inside a group, the live partial sums contain each input lane
  of the group exactly once. The live partial sums are the pair heads
  written at this level and the vectors not yet read. The law fails as soon
  as an in-place write clobbers an unread vector, or a mask drops or
  duplicates a lane.
* **AbstractSpec** (MultiReduction) is refinement of the group-sum
  specification, liveness included: every group is eventually emitted.
* **SimdSafe** (MemRefAlloc): the buffer under the value returned by
  `alignedAllocWithSimdPadding` holds the elements rounded up to whole
  VL-vectors, for every run-time size of the dynamic dimensions. This
  covers the no-padding shortcut, the whole-VL padding of dynamic shapes
  and the ceilDiv of sub-byte types.
* **StaticPaddingExact** is the spec's §8 statement for static shapes: no
  over-allocation.
* **ContractSpec** (OnnxShapeInference) checks that the pass refines the
  shape contract, over programs of three ops. Types flow from op to op, so
  an early return or a wrong index in one method changes the shapes of
  every op downstream. The contract also demands that the pass visits
  every op; a crash (an undefined read) is a departure from it too.
* **SameElements** (MemRefReshape) is the spec's "no data movement" law.
  Read in row-major order, the result of a reshape, reinterpretCast or
  collapseShape has the elements of its source, in their order. Along a
  chain reshapeToFlat -> reshapeFromFlat it gives the spec's shape round
  trip. It fails when a count or a stride is off: in the flattened
  product, in a group product or in the stride loop.
* **TypeMatchesRuntime** (MemRefReshape): every static extent in a type
  these calls build equals the run-time size of that dim. Among other
  things, a group containing a dynamic extent must be dynamic.
* **AlignmentHonoured**: the alignment actually attached to the buffer,
  the padded byte buffer included, is at least the requested alignment and
  gDefaultAllocAlign.

Every property of a passing run has a mutant in PROJECT.json: a plausible
bug in the mapped code that TLC catches with the run's own cfg. Examples:

* the pair sum stored over the pair head;
* the exact padding used for dynamic shapes;
* the gt/ge/lt/le dispatch without the unsigned branch.

## 4. Bounds and why they are enough

**ArithBuilder.**

* Integer widths are {1, 2, 3} (i1, a narrow width, the index width) and
  unsigned widths are {2, 3}. These cover widening, narrowing, same width,
  bool, and both index directions.
* Float widths 2 and 3 stand for f32 and f64.
* Float arguments are {-2, 0, 3}: negative, zero, and values that fit u2
  but not s2. Constants are {-1, 0, 2}.
* The run takes one argument and two calls, so a call can act on the
  result of another.
* About 367k states in about 1 min; most of the 9M generated states are
  AddOffset's choices of index and offset lists. Before min/max, inf,
  fma, select and the rest were added, three calls gave 12.4M states in
  2 min and found nothing more.
* AddOffset's ranks 1..2 with offsets 0..R include the cases where the
  ranks differ (R=2, K=1), the only ones where alignment shows.

**MultiReduction.** Machine VL is in {1, 2, 4, 8} and N ≤ 16. This covers:

* the degenerate VL = 1;
* three butterfly levels;
* two groups for VL = 8, where a write into the wrong group would show.

**MemRefAlloc.**

* Element widths are 4, 8 and 16. The machine has 0 lanes for i4 (floored
  to 1), 4 for i8 and 2 for i16. simdUnroll ∈ {1, 3} makes VL a
  non-power-of-two.
* Shapes have rank ≤ 2 over static extents {1, 2, 3} and Dyn. Run-time
  extents are {0, 1, 2, 3}.
* Alignments are {-1 (defaultAlign), 8, 64} against gDefaultAllocAlign = 16.

These make every branch of the padding code reachable, as well as
`staticSize % VL` equal to 0 and non-zero with the same shape.

**OnnxShapeInference.**

* The pass run takes two arguments and three ops of every kind, with every
  choice of operands.
* The arguments are drawn from five types:
  * an unranked f32 tensor;
  * 2x?, a mixed static and dynamic matrix;
  * 1x2, a static matrix whose two extents differ, so swapping rows and
    cols shows;
  * the rank-one shape tensors 2xi64 and 1xi64.
* Every chain matrix -> matrix op -> reshape -> element-wise op, and its
  permutations, is reached, as are unresolved types flowing through
  several ops. The run explores 2.37M states in about 80 s; two ops give
  30k states.
* `Admissible` selects the programs the contract covers: no matrix op on a
  vector, no shape error, and no Reshape of unranked data. What it leaves
  out is checked by the two violation runs:
  * onnx_matmul_vector runs the matrix ops on a vector;
  * onnx_reshape runs Reshape on ranked shape tensors of dynamic extent
    or of rank two. Its arguments are all ranked, so that its
    counterexamples pass both casts at 271-272 and rest on no undefined
    behaviour; Reshape of data of unknown rank, an assert or undefined
    behaviour at 271, is listed as a hazard only.

**MemRefReshape.**

* The buffer has rank at most 3, static extents {2, 3} and run-time
  extents {0, 2}. Rank 3 allows partial flattening and groupings of every
  form. The extents 2 and 3 make a swapped stride show. The run-time
  value 0 gives empty buffers.
* Three calls follow the buffer, so chains such as flatten -> unflatten ->
  collapse, or subview -> reshape, are reached.
* The run explores about 755k states in about 2.5 min.
* `SubViewAllowed` admits the subviews that keep the identity layout: zero
  offsets, with only the outermost extent shrunk. See section 6 for the
  others.

## 5. Fairness and deadlock

**MultiReduction** assumes weak fairness of its next-state relation.
`multiReduction` is straight-line sequential code, so an enabled loop step
is always taken.

**ArithBuilder and MemRefAlloc** check safety only. Their runs set
`CHECK_DEADLOCK FALSE` for the following reasons:

* An ArithBuilder run stops at its call bound, or when a call aborts the
  compiler.
* A MemRefAlloc or MemRefReshape run stops when a call aborts the
  compiler, or at its bound on the number of values.
* MultiReduction terminates once every group is emitted.
* The shape inference pass ends after the last op, or when an inferShapes
  call aborts.

**OnnxShapeInference** assumes weak fairness of `Infer`. The pass is a
loop over all ops of the body with nothing to wait for.

## 6. Not modelled, and why

* **The rest of MathBuilder.**
  * The values of exp, exp2, log, log2, sqrt and pow are not tracked:
    floats are small integers, and these results are `Undef`. Their
    dispatch and result types are modelled.
  * negativeInf/positiveInf on f16 and bf16 reach llvm_unreachable; the
    model's two float widths stand for f32 and f64. This is listed as a
    hazard.
* **Subviews that do not keep the identity layout.** subView builds every
  result type with the identity layout (1255-1257). A subview at an offset,
  or with a shrunk inner extent, therefore gets a type that misdescribes
  it. MLIR's memref.subview verifier rejects such an op. The case is listed
  as a hazard; the reshape run admits only layout-preserving subviews.
* **The shape buffers** that reshapeToFlat and reshapeFromFlat allocate
  and never free. The model tracks values, not these buffers. This is
  listed as a hazard.
* **Broadcasting of the ONNX element-wise ops.** The code takes operand 0's
  type, which is also what the spec's contract says. There is no
  broadcasting rule to check it against, so this is listed only as a
  hazard.
* **The shape inference pass driver and the ShapeInference interface.**
  They are not under src/. They are modelled from the spec (program order)
  and marked spec_modelled.
* **ShapeBuilder, SCFBuilder and most of LLVMBuilder**: one operation per
  call, with no decision to check.
* **LLVMBuilder::ifThenElse** (1697-1737) does decide something. It splits
  blocks, lets callbacks fill them, and adds a branch to END where a block
  was left open. Two hazards are listed for it:
  * the branch test reads the block captured before the callback ran, so a
    nested ifThenElse leaves its END block without a terminator;
  * operations after the insertion point move into the THEN block.
  No module models it.
* **Float values.** Only integer-valued floats are tracked, which is enough
  for float-to-int conversion. Float arithmetic results are left open
  (`Any`).
* **Non-identity layouts and vector element types of memrefs.** The code
  asserts against them, and the model never constructs them.
* **int64 overflow of the padded size.** It needs sizes near 2^63, out of
  reach of an enumerated model. It is listed as a hazard.
