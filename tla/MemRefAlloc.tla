---------------------------- MODULE MemRefAlloc ----------------------------
(***************************************************************************)
(* MemRefBuilder's allocation functions (src/src/Dialect/Mlir/             *)
(* DialectBuilder.cpp 833-1082): alignment, dynamic symbols, the static /  *)
(* dynamic size of a memref and alignedAllocWithSimdPadding.  One step is  *)
(* one builder call; `emitted` holds the operations it created, the last   *)
(* of which is the value it returns.                                       *)
(*                                                                         *)
(* A memref type is [bw |-> element bit width, shape |-> extents], an      *)
(* extent being a static size or Dyn (ShapedType::kDynamic).  A dynamic    *)
(* operand (an SSA index value, an IndexExpr) is abstracted as what it     *)
(* evaluates to at run time: a function from the run-time extents of the   *)
(* caller's dimensions (rho[i] is the size of dimension i) to a number.    *)
(***************************************************************************)
EXTENDS Integers, Sequences, SequencesExt

CONSTANTS
  BitWidths,          \* element bit widths of the memrefs allocated
  StaticExtents,      \* static extents a shape may have
  MaxRank,            \* largest rank of an allocated memref
  DynVals,            \* run-time values of a dynamic extent
  VectorLength,       \* VectorMachineSupport::getVectorLength, per bit width
  SimdUnrolls,        \* simdUnroll factors callers pass
  Alignments,         \* alignments callers request (-1 is defaultAlign)
  DefaultAllocAlign,  \* gDefaultAllocAlign
  SurplusSyms         \* how many more symbols than dimensions a caller may pass

ASSUME /\ SimdUnrolls \subseteq Nat \ {0}
       /\ VectorLength \in [BitWidths -> Nat]
       /\ MaxRank \in Nat /\ SurplusSyms \in Nat

VARIABLES
  call,     \* the last builder call and its arguments
  emitted,  \* the operations it created, in order
  aborted   \* it failed an assert

vars == <<call, emitted, aborted>>

Dyn == -1
NoAlign == 0

Shapes == BoundedSeq(StaticExtents \cup {Dyn}, MaxRank)
MemRefTypes == [bw : BitWidths, shape : Shapes]

\* Run-time values of the caller's dimensions, and an operand as its value.
Rho == [1 .. MaxRank -> DynVals]
Sym(i) == [rho \in Rho |-> rho[i]]

IsDyn(e) == e = Dyn
NumDyn(type) == Len(SelectSeq(type.shape, IsDyn))
CeilDiv(a, b) == (a + b - 1) \div b
RoundUp(a, b) == CeilDiv(a, b) * b
Prod(s) == FoldSeq(LAMBDA x, acc : x * acc, 1, s)

I8(shape) == [bw |-> 8, shape |-> shape]

\* An emitted memref.alloc / memref.alloca / memref.view / memref.dealloc.
MemOp(name, type, dyn, align, src) ==
  [name |-> name, type |-> type, dyn |-> dyn, align |-> align, src |-> src]

-----------------------------------------------------------------------------
(* Helpers.                                                                *)

\* Mutation: the requested alignment taken as is.
computeAlignmentAsRequested(alignment) == alignment

\* computeAlignment: at least gDefaultAllocAlign.
computeAlignment(alignment) ==
  IF alignment > DefaultAllocAlign THEN alignment ELSE DefaultAllocAlign

\* computeDynSymbols from the index expressions of the dimensions, or from
\* dim ops on an operand of the same shape (none when it is null).
computeDynSymbols(type) ==
  LET dims == SelectSeq([i \in DOMAIN type.shape |-> i], LAMBDA i : type.shape[i] = Dyn)
  IN [k \in DOMAIN dims |-> Sym(dims[k])]

computeDynSymbolsOfOperand(hasOperand, type) ==
  IF hasOperand THEN computeDynSymbols(type) ELSE << >>

\* getMachineVectorLength: at least one element per vector.
getMachineVectorLength(bw) ==
  IF VectorLength[bw] > 1 THEN VectorLength[bw] ELSE 1

\* getStaticAndDynamicMemSize: staticSize is the product of the static
\* extents, dynSize that of the first NumDyn symbols; the asserts fail when
\* a dynamic extent meets no symbol (surplus symbols are not checked).
getStaticAndDynamicMemSize(type, dynSymbols) ==
  LET staticShape == Len(dynSymbols) = 0
      nd == NumDyn(type)
      used == SubSeq(dynSymbols, 1, IF nd =< Len(dynSymbols) THEN nd ELSE 0)
  IN [ok |-> nd = 0 \/ (~staticShape /\ nd =< Len(dynSymbols)),
      staticShape |-> staticShape,
      staticSize |-> Prod(SelectSeq(type.shape, LAMBDA e : e # Dyn)),
      dynSize |-> [rho \in Rho |-> Prod([k \in DOMAIN used |-> used[k][rho]])],
      isLiteral |-> nd = 0]

-----------------------------------------------------------------------------
(* The builder functions, as the operations they emit.                     *)

\* alloc(type, dynSymbols): no alignment attribute.
alloc(type, dynSymbols) == <<MemOp("memref.alloc", type, dynSymbols, NoAlign, 0)>>

\* alignedAlloc: alignment dropped for scalars, else computeAlignment.
alignedAlloc(type, dynSymbols, alignment) ==
  IF Len(type.shape) = 0 THEN alloc(type, dynSymbols)
  ELSE <<MemOp("memref.alloc", type, dynSymbols, computeAlignment(alignment), 0)>>

alloca(type) == <<MemOp("memref.alloca", type, << >>, NoAlign, 0)>>

alignedAlloca(type, alignment) ==
  IF Len(type.shape) = 0 THEN alloca(type)
  ELSE <<MemOp("memref.alloca", type, << >>, computeAlignment(alignment), 0)>>

\* Mutation: the view built on the offset constant instead of the input.
viewOfOffset(src, type, dynSymbols) ==
  <<MemOp("arith.constant", I8(<< >>), << >>, NoAlign, 0),
    MemOp("memref.view", type, dynSymbols, NoAlign, src + 1)>>

\* view(input, 0, type, dynSymbols): a constant index 0 and the view of the
\* operation at position src of the same call.
view(src, type, dynSymbols) ==
  <<MemOp("arith.constant", I8(<< >>), << >>, NoAlign, 0),
    MemOp("memref.view", type, dynSymbols, NoAlign, src)>>

\* Mutation: the exact padding used for dynamic shapes too.
paddingSizeExact(staticShape, staticSize, VL) == VL - (staticSize % VL)

\* Mutation: the full-VL padding used for static shapes too.
paddingSizeFullVL(staticShape, staticSize, VL) == VL

\* The padding, in elements, when staticSize % VL # 0: exact for a static
\* shape, a whole vector (an upper bound) for a dynamic one.
paddingSize(staticShape, staticSize, VL) ==
  IF staticShape THEN VL - (staticSize % VL) ELSE VL

\* alignedAllocWithSimdPadding(type, dynSymbols, simdUnroll, alignment).
alignedAllocWithSimdPadding(type, dynSymbols, simdUnroll, alignment) ==
  LET sz == getStaticAndDynamicMemSize(type, dynSymbols)
      VL == getMachineVectorLength(type.bw) * simdUnroll
      pad == paddingSize(sz.staticShape, sz.staticSize, VL)
      bitWidth == type.bw
      totPaddedByteSize ==
        IF bitWidth % 8 = 0
        THEN [rho \in Rho |-> sz.staticSize * (bitWidth \div 8) * sz.dynSize[rho]
                                + pad * (bitWidth \div 8)]
        ELSE [rho \in Rho |-> CeilDiv(sz.staticSize * bitWidth * sz.dynSize[rho]
                                        + pad * bitWidth, 8)]
      paddedAlloc ==
        IF sz.isLiteral
        THEN alignedAlloc(I8(<<totPaddedByteSize[CHOOSE rho \in Rho : TRUE]>>), << >>, alignment)
        ELSE alignedAlloc(I8(<<Dyn>>), <<totPaddedByteSize>>, alignment)
  IN CASE ~sz.ok -> [ok |-> FALSE, ops |-> << >>, VL |-> VL]
       [] sz.staticSize % VL = 0 ->
            [ok |-> TRUE, ops |-> alignedAlloc(type, dynSymbols, alignment), VL |-> VL]
       [] OTHER ->
            [ok |-> TRUE, ops |-> paddedAlloc \o view(1, type, dynSymbols), VL |-> VL]

-----------------------------------------------------------------------------
(* Builder calls.                                                          *)

\* The symbol lists callers pass: computeDynSymbols of the dimensions or of
\* a same-shaped operand (none for a null operand), or an explicit list
\* that may stop short or carry SurplusSyms symbols too many.
SymbolLists(type) ==
  LET full == computeDynSymbols(type) \o [k \in 1 .. SurplusSyms |-> Sym(1)]
  IN {computeDynSymbolsOfOperand(h, type) : h \in BOOLEAN}
       \cup {SubSeq(full, 1, n) : n \in 0 .. Len(full)}

StaticTypes == {t \in MemRefTypes : NumDyn(t) = 0}

Call(fn, type, syms, VL, align) ==
  [fn |-> fn, type |-> type, syms |-> syms, VL |-> VL, align |-> align]

\* alloc(type), alloc(type, dynSymbols), alloc(operand, type), alloc(type, dims).
Alloc ==
  /\ ~aborted
  /\ \E type \in MemRefTypes : \E syms \in SymbolLists(type) :
       /\ emitted' = alloc(type, syms)
       /\ call' = Call("alloc", type, syms, 1, NoAlign)
  /\ UNCHANGED aborted

\* The four alignedAlloc overloads.
AlignedAlloc ==
  /\ ~aborted
  /\ \E type \in MemRefTypes, a \in Alignments : \E syms \in SymbolLists(type) :
       /\ emitted' = alignedAlloc(type, syms, a)
       /\ call' = Call("alignedAlloc", type, syms, 1, a)
  /\ UNCHANGED aborted

\* alloca / alignedAlloca take no dynamic symbols: static shapes only.
Alloca ==
  /\ ~aborted
  /\ \E type \in StaticTypes :
       /\ emitted' = alloca(type)
       /\ call' = Call("alloca", type, << >>, 1, NoAlign)
  /\ UNCHANGED aborted

AlignedAlloca ==
  /\ ~aborted
  /\ \E type \in StaticTypes, a \in Alignments :
       /\ emitted' = alignedAlloca(type, a)
       /\ call' = Call("alignedAlloca", type, << >>, 1, a)
  /\ UNCHANGED aborted

\* dealloc of the value the previous call returned.
Dealloc ==
  /\ ~aborted /\ emitted # << >>
  /\ emitted' = <<MemOp("memref.dealloc", Last(emitted).type, << >>, NoAlign, 0)>>
  /\ call' = Call("dealloc", Last(emitted).type, << >>, 1, NoAlign)
  /\ UNCHANGED aborted

\* The four alignedAllocWithSimdPadding overloads.
AllocWithSimdPadding ==
  /\ ~aborted
  /\ \E type \in MemRefTypes, u \in SimdUnrolls, a \in Alignments :
     \E syms \in SymbolLists(type) :
       LET res == alignedAllocWithSimdPadding(type, syms, u, a)
       IN /\ emitted' = res.ops
          /\ aborted' = ~res.ok
          /\ call' = Call("simd", type, syms, res.VL, a)

Init ==
  /\ call = Call("none", I8(<< >>), << >>, 1, NoAlign)
  /\ emitted = << >>
  /\ aborted = FALSE

Next == Alloc \/ AlignedAlloc \/ Alloca \/ AlignedAlloca \/ Dealloc \/ AllocWithSimdPadding

Spec == Init /\ [][Next]_vars

-----------------------------------------------------------------------------
(* Properties.                                                             *)

\* Elements a memref value spans at run time, and the bytes they occupy
\* (sub-byte elements packed).
Elems(op, rho) ==
  Prod(SelectSeq(op.type.shape, LAMBDA e : e # Dyn))
    * Prod([k \in 1 .. NumDyn(op.type) |-> op.dyn[k][rho]])
Bytes(op, rho) == CeilDiv(Elems(op, rho) * op.type.bw, 8)

\* The memref alignedAllocWithSimdPadding returns and the buffer under it.
Result == Last(emitted)
Buffer == IF Result.name = "memref.view" THEN emitted[Result.src] ELSE Result
SimdCall == call.fn = "simd" /\ ~aborted

TypeOK ==
  /\ call.type \in MemRefTypes \cup {I8(<< >>)}
  /\ call.fn \in {"none", "alloc", "alignedAlloc", "alloca", "alignedAlloca", "dealloc", "simd"}
  /\ \A k \in DOMAIN emitted :
       /\ emitted[k].src \in 0 .. k - 1
       /\ emitted[k].name = "memref.view" => emitted[emitted[k].src].name = "memref.alloc"
  /\ aborted \in BOOLEAN

\* SIMD safety of alignedAllocWithSimdPadding: whatever the run-time sizes
\* of the dynamic dimensions, the buffer under the returned memref holds
\* its elements rounded up to a whole number of VL-element vectors, so the
\* last (partial) SIMD load or store stays inside the allocation; this
\* covers the no-padding shortcut when staticSize % VL = 0, the full-VL
\* padding of dynamic shapes and the bit-precise ceilDiv of sub-byte types.
SimdSafe ==
  SimdCall =>
    \A rho \in Rho :
      8 * Bytes(Buffer, rho) >= RoundUp(Elems(Result, rho), call.VL) * call.type.bw

\* For a fully static memref the padded allocation is exactly the elements
\* rounded up to whole vectors (spec section 8): no padding when S % VL = 0,
\* VL - S % VL elements otherwise.
StaticPaddingExact ==
  (SimdCall /\ NumDyn(call.type) = 0 /\ call.syms = << >>) =>
    \A rho \in Rho :
      Bytes(Buffer, rho)
        = CeilDiv(RoundUp(Elems(Result, rho), call.VL) * call.type.bw, 8)

\* Memory obtained from an aligned allocation with at least one dimension,
\* the byte buffer under a padded view included, carries an alignment of
\* at least the requested one and gDefaultAllocAlign.
AlignmentHonoured ==
  (call.fn \in {"alignedAlloc", "alignedAlloca", "simd"} /\ ~aborted
     /\ Len(Buffer.type.shape) > 0) =>
    /\ Buffer.align >= call.align
    /\ Buffer.align >= DefaultAllocAlign

\* getStaticAndDynamicMemSize fails when the number of dynamic symbols does
\* not match the number of dynamic extents (spec section 4.3).
SymbolMismatchAborts ==
  (call.fn = "simd" /\ Len(call.syms) # NumDyn(call.type)) => aborted
=============================================================================
