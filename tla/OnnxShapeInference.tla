------------------------- MODULE OnnxShapeInference -------------------------
(***************************************************************************)
(* The inferShapes methods of the ONNX ops (src/src/compiler/dialect/onnx/ *)
(* onnx_ops.cpp 45-290), run by the shape inference pass over the ops of a *)
(* function body in program order.  `types` holds the type of every value: *)
(* the arguments' are given, each op's result starts as the unranked       *)
(* tensor the frontend created and is set by that op's inferShapes.        *)
(*                                                                         *)
(* A tensor type is [ranked, shape, elem]; an unranked one has no shape.   *)
(* Two reads in these methods are undefined behaviour on some inputs:      *)
(* cast<RankedTensorType> of an unranked type, and getShape()[k] past the  *)
(* rank.  An assert-enabled build aborts there; a release build reads      *)
(* whatever memory is there.  Both outcomes are taken.                     *)
(***************************************************************************)
EXTENDS Integers, Sequences, SequencesExt

CONSTANTS
  NumArgs,      \* function arguments, values 1 .. NumArgs
  NumOps,       \* ops, op i defining value NumArgs + i
  OpKinds,      \* kinds of op that occur
  StaticDims,   \* static extents
  MaxRank,      \* largest rank of a ranked tensor
  Elems,        \* element types
  ResultElem,   \* element type of the frontend's unranked results
  ArgTypes,     \* types the arguments may have
  Admissible(_, _)  \* which programs and argument types are analysed

ASSUME /\ StaticDims \subseteq 0 .. MaxRank
       /\ ResultElem \in Elems

VARIABLES
  prog,     \* the ops: [kind, opnd] records, opnd a list of earlier values
  types,    \* per value, its type
  pc,       \* the next op the pass calls inferShapes on
  diags,    \* ops that emitted an error diagnostic
  crashed   \* inferShapes hit an assert

vars == <<prog, types, pc, diags, crashed>>

Dyn == -1
DimVals == StaticDims \cup {Dyn}
Shapes == BoundedSeq(DimVals, MaxRank)
TensorTypes == [ranked : {TRUE}, shape : Shapes, elem : Elems]
               \cup [ranked : {FALSE}, shape : {<< >>}, elem : Elems]
Values == 1 .. (NumArgs + NumOps)
Res(i) == NumArgs + i

Ranked(shape, elem) == [ranked |-> TRUE, shape |-> shape, elem |-> elem]
Unranked(elem) == [ranked |-> FALSE, shape |-> << >>, elem |-> elem]

Arity == [k \in OpKinds |-> IF k = "Unary" THEN 1 ELSE 2]
\* The ops that can stand at position i: operands are values defined before.
OpsAt(i) == UNION {[kind : {k}, opnd : [1 .. Arity[k] -> 1 .. (Res(i) - 1)]] :
                     k \in OpKinds}
Programs == {p \in [1 .. NumOps -> OpsAt(NumOps)] :
               \A i \in 1 .. NumOps : p[i] \in OpsAt(i)}

\* getShape()[k]: the extent, or any value when k is past the rank.
At(s, k) == IF k <= Len(s) THEN {s[k]} ELSE DimVals
\* cast<RankedTensorType>(t).getShape(): any shape when t is unranked.
ShapeOf(t) == IF t.ranked THEN {t.shape} ELSE Shapes

\* What one inferShapes call can do: abort, emit a diagnostic, set a type.
Outcome(crash, diag, type) == [crash |-> crash, diag |-> diag, type |-> type]
Abort(diag) == Outcome(TRUE, diag, Unranked(ResultElem))
AbortIf(ub, diag) == IF ub THEN {Abort(diag)} ELSE {}

-----------------------------------------------------------------------------
(* The inferShapes methods; opnd0, opnd1 the operand types, old the result *)
(* type.                                                                   *)

\* Exp, Tanh, Sinh, Cosh, HardSigmoid, Sigmoid, Elu, Relu, LeakyRelu, Selu,
\* Reciprocal: the result takes the operand's type.
unaryInferShapes(opnd0) == {Outcome(FALSE, FALSE, opnd0)}

\* Add, Mul, Div, Sub, And, Or, Xor, Sum, Max, Min: the first operand's type.
variadicInferShapes(opnd0, opnd1) == {Outcome(FALSE, FALSE, opnd0)}

\* Mutation: the second extent taken from rhs.getShape()[0].
matMulRhsRows(opnd0, opnd1, old) ==
  IF ~opnd0.ranked \/ ~opnd1.ranked
  THEN {Outcome(FALSE, FALSE, old)}
  ELSE {Outcome(FALSE, FALSE, Ranked(<< a, b >>, opnd0.elem)) :
          a \in At(opnd0.shape, 1), b \in At(opnd1.shape, 1)}
       \cup AbortIf(Len(opnd0.shape) < 1 \/ Len(opnd1.shape) < 1, FALSE)

\* MatMul: nothing when an operand is unranked, else dims (lhs[0], rhs[1]).
matMulInferShapes(opnd0, opnd1, old) ==
  IF ~opnd0.ranked \/ ~opnd1.ranked
  THEN {Outcome(FALSE, FALSE, old)}
  ELSE {Outcome(FALSE, FALSE, Ranked(<< a, b >>, opnd0.elem)) :
          a \in At(opnd0.shape, 1), b \in At(opnd1.shape, 2)}
       \cup AbortIf(Len(opnd0.shape) < 1 \/ Len(opnd1.shape) < 2, FALSE)

\* Gemm and FullGemm: the same code as MatMul.
gemmInferShapes(opnd0, opnd1, old) == matMulInferShapes(opnd0, opnd1, old)
fullGemmInferShapes(opnd0, opnd1, old) == matMulInferShapes(opnd0, opnd1, old)

\* Mutation: the dims loop runs to i <= outputRank.
reshapeOneExtraDim(opnd0, opnd1) ==
  LET notRanked == ~opnd1.ranked
      Diag(s, r) == notRanked \/ Len(s) # 1 \/ r < 0
  IN UNION {{Outcome(FALSE, Diag(s, r), Ranked([i \in 1 .. (r + 1) |-> Dyn], opnd0.elem)) :
               r \in At(s, 1)} : s \in ShapeOf(opnd1)}
     \cup AbortIf(~opnd0.ranked \/ notRanked, notRanked)
     \cup AbortIf(\E s \in ShapeOf(opnd1) : Len(s) < 1, TRUE)

\* Reshape: each check emits an error and carries on; the result has
\* shape[0] dynamic extents and the input's element type.
reshapeInferShapes(opnd0, opnd1) ==
  LET notRanked == ~opnd1.ranked
      Diag(s, r) == notRanked \/ Len(s) # 1 \/ r < 0
  IN UNION {{Outcome(FALSE, Diag(s, r), Ranked([i \in 1 .. r |-> Dyn], opnd0.elem)) :
               r \in At(s, 1)} : s \in ShapeOf(opnd1)}
     \cup AbortIf(~opnd0.ranked \/ notRanked, notRanked)
     \cup AbortIf(\E s \in ShapeOf(opnd1) : Len(s) < 1, TRUE)

\* The ShapeInference interface dispatches on the op.
inferShapes(op, old) ==
  LET t0 == types[op.opnd[1]]
      t1 == IF Arity[op.kind] > 1 THEN types[op.opnd[2]] ELSE t0
  IN CASE op.kind = "Unary"    -> unaryInferShapes(t0)
       [] op.kind = "Variadic" -> variadicInferShapes(t0, t1)
       [] op.kind = "MatMul"   -> matMulInferShapes(t0, t1, old)
       [] op.kind = "Gemm"     -> gemmInferShapes(t0, t1, old)
       [] op.kind = "FullGemm" -> fullGemmInferShapes(t0, t1, old)
       [] op.kind = "Reshape"  -> reshapeInferShapes(t0, t1)

-----------------------------------------------------------------------------
Init ==
  /\ prog \in Programs
  /\ types \in {[v \in Values |-> IF v <= NumArgs THEN a[v] ELSE Unranked(ResultElem)] :
                  a \in [1 .. NumArgs -> ArgTypes]}
  /\ Admissible(prog, [v \in 1 .. NumArgs |-> types[v]])
  /\ pc = 1
  /\ diags = {}
  /\ crashed = FALSE

\* The pass calls inferShapes on the next op; an abort ends the pass.
Infer ==
  /\ ~crashed
  /\ pc <= NumOps
  /\ \E out \in inferShapes(prog[pc], types[Res(pc)]) :
       /\ crashed' = out.crash
       /\ types' = IF out.crash THEN types ELSE [types EXCEPT ![Res(pc)] = out.type]
       /\ diags' = IF out.diag THEN diags \cup {pc} ELSE diags
       /\ pc' = IF out.crash THEN pc ELSE pc + 1
  /\ UNCHANGED prog

Next == Infer

Spec == Init /\ [][Next]_vars /\ WF_vars(Next)

-----------------------------------------------------------------------------
(* Properties.                                                             *)

\* The contract's view of a type: its shape when ranked.
ShapeView(t) == IF t.ranked THEN [known |-> TRUE, dims |-> t.shape]
                ELSE [known |-> FALSE, dims |-> << >>]

Contract == INSTANCE OnnxShapeContract
              WITH shape <- [v \in Values |-> ShapeView(types[v])],
                   step <- pc, diagnosed <- diags

\* Every value has a tensor type; ranks never exceed MaxRank.
TypeOK ==
  /\ types \in [Values -> TensorTypes]
  /\ pc \in 1 .. (NumOps + 1)
  /\ diags \subseteq 1 .. NumOps
  /\ crashed \in BOOLEAN

\* No inferShapes call (MatMul/Gemm reading getShape()[1], Reshape casting
\* its operands and reading shape[0]) ever reaches an assert or an
\* out-of-bounds read.
NoCrash == ~crashed

\* The pass implements the shape contract of spec sections 6 and 7: same
\* result shapes, a diagnostic that stops only its op, and every op visited.
ContractSpec == Contract!Spec

=============================================================================
