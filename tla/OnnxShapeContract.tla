------------------------- MODULE OnnxShapeContract -------------------------
(***************************************************************************)
(* What shape inference of the ONNX ops promises, per value of a function  *)
(* body: pure type-to-type propagation in program order.  A value's shape  *)
(* is either unresolved or known (a list of extents, Dyn for a dynamic     *)
(* one); element types are not part of the promise.                        *)
(*   - element-wise ops: the result shape is the first operand's;          *)
(*   - MatMul, Gemm, FullGemm: (lhs.rows, rhs.cols) when both operands are *)
(*     statically ranked, else unresolved;                                 *)
(*   - Reshape: a shape operand without a static rank one, static extent   *)
(*     is a user-facing shape error: a diagnostic against that op, which   *)
(*     stops only that op (its result stays unresolved, the pass goes on); *)
(*     otherwise the result has as many (dynamic) extents as the shape     *)
(*     operand has elements, whatever is known of the data.                *)
(* A matrix op on an operand of rank below two is outside the contract.    *)
(***************************************************************************)
EXTENDS Integers, Sequences

CONSTANTS
  NumArgs,    \* function arguments, values 1 .. NumArgs
  NumOps      \* ops, op i defining value NumArgs + i

VARIABLES
  prog,       \* the ops: [kind, opnd] records, opnd a list of earlier values
  shape,      \* per value: [known, dims]
  step,       \* the next op the pass visits
  diagnosed   \* ops a diagnostic was reported against

avars == <<prog, shape, step, diagnosed>>

Dyn == -1
Values == 1 .. (NumArgs + NumOps)
ElementWise == {"Unary", "Variadic"}
MatrixOps == {"MatMul", "Gemm", "FullGemm"}

Known(dims) == [known |-> TRUE, dims |-> dims]
Unresolved == [known |-> FALSE, dims |-> << >>]

\* The operand shapes an op reads; a unary op has no second one.
Opnd(s, op, k) == IF k <= Len(op.opnd) THEN s[op.opnd[k]] ELSE Unresolved

\* A reshape whose shape operand is a user-facing shape error.
ShapeError(op, s1) ==
  /\ op.kind = "Reshape"
  /\ ~s1.known \/ Len(s1.dims) # 1 \/ s1.dims[1] < 0

\* The op is covered by the contract: matrix operands are matrices.
InContract(op, s0, s1) ==
  op.kind \in MatrixOps =>
    \A s \in {s0, s1} : s.known => Len(s.dims) >= 2

\* The promised result shape.  For a matrix op outside the contract the
\* value is arbitrary (Unresolved) only to keep the operator total.
ContractShape(op, s0, s1) ==
  CASE op.kind \in ElementWise -> s0
    [] op.kind \in MatrixOps ->
         IF s0.known /\ s1.known /\ Len(s0.dims) >= 2 /\ Len(s1.dims) >= 2
         THEN Known(<< s0.dims[1], s1.dims[2] >>) ELSE Unresolved
    [] op.kind = "Reshape" ->
         IF ShapeError(op, s1) THEN Unresolved
         ELSE Known([i \in 1 .. s1.dims[1] |-> Dyn])

\* The shape the contract gives value v of program p, argument shapes a.
RECURSIVE RefShape(_, _, _)
RefShape(p, a, v) ==
  IF v <= NumArgs THEN a[v]
  ELSE LET op == p[v - NumArgs]
           sh == [w \in 1 .. (v - 1) |-> RefShape(p, a, w)]
       IN ContractShape(op, Opnd(sh, op, 1), Opnd(sh, op, 2))

\* Every op of p is covered by the contract and makes no shape error.
WellFormed(p, a) ==
  LET sh == [w \in Values |-> RefShape(p, a, w)]
  IN \A i \in 1 .. NumOps :
       /\ InContract(p[i], Opnd(sh, p[i], 1), Opnd(sh, p[i], 2))
       /\ ~ShapeError(p[i], Opnd(sh, p[i], 2))

-----------------------------------------------------------------------------
Init ==
  /\ step = 1
  /\ diagnosed = {}
  /\ \A i \in 1 .. NumOps : shape[NumArgs + i] = Unresolved

\* The pass visits the next op.
Resolve ==
  /\ step <= NumOps
  /\ LET op == prog[step]
         s0 == Opnd(shape, op, 1)
         s1 == Opnd(shape, op, 2)
     IN /\ InContract(op, s0, s1)
        /\ IF ShapeError(op, s1)
           THEN /\ diagnosed' = diagnosed \cup {step}
                /\ UNCHANGED shape
           ELSE /\ shape' = [shape EXCEPT ![NumArgs + step] = ContractShape(op, s0, s1)]
                /\ UNCHANGED diagnosed
  /\ step' = step + 1
  /\ UNCHANGED prog

Next == Resolve

\* The pass visits every op.
Spec == Init /\ [][Next]_avars /\ WF_avars(Next)

=============================================================================
