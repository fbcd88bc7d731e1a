--------------------------- MODULE TypeClassifier ---------------------------
(***************************************************************************)
(* The static type helpers of MathBuilder (DialectBuilder.cpp 54-82) over  *)
(* an abstraction of MLIR element-or-vector types.  A type is a record     *)
(*   kind: "sl" signless integer (ONNX integers; width 1 is the boolean),  *)
(*         "ui" unsigned integer (ONNX unsigned), "f" float, "idx" index;  *)
(*   w:    the bit width (for "idx" the target's index width IdxW);        *)
(*   vec:  whether it is a (1-D) vector of that element type.             *)
(* Widths are small stand-ins for 1/8/16/32/64; what the code does with a  *)
(* width only depends on how widths compare and on arithmetic mod 2^w.     *)
(***************************************************************************)
EXTENDS Integers

CONSTANTS
  IntWidths,    \* widths of signless integers (1 = boolean)
  UIntWidths,   \* widths of unsigned integers
  FloatWidths,  \* widths of the float types
  IdxW,         \* width of index (64 on every target of the code)
  VecFlags      \* {FALSE} for scalars only, {FALSE, TRUE} with vectors

ASSUME IdxW \in IntWidths /\ \A w \in IntWidths \cup UIntWidths : w =< IdxW

Ty(k, w, v) == [kind |-> k, w |-> w, vec |-> v]

Types ==
     {Ty("sl", w, v) : w \in IntWidths, v \in VecFlags}
  \cup {Ty("ui", w, v) : w \in UIntWidths, v \in VecFlags}
  \cup {Ty("f", w, v) : w \in FloatWidths, v \in VecFlags}
  \cup {Ty("idx", IdxW, v) : v \in VecFlags}

\* elementTypeWithVector: the element type of a vector, or the type itself.
elementTypeWithVector(t) == [t EXCEPT !.vec = FALSE]

\* getTypeWithVector: a vector of the given shape, or the element type.
getTypeWithVector(vec, elemType) == [elemType EXCEPT !.vec = vec]

\* isIntegerWithVector: integer or index element.
isIntegerWithVector(t) == elementTypeWithVector(t).kind \in {"sl", "ui", "idx"}

isUnsignedIntegerWithVector(t) == elementTypeWithVector(t).kind = "ui"

isFloatWithVector(t) == elementTypeWithVector(t).kind = "f"

\* Type::isa<IntegerType>() / isUnsignedInteger() / isSignlessInteger() on the
\* type itself: false for a vector type, whatever its element.
\* Mutation: isa<IntegerType> read as "is a signless integer".
IsaIntegerTypeSignlessOnly(t) == ~t.vec /\ t.kind = "sl"

IsaIntegerType(t) == ~t.vec /\ t.kind \in {"sl", "ui"}
IsUnsignedIntegerType(t) == ~t.vec /\ t.kind = "ui"
IsSignlessIntegerType(t) == ~t.vec /\ t.kind = "sl"

\* Element predicates used by cast on srcElemType / destElemType.
IsIntegerElem(e) == e.kind \in {"sl", "ui"}
IsInteger1(e) == IsIntegerElem(e) /\ e.w = 1
=============================================================================
