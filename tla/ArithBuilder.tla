---------------------------- MODULE ArithBuilder ----------------------------
(***************************************************************************)
(* MathBuilder (src/src/Dialect/Mlir/DialectBuilder.cpp 84-808): the       *)
(* type-dispatching arithmetic, comparison, constant and cast builders.    *)
(*                                                                         *)
(* A behaviour is a program under construction.  vals holds the handles    *)
(* of the values built so far: the first NumArgs are caller-supplied       *)
(* arguments of any type and value, every later one is the result of one   *)
(* builder call on earlier handles.  Each handle carries its type, the     *)
(* value it has when the emitted program runs (vectors are lane-uniform,   *)
(* so one lane stands for all), and the call that made it.  emitted holds  *)
(* the operations the last call appended to the IR, with their types.      *)
(*                                                                         *)
(* Run-time values: integers are bit patterns 0 .. 2^w-1; floats are small *)
(* integers (exactly representable in every float width); Undef is        *)
(* poison or a float result this model does not track.                     *)
(***************************************************************************)
EXTENDS Integers, Sequences, TypeClassifier
LOCAL INSTANCE Bitwise

CONSTANTS
  FloatVals,  \* float argument values
  ConstVals,  \* values passed to constant()
  NumArgs,    \* number of caller-supplied values
  MaxVals,    \* bound on the number of handles
  AbsKinds    \* element kinds of the values abs is called on

ASSUME NumArgs \in 1 .. MaxVals

VARIABLES
  vals,     \* sequence of handles
  emitted,  \* operations appended by the last builder call
  aborted,  \* the last call reached llvm_unreachable or a failed assert
  offsetCall  \* the last addOffsetToLeastSignificant call: its indices and
              \* offsets (handle numbers) and its computedIndices

vars == <<vals, emitted, aborted, offsetCall>>

\* Poison, or a float result the model does not track: a number far
\* outside every value the bounded model reaches, so that it compares with
\* integers.
Undef == -1000
IsUndef(x) == x = Undef

-----------------------------------------------------------------------------
(* The MLIR operations the builders emit, by what they compute.  These are *)
(* the semantics of the arith/math dialects, not code of this repository. *)

Pow2(w) == 2^w
Mod2(x, w) == x % Pow2(w)
\* Two's complement reading of a bit pattern.
SVal(b, w) == IF b >= Pow2(w - 1) THEN b - Pow2(w) ELSE b
AbsVal(x) == IF x < 0 THEN -x ELSE x
\* Quotient rounded toward zero (divsi, the C semantics).
Quot(a, b) == IF (a >= 0) = (b > 0) THEN AbsVal(a) \div AbsVal(b)
              ELSE -(AbsVal(a) \div AbsVal(b))

Lift2(a, b, F(_, _)) == IF IsUndef(a) \/ IsUndef(b) THEN Undef ELSE F(a, b)
Lift1(a, F(_)) == IF IsUndef(a) THEN Undef ELSE F(a)

\* extsi / extui / trunci / index_cast on bit patterns.
ExtSI(b, wf, wt) == Lift1(b, LAMBDA x : Mod2(SVal(x, wf), wt))
TruncI(b, wt) == Lift1(b, LAMBDA x : Mod2(x, wt))
\* fptosi / fptoui: poison when the value does not fit.
FPToSI(x, w) == Lift1(x, LAMBDA y : IF y \in -Pow2(w - 1) .. Pow2(w - 1) - 1
                                      THEN Mod2(y, w) ELSE Undef)
FPToUI(x, w) == Lift1(x, LAMBDA y : IF y \in 0 .. Pow2(w) - 1 THEN y ELSE Undef)
SIToFP(b, w) == Lift1(b, LAMBDA x : SVal(x, w))
\* divsi / remsi: undefined on a zero divisor and on INT_MIN / -1.
DivSI(a, b, w) == Lift2(a, b, LAMBDA x, y :
                    IF y = 0 \/ (SVal(x, w) = -Pow2(w - 1) /\ SVal(y, w) = -1) THEN Undef
                    ELSE Mod2(Quot(SVal(x, w), SVal(y, w)), w))
RemSI(a, b, w) == Lift2(a, b, LAMBDA x, y :
                    IF y = 0 \/ (SVal(x, w) = -Pow2(w - 1) /\ SVal(y, w) = -1) THEN Undef
                    ELSE Mod2(SVal(x, w) - SVal(y, w) * Quot(SVal(x, w), SVal(y, w)), w))
DivUI(a, b) == Lift2(a, b, LAMBDA x, y : IF y = 0 THEN Undef ELSE x \div y)
RemUI(a, b) == Lift2(a, b, LAMBDA x, y : IF y = 0 THEN Undef ELSE x % y)
B2I(c) == IF c THEN 1 ELSE 0

\* The ordering a predicate tests, on two numbers.
Holds(pred, x, y) ==
  CASE pred = "gt" -> x > y  [] pred = "ge" -> x >= y
    [] pred = "lt" -> x < y  [] pred = "le" -> x <= y
    [] pred = "eq" -> x = y  [] pred = "ne" -> x # y

Op(name, ins, out) == [name |-> name, ins |-> ins, out |-> out]

\* A builder result: its type, run-time value and the operations emitted.
Res(t, v, ops) == [ty |-> t, v |-> v, ops |-> ops, abort |-> FALSE]
Abort(ops) == [ty |-> Ty("sl", 1, FALSE), v |-> Undef, ops |-> ops, abort |-> TRUE]

\* Sequencing: r2 built on top of the operations of r1, unless r1 aborted.
Then(r1, r2) == IF r1.abort THEN r1 ELSE [r2 EXCEPT !.ops = r1.ops \o r2.ops]

\* The result of one binary op on two operands of type t.
BinOp(name, t, v) == Res(t, v, <<Op(name, <<t, t>>, t)>>)

-----------------------------------------------------------------------------
(* castToSignless / castToUnsigned (588-610): unrealized conversion casts  *)
(* that keep the bit pattern and the vector shape.                         *)

castToSignless(x, width) ==
  LET t == getTypeWithVector(x.ty.vec, Ty("sl", width, FALSE))
  IN IF elementTypeWithVector(x.ty).kind # "ui" THEN Abort(<<>>)  \* assert: not signless
     ELSE Res(t, x.v, <<Op("unrealized_conversion_cast", <<x.ty>>, t)>>)

castToUnsigned(x, width) ==
  LET t == getTypeWithVector(x.ty.vec, Ty("ui", width, FALSE))
  IN Res(t, x.v, <<Op("unrealized_conversion_cast", <<x.ty>>, t)>>)

\* Mutation: the integer attribute built from the double without APInt,
\* so the value is not truncated to the element width.
constantWithoutAPInt(t, c) ==
  LET e == elementTypeWithVector(t) IN
  IF e.kind = "f" \/ e.w = 1 THEN Res(e, IF e.kind = "f" THEN c ELSE B2I(c # 0), <<>>)
  ELSE Res(e, c, <<Op("arith.constant", <<>>, e)>>)

\* constant (407-458): i1 becomes a bool attribute, an unsigned constant is
\* built signless and cast, a vector constant is splat.
constant(t, c) ==
  LET e == elementTypeWithVector(t)
      scalar ==
        CASE e.kind = "f" -> Res(e, c, <<Op("arith.constant", <<>>, e)>>)
          [] e.kind \in {"sl", "ui"} /\ e.w = 1 ->
               Res(e, B2I(c # 0), <<Op("arith.constant", <<>>, e)>>)
          [] e.kind = "ui" ->
               LET sl == Ty("sl", e.w, FALSE)
               IN Then(Res(sl, Mod2(c, e.w), <<Op("arith.constant", <<>>, sl)>>),
                       castToUnsigned(Res(sl, Mod2(c, e.w), <<>>), e.w))
          [] OTHER -> Res(e, Mod2(c, e.w), <<Op("arith.constant", <<>>, e)>>)
  IN IF t.vec
     THEN Then(scalar, Res(t, scalar.v, <<Op("vector.splat", <<scalar.ty>>, t)>>))
     ELSE scalar

\* constantIndex (460-463): an arith.constant of index type.
constantIndex(c) ==
  LET t == Ty("idx", IdxW, FALSE) IN Res(t, Mod2(c, IdxW), <<Op("arith.constant", <<>>, t)>>)

-----------------------------------------------------------------------------
(* negativeInfAttr / positiveInfAttr (465-553) and negativeInf /           *)
(* positiveInf (555-567): an arith.constant of the type's extremum.  Float *)
(* extrema (+-inf) are values the model does not track.                    *)

\* Mutation: only a signed type (none here) takes the signed limits, a
\* signless one the unsigned limits.
InfLiteralSignedOnly(which, e) ==
  CASE which = "neg" -> 0
    [] e.w = IdxW -> -1
    [] OTHER -> Pow2(e.w) - 1

\* The int64 the width switch computes: numeric_limits of the signed type
\* for a signless or signed integer, of the unsigned one otherwise; the
\* uint64 maximum does not fit int64 and is -1.
InfLiteral(which, e) ==
  CASE e.kind = "sl" -> IF which = "neg" THEN -Pow2(e.w - 1) ELSE Pow2(e.w - 1) - 1
    [] which = "neg" -> 0
    [] e.w = IdxW -> -1
    [] OTHER -> Pow2(e.w) - 1

\* The attribute is APInt(width, value) on the type itself, with no
\* signless detour: an unsigned extremum is an arith.constant of unsigned
\* type.  Vectors, index, and widths outside 8/16/32/64 (here: the boolean)
\* reach llvm_unreachable.
infConstant(which, t) ==
  CASE t.vec \/ t.kind = "idx" \/ (t.kind # "f" /\ t.w = 1) -> Abort(<<>>)
    [] t.kind = "f" -> Res(t, Undef, <<Op("arith.constant", <<>>, t)>>)
    [] OTHER -> Res(t, Mod2(InfLiteral(which, t), t.w), <<Op("arith.constant", <<>>, t)>>)

-----------------------------------------------------------------------------
(* Binary operations (113-180).  Both operands have the same type (the     *)
(* code asserts it; callers are only given such pairs).                    *)

\* add: unsigned operands are added as signless with addui_extended (the sum
\* result) and the sum is cast back to unsigned.
add(a, b) ==
  LET t == a.ty IN
  IF isIntegerWithVector(t)
  THEN IF elementTypeWithVector(t).kind = "ui"
       THEN LET w == t.w
                l == castToSignless(a, w)
                r == castToSignless(b, w)
                s == Res(l.ty, Lift2(a.v, b.v, LAMBDA x, y : Mod2(x + y, w)),
                         <<Op("arith.addui_extended", <<l.ty, r.ty>>, l.ty)>>)
            IN Then(l, Then(r, Then(s, castToUnsigned(s, w))))
       ELSE Res(t, Lift2(a.v, b.v, LAMBDA x, y : Mod2(x + y, t.w)),
                <<Op("arith.addi", <<t, t>>, t)>>)
  ELSE Res(t, Lift2(a.v, b.v, LAMBDA x, y : x + y), <<Op("arith.addf", <<t, t>>, t)>>)

\* sub: subi for every integer kind, unsigned included.
sub(a, b) ==
  LET t == a.ty IN
  IF isIntegerWithVector(t)
  THEN Res(t, Lift2(a.v, b.v, LAMBDA x, y : Mod2(x - y, t.w)),
           <<Op("arith.subi", <<t, t>>, t)>>)
  ELSE Res(t, Lift2(a.v, b.v, LAMBDA x, y : x - y), <<Op("arith.subf", <<t, t>>, t)>>)

\* mul: like add, with the low half of mului_extended.
mul(a, b) ==
  LET t == a.ty IN
  IF isIntegerWithVector(t)
  THEN IF elementTypeWithVector(t).kind = "ui"
       THEN LET w == t.w
                l == castToSignless(a, w)
                r == castToSignless(b, w)
                s == Res(l.ty, Lift2(a.v, b.v, LAMBDA x, y : Mod2(x * y, w)),
                         <<Op("arith.mului_extended", <<l.ty, r.ty>>, l.ty)>>)
            IN Then(l, Then(r, Then(s, castToUnsigned(s, w))))
       ELSE Res(t, Lift2(a.v, b.v, LAMBDA x, y : Mod2(x * y, t.w)),
                <<Op("arith.muli", <<t, t>>, t)>>)
  ELSE Res(t, Lift2(a.v, b.v, LAMBDA x, y : x * y), <<Op("arith.mulf", <<t, t>>, t)>>)

\* div / rem: float first, then unsigned, then the remaining integers.
div(a, b) ==
  LET t == a.ty IN
  CASE isFloatWithVector(t) -> Res(t, Undef, <<Op("arith.divf", <<t, t>>, t)>>)
    [] isUnsignedIntegerWithVector(t) -> Res(t, DivUI(a.v, b.v), <<Op("arith.divui", <<t, t>>, t)>>)
    [] isIntegerWithVector(t) -> Res(t, DivSI(a.v, b.v, t.w), <<Op("arith.divsi", <<t, t>>, t)>>)

rem(a, b) ==
  LET t == a.ty IN
  CASE isFloatWithVector(t) -> Res(t, Undef, <<Op("arith.remf", <<t, t>>, t)>>)
    [] isUnsignedIntegerWithVector(t) -> Res(t, RemUI(a.v, b.v), <<Op("arith.remui", <<t, t>>, t)>>)
    [] isIntegerWithVector(t) -> Res(t, RemSI(a.v, b.v, t.w), <<Op("arith.remsi", <<t, t>>, t)>>)

\* neg (253-260): 0 - val for integers, negf for floats.
neg(a) ==
  IF isIntegerWithVector(a.ty)
  THEN LET z == constant(a.ty, 0) IN Then(z, sub(z, a))
  ELSE Res(a.ty, Lift1(a.v, LAMBDA x : -x), <<Op("arith.negf", <<a.ty>>, a.ty)>>)

-----------------------------------------------------------------------------
(* abs (84-90), andi / ori / xori (92-111) and the float-only math         *)
(* functions copySign, exp, exp2, log, log2, sqrt, pow, ceil, floor        *)
(* (182-187, 217-251, 262-272).                                            *)

\* Mutation: integer abs that reads the bit pattern as a natural.
absNoSign(a) ==
  LET t == a.ty IN
  CASE isIntegerWithVector(t) -> Res(t, a.v, <<Op("math.absi", <<t>>, t)>>)
    [] isFloatWithVector(t) -> Res(t, Lift1(a.v, AbsVal), <<Op("math.absf", <<t>>, t)>>)
    [] OTHER -> Abort(<<>>)

\* abs: math.absi (two's complement, INT_MIN stays INT_MIN) or math.absf.
abs(a) ==
  LET t == a.ty IN
  CASE isIntegerWithVector(t) ->
         Res(t, Lift1(a.v, LAMBDA x : Mod2(AbsVal(SVal(x, t.w)), t.w)),
             <<Op("math.absi", <<t>>, t)>>)
    [] isFloatWithVector(t) -> Res(t, Lift1(a.v, AbsVal), <<Op("math.absf", <<t>>, t)>>)
    [] OTHER -> Abort(<<>>)

\* The bitwise operation of each builder on bit patterns.
BitOp(which, x, y) ==
  CASE which = "andi" -> x & y [] which = "ori" -> x | y [] which = "xori" -> x ^^ y

\* Mutation: xori creating an OrIOp.
bitwiseXorAsOr(which, a, b) ==
  LET t == a.ty
      op == IF which = "xori" THEN "ori" ELSE which
  IN IF isIntegerWithVector(t)
     THEN BinOp("arith." \o op, t, Lift2(a.v, b.v, LAMBDA x, y : BitOp(op, x, y)))
     ELSE Abort(<<>>)

\* andi / ori / xori: one arith op for every integer kind, "expected int"
\* otherwise.
bitwise(which, a, b) ==
  LET t == a.ty IN
  IF isIntegerWithVector(t)
  THEN BinOp("arith." \o which, t, Lift2(a.v, b.v, LAMBDA x, y : BitOp(which, x, y)))
  ELSE Abort(<<>>)

\* The value of a math function on an integral float: ceil and floor keep
\* it, exp, log, sqrt and pow are not tracked.
FloatFn(f, x) == IF f \in {"ceil", "floor"} THEN x ELSE Undef

\* exp, exp2, log, log2, sqrt, ceil, floor: one math op, "expected float"
\* otherwise.
mathUnary(f, a) ==
  IF isFloatWithVector(a.ty)
  THEN Res(a.ty, Lift1(a.v, LAMBDA x : FloatFn(f, x)), <<Op("math." \o f, <<a.ty>>, a.ty)>>)
  ELSE Abort(<<>>)

\* Mutation: copySign taking the magnitude from dividend, the sign from rem.
copySignSwapped(remV, dividend) ==
  IF isFloatWithVector(remV.ty)
  THEN BinOp("math.copysign", remV.ty,
             Lift2(dividend.v, remV.v, LAMBDA x, y : IF y < 0 THEN -AbsVal(x) ELSE AbsVal(x)))
  ELSE Abort(<<>>)

\* copySign(rem, dividend): the magnitude of rem (remV: rem names the
\* builder) with the sign of dividend.
copySign(remV, dividend) ==
  IF isFloatWithVector(remV.ty)
  THEN BinOp("math.copysign", remV.ty,
             Lift2(remV.v, dividend.v, LAMBDA x, y : IF y < 0 THEN -AbsVal(x) ELSE AbsVal(x)))
  ELSE Abort(<<>>)

\* pow: math.powf on a float base.
pow(base, exp) ==
  IF isFloatWithVector(base.ty) THEN BinOp("math.powf", base.ty, Undef) ELSE Abort(<<>>)

-----------------------------------------------------------------------------
(* min / max (274-294), ceilDiv / floorDiv (189-206), fma (209-215) and   *)
(* select (402-405).                                                       *)

\* Quotients rounded toward -infinity and toward +infinity.
FloorQ(a, b) == IF b > 0 THEN a \div b ELSE (-a) \div (-b)
CeilQ(a, b) == -FloorQ(-a, b)

\* ceildivsi / floordivsi: undefined where divsi is.
SIDivUndef(x, y, w) == y = 0 \/ (SVal(x, w) = -Pow2(w - 1) /\ SVal(y, w) = -1)
CeilDivSI(a, b, w) == Lift2(a, b, LAMBDA x, y :
                        IF SIDivUndef(x, y, w) THEN Undef
                        ELSE Mod2(CeilQ(SVal(x, w), SVal(y, w)), w))
FloorDivSI(a, b, w) == Lift2(a, b, LAMBDA x, y :
                         IF SIDivUndef(x, y, w) THEN Undef
                         ELSE Mod2(FloorQ(SVal(x, w), SVal(y, w)), w))
CeilDivUI(a, b) == Lift2(a, b, LAMBDA x, y : IF y = 0 THEN Undef ELSE CeilQ(x, y))

\* minsi / minui / minf and the max ones: the operand the ordering picks,
\* with the bit patterns read signed or unsigned.
PickBy(pred, signed, a, b) ==
  LET rd(x) == IF signed THEN SVal(x, a.ty.w) ELSE x
  IN Lift2(a.v, b.v, LAMBDA x, y : IF Holds(pred, rd(x), rd(y)) THEN x ELSE y)

\* Mutation: no unsigned case, unsigned operands take minsi / maxsi.
minMaxNoUnsigned(which, a, b) ==
  LET t == a.ty
      pred == IF which = "min" THEN "le" ELSE "ge"
  IN CASE isFloatWithVector(t) -> BinOp("arith." \o which \o "f", t, PickBy(pred, FALSE, a, b))
       [] isIntegerWithVector(t) -> BinOp("arith." \o which \o "si", t, PickBy(pred, TRUE, a, b))

\* min / max: float, then unsigned, then the remaining integers.
minMax(which, a, b) ==
  LET t == a.ty
      pred == IF which = "min" THEN "le" ELSE "ge"
  IN CASE isFloatWithVector(t) -> BinOp("arith." \o which \o "f", t, PickBy(pred, FALSE, a, b))
       [] isUnsignedIntegerWithVector(t) ->
            BinOp("arith." \o which \o "ui", t, PickBy(pred, FALSE, a, b))
       [] isIntegerWithVector(t) -> BinOp("arith." \o which \o "si", t, PickBy(pred, TRUE, a, b))

ceilDiv(a, b) ==
  LET t == a.ty IN
  CASE isUnsignedIntegerWithVector(t) -> BinOp("arith.ceildivui", t, CeilDivUI(a.v, b.v))
    [] isIntegerWithVector(t) -> BinOp("arith.ceildivsi", t, CeilDivSI(a.v, b.v, t.w))
    [] OTHER -> Abort(<<>>)

\* Mutation: signed floorDiv emitted as divsi (rounds toward zero).
floorDivTrunc(a, b) ==
  LET t == a.ty IN
  CASE isUnsignedIntegerWithVector(t) -> BinOp("arith.divui", t, DivUI(a.v, b.v))
    [] isIntegerWithVector(t) -> BinOp("arith.divsi", t, DivSI(a.v, b.v, t.w))
    [] OTHER -> Abort(<<>>)

\* floorDiv: unsigned with divui (the code's comment: it rounds toward zero,
\* which is the floor for naturals), signed with floordivsi.
floorDiv(a, b) ==
  LET t == a.ty IN
  CASE isUnsignedIntegerWithVector(t) -> BinOp("arith.divui", t, DivUI(a.v, b.v))
    [] isIntegerWithVector(t) -> BinOp("arith.floordivsi", t, FloorDivSI(a.v, b.v, t.w))
    [] OTHER -> Abort(<<>>)

\* fma: vector.fma for a vector of floats, otherwise add(mul(lhs, rhs), acc)
\* with add and mul's own unsigned emulation.
fma(a, b, c) ==
  LET t == a.ty IN
  IF isFloatWithVector(t) /\ t.vec
  THEN Res(t, Lift2(Lift2(a.v, b.v, LAMBDA x, y : x * y), c.v, LAMBDA x, y : x + y),
           <<Op("vector.fma", <<t, t, t>>, t)>>)
  ELSE LET m == mul(a, b) IN Then(m, add(m, c))

\* select: arith.select on an i1 condition, no kind dispatch.
select(c, a, b) ==
  Res(a.ty, Lift1(c.v, LAMBDA x : IF x # 0 THEN a.v ELSE b.v),
      <<Op("arith.select", <<c.ty, a.ty, a.ty>>, a.ty)>>)
-----------------------------------------------------------------------------
(* addOffsetToLeastSignificant (785-808): computedIndices is the indices,  *)
(* with offset k added to index R-K+k by add (the IndexExpr overload takes *)
(* the values of its IndexExprs first).  The result is a sequence of Res.  *)

\* Mutation: the offsets aligned with the most significant indices.
addOffsetMostSignificant(indices, offsets) ==
  [i \in DOMAIN indices |->
     IF i > Len(offsets) THEN Res(indices[i].ty, indices[i].v, <<>>)
     ELSE add(offsets[i], indices[i])]

addOffsetToLeastSignificant(indices, offsets) ==
  LET firstOffset == Len(indices) - Len(offsets)
  IN [i \in DOMAIN indices |->
        IF i <= firstOffset THEN Res(indices[i].ty, indices[i].v, <<>>)
        ELSE add(offsets[i - firstOffset], indices[i])]

-----------------------------------------------------------------------------
(* Comparisons (296-400, 569-583).  The result is an i1 (vector of i1).    *)

BoolTy(t) == Ty("sl", 1, t.vec)

\* createArithCmp with a CmpIPredicate: signed predicates read the bit
\* patterns in two's complement, unsigned ones as naturals.
createArithCmpI(pred, signed, a, b) ==
  LET t == a.ty
      rd(x) == IF signed THEN SVal(x, t.w) ELSE x
  IN Res(BoolTy(t), Lift2(a.v, b.v, LAMBDA x, y : B2I(Holds(pred, rd(x), rd(y)))),
         <<Op("arith.cmpi", <<t, t>>, BoolTy(t))>>)

createArithCmpF(pred, a, b) ==
  Res(BoolTy(a.ty), Lift2(a.v, b.v, LAMBDA x, y : B2I(Holds(pred, x, y))),
      <<Op("arith.cmpf", <<a.ty, a.ty>>, BoolTy(a.ty))>>)

\* sgt / sge / slt / sle: signed integer predicate, or the ordered float one.
sCmp(pred, a, b) ==
  IF isIntegerWithVector(a.ty) THEN createArithCmpI(pred, TRUE, a, b)
  ELSE createArithCmpF(pred, a, b)

\* ugt / uge / ult / ule: unsigned integers only.
uCmp(pred, a, b) ==
  IF isUnsignedIntegerWithVector(a.ty) THEN createArithCmpI(pred, FALSE, a, b)
  ELSE Abort(<<>>)

\* Mutation: gt / ge / lt / le always taking the signed predicate.
cmpAlwaysSigned(pred, a, b) == sCmp(pred, a, b)

\* gt / ge / lt / le: the unsigned predicate for unsigned operands, else the
\* signed one.
cmp(pred, a, b) ==
  IF isUnsignedIntegerWithVector(a.ty) THEN uCmp(pred, a, b) ELSE sCmp(pred, a, b)

\* eq / neq.
eqCmp(pred, a, b) ==
  IF isIntegerWithVector(a.ty) THEN createArithCmpI(pred, TRUE, a, b)
  ELSE createArithCmpF(pred, a, b)

-----------------------------------------------------------------------------
(* cast (613-776), in the order the code tests its cases.                  *)

Conv(name, x, t, v) == Res(t, v, <<Op(name, <<x.ty>>, t)>>)

cast(destType, src0) ==
  LET srcVec == src0.ty.vec
      \* An index source is first converted to a signless int of width IdxW.
      src == IF src0.ty.kind = "idx"
             THEN Conv("arith.index_cast", src0,
                       getTypeWithVector(srcVec, Ty("sl", IdxW, FALSE)), src0.v)
             ELSE Res(src0.ty, src0.v, <<>>)
      srcType == src.ty
      srcElemType == elementTypeWithVector(srcType)
      \* An index destination is treated as a signless IdxW int until the end.
      destIsIndex == destType.kind = "idx"
      dType == IF destIsIndex
               THEN getTypeWithVector(destType.vec, Ty("sl", IdxW, FALSE))
               ELSE destType
      destElemType == elementTypeWithVector(dType)
      srcElemWidth == srcElemType.w
      destElemWidth == destElemType.w
      bitExtend == srcElemWidth < destElemWidth
      bitTrunc == srcElemWidth > destElemWidth
      toIndex(r) == Then(r, Conv("arith.index_cast", r, destType, r.v))
      body ==
        CASE
          \* Boolean source: uitofp to float, extui to integer.
             IsInteger1(srcElemType) ->
               IF destElemType.kind = "f"
               THEN Conv("arith.uitofp", src, dType, src.v)
               ELSE LET d == Conv("arith.extui", src, dType, src.v)
                    IN IF destIsIndex THEN toIndex(d) ELSE d
          \* Boolean destination: compare with a (signless) zero.
          [] IsInteger1(destElemType) ->
               LET s == IF srcElemType.kind = "ui"
                        THEN castToSignless(src, srcElemWidth)
                        ELSE Res(srcType, src.v, <<>>)
                   zero == constant(s.ty, 0)
               IN Then(s, Then(zero, eqCmp("ne", s, zero)))
          \* Float to float: extend or truncate.
          [] srcElemType.kind = "f" /\ destElemType.kind = "f" ->
               IF bitExtend THEN Conv("arith.extf", src, dType, src.v)
               ELSE Conv("arith.truncf", src, dType, src.v)
          \* Float to int: the unsigned test is on the type itself.
          [] srcElemType.kind = "f" /\ IsIntegerElem(destElemType) ->
               IF IsUnsignedIntegerType(dType)
               THEN LET c == Conv("arith.fptoui", src, Ty("sl", destElemWidth, FALSE),
                                  FPToUI(src.v, destElemWidth))
                    IN Then(c, castToUnsigned(c, destElemWidth))
               ELSE LET d == Conv("arith.fptosi", src, dType, FPToSI(src.v, destElemWidth))
                    IN IF destIsIndex THEN toIndex(d) ELSE d
          \* Int to float.
          [] IsIntegerElem(srcElemType) /\ destElemType.kind = "f" ->
               IF srcElemType.kind = "ui"
               THEN LET c == castToSignless(src, srcElemWidth)
                    IN Then(c, Conv("arith.uitofp", c, dType, src.v))
               ELSE Conv("arith.sitofp", src, dType, SIToFP(src.v, srcElemWidth))
          \* Int to int: tested on the types themselves, so scalars only.
          [] IsaIntegerType(srcType) /\ IsaIntegerType(dType) ->
               IF IsUnsignedIntegerType(srcType)
               THEN IF srcElemWidth = destElemWidth /\ IsSignlessIntegerType(dType)
                    THEN castToSignless(src, srcElemWidth)
                    ELSE LET c == castToSignless(src, srcElemWidth)
                             ct == Ty("sl", destElemWidth, FALSE)
                             e == IF bitExtend THEN Conv("arith.extui", c, ct, c.v)
                                  ELSE Conv("arith.trunci", c, ct, TruncI(c.v, destElemWidth))
                             ce == Then(c, e)
                         IN IF IsUnsignedIntegerType(dType)
                            THEN Then(ce, castToUnsigned(ce, destElemWidth))
                            ELSE ce
               ELSE IF srcElemWidth = destElemWidth /\ IsUnsignedIntegerType(dType)
                    THEN castToUnsigned(src, srcElemWidth)
                    ELSE LET d == CASE bitExtend -> Conv("arith.extsi", src, dType,
                                                         ExtSI(src.v, srcElemWidth, destElemWidth))
                                    [] bitTrunc -> Conv("arith.trunci", src, dType,
                                                        TruncI(src.v, destElemWidth))
                                    [] OTHER -> Res(srcType, src.v, <<>>)
                         IN CASE destIsIndex -> toIndex(d)
                              [] IsUnsignedIntegerType(dType) ->
                                   Then(d, castToUnsigned(d, destElemWidth))
                              [] OTHER -> d
          \* llvm_unreachable("unsupported element type").
          [] OTHER -> Abort(<<>>)
  IN IF src0.ty = destType
     THEN Res(src0.ty, src0.v, <<>>)
     ELSE Then(src, body)
-----------------------------------------------------------------------------
(* Builder calls.  A call that reaches an assert or llvm_unreachable       *)
(* aborts the compiler: nothing more is built.                            *)

ArgVals(t) == IF t.kind = "f" THEN FloatVals ELSE 0 .. Pow2(t.w) - 1

Handle(r, call, args, par) ==
  [ty |-> r.ty, v |-> r.v, call |-> call, args |-> args, par |-> par]

\* Append the result of one builder call, or abort.
NoOffsetCall == [indices |-> << >>, offsets |-> << >>, computed |-> << >>]

Emit(r, call, args, par) ==
  /\ emitted' = r.ops
  /\ offsetCall' = NoOffsetCall
  /\ IF r.abort
     THEN aborted' = TRUE /\ UNCHANGED vals
     ELSE aborted' = FALSE /\ vals' = Append(vals, Handle(r, call, args, par))

CanCall == ~aborted /\ Len(vals) \in NumArgs .. MaxVals - 1

\* A value of the surrounding program (function argument, loaded value).
Arg ==
  /\ Len(vals) < NumArgs
  /\ \E t \in Types : \E v \in ArgVals(t) :
       vals' = Append(vals, [ty |-> t, v |-> v, call |-> "arg", args |-> << >>, par |-> 0])
  /\ emitted' = << >>
  /\ offsetCall' = NoOffsetCall
  /\ UNCHANGED aborted

\* Two handles of the same type (the binary builders assert it).
SameTypePairs == {ij \in (DOMAIN vals) \X (DOMAIN vals) : vals[ij[1]].ty = vals[ij[2]].ty}

Constant ==
  /\ CanCall
  /\ \E t \in Types, c \in ConstVals : Emit(constant(t, c), "constant", << >>, c)

Add ==
  /\ CanCall
  /\ \E ij \in SameTypePairs : Emit(add(vals[ij[1]], vals[ij[2]]), "add", ij, 0)

Sub ==
  /\ CanCall
  /\ \E ij \in SameTypePairs : Emit(sub(vals[ij[1]], vals[ij[2]]), "sub", ij, 0)

Mul ==
  /\ CanCall
  /\ \E ij \in SameTypePairs : Emit(mul(vals[ij[1]], vals[ij[2]]), "mul", ij, 0)

Div ==
  /\ CanCall
  /\ \E ij \in SameTypePairs : Emit(div(vals[ij[1]], vals[ij[2]]), "div", ij, 0)

Rem ==
  /\ CanCall
  /\ \E ij \in SameTypePairs : Emit(rem(vals[ij[1]], vals[ij[2]]), "rem", ij, 0)

Neg ==
  /\ CanCall
  /\ \E i \in DOMAIN vals : Emit(neg(vals[i]), "neg", <<i>>, 0)

\* min / max.
MinMax ==
  /\ CanCall
  /\ \E ij \in SameTypePairs, which \in {"min", "max"} :
       Emit(minMax(which, vals[ij[1]], vals[ij[2]]), which, ij, 0)

\* negativeInf / positiveInf of an element type the width switch names
\* (the spec: other widths fail fatally, so callers do not pass them).
Inf ==
  /\ CanCall
  /\ \E t \in Types, which \in {"neg", "pos"} :
       /\ ~t.vec /\ t.kind # "idx" /\ (t.kind = "f" \/ t.w > 1)
       /\ Emit(infConstant(which, t), "inf", << >>, which)

\* ceilDiv / floorDiv on integers ("expected int" otherwise).
IntPairs == {ij \in SameTypePairs : isIntegerWithVector(vals[ij[1]].ty)}

CeilDiv ==
  /\ CanCall
  /\ \E ij \in IntPairs : Emit(ceilDiv(vals[ij[1]], vals[ij[2]]), "ceilDiv", ij, 0)

FloorDiv ==
  /\ CanCall
  /\ \E ij \in IntPairs : Emit(floorDiv(vals[ij[1]], vals[ij[2]]), "floorDiv", ij, 0)

\* fma on three handles of one type (asserted).
Fma ==
  /\ CanCall
  /\ \E i, j, k \in DOMAIN vals :
       /\ vals[i].ty = vals[j].ty /\ vals[j].ty = vals[k].ty
       /\ Emit(fma(vals[i], vals[j], vals[k]), "fma", <<i, j, k>>, 0)

\* select on an i1 condition (a vector of i1 only for vector operands).
Select ==
  /\ CanCall
  /\ \E c \in DOMAIN vals, ij \in SameTypePairs :
       /\ vals[c].ty.kind = "sl" /\ vals[c].ty.w = 1
       /\ vals[c].ty.vec => vals[ij[1]].ty.vec
       /\ Emit(select(vals[c], vals[ij[1]], vals[ij[2]]), "select", <<c>> \o ij, 0)

ConstantIndex ==
  /\ CanCall
  /\ \E c \in ConstVals : Emit(constantIndex(c), "constantIndex", << >>, c)

Abs ==
  /\ CanCall
  /\ \E i \in DOMAIN vals :
       /\ vals[i].ty.kind \in AbsKinds
       /\ Emit(abs(vals[i]), "abs", <<i>>, 0)

\* andi / ori / xori on two integer handles of one type.
Bitwise ==
  /\ CanCall
  /\ \E ij \in IntPairs, which \in {"andi", "ori", "xori"} :
       Emit(bitwise(which, vals[ij[1]], vals[ij[2]]), which, ij, 0)

\* The float-only math functions on float handles ("expected float").
MathUnary ==
  /\ CanCall
  /\ \E i \in DOMAIN vals, f \in {"exp", "exp2", "log", "log2", "sqrt", "ceil", "floor"} :
       /\ isFloatWithVector(vals[i].ty)
       /\ Emit(mathUnary(f, vals[i]), f, <<i>>, 0)

FloatPairs == {ij \in SameTypePairs : isFloatWithVector(vals[ij[1]].ty)}

CopySign ==
  /\ CanCall
  /\ \E ij \in FloatPairs : Emit(copySign(vals[ij[1]], vals[ij[2]]), "copySign", ij, 0)

\* pow: math.powf needs an exponent of the base's type.
Pow ==
  /\ CanCall
  /\ \E ij \in FloatPairs : Emit(pow(vals[ij[1]], vals[ij[2]]), "pow", ij, 0)

\* addOffsetToLeastSignificant on one or two indices and at most as many
\* offsets (asserted), each offset of its index's type (add asserts it).
\* The results go to computedIndices, not to new handles.
AddOffset ==
  /\ CanCall
  /\ \E is \in UNION {[1 .. r -> DOMAIN vals] : r \in 1 .. 2} :
     \E os \in UNION {[1 .. k -> DOMAIN vals] : k \in 0 .. Len(is)} :
       LET first == Len(is) - Len(os)
           rs == addOffsetToLeastSignificant([i \in DOMAIN is |-> vals[is[i]]],
                                             [k \in DOMAIN os |-> vals[os[k]]])
           RECURSIVE Cat(_)
           Cat(k) == IF k = 0 THEN << >> ELSE Cat(k - 1) \o rs[k].ops
       IN /\ \A k \in DOMAIN os : vals[os[k]].ty = vals[is[first + k]].ty
          /\ emitted' = Cat(Len(rs))
          /\ aborted' = \E k \in DOMAIN rs : rs[k].abort
          /\ offsetCall' = [indices |-> is, offsets |-> os,
                            computed |-> [k \in DOMAIN rs |-> [ty |-> rs[k].ty, v |-> rs[k].v]]]
          /\ UNCHANGED vals

\* gt / ge / lt / le.
Compare ==
  /\ CanCall
  /\ \E ij \in SameTypePairs, pred \in {"gt", "ge", "lt", "le"} :
       Emit(cmp(pred, vals[ij[1]], vals[ij[2]]), "cmp", ij, pred)

Equal ==
  /\ CanCall
  /\ \E ij \in SameTypePairs, pred \in {"eq", "ne"} :
       Emit(eqCmp(pred, vals[ij[1]], vals[ij[2]]), "cmp", ij, pred)

\* cast / castToIndex; source and destination are both scalars or both
\* vectors (asserted).
Cast ==
  /\ CanCall
  /\ \E i \in DOMAIN vals, t \in Types :
       /\ t.vec = vals[i].ty.vec
       /\ Emit(cast(t, vals[i]), "cast", <<i>>, t)

Init ==
  /\ vals = << >>
  /\ emitted = << >>
  /\ aborted = FALSE
  /\ offsetCall = NoOffsetCall

Next ==
  \/ Arg \/ Constant \/ Add \/ Sub \/ Mul \/ Div \/ Rem \/ Neg
  \/ Inf \/ MinMax \/ CeilDiv \/ FloorDiv \/ Fma \/ Select
  \/ ConstantIndex \/ Abs \/ Bitwise \/ MathUnary \/ CopySign \/ Pow \/ AddOffset
  \/ Compare \/ Equal \/ Cast

Spec == Init /\ [][Next]_vars

-----------------------------------------------------------------------------
(* The meaning the spec gives a value of a type: signless integers and   *)
(* index are signed (two's complement, so i1 true is -1 in arithmetic and  *)
(* ordered comparisons), unsigned integers are naturals.                  *)

Meaning(t, v) ==
  IF IsUndef(v) THEN Undef
  ELSE IF t.kind \in {"sl", "idx"} THEN SVal(v, t.w) ELSE v

\* The bit pattern of type t that stands for the integer x (wrap-around).
Wrap(x, t) == IF t.kind = "f" THEN x ELSE Mod2(x, t.w)

\* x is representable in t without wrapping.
Fits(x, t) == t.kind = "f" \/ Meaning(t, Mod2(x, t.w)) = x

\* The k lowest bits of the two's complement integers x and y combined by
\* and / or / xor, read as a bit pattern.
RECURSIVE BitwiseRef(_, _, _, _)
BitwiseRef(which, x, y, k) ==
  IF k = 0 THEN 0
  ELSE LET p == x % 2
           q == y % 2
           bit == CASE which = "andi" -> p * q
                    [] which = "ori" -> IF p + q > 0 THEN 1 ELSE 0
                    [] which = "xori" -> (p + q) % 2
       IN bit + 2 * BitwiseRef(which, (x - p) \div 2, (y - q) \div 2, k - 1)

\* The spec leaves the value open (undefined behaviour, untracked floats).
Any == {}

\* Reference semantics of each builder call (spec sections 4.2 and 8): the
\* bit pattern the call must produce from the meanings of its arguments,
\* or Any. In a conversion a boolean source is 0 or 1 (spec section 8).
Reference(h) ==
  LET t == h.ty
      m(k) == Meaning(vals[h.args[k]].ty, vals[h.args[k]].v)
      srcTy == vals[h.args[1]].ty
      castIn == IF srcTy.kind = "sl" /\ srcTy.w = 1 THEN vals[h.args[1]].v ELSE m(1)
      isF(ty) == ty.kind = "f"
  IN IF \E k \in DOMAIN h.args : IsUndef(m(k)) THEN Any
     ELSE CASE
       h.call = "constantIndex" -> {Wrap(h.par, t)}
       [] h.call = "constant" ->
         {IF t.w = 1 /\ ~isF(t) THEN B2I(h.par # 0) ELSE Wrap(h.par, t)}
       [] h.call \in {"add", "sub", "mul"} ->
         LET x == CASE h.call = "add" -> m(1) + m(2)
                    [] h.call = "sub" -> m(1) - m(2)
                    [] h.call = "mul" -> m(1) * m(2)
         IN {Wrap(x, t)}
       [] h.call \in {"div", "rem"} ->
         IF isF(t) \/ m(2) = 0 THEN Any
         ELSE LET q == Quot(m(1), m(2))
                  x == IF h.call = "div" THEN q ELSE m(1) - m(2) * q
              IN IF Fits(q, t) THEN {Wrap(x, t)} ELSE Any
       [] h.call = "neg" -> {Wrap(-m(1), t)}
       [] h.call = "abs" -> {Wrap(AbsVal(m(1)), t)}
       [] h.call \in {"andi", "ori", "xori"} -> {BitwiseRef(h.call, m(1), m(2), t.w)}
       [] h.call \in {"ceil", "floor"} -> {m(1)}
       [] h.call = "copySign" -> {IF m(2) < 0 THEN -AbsVal(m(1)) ELSE AbsVal(m(1))}
       [] h.call = "inf" ->
         IF isF(t) THEN Any
         ELSE LET ms == {Meaning(t, b) : b \in ArgVals(t)}
                  ext == CHOOSE x \in ms : \A y \in ms : IF h.par = "neg" THEN x <= y ELSE x >= y
              IN {Wrap(ext, t)}
       [] h.call \in {"min", "max"} ->
         {Wrap(IF (h.call = "min") = (m(1) <= m(2)) THEN m(1) ELSE m(2), t)}
       [] h.call \in {"ceilDiv", "floorDiv"} ->
         IF m(2) = 0 THEN Any
         ELSE LET q == IF h.call = "ceilDiv" THEN CeilQ(m(1), m(2)) ELSE FloorQ(m(1), m(2))
              IN IF Fits(q, t) THEN {Wrap(q, t)} ELSE Any
       [] h.call = "fma" -> {Wrap(m(1) * m(2) + m(3), t)}
       [] h.call = "select" -> {Wrap(IF m(1) # 0 THEN m(2) ELSE m(3), t)}
       [] h.call = "cmp" -> {B2I(Holds(h.par, m(1), m(2)))}
       [] h.call = "cast" ->
         LET d == h.par IN
         CASE d.kind = "sl" /\ d.w = 1 -> {B2I(castIn # 0)}
           [] isF(d) -> {castIn}
           [] isF(srcTy) -> IF Fits(castIn, d) THEN {Wrap(castIn, d)} ELSE Any
           [] OTHER -> {Wrap(castIn, d)}
       [] OTHER -> Any

-----------------------------------------------------------------------------
(* Properties.                                                             *)

TypeOK ==
  /\ \A i \in DOMAIN vals :
       /\ vals[i].ty \in Types
       /\ vals[i].v \in IF vals[i].ty.kind = "f" THEN Int ELSE ArgVals(vals[i].ty) \cup {Undef}
       /\ vals[i].args \in Seq(1 .. i - 1)
  /\ aborted \in BOOLEAN
  /\ offsetCall.indices \in Seq(DOMAIN vals)
  /\ offsetCall.offsets \in Seq(DOMAIN vals)
  /\ \A k \in DOMAIN offsetCall.computed : offsetCall.computed[k].ty \in Types

\* Every value the emitted program computes is the one the spec gives the
\* builder call: unsigned add/mul wrap modulo 2^w through the signless
\* emulation, div/rem/compare pick the unsigned or signed instruction by
\* operand kind, and cast follows the conversion matrix (a bool source is
\* 0 or 1, a widening keeps the value, a narrowing wraps, float to int
\* keeps every value that fits the destination).
ValueMatchesReference ==
  \A i \in NumArgs + 1 .. Len(vals) :
    LET ref == Reference(vals[i])
    IN ref = Any \/ vals[i].v \in ref

\* addOffsetToLeastSignificant returns as many indices as it is given, the
\* leading R-K unchanged and offset k added to index R-K+k, each of its
\* index's type (spec 4.2): the offsets line up with the least significant
\* indices, whatever the ranks.
OffsetsToLeastSignificant ==
  LET c == offsetCall
      first == Len(c.indices) - Len(c.offsets)
      idx(i) == vals[c.indices[i]]
      off(i) == vals[c.offsets[i - first]]
      want(i) ==
        IF i <= first THEN idx(i).v
        ELSE IF IsUndef(idx(i).v) \/ IsUndef(off(i).v) THEN Undef
        ELSE Wrap(Meaning(off(i).ty, off(i).v) + Meaning(idx(i).ty, idx(i).v), idx(i).ty)
  IN /\ Len(c.computed) = Len(c.indices)
     /\ \A i \in DOMAIN c.computed : c.computed[i] = [ty |-> idx(i).ty, v |-> want(i)]

\* cast(destType, v) returns a value of type destType.
CastYieldsDestType ==
  \A i \in NumArgs + 1 .. Len(vals) :
    vals[i].call = "cast" => vals[i].ty = vals[i].par

\* No call between two integer or float types (scalars or vectors alike)
\* ends in llvm_unreachable or a failed assert.
NoAbort == ~aborted

\* Every arith/math operation the builders emit has signless operands and
\* results: unsigned values only go through unrealized conversion casts
\* (the arith dialect requires signless integers, as the comment above
\* castToSignless says).
ArithOnlySignless ==
  \A k \in DOMAIN emitted :
    emitted[k].name \notin {"unrealized_conversion_cast", "vector.splat"} =>
      \A t \in {emitted[k].out} \cup {emitted[k].ins[j] : j \in DOMAIN emitted[k].ins} :
        t.kind # "ui"
====
