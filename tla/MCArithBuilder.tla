--------------------------- MODULE MCArithBuilder ---------------------------
(* Model-checking instance of ArithBuilder.  Widths 1, 2, 3 stand for i1,  *)
(* i8/i16/i32 and i64 (index is 64-bit); float widths 2, 3 for f32, f64.   *)
EXTENDS ArithBuilder

MCIntWidths == {1, 2, 3}
MCUIntWidths == {2, 3}
MCFloatWidths == {2, 3}
\* -2 and 3 do not fit a 2-bit signed integer, 3 fits a 2-bit unsigned one.
MCFloatVals == {-2, 0, 3}
MCConstVals == {-1, 0, 2}
\* abs on every kind but unsigned (math.absi on an unsigned value is invalid
\* IR, the arith_signless_ops finding), and on every kind.
MCAbsKindsNoUnsigned == {"sl", "idx", "f"}
MCAbsKindsAll == {"sl", "ui", "idx", "f"}
=============================================================================
