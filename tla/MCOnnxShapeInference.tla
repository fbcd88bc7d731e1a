------------------------ MODULE MCOnnxShapeInference ------------------------
(* Instances of OnnxShapeInference: argument types and which programs are  *)
(* analysed.  Extents are 1 and 2, Dyn is -1.                               *)
EXTENDS OnnxShapeInference

F32 == "f32"
I64 == "i64"

\* Matrices (static, mixed and unranked) and static rank-one shape tensors.
MCMatrixArgs ==
  { Unranked(F32), Ranked(<< 2, Dyn >>, F32), Ranked(<< 1, 2 >>, F32),
    Ranked(<< 2 >>, I64), Ranked(<< 1 >>, I64) }

\* A vector among the matrices.
MCVectorArgs == { Ranked(<< 2, 1 >>, F32), Ranked(<< 2 >>, F32) }

\* Reshape inputs, all ranked so that both casts to RankedTensorType hold:
\* data, a good shape tensor, and shape tensors of dynamic extent and of
\* rank two.
MCReshapeArgs ==
  { Ranked(<< 2, 1 >>, F32), Ranked(<< 2 >>, I64), Ranked(<< Dyn >>, I64), Ranked(<< 1, 2 >>, I64) }

\* Programs inside the shape contract, less Reshape of data of unknown
\* rank, which casts an unranked type to RankedTensorType (an assert or
\* undefined behaviour, not a contract question).
MCWellFormed(p, a) ==
  LET sh == [v \in DOMAIN a |-> ShapeView(a[v])]
  IN /\ Contract!WellFormed(p, sh)
     /\ \A i \in DOMAIN p :
          p[i].kind = "Reshape" => Contract!RefShape(p, sh, p[i].opnd[1]).known

\* Reshape(data, shape) with the data first.
MCReshapeDataShape(p, a) == \A i \in DOMAIN p : p[i].opnd = << 1, 2 >>

\* Every program.
MCAnyProgram(p, a) == TRUE

=============================================================================
