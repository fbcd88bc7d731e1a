--------------------------- MODULE MCMemRefReshape ---------------------------
(* Instances of MemRefReshape: which subviews callers take.                 *)
EXTENDS MemRefReshape

\* Subviews that keep the identity layout: zero offsets, only the outermost
\* extent shrunk.
MCIdentitySubView(v, offsets, sizes) ==
  \A d \in DOMAIN sizes : offsets[d] = 0 /\ (d > 1 => sizes[d] = v.sizes[d])

=============================================================================
