-------------------------- MODULE MCDigestPipeline --------------------------
(* Two sources, one with three items, the other with one.                  *)
EXTENDS DigestPipeline, TLC

CONSTANTS s1, s2, i1, i2, i3, i4

MCSourceOf == i1 :> s1 @@ i2 :> s1 @@ i3 :> s1 @@ i4 :> s2

Symmetry == Permutations({i1, i2, i3})

=============================================================================
