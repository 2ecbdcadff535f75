---------------------------- MODULE MCSourcePool ----------------------------
(* Two subscriptions of one user and one of another, two sources, and two  *)
(* operations at a time.                                                   *)
EXTENDS SourcePool, TLC

CONSTANTS a, b, s1, s2, s3

MCOwner == s1 :> a @@ s2 :> a @@ s3 :> b

Symmetry == Permutations(Workers) \cup Permutations(Sources) \cup Permutations({s1, s2})

=============================================================================
