-------------------------- MODULE MCDigestDelivery --------------------------
(* Two items, two overlapping tasks, four moments.                         *)
EXTENDS DigestDelivery, TLC

Symmetry == Permutations(Items) \cup Permutations(Tasks)

=============================================================================
