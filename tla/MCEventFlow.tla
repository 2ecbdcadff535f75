---------------------------- MODULE MCEventFlow -----------------------------
(* One URL in the feeds of two sources, two overlapping polls, and two     *)
(* batch tasks that wait for their messages.                               *)
EXTENDS EventFlow, TLC

Symmetry == Permutations(Sources) \cup Permutations(Polls) \cup Permutations(Tasks)

=============================================================================
