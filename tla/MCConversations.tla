--------------------------- MODULE MCConversations ---------------------------
(* Small instance of Conversations: requests and confirmations are alike.   *)
EXTENDS Conversations, TLC

CONSTANTS t1, t2

Symmetry == Permutations(Callers) \cup Permutations(Nonces)
=============================================================================
