------------------------- MODULE MCTelegramFrontend -------------------------
(* Two users with a group in common, one of them also in a private chat;   *)
(* two updates in work, two accounts, one delivery of two parts.         *)
EXTENDS TelegramFrontend, TLC

CONSTANTS alice, bob, private, group

MCUsers == {alice, bob}
MCChats == {private, group}
MCChatsOf == (alice :> {private, group}) @@ (bob :> {group})

Symmetry == Permutations(Accounts) \cup Permutations(Handlers) \cup Permutations(Deliveries)

=============================================================================
