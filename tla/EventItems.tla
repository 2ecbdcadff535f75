----------------------------- MODULE EventItems -----------------------------
(* What the specifications of an event item's way have in common.          *)
EXTENDS Naturals

CONSTANTS
    Items,         \* the news items, or the URLs in the feeds that become one
    NoItem,        \* not an item
    MaxAttempts    \* provider_failure_retry_max_attempts

ASSUME ItemAssumption ==
    /\ NoItem \notin Items
    /\ MaxAttempts \in Nat

=============================================================================
