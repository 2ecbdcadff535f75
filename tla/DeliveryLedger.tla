--------------------------- MODULE DeliveryLedger ---------------------------
(***************************************************************************)
(* What the delivery tasks promise about one subscription's sent_items     *)
(* table and the frontend webhook, with the tasks, transactions and locks  *)
(* left out.                                                               *)
(*                                                                         *)
(* The service POSTs first and records the items as sent afterwards, so a  *)
(* delivery is for a while neither unsent nor recorded: it is open.  An    *)
(* open delivery is either recorded or forgotten (rollback, crash).  The   *)
(* promise is that an item whose delivery is open or recorded is not       *)
(* POSTed again, so a reader sees an item twice only when an earlier       *)
(* delivery of it was forgotten.                                           *)
(***************************************************************************)
EXTENDS Naturals

CONSTANT Items          \* the news items of the subscription's sources

VARIABLES
    state,              \* [Items -> {"unsent", "open", "recorded"}]
    received,           \* how often the frontend accepted the item
    forgotten           \* how often an accepted delivery was not recorded

ledgerVars == <<state, received, forgotten>>

Init ==
    /\ state = [i \in Items |-> "unsent"]
    /\ received = [i \in Items |-> 0]
    /\ forgotten = [i \in Items |-> 0]

In(S, i) == IF i \in S THEN 1 ELSE 0

\* A POST of the items S is accepted: each of them was unsent.
Open(S) ==
    /\ \A i \in S : state[i] = "unsent"
    /\ state' = [i \in Items |-> IF i \in S THEN "open" ELSE state[i]]
    /\ received' = [i \in Items |-> received[i] + In(S, i)]
    /\ UNCHANGED forgotten

\* The open delivery of S is recorded for good.
Record(S) ==
    /\ \A i \in S : state[i] = "open"
    /\ state' = [i \in Items |-> IF i \in S THEN "recorded" ELSE state[i]]
    /\ UNCHANGED <<received, forgotten>>

\* The open delivery of S leaves no trace: its items may be sent again.
Forget(S) ==
    /\ \A i \in S : state[i] = "open"
    /\ state' = [i \in Items |-> IF i \in S THEN "unsent" ELSE state[i]]
    /\ forgotten' = [i \in Items |-> forgotten[i] + In(S, i)]
    /\ UNCHANGED received

\* The frontend accepts the POST of S and the service learns of a failure.
OpenAndForget(S) ==
    /\ \A i \in S : state[i] = "unsent"
    /\ received' = [i \in Items |-> received[i] + In(S, i)]
    /\ forgotten' = [i \in Items |-> forgotten[i] + In(S, i)]
    /\ UNCHANGED state

Next ==
    \E S \in SUBSET Items : Open(S) \/ Record(S) \/ Forget(S) \/ OpenAndForget(S)

Spec == Init /\ [][Next]_ledgerVars

=============================================================================
