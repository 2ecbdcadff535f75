------------------------------ MODULE RateLimit ------------------------------
(***************************************************************************)
(* check_rate_limit: a counter in Redis for one user and one scope.        *)
(*                                                                         *)
(* A check is up to three commands to Redis, one after the other: INCR,    *)
(* EXPIRE if the answer was 1, TTL if the answer was over the limit.  An   *)
(* error of any of them lets the caller pass; a process may die between    *)
(* two of them.  Other callers' commands come in between.                  *)
(***************************************************************************)
EXTENDS Naturals, FiniteSets

CONSTANTS
    Callers,       \* requests of the user that may be checked at once
    Limit,         \* so many pass in a window
    MaxHits        \* bound on the counter

ASSUME LimitAssumption ==
    /\ Limit \in Nat \ {0}
    /\ MaxHits \in Nat
    /\ IsFiniteSet(Callers)

VARIABLES
    value,         \* the counter; 0: there is no key
    expires,       \* the key has an expiry
    command,       \* the command each caller sends next
    seen,          \* what INCR has answered it
    lost           \* history: an EXPIRE was never executed

limitVars == <<value, expires, command, seen, lost>>

LimitInit ==
    /\ value = 0 /\ expires = FALSE
    /\ command = [c \in Callers |-> "none"]
    /\ seen = [c \in Callers |-> 0]
    /\ lost = FALSE

\* Seeded fault: the counter is compared with 0.
FirstHitMissed(n) == n = 0

\* new_value == 1, new_value > limit
FirstHit(n) == n = 1
Over(n) == n > Limit

\* INCR.  A new key has no expiry.
Hit(c) ==
    /\ command[c] = "none"
    /\ value < MaxHits
    /\ value' = value + 1
    /\ seen' = [seen EXCEPT ![c] = value + 1]
    /\ command' = [command EXCEPT ![c] = IF FirstHit(value + 1) THEN "expire" ELSE "compare"]
    /\ UNCHANGED <<expires, lost>>

\* EXPIRE.
SetExpiry(c) ==
    /\ command[c] = "expire"
    /\ expires' = TRUE
    /\ command' = [command EXCEPT ![c] = "compare"]
    /\ UNCHANGED <<value, seen, lost>>

\* The check is over; what the caller has seen is forgotten.
Leave(c) ==
    /\ command' = [command EXCEPT ![c] = "none"]
    /\ seen' = [seen EXCEPT ![c] = 0]

\* The limit is not exceeded.
Pass(c) ==
    /\ command[c] = "compare"
    /\ ~Over(seen[c])
    /\ Leave(c)
    /\ UNCHANGED <<value, expires, lost>>

\* RateLimitExceeded.
Refuse(c) ==
    /\ command[c] = "compare"
    /\ Over(seen[c])
    /\ Leave(c)
    /\ UNCHANGED <<value, expires, lost>>

\* A command fails, or its answer is lost after Redis has executed it: the
\* caller passes.  (An INCR that was not executed changes nothing.)
PassOnError(c) ==
    /\ \/ /\ command[c] = "none" /\ value < MaxHits
          /\ \/ UNCHANGED <<value, lost>>
             \/ /\ value' = value + 1
                /\ lost' = (lost \/ FirstHit(value + 1))
          /\ UNCHANGED expires
       \/ /\ command[c] = "expire"
          /\ \/ lost' = TRUE /\ UNCHANGED expires
             \/ expires' = TRUE /\ UNCHANGED lost
          /\ UNCHANGED value
       \/ command[c] = "compare" /\ Over(seen[c]) /\ UNCHANGED <<value, expires, lost>>
    /\ Leave(c)

\* The process dies in the check.
Die(c) ==
    /\ command[c] # "none"
    /\ lost' = (lost \/ command[c] = "expire")
    /\ Leave(c)
    /\ UNCHANGED <<value, expires>>

\* The window is over: Redis drops the key.
WindowEnds ==
    /\ expires
    /\ value' = 0 /\ expires' = FALSE
    /\ UNCHANGED <<command, seen, lost>>

LimitStep(c) == Hit(c) \/ SetExpiry(c) \/ Pass(c) \/ Refuse(c) \/ PassOnError(c) \/ Die(c)
LimitNext == WindowEnds \/ \E c \in Callers : LimitStep(c)

LimitSpec == LimitInit /\ [][LimitNext]_limitVars

----------------------------------------------------------------------------
LimitTypeOK ==
    /\ value \in 0..MaxHits /\ expires \in BOOLEAN
    /\ command \in [Callers -> {"none", "expire", "compare"}]
    /\ seen \in [Callers -> 0..MaxHits]
    /\ lost \in BOOLEAN

\* The counter expires, unless an EXPIRE was lost with an error or a process:
\* between INCR and EXPIRE a caller is on its way to set it, whoever else
\* hits the counter or sees its window end meanwhile.
CounterExpires ==
    value > 0 => expires \/ lost \/ \E c \in Callers : command[c] = "expire"

=============================================================================
