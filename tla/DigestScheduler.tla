--------------------------- MODULE DigestScheduler --------------------------
(***************************************************************************)
(* The schedule_due_digests scans.  Celery beat starts one every minute;   *)
(* when the workers are busy (a digest task sleeps in its worker until its *)
(* minute) several scans that piled up in the broker run at once.          *)
(*                                                                         *)
(* A scan reads the running digest subscriptions with their                *)
(* last_digest_scheduled_at, visits one after the other, sends a           *)
(* deliver_digest message for each that is due, and commits all new        *)
(* last_digest_scheduled_at together at its end.  The messages are out     *)
(* before the commit and stay out when there is none.                      *)
(*                                                                         *)
(* The occurrences of a subscription's cron expression are its slots 1, 2, *)
(* ...; slot 0 is created_at.  Slot k is the minute k * Period.  The scan   *)
(* asks two libraries: Celery's crontab whether an occurrence has passed,  *)
(* croniter which one comes next.  Where an expression restricts the day   *)
(* of the month and the day of the week, croniter's occurrences match one  *)
(* of the two and Celery's match both: the slots are croniter's and the    *)
(* Firings among them Celery's.                                            *)
(***************************************************************************)
EXTENDS Naturals

CONSTANTS
    Subs,          \* the digest subscriptions with a cron expression
    Broken,        \* those whose row makes the libraries raise no ValueError
                   \* but something else (a date no year has, an empty
                   \* part in a list)
    Scans,         \* scans that can be in progress at the same time
    Period,        \* minutes between two slots
    Firings,       \* the slots at which Celery's crontab fires
    Lead,          \* digest_lead_time_minutes
    MaxTime,       \* bound: the clock stops here
    MaxAborts,     \* bound: how many scans the environment aborts
    MaxSends       \* bound: messages counted per slot, "that many or more"

ASSUME SchedulerAssumption ==
    /\ Broken \subseteq Subs
    /\ Period \in Nat \ {0}
    /\ Firings \subseteq Nat \ {0}
    /\ Lead \in Nat
    /\ MaxTime \in Nat
    /\ MaxAborts \in Nat
    /\ MaxSends \in Nat \ {0}

VARIABLES
    clock,         \* the current minute
    running,       \* the active subscriptions that are not paused
    lastSlot,      \* last_digest_scheduled_at of each subscription
    sent,          \* history: how many messages went out for each slot
    todo,          \* the rows each scan still has to visit
    row,           \* last_digest_scheduled_at as the scan has read it
    queued,        \* the rows it has changed and not yet committed
    now,           \* current_time: the minute the scan began
    scanning,      \* the scans in progress
    aborts,        \* how many scans the environment has aborted
    wasted,        \* history: messages per slot sent by aborted scans
    overlapped     \* history: two scans were in progress at the same time

scanVars == <<todo, row, queued, now, scanning>>
historyVars == <<aborts, wasted, overlapped>>
vars == <<clock, running, lastSlot, sent, scanVars, historyVars>>

Slots == 1..(MaxTime + Lead)

Init ==
    /\ clock = 0
    /\ running = Subs
    /\ lastSlot = [u \in Subs |-> 0]
    /\ sent = [u \in Subs |-> [k \in Slots |-> 0]]
    /\ todo = [s \in Scans |-> {}]
    /\ row = [s \in Scans |-> [u \in Subs |-> 0]]
    /\ queued = [s \in Scans |-> {}]
    /\ now = [s \in Scans |-> 0]
    /\ scanning = {}
    /\ aborts = 0
    /\ wasted = [u \in Subs |-> [k \in Slots |-> 0]]
    /\ overlapped = FALSE

Tick ==
    /\ clock < MaxTime
    /\ clock' = clock + 1
    /\ UNCHANGED <<running, lastSlot, sent, scanVars, historyVars>>

\* The user stops (or deletes) a subscription, or resumes it.
Toggle(u) ==
    /\ running' = IF u \in running THEN running \ {u} ELSE running \cup {u}
    /\ UNCHANGED <<clock, lastSlot, sent, scanVars, historyVars>>

\* A scan starts: it selects the rows of the running subscriptions.
Load(s) ==
    /\ s \notin scanning
    /\ scanning' = scanning \cup {s}
    /\ now' = [now EXCEPT ![s] = clock]
    /\ todo' = [todo EXCEPT ![s] = running]
    /\ row' = [row EXCEPT ![s] = [u \in Subs |-> IF u \in running THEN lastSlot[u] ELSE 0]]
    /\ queued' = [queued EXCEPT ![s] = {}]
    /\ overlapped' = (overlapped \/ scanning # {})
    /\ UNCHANGED <<clock, running, lastSlot, sent, aborts, wasted>>

Count(n) == IF n < MaxSends THEN n + 1 ELSE n

Reached(k, minute) == k * Period <= minute + Lead

\* is_schedule_due: Celery's crontab has fired since the row's last slot.
IsScheduleDue(s, u) == \E k \in Firings : k > row[s][u] /\ Reached(k, now[s])

\* next_cron_match: croniter's first occurrence after the row's last slot.
NextCronMatch(s, u) == row[s][u] + 1

\* The row is due: the message for its next slot goes out.
Send(s, u) ==
    LET k == NextCronMatch(s, u) IN
    /\ u \in todo[s] \ Broken
    /\ IsScheduleDue(s, u)
    /\ sent' = [sent EXCEPT ![u][k] = Count(@)]
    /\ todo' = [todo EXCEPT ![s] = @ \ {u}]
    /\ queued' = [queued EXCEPT ![s] = @ \cup {u}]
    /\ UNCHANGED <<clock, running, lastSlot, row, now, scanning, historyVars>>

\* Not due, or its cron expression is a ValueError: the row is passed over.
PassOver(s, u) ==
    /\ u \in todo[s] \ Broken
    /\ ~IsScheduleDue(s, u)
    /\ todo' = [todo EXCEPT ![s] = @ \ {u}]
    /\ UNCHANGED <<clock, running, lastSlot, sent, row, queued, now, scanning, historyVars>>

\* Seeded fault: a task session that outlives its scan.
EndScanKeepsRows(s) ==
    /\ scanning' = scanning \ {s}
    /\ todo' = [todo EXCEPT ![s] = {}]
    /\ now' = [now EXCEPT ![s] = 0]
    /\ UNCHANGED <<row, queued>>

\* The scan is over and its session closed.
EndScan(s) ==
    /\ scanning' = scanning \ {s}
    /\ todo' = [todo EXCEPT ![s] = {}]
    /\ row' = [row EXCEPT ![s] = [u \in Subs |-> 0]]
    /\ queued' = [queued EXCEPT ![s] = {}]
    /\ now' = [now EXCEPT ![s] = 0]

\* Seeded fault: the rows are stamped with the minute the scan looked at.
CommitEffectiveNow(s) ==
    /\ s \in scanning
    /\ todo[s] = {}
    /\ lastSlot' = [u \in Subs |-> IF u \in queued[s] THEN (now[s] + Lead) \div Period
                                                      ELSE lastSlot[u]]
    /\ EndScan(s)
    /\ UNCHANGED <<clock, running, sent, historyVars>>

\* Seeded fault: session.commit() is missing.
CommitMissing(s) ==
    /\ s \in scanning
    /\ todo[s] = {}
    /\ EndScan(s)
    /\ UNCHANGED <<clock, running, lastSlot, sent, historyVars>>

\* All rows are visited: the new last_digest_scheduled_at are committed.
\* The UPDATE writes what the scan computed, whatever the row says by now.
Commit(s) ==
    /\ s \in scanning
    /\ todo[s] = {}
    /\ lastSlot' = [u \in Subs |-> IF u \in queued[s] THEN NextCronMatch(s, u)
                                                      ELSE lastSlot[u]]
    /\ EndScan(s)
    /\ UNCHANGED <<clock, running, sent, historyVars>>

\* The scan ends without a commit: what it has sent stays sent, and nothing
\* of it is on record.
Drop(s) ==
    /\ wasted' = [u \in Subs |-> [k \in Slots |->
                    IF u \in queued[s] /\ k = NextCronMatch(s, u) THEN Count(wasted[u][k])
                                                                   ELSE wasted[u][k]]]
    /\ EndScan(s)
    /\ UNCHANGED <<clock, running, lastSlot, sent, overlapped>>

\* The broker refuses a message, the commit fails or the worker dies.
Abort(s) ==
    /\ s \in scanning
    /\ aborts < MaxAborts
    /\ aborts' = aborts + 1
    /\ Drop(s)

\* The scan comes to a broken row: the exception is not a ValueError, or it
\* is raised by next_cron_match outside the try, and ends the scan.
CronError(s, u) ==
    /\ u \in todo[s] \cap Broken
    /\ Drop(s)
    /\ UNCHANGED aborts

ScanStep(s) ==
    \/ Load(s)
    \/ \E u \in Subs : Send(s, u) \/ PassOver(s, u) \/ CronError(s, u)
    \/ Commit(s)

Next ==
    \/ Tick
    \/ \E u \in Subs : Toggle(u)
    \/ \E s \in Scans : ScanStep(s) \/ Abort(s)

Spec == Init /\ [][Next]_vars

\* Beat starts a scan every minute and a scan goes on until it ends.
FairSpec == Spec /\ WF_vars(Tick) /\ \A s \in Scans : WF_vars(ScanStep(s))

-----------------------------------------------------------------------------
(* Properties.                                                             *)

TypeOK ==
    /\ clock \in 0..MaxTime
    /\ running \subseteq Subs
    /\ lastSlot \in [Subs -> Nat]
    /\ sent \in [Subs -> [Slots -> Nat]]
    /\ todo \in [Scans -> SUBSET Subs]
    /\ row \in [Scans -> [Subs -> Nat]]
    /\ queued \in [Scans -> SUBSET Subs]
    /\ now \in [Scans -> 0..MaxTime]
    /\ scanning \subseteq Scans
    /\ aborts \in 0..MaxAborts
    /\ wasted \in [Subs -> [Slots -> Nat]]
    /\ overlapped \in BOOLEAN
    /\ \A s \in Scans \ scanning : todo[s] = {} /\ queued[s] = {}

\* A digest may be enqueued twice and never not at all: every slot up to the
\* recorded one has had its message, across aborted and overlapping scans and
\* through stops and resumes.
NoSlotSkipped ==
    \A u \in Subs : \A k \in 1..lastSlot[u] : k \in Slots /\ sent[u][k] > 0

\* What a scan has read, and what it has sent but not yet committed, is of
\* that kind too, whatever other scans have committed meanwhile.
RowsSent ==
    \A s \in Scans, u \in Subs :
        /\ \A k \in 1..row[s][u] : k \in Slots /\ sent[u][k] > 0
        /\ u \in queued[s] =>
              /\ NextCronMatch(s, u) \in Slots
              /\ sent[u][NextCronMatch(s, u)] > 0

\* The inductive invariant behind NoSlotSkipped.
SchedulerInv == TypeOK /\ NoSlotSkipped /\ RowsSent

\* A slot's second message has a reason: a scan that had sent the first was
\* aborted, or two scans were in progress at once.
RepeatHasReason ==
    \A u \in Subs, k \in Slots : sent[u][k] <= 1 + wasted[u][k] \/ overlapped

\* Where scans never overlapped, there is one at a time, and the rows it is to
\* visit or to commit are as they are on record.
RowsCurrent ==
    /\ \A r, s \in scanning : r = s
    /\ \A s \in Scans : todo[s] \cap queued[s] = {}
    /\ \A s \in Scans : \A u \in todo[s] \cup queued[s] : row[s][u] = lastSlot[u]

\* The slot's message is on record, or is to be put there by the scan's commit.
Accounted(u, k) ==
    k <= lastSlot[u] \/ \E s \in Scans : u \in queued[s] /\ k = NextCronMatch(s, u)

\* A slot has one message that is accounted for, and beyond it only messages of
\* scans that ended without their commit.
SentCounted ==
    \A u \in Subs, k \in Slots :
        /\ sent[u][k] <= MaxSends
        /\ overlapped \/ sent[u][k] <= wasted[u][k] + IF Accounted(u, k) THEN 1 ELSE 0

\* The inductive invariant behind RepeatHasReason.
RepeatInv == SchedulerInv /\ (overlapped \/ RowsCurrent) /\ SentCounted

\* The schedule is kept: a subscription that is running from some time on,
\* while no broken row is, gets the message of every firing the clock
\* reaches, those it slept through included.
EverySlotSent ==
    \A u \in Subs : <>[](u \in running /\ running \cap Broken = {}) =>
        \A k \in Slots \cap Firings : [](Reached(k, clock) => <>(sent[u][k] > 0))

\* What the test of the scan says of a row that cannot be evaluated: it is
\* counted and passed over, the others get their messages all the same.
BrokenRowIsPassedOver ==
    \A u \in Subs \ Broken : <>[](u \in running) =>
        \A k \in Slots \cap Firings : [](Reached(k, clock) => <>(sent[u][k] > 0))

=============================================================================
