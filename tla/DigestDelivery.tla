--------------------------- MODULE DigestDelivery ---------------------------
(***************************************************************************)
(* The deliver_digest Celery tasks of one digest subscription, the         *)
(* sent_items rows they write and the polls that bring in news items.      *)
(*                                                                         *)
(* A task loads the subscription, reads which items were sent, fetches the *)
(* candidates, lets the writer pick some of them, inserts a sent_items row *)
(* per picked item (not yet committed), holds the digest until the         *)
(* scheduled minute, POSTs it to the frontend and commits.  Tasks overlap: *)
(* the scheduler may enqueue a slot twice, the user may ask for a digest   *)
(* now, and a task that hit a provider limit comes back half an hour later.*)
(*                                                                         *)
(* Postgres is modelled by what the unique index uq_sent_item does to      *)
(* concurrent inserts: an insert of a pair that another open transaction   *)
(* has inserted waits for it; it fails if that transaction commits and     *)
(* goes on if it rolls back; a cycle of waits is broken by aborting one.   *)
(***************************************************************************)
EXTENDS Naturals

CONSTANTS
    Items,         \* the news items the subscription's sources will publish
    Tasks,         \* the deliver_digest messages ever sent to the broker
    NoTask,        \* not a task: nobody holds the row
    MaxTime,       \* bound: the clock stops here
    Minutes,       \* the values of scheduled_for: 0 is none, "deliver now"
    MaxAge,        \* news_item_max_age_days, in clock units
    MaxAttempts    \* provider_failure_retry_max_attempts

ASSUME DigestAssumption ==
    /\ NoTask \notin Tasks
    /\ MaxTime \in Nat
    /\ Minutes \subseteq 0..MaxTime
    /\ MaxAge \in Nat
    /\ MaxAttempts \in Nat

VARIABLES
    clock,         \* wall clock, starts at 1 (0 stands for "never")
    status,        \* the subscription: one of Statuses
    published,     \* NewsItem.published_at (fetched_at where it is NULL)
    fetched,       \* NewsItem.fetched_at, 0 while no poll has seen the item
    stored,        \* the items whose NewsItem row is committed
    sentAt,        \* committed SentItem.sent_at, 0 where there is no row
    holder,        \* the open transaction that inserted the item's row
    pc,            \* where each task is
    attempts,      \* the task's Celery retry counter
    due,           \* scheduled_for of the task, 0 for "deliver now"
    seen,          \* the sent rows the task read when it started
    cand,          \* the candidates it fetched
    used,          \* the items its digest uses
    stamp,         \* the sent_at of the rows it inserts
    received,      \* history: how often the frontend accepted the item
    forgotten,     \* history: how often an accepted POST was not recorded
    missed,        \* history: items whose poll overlapped the task's writing
    offered,       \* history: items a recorded digest's writer could pick
    raced          \* history: items a recorded digest's task had missed

dbVars == <<sentAt, holder>>
feedVars == <<published, fetched, stored>>
taskVars == <<attempts, due, seen, cand, used, stamp>>
frontVars == <<received, forgotten>>
windowVars == <<offered, raced>>
vars == <<clock, status, feedVars, dbVars, pc, taskVars, frontVars, missed, windowVars>>

Time == 0..MaxTime

\* Phases of a task that end it.  "failed" is the dead-letter table,
\* "lost" a message whose worker died: Celery acknowledges it on receipt.
Ended == {"done", "failed", "lost"}

\* Phases in which the task's transaction is open.
Working == {"reading", "writing", "marking", "holding", "posted", "empty"}

Phases == {"absent", "queued"} \cup Working \cup Ended

\* "stopped": paused_at is set, or delivery_mode is no longer "digest".
Statuses == {"running", "stopped", "deleted"}

Init ==
    /\ clock = 1
    /\ status = "running"
    /\ published = [i \in Items |-> 0]
    /\ fetched = [i \in Items |-> 0]
    /\ stored = {}
    /\ sentAt = [i \in Items |-> 0]
    /\ holder = [i \in Items |-> NoTask]
    /\ pc = [t \in Tasks |-> "absent"]
    /\ attempts = [t \in Tasks |-> 0]
    /\ due = [t \in Tasks |-> 0]
    /\ seen = [t \in Tasks |-> {}]
    /\ cand = [t \in Tasks |-> {}]
    /\ used = [t \in Tasks |-> {}]
    /\ stamp = [t \in Tasks |-> 0]
    /\ received = [i \in Items |-> 0]
    /\ forgotten = [i \in Items |-> 0]
    /\ missed = [t \in Tasks |-> {}]
    /\ offered = {}
    /\ raced = {}

-----------------------------------------------------------------------------
(* The environment: time, the user's stop / resume / delete / change of    *)
(* delivery mode, and the polls.                                           *)

Tick ==
    /\ clock < MaxTime
    /\ clock' = clock + 1
    /\ UNCHANGED <<status, feedVars, dbVars, pc, taskVars, frontVars, missed, windowVars>>

\* Delete is final; the others can be undone.
SetStatus(s) ==
    /\ status # "deleted"
    /\ status # s
    /\ status' = s
    /\ UNCHANGED <<clock, feedVars, dbVars, pc, taskVars, frontVars, missed, windowVars>>

\* A poll has fetched the feed: fetched_at is set here, long before commit.
PollFetch(i, p) ==
    /\ fetched[i] = 0
    /\ p + MaxAge >= clock
    /\ p <= clock
    /\ fetched' = [fetched EXCEPT ![i] = clock]
    /\ published' = [published EXCEPT ![i] = p]
    /\ missed' = [t \in Tasks |->
                    missed[t] \cup IF pc[t] = "writing" THEN {i} ELSE {}]
    /\ UNCHANGED <<clock, status, stored, dbVars, pc, taskVars, frontVars, windowVars>>

\* ... and after embedding and upserting the posts it commits.
PollCommit(i) ==
    /\ fetched[i] # 0
    /\ i \notin stored
    /\ stored' = stored \cup {i}
    /\ UNCHANGED <<clock, status, published, fetched, dbVars, pc, taskVars, frontVars,
                   missed, windowVars>>

\* Timeout, provider limit or crash: the poll's transaction is rolled back.
PollRollback(i) ==
    /\ fetched[i] # 0
    /\ i \notin stored
    /\ fetched' = [fetched EXCEPT ![i] = 0]
    /\ published' = [published EXCEPT ![i] = 0]
    /\ missed' = [t \in Tasks |-> missed[t] \ {i}]
    /\ UNCHANGED <<clock, status, stored, dbVars, pc, taskVars, frontVars, windowVars>>

-----------------------------------------------------------------------------
(* The task.                                                               *)

Sent == {i \in Items : sentAt[i] # 0}

Mine(t) == {i \in Items : holder[i] = t}

\* One more for each item of S.
Bump(count, S) == [i \in Items |-> count[i] + IF i \in S THEN 1 ELSE 0]

\* Seeded fault: a retry that does not count.
LeaveUncounted(t, p) ==
    /\ pc' = [pc EXCEPT ![t] = p]
    /\ holder' = [i \in Items |-> IF holder[i] = t THEN NoTask ELSE holder[i]]
    /\ seen' = [seen EXCEPT ![t] = {}]
    /\ cand' = [cand EXCEPT ![t] = {}]
    /\ used' = [used EXCEPT ![t] = {}]
    /\ stamp' = [stamp EXCEPT ![t] = 0]
    /\ missed' = [missed EXCEPT ![t] = {}]
    /\ UNCHANGED <<clock, status, feedVars, attempts, due>>

\* The session is closed and the task is in phase p: the rows it inserted
\* are free and what it had read is gone.  Back in the queue counts as a
\* retry; an ended task's message is gone too.
Leave(t, p) ==
    /\ pc' = [pc EXCEPT ![t] = p]
    /\ holder' = [i \in Items |-> IF holder[i] = t THEN NoTask ELSE holder[i]]
    /\ seen' = [seen EXCEPT ![t] = {}]
    /\ cand' = [cand EXCEPT ![t] = {}]
    /\ used' = [used EXCEPT ![t] = {}]
    /\ stamp' = [stamp EXCEPT ![t] = 0]
    /\ missed' = [missed EXCEPT ![t] = {}]
    /\ attempts' = [attempts EXCEPT ![t] = IF p = "queued" THEN @ + 1
                                           ELSE IF p \in Ended THEN 0 ELSE @]
    /\ due' = [due EXCEPT ![t] = IF p \in Ended THEN 0 ELSE @]
    /\ UNCHANGED <<clock, status, feedVars>>

\* ... without a commit, which leaves an accepted POST unrecorded.
Rollback(t, p) ==
    /\ Leave(t, p)
    /\ forgotten' = IF pc[t] = "posted" THEN Bump(forgotten, used[t]) ELSE forgotten
    /\ UNCHANGED <<sentAt, windowVars>>

\* schedule_due_digests (d is the scheduled minute) or trigger_digest_now
\* (d = 0) sends the message.
Enqueue(t, d) ==
    /\ pc[t] = "absent"
    /\ pc' = [pc EXCEPT ![t] = "queued"]
    /\ due' = [due EXCEPT ![t] = d]
    /\ UNCHANGED <<clock, status, feedVars, dbVars, attempts, seen, cand, used, stamp,
                   frontVars, missed, windowVars>>

\* A worker loads the subscription; the only look at its status.  Then
\* generate_digest reads the sent rows.
Start(t) ==
    /\ pc[t] = "queued"
    /\ status = "running"
    /\ pc' = [pc EXCEPT ![t] = "reading"]
    /\ seen' = [seen EXCEPT ![t] = Sent]
    /\ UNCHANGED <<clock, status, feedVars, dbVars, attempts, due, cand, used, stamp,
                   frontVars, missed, windowVars>>

\* Deleted, stopped, or switched to events: the task ends at once.
Skip(t) ==
    /\ pc[t] = "queued"
    /\ status # "running"
    /\ Rollback(t, "done")
    /\ UNCHANGED received

\* Seeded fault: the cut-off before the late-fetch fix, on published_at alone.
QualifiesByPublication(i, rows) ==
    IF rows = {} THEN published[i] + MaxAge >= clock
                 ELSE \A j \in rows : published[i] >= sentAt[j]

\* The cut-off: the last sent_at among the rows the task has seen, or the
\* maximal age before the first digest.
Qualifies(i, rows) ==
    IF rows = {} THEN published[i] + MaxAge >= clock
                 ELSE \/ \A j \in rows : published[i] >= sentAt[j]
                      \/ \A j \in rows : fetched[i] >= sentAt[j]

Candidates(rows) == {i \in stored \ rows : Qualifies(i, rows)}

FetchCandidates(t) ==
    /\ pc[t] = "reading"
    /\ Candidates(seen[t]) # {}
    /\ pc' = [pc EXCEPT ![t] = "writing"]
    /\ cand' = [cand EXCEPT ![t] = Candidates(seen[t])]
    /\ missed' = [missed EXCEPT ![t] = {i \in Items : fetched[i] # 0} \ stored]
    /\ UNCHANGED <<clock, status, feedVars, dbVars, attempts, due, seen, used, stamp,
                   frontVars, windowVars>>

\* No candidate; or the writer used none, or only ids that are no candidates.
NothingNew(t) ==
    /\ \/ pc[t] = "reading" /\ Candidates(seen[t]) = {}
       \/ pc[t] = "writing"
    /\ Rollback(t, IF due[t] = 0 THEN "empty" ELSE "done")
    /\ UNCHANGED received

\* The writer / judge loop and the reflector have ended with a digest of
\* the items S; the flush of their sent_items rows begins.
Compose(t, S) ==
    /\ pc[t] = "writing"
    /\ S # {}
    /\ S \subseteq cand[t]
    /\ pc' = [pc EXCEPT ![t] = "marking"]
    /\ used' = [used EXCEPT ![t] = S]
    /\ stamp' = [stamp EXCEPT ![t] = clock]
    /\ UNCHANGED <<clock, status, feedVars, dbVars, attempts, due, seen, cand,
                   frontVars, missed, windowVars>>

\* The writer failed, for a provider limit too (the agent's model raises
\* litellm's own error): DigestPipelineError is logged and the task ends.
WriterError(t) ==
    /\ pc[t] = "writing"
    /\ Rollback(t, "done")
    /\ UNCHANGED received

\* Seeded fault: the retries have no limit.
ProviderLimitUncapped(t) ==
    /\ pc[t] = "reading"
    /\ Rollback(t, "queued")
    /\ UNCHANGED received

\* ProviderLimitError from the embedding of a subscription that has none:
\* the message is put back for later, until the retries are used up.
ProviderLimit(t) ==
    /\ pc[t] = "reading"
    /\ Rollback(t, IF attempts[t] < MaxAttempts THEN "queued" ELSE "failed")
    /\ UNCHANGED received

\* Seeded fault: no unique index, an insert does not wait for another's.
InsertRowUnchecked(t, i) ==
    /\ pc[t] = "marking"
    /\ i \in used[t]
    /\ sentAt[i] = 0
    /\ holder' = [holder EXCEPT ![i] = t]
    /\ UNCHANGED <<clock, status, feedVars, sentAt, pc, taskVars, frontVars, missed,
                   windowVars>>

\* One row of the flush goes in: no other transaction has the pair.
InsertRow(t, i) ==
    /\ pc[t] = "marking"
    /\ i \in used[t]
    /\ holder[i] = NoTask
    /\ sentAt[i] = 0
    /\ holder' = [holder EXCEPT ![i] = t]
    /\ UNCHANGED <<clock, status, feedVars, sentAt, pc, taskVars, frontVars, missed,
                   windowVars>>

\* The pair was committed meanwhile: IntegrityError, the task fails.
UniqueViolation(t) ==
    /\ pc[t] = "marking"
    /\ \E i \in used[t] : sentAt[i] # 0
    /\ Rollback(t, "failed")
    /\ UNCHANGED received

\* t needs a row that u's open transaction has inserted.
Waits(t, u) ==
    /\ pc[t] = "marking"
    /\ \E i \in used[t] : holder[i] = u /\ u # t

\* t is on a cycle of waiting transactions.
Deadlocked(t) ==
    \E S \in SUBSET Tasks :
        /\ t \in S
        /\ \E next \in [S -> S] :
              /\ \A u \in S : Waits(u, next[u])
              /\ \A u, v \in S : next[u] = next[v] => u = v

\* Postgres finds the cycle and aborts one of its transactions.
DeadlockAbort(t) ==
    /\ Deadlocked(t)
    /\ Rollback(t, "failed")
    /\ UNCHANGED received

\* Seeded fault: ON CONFLICT DO NOTHING, rows that are there already are fine.
FlushedOnConflictDoNothing(t) ==
    /\ pc[t] = "marking"
    /\ used[t] \subseteq Mine(t) \cup Sent
    /\ pc' = [pc EXCEPT ![t] = "holding"]
    /\ UNCHANGED <<clock, status, feedVars, dbVars, taskVars, frontVars, missed, windowVars>>

\* The flush is complete: the digest text is returned to deliver_digest.
Flushed(t) ==
    /\ pc[t] = "marking"
    /\ used[t] \subseteq Mine(t)
    /\ pc' = [pc EXCEPT ![t] = "holding"]
    /\ UNCHANGED <<clock, status, feedVars, dbVars, taskVars, frontVars, missed, windowVars>>

\* The scheduled minute has come and the frontend accepts the digest.
Post(t) ==
    /\ pc[t] = "holding"
    /\ clock >= due[t]
    /\ pc' = [pc EXCEPT ![t] = "posted"]
    /\ received' = Bump(received, used[t])
    /\ UNCHANGED <<clock, status, feedVars, dbVars, taskVars, forgotten, missed, windowVars>>

\* The frontend is down or refuses: httpx.HTTPError ends the task.
PostRefused(t) ==
    /\ pc[t] \in {"holding", "empty"}
    /\ clock >= due[t]
    /\ Rollback(t, "failed")
    /\ UNCHANGED received

\* The frontend has shown the digest, but the answer is a timeout or a 500.
PostAnswerLost(t) ==
    /\ pc[t] = "holding"
    /\ clock >= due[t]
    /\ Leave(t, "failed")
    /\ received' = Bump(received, used[t])
    /\ forgotten' = Bump(forgotten, used[t])
    /\ UNCHANGED <<sentAt, windowVars>>

\* "No new updates right now" goes out; nothing is committed.
PostNothingNew(t) ==
    /\ pc[t] = "empty"
    /\ Rollback(t, "done")
    /\ UNCHANGED received

\* Seeded fault: the rows are committed before the digest is delivered.
CommitFirst(t) ==
    /\ pc[t] = "holding"
    /\ Leave(t, "done")
    /\ sentAt' = [i \in Items |-> IF i \in used[t] THEN stamp[t] ELSE sentAt[i]]
    /\ offered' = offered \cup cand[t]
    /\ raced' = raced \cup missed[t]
    /\ UNCHANGED frontVars

\* The transaction ends well: the rows and the window they set are on record.
Commit(t) ==
    /\ pc[t] = "posted"
    /\ Leave(t, "done")
    /\ sentAt' = [i \in Items |-> IF i \in used[t] THEN stamp[t] ELSE sentAt[i]]
    /\ offered' = offered \cup cand[t]
    /\ raced' = raced \cup missed[t]
    /\ UNCHANGED frontVars

\* The worker dies or the commit fails.  The message is not redelivered.
Crash(t) ==
    /\ pc[t] \in Working
    /\ Rollback(t, "lost")
    /\ UNCHANGED received

-----------------------------------------------------------------------------

Environment ==
    \/ Tick
    \/ \E s \in Statuses : SetStatus(s)
    \/ \E i \in Items :
          \/ \E p \in Time : PollFetch(i, p)
          \/ PollCommit(i)
          \/ PollRollback(i)
    \/ \E t \in Tasks, d \in Minutes : Enqueue(t, d)

\* What the worker, the database and the providers do to a task in hand.
Progress(t) ==
    \/ Start(t)
    \/ Skip(t)
    \/ FetchCandidates(t)
    \/ \E S \in SUBSET Items : Compose(t, S)
    \/ NothingNew(t)
    \/ WriterError(t)
    \/ ProviderLimit(t)
    \/ \E i \in Items : InsertRow(t, i)
    \/ UniqueViolation(t)
    \/ DeadlockAbort(t)
    \/ Flushed(t)
    \/ Post(t)
    \/ PostRefused(t)
    \/ PostAnswerLost(t)
    \/ PostNothingNew(t)
    \/ Commit(t)

Next == Environment \/ \E t \in Tasks : Progress(t) \/ Crash(t)

Spec == Init /\ [][Next]_vars

\* Workers take messages and their calls return (every one has a timeout);
\* time passes.  Users, polls and crashes owe nothing.
FairSpec == Spec /\ WF_vars(Tick) /\ \A t \in Tasks : WF_vars(Progress(t))

-----------------------------------------------------------------------------
(* Properties.                                                             *)

TypeOK ==
    /\ clock \in Nat
    /\ status \in Statuses
    /\ published \in [Items -> Nat]
    /\ fetched \in [Items -> Nat]
    /\ stored \subseteq Items
    /\ sentAt \in [Items -> Nat]
    /\ holder \in [Items -> Tasks \cup {NoTask}]
    /\ pc \in [Tasks -> Phases]
    /\ attempts \in [Tasks -> 0..MaxAttempts]
    /\ due \in [Tasks -> Nat]
    /\ seen \in [Tasks -> SUBSET Items]
    /\ cand \in [Tasks -> SUBSET Items]
    /\ used \in [Tasks -> SUBSET Items]
    /\ stamp \in [Tasks -> Nat]
    /\ received \in [Items -> Nat]
    /\ forgotten \in [Items -> Nat]
    /\ missed \in [Tasks -> SUBSET Items]
    /\ offered \subseteq Items
    /\ raced \subseteq Items

\* An uncommitted row belongs to a task between its flush and the end of its
\* transaction, is one of the task's items, and has no committed twin.
HolderOK ==
    \A i \in Items : holder[i] # NoTask =>
        /\ pc[holder[i]] \in {"marking", "holding", "posted"}
        /\ i \in used[holder[i]]
        /\ sentAt[i] = 0

\* A task that has completed its flush holds the row of each of its items.
FlushedOK ==
    \A t \in Tasks : pc[t] \in {"holding", "posted"} =>
        \A i \in used[t] : holder[i] = t

\* The time is never 0, the mark for "no row": a stamp is a row's time.
StampOK ==
    /\ clock > 0
    /\ \A t \in Tasks : pc[t] \in {"marking", "holding", "posted"} => stamp[t] > 0

\* An accepted POST that is neither recorded nor forgotten is still open.
Open(i) == sentAt[i] # 0 \/ (holder[i] # NoTask /\ pc[holder[i]] = "posted")

Balanced == \A i \in Items : received[i] = forgotten[i] + IF Open(i) THEN 1 ELSE 0

\* The inductive invariant behind the three delivery properties.
DigestInv == TypeOK /\ HolderOK /\ FlushedOK /\ StampOK /\ Balanced

\* The frontend shows an item again only after a digest that carried it was
\* accepted and not recorded: overlapping digest tasks by themselves (a slot
\* enqueued twice, "digest now" beside the schedule) repeat nothing, because
\* the rows are inserted before the POST and held until the commit.
NoUnexplainedRepeat == \A i \in Items : received[i] <= forgotten[i] + 1

\* An item is on record as sent only if the frontend accepted a digest with
\* it, one that the record is about: the commit comes after the POST.
RecordedWasReceived == \A i \in Items : sentAt[i] # 0 => received[i] > forgotten[i]

\* A stored item that no recorded digest's writer was offered can still be
\* offered by the next one, unless its poll overlapped the writing of a
\* recorded digest: "published before, fetched after" is what the second
\* half of the cut-off is for.
UnracedItemKept ==
    \A i \in stored \ (Sent \cup offered \cup raced) :
        Qualifies(i, Sent) \/ published[i] + MaxAge < clock

\* Stamps are of the past, and what is stored, or was read, was there before.
PastOK ==
    /\ \A i \in Items : sentAt[i] <= clock
    /\ \A i \in stored : fetched[i] # 0
    /\ \A t \in Tasks : stamp[t] <= clock /\ seen[t] \subseteq Sent

\* Each fetched item is accounted for by a task that has its candidates: it is
\* offered, missed, sent or too old, or a row the task has seen has shut it out
\* already, or it came after the moment the task's own rows will bear.
WindowOK ==
    \A t \in Tasks : pc[t] \in {"writing", "marking", "holding", "posted"} =>
        \A i \in Items : fetched[i] # 0 =>
            \/ i \in cand[t] \cup missed[t] \cup seen[t]
            \/ published[i] + MaxAge < clock
            \/ \E j \in seen[t] : fetched[i] < sentAt[j]
            \/ pc[t] # "writing" /\ fetched[i] >= stamp[t]

\* UnracedItemKept of every fetched item, stored or not, and by its fetched_at.
FetchedKept ==
    \A i \in Items : fetched[i] # 0 =>
        \/ i \in Sent \cup offered \cup raced
        \/ published[i] + MaxAge < clock
        \/ \A j \in Sent : fetched[i] >= sentAt[j]

\* The inductive invariant behind UnracedItemKept.
KeptInv == DigestInv /\ PastOK /\ WindowOK /\ FetchedKept

\* The ledger this task machinery implements: a POST is open from the moment
\* the frontend accepts it until the task's transaction ends.
LedgerState ==
    [i \in Items |-> IF sentAt[i] # 0 THEN "recorded"
                     ELSE IF holder[i] # NoTask /\ pc[holder[i]] = "posted" THEN "open"
                     ELSE "unsent"]

Ledger == INSTANCE DeliveryLedger WITH state <- LedgerState

\* The tasks implement the ledger.
LedgerSpec == Ledger!Spec

\* No task waits for ever: not for a row of another task's transaction, not
\* for its minute, not for a provider.
EveryTaskEnds == \A t \in Tasks : pc[t] = "queued" ~> pc[t] \in Ended

=============================================================================
