----------------------------- MODULE EventBatch -----------------------------
(***************************************************************************)
(* How news items reach the event subscriptions: the                       *)
(* deliver_event_notifications_batch tasks, and the event verifier, which  *)
(* looks every few days for what was missed and delivers it itself.        *)
(*                                                                         *)
(* A batch task runs one coroutine per subscription.  They share ONE       *)
(* database session: a row one of them has added is flushed by whichever   *)
(* commits next, two commits at a time collide, and after a failed flush,  *)
(* which nobody rolls back, every later statement fails.  A verifier has a *)
(* session of its own per subscription and commits once, at its end.       *)
(* Both POST first and insert the sent_items row afterwards.               *)
(*                                                                         *)
(* Every subscription here follows the sources of all the items.           *)
(***************************************************************************)
EXTENDS EventItems

CONSTANTS
    Subs,          \* the event subscriptions
    Tasks,         \* the batch messages
    MaxListed,     \* bound: how often the assessor lists one item
    MaxReported,   \* bound: how often the verifier reports one missed event
    MaxRevisions,  \* event_judge_max_revisions
    MaxChecks      \* bound: verifier runs per subscription

ASSUME EventAssumption ==
    /\ MaxListed \in Nat
    /\ MaxReported \in Nat
    /\ MaxRevisions \in Nat
    /\ MaxChecks \in Nat

VARIABLES
    pc,            \* where each batch task is
    batch,         \* news_item_ids of its message
    attempts,      \* its Celery retry counter
    retry,         \* a coroutine of it has hit a provider limit
    co,            \* where its coroutine for each subscription is
    known,         \* history: the items recorded when the coroutine looked
    pend,          \* pending_items of the coroutine
    todo,          \* how many assessments of each item it has still to deliver
    cur,           \* the item whose POST was accepted and is to be recorded
    added,         \* <<subscription, item>> rows added to the session, not flushed
    poisoned,      \* the session's transaction is dead
    sent,          \* committed sent_items rows: <<subscription, item>>
    vpc,           \* where the verifier of each subscription is
    vcur,          \* the missed event it is delivering
    vtodo,         \* how many reports of each missed event it has still to handle
    vheld,         \* the sent_items rows it has flushed and not committed
    checks,        \* how often it has run
    kept,          \* history: how often the frontend accepted the pair, but for
                   \* the times that this is not recorded and never will be
    raced          \* history: accepted while another delivery of it was under way

taskVars == <<pc, batch, attempts, retry>>
coVars == <<co, known, pend, todo, cur>>
sessionVars == <<added, poisoned>>
verifierVars == <<vpc, vcur, vtodo, vheld, checks>>
frontVars == <<kept, raced>>
vars == <<taskVars, coVars, sessionVars, sent, verifierVars, frontVars>>

Pairs == Subs \X Items

Ended == {"done", "failed", "lost"}

Nothing == [i \in Items |-> 0]

Init ==
    /\ pc = [t \in Tasks |-> "absent"]
    /\ batch = [t \in Tasks |-> {}]
    /\ attempts = [t \in Tasks |-> 0]
    /\ retry = [t \in Tasks |-> FALSE]
    /\ co = [t \in Tasks |-> [u \in Subs |-> "off"]]
    /\ known = [t \in Tasks |-> [u \in Subs |-> {}]]
    /\ pend = [t \in Tasks |-> [u \in Subs |-> {}]]
    /\ todo = [t \in Tasks |-> [u \in Subs |-> Nothing]]
    /\ cur = [t \in Tasks |-> [u \in Subs |-> NoItem]]
    /\ added = [t \in Tasks |-> {}]
    /\ poisoned = [t \in Tasks |-> FALSE]
    /\ sent = {}
    /\ vpc = [u \in Subs |-> "idle"]
    /\ vcur = [u \in Subs |-> NoItem]
    /\ vtodo = [u \in Subs |-> Nothing]
    /\ vheld = [u \in Subs |-> {}]
    /\ checks = [u \in Subs |-> 0]
    /\ kept = [p \in Pairs |-> 0]
    /\ raced = [p \in Pairs |-> 0]

\* An accepted POST of the pair that is not on record yet, other than the one
\* that is being made now.
UnderWay(p) ==
    \/ p \in UNION {added[t] : t \in Tasks}
    \/ \E t \in Tasks : cur[t][p[1]] = p[2]
    \/ vpc[p[1]] = "posted" /\ vcur[p[1]] = p[2]
    \/ p[2] \in vheld[p[1]]

\* The frontend accepts the pair, which its sender believes not to be on
\* record; "late" says that it was recorded after the sender had looked.
Accepted(p, late) ==
    /\ kept' = [kept EXCEPT ![p] = @ + 1]
    /\ raced' = IF late \/ UnderWay(p) THEN [raced EXCEPT ![p] = @ + 1] ELSE raced

One(b) == IF b THEN 1 ELSE 0

\* Acceptances of these pairs will not be recorded any more.
Forget(S) == kept' = [p \in Pairs |-> kept[p] - One(p \in S)]

-----------------------------------------------------------------------------
(* The batch task.                                                         *)

\* A message reaches the broker.
Message(t, S) ==
    /\ pc[t] = "absent"
    /\ S # {}
    /\ pc' = [pc EXCEPT ![t] = "queued"]
    /\ batch' = [batch EXCEPT ![t] = S]
    /\ UNCHANGED <<attempts, retry, coVars, sessionVars, sent, verifierVars, frontVars>>

\* poll_all_feeds sends it, with items that no other message has (EventFlow).
Enqueue(t, S) ==
    /\ \A w \in Tasks : batch[w] \cap S = {}
    /\ Message(t, S)

\* A worker loads the items and the event subscriptions R that follow them and
\* are active and not paused at this moment.
Start(t, R) ==
    /\ pc[t] = "queued"
    /\ pc' = [pc EXCEPT ![t] = "running"]
    /\ co' = [co EXCEPT ![t] = [u \in Subs |-> IF u \in R THEN "reading" ELSE "off"]]
    /\ UNCHANGED <<batch, attempts, retry, known, pend, todo, cur, sessionVars, sent,
                   verifierVars, frontVars>>

Recorded(u) == {i \in Items : <<u, i>> \in sent}

\* The coroutine goes on to this phase; what it had read ends with it.
Goto(t, u, phase) ==
    /\ co' = [co EXCEPT ![t][u] = phase]
    /\ pend' = [pend EXCEPT ![t][u] = IF phase = "off" THEN {} ELSE @]
    /\ known' = [known EXCEPT ![t][u] = IF phase = "off" THEN {} ELSE @]

\* The phase of a coroutine that has these assessments still to deliver.
After(listed) == IF listed = Nothing THEN "off" ELSE "delivering"

\* Seeded fault: the sent items are not taken out.
ReadUnfiltered(t, u) ==
    /\ co[t][u] = "reading"
    /\ ~poisoned[t]
    /\ co' = [co EXCEPT ![t][u] = "assessing"]
    /\ pend' = [pend EXCEPT ![t][u] = batch[t]]
    /\ known' = [known EXCEPT ![t][u] = Recorded(u)]
    /\ UNCHANGED <<taskVars, todo, cur, sessionVars, sent, verifierVars, frontVars>>

\* The coroutine reads which of the items its subscription was sent.
Read(t, u) ==
    LET pending == batch[t] \ Recorded(u) IN
    /\ co[t][u] = "reading"
    /\ ~poisoned[t]
    /\ co' = [co EXCEPT ![t][u] = IF pending = {} THEN "off" ELSE "assessing"]
    /\ pend' = [pend EXCEPT ![t][u] = pending]
    /\ known' = [known EXCEPT ![t][u] = IF pending = {} THEN {} ELSE Recorded(u)]
    /\ UNCHANGED <<taskVars, todo, cur, sessionVars, sent, verifierVars, frontVars>>

\* The statement fails: the session is dead, or another coroutine's commit is
\* in progress.  The exception ends the coroutine.
ReadFails(t, u) ==
    /\ co[t][u] = "reading"
    /\ poisoned[t] \/ \E w \in Subs : co[t][w] = "posted"
    /\ Goto(t, u, "off")
    /\ UNCHANGED <<taskVars, todo, cur, sessionVars, sent, verifierVars,
                   frontVars>>

Listings == [Items -> 0..MaxListed]

\* What the assessor may return when it is given pending items S: any of them,
\* in a revision too one that it was not asked for, and one perhaps twice.
Assessments(S) == {L \in Listings : \A i \in Items \ S : L[i] = 0}

\* The items that the judge may want revised: it must speak of those listed.
Verdicts(L) == SUBSET {i \in Items : L[i] > 0}

\* The assessments without those of the items R; what a revision makes of them.
Without(L, R) == [i \in Items |-> IF i \in R THEN 0 ELSE L[i]]
Revised(L, R, M) == [i \in Items |-> Without(L, R)[i] + M[i]]

\* A revision: those refused are dropped, and those the assessor has found
\* revised take their place.
Revises(S, K, N) ==
    \E R \in Verdicts(K) \ {{}}, M \in Assessments(S) : N = Revised(K, R, M)

\* What the judge loop may make of a listing: after some rounds of revision it
\* stays when the judge passes it or fails; what is refused is dropped when no
\* revision is left or the assessor fails.
Judged(S, L) ==
    {J \in Assessments(S) :
        \E n \in 0..MaxRevisions : \E round \in [0..n -> Assessments(S)] :
            /\ round[0] = L
            /\ \A k \in 1..n : Revises(S, round[k - 1], round[k])
            /\ \E R \in Verdicts(round[n]) : J = Without(round[n], R)}

\* What is left of them to deliver: those with an empty body are passed over.
\* One that a revision made "not relevant" goes out too if it has a body: the
\* relevant ones are picked before the judge loop and not again after it.
Deliverable(L) == {D \in Listings : \A i \in Items : D[i] <= L[i]}

\* What may be delivered of the pending items S: the assessor's listing, which
\* goes through the judge loop if there is anything in it.
Outcomes == [S \in SUBSET Items |->
    {D \in Listings : \E L \in Assessments(S) :
        \E J \in IF L = Nothing THEN {L} ELSE Judged(S, L) :
            D \in Deliverable(J)}]

\* The assessor and the judge loop have ended: these assessments are to be
\* delivered.
Assess(t, u, listed) ==
    /\ co[t][u] = "assessing"
    /\ listed \in Outcomes[pend[t][u]]
    /\ Goto(t, u, After(listed))
    /\ todo' = [todo EXCEPT ![t][u] = listed]
    /\ UNCHANGED <<taskVars, cur, sessionVars, sent, verifierVars, frontVars>>

\* ProviderLimitError from the assessor ends the coroutine; the task raises it
\* when the others have ended too.
ProviderLimit(t, u) ==
    /\ co[t][u] = "assessing"
    /\ Goto(t, u, "off")
    /\ retry' = [retry EXCEPT ![t] = TRUE]
    /\ UNCHANGED <<pc, batch, attempts, todo, cur, sessionVars, sent,
                   verifierVars, frontVars>>

\* The frontend accepts the notification of the next assessment.
Post(t, u, i) ==
    /\ co[t][u] = "delivering"
    /\ todo[t][u][i] > 0
    /\ Goto(t, u, "posted")
    /\ todo' = [todo EXCEPT ![t][u][i] = @ - 1]
    /\ cur' = [cur EXCEPT ![t][u] = i]
    /\ Accepted(<<u, i>>, i \in Recorded(u) \ known[t][u])
    /\ UNCHANGED <<taskVars, sessionVars, sent, verifierVars>>

\* Seeded fault: deliver() swallows the error, and the row is recorded.
PostFailsRecorded(t, u, i) ==
    /\ co[t][u] = "delivering"
    /\ todo[t][u][i] > 0
    /\ Goto(t, u, "posted")
    /\ todo' = [todo EXCEPT ![t][u][i] = @ - 1]
    /\ cur' = [cur EXCEPT ![t][u] = i]
    /\ UNCHANGED <<taskVars, sessionVars, sent, verifierVars, frontVars>>

\* The frontend refuses, or shows the notification and its answer is lost (one
\* that will not be recorded): the failure is logged and the next assessment's
\* turn comes.
PostFails(t, u, i) ==
    /\ co[t][u] = "delivering"
    /\ todo[t][u][i] > 0
    /\ todo' = [todo EXCEPT ![t][u][i] = @ - 1]
    /\ Goto(t, u, After(todo'[t][u]))
    /\ UNCHANGED <<taskVars, cur, sessionVars, sent, verifierVars, frontVars>>

\* The coroutine has dealt with the delivery it was recording.
Dealt(t, u) ==
    /\ Goto(t, u, After(todo[t][u]))
    /\ cur' = [cur EXCEPT ![t][u] = NoItem]
    /\ UNCHANGED <<taskVars, todo, verifierVars>>

\* The rows are free: no verifier has flushed one of them.
Free(S) == \A p \in S : p[2] \notin vheld[p[1]]

\* session.add and session.commit: the row goes on record, and with it those
\* rows R that other coroutines had added by then.
Record(t, u, R) ==
    LET p == <<u, cur[t][u]>> IN
    /\ co[t][u] = "posted"
    /\ ~poisoned[t]
    /\ R \subseteq added[t] \ {p}
    /\ p \notin added[t]
    /\ (R \cup {p}) \cap sent = {}
    /\ Free(R \cup {p})
    /\ sent' = sent \cup R \cup {p}
    /\ added' = [added EXCEPT ![t] = @ \ R]
    /\ Dealt(t, u)
    /\ UNCHANGED <<poisoned, frontVars>>

\* The commit raises because another coroutine's commit is in progress: the
\* row stays in the session and may go with that commit or a later one.
RecordCollides(t, u) ==
    /\ co[t][u] = "posted"
    /\ ~poisoned[t]
    /\ <<u, cur[t][u]>> \notin added[t]
    /\ \E w \in Subs \ {u} : co[t][w] = "posted"
    /\ added' = [added EXCEPT ![t] = @ \cup {<<u, cur[t][u]>>}]
    /\ Dealt(t, u)
    /\ UNCHANGED <<poisoned, sent, frontVars>>

\* One of the rows to flush is on record or twice in the session: the flush
\* fails, its rows are gone and the transaction is dead from now on.
RecordConflicts(t, u) ==
    LET p == <<u, cur[t][u]>> IN
    /\ co[t][u] = "posted"
    /\ ~poisoned[t]
    /\ p \in added[t] \/ (added[t] \cup {p}) \cap sent # {}
    /\ Free(added[t] \cup {p})
    /\ poisoned' = [poisoned EXCEPT ![t] = TRUE]
    /\ added' = [added EXCEPT ![t] = {}]
    /\ kept' = [q \in Pairs |-> kept[q] - One(q \in added[t]) - One(q = p)]
    /\ Dealt(t, u)
    /\ UNCHANGED <<sent, raced>>

\* The transaction is dead: PendingRollbackError.
RecordFails(t, u) ==
    /\ co[t][u] = "posted"
    /\ poisoned[t]
    /\ Forget({<<u, cur[t][u]>>})
    /\ Dealt(t, u)
    /\ UNCHANGED <<sessionVars, sent, raced>>

\* Seeded fault: a retry that does not count.
LeaveUncounted(t, p) ==
    /\ pc' = [pc EXCEPT ![t] = p]
    /\ retry' = [retry EXCEPT ![t] = FALSE]
    /\ co' = [co EXCEPT ![t] = [u \in Subs |-> "off"]]
    /\ known' = [known EXCEPT ![t] = [u \in Subs |-> {}]]
    /\ pend' = [pend EXCEPT ![t] = [u \in Subs |-> {}]]
    /\ todo' = [todo EXCEPT ![t] = [u \in Subs |-> Nothing]]
    /\ cur' = [cur EXCEPT ![t] = [u \in Subs |-> NoItem]]
    /\ added' = [added EXCEPT ![t] = {}]
    /\ poisoned' = [poisoned EXCEPT ![t] = FALSE]
    /\ kept' = [q \in Pairs |-> kept[q] - One(q \in added[t]) - One(cur[t][q[1]] = q[2])]
    /\ UNCHANGED <<batch, attempts, sent, verifierVars, raced>>

\* The task's session is closed and the task is in phase p; a row added and
\* never flushed is lost.
Leave(t, p) ==
    /\ pc' = [pc EXCEPT ![t] = p]
    /\ attempts' = [attempts EXCEPT ![t] = IF p = "queued" THEN @ + 1 ELSE @]
    /\ retry' = [retry EXCEPT ![t] = FALSE]
    /\ co' = [co EXCEPT ![t] = [u \in Subs |-> "off"]]
    /\ known' = [known EXCEPT ![t] = [u \in Subs |-> {}]]
    /\ pend' = [pend EXCEPT ![t] = [u \in Subs |-> {}]]
    /\ todo' = [todo EXCEPT ![t] = [u \in Subs |-> Nothing]]
    /\ cur' = [cur EXCEPT ![t] = [u \in Subs |-> NoItem]]
    /\ added' = [added EXCEPT ![t] = {}]
    /\ poisoned' = [poisoned EXCEPT ![t] = FALSE]
    /\ kept' = [q \in Pairs |-> kept[q] - One(q \in added[t]) - One(cur[t][q[1]] = q[2])]
    /\ UNCHANGED <<batch, sent, verifierVars, raced>>

\* Seeded fault: the retries have no limit.
FinishUncapped(t) ==
    /\ pc[t] = "running"
    /\ \A u \in Subs : co[t][u] = "off"
    /\ Leave(t, IF retry[t] THEN "queued" ELSE "done")

\* All coroutines have ended: the task returns, or raises the provider limit
\* and is put back, for all its items, until the retries are used up.
Finish(t) ==
    /\ pc[t] = "running"
    /\ \A u \in Subs : co[t][u] = "off"
    /\ Leave(t, IF ~retry[t] THEN "done"
                ELSE IF attempts[t] < MaxAttempts THEN "queued" ELSE "failed")

Crash(t) ==
    /\ pc[t] = "running"
    /\ Leave(t, "lost")

-----------------------------------------------------------------------------
(* The event verifier of a subscription.                                   *)

\* What the agent may have reported: an event perhaps twice.
Reports == [Items -> 0..MaxReported]

VerifierLeave(u) ==
    /\ vpc' = [vpc EXCEPT ![u] = "idle"]
    /\ vcur' = [vcur EXCEPT ![u] = NoItem]
    /\ vtodo' = [vtodo EXCEPT ![u] = Nothing]
    /\ vheld' = [vheld EXCEPT ![u] = {}]
    /\ UNCHANGED <<taskVars, coVars, sessionVars, checks, raced>>

\* Its turn has come and the subscription is running: what it was sent and its
\* sources are read, and the agent searches and reports missed events, perhaps
\* none.  It waits for nothing that this model holds, so its minutes are one step.
VerifierStart(u, missed) ==
    /\ vpc[u] = "idle"
    /\ checks[u] < MaxChecks
    /\ checks' = [checks EXCEPT ![u] = @ + 1]
    /\ vpc' = [vpc EXCEPT ![u] = "checking"]
    /\ vtodo' = [vtodo EXCEPT ![u] = missed]
    /\ UNCHANGED <<taskVars, coVars, sessionVars, sent, vcur, vheld, frontVars>>

\* The next missed event: nothing to do when it was sent, else it is POSTed.
VerifierCheck(u, i) ==
    /\ vpc[u] = "checking"
    /\ vtodo[u][i] > 0
    /\ vtodo' = [vtodo EXCEPT ![u][i] = @ - 1]
    /\ IF i \in Recorded(u) \cup vheld[u]
       THEN UNCHANGED <<vpc, vcur>>
       ELSE /\ vpc' = [vpc EXCEPT ![u] = "posting"]
            /\ vcur' = [vcur EXCEPT ![u] = i]
    /\ UNCHANGED <<taskVars, coVars, sessionVars, sent, vheld, checks, frontVars>>

VerifierPost(u) ==
    /\ vpc[u] = "posting"
    /\ vpc' = [vpc EXCEPT ![u] = "posted"]
    /\ Accepted(<<u, vcur[u]>>, vcur[u] \in Recorded(u))
    /\ UNCHANGED <<taskVars, coVars, sessionVars, sent, vcur, vtodo, vheld, checks>>

\* Refused, or the answer is lost: logged, and on to the next.
VerifierPostFails(u) ==
    /\ vpc[u] = "posting"
    /\ vpc' = [vpc EXCEPT ![u] = "checking"]
    /\ vcur' = [vcur EXCEPT ![u] = NoItem]
    /\ UNCHANGED <<taskVars, coVars, sessionVars, sent, vtodo, vheld, checks, frontVars>>

\* The row is flushed; it is held until the verifier's only commit.
VerifierFlush(u) ==
    /\ vpc[u] = "posted"
    /\ <<u, vcur[u]>> \notin sent
    /\ vpc' = [vpc EXCEPT ![u] = "checking"]
    /\ vheld' = [vheld EXCEPT ![u] = @ \cup {vcur[u]}]
    /\ vcur' = [vcur EXCEPT ![u] = NoItem]
    /\ UNCHANGED <<taskVars, coVars, sessionVars, sent, vtodo, checks, frontVars>>

\* All are handled (and discoveries, if the agent wants any, queued): the commit.
VerifierCommit(u) ==
    /\ vpc[u] = "checking"
    /\ vtodo[u] = Nothing
    /\ sent' = sent \cup ({u} \X vheld[u])
    /\ VerifierLeave(u)
    /\ UNCHANGED kept

\* The flush meets a row that was committed meanwhile, the commit fails or the
\* worker dies: the rows of everything this verifier has delivered are gone.
VerifierAborts(u) ==
    /\ vpc[u] # "idle"
    /\ Forget({u} \X (vheld[u] \cup IF vpc[u] = "posted" THEN {vcur[u]} ELSE {}))
    /\ VerifierLeave(u)
    /\ UNCHANGED sent

-----------------------------------------------------------------------------

CoStep(t, u) ==
    \/ Read(t, u)
    \/ ReadFails(t, u)
    \/ \E listed \in Listings : Assess(t, u, listed)
    \/ ProviderLimit(t, u)
    \/ \E i \in Items : Post(t, u, i) \/ PostFails(t, u, i)
    \/ \E R \in SUBSET added[t] : Record(t, u, R)
    \/ RecordCollides(t, u)
    \/ RecordConflicts(t, u)
    \/ RecordFails(t, u)

TaskStep(t) ==
    \/ \E R \in SUBSET Subs : Start(t, R)
    \/ \E u \in Subs : CoStep(t, u)
    \/ Finish(t)

VerifierStep(u) ==
    \/ \E i \in Items : VerifierCheck(u, i)
    \/ VerifierPost(u)
    \/ VerifierPostFails(u)
    \/ VerifierFlush(u)
    \/ VerifierCommit(u)
    \/ VerifierAborts(u)

\* What the workers do.
Work ==
    \/ \E u \in Subs :
          VerifierStep(u) \/ \E missed \in Reports : VerifierStart(u, missed)
    \/ \E t \in Tasks : TaskStep(t) \/ Crash(t)

Next == Work \/ \E t \in Tasks, S \in SUBSET Items : Enqueue(t, S)

Spec == Init /\ [][Next]_vars

FairSpec ==
    /\ Spec
    /\ \A t \in Tasks : WF_vars(TaskStep(t))
    /\ \A u \in Subs : WF_vars(VerifierStep(u))

-----------------------------------------------------------------------------
(* Properties.                                                             *)

TypeOK ==
    /\ pc \in [Tasks -> {"absent", "queued", "running"} \cup Ended]
    /\ batch \in [Tasks -> SUBSET Items]
    /\ attempts \in [Tasks -> 0..MaxAttempts]
    /\ retry \in [Tasks -> BOOLEAN]
    /\ co \in [Tasks -> [Subs -> {"off", "reading", "assessing", "delivering", "posted"}]]
    /\ known \in [Tasks -> [Subs -> SUBSET Items]]
    /\ pend \in [Tasks -> [Subs -> SUBSET Items]]
    /\ todo \in [Tasks -> [Subs -> Listings]]
    /\ cur \in [Tasks -> [Subs -> Items \cup {NoItem}]]
    /\ added \in [Tasks -> SUBSET Pairs]
    /\ poisoned \in [Tasks -> BOOLEAN]
    /\ sent \subseteq Pairs
    /\ vpc \in [Subs -> {"idle", "checking", "posting", "posted"}]
    /\ vcur \in [Subs -> Items \cup {NoItem}]
    /\ vtodo \in [Subs -> Reports]
    /\ vheld \in [Subs -> SUBSET Items]
    /\ checks \in [Subs -> 0..MaxChecks]
    /\ kept \in [Pairs -> Nat]
    /\ raced \in [Pairs -> Nat]

\* Messages have no item in common, and a task that is not running holds nothing.
MessagesOK ==
    /\ \A t \in Tasks : batch[t] # {} => pc[t] # "absent"
    /\ \A t, w \in Tasks : t # w => batch[t] \cap batch[w] = {}
    /\ \A t \in Tasks : pc[t] # "running" =>
          added[t] = {} /\ \A u \in Subs : co[t][u] = "off"

\* What a coroutine delivers is pending, was not on record when it looked, and
\* is known before it delivers; it records an item between POST and commit only.
CoroutinesOK ==
    \A t \in Tasks, u \in Subs :
        /\ pend[t][u] \subseteq batch[t] \ known[t][u]
        /\ \A i \in Items : todo[t][u][i] > 0 =>
              i \in pend[t][u] /\ co[t][u] \in {"delivering", "posted"}
        /\ IF co[t][u] = "posted" THEN cur[t][u] \in pend[t][u] ELSE cur[t][u] = NoItem

\* The rows of an open transaction have no committed twin: those a verifier
\* has flushed, and the one it is to flush is not among them.
HeldOK ==
    \A u \in Subs :
        /\ \A i \in vheld[u] : <<u, i>> \notin sent
        /\ vpc[u] \in {"posting", "posted"} => vcur[u] \in Items \ vheld[u]

\* The notifications of the pair that a batch task has yet to record ...
InBatch(t, p) == One(p \in added[t]) + One(cur[t][p[1]] = p[2])

\* ... and those that a verifier has.
InVerifier(p) == One(vpc[p[1]] = "posted" /\ vcur[p[1]] = p[2]) + One(p[2] \in vheld[p[1]])

\* Every notification of a pair that can still be recorded is on record, or is
\* with the one task whose message has the item or with the verifier.
Balanced ==
    \A p \in Pairs :
        /\ \A t \in Tasks : p[2] \in batch[t] =>
              kept[p] = One(p \in sent) + InBatch(t, p) + InVerifier(p)
        /\ (\A t \in Tasks : p[2] \notin batch[t]) => kept[p] = One(p \in sent) + InVerifier(p)
        /\ \A t \in Tasks : p \in added[t] => p[2] \in batch[t]

\* A subscriber is notified of an item again only for a reason: an earlier
\* notification was never recorded, or the two were under way at the same
\* time (batch and verifier, or an item the assessor listed twice).  A retry
\* of the whole batch repeats nothing that its earlier attempt recorded.
\* (`kept` does not count the notifications that were never recorded.)
RepeatHasReason == \A p \in Pairs : kept[p] <= 1 + raced[p]

\* A pair is on record only after the frontend accepted it, although the row
\* may be flushed by the commit of another coroutine of the session.
RecordedWasReceived == \A p \in Pairs : p \in sent => kept[p] > 0

\* The inductive invariant behind the two.
EventInv ==
    TypeOK /\ MessagesOK /\ CoroutinesOK /\ HeldOK /\ Balanced /\ RepeatHasReason

\* No batch task waits for ever, not even for the row of a verifier.
EveryTaskEnds == \A t \in Tasks : pc[t] = "queued" ~> pc[t] \in Ended

=============================================================================
