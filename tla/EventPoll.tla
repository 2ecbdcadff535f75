----------------------------- MODULE EventPoll ------------------------------
(***************************************************************************)
(* The poll_all_feeds tasks: how news items get into the database, and     *)
(* which of them are passed on to the event subscriptions.                 *)
(*                                                                         *)
(* A poll notes which sources event subscriptions follow, then works on    *)
(* all sources at once.  Each source has a transaction of its own: fetch   *)
(* the feed, embed the posts, look each one up by URL and insert it when   *)
(* it is new, commit.  When all have ended the poll sends the ids of the   *)
(* new items of followed sources in ONE deliver_event_notifications_batch  *)
(* message: an id is passed on now or never, since the next poll finds the *)
(* URL stored and takes the post for an old one.                           *)
(*                                                                         *)
(* Polls overlap (a poll that hit a provider limit comes back beside the   *)
(* next one), and two feeds may carry the same URL.  The unique index on   *)
(* news_items.url makes an insert wait while another open transaction has  *)
(* inserted the URL.                                                       *)
(***************************************************************************)
EXTENDS EventItems

CONSTANTS
    Sources,       \* the active sources
    Polls          \* the poll_all_feeds messages

VARIABLES
    watched,       \* the sources that a running event subscription follows
    stored,        \* the items whose NewsItem row is committed
    pollPc,        \* where each poll is
    pollAttempts,  \* its Celery retry counter
    snap,          \* its event_source_ids
    tx,            \* where it is with each source
    left,          \* the posts of the source it has still to upsert
    ins,           \* the post it has not found stored and is to insert
    mine,          \* the rows it has inserted for the source, not committed
    found,         \* the event_item_ids of the sources it has committed
    batches,       \* how many messages carried the item's id
    wanted,        \* history: items committed by a poll for a source it watched
    dropped        \* history: items of found that a poll ended without sending

runVars == <<pollPc, pollAttempts, snap, found>>
sourceVars == <<tx, left, ins, mine>>
outVars == <<batches, wanted, dropped>>
pollVars == <<watched, stored, runVars, sourceVars, outVars>>

PollEnded == {"done", "failed", "lost"}

PollInit ==
    /\ watched \in SUBSET Sources
    /\ stored = {}
    /\ pollPc = [p \in Polls |-> "queued"]
    /\ pollAttempts = [p \in Polls |-> 0]
    /\ snap = [p \in Polls |-> {}]
    /\ tx = [p \in Polls |-> [s \in Sources |-> "ended"]]
    /\ left = [p \in Polls |-> [s \in Sources |-> {}]]
    /\ ins = [p \in Polls |-> [s \in Sources |-> NoItem]]
    /\ mine = [p \in Polls |-> [s \in Sources |-> {}]]
    /\ found = [p \in Polls |-> {}]
    /\ batches = [i \in Items |-> 0]
    /\ wanted = {}
    /\ dropped = {}

\* A user creates, stops, resumes or deletes an event subscription.
Watch(s) ==
    /\ watched' = IF s \in watched THEN watched \ {s} ELSE watched \cup {s}
    /\ UNCHANGED <<stored, runVars, sourceVars, outVars>>

\* A worker takes the message and reads the sources.
PollStart(p) ==
    /\ pollPc[p] = "queued"
    /\ pollPc' = [pollPc EXCEPT ![p] = "running"]
    /\ snap' = [snap EXCEPT ![p] = watched]
    /\ tx' = [tx EXCEPT ![p] = [s \in Sources |-> "waiting"]]
    /\ UNCHANGED <<watched, stored, pollAttempts, found, left, ins, mine, outVars>>

-----------------------------------------------------------------------------
(* One source of a poll.                                                   *)

\* The source's transaction is over: committed, rolled back or never used.
Close(p, s, phase) ==
    /\ tx' = [tx EXCEPT ![p][s] = phase]
    /\ left' = [left EXCEPT ![p][s] = {}]
    /\ ins' = [ins EXCEPT ![p][s] = NoItem]
    /\ mine' = [mine EXCEPT ![p][s] = {}]

\* The feed has been fetched and holds the fresh posts S.
Fetch(p, s, S) ==
    /\ tx[p][s] = "waiting"
    /\ S # {}
    /\ tx' = [tx EXCEPT ![p][s] = "embedding"]
    /\ left' = [left EXCEPT ![p][s] = S]
    /\ UNCHANGED <<watched, stored, runVars, ins, mine, outVars>>

\* The source is inactive by now, its feed cannot be fetched or has no fresh post.
NothingFetched(p, s) ==
    /\ tx[p][s] = "waiting"
    /\ Close(p, s, "ended")
    /\ UNCHANGED <<watched, stored, runVars, outVars>>

Embedded(p, s) ==
    /\ tx[p][s] = "embedding"
    /\ tx' = [tx EXCEPT ![p][s] = "open"]
    /\ UNCHANGED <<watched, stored, runVars, left, ins, mine, outVars>>

\* ProviderLimitError from the embedder, kept until the other sources have ended.
SourceLimit(p, s) ==
    /\ tx[p][s] = "embedding"
    /\ Close(p, s, "limit")
    /\ UNCHANGED <<watched, stored, runVars, outVars>>

\* upsert_news_item looks the URL up among the rows this transaction sees.
LookUp(p, s, i) ==
    /\ tx[p][s] = "open"
    /\ ins[p][s] = NoItem
    /\ i \in left[p][s]
    /\ left' = [left EXCEPT ![p][s] = @ \ {i}]
    /\ ins' = [ins EXCEPT ![p][s] = IF i \in stored \cup mine[p][s] THEN NoItem ELSE i]
    /\ UNCHANGED <<watched, stored, runVars, tx, mine, outVars>>

\* Another open transaction has inserted the URL.
Held(p, s, i) ==
    \E q \in Polls, r \in Sources : (q # p \/ r # s) /\ i \in mine[q][r]

\* Seeded fault: no unique index on the URL.
InsertUnchecked(p, s) ==
    /\ tx[p][s] = "open"
    /\ ins[p][s] # NoItem
    /\ mine' = [mine EXCEPT ![p][s] = @ \cup {ins[p][s]}]
    /\ ins' = [ins EXCEPT ![p][s] = NoItem]
    /\ UNCHANGED <<watched, stored, runVars, tx, left, outVars>>

\* ... and the flush of a new row goes through.
Insert(p, s) ==
    /\ tx[p][s] = "open"
    /\ ins[p][s] # NoItem
    /\ ins[p][s] \notin stored
    /\ ~Held(p, s, ins[p][s])
    /\ mine' = [mine EXCEPT ![p][s] = @ \cup {ins[p][s]}]
    /\ ins' = [ins EXCEPT ![p][s] = NoItem]
    /\ UNCHANGED <<watched, stored, runVars, tx, left, outVars>>

\* Seeded fault: the ids are returned although the rows are rolled back.
SourceFailsKeepsIds(p, s) ==
    /\ tx[p][s] \in {"waiting", "embedding", "open"}
    /\ found' = [found EXCEPT ![p] = @ \cup IF s \in snap[p] THEN mine[p][s] ELSE {}]
    /\ Close(p, s, "ended")
    /\ UNCHANGED <<watched, stored, pollPc, pollAttempts, snap, outVars>>

\* The per-source timeout, an embedding error, an insert that another
\* transaction's commit makes an IntegrityError or that Postgres aborts to
\* end a deadlock, a failed commit: the source is rolled back and over.
SourceFails(p, s) ==
    /\ tx[p][s] \in {"waiting", "embedding", "open"}
    /\ Close(p, s, "ended")
    /\ UNCHANGED <<watched, stored, runVars, outVars>>

\* Seeded fault: event_item_ids assigned where it should be extended.
CommitOverwrites(p, s) ==
    /\ tx[p][s] = "open"
    /\ left[p][s] = {}
    /\ ins[p][s] = NoItem
    /\ stored' = stored \cup mine[p][s]
    /\ found' = [found EXCEPT ![p] = IF s \in snap[p] THEN mine[p][s] ELSE {}]
    /\ wanted' = wanted \cup IF s \in snap[p] THEN mine[p][s] ELSE {}
    /\ Close(p, s, "ended")
    /\ UNCHANGED <<watched, pollPc, pollAttempts, snap, batches, dropped>>

\* All posts are dealt with: the rows are committed, and the poll keeps the
\* new ids when it counts the source as followed.
Commit(p, s) ==
    LET new == IF s \in snap[p] THEN mine[p][s] ELSE {} IN
    /\ tx[p][s] = "open"
    /\ left[p][s] = {}
    /\ ins[p][s] = NoItem
    /\ stored' = stored \cup mine[p][s]
    /\ found' = [found EXCEPT ![p] = @ \cup new]
    /\ wanted' = wanted \cup new
    /\ Close(p, s, "ended")
    /\ UNCHANGED <<watched, pollPc, pollAttempts, snap, batches, dropped>>

-----------------------------------------------------------------------------
(* The end of a poll.                                                      *)

\* The poll is over, or back in the queue; its open transactions are rolled back.
PollLeave(p, phase) ==
    /\ pollPc' = [pollPc EXCEPT ![p] = phase]
    /\ pollAttempts' = [pollAttempts EXCEPT ![p] = IF phase = "queued" THEN @ + 1 ELSE @]
    /\ snap' = [snap EXCEPT ![p] = {}]
    /\ found' = [found EXCEPT ![p] = {}]
    /\ tx' = [tx EXCEPT ![p] = [s \in Sources |-> "ended"]]
    /\ left' = [left EXCEPT ![p] = [s \in Sources |-> {}]]
    /\ ins' = [ins EXCEPT ![p] = [s \in Sources |-> NoItem]]
    /\ mine' = [mine EXCEPT ![p] = [s \in Sources |-> {}]]
    /\ UNCHANGED <<watched, stored, wanted>>

AllEnded(p) ==
    /\ pollPc[p] = "running"
    /\ \A s \in Sources : tx[p][s] \in {"ended", "limit"}

LimitHit(p) == \E s \in Sources : tx[p][s] = "limit"

\* The ids go out in one message; none, when nothing was found.
Send(p) ==
    /\ AllEnded(p)
    /\ ~LimitHit(p)
    /\ batches' = [i \in Items |-> batches[i] + IF i \in found[p] THEN 1 ELSE 0]
    /\ PollLeave(p, "done")
    /\ UNCHANGED dropped

Unsent(p, phase) ==
    /\ dropped' = dropped \cup found[p]
    /\ PollLeave(p, phase)
    /\ UNCHANGED batches

\* Seeded fault: the retries have no limit.
RetryUncapped(p) ==
    /\ AllEnded(p)
    /\ LimitHit(p)
    /\ Unsent(p, "queued")

\* One source hit a provider limit: the whole poll is put back for later,
\* until the retries are used up, and the ids of the other sources are gone.
Retry(p) ==
    /\ AllEnded(p)
    /\ LimitHit(p)
    /\ Unsent(p, IF pollAttempts[p] < MaxAttempts THEN "queued" ELSE "failed")

\* The broker refuses the message.
SendFails(p) ==
    /\ AllEnded(p)
    /\ ~LimitHit(p)
    /\ found[p] # {}
    /\ Unsent(p, "failed")

\* The worker dies.
PollCrash(p) ==
    /\ pollPc[p] = "running"
    /\ Unsent(p, "lost")

-----------------------------------------------------------------------------

SourceStep(p, s) ==
    \/ \E S \in SUBSET Items : Fetch(p, s, S)
    \/ NothingFetched(p, s)
    \/ Embedded(p, s)
    \/ SourceLimit(p, s)
    \/ \E i \in Items : LookUp(p, s, i)
    \/ Insert(p, s)
    \/ SourceFails(p, s)
    \/ Commit(p, s)

\* All that happens to a poll, but for its message.
PollStep(p) ==
    \/ PollStart(p)
    \/ \E s \in Sources : SourceStep(p, s)
    \/ Retry(p)
    \/ SendFails(p)
    \/ PollCrash(p)

PollNext ==
    \/ \E s \in Sources : Watch(s)
    \/ \E p \in Polls : PollStep(p) \/ Send(p)

PollSpec == PollInit /\ [][PollNext]_pollVars

-----------------------------------------------------------------------------
(* Properties.                                                             *)

PollTypeOK ==
    /\ watched \subseteq Sources
    /\ stored \subseteq Items
    /\ pollPc \in [Polls -> {"queued", "running"} \cup PollEnded]
    /\ pollAttempts \in [Polls -> 0..MaxAttempts]
    /\ snap \in [Polls -> SUBSET Sources]
    /\ tx \in [Polls -> [Sources -> {"waiting", "embedding", "open", "ended", "limit"}]]
    /\ left \in [Polls -> [Sources -> SUBSET Items]]
    /\ ins \in [Polls -> [Sources -> Items \cup {NoItem}]]
    /\ mine \in [Polls -> [Sources -> SUBSET Items]]
    /\ found \in [Polls -> SUBSET Items]
    /\ batches \in [Items -> Nat]
    /\ wanted \subseteq Items
    /\ dropped \subseteq Items

\* No item is in two messages, and none is in a message that is still to be
\* sent when it has been in one, although polls overlap, are repeated as a
\* whole and meet the same URL in two feeds.
BatchedOnce ==
    \A i \in Items :
        /\ batches[i] <= 1
        /\ \A p, q \in Polls : i \in found[p] \cap found[q] => p = q
        /\ \A p \in Polls : i \in found[p] => batches[i] = 0

\* An id in a message is the id of a committed row: the batch task finds it.
BatchedIsStored == \A i \in Items : batches[i] > 0 => i \in stored

\* A row that is inserted and not committed is in one transaction only, and
\* has no committed twin.
OneInserter ==
    /\ \A p, q \in Polls, r, s \in Sources :
          (p # q \/ r # s) => mine[p][r] \cap mine[q][s] = {}
    /\ \A p \in Polls, s \in Sources : mine[p][s] \cap stored = {}

\* What a poll is to pass on is stored.
FoundIsStored == \A p \in Polls : found[p] \subseteq stored

\* The inductive invariant behind the two properties of the messages.
PollInv == PollTypeOK /\ OneInserter /\ FoundIsStored /\ BatchedIsStored /\ BatchedOnce

\* An item that was new in a source the poll counted as followed is on its
\* way to the event subscriptions or was sent, unless its poll ended without
\* sending anything.
NothingForgotten ==
    wanted \subseteq dropped \cup {i \in Items : batches[i] > 0} \cup UNION {found[p] : p \in Polls}

=============================================================================
