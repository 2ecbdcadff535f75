--------------------------- MODULE DigestPipeline ---------------------------
(***************************************************************************)
(* How a digest comes about: the writer and the judge, the reflector, and  *)
(* the contribution streaks of the sources that the reflector goes by.     *)
(*                                                                         *)
(* A digest is one transaction from the first read to the delivery.  The   *)
(* writer drafts, the judge passes it or asks for a revision.  If there is *)
(* a reason (a refused draft, a source that has drifted, fallen silent or  *)
(* not contributed to a number of digests in a row) the reflector agent    *)
(* looks at the sources, removes some and may ask for a discovery.  Then   *)
(* sent_items rows are inserted and the streaks moved on.  Beside it a     *)
(* nightly task recomputes every streak from the sent rows.  The ORM       *)
(* writes only the columns whose value it has changed; an UPDATE waits for *)
(* an open transaction that has written the row.                           *)
(***************************************************************************)
EXTENDS Naturals, Sequences, FiniteSets

CONSTANTS
    Sources,
    Items,         \* news items, all of them published
    SourceOf,      \* Items -> Sources
    Ill,           \* sources that have drifted or fallen silent
    Phantom,       \* an id that the writer has made up
    MaxRevisions,  \* _MAX_REVISIONS
    Window,        \* _DIGEST_WINDOW of the nightly task
    Threshold      \* reflector_contribution_streak_threshold

ASSUME PipelineAssumption ==
    /\ Ill \subseteq Sources
    /\ SourceOf \in [Items -> Sources]
    /\ Phantom \notin Items
    /\ IsFiniteSet(Items)
    /\ MaxRevisions \in Nat \ {0}
    /\ Window \in Nat
    /\ Threshold \in Nat

VARIABLES
    links,         \* the subscription's sources
    named,         \* those with is_user_specified
    streak,        \* digests_since_last_contribution of each link
    rows,          \* sent_items, the newest first
    pc,            \* where the digest is
    cand,          \* the candidates
    revision,      \* refused drafts
    draft,         \* used_item_ids of the last draft
    quality,       \* what the judge said last, "none" if it failed
    dropped,       \* links the reflector has deleted
    base,          \* the streaks the digest has read
    marked,        \* the links whose streak it has moved
    night,         \* the nightly task: "idle" or "open"
    nightRows,     \* the sent rows it has read
    nightBase,     \* the streaks it has read
    nightLinks,    \* the links it has read, still there
    nightLost,     \* a link it has read is gone
    since,         \* history: recorded digests since a link contributed
    latest,        \* history: the sources of the digest recorded last
    raced          \* history: streaks that a night or a digest wrote from an older read

linkVars == <<links, named>>
draftVars == <<cand, revision, draft, quality>>
nightVars == <<night, nightRows, nightBase, nightLinks, nightLost>>
vars == <<linkVars, streak, rows, pc, draftVars, dropped, base,
          marked, nightVars, since, latest, raced>>

RangeOf(s) == {s[i] : i \in DOMAIN s}
Sent == RangeOf(rows)

\* A digest's transaction is open in all of these but "idle".
Phases == {"idle", "writing", "judging", "drafted", "reflecting", "marking",
           "flushing", "delivering"}

Init ==
    /\ links \in SUBSET Sources /\ named \in SUBSET links
    /\ streak = [s \in Sources |-> 0]
    /\ rows = <<>>
    /\ pc = "idle"
    /\ cand = {} /\ revision = 0 /\ draft = {} /\ quality = "none"
    /\ dropped = {}
    /\ base = [s \in Sources |-> 0] /\ marked = {}
    /\ night = "idle" /\ nightRows = <<>>
    /\ nightBase = [s \in Sources |-> 0]
    /\ nightLinks = {} /\ nightLost = FALSE
    /\ since = [s \in Sources |-> 0]
    /\ latest = {} /\ raced = {}

----------------------------------------------------------------------------
(* Links come and go.                                                      *)

\* The user or a discovery attaches a source: a new row.
Attach(s, byUser) ==
    /\ s \notin links
    /\ links' = links \cup {s}
    /\ named' = IF byUser THEN named \cup {s} ELSE named
    /\ streak' = [streak EXCEPT ![s] = 0]
    /\ since' = [since EXCEPT ![s] = 0]
    /\ raced' = raced \ {s}
    /\ UNCHANGED <<rows, pc, draftVars, dropped, base, marked, nightVars, latest>>

\* Links that are gone, seen by the nightly task.
NightLoses(S) ==
    /\ nightLost' = (nightLost \/ nightLinks \cap S # {})
    /\ nightLinks' = nightLinks \ S
    /\ UNCHANGED <<night, nightRows, nightBase>>

\* The user removes one that no open transaction has written.
Detach(s) ==
    /\ s \in links \ (dropped \cup marked)
    /\ links' = links \ {s}
    /\ named' = named \ {s}
    /\ NightLoses({s})
    /\ UNCHANGED <<streak, rows, pc, draftVars, dropped, base,
                   marked, since, latest, raced>>

----------------------------------------------------------------------------
(* Writing and judging.                                                    *)

\* The digest is over: its session is closed.
Close ==
    /\ pc' = "idle"
    /\ cand' = {} /\ revision' = 0 /\ draft' = {} /\ quality' = "none"
    /\ dropped' = {}
    /\ base' = [s \in Sources |-> 0] /\ marked' = {}

\* ... without a commit.
Rollback ==
    /\ Close
    /\ UNCHANGED <<linkVars, streak, rows, nightVars, since, latest, raced>>

\* The candidates: items of the linked sources that were not sent, some of
\* them (which they are is for DigestDelivery).
Fetch(C) ==
    /\ pc = "idle"
    /\ C # {}
    /\ \A i \in C : SourceOf[i] \in links /\ i \notin Sent
    /\ cand' = C
    /\ pc' = "writing"
    /\ UNCHANGED <<linkVars, streak, rows, revision, draft, quality,
                   dropped, base, marked, nightVars, since, latest, raced>>

\* What the writer has submitted last, in any mixture of real and made-up ids.
Write(U) ==
    /\ pc = "writing"
    /\ U # {} /\ U \subseteq cand \cup {Phantom}
    /\ draft' = U
    /\ pc' = "judging"
    /\ UNCHANGED <<linkVars, streak, rows, cand, revision, quality,
                   dropped, base, marked, nightVars, since, latest, raced>>

\* It submitted no item, ended without a submission, or failed; for a provider
\* limit too: the agent's model raises litellm's errors, and write_digest
\* makes a RuntimeError of whatever it gets.
NothingWritten ==
    /\ pc = "writing"
    /\ Rollback

\* Seeded fault: > for >=.
OutOfRevisionsLate(n) == n > MaxRevisions

\* No more than _MAX_REVISIONS drafts.
OutOfRevisions(n) == n >= MaxRevisions

\* The judge refuses: the writer is asked again, or the draft goes out as it is.
Refuse ==
    /\ pc = "judging"
    /\ quality' = "REVISE"
    /\ revision' = revision + 1
    /\ pc' = IF OutOfRevisions(revision') THEN "drafted" ELSE "writing"
    /\ UNCHANGED <<linkVars, streak, rows, cand, draft, dropped, 
                   base, marked, nightVars, since, latest, raced>>

Accept ==
    /\ pc = "judging"
    /\ quality' = "PASS"
    /\ pc' = "drafted"
    /\ UNCHANGED <<linkVars, streak, rows, cand, revision, draft,
                   dropped, base, marked, nightVars, since, latest, raced>>

\* Seeded fault: the last verdict stays.
UnjudgedAsBefore == quality

\* Any error of the judge, a provider limit too: the draft goes out, and what
\* was said of an earlier one is forgotten.
Unjudged == "none"

JudgeFails ==
    /\ pc = "judging"
    /\ quality' = Unjudged
    /\ pc' = "drafted"
    /\ UNCHANGED <<linkVars, streak, rows, cand, revision, draft,
                   dropped, base, marked, nightVars, since, latest, raced>>

----------------------------------------------------------------------------
(* The reflector.                                                          *)

\* validate_used_item_ids
Real(U) == U \cap cand

Reasons ==
    \/ quality = "REVISE"
    \/ \E s \in links : s \in Ill \/ streak[s] >= Threshold

\* Phantoms are dropped, nothing left: no digest.  The reflector is run if
\* there is a reason for it and the reasons could be computed.
Check(computed) ==
    /\ pc = "drafted"
    /\ IF Real(draft) = {}
       THEN Rollback
       ELSE /\ draft' = Real(draft)
            /\ pc' = IF computed /\ Reasons THEN "reflecting" ELSE "marking"
            /\ UNCHANGED <<linkVars, streak, rows, cand, revision, quality,
                           dropped, base, marked, nightVars, since, latest, raced>>

\* remove_source: not what the user has named.
Removable == links \ named

RemoveSource(s) ==
    /\ pc = "reflecting"
    /\ s \in Removable \ dropped
    /\ dropped' = dropped \cup {s}
    /\ UNCHANGED <<linkVars, streak, rows, pc, draftVars, base,
                   marked, nightVars, since, latest, raced>>

\* The agent has ended, or an error of it is logged: what it has removed stays
\* removed.  A discovery it wants (trigger_source_discovery) is queued now,
\* before anything is committed, and attaches its sources at any time.
ReflectorEnds ==
    /\ pc = "reflecting"
    /\ pc' = "marking"
    /\ UNCHANGED <<linkVars, streak, rows, draftVars, dropped, base,
                   marked, nightVars, since, latest, raced>>

----------------------------------------------------------------------------
(* Recording.                                                              *)

\* _mark_as_sent and the reading of the streaks.
Mark ==
    /\ pc = "marking"
    /\ marked' = links \ dropped
    /\ base' = streak
    /\ pc' = "flushing"
    /\ UNCHANGED <<linkVars, streak, rows, draftVars, dropped, 
                   nightVars, since, latest, raced>>

\* The streaks are written when no other transaction holds the rows.
Flush ==
    /\ pc = "flushing"
    /\ pc' = "delivering"
    /\ UNCHANGED <<linkVars, streak, rows, draftVars, dropped, base,
                   marked, nightVars, since, latest, raced>>

Contributing == {SourceOf[i] : i \in draft}

\* Seeded fault: only contributing sources are written.
MovedIfContributing(s) == IF s \in Contributing THEN 0 ELSE base[s]

\* digests_since_last_contribution after this digest.
Moved(s) == IF s \in Contributing THEN 0 ELSE base[s] + 1

\* The frontend has accepted the digest: everything is committed.  The rows
\* of one digest have sent_at of their own, in any order.
Deliver(order) ==
    /\ pc = "delivering"
    /\ RangeOf(order) = draft
    /\ rows' = order \o rows
    /\ links' = links \ dropped
    /\ named' = named \ dropped
    /\ streak' = [s \in Sources |-> IF s \in marked /\ Moved(s) # base[s]
                                    THEN Moved(s) ELSE streak[s]]
    /\ since' = [s \in Sources |-> IF s \in Contributing THEN 0
                                   ELSE IF s \in marked THEN since[s] + 1 ELSE since[s]]
    /\ latest' = Contributing
    /\ raced' = (raced \cup {s \in marked : streak[s] # base[s]}) \ Contributing
    /\ NightLoses(dropped)
    /\ Close

\* The delivery fails, an INSERT or UPDATE does, or the worker dies.
Fail ==
    /\ pc # "idle"
    /\ Rollback

----------------------------------------------------------------------------
(* The nightly task.                                                       *)

NightRead ==
    /\ night = "idle"
    /\ night' = "open"
    /\ nightRows' = rows
    /\ nightBase' = streak
    /\ nightLinks' = links
    /\ nightLost' = FALSE
    /\ UNCHANGED <<linkVars, streak, rows, pc, draftVars, dropped, base,
                   marked, since, latest, raced>>

NightEnds == night' = "idle" /\ nightRows' = <<>> /\ nightLinks' = {} /\ nightLost' = FALSE
             /\ nightBase' = [s \in Sources |-> 0]

\* The rows before the first of the source's, Window at most: each row has a
\* sent_at of its own, so that each is a "digest".
Before(s) ==
    {n \in 1..Len(nightRows) :
        n <= Window /\ \A m \in 1..n : SourceOf[nightRows[m]] # s}
CountOf(S) == IF S = {} THEN 0 ELSE CHOOSE n \in S : \A m \in S : m <= n
Recomputed(s) == CountOf(Before(s))

\* All subscriptions' streaks in one commit, which waits for a digest that
\* has written its own.
NightCommit ==
    /\ night = "open"
    /\ ~nightLost
    /\ pc # "delivering" /\ dropped \cap nightLinks = {}
    /\ LET written == {s \in nightLinks : Recomputed(s) # nightBase[s]}
       IN  /\ streak' = [s \in Sources |-> IF s \in written THEN Recomputed(s) ELSE streak[s]]
           /\ raced' = IF rows = nightRows THEN raced \ written ELSE raced \cup written
    /\ NightEnds
    /\ UNCHANGED <<linkVars, rows, pc, draftVars, dropped, base, marked, since, latest>>

\* A link it has read is gone: the UPDATE matches no row, and the night's
\* work for all subscriptions is rolled back.  So it is for any error.
NightFails ==
    /\ night = "open"
    /\ NightEnds
    /\ UNCHANGED <<linkVars, streak, rows, pc, draftVars, dropped, base,
                   marked, since, latest, raced>>

----------------------------------------------------------------------------
\* The orders in which a digest's rows may be stamped.
Orders(U) == {f \in [1..Cardinality(U) -> U] : RangeOf(f) = U}

Digest ==
    \/ \E C \in SUBSET Items : Fetch(C)
    \/ \E U \in SUBSET (cand \cup {Phantom}) : Write(U)
    \/ NothingWritten \/ Refuse \/ Accept \/ JudgeFails
    \/ \E c \in BOOLEAN : Check(c)
    \/ \E s \in Sources : RemoveSource(s)
    \/ ReflectorEnds
    \/ Mark \/ Flush \/ Fail
    \/ \E order \in Orders(draft) : Deliver(order)

Next ==
    \/ \E s \in Sources, byUser \in BOOLEAN : Attach(s, byUser)
    \/ \E s \in Sources : Detach(s)
    \/ Digest
    \/ NightRead \/ NightCommit \/ NightFails

Spec == Init /\ [][Next]_vars

----------------------------------------------------------------------------
(* Properties.                                                             *)

TypeOK ==
    /\ links \subseteq Sources /\ named \subseteq links
    /\ streak \in [Sources -> Nat]
    /\ rows \in Seq(Items)
    /\ pc \in Phases
    /\ cand \subseteq Items
    /\ revision \in 0..MaxRevisions
    /\ draft \subseteq Items \cup {Phantom}
    /\ quality \in {"none", "PASS", "REVISE"}
    /\ dropped \subseteq links
    /\ base \in [Sources -> Nat]
    /\ marked \subseteq links
    /\ night \in {"idle", "open"}
    /\ nightRows \in Seq(Items)
    /\ nightBase \in [Sources -> Nat]
    /\ nightLinks \subseteq links
    /\ nightLost \in BOOLEAN
    /\ since \in [Sources -> Nat]
    /\ latest \subseteq Sources /\ raced \subseteq Sources

\* The reflector acts on what is so: the refusal it is told of is of the draft
\* that goes out, after the last revision and not of an earlier one
\* (generate_digest), and what it removes is not what the user has named,
\* whatever is attached and detached while it runs (remove_source).
ReflectorActsOnFacts ==
    /\ quality = "REVISE" /\ pc \notin {"idle", "writing", "judging"} =>
           revision = MaxRevisions
    /\ dropped \cap named = {}

Least(m, n) == IF m < n THEN m ELSE n

\* A link's streak is not less than the digests recorded since the source
\* contributed (as far as the nightly task looks back), so that a source
\* that is of no use comes to the reflector's notice: rollbacks, the nightly
\* task and links made and removed beside a digest keep it so.  The
\* exceptions are lost updates: a night that read its rows before a digest was
\* recorded, and a digest that read a streak before a night wrote it.
StreakCoversDigests ==
    \A s \in links \ raced : Least(since[s], Window) <= streak[s]

\* What the nightly task says of the streak (update_subscription_source_stats.py,
\* its first comment): "reset to 0 when the source contributes to a digest".
ContributorHasNoStreak ==
    \A s \in (links \cap latest) \ raced : streak[s] = 0
=============================================================================
