----------------------------- MODULE SourcePool -----------------------------
(***************************************************************************)
(* Subscriptions, the sources they follow, and the shared source rows.     *)
(*                                                                         *)
(* A sources row is shared by every subscription that follows it: it keeps *)
(* subscriber_count, and is_active says whether the poll fetches it.  The  *)
(* conversational agent's tools create, stop, resume, delete, share and    *)
(* import subscriptions and attach and detach sources; the discovery task  *)
(* attaches what its agent has selected; the reflector of a digest detaches*)
(* sources that the user has not named.                                    *)
(*                                                                         *)
(* Each of these is a transaction of its own, under READ COMMITTED and     *)
(* without row locks: it reads a row, computes the new count in Python and *)
(* writes the number at the commit.  The ORM writes only columns whose     *)
(* value it has changed, so is_active = True on a row that was read active *)
(* writes nothing.  The caps are counted before the work and not after it. *)
(* A discovery loads the rows of similar sources when it starts and keeps  *)
(* them in its session: what it reads minutes later may be those copies.   *)
(***************************************************************************)
EXTENDS Naturals, FiniteSets

CONSTANTS
    Users,
    Subs,          \* subscription ids
    Owner,         \* Subs -> Users
    Sources,       \* source URLs
    Workers,       \* requests and tasks that may be at work at once
    NoSub,         \* not a subscription
    Cap,           \* max_active_subscriptions_per_user
    HardCap,       \* source_hard_cap
    MaxJobs        \* bound: so many jobs are started

ASSUME PoolAssumption ==
    /\ Owner \in [Subs -> Users]
    /\ NoSub \notin Subs
    /\ Cap \in Nat \ {0}
    /\ HardCap \in Nat
    /\ MaxJobs \in Nat
    /\ IsFiniteSet(Subs)
    /\ IsFiniteSet(Sources)
    /\ IsFiniteSet(Workers)

VARIABLES
    sub,           \* "none", "running", "stopped" (paused_at), "deleted" (not is_active)
    known,         \* the sources that have a row
    active,        \* is_active of the rows
    count,         \* subscriber_count of the rows
    links,         \* subscription_sources: pairs <<subscription, source>>
    named,         \* the links with is_user_specified
    removed,       \* source_removal_log within the lockout
    job,           \* what each worker is doing, on which subscription
    jobs,          \* how many have been started
    todo,          \* sources its transaction has still to ensure
    had,           \* sources its subscription had when a discovery started
    locked,        \* sources locked out then
    base,          \* subscriber_count of each row as it has read it
    was,           \* rows it has read as active
    wrote,         \* existing rows its transaction updates
    fresh,         \* rows its transaction has inserted
    new,           \* sources its transaction links
    raced,         \* history: rows overwritten from a copy that was out of date
    uncounted,     \* history: links made without raising the count
    since          \* sources detached from its subscription since the job began

rowVars == <<known, active, count, raced>>
linkVars == <<links, named, removed, uncounted>>
txVars == <<jobs, todo, had, locked, base, was, wrote, fresh, new, since>>
vars == <<sub, rowVars, linkVars, job, txVars>>

Idle == [op |-> "idle", sub |-> NoSub, from |-> NoSub]
Job(op, s) == [op |-> op, sub |-> s, from |-> NoSub]
Ops == {"idle", "create", "add", "remove", "load", "discover", "resume", "import"}

\* The operations that have passed the check of the cap and will add a
\* running subscription.
Starting == {"create", "resume", "import"}

LinksOf(s) == {u \in Sources : <<s, u>> \in links}
Followers(u) == {s \in Subs : <<s, u>> \in links}
Running(a) == {s \in Subs : Owner[s] = a /\ sub[s] = "running"}
Active(a) == {s \in Subs : Owner[s] = a /\ sub[s] \in {"running", "stopped"}}
Free(s) == sub[s] = "none" /\ \A w \in Workers : job[w].sub # s

Init ==
    /\ sub = [s \in Subs |-> "none"]
    /\ known = {} /\ active = {}
    /\ count = [u \in Sources |-> 0]
    /\ links = {} /\ named = {} /\ removed = {}
    /\ job = [w \in Workers |-> Idle]
    /\ jobs = 0
    /\ todo = [w \in Workers |-> {}]
    /\ had = [w \in Workers |-> {}]
    /\ locked = [w \in Workers |-> {}]
    /\ base = [w \in Workers |-> [u \in Sources |-> 0]]
    /\ was = [w \in Workers |-> {}]
    /\ wrote = [w \in Workers |-> {}]
    /\ fresh = [w \in Workers |-> {}]
    /\ new = [w \in Workers |-> {}]
    /\ raced = {} /\ uncounted = {}
    /\ since = [w \in Workers |-> {}]

\* A worker starts a job with these sources to ensure; the rest of its
\* transaction is empty.
Begin(w, j, U) ==
    /\ job[w] = Idle
    /\ jobs < MaxJobs
    /\ jobs' = jobs + 1
    /\ job' = [job EXCEPT ![w] = j]
    /\ todo' = [todo EXCEPT ![w] = U]

\* The end of a job: what the transaction has read and written is forgotten.
End(w) ==
    /\ UNCHANGED jobs
    /\ job' = [job EXCEPT ![w] = Idle]
    /\ todo' = [todo EXCEPT ![w] = {}]
    /\ had' = [had EXCEPT ![w] = {}]
    /\ locked' = [locked EXCEPT ![w] = {}]
    /\ base' = [base EXCEPT ![w] = [u \in Sources |-> 0]]
    /\ was' = [was EXCEPT ![w] = {}]
    /\ wrote' = [wrote EXCEPT ![w] = {}]
    /\ fresh' = [fresh EXCEPT ![w] = {}]
    /\ new' = [new EXCEPT ![w] = {}]
    /\ since' = [since EXCEPT ![w] = {}]

----------------------------------------------------------------------------
(* Creating, stopping, resuming, deleting, sharing and importing.          *)

\* Seeded fault: <= for <.
BelowCapOrAtIt(a) == Cardinality(Running(a)) <= Cap

\* The check of the cap, with what is committed at that time.
BelowCap(a) == Cardinality(Running(a)) < Cap

\* create_subscription has counted the running subscriptions; the row and
\* the sources the user has named follow.
StartCreate(w, s, U) ==
    /\ Free(s)
    /\ BelowCap(Owner[s])
    /\ Begin(w, Job("create", s), U)
    /\ UNCHANGED <<sub, rowVars, linkVars,
                   had, locked, base, was, wrote, fresh, new, since>>

\* stop_subscription, confirmed.
Stop(s) ==
    /\ sub[s] = "running"
    /\ sub' = [sub EXCEPT ![s] = "stopped"]
    /\ UNCHANGED <<rowVars, linkVars, job, txVars>>

\* delete_subscription, confirmed: links, counts and is_active of the
\* sources stay as they are.
Delete(s) ==
    /\ sub[s] \in {"running", "stopped"}
    /\ sub' = [sub EXCEPT ![s] = "deleted"]
    /\ UNCHANGED <<rowVars, linkVars, job, txVars>>

\* resume_subscription counts in the request's session ...
StartResume(w, s) ==
    /\ sub[s] # "none"
    /\ BelowCap(Owner[s])
    /\ Begin(w, Job("resume", s), {})
    /\ UNCHANGED <<sub, rowVars, linkVars,
                   had, locked, base, was, wrote, fresh, new, since>>

\* ... and writes paused_at in another.
Resume(w) ==
    /\ job[w].op = "resume"
    /\ sub' = IF sub[job[w].sub] = "stopped"
              THEN [sub EXCEPT ![job[w].sub] = "running"] ELSE sub
    /\ End(w)
    /\ UNCHANGED <<rowVars, linkVars>>

\* import_shared_subscription with a token of f (a token can be minted at
\* any time before the deletion): its cap counts stopped subscriptions too.
Redeem(w, s, f) ==
    /\ Free(s)
    /\ sub[f] \in {"running", "stopped"} /\ Owner[f] # Owner[s]
    /\ Cardinality(Active(Owner[s])) < Cap
    /\ Begin(w, [op |-> "import", sub |-> s, from |-> f], {})
    /\ UNCHANGED <<sub, rowVars, linkVars, had, locked, base, was, wrote, fresh, new, since>>

\* The copy, with every link of the original and no change to a count.
Import(w) ==
    LET s == job[w].sub
        f == job[w].from
        copied == {s} \X LinksOf(f)
    IN  /\ job[w].op = "import"
        /\ IF sub[f] \in {"running", "stopped"}
           THEN /\ sub' = [sub EXCEPT ![s] = "running"]
                /\ links' = links \cup copied
                /\ named' = named \cup {p \in copied : <<f, p[2]>> \in named}
                /\ uncounted' = uncounted \cup copied
           ELSE UNCHANGED <<sub, links, named, uncounted>>
        /\ End(w)
        /\ UNCHANGED <<rowVars, removed>>

----------------------------------------------------------------------------
(* Attaching and detaching one source.                                     *)

\* add_source: the subscription is not deleted and the source not attached.
StartAdd(w, s, u) ==
    /\ sub[s] \in {"running", "stopped"}
    /\ <<s, u>> \notin links
    /\ Begin(w, Job("add", s), {u})
    /\ UNCHANGED <<sub, rowVars, linkVars,
                   had, locked, base, was, wrote, fresh, new, since>>

\* remove_source, confirmed: the link and the row are read.
StartRemove(w, s, u) ==
    /\ <<s, u>> \in links
    /\ Begin(w, Job("remove", s), {})
    /\ base' = [base EXCEPT ![w][u] = count[u]]
    /\ was' = [was EXCEPT ![w] = active \cap {u}]
    /\ wrote' = [wrote EXCEPT ![w] = {u}]
    /\ UNCHANGED <<sub, rowVars, linkVars, had, locked, fresh, new, since>>

\* remove_source of a digest's reflector: not what the user has named.
StartReflect(w, s, u) ==
    /\ sub[s] = "running"
    /\ <<s, u>> \notin named
    /\ StartRemove(w, s, u)

\* The row is not what the transaction has read of it.
Outdated(w, u) == count[u] # base[w][u] \/ (u \in active) # (u \in was[w])

\* Seeded fault: the count is not kept from going below 0.
LoweredBelowZero(n) == n - 1

\* subscriber_count - 1, not below 0.
Lowered(n) == IF n = 0 THEN 0 ELSE n - 1

\* The jobs to which a removal by another matters.
Watching == {"remove", "load", "discover"}

\* The link is deleted (if another removal has not) and the removal logged;
\* a row whose count comes to 0 is deactivated.  The reflector's removal is
\* part of the digest's transaction, after which it may ask for a discovery.
CommitRemove(w) ==
    LET s == job[w].sub
        gone == {s} \X (wrote[w] \ since[w])
        dead == {u \in wrote[w] : Lowered(base[w][u]) = 0}
    IN  /\ job[w].op = "remove"
        /\ links' = links \ gone
        /\ named' = named \ gone
        /\ removed' = removed \cup ({s} \X wrote[w])
        /\ count' = [u \in Sources |-> IF u \in wrote[w] THEN Lowered(base[w][u]) ELSE count[u]]
        /\ active' = active \ (dead \cap was[w])
        /\ raced' = raced \cup {u \in wrote[w] : Outdated(w, u) \/ u \in since[w]}
        /\ job' = [job EXCEPT ![w] = Idle]
        /\ base' = [base EXCEPT ![w] = [u \in Sources |-> 0]]
        /\ was' = [was EXCEPT ![w] = {}]
        /\ wrote' = [wrote EXCEPT ![w] = {}]
        /\ since' = [v \in Workers |-> CASE v = w -> {}
                                          [] v # w /\ job[v].sub = s /\ job[v].op \in Watching -> since[v] \cup wrote[w]
                                          [] OTHER -> since[v]]
        /\ UNCHANGED <<sub, known, uncounted, jobs, todo, had, locked, fresh, new>>

\* The removal is older than discovery_removal_lockout_days.
LockoutEnds(p) ==
    /\ p \in removed
    /\ removed' = removed \ {p}
    /\ UNCHANGED <<sub, rowVars, links, named, uncounted, job, txVars>>

----------------------------------------------------------------------------
(* Source discovery.                                                       *)

\* Seeded fault: the removal log is not read.
LockedOutNever(s) == {}

\* Sources removed from the subscription within the lockout.
LockedOut(s) == {u \in Sources : <<s, u>> \in removed}

\* A discovery task: a creation, a user or a reflector has asked for it (which
\* they may at any time).  It does nothing when the subscription is gone,
\* stopped or full.  What is attached, what is locked out and the rows of
\* active sources that resemble the topic are read; the agent starts.
StartDiscovery(w, s) ==
    /\ sub[s] = "running"
    /\ Cardinality(LinksOf(s)) < HardCap
    /\ Begin(w, Job("load", s), {})
    /\ had' = [had EXCEPT ![w] = LinksOf(s)]
    /\ locked' = [locked EXCEPT ![w] = LockedOut(s)]
    /\ base' = [base EXCEPT ![w] = [u \in Sources |-> IF u \in active THEN count[u] ELSE 0]]
    /\ was' = [was EXCEPT ![w] = active]
    /\ UNCHANGED <<sub, rowVars, linkVars, wrote, fresh, new, since>>

\* Seeded fault: room for one source too many.
FitsWithOneMore(w, U) == Cardinality(U) + Cardinality(had[w]) <= HardCap + 1

\* No more than the hard cap leaves room for (hard_max_new).
Fits(w, U) == Cardinality(U) + Cardinality(had[w]) <= HardCap

\* The agent has ended with a selection of other sources that fits under the
\* hard cap as it was read; only is_active is looked at again.
Select(w, U) ==
    /\ job[w].op = "load"
    /\ U \subseteq Sources \ (had[w] \cup locked[w])
    /\ Fits(w, U)
    /\ IF U = {} \/ sub[job[w].sub] = "deleted"
       THEN End(w)
       ELSE /\ job' = [job EXCEPT ![w].op = "discover"]
            /\ todo' = [todo EXCEPT ![w] = U]
            /\ UNCHANGED <<jobs, had, locked, base, was, wrote, fresh, new, since>>
    /\ UNCHANGED <<sub, rowVars, linkVars>>

----------------------------------------------------------------------------
(* ensure_source_coverage and the commit of what was attached.             *)

Ensuring == {"create", "add", "discover"}

\* A discovery adds no second link; the others link what they have ensured.
Links(w, u) == job[w].op # "discover" \/ <<job[w].sub, u>> \notin links

\* The row is there: its count is read, from the database or (a discovery)
\* from the copy the session has held since it started.
Ensure(w, u) ==
    /\ job[w].op \in Ensuring
    /\ u \in todo[w] \cap known
    /\ \/ /\ base' = [base EXCEPT ![w][u] = count[u]]
          /\ was' = [was EXCEPT ![w] = IF u \in active THEN @ \cup {u} ELSE @ \ {u}]
       \/ /\ job[w].op = "discover" /\ u \in was[w]
          /\ UNCHANGED <<base, was>>
    /\ todo' = [todo EXCEPT ![w] = @ \ {u}]
    /\ wrote' = [wrote EXCEPT ![w] = @ \cup {u}]
    /\ new' = [new EXCEPT ![w] = IF Links(w, u) THEN @ \cup {u} ELSE @]
    /\ UNCHANGED <<sub, rowVars, linkVars, job, jobs, had, locked, fresh, since>>

\* There is none and no other open transaction has inserted it: a row with
\* count 1.  (Who finds it inserted meanwhile waits, and then reads it.)
Insert(w, u) ==
    /\ job[w].op \in Ensuring
    /\ u \in todo[w] \ known
    /\ \A v \in Workers : u \notin fresh[v]
    /\ todo' = [todo EXCEPT ![w] = @ \ {u}]
    /\ fresh' = [fresh EXCEPT ![w] = @ \cup {u}]
    /\ new' = [new EXCEPT ![w] = @ \cup {u}]
    /\ UNCHANGED <<sub, rowVars, linkVars, job, jobs, had, locked, base, was,
                   wrote, since>>

\* No link that this transaction inserts is there already
\* (uq_subscription_source_subscription_source).
NoDuplicate(w) == \A u \in new[w] : <<job[w].sub, u>> \notin links

\* Seeded fault: adopting a row does not raise its count.
RaisedNot(n) == n

\* subscriber_count + 1.
Raised(n) == n + 1

\* Seeded fault: adopting a row leaves it inactive.
ReactivatedNot(w) == {}

\* is_active = True, where that changes what was read.
Reactivated(w) == wrote[w] \ was[w]

\* The transaction commits: absolute counts, is_active where it was read
\* False, new rows, links.
Commit(w) ==
    LET s == job[w].sub
        pairs == {s} \X new[w]
    IN  /\ job[w].op \in Ensuring
        /\ todo[w] = {}
        /\ NoDuplicate(w)
        /\ known' = known \cup fresh[w]
        /\ active' = active \cup Reactivated(w) \cup fresh[w]
        /\ count' = [u \in Sources |-> IF u \in fresh[w] THEN 1
                                       ELSE IF u \in wrote[w] THEN Raised(base[w][u])
                                       ELSE count[u]]
        /\ raced' = raced \cup {u \in wrote[w] : Outdated(w, u)}
        /\ links' = links \cup pairs
        /\ named' = IF job[w].op = "discover" THEN named ELSE named \cup pairs
        /\ IF job[w].op = "create"
           THEN sub' = [sub EXCEPT ![s] = "running"] ELSE UNCHANGED sub
        /\ End(w)
        /\ UNCHANGED <<removed, uncounted>>

\* A link is already there: the unique constraint fails the commit.
CommitCollides(w) ==
    /\ job[w].op \in Ensuring
    /\ todo[w] = {}
    /\ ~NoDuplicate(w)
    /\ End(w)
    /\ UNCHANGED <<sub, rowVars, linkVars>>

\* An error, a provider limit (the task comes back later), a deadlock between
\* two transactions' row locks, or the death of the process: rolled back.
Fail(w) ==
    /\ job[w] # Idle
    /\ End(w)
    /\ UNCHANGED <<sub, rowVars, linkVars>>

----------------------------------------------------------------------------
Work(w) ==
    \/ \E s \in Subs, U \in SUBSET Sources : StartCreate(w, s, U)
    \/ \E s \in Subs : StartResume(w, s) \/ StartDiscovery(w, s)
    \/ \E s, f \in Subs : Redeem(w, s, f)
    \/ \E s \in Subs, u \in Sources :
           StartAdd(w, s, u) \/ StartRemove(w, s, u) \/ StartReflect(w, s, u)
    \/ \E U \in SUBSET Sources : Select(w, U)
    \/ \E u \in Sources : Ensure(w, u) \/ Insert(w, u)
    \/ Resume(w) \/ Import(w) \/ CommitRemove(w) \/ Commit(w) \/ CommitCollides(w) \/ Fail(w)

Next ==
    \/ \E s \in Subs : Stop(s) \/ Delete(s)
    \/ \E w \in Workers : Work(w)
    \/ \E p \in Subs \X Sources : LockoutEnds(p)

Spec == Init /\ [][Next]_vars

----------------------------------------------------------------------------
(* Properties.                                                             *)

TypeOK ==
    /\ sub \in [Subs -> {"none", "running", "stopped", "deleted"}]
    /\ known \subseteq Sources /\ active \subseteq known
    /\ count \in [Sources -> Nat]
    /\ links \subseteq Subs \X Sources /\ named \subseteq links
    /\ removed \subseteq Subs \X Sources
    /\ job \in [Workers -> [op : Ops, sub : Subs \cup {NoSub}, from : Subs \cup {NoSub}]]
    /\ jobs \in Nat
    /\ todo \in [Workers -> SUBSET Sources]
    /\ had \in [Workers -> SUBSET Sources]
    /\ locked \in [Workers -> SUBSET Sources]
    /\ base \in [Workers -> [Sources -> Nat]]
    /\ was \in [Workers -> SUBSET Sources]
    /\ wrote \in [Workers -> SUBSET Sources]
    /\ fresh \in [Workers -> SUBSET Sources]
    /\ new \in [Workers -> SUBSET Sources]
    /\ raced \subseteq Sources /\ uncounted \subseteq Subs \X Sources
    /\ since \in [Workers -> SUBSET Sources]

Uncounted(u) == {s \in Subs : <<s, u>> \in uncounted}

\* subscriber_count covers the subscriptions that follow the source, but for
\* links an import made, unless the row was overwritten from an outdated
\* copy: no order of attaching, detaching, adopting another task's row,
\* rolling back and deleting makes the count too small.
CountCoversLinks ==
    \A u \in Sources \ raced :
        Cardinality(Followers(u)) <= count[u] + Cardinality(Uncounted(u))

\* A source that a running subscription follows is one the poll fetches,
\* unless its row was overwritten from an outdated copy or an import made
\* a link to it uncounted: coverage.py and the two remove_source.
FollowedIsPolled ==
    \A u \in Sources \ raced :
        (Uncounted(u) = {} /\ \E s \in Followers(u) : sub[s] = "running") => u \in active

\* The operations of a user that have passed the cap and not yet committed.
Pending(a) == {w \in Workers : job[w].op \in Starting /\ Owner[job[w].sub] = a}

\* The cap on running subscriptions is overrun only by operations that are
\* at work at the same time, one for each beyond the first: the check of
\* create, resume and import, which nothing repeats at the commit.
RunningWithinCap ==
    \A a \in Users :
        Cardinality(Running(a)) + Cardinality(Pending(a)) + 1 <= Cap + Cardinality(Workers)

\* The lockout: a discovery attaches a source that was removed from its
\* subscription only if that happened while it ran.
RemovedStaysOut ==
    \A w \in Workers : job[w].op = "discover" =>
        \A u \in new[w] : <<job[w].sub, u>> \in removed => u \in since[w]

\* A discovery whose subscription got no link from anybody else in its run
\* leaves it within the hard cap: the room it computed before the agent ran.
RoomKept ==
    \A w \in Workers :
        LET s == job[w].sub IN
        job[w].op = "discover" /\ LinksOf(s) \subseteq had[w] =>
            Cardinality(LinksOf(s) \cup todo[w] \cup new[w] \cup wrote[w]) <= HardCap

----------------------------------------------------------------------------
(* What the proofs of these need beyond them.                              *)

\* A worker that is at work is so on a subscription; a create or an import
\* has its subscription, which is not there yet, to itself.
JobsOK ==
    \A w \in Workers : job[w] # Idle =>
        /\ job[w].op # "idle" /\ job[w].sub \in Subs
        /\ job[w].op \in {"create", "import"} <=> sub[job[w].sub] = "none"
        /\ job[w].op \in {"create", "import"} =>
               \A v \in Workers : job[v].sub = job[w].sub => v = w
        /\ job[w].op = "import" => job[w].from \in Subs \ {job[w].sub}

\* A subscription that is not there has never been linked.
NoLinksYet ==
    \A s \in Subs : sub[s] = "none" =>
        \A u \in Sources : <<s, u>> \notin links \cup uncounted

\* Rows that are linked or updated are there; rows that are being inserted
\* are not, and by one transaction each.
RowsOK ==
    /\ \A s \in Subs, u \in Sources : <<s, u>> \in links => u \in known
    /\ \A w \in Workers :
          /\ wrote[w] \subseteq known /\ fresh[w] \cap known = {}
          /\ new[w] \subseteq wrote[w] \cup fresh[w]
          /\ \A v \in Workers : v # w => fresh[v] \cap fresh[w] = {}
          /\ job[w].op \notin Ensuring => new[w] = {} /\ fresh[w] = {}
          /\ job[w].op \notin Ensuring \cup {"remove"} => wrote[w] = {}

\* The link that a removal is about is there, or the removal knows it gone.
RemovalsOK ==
    \A w \in Workers : job[w].op = "remove" =>
        \A u \in wrote[w] \ since[w] : <<job[w].sub, u>> \in links

\* A source with a counted follower is active.
FollowedIsActive ==
    \A u \in Sources \ raced : Uncounted(u) = {} /\ Followers(u) # {} => u \in active

\* What is locked out now was so when a discovery began, or it has seen the
\* removal; what it attaches was not.
LockoutSeen ==
    \A w \in Workers : job[w].op \in {"load", "discover"} =>
        /\ LockedOut(job[w].sub) \subseteq locked[w] \cup since[w]
        /\ (todo[w] \cup new[w]) \cap locked[w] = {}

\* What a discovery has selected fits into the room it has computed.
SelectionFits ==
    \A w \in Workers : job[w].op = "discover" =>
        Fits(w, todo[w] \cup new[w] \cup wrote[w])

PoolInv ==
    /\ TypeOK /\ JobsOK /\ NoLinksYet /\ RowsOK /\ RemovalsOK
    /\ CountCoversLinks /\ FollowedIsActive
    /\ LockoutSeen /\ SelectionFits /\ RunningWithinCap
=============================================================================
