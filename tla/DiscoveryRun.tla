---------------------------- MODULE DiscoveryRun ----------------------------
(***************************************************************************)
(* One source discovery task: the orchestrating agent, the finders it      *)
(* spawns, what it selects, and what the user is told.                     *)
(*                                                                         *)
(* The agent's tool calls of one turn run concurrently: finders, a         *)
(* submission and an abort may overlap, on shared variables (candidate     *)
(* pool, selection, abort reason, spawn counter).  A finder is an agent of *)
(* its own that scores candidates for minutes; when it crashes, what it    *)
(* found is lost and the orchestrator reads a line of text.  Only the      *)
(* descriptions and embeddings of new sources raise ProviderLimitError,    *)
(* which repeats the task later; the agents' own models do not.            *)
(*                                                                         *)
(* URLs stand for their normalized form.                                   *)
(***************************************************************************)
EXTENDS Naturals, Sequences, FiniteSets

CONSTANTS
    Urls,
    Finders,       \* finders that may run at the same time
    HardCap,       \* source_hard_cap
    SpawnCap,      \* _SPAWN_FINDER_CAP
    MaxCalls,      \* bound: tool calls of the agent in a run
    MaxRetries     \* provider_failure_retry_max_attempts

ASSUME DiscoveryAssumption ==
    /\ IsFiniteSet(Urls) /\ IsFiniteSet(Finders)
    /\ HardCap \in Nat /\ SpawnCap \in Nat /\ MaxCalls \in Nat /\ MaxRetries \in Nat

VARIABLES
    phase,         \* where the task is
    attached,      \* the subscription's sources when the run has read them
    locked,        \* the sources locked out then
    links,         \* its sources now
    live,          \* "running", "stopped" or "deleted"
    finder,        \* "free", "running"
    found,         \* what each running finder has validated
    pool,          \* candidate_pool
    selected,      \* selected_urls
    aborted,       \* abort() has been accepted
    spawned,       \* spawn_counter
    calls,         \* turns of the agent in this run
    retries,       \* earlier attempts of the task
    told,          \* the notice to the user
    added          \* sources the task has committed

runVars == <<finder, found, pool, selected, aborted, spawned, calls>>
subVars == <<links, live>>
vars == <<phase, attached, locked, subVars, runVars, retries, told, added>>

RangeOf(s) == {s[i] : i \in DOMAIN s}
Phases == {"queued", "agent", "persist", "notify", "waiting", "done", "failed", "dead"}
Notices == {"nothing", "at capacity", "none", "none: aborted", "already attached", "attached"}
Ended == {"done", "failed", "dead"}

\* Seeded fault: the lockout is not excluded.
ExcludedAttached == attached

\* exclude_urls
Excluded == attached \cup locked

\* hard_max_new
Room == IF Cardinality(attached) < HardCap THEN HardCap - Cardinality(attached) ELSE 0

Init ==
    /\ phase = "queued"
    /\ attached = {} /\ locked = {}
    /\ links \in SUBSET Urls /\ live \in {"running", "stopped"}
    /\ finder = [f \in Finders |-> "free"]
    /\ found = [f \in Finders |-> {}]
    /\ pool = {} /\ selected = <<>> /\ aborted = FALSE
    /\ spawned = 0 /\ calls = 0 /\ retries = 0
    /\ told = "nothing" /\ added = {}

----------------------------------------------------------------------------
(* The task before and after the agent.                                    *)

\* The subscription is gone, stopped or full: nothing to do.  A full one is
\* told so.
Skip ==
    /\ phase = "queued"
    /\ live # "running" \/ Cardinality(links) >= HardCap
    /\ phase' = "notify"
    /\ told' = IF live = "running" THEN "at capacity" ELSE told
    /\ UNCHANGED <<attached, locked, subVars, runVars, retries, added>>

\* The attached sources and the lockout are read; the agent starts.
Start ==
    /\ phase = "queued"
    /\ live = "running" /\ Cardinality(links) < HardCap
    /\ attached' = links
    /\ locked' \in SUBSET (Urls \ links)
    /\ phase' = "agent"
    /\ UNCHANGED <<subVars, runVars, retries, told, added>>

\* Other tasks and the user change the subscription meanwhile.
Attach(u) == phase \notin Ended /\ u \notin links /\ links' = links \cup {u} /\ UNCHANGED live
Detach(u) == phase \notin Ended /\ u \in links /\ links' = links \ {u} /\ UNCHANGED live
Stop == phase \notin Ended /\ live = "running" /\ live' = "stopped" /\ UNCHANGED links
Delete == phase \notin Ended /\ live # "deleted" /\ live' = "deleted" /\ UNCHANGED links

Meanwhile ==
    /\ Stop \/ Delete \/ \E u \in Urls : Attach(u) \/ Detach(u)
    /\ UNCHANGED <<phase, attached, locked, runVars, retries, told, added>>

\* What comes out of a run: the selected URLs that the pool still has.
Selection == {u \in RangeOf(selected) : u \in pool}

\* The agent's final answer, when all its tool calls have returned: what is
\* selected is persisted, unless the subscription has been deleted.
AgentEnds ==
    /\ phase = "agent"
    /\ \A f \in Finders : finder[f] = "free"
    /\ IF Selection # {} /\ live # "deleted"
       THEN phase' = "persist" /\ UNCHANGED told
       ELSE /\ phase' = "notify"
            /\ told' = IF live = "deleted" THEN told
                       ELSE IF aborted THEN "none: aborted" ELSE "none"
    /\ UNCHANGED <<attached, locked, subVars, runVars, retries, added>>

\* Seeded fault: links are compared with those at the start.
UnlinkedAtStart == Selection \ attached

\* What is selected and not linked meanwhile.
Unlinked == Selection \ links

\* The commit of the new links; the notice counts them, and lists all that
\* was selected.
Persist ==
    /\ phase = "persist"
    /\ added' = Unlinked
    /\ links' = links \cup added'
    /\ told' = IF added' = {} THEN "already attached" ELSE "attached"
    /\ phase' = "notify"
    /\ UNCHANGED <<attached, locked, live, runVars, retries>>

\* The notice goes out if the subscription is still running; a delivery that
\* fails is swallowed.
Notify ==
    /\ phase = "notify"
    /\ phase' = "done"
    /\ told' = IF live = "running" THEN told ELSE "nothing"
    /\ UNCHANGED <<attached, locked, subVars, runVars, retries, added>>

NotifyFails ==
    /\ phase = "notify" /\ told # "nothing"
    /\ phase' = "done"
    /\ told' = "nothing"
    /\ UNCHANGED <<attached, locked, subVars, runVars, retries, added>>

\* The variables of a run are those of one call of run_source_discovery.
NoRun ==
    /\ finder' = [f \in Finders |-> "free"]
    /\ found' = [f \in Finders |-> {}]
    /\ pool' = {} /\ selected' = <<>> /\ aborted' = FALSE
    /\ spawned' = 0 /\ calls' = 0

\* Seeded fault: the retry is sent without its count.
NextRetryNotCounted(n) == n

\* The count of the retries goes with the message (self.request.retries).
NextRetry(n) == n + 1

\* A provider limit while the new sources are described: rolled back, and the
\* task comes back, or dies after the last retry.
LimitHit ==
    /\ phase = "persist"
    /\ NoRun
    /\ IF retries < MaxRetries
       THEN phase' = "waiting" /\ retries' = NextRetry(retries)
       ELSE phase' = "dead" /\ UNCHANGED retries
    /\ UNCHANGED <<attached, locked, subVars, told, added>>

ComeBack ==
    /\ phase = "waiting"
    /\ phase' = "queued"
    /\ UNCHANGED <<attached, locked, subVars, runVars, retries, told, added>>

\* Another error (a budget exceeded, a provider limit of the orchestrator, the
\* time limit, a unique link): rolled back, and the failure recorded.
Crash ==
    /\ phase \in {"agent", "persist"}
    /\ NoRun
    /\ phase' = "failed"
    /\ UNCHANGED <<attached, locked, subVars, retries, told, added>>

----------------------------------------------------------------------------
(* The tools of the agent.                                                 *)

\* A call of a tool takes (part of) a turn.
Call ==
    /\ phase = "agent"
    /\ calls < MaxCalls
    /\ calls' = calls + 1

\* Seeded fault: <= for <.
MaySpawnOneMore == spawned <= SpawnCap

\* spawn_finder, within its own cap.
MaySpawn == spawned < SpawnCap

Spawn(f) ==
    /\ Call
    /\ MaySpawn
    /\ finder[f] = "free"
    /\ finder' = [finder EXCEPT ![f] = "running"]
    /\ spawned' = spawned + 1
    /\ UNCHANGED <<phase, attached, locked, subVars, retries, told, added,
                   found, pool, selected, aborted>>

\* A finder has fetched a source and scored it: not dormant, with posts.  It
\* knows the excluded URLs, but only in their normalized spelling.
Validate(f, u) ==
    /\ phase = "agent" /\ finder[f] = "running"
    /\ u \notin found[f]
    /\ found' = [found EXCEPT ![f] = @ \cup {u}]
    /\ UNCHANGED <<phase, attached, locked, subVars, retries, told, added,
                   finder, pool, selected, aborted, spawned, calls>>

\* What of a finder's sources joins the pool: the exclusion is checked again.
Fresh(f) == found[f] \ Excluded

\* The finder's own agent has ended, and it returns all that it has validated.
Return(f) ==
    /\ phase = "agent" /\ finder[f] = "running"
    /\ pool' = pool \cup Fresh(f)
    /\ finder' = [finder EXCEPT ![f] = "free"]
    /\ found' = [found EXCEPT ![f] = {}]
    /\ UNCHANGED <<phase, attached, locked, subVars, retries, told, added,
                   selected, aborted, spawned, calls>>

\* A finder raises, for a provider limit too: "finder crashed".
FinderCrashes(f) ==
    /\ phase = "agent" /\ finder[f] = "running"
    /\ finder' = [finder EXCEPT ![f] = "free"]
    /\ found' = [found EXCEPT ![f] = {}]
    /\ UNCHANGED <<phase, attached, locked, subVars, retries, told, added,
                   pool, selected, aborted, spawned, calls>>

\* What a submission of these URLs selects: nothing if one is unknown, and no
\* more than fit.
Cut(s) == IF Len(s) > Room THEN SubSeq(s, 1, Room) ELSE s

Acceptable(s) == RangeOf(s) \subseteq pool

\* submit_selection replaces what an earlier call has selected.
Submit(s) ==
    /\ Call
    /\ s # <<>>
    /\ Acceptable(s)
    /\ selected' = Cut(s)
    /\ UNCHANGED <<phase, attached, locked, subVars, retries, told, added,
                   finder, found, pool, aborted, spawned>>

\* abort, accepted only while the pool is empty.
MayAbort == pool = {}

Abort ==
    /\ Call
    /\ MayAbort
    /\ aborted' = TRUE
    /\ UNCHANGED <<phase, attached, locked, subVars, retries, told, added,
                   finder, found, pool, selected, spawned>>

----------------------------------------------------------------------------
\* The lists the agent submits: in any order, some URL perhaps twice.
Lists == UNION {[1..n -> Urls] : n \in 1..2}

Tools ==
    \/ \E f \in Finders : Spawn(f) \/ Return(f) \/ FinderCrashes(f)
    \/ \E f \in Finders, u \in Urls : Validate(f, u)
    \/ \E s \in Lists : Submit(s)
    \/ Abort

Next ==
    \/ Skip \/ Start \/ Meanwhile \/ AgentEnds \/ Persist \/ Notify \/ NotifyFails
    \/ LimitHit \/ ComeBack \/ Crash
    \/ Tools
    \/ phase \in Ended /\ UNCHANGED vars

\* Finders are bounded by their own budget and timeouts, and so is the
\* agent: it is stopped by its budget of calls and by the task's time limit.
\* A task in the queue is taken up, one that waits for a limit comes back.
Spec ==
    /\ Init /\ [][Next]_vars
    /\ WF_vars(Skip \/ Start) /\ WF_vars(ComeBack)
    /\ WF_vars(Persist \/ Crash) /\ WF_vars(Notify)
    /\ WF_vars(AgentEnds \/ Crash)

----------------------------------------------------------------------------
(* Properties.                                                             *)

TypeOK ==
    /\ phase \in Phases
    /\ attached \subseteq Urls /\ locked \subseteq Urls /\ links \subseteq Urls
    /\ live \in {"running", "stopped", "deleted"}
    /\ finder \in [Finders -> {"free", "running"}]
    /\ found \in [Finders -> SUBSET Urls]
    /\ pool \subseteq Urls
    /\ selected \in Seq(Urls)
    /\ aborted \in BOOLEAN
    /\ spawned \in 0..SpawnCap
    /\ calls \in 0..MaxCalls
    /\ retries \in 0..MaxRetries
    /\ told \in Notices
    /\ added \subseteq Urls

\* What the agent has selected is what finders of this attempt have found,
\* in the order of the submission, neither attached nor locked out when the
\* attempt began, and fits under the hard cap, whatever the finders, the
\* submissions and the retries: submit_selection and the dedupe of
\* spawn_finder.
SelectionSound ==
    /\ RangeOf(selected) \subseteq pool
    /\ pool \cap (attached \cup locked) = {}
    /\ Len(selected) + Cardinality(attached) <= HardCap \/ selected = <<>>

\* What a task commits it commits once, for a subscription that was not
\* deleted when the agent ended, within the room it had computed: retries
\* after a limit start from nothing.
CommitsOnce ==
    [][added' # added =>
         /\ added = {} /\ phase = "persist" /\ added' \cap links = {}
         /\ Cardinality(added') + Cardinality(attached) <= HardCap]_vars

\* Every discovery that is asked for ends: provider limits repeat it only so
\* often, and neither finders nor the agent can hold it for ever
\* (soft_time_limit, retry_on_provider_limit).
EveryTaskEnds == <>(phase \in Ended)
=============================================================================
