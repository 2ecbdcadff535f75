-------------------------- MODULE SourcePool_proofs --------------------------
(***************************************************************************)
(* Theorems about SourcePool, for every set of users, subscriptions,       *)
(* sources and workers and every cap and bound.                            *)
(***************************************************************************)
EXTENDS SourcePool, FiniteSetTheorems, TLAPS

Jobs == [op : Ops, sub : Subs \cup {NoSub}, from : Subs \cup {NoSub}]

----------------------------------------------------------------------------
(* Types.                                                                  *)

\* What a job begins with is typed.
LEMMA BeginTyped ==
    ASSUME TypeOK, NEW w \in Workers, NEW j \in Jobs, NEW U \in SUBSET Sources, Begin(w, j, U)
    PROVE  /\ jobs' \in Nat /\ job' \in [Workers -> Jobs]
           /\ todo' \in [Workers -> SUBSET Sources]
  BY DEF TypeOK, Begin, Jobs

\* What is left of a job is typed.
LEMMA EndTyped ==
    ASSUME TypeOK, NEW w \in Workers, End(w)
    PROVE  /\ jobs' \in Nat /\ job' \in [Workers -> Jobs]
           /\ todo' \in [Workers -> SUBSET Sources]
           /\ had' \in [Workers -> SUBSET Sources]
           /\ locked' \in [Workers -> SUBSET Sources]
           /\ base' \in [Workers -> [Sources -> Nat]]
           /\ was' \in [Workers -> SUBSET Sources]
           /\ wrote' \in [Workers -> SUBSET Sources]
           /\ fresh' \in [Workers -> SUBSET Sources]
           /\ new' \in [Workers -> SUBSET Sources]
           /\ since' \in [Workers -> SUBSET Sources]
<1>1. Idle \in Jobs
  BY DEF Idle, Jobs, Ops
<1>2. [u \in Sources |-> 0] \in [Sources -> Nat]
  OBVIOUS
<1>3. QED
  BY <1>1, <1>2 DEF TypeOK, End, Jobs

\* The jobs that are begun.
LEMMA JobTyped ==
    ASSUME NEW op \in Ops, NEW s \in Subs
    PROVE  Job(op, s) \in Jobs
  BY DEF Job, Jobs

\* A step that changes jobs and transactions only keeps the types, if it
\* keeps those of what it changes.
LEMMA TxTyped ==
    ASSUME TypeOK, UNCHANGED <<sub, rowVars, linkVars>>,
           jobs' \in Nat, job' \in [Workers -> Jobs],
           todo' \in [Workers -> SUBSET Sources],
           had' \in [Workers -> SUBSET Sources],
           locked' \in [Workers -> SUBSET Sources],
           base' \in [Workers -> [Sources -> Nat]],
           was' \in [Workers -> SUBSET Sources],
           wrote' \in [Workers -> SUBSET Sources],
           fresh' \in [Workers -> SUBSET Sources],
           new' \in [Workers -> SUBSET Sources],
           since' \in [Workers -> SUBSET Sources]
    PROVE  TypeOK'
  BY DEF TypeOK, rowVars, linkVars, Jobs

\* A job that has nothing but its sources keeps the types.
LEMMA StartTyped ==
    ASSUME TypeOK, NEW w \in Workers, NEW j \in Jobs, NEW U \in SUBSET Sources, Begin(w, j, U),
           UNCHANGED <<sub, rowVars, linkVars, had, locked, base, was, wrote, fresh, new, since>>
    PROVE  TypeOK'
<1>1. UNCHANGED <<had, locked, base, was, wrote, fresh, new, since>>
  OBVIOUS
<1>2. QED
  BY <1>1, BeginTyped, TxTyped DEF TypeOK

\* Every step keeps the types.
LEMMA NextTyped == TypeOK /\ RowsOK /\ JobsOK /\ [Next]_vars => TypeOK'
<1> SUFFICES ASSUME TypeOK, RowsOK, JobsOK, [Next]_vars
             PROVE  TypeOK'
  OBVIOUS
<1> USE PoolAssumption
<1>1. ASSUME NEW s \in Subs, Stop(s) \/ Delete(s)
      PROVE  TypeOK'
  BY <1>1 DEF TypeOK, Stop, Delete, rowVars, linkVars, txVars
<1>2. ASSUME NEW p \in Subs \X Sources, LockoutEnds(p)
      PROVE  TypeOK'
  BY <1>2 DEF TypeOK, LockoutEnds, rowVars, txVars
<1>3. ASSUME NEW w \in Workers, Work(w)
      PROVE  TypeOK'
  <2>1. ASSUME NEW s \in Subs, NEW U \in SUBSET Sources, StartCreate(w, s, U)
        PROVE  TypeOK'
    BY <2>1, JobTyped, StartTyped DEF StartCreate, Ops
  <2>2. ASSUME NEW s \in Subs, StartResume(w, s)
        PROVE  TypeOK'
    <3>1. Job("resume", s) \in Jobs
      BY JobTyped DEF Ops
    <3>2. QED
      BY <2>2, <3>1, StartTyped DEF StartResume
  <2>3. ASSUME NEW s \in Subs, StartDiscovery(w, s)
        PROVE  TypeOK'
    <3>1. Job("load", s) \in Jobs
      BY JobTyped DEF Ops
    <3>2. /\ jobs' \in Nat /\ job' \in [Workers -> Jobs]
          /\ todo' \in [Workers -> SUBSET Sources]
      BY <2>3, <3>1, BeginTyped DEF StartDiscovery
    <3>3. LinksOf(s) \subseteq Sources /\ LockedOut(s) \subseteq Sources /\ active \subseteq Sources
      BY DEF LinksOf, LockedOut, TypeOK
    <3>4. [u \in Sources |-> IF u \in active THEN count[u] ELSE 0] \in [Sources -> Nat]
      BY DEF TypeOK
    <3>5. QED
      BY <2>3, <3>2, <3>3, <3>4, TxTyped DEF StartDiscovery, TypeOK
  <2>4. ASSUME NEW s \in Subs, NEW f \in Subs, Redeem(w, s, f)
        PROVE  TypeOK'
    <3>1. [op |-> "import", sub |-> s, from |-> f] \in Jobs
      BY DEF Jobs, Ops
    <3>2. QED
      BY <2>4, <3>1, StartTyped DEF Redeem
  <2>5. ASSUME NEW s \in Subs, NEW u \in Sources, StartAdd(w, s, u)
        PROVE  TypeOK'
    <3>1. Job("add", s) \in Jobs
      BY JobTyped DEF Ops
    <3>2. QED
      BY <2>5, <3>1, StartTyped DEF StartAdd
  <2>6. ASSUME NEW s \in Subs, NEW u \in Sources, StartRemove(w, s, u)
        PROVE  TypeOK'
    <3>1. Job("remove", s) \in Jobs
      BY JobTyped DEF Ops
    <3>2. /\ jobs' \in Nat /\ job' \in [Workers -> Jobs]
          /\ todo' \in [Workers -> SUBSET Sources]
      BY <2>6, <3>1, BeginTyped DEF StartRemove
    <3>3. /\ base' \in [Workers -> [Sources -> Nat]]
          /\ was' \in [Workers -> SUBSET Sources]
          /\ wrote' \in [Workers -> SUBSET Sources]
      BY <2>6 DEF StartRemove, TypeOK
    <3>4. QED
      BY <2>6, <3>2, <3>3, TxTyped DEF StartRemove, TypeOK
  <2>7. ASSUME NEW U \in SUBSET Sources, Select(w, U)
        PROVE  TypeOK'
    <3>1. CASE End(w)
      BY <2>7, <3>1, EndTyped, TxTyped DEF Select
    <3>2. CASE ~End(w)
      <4>1. job' = [job EXCEPT ![w].op = "discover"]
        BY <2>7, <3>2 DEF Select
      <4>2. job[w] \in Jobs /\ job \in [Workers -> Jobs] /\ "discover" \in Ops
        BY DEF TypeOK, Jobs, Ops
      <4>3. job' \in [Workers -> Jobs]
        BY <4>1, <4>2 DEF Jobs
      <4>4. QED
        BY <2>7, <3>2, <4>3, TxTyped DEF Select, TypeOK
    <3>3. QED
      BY <3>1, <3>2
  <2>8. ASSUME NEW u \in Sources, Ensure(w, u) \/ Insert(w, u)
        PROVE  TypeOK'
    <3>1. /\ base \in [Workers -> [Sources -> Nat]] /\ count \in [Sources -> Nat]
          /\ was \in [Workers -> SUBSET Sources] /\ active \subseteq Sources
      BY DEF TypeOK
    <3>2. base' \in [Workers -> [Sources -> Nat]]
      BY <2>8, <3>1 DEF Ensure, Insert
    <3>3. was' \in [Workers -> SUBSET Sources]
      BY <2>8, <3>1 DEF Ensure, Insert
    <3>4. /\ todo \in [Workers -> SUBSET Sources] /\ wrote \in [Workers -> SUBSET Sources]
          /\ fresh \in [Workers -> SUBSET Sources] /\ new \in [Workers -> SUBSET Sources]
      BY DEF TypeOK
    <3>5. /\ todo' \in [Workers -> SUBSET Sources]
          /\ wrote' \in [Workers -> SUBSET Sources] /\ fresh' \in [Workers -> SUBSET Sources]
      BY <2>8, <3>4 DEF Ensure, Insert
    <3>6. new' \in [Workers -> SUBSET Sources]
      BY <2>8, <3>4 DEF Ensure, Insert
    <3>7. QED
      BY <2>8, <3>2, <3>3, <3>4, <3>5, <3>6, TxTyped DEF Ensure, Insert, TypeOK, Jobs
  <2>9. CASE Resume(w)
    <3>1. sub' \in [Subs -> {"none", "running", "stopped", "deleted"}]
      BY <2>9 DEF Resume, TypeOK
    <3>2. QED
      BY <2>9, <3>1, EndTyped DEF Resume, TypeOK, rowVars, linkVars, Jobs
  <2>10. CASE Import(w)
    <3>1. job[w].sub \in Subs
      BY <2>10 DEF Import, JobsOK, Idle
    <3>2. ({job[w].sub} \X LinksOf(job[w].from)) \subseteq Subs \X Sources
      BY <3>1 DEF LinksOf
    <3>3. /\ sub' \in [Subs -> {"none", "running", "stopped", "deleted"}]
          /\ links' \subseteq Subs \X Sources /\ named' \subseteq links'
          /\ uncounted' \subseteq Subs \X Sources
      BY <2>10, <3>2 DEF Import, TypeOK
    <3>4. QED
      BY <2>10, <3>3, EndTyped DEF Import, TypeOK, rowVars, Jobs
  <2>11. CASE CommitRemove(w)
    <3>1. job[w].sub \in Subs
      BY <2>11 DEF CommitRemove, JobsOK, Idle
    <3>2. /\ links' \subseteq Subs \X Sources /\ named' \subseteq links'
          /\ removed' \subseteq Subs \X Sources
      BY <2>11, <3>1 DEF CommitRemove, TypeOK
    <3>3. count' \in [Sources -> Nat] /\ active' \subseteq known' /\ raced' \subseteq Sources
      <4>1. \A u \in Sources : Lowered(base[w][u]) \in Nat
        BY DEF Lowered, TypeOK
      <4>2. count \in [Sources -> Nat] /\ active \subseteq known /\ raced \subseteq Sources
        BY DEF TypeOK
      <4>3. wrote[w] \subseteq Sources
        BY DEF TypeOK
      <4>4. QED
        BY <2>11, <4>1, <4>2, <4>3 DEF CommitRemove
    <3>4. Idle \in Jobs /\ [u \in Sources |-> 0] \in [Sources -> Nat]
      BY DEF Idle, Jobs, Ops
    <3>5. /\ job' \in [Workers -> Jobs]
          /\ base' \in [Workers -> [Sources -> Nat]]
          /\ was' \in [Workers -> SUBSET Sources]
          /\ wrote' \in [Workers -> SUBSET Sources]
      BY <2>11, <3>4 DEF CommitRemove, TypeOK, Jobs
    <3>6. since' \in [Workers -> SUBSET Sources]
      BY <2>11 DEF CommitRemove, TypeOK
    <3>7. QED
      BY <2>11, <3>2, <3>3, <3>5, <3>6 DEF CommitRemove, TypeOK, Jobs
  <2>12. CASE Commit(w)
    <3>1. job[w].sub \in Subs
      BY <2>12 DEF Commit, JobsOK, Idle, Ensuring
    <3>2. known' \subseteq Sources /\ active' \subseteq known'
      BY <2>12 DEF Commit, RowsOK, TypeOK, Reactivated
    <3>3. count' \in [Sources -> Nat] /\ raced' \subseteq Sources
      BY <2>12 DEF Commit, TypeOK, Raised
    <3>4. /\ links' \subseteq Subs \X Sources /\ named' \subseteq links'
          /\ sub' \in [Subs -> {"none", "running", "stopped", "deleted"}]
      BY <2>12, <3>1 DEF Commit, TypeOK
    <3>5. QED
      BY <2>12, <3>2, <3>3, <3>4, EndTyped DEF Commit, TypeOK, Jobs
  <2>13. CASE CommitCollides(w) \/ Fail(w)
    BY <2>13, EndTyped, TxTyped DEF CommitCollides, Fail
  <2>14. QED
    BY <1>3, <2>1, <2>2, <2>3, <2>4, <2>5, <2>6, <2>7, <2>8, <2>9, <2>10, <2>11, <2>12, <2>13
       DEF Work, StartReflect
<1>4. CASE UNCHANGED vars
  BY <1>4 DEF TypeOK, vars, rowVars, linkVars, txVars
<1>5. QED
  BY <1>1, <1>2, <1>3, <1>4 DEF Next

----------------------------------------------------------------------------
(* Who works on what, and which rows are there.                            *)

\* A worker that takes up a job keeps who works on what.
LEMMA JobBegins ==
    ASSUME TypeOK, JobsOK, NEW w \in Workers, NEW j \in Jobs, NEW U, Begin(w, j, U),
           UNCHANGED sub, j.op # "idle", j.sub \in Subs,
           j.op \in {"create", "import"} <=> sub[j.sub] = "none",
           j.op \in {"create", "import"} => Free(j.sub),
           j.op = "import" => j.from \in Subs \ {j.sub}
    PROVE  JobsOK'
<1>1. job' = [job EXCEPT ![w] = j] /\ job \in [Workers -> Jobs]
  BY DEF Begin, TypeOK, Jobs
<1>2. Idle.op = "idle" /\ Idle.sub = NoSub /\ NoSub \notin Subs
  BY PoolAssumption DEF Idle
<1>3. QED
  BY <1>1, <1>2 DEF JobsOK, Free

\* A worker that ends keeps it, when no other subscription comes or goes.
LEMMA JobEnds ==
    ASSUME TypeOK, JobsOK, NEW w \in Workers, job' = [job EXCEPT ![w] = Idle],
           \A s \in Subs : s # job[w].sub => (sub'[s] = "none" <=> sub[s] = "none"),
           job[w] # Idle => job[w].op \in {"create", "import"} \/ sub'[job[w].sub] # "none"
    PROVE  JobsOK'
<1>1. job \in [Workers -> Jobs] /\ Idle.sub = NoSub /\ NoSub \notin Subs
  BY PoolAssumption DEF TypeOK, Jobs, Idle
<1>2. ASSUME NEW v \in Workers, job'[v] # Idle
      PROVE  v # w /\ job'[v] = job[v]
  BY <1>1, <1>2
<1>3. ASSUME NEW v \in Workers, job'[v] # Idle
      PROVE  sub'[job[v].sub] = "none" <=> sub[job[v].sub] = "none"
  BY <1>1, <1>2, <1>3 DEF JobsOK
<1>4. QED
  BY <1>1, <1>2, <1>3 DEF JobsOK

\* Every step keeps who works on what.
LEMMA NextJobs == TypeOK /\ JobsOK /\ NoLinksYet /\ [Next]_vars => JobsOK'
<1> SUFFICES ASSUME TypeOK, JobsOK, NoLinksYet, [Next]_vars
             PROVE  JobsOK'
  OBVIOUS
<1> USE PoolAssumption
<1>1. ASSUME NEW s \in Subs, Stop(s) \/ Delete(s)
      PROVE  JobsOK'
  BY <1>1 DEF TypeOK, Stop, Delete, JobsOK
<1>2. ASSUME NEW p \in Subs \X Sources, LockoutEnds(p)
      PROVE  JobsOK'
  BY <1>2 DEF LockoutEnds, JobsOK
<1>3. ASSUME NEW w \in Workers, Work(w)
      PROVE  JobsOK'
  <2>1. ASSUME NEW s \in Subs, NEW op \in Ops \ {"idle", "import"}, NEW U, Begin(w, Job(op, s), U),
               UNCHANGED sub, op = "create" => Free(s), op # "create" => sub[s] # "none"
        PROVE  JobsOK'
    <3>1. /\ Job(op, s) \in Jobs
          /\ Job(op, s).op = op /\ Job(op, s).sub = s
      BY JobTyped DEF Job
    <3>2. op \in {"create", "import"} <=> sub[s] = "none"
      BY <2>1 DEF Free
    <3>3. QED
      BY <2>1, <3>1, <3>2, JobBegins
  <2>2. ASSUME NEW s \in Subs, NEW U \in SUBSET Sources, StartCreate(w, s, U)
        PROVE  JobsOK'
    BY <2>1, <2>2 DEF StartCreate, Ops
  <2>3. ASSUME NEW s \in Subs, StartResume(w, s) \/ StartDiscovery(w, s)
        PROVE  JobsOK'
    BY <2>1, <2>3 DEF StartResume, StartDiscovery, Ops
  <2>4. ASSUME NEW s \in Subs, NEW f \in Subs, Redeem(w, s, f)
        PROVE  JobsOK'
    <3> DEFINE j == [op |-> "import", sub |-> s, from |-> f]
    <3>1. j \in Jobs /\ j.op = "import" /\ j.sub = s /\ j.from = f
      BY DEF Jobs, Ops
    <3>2. sub[s] = "none" /\ f # s /\ Free(s)
      BY <2>4 DEF Redeem, Free
    <3>3. Begin(w, j, {}) /\ UNCHANGED sub
      BY <2>4 DEF Redeem
    <3> HIDE DEF j
    <3>4. QED
      BY <3>1, <3>2, <3>3, JobBegins
  <2>5. ASSUME NEW s \in Subs, NEW u \in Sources, StartAdd(w, s, u)
        PROVE  JobsOK'
    BY <2>1, <2>5 DEF StartAdd, Ops
  <2>6. ASSUME NEW s \in Subs, NEW u \in Sources, StartRemove(w, s, u)
        PROVE  JobsOK'
    <3>1. sub[s] # "none"
      BY <2>6 DEF StartRemove, NoLinksYet
    <3>2. QED
      BY <2>1, <2>6, <3>1 DEF StartRemove, Ops
  <2>7. ASSUME End(w), UNCHANGED sub
        PROVE  JobsOK'
    BY <2>7, JobEnds DEF End, JobsOK
  <2>8. ASSUME NEW U \in SUBSET Sources, Select(w, U)
        PROVE  JobsOK'
    <3>1. CASE End(w)
      BY <2>7, <2>8, <3>1 DEF Select
    <3>2. CASE job' = [job EXCEPT ![w].op = "discover"]
      <4>1. job \in [Workers -> Jobs] /\ UNCHANGED sub /\ job[w].op = "load"
        BY <2>8 DEF Select, TypeOK, Jobs
      <4>2. /\ \A v \in Workers : job'[v].sub = job[v].sub /\ job'[v].from = job[v].from
            /\ \A v \in Workers : v # w => job'[v] = job[v]
            /\ job'[w].op = "discover" /\ job[w] # Idle
        BY <3>2, <4>1 DEF Jobs, Idle
      <4>3. QED
        BY <4>1, <4>2 DEF JobsOK
    <3>3. QED
      BY <2>8, <3>1, <3>2 DEF Select
  <2>9. ASSUME NEW u \in Sources, Ensure(w, u) \/ Insert(w, u)
        PROVE  JobsOK'
    BY <2>9 DEF Ensure, Insert, JobsOK
  <2>10. CASE Resume(w)
    <3>1. \A s \in Subs : sub'[s] = "none" <=> sub[s] = "none"
      BY <2>10 DEF Resume, TypeOK
    <3>2. QED
      BY <2>10, <3>1, JobEnds DEF Resume, End, JobsOK, Idle
  <2>11. CASE Import(w)
    BY <2>11, JobEnds DEF Import, End, TypeOK, Idle
  <2>12. CASE CommitRemove(w)
    BY <2>12, JobEnds DEF CommitRemove, JobsOK
  <2>13. CASE Commit(w)
    <3>1. \A s \in Subs : s # job[w].sub => sub'[s] = sub[s]
      BY <2>13 DEF Commit, TypeOK
    <3>2. job[w] # Idle => job[w].op \in {"create", "import"} \/ sub'[job[w].sub] # "none"
      BY <2>13 DEF Commit, JobsOK
    <3>3. QED
      BY <2>13, <3>1, <3>2, JobEnds DEF Commit, End
  <2>14. CASE CommitCollides(w) \/ Fail(w)
    BY <2>7, <2>14 DEF CommitCollides, Fail
  <2>15. QED
    BY <1>3, <2>2, <2>3, <2>4, <2>5, <2>6, <2>8, <2>9, <2>10, <2>11, <2>12, <2>13, <2>14
       DEF Work, StartReflect
<1>4. CASE UNCHANGED vars
  BY <1>4 DEF JobsOK, vars
<1>5. QED
  BY <1>1, <1>2, <1>3, <1>4 DEF Next

\* Only these steps are seen outside of the worker that takes them.
LEMMA StepKinds ==
    ASSUME [Next]_vars
    PROVE  \/ UNCHANGED <<sub, rowVars, linkVars>>
           \/ \E s \in Subs : Stop(s) \/ Delete(s)
           \/ \E p \in Subs \X Sources : LockoutEnds(p)
           \/ \E w \in Workers : Resume(w) \/ Import(w) \/ CommitRemove(w) \/ Commit(w)
<1>1. ASSUME NEW w \in Workers, Work(w)
      PROVE  \/ UNCHANGED <<sub, rowVars, linkVars>>
             \/ Resume(w) \/ Import(w) \/ CommitRemove(w) \/ Commit(w)
  <2>1. ASSUME NEW s \in Subs, NEW U \in SUBSET Sources, StartCreate(w, s, U)
        PROVE  UNCHANGED <<sub, rowVars, linkVars>>
    BY <2>1 DEF StartCreate
  <2>2. ASSUME NEW s \in Subs, StartResume(w, s) \/ StartDiscovery(w, s)
        PROVE  UNCHANGED <<sub, rowVars, linkVars>>
    BY <2>2 DEF StartResume, StartDiscovery
  <2>3. ASSUME NEW s \in Subs, NEW f \in Subs, Redeem(w, s, f)
        PROVE  UNCHANGED <<sub, rowVars, linkVars>>
    BY <2>3 DEF Redeem
  <2>4. ASSUME NEW s \in Subs, NEW u \in Sources,
               StartAdd(w, s, u) \/ StartRemove(w, s, u) \/ StartReflect(w, s, u)
        PROVE  UNCHANGED <<sub, rowVars, linkVars>>
    BY <2>4 DEF StartAdd, StartRemove, StartReflect
  <2>5. ASSUME NEW U \in SUBSET Sources, Select(w, U)
        PROVE  UNCHANGED <<sub, rowVars, linkVars>>
    BY <2>5 DEF Select
  <2>6. ASSUME NEW u \in Sources, Ensure(w, u) \/ Insert(w, u)
        PROVE  UNCHANGED <<sub, rowVars, linkVars>>
    BY <2>6 DEF Ensure, Insert
  <2>7. ASSUME CommitCollides(w) \/ Fail(w)
        PROVE  UNCHANGED <<sub, rowVars, linkVars>>
    BY <2>7 DEF CommitCollides, Fail
  <2>8. QED
    BY <1>1, <2>1, <2>2, <2>3, <2>4, <2>5, <2>6, <2>7 DEF Work
<1>2. CASE UNCHANGED vars
  BY <1>2 DEF vars
<1>3. QED
  BY <1>1, <1>2 DEF Next

\* Every step keeps that a subscription that is not there has no links.
LEMMA NextNoLinks == TypeOK /\ JobsOK /\ NoLinksYet /\ [Next]_vars => NoLinksYet'
<1> SUFFICES ASSUME TypeOK, JobsOK, NoLinksYet, [Next]_vars
             PROVE  NoLinksYet'
  OBVIOUS
<1>1. ASSUME NEW s \in Subs, Stop(s) \/ Delete(s)
      PROVE  NoLinksYet'
  BY <1>1 DEF TypeOK, Stop, Delete, NoLinksYet, linkVars
<1>2. ASSUME UNCHANGED <<sub, links, uncounted>>
      PROVE  NoLinksYet'
  BY <1>2 DEF NoLinksYet
<1>3. ASSUME NEW w \in Workers, Resume(w)
      PROVE  NoLinksYet'
  BY <1>3 DEF TypeOK, Resume, NoLinksYet, linkVars
<1>4. ASSUME NEW w \in Workers, Import(w)
      PROVE  NoLinksYet'
  <2>1. job[w].sub \in Subs
    BY <1>4 DEF Import, JobsOK, Idle
  <2>2. \A s \in Subs : s # job[w].sub => sub'[s] = sub[s]
    BY <1>4, <2>1 DEF Import, TypeOK
  <2>3. CASE UNCHANGED <<sub, links, uncounted>>
    BY <1>2, <2>3
  <2>4. CASE ~UNCHANGED <<sub, links, uncounted>>
    <3>1. sub'[job[w].sub] = "running"
      BY <1>4, <2>1, <2>4 DEF Import, TypeOK
    <3>2. \A s \in Subs, u \in Sources : s # job[w].sub =>
              (<<s, u>> \in links' \cup uncounted' => <<s, u>> \in links \cup uncounted)
      BY <1>4, <2>4 DEF Import
    <3>3. QED
      BY <2>2, <3>1, <3>2 DEF NoLinksYet
  <2>5. QED
    BY <2>3, <2>4
<1>5. ASSUME NEW w \in Workers, CommitRemove(w)
      PROVE  NoLinksYet'
  BY <1>5 DEF CommitRemove, NoLinksYet
<1>6. ASSUME NEW w \in Workers, Commit(w)
      PROVE  NoLinksYet'
  <2>1. job[w].sub \in Subs /\ (sub[job[w].sub] = "none" => job[w].op = "create")
    BY <1>6 DEF Commit, JobsOK, Idle, Ensuring
  <2>2. QED
    BY <1>6, <2>1 DEF Commit, TypeOK, NoLinksYet
<1>7. QED
  BY <1>1, <1>2, <1>3, <1>4, <1>5, <1>6, StepKinds DEF LockoutEnds, linkVars

\* Ending a job keeps which rows are there, if what is linked then is.
LEMMA RowsEnd ==
    ASSUME TypeOK, RowsOK, NEW w \in Workers,
           job'[w] = Idle, wrote'[w] = {}, fresh'[w] = {}, new'[w] = {},
           \A v \in Workers : v # w =>
               /\ job'[v] = job[v] /\ wrote'[v] = wrote[v]
               /\ fresh'[v] = fresh[v] /\ new'[v] = new[v],
           known' = known \/ known' = known \cup fresh[w],
           \A s \in Subs, u \in Sources : <<s, u>> \in links' => u \in known'
    PROVE  RowsOK'
<1>1. Idle.op \notin Ensuring
  BY DEF Idle, Ensuring
<1>2. ASSUME NEW v \in Workers
      PROVE  /\ wrote'[v] \subseteq known' /\ fresh'[v] \cap known' = {}
             /\ new'[v] \subseteq wrote'[v] \cup fresh'[v]
             /\ \A x \in Workers : x # v => fresh'[x] \cap fresh'[v] = {}
             /\ job'[v].op \notin Ensuring => new'[v] = {} /\ fresh'[v] = {}
             /\ job'[v].op \notin Ensuring \cup {"remove"} => wrote'[v] = {}
  <2>1. CASE v = w
    BY <2>1, <1>1
  <2>2. CASE v # w
    <3>1. wrote[v] \subseteq known' /\ fresh[v] \cap known' = {}
      BY <2>2 DEF RowsOK
    <3>2. \A x \in Workers : x # v => fresh'[x] \cap fresh[v] = {}
      BY <2>2 DEF RowsOK
    <3>3. QED
      BY <2>2, <3>1, <3>2 DEF RowsOK
  <2>3. QED
    BY <2>1, <2>2
<1>3. QED
  BY <1>2 DEF RowsOK

\* The same for a job that is forgotten as a whole.
LEMMA RowsEndAll ==
    ASSUME TypeOK, RowsOK, NEW w \in Workers, End(w),
           known' = known \/ known' = known \cup fresh[w],
           \A s \in Subs, u \in Sources : <<s, u>> \in links' => u \in known'
    PROVE  RowsOK'
<1>1. /\ job \in [Workers -> Jobs] /\ wrote \in [Workers -> SUBSET Sources]
      /\ fresh \in [Workers -> SUBSET Sources] /\ new \in [Workers -> SUBSET Sources]
  BY DEF TypeOK, Jobs
<1>2. /\ job'[w] = Idle /\ wrote'[w] = {} /\ fresh'[w] = {} /\ new'[w] = {}
      /\ \A v \in Workers : v # w =>
               /\ job'[v] = job[v] /\ wrote'[v] = wrote[v]
               /\ fresh'[v] = fresh[v] /\ new'[v] = new[v]
  BY <1>1 DEF End
<1>3. QED
  BY <1>2, RowsEnd

\* The same for a job that begins.
LEMMA RowsBegin ==
    ASSUME TypeOK, RowsOK, NEW w \in Workers, NEW j \in Jobs, NEW U, Begin(w, j, U),
           UNCHANGED <<known, links, fresh, new>>,
           NEW R \in SUBSET known, wrote' = [wrote EXCEPT ![w] = R],
           j.op # "remove" => R = {}
    PROVE  RowsOK'
<1>1. /\ job \in [Workers -> Jobs] /\ wrote \in [Workers -> SUBSET Sources]
      /\ job' = [job EXCEPT ![w] = j] /\ job[w].op = "idle"
  BY DEF TypeOK, Jobs, Begin, Idle
<1>2. /\ job'[w] = j /\ wrote'[w] = R /\ fresh[w] = {} /\ new[w] = {}
      /\ \A v \in Workers : v # w => job'[v] = job[v] /\ wrote'[v] = wrote[v]
  BY <1>1 DEF RowsOK, Ensuring
<1>3. QED
  BY <1>2 DEF RowsOK

\* Every step keeps which rows are there.
LEMMA NextRows == TypeOK /\ RowsOK /\ JobsOK /\ [Next]_vars => RowsOK'
<1> SUFFICES ASSUME TypeOK, RowsOK, JobsOK, [Next]_vars
             PROVE  RowsOK'
  OBVIOUS
<1>1. ASSUME UNCHANGED <<known, links, job, wrote, fresh, new>>
      PROVE  RowsOK'
  BY <1>1 DEF RowsOK
<1>2. ASSUME NEW s \in Subs, Stop(s) \/ Delete(s)
      PROVE  RowsOK'
  BY <1>1, <1>2 DEF Stop, Delete, rowVars, linkVars, txVars
<1>3. ASSUME NEW p \in Subs \X Sources, LockoutEnds(p)
      PROVE  RowsOK'
  BY <1>1, <1>3 DEF LockoutEnds, rowVars, txVars
<1>4. ASSUME NEW w \in Workers, Work(w)
      PROVE  RowsOK'
  <2>1. ASSUME NEW j \in Jobs, NEW U, Begin(w, j, U),
               UNCHANGED <<known, links, wrote, fresh, new>>
        PROVE  RowsOK'
    <3>1. wrote[w] = {}
      BY <2>1 DEF Begin, Idle, RowsOK, Ensuring
    <3>2. wrote' = [wrote EXCEPT ![w] = {}]
      BY <2>1, <3>1 DEF TypeOK
    <3>3. QED
      BY <2>1, <3>2, RowsBegin
  <2>2. ASSUME NEW s \in Subs, NEW op \in Ops, NEW U, Begin(w, Job(op, s), U),
               UNCHANGED <<known, links, wrote, fresh, new>>
        PROVE  RowsOK'
    BY <2>1, <2>2, JobTyped
  <2>3. ASSUME NEW s \in Subs, NEW U \in SUBSET Sources, StartCreate(w, s, U)
        PROVE  RowsOK'
    BY <2>2, <2>3 DEF StartCreate, Ops, rowVars, linkVars
  <2>4. ASSUME NEW s \in Subs, StartResume(w, s)
        PROVE  RowsOK'
    BY <2>2, <2>4 DEF StartResume, Ops, rowVars, linkVars
  <2>5. ASSUME NEW s \in Subs, StartDiscovery(w, s)
        PROVE  RowsOK'
    BY <2>2, <2>5 DEF StartDiscovery, Ops, rowVars, linkVars
  <2>6. ASSUME NEW s \in Subs, NEW f \in Subs, Redeem(w, s, f)
        PROVE  RowsOK'
    <3>1. [op |-> "import", sub |-> s, from |-> f] \in Jobs
      BY DEF Jobs, Ops
    <3>2. QED
      BY <2>1, <2>6, <3>1 DEF Redeem, rowVars, linkVars
  <2>7. ASSUME NEW s \in Subs, NEW u \in Sources, StartAdd(w, s, u)
        PROVE  RowsOK'
    BY <2>2, <2>7 DEF StartAdd, Ops, rowVars, linkVars
  <2>8. ASSUME NEW s \in Subs, NEW u \in Sources, StartRemove(w, s, u)
        PROVE  RowsOK'
    <3>1. Job("remove", s) \in Jobs /\ Job("remove", s).op = "remove"
      BY JobTyped DEF Ops, Job
    <3>2. {u} \in SUBSET known
      BY <2>8 DEF StartRemove, RowsOK
    <3>3. QED
      BY <2>8, <3>1, <3>2, RowsBegin DEF StartRemove, rowVars, linkVars
  <2>9. ASSUME End(w), UNCHANGED <<known, links>>
        PROVE  RowsOK'
    BY <2>9, RowsEndAll DEF RowsOK
  <2>10. ASSUME NEW U \in SUBSET Sources, Select(w, U)
         PROVE  RowsOK'
    <3>1. CASE End(w)
      BY <2>9, <2>10, <3>1 DEF Select, rowVars, linkVars
    <3>2. CASE ~End(w)
      <4>1. /\ job' = [job EXCEPT ![w].op = "discover"] /\ job[w].op = "load"
            /\ UNCHANGED <<known, links, wrote, fresh, new>>
        BY <2>10, <3>2 DEF Select, rowVars, linkVars
      <4>2. job \in [Workers -> Jobs]
        BY DEF TypeOK, Jobs
      <4>3. wrote[w] = {} /\ fresh[w] = {} /\ new[w] = {}
        BY <4>1 DEF RowsOK, Ensuring
      <4>4. \A v \in Workers : v # w => job'[v] = job[v]
        BY <4>1, <4>2
      <4>5. QED
        BY <4>1, <4>3, <4>4 DEF RowsOK
    <3>3. QED
      BY <3>1, <3>2
  <2>11. ASSUME NEW u \in Sources, Ensure(w, u)
         PROVE  RowsOK'
    <3>1. /\ wrote \in [Workers -> SUBSET Sources] /\ new \in [Workers -> SUBSET Sources]
          /\ job[w].op \in Ensuring /\ u \in known
          /\ wrote' = [wrote EXCEPT ![w] = @ \cup {u}]
          /\ new' = [new EXCEPT ![w] = IF Links(w, u) THEN @ \cup {u} ELSE @]
          /\ UNCHANGED <<known, links, job, fresh>>
      BY <2>11 DEF TypeOK, Ensure, rowVars, linkVars
    <3>2. /\ wrote'[w] = wrote[w] \cup {u} /\ new'[w] \subseteq new[w] \cup {u}
          /\ \A v \in Workers : v # w => wrote'[v] = wrote[v] /\ new'[v] = new[v]
      BY <3>1
    <3>3. QED
      BY <3>1, <3>2 DEF RowsOK
  <2>12. ASSUME NEW u \in Sources, Insert(w, u)
         PROVE  RowsOK'
    <3>1. /\ fresh \in [Workers -> SUBSET Sources] /\ new \in [Workers -> SUBSET Sources]
          /\ job[w].op \in Ensuring /\ u \notin known
          /\ \A v \in Workers : u \notin fresh[v]
          /\ fresh' = [fresh EXCEPT ![w] = @ \cup {u}]
          /\ new' = [new EXCEPT ![w] = @ \cup {u}]
          /\ UNCHANGED <<known, links, job, wrote>>
      BY <2>12 DEF TypeOK, Insert, rowVars, linkVars
    <3>2. /\ fresh'[w] = fresh[w] \cup {u} /\ new'[w] = new[w] \cup {u}
          /\ \A v \in Workers : v # w => fresh'[v] = fresh[v] /\ new'[v] = new[v]
      BY <3>1
    <3>3. ASSUME NEW v \in Workers
          PROVE  /\ fresh'[v] \cap known = {}
                 /\ \A x \in Workers : x # v => fresh'[x] \cap fresh'[v] = {}
      BY <3>1, <3>2 DEF RowsOK
    <3>4. QED
      BY <3>1, <3>2, <3>3 DEF RowsOK
  <2>13. CASE Resume(w)
    BY <2>9, <2>13 DEF Resume, rowVars, linkVars
  <2>14. CASE Import(w)
    <3>1. /\ End(w) /\ known' = known
          /\ links' = links \/ links' = links \cup ({job[w].sub} \X LinksOf(job[w].from))
          /\ job[w].from \in Subs
      BY <2>14 DEF Import, rowVars, JobsOK, Idle
    <3>2. ASSUME NEW s \in Subs, NEW u \in Sources, <<s, u>> \in links'
          PROVE  u \in known'
      <4>1. <<s, u>> \in links \/ <<job[w].from, u>> \in links
        BY <3>1, <3>2 DEF LinksOf
      <4>2. QED
        BY <3>1, <4>1 DEF RowsOK
    <3>3. QED
      BY <3>1, <3>2, RowsEndAll
  <2>15. CASE CommitRemove(w)
    <3>1. /\ job' = [job EXCEPT ![w] = Idle] /\ wrote' = [wrote EXCEPT ![w] = {}]
          /\ UNCHANGED <<known, fresh, new>> /\ job[w].op = "remove"
          /\ links' \subseteq links
      BY <2>15 DEF CommitRemove
    <3>2. /\ job \in [Workers -> Jobs] /\ wrote \in [Workers -> SUBSET Sources]
      BY DEF TypeOK, Jobs
    <3>3. fresh[w] = {} /\ new[w] = {}
      BY <3>1 DEF RowsOK, Ensuring
    <3>4. /\ job'[w] = Idle /\ wrote'[w] = {}
          /\ \A v \in Workers : v # w => job'[v] = job[v] /\ wrote'[v] = wrote[v]
      BY <3>1, <3>2
    <3>5. \A s \in Subs, u \in Sources : <<s, u>> \in links' => u \in known'
      BY <3>1 DEF RowsOK
    <3>6. QED
      BY <3>1, <3>3, <3>4, <3>5, RowsEnd
  <2>16. CASE Commit(w)
    <3>1. /\ End(w) /\ known' = known \cup fresh[w]
          /\ links' = links \cup ({job[w].sub} \X new[w])
      BY <2>16 DEF Commit
    <3>2. \A s \in Subs, u \in Sources : <<s, u>> \in links' => u \in known'
      BY <3>1 DEF RowsOK
    <3>3. QED
      BY <3>1, <3>2, RowsEndAll
  <2>17. CASE CommitCollides(w) \/ Fail(w)
    BY <2>9, <2>17 DEF CommitCollides, Fail, rowVars, linkVars
  <2>18. QED
    BY <1>4, <2>3, <2>4, <2>5, <2>6, <2>7, <2>8, <2>10, <2>11, <2>12, <2>13, <2>14, <2>15,
       <2>16, <2>17 DEF Work, StartReflect
<1>5. CASE UNCHANGED vars
  BY <1>1, <1>5 DEF vars, rowVars, linkVars, txVars
<1>6. QED
  BY <1>2, <1>3, <1>4, <1>5 DEF Next

----------------------------------------------------------------------------
(* What the jobs carry along.                                              *)

\* A worker's step leaves what the others are doing alone.
LEMMA OthersKept ==
    ASSUME TypeOK, NEW w \in Workers, Work(w), NEW v \in Workers, v # w
    PROVE  /\ job'[v] = job[v] /\ todo'[v] = todo[v] /\ had'[v] = had[v]
           /\ locked'[v] = locked[v] /\ wrote'[v] = wrote[v] /\ new'[v] = new[v]
           /\ CommitRemove(w) \/ since'[v] = since[v]
<1> DEFINE Kept == /\ job'[v] = job[v] /\ todo'[v] = todo[v] /\ had'[v] = had[v]
                   /\ locked'[v] = locked[v] /\ wrote'[v] = wrote[v] /\ new'[v] = new[v]
<1>1. /\ job \in [Workers -> Jobs]
      /\ todo \in [Workers -> SUBSET Sources] /\ had \in [Workers -> SUBSET Sources]
      /\ locked \in [Workers -> SUBSET Sources] /\ wrote \in [Workers -> SUBSET Sources]
      /\ new \in [Workers -> SUBSET Sources] /\ since \in [Workers -> SUBSET Sources]
  BY DEF TypeOK, Jobs
<1>2. ASSUME End(w)
      PROVE  Kept /\ since'[v] = since[v]
  BY <1>1, <1>2 DEF End
<1>3. ASSUME NEW j, NEW U, Begin(w, j, U)
      PROVE  job'[v] = job[v] /\ todo'[v] = todo[v]
  BY <1>1, <1>3 DEF Begin
<1>4. ASSUME NEW s \in Subs, NEW U \in SUBSET Sources, StartCreate(w, s, U)
      PROVE  Kept /\ since'[v] = since[v]
  BY <1>3, <1>4 DEF StartCreate
<1>5. ASSUME NEW s \in Subs, StartResume(w, s) \/ StartDiscovery(w, s)
      PROVE  Kept /\ since'[v] = since[v]
  BY <1>1, <1>3, <1>5 DEF StartResume, StartDiscovery
<1>6. ASSUME NEW s \in Subs, NEW f \in Subs, Redeem(w, s, f)
      PROVE  Kept /\ since'[v] = since[v]
  BY <1>3, <1>6 DEF Redeem
<1>7. ASSUME NEW s \in Subs, NEW u \in Sources,
             StartAdd(w, s, u) \/ StartRemove(w, s, u) \/ StartReflect(w, s, u)
      PROVE  Kept /\ since'[v] = since[v]
  BY <1>1, <1>3, <1>7 DEF StartAdd, StartRemove, StartReflect
<1>8. ASSUME NEW U \in SUBSET Sources, Select(w, U)
      PROVE  Kept /\ since'[v] = since[v]
  BY <1>1, <1>2, <1>8 DEF Select
<1>9. ASSUME NEW u \in Sources, Ensure(w, u) \/ Insert(w, u)
      PROVE  Kept /\ since'[v] = since[v]
  BY <1>1, <1>9 DEF Ensure, Insert
<1>10. ASSUME CommitRemove(w)
       PROVE  Kept
  BY <1>1, <1>10 DEF CommitRemove
<1>11. ASSUME Resume(w) \/ Import(w) \/ Commit(w) \/ CommitCollides(w) \/ Fail(w)
       PROVE  Kept /\ since'[v] = since[v]
  BY <1>2, <1>11 DEF Resume, Import, Commit, CommitCollides, Fail
<1>12. QED
  BY <1>4, <1>5, <1>6, <1>7, <1>8, <1>9, <1>10, <1>11 DEF Work

\* What a worker's step makes of its own job.
LEMMA OwnStep ==
    ASSUME TypeOK, NEW w \in Workers, Work(w)
    PROVE  \/ job'[w] = Idle
           \/ /\ job[w] = Idle
              /\ job'[w].op \notin {"load", "discover", "remove"}
           \/ \E s \in Subs : StartDiscovery(w, s)
           \/ \E s \in Subs, u \in Sources : StartRemove(w, s, u)
           \/ \E U \in SUBSET Sources : Select(w, U) /\ ~End(w)
           \/ \E u \in Sources : Ensure(w, u) \/ Insert(w, u)
<1>1. job \in [Workers -> Jobs]
  BY DEF TypeOK, Jobs
<1>2. ASSUME End(w) \/ CommitRemove(w)
      PROVE  job'[w] = Idle
  BY <1>1, <1>2 DEF End, CommitRemove
<1>3. ASSUME NEW j, NEW U, Begin(w, j, U)
      PROVE  job[w] = Idle /\ job'[w] = j
  BY <1>1, <1>3 DEF Begin
<1>4. ASSUME NEW s \in Subs, NEW U \in SUBSET Sources, StartCreate(w, s, U)
      PROVE  job[w] = Idle /\ job'[w].op \notin {"load", "discover", "remove"}
  BY <1>3, <1>4 DEF StartCreate, Job
<1>5. ASSUME NEW s \in Subs, StartResume(w, s)
      PROVE  job[w] = Idle /\ job'[w].op \notin {"load", "discover", "remove"}
  BY <1>3, <1>5 DEF StartResume, Job
<1>6. ASSUME NEW s \in Subs, NEW f \in Subs, Redeem(w, s, f)
      PROVE  job[w] = Idle /\ job'[w].op \notin {"load", "discover", "remove"}
  BY <1>3, <1>6 DEF Redeem
<1>7. ASSUME NEW s \in Subs, NEW u \in Sources, StartAdd(w, s, u)
      PROVE  job[w] = Idle /\ job'[w].op \notin {"load", "discover", "remove"}
  BY <1>3, <1>7 DEF StartAdd, Job
<1>8. ASSUME Resume(w) \/ Import(w) \/ CommitRemove(w) \/ Commit(w) \/ CommitCollides(w) \/ Fail(w)
      PROVE  job'[w] = Idle
  BY <1>2, <1>8 DEF Resume, Import, Commit, CommitCollides, Fail
<1>9. ASSUME NEW U \in SUBSET Sources, Select(w, U)
      PROVE  job'[w] = Idle \/ (Select(w, U) /\ ~End(w))
  BY <1>2, <1>9
<1>10. QED
  BY <1>4, <1>5, <1>6, <1>7, <1>8, <1>9 DEF Work, StartReflect

\* Every step keeps that a removal's link is there.
LEMMA NextRemovals == TypeOK /\ RowsOK /\ RemovalsOK /\ [Next]_vars => RemovalsOK'
<1> SUFFICES ASSUME TypeOK, RowsOK, RemovalsOK, [Next]_vars
             PROVE  RemovalsOK'
  OBVIOUS
<1>1. ASSUME UNCHANGED <<links, job, wrote, since>>
      PROVE  RemovalsOK'
  BY <1>1 DEF RemovalsOK
<1>2. CASE UNCHANGED vars
  BY <1>1, <1>2 DEF vars, linkVars, txVars
<1>3. ASSUME NEW s \in Subs, Stop(s) \/ Delete(s)
      PROVE  RemovalsOK'
  BY <1>1, <1>3 DEF Stop, Delete, linkVars, txVars
<1>4. ASSUME NEW p \in Subs \X Sources, LockoutEnds(p)
      PROVE  RemovalsOK'
  BY <1>1, <1>4 DEF LockoutEnds, txVars
<1>5. ASSUME NEW w \in Workers, Work(w)
      PROVE  RemovalsOK'
  <2>1. \/ job'[w].op # "remove"
        \/ \E s \in Subs, u \in Sources : StartRemove(w, s, u)
    <3>1. job \in [Workers -> Jobs]
      BY DEF TypeOK, Jobs
    <3>2. ASSUME NEW U \in SUBSET Sources, Select(w, U), ~End(w)
          PROVE  job'[w].op # "remove"
      BY <3>1, <3>2 DEF Select, Jobs
    <3>3. ASSUME NEW u \in Sources, Ensure(w, u) \/ Insert(w, u)
          PROVE  job'[w].op # "remove"
      BY <3>3 DEF Ensure, Insert, Ensuring
    <3>4. ASSUME NEW s \in Subs, StartDiscovery(w, s)
          PROVE  job'[w].op # "remove"
      BY <3>1, <3>4 DEF StartDiscovery, Begin, Job
    <3>5. QED
      BY <1>5, <3>2, <3>3, <3>4, OwnStep DEF Idle
  <2>2. ASSUME job'[w].op = "remove"
        PROVE  \A u \in wrote'[w] : <<job'[w].sub, u>> \in links'
    <3>1. PICK s \in Subs, u \in Sources : StartRemove(w, s, u)
      BY <2>1, <2>2
    <3>2. job'[w].sub = s /\ wrote'[w] = {u} /\ <<s, u>> \in links'
      BY <3>1 DEF StartRemove, Begin, Job, TypeOK, linkVars
    <3>3. QED
      BY <3>2
  <2>3. CASE CommitRemove(w)
    <3>1. ASSUME NEW v \in Workers, v # w, job[v].op = "remove",
                 NEW u \in wrote[v] \ since'[v]
          PROVE  <<job[v].sub, u>> \in links'
      <4>1. /\ links' = links \ ({job[w].sub} \X (wrote[w] \ since[w]))
            /\ since'[v] = IF job[v].sub = job[w].sub /\ job[v].op \in Watching
                           THEN since[v] \cup wrote[w] ELSE since[v]
        BY <2>3, <3>1 DEF CommitRemove
      <4>2. <<job[v].sub, u>> \in links
        BY <3>1, <4>1 DEF RemovalsOK
      <4>3. job[v].sub = job[w].sub => u \notin wrote[w]
        BY <3>1, <4>1 DEF Watching
      <4>4. QED
        BY <4>1, <4>2, <4>3
    <3>2. job'[w].op # "remove"
      BY <2>3 DEF CommitRemove, TypeOK, Idle
    <3>3. QED
      BY <1>5, <3>1, <3>2, OthersKept DEF RemovalsOK
  <2>4. CASE ~CommitRemove(w)
    <3>1. links \subseteq links'
      BY <1>5, <2>4 DEF Work, StartCreate, StartResume, StartDiscovery, Redeem, StartAdd,
         StartRemove, StartReflect, Select, Ensure, Insert, Resume, Import, Commit,
         CommitCollides, Fail, linkVars
    <3>2. QED
      BY <1>5, <2>2, <2>4, <3>1, OthersKept DEF RemovalsOK
  <2>5. QED
    BY <2>3, <2>4
<1>6. QED
  BY <1>2, <1>3, <1>4, <1>5 DEF Next

\* Every step keeps that what is locked out is seen.
LEMMA NextLockout == TypeOK /\ RowsOK /\ LockoutSeen /\ [Next]_vars => LockoutSeen'
<1> SUFFICES ASSUME TypeOK, RowsOK, LockoutSeen, [Next]_vars
             PROVE  LockoutSeen'
  OBVIOUS
<1>1. ASSUME removed' \subseteq removed, UNCHANGED <<job, todo, new, locked, since>>
      PROVE  LockoutSeen'
  BY <1>1 DEF LockoutSeen, LockedOut
<1>2. CASE UNCHANGED vars
  BY <1>1, <1>2 DEF vars, linkVars, txVars
<1>3. ASSUME NEW s \in Subs, Stop(s) \/ Delete(s)
      PROVE  LockoutSeen'
  BY <1>1, <1>3 DEF Stop, Delete, linkVars, txVars
<1>4. ASSUME NEW p \in Subs \X Sources, LockoutEnds(p)
      PROVE  LockoutSeen'
  BY <1>1, <1>4 DEF LockoutEnds, txVars
<1>5. ASSUME NEW w \in Workers, Work(w)
      PROVE  LockoutSeen'
  <2> DEFINE Out(s) == {u \in Sources : <<s, u>> \in removed'}
  <2>1. ASSUME job'[w].op \in {"load", "discover"}
        PROVE  /\ Out(job'[w].sub) \subseteq locked'[w] \cup since'[w]
               /\ (todo'[w] \cup new'[w]) \cap locked'[w] = {}
    <3>1. /\ job \in [Workers -> Jobs] /\ todo \in [Workers -> SUBSET Sources]
          /\ locked \in [Workers -> SUBSET Sources] /\ new \in [Workers -> SUBSET Sources]
      BY DEF TypeOK, Jobs
    <3>2. ASSUME NEW s \in Subs, StartDiscovery(w, s)
          PROVE  /\ Out(job'[w].sub) \subseteq locked'[w] \cup since'[w]
                 /\ (todo'[w] \cup new'[w]) \cap locked'[w] = {}
      <4>1. /\ job'[w].sub = s /\ todo'[w] = {} /\ locked'[w] = LockedOut(s)
            /\ new'[w] = {} /\ removed' = removed
        BY <3>1, <3>2 DEF StartDiscovery, Begin, Job, Idle, RowsOK, Ensuring, linkVars
      <4>2. QED
        BY <4>1 DEF LockedOut
    <3>3. ASSUME NEW U \in SUBSET Sources, Select(w, U), ~End(w)
          PROVE  /\ Out(job'[w].sub) \subseteq locked'[w] \cup since'[w]
                 /\ (todo'[w] \cup new'[w]) \cap locked'[w] = {}
      <4>1. /\ job[w].op = "load" /\ job'[w].sub = job[w].sub /\ todo'[w] = U
            /\ UNCHANGED <<locked, since, new, removed>> /\ U \cap locked[w] = {}
        BY <3>1, <3>3 DEF Select, Jobs, linkVars
      <4>2. new[w] = {}
        BY <4>1 DEF RowsOK, Ensuring
      <4>3. QED
        BY <4>1, <4>2 DEF LockedOut, LockoutSeen
    <3>4. ASSUME NEW u \in Sources, Ensure(w, u) \/ Insert(w, u)
          PROVE  /\ Out(job'[w].sub) \subseteq locked'[w] \cup since'[w]
                 /\ (todo'[w] \cup new'[w]) \cap locked'[w] = {}
      <4>1. /\ UNCHANGED <<job, locked, since, removed>> /\ u \in todo[w]
            /\ todo' = [todo EXCEPT ![w] = @ \ {u}]
        BY <3>4 DEF Ensure, Insert, linkVars
      <4>2. new'[w] \subseteq new[w] \cup {u}
        BY <3>1, <3>4 DEF Ensure, Insert
      <4>3. todo'[w] \cup new'[w] \subseteq todo[w] \cup new[w]
        BY <3>1, <4>1, <4>2
      <4>4. QED
        BY <2>1, <4>1, <4>3 DEF LockedOut, LockoutSeen
    <3>5. ASSUME NEW s \in Subs, NEW u \in Sources, StartRemove(w, s, u)
          PROVE  FALSE
      BY <2>1, <3>1, <3>5 DEF StartRemove, Begin, Job
    <3>6. QED
      BY <1>5, <2>1, <3>2, <3>3, <3>4, <3>5, OwnStep DEF Idle
  <2>2. ASSUME NEW v \in Workers, v # w, job[v].op \in {"load", "discover"}
        PROVE  Out(job[v].sub) \subseteq locked[v] \cup since'[v]
    <3>1. CASE CommitRemove(w)
      <4>1. /\ removed' = removed \cup ({job[w].sub} \X wrote[w])
            /\ since'[v] = IF job[v].sub = job[w].sub /\ job[v].op \in Watching
                           THEN since[v] \cup wrote[w] ELSE since[v]
        BY <2>2, <3>1 DEF CommitRemove
      <4>2. LockedOut(job[v].sub) \subseteq locked[v] \cup since[v]
        BY <2>2 DEF LockoutSeen
      <4>3. QED
        BY <2>2, <4>1, <4>2 DEF LockedOut, Watching
    <3>2. CASE ~CommitRemove(w)
      <4>1. removed' = removed
        BY <1>5, <3>2 DEF Work, StartCreate, StartResume, StartDiscovery, Redeem, StartAdd,
           StartRemove, StartReflect, Select, Ensure, Insert, Resume, Import, Commit,
           CommitCollides, Fail, linkVars
      <4>2. QED
        BY <1>5, <2>2, <3>2, <4>1, OthersKept DEF LockoutSeen, LockedOut
    <3>3. QED
      BY <3>1, <3>2
  <2>3. QED
    BY <1>5, <2>1, <2>2, OthersKept DEF LockoutSeen, LockedOut
<1>6. QED
  BY <1>2, <1>3, <1>4, <1>5 DEF Next

\* Every step keeps that a selection fits.
LEMMA NextFits == TypeOK /\ RowsOK /\ SelectionFits /\ [Next]_vars => SelectionFits'
<1> SUFFICES ASSUME TypeOK, RowsOK, SelectionFits, [Next]_vars
             PROVE  SelectionFits'
  OBVIOUS
<1>1. ASSUME UNCHANGED <<job, todo, new, wrote, had>>
      PROVE  SelectionFits'
  BY <1>1 DEF SelectionFits, Fits
<1>2. CASE UNCHANGED vars
  BY <1>1, <1>2 DEF vars, txVars
<1>3. ASSUME NEW s \in Subs, Stop(s) \/ Delete(s)
      PROVE  SelectionFits'
  BY <1>1, <1>3 DEF Stop, Delete, txVars
<1>4. ASSUME NEW p \in Subs \X Sources, LockoutEnds(p)
      PROVE  SelectionFits'
  BY <1>1, <1>4 DEF LockoutEnds, txVars
<1>5. ASSUME NEW w \in Workers, Work(w)
      PROVE  SelectionFits'
  <2> DEFINE All == todo[w] \cup new[w] \cup wrote[w]
  <2>1. ASSUME job'[w].op = "discover"
        PROVE  \/ job[w].op = "discover" /\ All' = All /\ had'[w] = had[w]
               \/ \E U : Fits(w, U) /\ All' = U /\ had'[w] = had[w]
    <3>1. /\ job \in [Workers -> Jobs] /\ todo \in [Workers -> SUBSET Sources]
          /\ wrote \in [Workers -> SUBSET Sources] /\ new \in [Workers -> SUBSET Sources]
      BY DEF TypeOK, Jobs
    <3>2. ASSUME NEW s \in Subs, StartDiscovery(w, s)
          PROVE  FALSE
      BY <2>1, <3>1, <3>2 DEF StartDiscovery, Begin, Job
    <3>3. ASSUME NEW s \in Subs, NEW u \in Sources, StartRemove(w, s, u)
          PROVE  FALSE
      BY <2>1, <3>1, <3>3 DEF StartRemove, Begin, Job
    <3>4. ASSUME NEW U \in SUBSET Sources, Select(w, U), ~End(w)
          PROVE  Fits(w, U) /\ All' = U /\ had'[w] = had[w]
      <4>1. /\ job[w].op = "load" /\ todo'[w] = U /\ Fits(w, U)
            /\ UNCHANGED <<had, new, wrote>>
        BY <3>1, <3>4 DEF Select
      <4>2. new[w] = {} /\ wrote[w] = {}
        BY <4>1 DEF RowsOK, Ensuring
      <4>3. QED
        BY <4>1, <4>2
    <3>5. ASSUME NEW u \in Sources, Ensure(w, u)
          PROVE  job[w].op = "discover" /\ All' = All /\ had'[w] = had[w]
      <4>1. /\ UNCHANGED <<job, had>> /\ u \in todo[w] /\ todo'[w] = todo[w] \ {u}
            /\ wrote'[w] = wrote[w] \cup {u} /\ new[w] \subseteq new'[w]
            /\ new'[w] \subseteq new[w] \cup {u}
        BY <3>1, <3>5 DEF Ensure
      <4>2. QED
        BY <2>1, <4>1
    <3>6. ASSUME NEW u \in Sources, Insert(w, u)
          PROVE  job[w].op = "discover" /\ All' = All /\ had'[w] = had[w]
      <4>1. /\ UNCHANGED <<job, had, wrote>> /\ u \in todo[w] /\ todo'[w] = todo[w] \ {u}
            /\ new'[w] = new[w] \cup {u}
        BY <3>1, <3>6 DEF Insert
      <4>2. QED
        BY <2>1, <4>1
    <3>7. QED
      BY <1>5, <2>1, <3>2, <3>3, <3>4, <3>5, <3>6, OwnStep DEF Idle
  <2>2. ASSUME job'[w].op = "discover"
        PROVE  Cardinality(All') + Cardinality(had'[w]) <= HardCap
    BY <2>1, <2>2 DEF SelectionFits, Fits
  <2>3. QED
    BY <1>5, <2>2, OthersKept DEF SelectionFits, Fits
<1>6. QED
  BY <1>2, <1>3, <1>4, <1>5 DEF Next

----------------------------------------------------------------------------
(* Counts.                                                                 *)

\* What a set of subscriptions can be and count.
LEMMA SubsCount ==
    ASSUME NEW S \in SUBSET Subs, NEW s \in Subs
    PROVE  /\ IsFiniteSet(S) /\ Cardinality(S) \in Nat
           /\ Cardinality(S \cup {s}) = IF s \in S THEN Cardinality(S) ELSE Cardinality(S) + 1
           /\ Cardinality(S \ {s}) = IF s \in S THEN Cardinality(S) - 1 ELSE Cardinality(S)
           /\ \A T \in SUBSET S : Cardinality(T) <= Cardinality(S)
<1>1. IsFiniteSet(S)
  BY PoolAssumption, FS_Subset
<1>2. QED
  BY <1>1, FS_CardinalityType, FS_AddElement, FS_RemoveElement, FS_Subset

\* Every step keeps that the counts cover the links.
LEMMA NextCount ==
    PoolInv /\ [Next]_vars => CountCoversLinks'
<1> SUFFICES ASSUME PoolInv, [Next]_vars
             PROVE  CountCoversLinks'
  OBVIOUS
<1>0. TypeOK /\ JobsOK /\ NoLinksYet /\ RowsOK /\ RemovalsOK /\ CountCoversLinks
  BY DEF PoolInv
<1>1. ASSUME UNCHANGED <<raced, links, count, uncounted>>
      PROVE  CountCoversLinks'
  BY <1>0, <1>1 DEF CountCoversLinks, Followers, Uncounted
<1>2. ASSUME NEW s \in Subs, Stop(s) \/ Delete(s)
      PROVE  CountCoversLinks'
  BY <1>1, <1>2 DEF Stop, Delete, rowVars, linkVars
<1>3. ASSUME NEW p \in Subs \X Sources, LockoutEnds(p)
      PROVE  CountCoversLinks'
  BY <1>1, <1>3 DEF LockoutEnds, rowVars
<1>4. ASSUME NEW w \in Workers, Resume(w)
      PROVE  CountCoversLinks'
  BY <1>1, <1>4 DEF Resume, rowVars, linkVars
<1>5. ASSUME NEW w \in Workers, Import(w)
      PROVE  CountCoversLinks'
  <2> DEFINE s == job[w].sub
             f == job[w].from
  <2>1. s \in Subs /\ sub[s] = "none" /\ UNCHANGED <<count, raced>>
    BY <1>0, <1>5 DEF Import, JobsOK, Idle, rowVars
  <2>2. CASE UNCHANGED <<links, uncounted>>
    BY <1>1, <2>1, <2>2
  <2>3. CASE ~UNCHANGED <<links, uncounted>>
    <3>1. /\ links' = links \cup ({s} \X LinksOf(f))
          /\ uncounted' = uncounted \cup ({s} \X LinksOf(f))
      BY <1>5, <2>3 DEF Import
    <3>2. ASSUME NEW u \in Sources \ raced
          PROVE  Cardinality(Followers(u)') <= count[u] + Cardinality(Uncounted(u)')
      <4>1. /\ Followers(u) \subseteq Subs /\ Uncounted(u) \subseteq Subs
            /\ s \notin Followers(u) /\ s \notin Uncounted(u)
        BY <1>0, <2>1 DEF Followers, Uncounted, NoLinksYet
      <4>2. Cardinality(Followers(u)) <= count[u] + Cardinality(Uncounted(u)) /\ count[u] \in Nat
        BY <1>0 DEF CountCoversLinks, TypeOK
      <4>3. CASE u \in LinksOf(f)
        <5>1. Followers(u)' = Followers(u) \cup {s} /\ Uncounted(u)' = Uncounted(u) \cup {s}
          BY <2>1, <3>1, <4>3 DEF Followers, Uncounted
        <5>2. QED
          BY <2>1, <4>1, <4>2, <5>1, SubsCount
      <4>4. CASE u \notin LinksOf(f)
        <5>1. Followers(u)' = Followers(u) /\ Uncounted(u)' = Uncounted(u)
          BY <3>1, <4>4 DEF Followers, Uncounted
        <5>2. QED
          BY <4>2, <5>1
      <4>5. QED
        BY <4>3, <4>4
    <3>3. QED
      BY <2>1, <3>2 DEF CountCoversLinks
  <2>4. QED
    BY <2>2, <2>3
<1>6. ASSUME NEW w \in Workers, CommitRemove(w)
      PROVE  CountCoversLinks'
  <2> DEFINE s == job[w].sub
  <2>1. /\ s \in Subs /\ job[w].op = "remove"
        /\ links' = links \ ({s} \X (wrote[w] \ since[w])) /\ uncounted' = uncounted
        /\ raced' = raced \cup {u \in wrote[w] : Outdated(w, u) \/ u \in since[w]}
        /\ count' = [u \in Sources |-> IF u \in wrote[w] THEN Lowered(base[w][u]) ELSE count[u]]
    BY <1>0, <1>6 DEF CommitRemove, JobsOK, Idle
  <2>2. ASSUME NEW u \in Sources \ raced'
        PROVE  Cardinality(Followers(u)') <= count'[u] + Cardinality(Uncounted(u)')
    <3>1. /\ Followers(u) \subseteq Subs /\ Uncounted(u) \subseteq Subs
          /\ Uncounted(u)' = Uncounted(u) /\ u \notin raced
      BY <2>1, <2>2 DEF Followers, Uncounted
    <3>2. /\ Cardinality(Followers(u)) <= count[u] + Cardinality(Uncounted(u))
          /\ count[u] \in Nat /\ Cardinality(Uncounted(u)) \in Nat
          /\ Cardinality(Followers(u)) \in Nat
      BY <1>0, <2>1, <3>1, SubsCount DEF CountCoversLinks, TypeOK
    <3>3. CASE u \in wrote[w]
      <4>1. base[w][u] = count[u] /\ u \notin since[w]
        BY <2>1, <2>2, <3>3 DEF Outdated
      <4>2. <<s, u>> \in links
        BY <1>0, <2>1, <3>3, <4>1 DEF RemovalsOK
      <4>3. Followers(u)' = Followers(u) \ {s} /\ s \in Followers(u)
        BY <2>1, <3>3, <4>1, <4>2 DEF Followers
      <4>4. Cardinality(Followers(u)') = Cardinality(Followers(u)) - 1
        BY <2>1, <3>1, <4>3, SubsCount
      <4>5. count'[u] = IF count[u] = 0 THEN 0 ELSE count[u] - 1
        BY <2>1, <3>3, <4>1 DEF Lowered
      <4>6. QED
        BY <3>1, <3>2, <4>4, <4>5
    <3>4. CASE u \notin wrote[w]
      <4>1. Followers(u)' = Followers(u) /\ count'[u] = count[u]
        BY <2>1, <3>4 DEF Followers
      <4>2. QED
        BY <3>1, <3>2, <4>1
    <3>5. QED
      BY <3>3, <3>4
  <2>3. QED
    BY <2>2 DEF CountCoversLinks
<1>7. ASSUME NEW w \in Workers, Commit(w)
      PROVE  CountCoversLinks'
  <2> DEFINE s == job[w].sub
  <2>1. /\ s \in Subs
        /\ links' = links \cup ({s} \X new[w]) /\ uncounted' = uncounted
        /\ raced' = raced \cup {u \in wrote[w] : Outdated(w, u)}
        /\ count' = [u \in Sources |-> IF u \in fresh[w] THEN 1
                                       ELSE IF u \in wrote[w] THEN Raised(base[w][u])
                                       ELSE count[u]]
    BY <1>0, <1>7 DEF Commit, JobsOK, Idle, Ensuring
  <2>2. ASSUME NEW u \in Sources \ raced'
        PROVE  Cardinality(Followers(u)') <= count'[u] + Cardinality(Uncounted(u)')
    <3>1. /\ Followers(u) \subseteq Subs /\ Uncounted(u) \subseteq Subs
          /\ Uncounted(u)' = Uncounted(u) /\ u \notin raced
      BY <2>1, <2>2 DEF Followers, Uncounted
    <3>2. /\ Cardinality(Followers(u)) <= count[u] + Cardinality(Uncounted(u))
          /\ count[u] \in Nat /\ Cardinality(Uncounted(u)) \in Nat
          /\ Cardinality(Followers(u)) \in Nat
      BY <1>0, <2>1, <3>1, SubsCount DEF CountCoversLinks, TypeOK
    <3>3. /\ Followers(u)' \subseteq Followers(u) \cup {s}
          /\ Cardinality(Followers(u) \cup {s}) <= Cardinality(Followers(u)) + 1
          /\ Cardinality(Followers(u)') <= Cardinality(Followers(u) \cup {s})
          /\ Cardinality(Followers(u)') \in Nat /\ Cardinality(Followers(u) \cup {s}) \in Nat
      <4>1. Followers(u)' \subseteq Followers(u) \cup {s}
        BY <2>1 DEF Followers
      <4>2. Cardinality(Followers(u) \cup {s}) = IF s \in Followers(u)
                                                THEN Cardinality(Followers(u))
                                                ELSE Cardinality(Followers(u)) + 1
        BY <2>1, <3>1, SubsCount
      <4>3. \A S \in SUBSET Subs : \A T \in SUBSET S : Cardinality(T) <= Cardinality(S)
        BY <2>1, SubsCount
      <4>4. Followers(u) \cup {s} \in SUBSET Subs /\ Followers(u)' \in SUBSET Subs
        BY <2>1, <3>1, <4>1
      <4>5. Cardinality(Followers(u)') <= Cardinality(Followers(u) \cup {s})
        BY <4>1, <4>3, <4>4
      <4>6. /\ Cardinality(Followers(u)') \in Nat
            /\ Cardinality(Followers(u) \cup {s}) \in Nat
        BY <2>1, <4>4, SubsCount
      <4>7. QED
        BY <3>2, <4>1, <4>2, <4>5, <4>6
    <3>4. CASE u \in fresh[w]
      <4>1. Followers(u) = {}
        BY <1>0, <3>4 DEF RowsOK, Followers
      <4>2. Cardinality(Followers(u)) = 0
        BY <4>1, FS_EmptySet
      <4>3. count'[u] = 1
        BY <2>1, <3>4
      <4>4. QED
        BY <3>1, <3>2, <3>3, <4>2, <4>3
    <3>5. CASE u \notin fresh[w] /\ u \in wrote[w]
      <4>1. base[w][u] = count[u]
        BY <2>1, <2>2, <3>5 DEF Outdated
      <4>2. count'[u] = count[u] + 1
        BY <2>1, <3>5, <4>1 DEF Raised
      <4>3. QED
        BY <3>1, <3>2, <3>3, <4>2
    <3>6. CASE u \notin fresh[w] \cup wrote[w]
      <4>1. Followers(u)' = Followers(u) /\ count'[u] = count[u]
        BY <1>0, <2>1, <3>6 DEF Followers, RowsOK
      <4>2. QED
        BY <3>1, <3>2, <4>1
    <3>7. QED
      BY <3>4, <3>5, <3>6
  <2>3. QED
    BY <2>2 DEF CountCoversLinks
<1>8. QED
  BY <1>1, <1>2, <1>3, <1>4, <1>5, <1>6, <1>7, StepKinds DEF rowVars, linkVars

\* Every step keeps that a followed source is active.
LEMMA NextActive == PoolInv /\ [Next]_vars => FollowedIsActive'
<1> SUFFICES ASSUME PoolInv, [Next]_vars
             PROVE  FollowedIsActive'
  OBVIOUS
<1>0. /\ TypeOK /\ JobsOK /\ NoLinksYet /\ RowsOK /\ RemovalsOK
      /\ FollowedIsActive /\ CountCoversLinks'
  BY NextCount DEF PoolInv
<1>1. ASSUME UNCHANGED <<raced, links, active, uncounted>>
      PROVE  FollowedIsActive'
  BY <1>0, <1>1 DEF FollowedIsActive, Followers, Uncounted
<1>2. ASSUME NEW s \in Subs, Stop(s) \/ Delete(s)
      PROVE  FollowedIsActive'
  BY <1>1, <1>2 DEF Stop, Delete, rowVars, linkVars
<1>3. ASSUME NEW p \in Subs \X Sources, LockoutEnds(p)
      PROVE  FollowedIsActive'
  BY <1>1, <1>3 DEF LockoutEnds, rowVars
<1>4. ASSUME NEW w \in Workers, Resume(w)
      PROVE  FollowedIsActive'
  BY <1>1, <1>4 DEF Resume, rowVars, linkVars
<1>5. ASSUME NEW w \in Workers, Import(w)
      PROVE  FollowedIsActive'
  <2> DEFINE s == job[w].sub
             copied == {s} \X LinksOf(job[w].from)
  <2>1. /\ s \in Subs /\ UNCHANGED <<active, raced>>
        /\ \/ UNCHANGED <<links, uncounted>>
           \/ links' = links \cup copied /\ uncounted' = uncounted \cup copied
    BY <1>0, <1>5 DEF Import, JobsOK, Idle, rowVars
  <2>2. ASSUME NEW u \in Sources \ raced, Uncounted(u)' = {}, Followers(u)' # {}
        PROVE  u \in active
    <3>1. Uncounted(u) = {} /\ Followers(u) # {}
      BY <2>1, <2>2 DEF Uncounted, Followers
    <3>2. QED
      BY <1>0, <2>2, <3>1 DEF FollowedIsActive
  <2>3. QED
    BY <2>1, <2>2 DEF FollowedIsActive
<1>6. ASSUME NEW w \in Workers, CommitRemove(w)
      PROVE  FollowedIsActive'
  <2> DEFINE s == job[w].sub
  <2>1. /\ s \in Subs /\ links' \subseteq links /\ uncounted' = uncounted
        /\ raced' = raced \cup {u \in wrote[w] : Outdated(w, u) \/ u \in since[w]}
        /\ active' = active \ ({u \in wrote[w] : Lowered(base[w][u]) = 0} \cap was[w])
        /\ count' = [u \in Sources |-> IF u \in wrote[w] THEN Lowered(base[w][u]) ELSE count[u]]
    BY <1>0, <1>6 DEF CommitRemove, JobsOK, Idle
  <2>2. ASSUME NEW u \in Sources \ raced', Uncounted(u)' = {}, Followers(u)' # {}
        PROVE  u \in active'
    <3>1. Uncounted(u) = {} /\ Followers(u) # {} /\ u \notin raced
      BY <2>1, <2>2 DEF Uncounted, Followers
    <3>2. u \in active
      BY <1>0, <3>1 DEF FollowedIsActive
    <3>3. ASSUME u \in wrote[w], Lowered(base[w][u]) = 0
          PROVE  FALSE
      <4>1. count'[u] = 0
        BY <2>1, <3>3
      <4>2. Cardinality(Followers(u)') <= 0
        BY <1>0, <2>2, <4>1, FS_EmptySet DEF CountCoversLinks
      <4>3. IsFiniteSet(Followers(u)') /\ Cardinality(Followers(u)') \in Nat
        <5>1. Followers(u)' \in SUBSET Subs
          BY DEF Followers
        <5>2. QED
          BY <2>1, <5>1, SubsCount
      <4>4. Followers(u)' = {}
        BY <4>2, <4>3, FS_EmptySet
      <4>5. QED
        BY <2>2, <4>4
    <3>4. QED
      BY <2>1, <3>2, <3>3
  <2>3. QED
    BY <2>2 DEF FollowedIsActive
<1>7. ASSUME NEW w \in Workers, Commit(w)
      PROVE  FollowedIsActive'
  <2> DEFINE s == job[w].sub
  <2>1. /\ links' = links \cup ({s} \X new[w]) /\ uncounted' = uncounted
        /\ raced' = raced \cup {u \in wrote[w] : Outdated(w, u)}
        /\ active' = active \cup (wrote[w] \ was[w]) \cup fresh[w]
        /\ new[w] \subseteq wrote[w] \cup fresh[w]
    BY <1>0, <1>7 DEF Commit, Reactivated, RowsOK
  <2>2. ASSUME NEW u \in Sources \ raced', Uncounted(u)' = {}, Followers(u)' # {}
        PROVE  u \in active'
    <3>1. CASE u \in wrote[w]
      BY <2>1, <2>2, <3>1 DEF Outdated
    <3>2. CASE u \in fresh[w]
      BY <2>1, <3>2
    <3>3. CASE u \notin wrote[w] \cup fresh[w]
      <4>1. Uncounted(u) = {} /\ Followers(u) # {} /\ u \notin raced
        BY <2>1, <2>2, <3>3 DEF Uncounted, Followers
      <4>2. QED
        BY <1>0, <2>1, <4>1 DEF FollowedIsActive
    <3>4. QED
      BY <3>1, <3>2, <3>3
  <2>3. QED
    BY <2>2 DEF FollowedIsActive
<1>8. QED
  BY <1>1, <1>2, <1>3, <1>4, <1>5, <1>6, <1>7, StepKinds DEF rowVars, linkVars

\* How many a set of workers can be.
LEMMA WorkersCount ==
    ASSUME NEW S \in SUBSET Workers
    PROVE  Cardinality(S) \in Nat /\ Cardinality(S) <= Cardinality(Workers)
  BY PoolAssumption, FS_Subset, FS_CardinalityType

\* A step that adds no running subscription and no operation that has
\* passed the check of the cap keeps within it.
LEMMA CapKept ==
    ASSUME RunningWithinCap, NEW a \in Users,
           Running(a)' \subseteq Running(a), Pending(a)' \subseteq Pending(a)
    PROVE  Cardinality(Running(a)') + Cardinality(Pending(a)') + 1 <= Cap + Cardinality(Workers)
<1>1. Running(a) \in SUBSET Subs /\ Pending(a) \in SUBSET Workers
  BY DEF Running, Pending
<1>2. IsFiniteSet(Running(a)) /\ IsFiniteSet(Pending(a)) /\ IsFiniteSet(Workers)
  BY <1>1, PoolAssumption, FS_Subset
<1>3. /\ Cardinality(Running(a)') <= Cardinality(Running(a))
      /\ Cardinality(Pending(a)') <= Cardinality(Pending(a))
      /\ Cardinality(Running(a)') \in Nat /\ Cardinality(Running(a)) \in Nat
      /\ Cardinality(Pending(a)') \in Nat /\ Cardinality(Pending(a)) \in Nat
  BY <1>2, FS_Subset, FS_CardinalityType
<1>4. Cardinality(Running(a)) + Cardinality(Pending(a)) + 1 <= Cap + Cardinality(Workers)
  BY DEF RunningWithinCap
<1>5. QED
  BY <1>3, <1>4, PoolAssumption, FS_CardinalityType, <1>2

\* An operation that has found its user below the cap keeps within it.
LEMMA CapBegins ==
    ASSUME TypeOK, RunningWithinCap, NEW w \in Workers, NEW j \in Jobs, NEW U, Begin(w, j, U),
           UNCHANGED sub, j.sub \in Subs, Cardinality(Running(Owner[j.sub])) < Cap
    PROVE  RunningWithinCap'
<1>1. job' = [job EXCEPT ![w] = j] /\ job \in [Workers -> Jobs]
  BY DEF Begin, TypeOK, Jobs
<1> SUFFICES ASSUME NEW a \in Users
             PROVE  Cardinality(Running(a)') + Cardinality(Pending(a)') + 1
                        <= Cap + Cardinality(Workers)
  BY DEF RunningWithinCap
<1>2. Running(a)' = Running(a)
  BY DEF Running
<1>3. CASE a = Owner[j.sub]
  <2>1. Running(a) \in SUBSET Subs /\ Pending(a)' \in SUBSET Workers
    BY DEF Running, Pending
  <2>2. IsFiniteSet(Running(a)) /\ Cardinality(Running(a)) \in Nat
    BY <2>1, PoolAssumption, FS_Subset, FS_CardinalityType
  <2>3. /\ Cardinality(Pending(a)') \in Nat /\ Cardinality(Workers) \in Nat
        /\ Cardinality(Pending(a)') <= Cardinality(Workers)
    BY <2>1, WorkersCount, PoolAssumption, FS_CardinalityType
  <2>4. QED
    BY <1>2, <1>3, <2>2, <2>3, PoolAssumption
<1>4. CASE a # Owner[j.sub]
  <2>1. Pending(a)' \subseteq Pending(a)
    BY <1>1, <1>4 DEF Pending
  <2>2. QED
    BY <1>2, <2>1, CapKept
<1>5. QED
  BY <1>3, <1>4

\* So does the commit of one: the operation is gone, its subscription runs.
LEMMA CapCommits ==
    ASSUME TypeOK, RunningWithinCap, NEW w \in Workers, job' = [job EXCEPT ![w] = Idle],
           job[w].op \in Starting, NEW s \in Subs, s = job[w].sub,
           \A r \in Subs : r # s => sub'[r] = sub[r]
    PROVE  RunningWithinCap'
<1>1. job \in [Workers -> Jobs]
  BY DEF TypeOK, Jobs
<1> SUFFICES ASSUME NEW a \in Users
             PROVE  Cardinality(Running(a)') + Cardinality(Pending(a)') + 1
                        <= Cap + Cardinality(Workers)
  BY DEF RunningWithinCap
<1>2. CASE a = Owner[s]
  <2>1. /\ Running(a) \in SUBSET Subs /\ Running(a)' \in SUBSET Subs
        /\ Running(a)' \subseteq Running(a) \cup {s}
    BY DEF Running
  <2>2. /\ Pending(a)' \subseteq Pending(a) \ {w} /\ w \in Pending(a)
        /\ Pending(a) \in SUBSET Workers
    BY <1>1, <1>2 DEF Pending, Idle, Starting
  <2>3. /\ IsFiniteSet(Running(a)) /\ IsFiniteSet(Pending(a)) /\ IsFiniteSet(Workers)
        /\ IsFiniteSet(Running(a) \cup {s}) /\ IsFiniteSet(Pending(a) \ {w})
    BY <2>1, <2>2, PoolAssumption, FS_Subset, FS_AddElement, FS_RemoveElement
  <2>4. /\ Cardinality(Running(a)') <= Cardinality(Running(a) \cup {s})
        /\ Cardinality(Running(a) \cup {s}) <= Cardinality(Running(a)) + 1
        /\ Cardinality(Running(a)') \in Nat /\ Cardinality(Running(a) \cup {s}) \in Nat
        /\ Cardinality(Running(a)) \in Nat
    <3>1. Cardinality(Running(a)) \in Nat /\ Cardinality(Running(a) \cup {s}) \in Nat
      BY <2>3, FS_CardinalityType
    <3>2. Cardinality(Running(a) \cup {s}) <= Cardinality(Running(a)) + 1
      <4>1. Cardinality(Running(a) \cup {s}) = IF s \in Running(a) THEN Cardinality(Running(a))
                                                ELSE Cardinality(Running(a)) + 1
        BY <2>1, SubsCount
      <4>2. QED
        BY <3>1, <4>1
    <3>3. IsFiniteSet(Running(a)') /\ Cardinality(Running(a)') <= Cardinality(Running(a) \cup {s})
      BY <2>1, <2>3, FS_Subset
    <3>4. QED
      BY <3>1, <3>2, <3>3, FS_CardinalityType
  <2>5. /\ Cardinality(Pending(a)') <= Cardinality(Pending(a) \ {w})
        /\ Cardinality(Pending(a) \ {w}) = Cardinality(Pending(a)) - 1
        /\ Cardinality(Pending(a)') \in Nat /\ Cardinality(Pending(a)) \in Nat
        /\ Cardinality(Pending(a) \ {w}) \in Nat /\ Cardinality(Workers) \in Nat
    <3>1. IsFiniteSet(Pending(a)') /\ Cardinality(Pending(a)') <= Cardinality(Pending(a) \ {w})
      BY <2>2, <2>3, FS_Subset
    <3>2. Cardinality(Pending(a) \ {w}) = Cardinality(Pending(a)) - 1
      BY <2>2, <2>3, FS_RemoveElement
    <3>3. QED
      BY <2>3, <3>1, <3>2, FS_CardinalityType
  <2>6. Cardinality(Running(a)) + Cardinality(Pending(a)) + 1 <= Cap + Cardinality(Workers)
    BY DEF RunningWithinCap
  <2>7. QED
    BY <2>4, <2>5, <2>6, PoolAssumption
<1>3. CASE a # Owner[s]
  <2>1. Running(a)' \subseteq Running(a)
    BY <1>3 DEF Running
  <2>2. Pending(a)' \subseteq Pending(a)
    BY <1>1 DEF Pending, Idle, Starting
  <2>3. QED
    BY <2>1, <2>2, CapKept
<1>4. QED
  BY <1>2, <1>3

\* Every step keeps within the cap but for the operations at work.
LEMMA NextCap == TypeOK /\ JobsOK /\ RunningWithinCap /\ [Next]_vars => RunningWithinCap'
<1> SUFFICES ASSUME TypeOK, JobsOK, RunningWithinCap, [Next]_vars
             PROVE  RunningWithinCap'
  OBVIOUS
<1>1. ASSUME UNCHANGED sub, \A a \in Users : Pending(a)' \subseteq Pending(a)
      PROVE  RunningWithinCap'
  <2>1. \A a \in Users : Running(a)' \subseteq Running(a)
    BY <1>1 DEF Running
  <2>2. QED
    BY <1>1, <2>1, CapKept DEF RunningWithinCap
<1>2. ASSUME UNCHANGED <<sub, job>>
      PROVE  RunningWithinCap'
  BY <1>1, <1>2 DEF Pending
<1>3. ASSUME NEW s \in Subs, Stop(s) \/ Delete(s)
      PROVE  RunningWithinCap'
  <2>1. \A a \in Users : Running(a)' \subseteq Running(a) /\ Pending(a)' \subseteq Pending(a)
    BY <1>3 DEF Stop, Delete, Running, Pending, TypeOK
  <2>2. QED
    BY <2>1, CapKept DEF RunningWithinCap
<1>4. ASSUME NEW p \in Subs \X Sources, LockoutEnds(p)
      PROVE  RunningWithinCap'
  BY <1>2, <1>4 DEF LockoutEnds
<1>5. CASE UNCHANGED vars
  BY <1>2, <1>5 DEF vars
<1>6. ASSUME NEW w \in Workers, Work(w)
      PROVE  RunningWithinCap'
  <2>1. job \in [Workers -> Jobs]
    BY DEF TypeOK, Jobs
  <2>2. ASSUME NEW j \in Jobs, NEW U, Begin(w, j, U), UNCHANGED sub, j.op \notin Starting
        PROVE  RunningWithinCap'
    <3>1. \A a \in Users : Pending(a)' \subseteq Pending(a)
      BY <2>1, <2>2 DEF Begin, Pending
    <3>2. QED
      BY <1>1, <2>2, <3>1
  <2>3. ASSUME NEW s \in Subs, NEW U \in SUBSET Sources, StartCreate(w, s, U)
        PROVE  RunningWithinCap'
    <3>1. Job("create", s) \in Jobs /\ Job("create", s).sub = s
      BY JobTyped DEF Ops, Job
    <3>2. Begin(w, Job("create", s), U) /\ UNCHANGED sub /\ Cardinality(Running(Owner[s])) < Cap
      BY <2>3 DEF StartCreate, BelowCap
    <3>3. QED
      BY <3>1, <3>2, CapBegins
  <2>4. ASSUME NEW s \in Subs, StartResume(w, s)
        PROVE  RunningWithinCap'
    <3>1. Job("resume", s) \in Jobs /\ Job("resume", s).sub = s
      BY JobTyped DEF Ops, Job
    <3>2. Begin(w, Job("resume", s), {}) /\ UNCHANGED sub /\ Cardinality(Running(Owner[s])) < Cap
      BY <2>4 DEF StartResume, BelowCap
    <3>3. QED
      BY <3>1, <3>2, CapBegins
  <2>5. ASSUME NEW s \in Subs, StartDiscovery(w, s)
        PROVE  RunningWithinCap'
    <3>1. Job("load", s) \in Jobs /\ Job("load", s).op \notin Starting
      BY JobTyped DEF Ops, Job, Starting
    <3>2. QED
      BY <2>2, <2>5, <3>1 DEF StartDiscovery
  <2>6. ASSUME NEW s \in Subs, NEW f \in Subs, Redeem(w, s, f)
        PROVE  RunningWithinCap'
    <3> DEFINE j == [op |-> "import", sub |-> s, from |-> f]
               a == Owner[s]
    <3>1. j \in Jobs /\ j.sub = s
      BY DEF Jobs, Ops
    <3>2. Begin(w, j, {}) /\ UNCHANGED sub /\ Cardinality(Active(a)) < Cap
      BY <2>6 DEF Redeem
    <3>3. Running(a) \subseteq Active(a) /\ Active(a) \in SUBSET Subs
      BY DEF Running, Active
    <3>4. /\ Cardinality(Running(a)) <= Cardinality(Active(a))
          /\ Cardinality(Running(a)) \in Nat /\ Cardinality(Active(a)) \in Nat
      BY <3>3, PoolAssumption, FS_Subset, FS_CardinalityType
    <3>5. Cardinality(Running(a)) < Cap
      BY <3>2, <3>4, PoolAssumption
    <3> HIDE DEF j
    <3>6. QED
      BY <3>1, <3>2, <3>5, CapBegins
  <2>7. ASSUME NEW s \in Subs, NEW u \in Sources, StartAdd(w, s, u)
        PROVE  RunningWithinCap'
    <3>1. Job("add", s) \in Jobs /\ Job("add", s).op \notin Starting
      BY JobTyped DEF Ops, Job, Starting
    <3>2. QED
      BY <2>2, <2>7, <3>1 DEF StartAdd
  <2>8. ASSUME NEW s \in Subs, NEW u \in Sources, StartRemove(w, s, u)
        PROVE  RunningWithinCap'
    <3>1. Job("remove", s) \in Jobs /\ Job("remove", s).op \notin Starting
      BY JobTyped DEF Ops, Job, Starting
    <3>2. QED
      BY <2>2, <2>8, <3>1 DEF StartRemove
  <2>9. ASSUME job' = [job EXCEPT ![w] = Idle], UNCHANGED sub
        PROVE  RunningWithinCap'
    <3>1. \A a \in Users : Pending(a)' \subseteq Pending(a)
      BY <2>1, <2>9 DEF Pending, Idle, Starting
    <3>2. QED
      BY <1>1, <2>9, <3>1
  <2>10. ASSUME NEW U \in SUBSET Sources, Select(w, U)
         PROVE  RunningWithinCap'
    <3>1. CASE End(w)
      BY <2>9, <2>10, <3>1 DEF Select, End
    <3>2. CASE ~End(w)
      <4>1. job' = [job EXCEPT ![w].op = "discover"] /\ UNCHANGED sub
        BY <2>10, <3>2 DEF Select
      <4>2. \A a \in Users : Pending(a)' \subseteq Pending(a)
        BY <2>1, <4>1 DEF Pending, Jobs, Starting
      <4>3. QED
        BY <1>1, <4>1, <4>2
    <3>3. QED
      BY <3>1, <3>2
  <2>11. ASSUME NEW u \in Sources, Ensure(w, u) \/ Insert(w, u)
         PROVE  RunningWithinCap'
    BY <1>2, <2>11 DEF Ensure, Insert
  <2>12. CASE Resume(w) \/ Import(w)
    <3>1. /\ job' = [job EXCEPT ![w] = Idle] /\ job[w].op \in Starting /\ job[w].sub \in Subs
          /\ \A r \in Subs : r # job[w].sub => sub'[r] = sub[r]
      BY <2>12 DEF Resume, Import, End, Starting, JobsOK, Idle, TypeOK
    <3>2. QED
      BY <3>1, CapCommits
  <2>13. CASE CommitRemove(w)
    BY <2>9, <2>13 DEF CommitRemove
  <2>14. CASE Commit(w)
    <3>1. CASE job[w].op = "create"
      <4>1. /\ job' = [job EXCEPT ![w] = Idle] /\ job[w].op \in Starting /\ job[w].sub \in Subs
            /\ \A r \in Subs : r # job[w].sub => sub'[r] = sub[r]
        BY <2>14, <3>1 DEF Commit, End, Starting, JobsOK, Idle, TypeOK
      <4>2. QED
        BY <4>1, CapCommits
    <3>2. CASE job[w].op # "create"
      BY <2>9, <2>14, <3>2 DEF Commit, End
    <3>3. QED
      BY <3>1, <3>2
  <2>15. CASE CommitCollides(w) \/ Fail(w)
    BY <2>9, <2>15 DEF CommitCollides, Fail, End
  <2>16. QED
    BY <1>6, <2>3, <2>4, <2>5, <2>6, <2>7, <2>8, <2>10, <2>11, <2>12, <2>13, <2>14, <2>15
       DEF Work, StartReflect
<1>7. QED
  BY <1>3, <1>4, <1>5, <1>6 DEF Next

----------------------------------------------------------------------------
(* The theorems.                                                           *)

\* The invariant holds in the beginning.
LEMMA InitInv == Init => PoolInv
<1> SUFFICES ASSUME Init PROVE PoolInv
  OBVIOUS
<1> USE PoolAssumption
<1>1. TypeOK
  BY DEF Init, TypeOK, Idle, Ops
<1>2. JobsOK /\ NoLinksYet /\ RowsOK /\ RemovalsOK
  BY DEF Init, JobsOK, NoLinksYet, RowsOK, RemovalsOK, Idle
<1>3. \A u \in Sources : Followers(u) = {} /\ Uncounted(u) = {}
  BY DEF Init, Followers, Uncounted
<1>4. CountCoversLinks /\ FollowedIsActive
  <2>1. \A u \in Sources : Cardinality(Followers(u)) = 0 /\ Cardinality(Uncounted(u)) = 0
    BY <1>3, FS_EmptySet
  <2>2. \A u \in Sources : count[u] = 0
    BY DEF Init
  <2>3. QED
    BY <1>3, <2>1, <2>2 DEF CountCoversLinks, FollowedIsActive
<1>5. LockoutSeen /\ SelectionFits
  BY DEF Init, LockoutSeen, SelectionFits, Idle
<1>6. RunningWithinCap
  <2>1. \A a \in Users : Running(a) = {} /\ Pending(a) = {}
    BY DEF Init, Running, Pending, Idle, Starting
  <2>2. Cardinality(Workers) \in Nat
    BY FS_CardinalityType
  <2>3. QED
    BY <2>1, <2>2, FS_EmptySet DEF RunningWithinCap
<1>7. QED
  BY <1>1, <1>2, <1>4, <1>5, <1>6 DEF PoolInv

\* The invariant that all of them follow from.
THEOREM PoolInvariant == Spec => []PoolInv
<1>1. PoolInv /\ [Next]_vars => PoolInv'
  BY NextTyped, NextJobs, NextNoLinks, NextRows, NextRemovals, NextCount, NextActive,
     NextLockout, NextFits, NextCap DEF PoolInv
<1>2. QED
  BY InitInv, <1>1, PTL DEF Spec

\* Every variable stays in its type.
THEOREM PoolTyped == Spec => []TypeOK
<1>1. PoolInv => TypeOK
  BY DEF PoolInv
<1>2. QED
  BY <1>1, PoolInvariant, PTL

\* The count of a row that was never overwritten from an outdated copy covers
\* the links that were counted.
THEOREM PoolCountCovers == Spec => []CountCoversLinks
<1>1. PoolInv => CountCoversLinks
  BY DEF PoolInv
<1>2. QED
  BY <1>1, PoolInvariant, PTL

\* A source that a running subscription follows is polled.
THEOREM PoolFollowedPolled == Spec => []FollowedIsPolled
<1>1. PoolInv => FollowedIsPolled
  BY DEF PoolInv, FollowedIsActive, FollowedIsPolled
<1>2. QED
  BY <1>1, PoolInvariant, PTL

\* The cap is overrun only by operations that are at work at the same time.
THEOREM PoolRunningCap == Spec => []RunningWithinCap
<1>1. PoolInv => RunningWithinCap
  BY DEF PoolInv
<1>2. QED
  BY <1>1, PoolInvariant, PTL

\* A discovery attaches a removed source only if it was removed meanwhile.
THEOREM PoolRemovedStaysOut == Spec => []RemovedStaysOut
<1>1. PoolInv => RemovedStaysOut
  <2> SUFFICES ASSUME PoolInv, NEW w \in Workers, job[w].op = "discover",
                      NEW u \in new[w], <<job[w].sub, u>> \in removed
               PROVE  u \in since[w]
    BY DEF RemovedStaysOut
  <2>1. u \in LockedOut(job[w].sub)
    BY DEF PoolInv, TypeOK, LockedOut
  <2>2. QED
    BY <2>1 DEF PoolInv, LockoutSeen
<1>2. QED
  BY <1>1, PoolInvariant, PTL

\* A discovery alone leaves its subscription within the hard cap.
THEOREM PoolRoomKept == Spec => []RoomKept
<1>1. PoolInv => RoomKept
  <2> SUFFICES ASSUME PoolInv, NEW w \in Workers, job[w].op = "discover",
                      LinksOf(job[w].sub) \subseteq had[w]
               PROVE  Cardinality(LinksOf(job[w].sub) \cup todo[w] \cup new[w] \cup wrote[w])
                          <= HardCap
    BY DEF RoomKept
  <2> DEFINE A == LinksOf(job[w].sub)
             B == todo[w] \cup new[w] \cup wrote[w]
  <2>1. Cardinality(B) + Cardinality(had[w]) <= HardCap
    BY DEF PoolInv, SelectionFits, Fits
  <2>2. A \subseteq Sources /\ B \subseteq Sources /\ had[w] \subseteq Sources
    BY DEF PoolInv, TypeOK, LinksOf
  <2>3. IsFiniteSet(A) /\ IsFiniteSet(B) /\ IsFiniteSet(had[w])
    BY <2>2, PoolAssumption, FS_Subset
  <2>4. Cardinality(A) <= Cardinality(had[w])
    BY <2>3, FS_Subset
  <2>5. Cardinality(A \cup B) = Cardinality(A) + Cardinality(B) - Cardinality(A \cap B)
    BY <2>3, FS_Union
  <2>6. IsFiniteSet(A \cap B) /\ IsFiniteSet(A \cup B)
    BY <2>3, FS_Intersection, FS_Union
  <2>7. /\ Cardinality(A) \in Nat /\ Cardinality(B) \in Nat /\ Cardinality(had[w]) \in Nat
        /\ Cardinality(A \cap B) \in Nat /\ Cardinality(A \cup B) \in Nat
    BY <2>3, <2>6, FS_CardinalityType
  <2>8. Cardinality(A \cup B) <= HardCap
    BY <2>1, <2>4, <2>5, <2>7, PoolAssumption
  <2>9. A \cup B = LinksOf(job[w].sub) \cup todo[w] \cup new[w] \cup wrote[w]
    OBVIOUS
  <2>10. QED
    BY <2>8, <2>9
<1>2. QED
  BY <1>1, PoolInvariant, PTL

=============================================================================
