----------------------- MODULE DigestDelivery_proofs ------------------------
(***************************************************************************)
(* Theorems about DigestDelivery, for every set of items and tasks and     *)
(* every bound: type correctness, the two delivery invariants, that the    *)
(* tasks implement DeliveryLedger, and that no item is lost between two    *)
(* digests.                                                                *)
(***************************************************************************)
EXTENDS DigestDelivery, TLAPS

\* A session that is closed keeps the types, whatever phase the task is in
\* afterwards, as long as a retry is within the limit.
LEMMA LeaveTyped ==
    ASSUME TypeOK, NEW t \in Tasks, NEW p \in Phases, Leave(t, p),
           p = "queued" => attempts[t] < MaxAttempts
    PROVE  /\ pc' \in [Tasks -> Phases]
           /\ holder' \in [Items -> Tasks \cup {NoTask}]
           /\ attempts' \in [Tasks -> 0..MaxAttempts]
           /\ due' \in [Tasks -> Nat]
           /\ seen' \in [Tasks -> SUBSET Items]
           /\ cand' \in [Tasks -> SUBSET Items]
           /\ used' \in [Tasks -> SUBSET Items]
           /\ missed' \in [Tasks -> SUBSET Items]
           /\ stamp' \in [Tasks -> Nat]
           /\ clock' \in Nat
           /\ status' \in Statuses
           /\ published' \in [Items -> Nat]
           /\ fetched' \in [Items -> Nat]
           /\ stored' \subseteq Items
<1> USE DigestAssumption DEF TypeOK, Leave, feedVars
<1>1. attempts' \in [Tasks -> 0..MaxAttempts]
  OBVIOUS
<1>2. QED
  BY <1>1

\* Counting once more keeps a counter a counter.
LEMMA BumpTyped ==
    ASSUME NEW count \in [Items -> Nat], NEW S
    PROVE  Bump(count, S) \in [Items -> Nat]
BY DEF Bump

\* A transaction that is rolled back keeps the types, the counters' included.
LEMMA RollbackTyped ==
    ASSUME TypeOK, NEW t \in Tasks, NEW p \in Phases, Rollback(t, p),
           p = "queued" => attempts[t] < MaxAttempts, received' = received
    PROVE  TypeOK'
<1>1. Leave(t, p)
  BY DEF Rollback
<1>2. forgotten' \in [Items -> Nat]
  BY BumpTyped DEF Rollback, TypeOK
<1>3. QED
  BY <1>1, <1>2, LeaveTyped DEF Rollback, TypeOK, windowVars

\* The first state has the types.
LEMMA InitTyped == Init => TypeOK
BY DigestAssumption DEF Init, TypeOK, Phases, Statuses

\* Every step of the environment and of the tasks keeps the types.
LEMMA NextTyped == TypeOK /\ [Next]_vars => TypeOK'
<1> SUFFICES ASSUME TypeOK, [Next]_vars PROVE TypeOK'
  OBVIOUS
<1> USE DEF feedVars, dbVars, taskVars, frontVars, windowVars
<1>1. CASE Environment
  <2>1. CASE Tick
    BY <2>1 DEF Tick, TypeOK
  <2>2. ASSUME NEW s \in Statuses, SetStatus(s) PROVE TypeOK'
    BY <2>2 DEF SetStatus, TypeOK
  <2>3. ASSUME NEW i \in Items, NEW p \in Time, PollFetch(i, p) PROVE TypeOK'
    BY <2>3, DigestAssumption DEF PollFetch, TypeOK, Time
  <2>4. ASSUME NEW i \in Items, PollCommit(i) PROVE TypeOK'
    BY <2>4 DEF PollCommit, TypeOK
  <2>5. ASSUME NEW i \in Items, PollRollback(i) PROVE TypeOK'
    BY <2>5 DEF PollRollback, TypeOK
  <2>6. ASSUME NEW t \in Tasks, NEW d \in Minutes, Enqueue(t, d) PROVE TypeOK'
    BY <2>6, DigestAssumption DEF Enqueue, TypeOK, Phases
  <2>7. QED
    BY <1>1, <2>1, <2>2, <2>3, <2>4, <2>5, <2>6 DEF Environment
<1>2. ASSUME NEW t \in Tasks, Progress(t) \/ Crash(t) PROVE TypeOK'
  <2> USE DEF Phases, Working, Ended
  <2>1. CASE Start(t)
    BY <2>1 DEF Start, TypeOK, Sent
  <2>2. CASE Skip(t)
    BY <2>2, RollbackTyped DEF Skip
  <2>3. CASE FetchCandidates(t)
    BY <2>3 DEF FetchCandidates, TypeOK, Candidates
  <2>4. CASE NothingNew(t)
    BY <2>4, RollbackTyped DEF NothingNew
  <2>5. ASSUME NEW S \in SUBSET Items, Compose(t, S) PROVE TypeOK'
    BY <2>5 DEF Compose, TypeOK
  <2>6. CASE WriterError(t)
    BY <2>6, RollbackTyped DEF WriterError
  <2>7. CASE ProviderLimit(t)
    BY <2>7, RollbackTyped DEF ProviderLimit
  <2>8. ASSUME NEW i \in Items, InsertRow(t, i) PROVE TypeOK'
    BY <2>8 DEF InsertRow, TypeOK
  <2>9. CASE UniqueViolation(t)
    BY <2>9, RollbackTyped DEF UniqueViolation
  <2>10. CASE DeadlockAbort(t)
    BY <2>10, RollbackTyped DEF DeadlockAbort
  <2>11. CASE Flushed(t)
    BY <2>11 DEF Flushed, TypeOK
  <2>12. CASE Post(t)
    <3>1. received' \in [Items -> Nat]
      BY <2>12, BumpTyped DEF Post, TypeOK
    <3>2. QED
      BY <2>12, <3>1 DEF Post, TypeOK
  <2>13. CASE PostRefused(t)
    BY <2>13, RollbackTyped DEF PostRefused
  <2>14. CASE PostAnswerLost(t)
    <3>1. received' \in [Items -> Nat] /\ forgotten' \in [Items -> Nat]
      BY <2>14, BumpTyped DEF PostAnswerLost, TypeOK
    <3>2. Leave(t, "failed")
      BY <2>14 DEF PostAnswerLost
    <3>3. QED
      BY <2>14, <3>1, <3>2, LeaveTyped DEF PostAnswerLost, TypeOK
  <2>15. CASE PostNothingNew(t)
    BY <2>15, RollbackTyped DEF PostNothingNew
  <2>16. CASE Commit(t)
    <3>1. Leave(t, "done")
      BY <2>16 DEF Commit
    <3>2. QED
      BY <2>16, <3>1, LeaveTyped DEF Commit, TypeOK
  <2>17. CASE Crash(t)
    BY <2>17, RollbackTyped DEF Crash
  <2>18. QED
    BY <1>2, <2>1, <2>2, <2>3, <2>4, <2>5, <2>6, <2>7, <2>8, <2>9, <2>10, <2>11,
       <2>12, <2>13, <2>14, <2>15, <2>16, <2>17 DEF Progress
<1>3. CASE UNCHANGED vars
  BY <1>3 DEF vars, TypeOK
<1>4. QED
  BY <1>1, <1>2, <1>3 DEF Next

\* Type correctness of the digest tasks' state, in every reachable state.
THEOREM DigestTyped == Spec => []TypeOK
<1>1. QED
  BY InitTyped, NextTyped, PTL DEF Spec

-----------------------------------------------------------------------------
(* The inductive invariant.  A step either closes t's session (the lemma    *)
(* CloseKeeps), or leaves rows, digests and counters alone (QuietKeeps), or *)
(* is one of the few that move the delivery itself.                        *)

Safe == HolderOK /\ FlushedOK /\ StampOK /\ Balanced

\* Phases before the flush: their tasks hold no row.
Rowless == Phases \ {"marking", "holding", "posted"}

\* Closing a session gives up its rows; an accepted digest becomes forgotten.
LEMMA CloseKeeps ==
    ASSUME DigestInv, NEW t \in Tasks, NEW p \in Rowless,
           Rollback(t, p), UNCHANGED received
    PROVE  Safe'
<1> USE DigestAssumption DEF DigestInv, Rollback, Leave, Rowless, Phases, Working, Ended
<1>1. HolderOK'
  BY DEF TypeOK, HolderOK
<1>2. FlushedOK'
  BY DEF TypeOK, FlushedOK
<1>3. StampOK'
  BY DEF TypeOK, StampOK
<1>4. Balanced'
  <2> SUFFICES ASSUME NEW i \in Items
               PROVE  received'[i] = forgotten'[i] + IF Open(i)' THEN 1 ELSE 0
    BY DEF Balanced
  <2>1. received[i] = forgotten[i] + IF Open(i) THEN 1 ELSE 0
    BY DEF Balanced
  <2>2. CASE holder[i] = t
    <3>1. i \in used[t] /\ sentAt[i] = 0
      BY <2>2, DigestAssumption DEF HolderOK, TypeOK
    <3>2. ~Open(i)'
      BY <2>2, <3>1 DEF Open, TypeOK
    <3>3. CASE pc[t] = "posted"
      BY <2>1, <2>2, <3>1, <3>2, <3>3 DEF Open, TypeOK, Bump
    <3>4. CASE pc[t] # "posted"
      BY <2>1, <2>2, <3>1, <3>2, <3>4 DEF Open, TypeOK
    <3>5. QED
      BY <3>3, <3>4
  <2>3. CASE holder[i] # t
    <3>1. pc[t] = "posted" => i \notin used[t]
      BY <2>3 DEF FlushedOK
    <3>2. Open(i)' <=> Open(i)
      BY <2>3 DEF Open, TypeOK
    <3>3. forgotten'[i] = forgotten[i]
      BY <3>1 DEF Bump, TypeOK
    <3>4. QED
      BY <2>1, <3>2, <3>3
  <2>4. QED
    BY <2>2, <2>3
<1>5. QED
  BY <1>1, <1>2, <1>3, <1>4 DEF Safe

\* In the first state no row is open and nothing was received.
LEMMA InitSafe == Init => Safe
BY DigestAssumption DEF Init, Safe, HolderOK, FlushedOK, StampOK, Balanced, Open

\* Every step keeps rows, phases and counters in agreement.
LEMMA NextSafe == DigestInv /\ [Next]_vars => Safe'
<1> SUFFICES ASSUME DigestInv, [Next]_vars PROVE Safe'
  OBVIOUS
<1> USE DEF feedVars, dbVars, taskVars, frontVars, windowVars
<1>1. CASE Environment
  <2> USE DEF DigestInv, TypeOK, Safe, HolderOK, FlushedOK, StampOK, Balanced, Open
  <2>1. CASE Tick
    BY <2>1 DEF Tick
  <2>2. ASSUME NEW s \in Statuses, SetStatus(s) PROVE Safe'
    BY <2>2 DEF SetStatus
  <2>3. ASSUME NEW i \in Items, NEW p \in Time, PollFetch(i, p) PROVE Safe'
    BY <2>3 DEF PollFetch
  <2>4. ASSUME NEW i \in Items, PollCommit(i) PROVE Safe'
    BY <2>4 DEF PollCommit
  <2>5. ASSUME NEW i \in Items, PollRollback(i) PROVE Safe'
    BY <2>5 DEF PollRollback
  <2>6. ASSUME NEW t \in Tasks, NEW d \in Minutes, Enqueue(t, d) PROVE Safe'
    BY <2>6, DigestAssumption DEF Enqueue
  <2>7. QED
    BY <1>1, <2>1, <2>2, <2>3, <2>4, <2>5, <2>6 DEF Environment
<1>2. ASSUME NEW t \in Tasks, Progress(t) \/ Crash(t) PROVE Safe'
  <2>0. {"done", "failed", "lost", "queued", "empty"} \subseteq Rowless
    BY DEF Rowless, Phases, Working, Ended
  <2>1. CASE Start(t)
    BY <2>1, DigestAssumption
       DEF Start, DigestInv, TypeOK, Safe, HolderOK, FlushedOK, StampOK, Balanced, Open
  <2>2. CASE Skip(t)
    BY <2>0, <2>2, CloseKeeps DEF Skip
  <2>3. CASE FetchCandidates(t)
    BY <2>3, DigestAssumption
       DEF FetchCandidates, DigestInv, TypeOK, Safe, HolderOK, FlushedOK, StampOK,
           Balanced, Open
  <2>4. CASE NothingNew(t)
    BY <2>0, <2>4, CloseKeeps DEF NothingNew
  <2>5. ASSUME NEW S \in SUBSET Items, Compose(t, S) PROVE Safe'
    BY <2>5, DigestAssumption
       DEF Compose, DigestInv, TypeOK, Safe, HolderOK, FlushedOK, StampOK, Balanced, Open
  <2>6. CASE WriterError(t)
    BY <2>0, <2>6, CloseKeeps DEF WriterError
  <2>7. CASE ProviderLimit(t)
    BY <2>0, <2>7, CloseKeeps DEF ProviderLimit
  <2>8. ASSUME NEW i \in Items, InsertRow(t, i) PROVE Safe'
    BY <2>8, DigestAssumption
       DEF InsertRow, DigestInv, TypeOK, Safe, HolderOK, FlushedOK, StampOK, Balanced, Open
  <2>9. CASE UniqueViolation(t)
    BY <2>0, <2>9, CloseKeeps DEF UniqueViolation
  <2>10. CASE DeadlockAbort(t)
    BY <2>0, <2>10, CloseKeeps DEF DeadlockAbort
  <2>11. CASE Flushed(t)
    BY <2>11, DigestAssumption
       DEF Flushed, Mine, DigestInv, TypeOK, Safe, HolderOK, FlushedOK, StampOK, Balanced,
           Open
  <2>12. CASE Post(t)
    <3> USE <2>12, DigestAssumption DEF Post, DigestInv
    <3>1. HolderOK' /\ FlushedOK' /\ StampOK'
      BY DEF TypeOK, HolderOK, FlushedOK, StampOK
    <3>2. Balanced'
      <4> SUFFICES ASSUME NEW i \in Items
                   PROVE  received'[i] = forgotten'[i] + IF Open(i)' THEN 1 ELSE 0
        BY DEF Balanced
      <4>1. received[i] = forgotten[i] + IF Open(i) THEN 1 ELSE 0
        BY DEF Balanced
      <4>2. CASE i \in used[t]
        <5>1. holder[i] = t /\ sentAt[i] = 0
          BY <4>2 DEF FlushedOK, HolderOK, TypeOK
        <5>2. QED
          BY <4>1, <4>2, <5>1 DEF Open, Bump, TypeOK
      <4>3. CASE i \notin used[t]
        <5>1. holder[i] # t
          BY <4>3 DEF HolderOK, TypeOK
        <5>2. QED
          BY <4>1, <4>3, <5>1 DEF Open, Bump, TypeOK
      <4>4. QED
        BY <4>2, <4>3
    <3>3. QED
      BY <3>1, <3>2 DEF Safe
  <2>13. CASE PostRefused(t)
    BY <2>0, <2>13, CloseKeeps DEF PostRefused
  <2>14. CASE PostAnswerLost(t)
    <3> USE <2>14, DigestAssumption DEF PostAnswerLost, Leave, DigestInv
    <3>1. HolderOK' /\ FlushedOK' /\ StampOK'
      BY DEF TypeOK, HolderOK, FlushedOK, StampOK
    <3>2. ASSUME NEW i \in Items PROVE Open(i)' <=> Open(i)
      BY DEF Open, TypeOK
    <3>3. Balanced'
      BY <3>2 DEF Balanced, Bump, TypeOK
    <3>4. QED
      BY <3>1, <3>3 DEF Safe
  <2>15. CASE PostNothingNew(t)
    BY <2>0, <2>15, CloseKeeps DEF PostNothingNew
  <2>16. CASE Commit(t)
    <3> USE <2>16, DigestAssumption DEF Commit, Leave, DigestInv
    <3>1. HolderOK' /\ FlushedOK' /\ StampOK'
      BY DEF TypeOK, HolderOK, FlushedOK, StampOK
    <3>2. ASSUME NEW i \in Items PROVE Open(i)' <=> Open(i)
      <4>1. CASE i \in used[t]
        <5>1. holder[i] = t /\ stamp[t] > 0
          BY <4>1 DEF FlushedOK, StampOK
        <5>2. QED
          BY <4>1, <5>1 DEF Open, TypeOK
      <4>2. CASE i \notin used[t]
        <5>1. holder[i] # t
          BY <4>2 DEF HolderOK, TypeOK
        <5>2. QED
          BY <4>2, <5>1 DEF Open, TypeOK
      <4>3. QED
        BY <4>1, <4>2
    <3>3. Balanced'
      BY <3>2 DEF Balanced, TypeOK, frontVars
    <3>4. QED
      BY <3>1, <3>3 DEF Safe
  <2>17. CASE Crash(t)
    BY <2>0, <2>17, CloseKeeps DEF Crash
  <2>18. QED
    BY <1>2, <2>1, <2>2, <2>3, <2>4, <2>5, <2>6, <2>7, <2>8, <2>9, <2>10, <2>11,
       <2>12, <2>13, <2>14, <2>15, <2>16, <2>17 DEF Progress
<1>3. CASE UNCHANGED vars
  BY <1>3 DEF vars, DigestInv, TypeOK, Safe, HolderOK, FlushedOK, StampOK, Balanced, Open
<1>4. QED
  BY <1>1, <1>2, <1>3 DEF Next

\* In every reachable state rows, phases and counters agree: the fact behind
\* the two delivery theorems and the refinement.
THEOREM DigestInvariant == Spec => []DigestInv
<1>1. Init => DigestInv
  BY InitTyped, InitSafe DEF DigestInv, Safe
<1>2. DigestInv /\ [Next]_vars => DigestInv'
  BY NextTyped, NextSafe DEF DigestInv, Safe
<1>3. QED
  BY <1>1, <1>2, PTL DEF Spec

\* Overlapping digest tasks repeat nothing: an item comes back only after an
\* accepted digest with it was not recorded.
THEOREM DigestNoRepeat == Spec => []NoUnexplainedRepeat
<1>1. DigestInv => NoUnexplainedRepeat
  <2>1. SUFFICES ASSUME DigestInv, NEW i \in Items
                 PROVE  received[i] <= forgotten[i] + 1
    BY DEF NoUnexplainedRepeat
  <2>2. received[i] \in Nat /\ forgotten[i] \in Nat
    BY <2>1 DEF DigestInv, TypeOK
  <2>3. received[i] = forgotten[i] + 1 \/ received[i] = forgotten[i] + 0
    BY <2>1 DEF DigestInv, Balanced
  <2>4. QED
    BY <2>2, <2>3
<1>2. QED
  BY <1>1, DigestInvariant, PTL

\* Whatever is on record as sent was accepted by the frontend.
THEOREM DigestRecorded == Spec => []RecordedWasReceived
<1>1. DigestInv => RecordedWasReceived
  <2>1. SUFFICES ASSUME DigestInv, NEW i \in Items, sentAt[i] # 0
                 PROVE  received[i] > forgotten[i]
    BY DEF RecordedWasReceived
  <2>2. received[i] \in Nat /\ forgotten[i] \in Nat
    BY <2>1 DEF DigestInv, TypeOK
  <2>3. received[i] = forgotten[i] + 1
    BY <2>1 DEF DigestInv, Balanced, Open
  <2>4. QED
    BY <2>2, <2>3
<1>2. QED
  BY <1>1, DigestInvariant, PTL

-----------------------------------------------------------------------------
(* The tasks implement the ledger.                                         *)

Stutters == UNCHANGED Ledger!ledgerVars

\* Where the counters stay and no item changes its ledger state, the ledger
\* sees nothing.
LEMMA SameLedger ==
    ASSUME UNCHANGED <<received, forgotten>>,
           \A i \in Items : LedgerState'[i] = LedgerState[i]
    PROVE  Stutters
<1>1. LedgerState' = LedgerState
  BY DEF LedgerState
<1>2. QED
  BY <1>1 DEF Stutters, Ledger!ledgerVars

\* Closing a session forgets an open delivery, or is nothing to the ledger.
LEMMA CloseMaps ==
    ASSUME DigestInv, NEW t \in Tasks, NEW p \in Rowless,
           Rollback(t, p), UNCHANGED received
    PROVE  Ledger!Next \/ Stutters
<1> USE DigestAssumption DEF DigestInv, Rollback, Leave, Rowless, Phases, Working, Ended
<1>1. ASSUME NEW i \in Items, holder[i] = t
      PROVE  i \in used[t] /\ sentAt[i] = 0 /\ LedgerState'[i] = "unsent"
  BY <1>1 DEF HolderOK, TypeOK, LedgerState
<1>2. ASSUME NEW i \in Items, holder[i] # t
      PROVE  LedgerState'[i] = LedgerState[i]
  BY <1>2 DEF TypeOK, LedgerState
<1>3. CASE pc[t] = "posted"
  <2>1. \A i \in Items : i \in used[t] <=> holder[i] = t
    BY <1>1, <1>3 DEF FlushedOK, TypeOK
  <2>2. \A i \in used[t] : LedgerState[i] = "open"
    BY <1>1, <1>3, <2>1 DEF LedgerState, TypeOK
  <2>3. \A i \in Items : LedgerState'[i] = IF i \in used[t] THEN "unsent" ELSE LedgerState[i]
    BY <1>1, <1>2, <2>1
  <2>4. LedgerState' = [i \in Items |-> IF i \in used[t] THEN "unsent" ELSE LedgerState[i]]
    BY <2>3 DEF LedgerState
  <2>5. forgotten' = [i \in Items |-> forgotten[i] + Ledger!In(used[t], i)]
    BY <1>3 DEF Bump, Ledger!In
  <2>6. Ledger!Forget(used[t])
    BY <2>2, <2>4, <2>5 DEF Ledger!Forget
  <2>7. QED
    BY <2>6 DEF Ledger!Next, TypeOK
<1>4. CASE pc[t] # "posted"
  <2>1. \A i \in Items : holder[i] = t => LedgerState[i] = "unsent"
    BY <1>1, <1>4 DEF LedgerState, TypeOK
  <2>2. \A i \in Items : LedgerState'[i] = LedgerState[i]
    BY <1>1, <1>2, <2>1
  <2>3. QED
    BY <1>4, <2>2, SameLedger
<1>5. QED
  BY <1>3, <1>4

\* Every step of the tasks is a step of the ledger or a stutter.
LEMMA NextMaps == DigestInv /\ [Next]_vars => Ledger!Next \/ Stutters
<1> SUFFICES ASSUME DigestInv, [Next]_vars PROVE Ledger!Next \/ Stutters
  OBVIOUS
<1> USE DEF feedVars, dbVars, taskVars, frontVars, windowVars
<1>1. CASE Environment
  <2> USE SameLedger DEF DigestInv, TypeOK, LedgerState
  <2>1. CASE Tick
    BY <2>1 DEF Tick
  <2>2. ASSUME NEW s \in Statuses, SetStatus(s) PROVE Stutters
    BY <2>2 DEF SetStatus
  <2>3. ASSUME NEW i \in Items, NEW p \in Time, PollFetch(i, p) PROVE Stutters
    BY <2>3 DEF PollFetch
  <2>4. ASSUME NEW i \in Items, PollCommit(i) PROVE Stutters
    BY <2>4 DEF PollCommit
  <2>5. ASSUME NEW i \in Items, PollRollback(i) PROVE Stutters
    BY <2>5 DEF PollRollback
  <2>6. ASSUME NEW t \in Tasks, NEW d \in Minutes, Enqueue(t, d) PROVE Stutters
    BY <2>6, DigestAssumption DEF Enqueue, HolderOK
  <2>7. QED
    BY <1>1, <2>1, <2>2, <2>3, <2>4, <2>5, <2>6 DEF Environment
<1>2. ASSUME NEW t \in Tasks, Progress(t) \/ Crash(t) PROVE Ledger!Next \/ Stutters
  <2>0. {"done", "failed", "lost", "queued", "empty"} \subseteq Rowless
    BY DEF Rowless, Phases, Working, Ended
  <2>1. CASE Start(t)
    BY <2>1, SameLedger, DigestAssumption DEF Start, DigestInv, TypeOK, HolderOK, LedgerState
  <2>2. CASE Skip(t)
    BY <2>0, <2>2, CloseMaps DEF Skip
  <2>3. CASE FetchCandidates(t)
    BY <2>3, SameLedger, DigestAssumption
       DEF FetchCandidates, DigestInv, TypeOK, HolderOK, LedgerState
  <2>4. CASE NothingNew(t)
    BY <2>0, <2>4, CloseMaps DEF NothingNew
  <2>5. ASSUME NEW S \in SUBSET Items, Compose(t, S) PROVE Stutters
    BY <2>5, SameLedger, DigestAssumption DEF Compose, DigestInv, TypeOK, HolderOK, LedgerState
  <2>6. CASE WriterError(t)
    BY <2>0, <2>6, CloseMaps DEF WriterError
  <2>7. CASE ProviderLimit(t)
    BY <2>0, <2>7, CloseMaps DEF ProviderLimit
  <2>8. ASSUME NEW i \in Items, InsertRow(t, i) PROVE Stutters
    BY <2>8, SameLedger, DigestAssumption
       DEF InsertRow, DigestInv, TypeOK, HolderOK, LedgerState
  <2>9. CASE UniqueViolation(t)
    BY <2>0, <2>9, CloseMaps DEF UniqueViolation
  <2>10. CASE DeadlockAbort(t)
    BY <2>0, <2>10, CloseMaps DEF DeadlockAbort
  <2>11. CASE Flushed(t)
    BY <2>11, SameLedger, DigestAssumption DEF Flushed, DigestInv, TypeOK, HolderOK, LedgerState
  <2>12. CASE Post(t)
    <3> USE <2>12, DigestAssumption DEF Post, DigestInv
    <3>1. \A i \in Items : i \in used[t] <=> holder[i] = t
      BY DEF FlushedOK, HolderOK, TypeOK
    <3>2. \A i \in used[t] : LedgerState[i] = "unsent"
      BY <3>1 DEF HolderOK, LedgerState, TypeOK
    <3>3. LedgerState' = [i \in Items |-> IF i \in used[t] THEN "open" ELSE LedgerState[i]]
      <4>1. \A i \in Items :
               LedgerState'[i] = IF i \in used[t] THEN "open" ELSE LedgerState[i]
        BY <3>1 DEF HolderOK, LedgerState, TypeOK
      <4>2. QED
        BY <4>1 DEF LedgerState
    <3>4. received' = [i \in Items |-> received[i] + Ledger!In(used[t], i)]
      BY DEF Bump, Ledger!In
    <3>5. Ledger!Open(used[t])
      BY <3>2, <3>3, <3>4 DEF Ledger!Open
    <3>6. QED
      BY <3>5 DEF Ledger!Next, TypeOK
  <2>13. CASE PostRefused(t)
    BY <2>0, <2>13, CloseMaps DEF PostRefused
  <2>14. CASE PostAnswerLost(t)
    <3> USE <2>14, DigestAssumption DEF PostAnswerLost, Leave, DigestInv
    <3>1. \A i \in used[t] : LedgerState[i] = "unsent"
      BY DEF FlushedOK, HolderOK, LedgerState, TypeOK
    <3>2. LedgerState' = LedgerState
      <4>1. \A i \in Items : LedgerState'[i] = LedgerState[i]
        BY DEF HolderOK, LedgerState, TypeOK
      <4>2. QED
        BY <4>1 DEF LedgerState
    <3>3. Ledger!OpenAndForget(used[t])
      BY <3>1, <3>2 DEF Bump, Ledger!In, Ledger!OpenAndForget
    <3>4. QED
      BY <3>3 DEF Ledger!Next, TypeOK
  <2>15. CASE PostNothingNew(t)
    BY <2>0, <2>15, CloseMaps DEF PostNothingNew
  <2>16. CASE Commit(t)
    <3> USE <2>16, DigestAssumption DEF Commit, Leave, DigestInv
    <3>1. \A i \in Items : i \in used[t] <=> holder[i] = t
      BY DEF FlushedOK, HolderOK, TypeOK
    <3>2. \A i \in used[t] : LedgerState[i] = "open"
      BY <3>1 DEF HolderOK, LedgerState, TypeOK
    <3>3. LedgerState' = [i \in Items |-> IF i \in used[t] THEN "recorded" ELSE LedgerState[i]]
      <4>1. stamp[t] > 0
        BY DEF StampOK
      <4>2. \A i \in Items :
               LedgerState'[i] = IF i \in used[t] THEN "recorded" ELSE LedgerState[i]
        BY <3>1, <4>1 DEF HolderOK, LedgerState, TypeOK
      <4>3. QED
        BY <4>2 DEF LedgerState
    <3>4. Ledger!Record(used[t])
      BY <3>2, <3>3 DEF Ledger!Record
    <3>5. QED
      BY <3>4 DEF Ledger!Next, TypeOK
  <2>17. CASE Crash(t)
    BY <2>0, <2>17, CloseMaps DEF Crash
  <2>18. QED
    BY <1>2, <2>1, <2>2, <2>3, <2>4, <2>5, <2>6, <2>7, <2>8, <2>9, <2>10, <2>11,
       <2>12, <2>13, <2>14, <2>15, <2>16, <2>17 DEF Progress
<1>3. CASE UNCHANGED vars
  BY <1>3, SameLedger DEF vars, LedgerState
<1>4. QED
  BY <1>1, <1>2, <1>3 DEF Next

\* The digest tasks, their transactions and the unique index together keep
\* the ledger's promise: nothing open or recorded is POSTed again.
THEOREM DigestImplementsLedger == Spec => LedgerSpec
<1>1. Init => Ledger!Init
  BY DEF Init, Ledger!Init, LedgerState
<1>2. DigestInv /\ [Next]_vars => [Ledger!Next]_(Ledger!ledgerVars)
  BY NextMaps DEF Stutters
<1>3. QED
  BY <1>1, <1>2, DigestInvariant, PTL DEF Spec, LedgerSpec, Ledger!Spec
-----------------------------------------------------------------------------
(* No stored item falls between two digests unseen.  A recorded digest      *)
(* moves the cut-off to its stamp, so what has to be known at the commit is *)
(* that every item fetched before the stamp was accounted for by the task:  *)
(* WindowOK.  It is FetchedKept of the moment the task read the sent rows,  *)
(* carried along with the task.                                             *)

Kept == PastOK /\ WindowOK /\ FetchedKept

\* Phases in which WindowOK speaks of a task.
Window == {"writing", "marking", "holding", "posted"}

\* Closing a session without a commit drops what the task knew, and the sent
\* rows and what is on record of the windows stay.
LEMMA LeaveKeeps ==
    ASSUME DigestInv, Kept, NEW t \in Tasks, NEW p \in Rowless, p # "writing",
           Leave(t, p), UNCHANGED <<sentAt, windowVars>>
    PROVE  Kept'
<1> USE DEF DigestInv, Kept, Leave, Rowless, feedVars, windowVars
<1>1. PastOK'
  BY DEF TypeOK, PastOK, Sent
<1>2. WindowOK'
  <2>1. pc'[t] = p /\ \A u \in Tasks \ {t} : pc'[u] = pc[u]
    BY DEF TypeOK
  <2>2. p \notin Window
    BY DEF Window
  <2>3. SUFFICES ASSUME NEW u \in Tasks, pc'[u] \in Window,
                        NEW i \in Items, fetched'[i] # 0
                 PROVE  \/ i \in cand'[u] \cup missed'[u] \cup seen'[u]
                        \/ published'[i] + MaxAge < clock'
                        \/ \E j \in seen'[u] : fetched'[i] < sentAt'[j]
                        \/ pc'[u] # "writing" /\ fetched'[i] >= stamp'[u]
    BY DEF WindowOK, Window
  <2>4. u # t
    BY <2>1, <2>2, <2>3
  <2>5. QED
    BY <2>1, <2>3, <2>4 DEF TypeOK, WindowOK, Window
<1>3. FetchedKept'
  BY DEF FetchedKept, Sent
<1>4. QED
  BY <1>1, <1>2, <1>3

\* ... so a rollback keeps it.
LEMMA RollbackKeeps ==
    ASSUME DigestInv, Kept, NEW t \in Tasks, NEW p \in Rowless, p # "writing",
           Rollback(t, p)
    PROVE  Kept'
BY LeaveKeeps DEF Rollback

\* A step that leaves the feed, the sent rows and the windows alone, and no
\* task a phase further than it was, keeps it.
LEMMA SameKeeps ==
    ASSUME DigestInv, Kept,
           UNCHANGED <<clock, feedVars, sentAt, seen, cand, missed, stamp, windowVars>>,
           \A u \in Tasks : pc'[u] \in Window =>
               pc[u] \in Window /\ (pc[u] = "writing" <=> pc'[u] = "writing")
    PROVE  Kept'
BY DEF DigestInv, TypeOK, Kept, PastOK, WindowOK, FetchedKept, Sent, Window, feedVars,
       windowVars

\* A digest on record: its task had accounted for whatever was fetched before
\* its stamp, and the rest still lies after every recorded stamp.
LEMMA CommitKeeps ==
    ASSUME DigestInv, Kept, NEW t \in Tasks, Commit(t)
    PROVE  Kept'
<1> USE DEF DigestInv, Kept, Commit, Leave, feedVars
<1>1. \A i \in used[t] : sentAt[i] = 0 /\ sentAt'[i] = stamp[t]
  BY DigestAssumption DEF TypeOK, FlushedOK, HolderOK
<1>2. \A i \in Items \ used[t] : sentAt'[i] = sentAt[i]
  BY DEF TypeOK
<1>3. used[t] \subseteq Items /\ stamp[t] \in Nat /\ stamp[t] > 0 /\ stamp[t] <= clock
  BY DEF TypeOK, StampOK, PastOK
<1>4. Sent' = Sent \cup used[t]
  BY <1>1, <1>2, <1>3 DEF Sent
<1>5. \A i \in Sent : sentAt'[i] = sentAt[i]
  BY <1>1, <1>2 DEF Sent
<1>6. PastOK'
  <2>1. \A i \in Items : sentAt'[i] <= clock
    BY <1>1, <1>2, <1>3 DEF PastOK
  <2>2. \A u \in Tasks : stamp'[u] <= clock /\ seen'[u] \subseteq Sent'
    BY <1>4 DEF TypeOK, PastOK
  <2>3. QED
    BY <2>1, <2>2 DEF PastOK
<1>7. WindowOK'
  <2>1. SUFFICES ASSUME NEW u \in Tasks, pc'[u] \in Window,
                        NEW i \in Items, fetched[i] # 0
                 PROVE  \/ i \in cand'[u] \cup missed'[u] \cup seen'[u]
                        \/ published[i] + MaxAge < clock
                        \/ \E j \in seen'[u] : fetched[i] < sentAt'[j]
                        \/ pc'[u] # "writing" /\ fetched[i] >= stamp'[u]
    BY DEF WindowOK, Window
  <2>2. u # t
    BY <2>1 DEF TypeOK, Window
  <2>3. pc'[u] = pc[u] /\ cand'[u] = cand[u] /\ missed'[u] = missed[u]
        /\ seen'[u] = seen[u] /\ stamp'[u] = stamp[u]
    BY <2>2 DEF TypeOK
  <2>4. \A j \in seen[u] : sentAt'[j] = sentAt[j]
    BY <1>5 DEF PastOK
  <2>5. QED
    BY <2>1, <2>3, <2>4 DEF WindowOK, Window
<1>8. FetchedKept'
  <2>1. SUFFICES ASSUME NEW i \in Items, fetched[i] # 0,
                        i \notin Sent' \cup offered' \cup raced',
                        ~(published[i] + MaxAge < clock)
                 PROVE  \A j \in Sent' : fetched[i] >= sentAt'[j]
    BY DEF FetchedKept
  <2>2. i \notin Sent \cup offered \cup raced
    BY <1>4, <2>1
  <2>3. \A j \in Sent : fetched[i] >= sentAt[j]
    BY <2>1, <2>2 DEF FetchedKept
  <2>4. i \notin cand[t] \cup missed[t] \cup seen[t]
    BY <1>4, <2>1 DEF PastOK
  <2>5. ~ \E j \in seen[t] : fetched[i] < sentAt[j]
    <3>1. seen[t] \subseteq Sent /\ Sent \subseteq Items
      BY DEF PastOK, Sent
    <3>2. fetched[i] \in Nat /\ \A j \in Items : sentAt[j] \in Nat
      BY DEF TypeOK
    <3>3. QED
      BY <2>3, <3>1, <3>2
  <2>6. fetched[i] >= stamp[t]
    BY <2>1, <2>4, <2>5 DEF WindowOK
  <2>7. QED
    BY <1>1, <1>4, <1>5, <2>3, <2>6
<1>9. QED
  BY <1>6, <1>7, <1>8

\* In the first state nothing is fetched and nothing was read.
LEMMA InitKept == Init => Kept
BY DigestAssumption DEF Init, Kept, PastOK, WindowOK, FetchedKept, Sent

\* Every step keeps the account of the fetched items.
LEMMA NextKept == DigestInv /\ Kept /\ [Next]_vars => Kept'
<1> SUFFICES ASSUME DigestInv, Kept, [Next]_vars PROVE Kept'
  OBVIOUS
<1> USE DEF feedVars, dbVars, taskVars, frontVars, windowVars
<1>1. CASE Environment
  <2>1. CASE Tick
    BY <2>1, DigestAssumption
       DEF Tick, DigestInv, TypeOK, Kept, PastOK, WindowOK, FetchedKept, Sent
  <2>2. ASSUME NEW s \in Statuses, SetStatus(s) PROVE Kept'
    BY <2>2, SameKeeps DEF SetStatus, Window
  <2>3. ASSUME NEW i \in Items, NEW p \in Time, PollFetch(i, p) PROVE Kept'
    <3> USE <2>3 DEF PollFetch, DigestInv, Kept
    <3>1. fetched'[i] = clock /\ \A k \in Items \ {i} : /\ fetched'[k] = fetched[k]
                                                        /\ published'[k] = published[k]
      BY DEF TypeOK
    <3>2. PastOK'
      BY <3>1 DEF TypeOK, PastOK, Sent, StampOK
    <3>3. WindowOK'
      <4>1. SUFFICES ASSUME NEW u \in Tasks, pc[u] \in Window,
                            NEW k \in Items, fetched'[k] # 0
                     PROVE  \/ k \in cand[u] \cup missed'[u] \cup seen[u]
                            \/ published'[k] + MaxAge < clock
                            \/ \E j \in seen[u] : fetched'[k] < sentAt[j]
                            \/ pc[u] # "writing" /\ fetched'[k] >= stamp[u]
        BY DEF WindowOK, Window
      <4>2. missed'[u] = missed[u] \cup IF pc[u] = "writing" THEN {i} ELSE {}
        BY DEF TypeOK
      <4>3. CASE k = i
        BY <3>1, <4>1, <4>2, <4>3 DEF PastOK
      <4>4. CASE k # i
        BY <3>1, <4>1, <4>2, <4>4 DEF WindowOK, Window
      <4>5. QED
        BY <4>3, <4>4
    <3>4. FetchedKept'
      BY <3>1 DEF FetchedKept, PastOK, Sent
    <3>5. QED
      BY <3>2, <3>3, <3>4
  <2>4. ASSUME NEW i \in Items, PollCommit(i) PROVE Kept'
    BY <2>4 DEF PollCommit, DigestInv, TypeOK, Kept, PastOK, WindowOK, FetchedKept, Sent
  <2>5. ASSUME NEW i \in Items, PollRollback(i) PROVE Kept'
    <3> USE <2>5 DEF PollRollback, DigestInv, Kept
    <3>1. fetched'[i] = 0 /\ \A k \in Items \ {i} : /\ fetched'[k] = fetched[k]
                                                    /\ published'[k] = published[k]
      BY DEF TypeOK
    <3>2. PastOK'
      BY <3>1 DEF TypeOK, PastOK, Sent
    <3>3. WindowOK'
      <4>1. SUFFICES ASSUME NEW u \in Tasks, pc[u] \in Window,
                            NEW k \in Items, fetched'[k] # 0
                     PROVE  \/ k \in cand[u] \cup missed'[u] \cup seen[u]
                            \/ published'[k] + MaxAge < clock
                            \/ \E j \in seen[u] : fetched'[k] < sentAt[j]
                            \/ pc[u] # "writing" /\ fetched'[k] >= stamp[u]
        BY DEF WindowOK, Window
      <4>2. missed'[u] = missed[u] \ {i} /\ k # i
        BY <3>1, <4>1 DEF TypeOK
      <4>3. QED
        BY <3>1, <4>1, <4>2 DEF WindowOK, Window
    <3>4. FetchedKept'
      BY <3>1 DEF FetchedKept, Sent
    <3>5. QED
      BY <3>2, <3>3, <3>4
  <2>6. ASSUME NEW t \in Tasks, NEW d \in Minutes, Enqueue(t, d) PROVE Kept'
    <3>1. \A u \in Tasks : pc'[u] \in Window => pc'[u] = pc[u]
      BY <2>6 DEF Enqueue, DigestInv, TypeOK, Window
    <3>2. QED
      BY <2>6, <3>1, SameKeeps DEF Enqueue
  <2>7. QED
    BY <1>1, <2>1, <2>2, <2>3, <2>4, <2>5, <2>6 DEF Environment
<1>2. ASSUME NEW t \in Tasks, Progress(t) \/ Crash(t) PROVE Kept'
  <2>0. {"done", "failed", "lost", "queued", "empty"} \subseteq Rowless
    BY DEF Rowless, Phases, Working, Ended
  <2>1. CASE Start(t)
    <3> USE <2>1 DEF Start, DigestInv, Kept
    <3>1. PastOK'
      BY DEF TypeOK, PastOK, Sent
    <3>2. WindowOK'
      BY DEF TypeOK, WindowOK
    <3>3. FetchedKept'
      BY DEF FetchedKept, Sent
    <3>4. QED
      BY <3>1, <3>2, <3>3
  <2>2. CASE Skip(t)
    BY <2>0, <2>2, RollbackKeeps DEF Skip
  <2>3. CASE FetchCandidates(t)
    <3> USE <2>3 DEF FetchCandidates, DigestInv, Kept
    <3>1. PastOK' /\ FetchedKept'
      BY DEF PastOK, FetchedKept, Sent
    <3>2. WindowOK'
      <4>1. SUFFICES ASSUME NEW u \in Tasks, pc'[u] \in Window,
                            NEW i \in Items, fetched[i] # 0
                     PROVE  \/ i \in cand'[u] \cup missed'[u] \cup seen[u]
                            \/ published[i] + MaxAge < clock
                            \/ \E j \in seen[u] : fetched[i] < sentAt[j]
                            \/ pc'[u] # "writing" /\ fetched[i] >= stamp[u]
        BY DEF WindowOK, Window
      <4>2. CASE u # t
        BY <4>1, <4>2 DEF TypeOK, WindowOK, Window
      <4>3. CASE u = t
        <5>1. cand'[t] = Candidates(seen[t])
          BY DEF TypeOK
        <5>2. missed'[t] = {k \in Items : fetched[k] # 0} \ stored
          BY DEF TypeOK
        <5>3. CASE i \in stored \ seen[t] /\ ~Qualifies(i, seen[t])
          <6>1. /\ published[i] \in Nat /\ fetched[i] \in Nat /\ clock \in Nat
                /\ \A j \in Items : sentAt[j] \in Nat
                /\ seen[t] \subseteq Items
            BY DEF TypeOK
          <6>2. QED
            BY <4>3, <5>3, <6>1, DigestAssumption DEF Qualifies
        <5>4. QED
          BY <4>1, <4>3, <5>1, <5>2, <5>3 DEF Candidates
      <4>4. QED
        BY <4>2, <4>3
    <3>3. QED
      BY <3>1, <3>2
  <2>4. CASE NothingNew(t)
    BY <2>0, <2>4, RollbackKeeps DEF NothingNew
  <2>5. ASSUME NEW S \in SUBSET Items, Compose(t, S) PROVE Kept'
    <3> USE <2>5 DEF Compose, DigestInv, Kept
    <3>1. PastOK' /\ FetchedKept'
      BY DEF TypeOK, PastOK, FetchedKept, Sent
    <3>2. WindowOK'
      BY DEF TypeOK, WindowOK
    <3>3. QED
      BY <3>1, <3>2
  <2>6. CASE WriterError(t)
    BY <2>0, <2>6, RollbackKeeps DEF WriterError
  <2>7. CASE ProviderLimit(t)
    BY <2>0, <2>7, RollbackKeeps DEF ProviderLimit
  <2>8. ASSUME NEW i \in Items, InsertRow(t, i) PROVE Kept'
    BY <2>8, SameKeeps DEF InsertRow
  <2>9. CASE UniqueViolation(t)
    BY <2>0, <2>9, RollbackKeeps DEF UniqueViolation
  <2>10. CASE DeadlockAbort(t)
    BY <2>0, <2>10, RollbackKeeps DEF DeadlockAbort
  <2>11. CASE Flushed(t)
    BY <2>11, SameKeeps DEF Flushed, DigestInv, TypeOK, Window
  <2>12. CASE Post(t)
    BY <2>12, SameKeeps DEF Post, DigestInv, TypeOK, Window
  <2>13. CASE PostRefused(t)
    BY <2>0, <2>13, RollbackKeeps DEF PostRefused
  <2>14. CASE PostAnswerLost(t)
    BY <2>0, <2>14, LeaveKeeps DEF PostAnswerLost
  <2>15. CASE PostNothingNew(t)
    BY <2>0, <2>15, RollbackKeeps DEF PostNothingNew
  <2>16. CASE Commit(t)
    BY <2>16, CommitKeeps
  <2>17. CASE Crash(t)
    BY <2>0, <2>17, RollbackKeeps DEF Crash
  <2>18. QED
    BY <1>2, <2>1, <2>2, <2>3, <2>4, <2>5, <2>6, <2>7, <2>8, <2>9, <2>10, <2>11,
       <2>12, <2>13, <2>14, <2>15, <2>16, <2>17 DEF Progress
<1>3. CASE UNCHANGED vars
  BY <1>3, SameKeeps DEF vars
<1>4. QED
  BY <1>1, <1>2, <1>3 DEF Next

\* No item is lost between two digests: what is stored and was never offered
\* to a recorded digest's writer passes the cut-off of the next one, unless
\* its poll overlapped the writing of a recorded digest or it has grown old.
THEOREM DigestUnracedItemKept == Spec => []UnracedItemKept
<1>1. Init => Kept
  BY InitKept
<1>2. KeptInv => UnracedItemKept
  <2>1. SUFFICES ASSUME KeptInv, NEW i \in stored \ (Sent \cup offered \cup raced),
                        ~(published[i] + MaxAge < clock)
                 PROVE  Qualifies(i, Sent)
    BY DEF UnracedItemKept
  <2>2. i \in Items /\ fetched[i] # 0
    BY <2>1 DEF KeptInv, DigestInv, TypeOK, PastOK
  <2>3. \A j \in Sent : fetched[i] >= sentAt[j]
    BY <2>1, <2>2 DEF KeptInv, FetchedKept
  <2>4. published[i] + MaxAge >= clock
    <3>1. published[i] \in Nat /\ clock \in Nat /\ MaxAge \in Nat
      BY <2>1, <2>2, DigestAssumption DEF KeptInv, DigestInv, TypeOK
    <3>2. QED
      BY <2>1, <3>1
  <2>5. QED
    BY <2>3, <2>4 DEF Qualifies
<1>3. KeptInv <=> DigestInv /\ Kept
  BY DEF KeptInv, Kept
<1>4. QED
  BY <1>1, <1>2, <1>3, NextKept, DigestInvariant, PTL DEF Spec

=============================================================================
