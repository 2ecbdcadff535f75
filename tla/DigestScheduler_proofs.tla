----------------------- MODULE DigestScheduler_proofs -----------------------
(***************************************************************************)
(* Theorems about the scheduling scans: no slot is skipped, for any number *)
(* of subscriptions and overlapping scans, whatever is aborted.            *)
(*                                                                         *)
(* The invariant NoSlotSkipped speaks of the committed rows only.  A       *)
(* commit writes what its scan computed from a row it read long before, so *)
(* the induction also needs RowsSent: that row's past slots, and the slots *)
(* the scan has queued, have all had their message.                        *)
(*                                                                         *)
(* And no slot is sent twice without a reason, from SentCounted: a slot    *)
(* has one message that is on record or is going to be, and the others are *)
(* those of scans that ended without their commit.                         *)
(***************************************************************************)
EXTENDS DigestScheduler, TLAPS

\* A slot the clock reaches with the lead time is one of the slots counted.
LEMMA ReachedIsSlot ==
    ASSUME NEW k \in Nat \ {0}, NEW f \in Nat, k <= f,
           NEW minute \in 0..MaxTime, Reached(f, minute)
    PROVE  k \in Slots
<1> USE SchedulerAssumption DEF SchedulerAssumption
<1>1. f * Period >= f
  <2>1. Period \in Nat /\ Period >= 1
    OBVIOUS
  <2>2. f * (Period - 1) \in Nat
    BY <2>1
  <2>3. f * Period = f * (Period - 1) + f
    BY <2>1
  <2> QED BY <2>1, <2>2, <2>3
<1> QED BY <1>1 DEF Reached, Slots

\* Closing a scan leaves the scans well-typed and empty where none runs.
LEMMA EndScanTyped ==
    ASSUME TypeOK, NEW s \in Scans, EndScan(s)
    PROVE  /\ todo' \in [Scans -> SUBSET Subs]
           /\ row' \in [Scans -> [Subs -> Nat]]
           /\ queued' \in [Scans -> SUBSET Subs]
           /\ now' \in [Scans -> 0..MaxTime]
           /\ scanning' \subseteq Scans
           /\ \A r \in Scans \ scanning' : todo'[r] = {} /\ queued'[r] = {}
BY SchedulerAssumption DEF SchedulerAssumption, TypeOK, EndScan

\* Closing a scan forgets what it read and what it had queued.
LEMMA EndScanKeepsRowsSent ==
    ASSUME TypeOK, RowsSent, NEW s \in Scans, EndScan(s), UNCHANGED sent
    PROVE  RowsSent'
BY DEF TypeOK, EndScan, RowsSent, NextCronMatch

\* The initial state: nothing is recorded, nothing is read.
LEMMA InitInv == Init => SchedulerInv
<1> SUFFICES ASSUME Init PROVE SchedulerInv
  OBVIOUS
<1>1. TypeOK
  <2> USE SchedulerAssumption DEF SchedulerAssumption, Init
  <2>1. clock \in 0..MaxTime /\ running \subseteq Subs /\ lastSlot \in [Subs -> Nat]
    OBVIOUS
  <2>2. sent \in [Subs -> [Slots -> Nat]] /\ wasted \in [Subs -> [Slots -> Nat]]
    OBVIOUS
  <2>3. todo \in [Scans -> SUBSET Subs] /\ queued \in [Scans -> SUBSET Subs]
    OBVIOUS
  <2>4. row \in [Scans -> [Subs -> Nat]] /\ now \in [Scans -> 0..MaxTime]
    OBVIOUS
  <2>5. scanning \subseteq Scans /\ aborts \in 0..MaxAborts
    OBVIOUS
  <2>6. overlapped \in BOOLEAN
    OBVIOUS
  <2>7. \A s \in Scans \ scanning : todo[s] = {} /\ queued[s] = {}
    OBVIOUS
  <2> QED BY <2>1, <2>2, <2>3, <2>4, <2>5, <2>6, <2>7 DEF TypeOK
<1>2. NoSlotSkipped
  BY DEF Init, NoSlotSkipped
<1>3. ASSUME NEW s \in Scans, NEW u \in Subs PROVE row[s][u] = 0 /\ queued[s] = {}
  BY DEF Init
<1>4. RowsSent
  BY <1>3 DEF RowsSent
<1> QED BY <1>1, <1>2, <1>4 DEF SchedulerInv

\* Every step keeps the inductive invariant.
LEMMA NextInv == SchedulerInv /\ [Next]_vars => SchedulerInv'
<1> SUFFICES ASSUME SchedulerInv, [Next]_vars PROVE SchedulerInv'
  OBVIOUS
<1> USE SchedulerAssumption DEF SchedulerAssumption
<1>0. TypeOK /\ NoSlotSkipped /\ RowsSent
  BY DEF SchedulerInv
<1>1. CASE Tick
  BY <1>0, <1>1 DEF Tick, scanVars, historyVars, SchedulerInv, TypeOK, NoSlotSkipped,
     RowsSent, NextCronMatch
<1>2. ASSUME NEW u \in Subs, Toggle(u) PROVE SchedulerInv'
  BY <1>0, <1>2 DEF Toggle, scanVars, historyVars, SchedulerInv, TypeOK, NoSlotSkipped,
     RowsSent, NextCronMatch
<1>3. ASSUME NEW s \in Scans, Load(s) PROVE SchedulerInv'
  <2>1. TypeOK'
    BY <1>0, <1>3 DEF Load, TypeOK
  <2>2. NoSlotSkipped'
    BY <1>0, <1>3 DEF Load, NoSlotSkipped
  <2>3. RowsSent'
    BY <1>0, <1>3 DEF Load, TypeOK, NoSlotSkipped, RowsSent, NextCronMatch
  <2> QED BY <2>1, <2>2, <2>3 DEF SchedulerInv
<1>4. ASSUME NEW s \in Scans, NEW u \in Subs, Send(s, u) PROVE SchedulerInv'
  <2> DEFINE k == NextCronMatch(s, u)
  <2>1. k \in Slots
    <3>1. PICK f \in Firings : f > row[s][u] /\ Reached(f, now[s])
      BY <1>4 DEF Send, IsScheduleDue
    <3>2. k \in Nat \ {0} /\ k <= f /\ f \in Nat /\ now[s] \in 0..MaxTime
      BY <1>0, <3>1 DEF TypeOK, NextCronMatch
    <3> QED BY <3>1, <3>2, ReachedIsSlot
  <2>2. /\ sent' = [sent EXCEPT ![u][k] = Count(@)]
        /\ queued' = [queued EXCEPT ![s] = @ \cup {u}]
        /\ todo' = [todo EXCEPT ![s] = @ \ {u}]
        /\ u \in todo[s]
        /\ UNCHANGED <<clock, running, lastSlot, row, now, scanning, aborts, wasted,
                       overlapped>>
    BY <1>4 DEF Send, historyVars
  <2> HIDE DEF k
  <2>3. sent' \in [Subs -> [Slots -> Nat]]
    BY <1>0, <2>1, <2>2 DEF TypeOK, Count
  <2>4. \A v \in Subs, j \in Slots : sent[v][j] > 0 => sent'[v][j] > 0
    BY <1>0, <2>1, <2>2 DEF TypeOK, Count
  <2>5. sent'[u][k] > 0
    BY <1>0, <2>1, <2>2 DEF TypeOK, Count
  <2>6. TypeOK'
    BY <1>0, <2>2, <2>3 DEF TypeOK
  <2>7. NoSlotSkipped'
    BY <1>0, <2>2, <2>4 DEF NoSlotSkipped
  <2>8. RowsSent'
    <3> SUFFICES ASSUME NEW r \in Scans, NEW v \in Subs
                 PROVE  /\ \A j \in 1..row'[r][v] : j \in Slots /\ sent'[v][j] > 0
                        /\ v \in queued'[r] => /\ NextCronMatch(r, v)' \in Slots
                                               /\ sent'[v][NextCronMatch(r, v)'] > 0
      BY DEF RowsSent, Slots
    <3>1. \A j \in 1..row'[r][v] : j \in Slots /\ sent'[v][j] > 0
      BY <1>0, <2>2, <2>4 DEF RowsSent
    <3>2. NextCronMatch(r, v)' = NextCronMatch(r, v)
      BY <2>2 DEF NextCronMatch
    <3>3. CASE v \in queued[r]
      BY <1>0, <2>4, <3>1, <3>2, <3>3 DEF RowsSent
    <3>4. CASE r = s /\ v = u
      BY <2>1, <2>5, <3>1, <3>2, <3>4 DEF k
    <3>5. CASE v \notin queued[r] /\ ~(r = s /\ v = u)
      BY <1>0, <2>2, <3>1, <3>5 DEF TypeOK
    <3> QED BY <3>3, <3>4, <3>5
  <2> QED BY <2>6, <2>7, <2>8 DEF SchedulerInv
<1>5. ASSUME NEW s \in Scans, NEW u \in Subs, PassOver(s, u) PROVE SchedulerInv'
  <2>1. TypeOK'
    BY <1>0, <1>5 DEF PassOver, historyVars, TypeOK
  <2>2. NoSlotSkipped' /\ RowsSent'
    BY <1>0, <1>5 DEF PassOver, historyVars, NoSlotSkipped, RowsSent, NextCronMatch
  <2> QED BY <2>1, <2>2 DEF SchedulerInv
<1>6. ASSUME NEW s \in Scans, Commit(s) PROVE SchedulerInv'
  <2>1. EndScan(s) /\ UNCHANGED <<clock, running, sent, aborts, wasted, overlapped>>
    BY <1>6 DEF Commit, historyVars
  <2>2. lastSlot' = [u \in Subs |-> IF u \in queued[s] THEN NextCronMatch(s, u)
                                                      ELSE lastSlot[u]]
    BY <1>6 DEF Commit
  <2>3. lastSlot' \in [Subs -> Nat]
    BY <1>0, <2>2 DEF TypeOK, NextCronMatch
  <2>4. TypeOK'
    BY <1>0, <2>1, <2>3, EndScanTyped DEF TypeOK
  <2>5. NoSlotSkipped'
    <3> SUFFICES ASSUME NEW u \in Subs, NEW j \in 1..lastSlot'[u]
                 PROVE  j \in Slots /\ sent[u][j] > 0
      BY <2>1 DEF NoSlotSkipped, Slots
    <3>1. CASE u \notin queued[s]
      BY <1>0, <2>2, <3>1 DEF NoSlotSkipped
    <3>2. CASE u \in queued[s]
      <4>1. j \in 1..(row[s][u] + 1)
        BY <2>2, <3>2 DEF NextCronMatch
      <4>2. j \in 1..row[s][u] \/ j = NextCronMatch(s, u)
        BY <1>0, <4>1 DEF TypeOK, NextCronMatch
      <4> QED BY <1>0, <3>2, <4>2 DEF RowsSent
    <3> QED BY <3>1, <3>2
  <2>6. RowsSent'
    BY <1>0, <2>1, EndScanKeepsRowsSent
  <2> QED BY <2>4, <2>5, <2>6 DEF SchedulerInv
<1>7. ASSUME NEW s \in Scans, Drop(s), aborts' \in 0..MaxAborts PROVE SchedulerInv'
  <2>1. EndScan(s) /\ UNCHANGED <<clock, running, lastSlot, sent, overlapped>>
    BY <1>7 DEF Drop
  <2>2. wasted' \in [Subs -> [Slots -> Nat]]
    BY <1>0, <1>7 DEF Drop, TypeOK, Count
  <2>3. TypeOK'
    BY <1>0, <1>7, <2>1, <2>2, EndScanTyped DEF TypeOK
  <2>4. NoSlotSkipped'
    BY <1>0, <2>1 DEF NoSlotSkipped
  <2>5. RowsSent'
    BY <1>0, <2>1, EndScanKeepsRowsSent
  <2> QED BY <2>3, <2>4, <2>5 DEF SchedulerInv
<1>8. ASSUME NEW s \in Scans, Abort(s) PROVE SchedulerInv'
  BY <1>0, <1>7, <1>8 DEF Abort, TypeOK
<1>9. ASSUME NEW s \in Scans, NEW u \in Subs, CronError(s, u) PROVE SchedulerInv'
  BY <1>0, <1>7, <1>9 DEF CronError, TypeOK
<1>10. CASE UNCHANGED vars
  BY <1>0, <1>10 DEF vars, scanVars, historyVars, SchedulerInv, TypeOK, NoSlotSkipped,
     RowsSent, NextCronMatch
<1> QED BY <1>1, <1>2, <1>3, <1>4, <1>5, <1>6, <1>8, <1>9, <1>10 DEF Next, ScanStep

\* Type correctness: a scan that is not in progress holds no rows, and the
\* counters stay in their ranges.
THEOREM SchedulerTyped == Spec => []TypeOK
<1>1. SchedulerInv => TypeOK
  BY DEF SchedulerInv
<1> QED BY InitInv, NextInv, <1>1, PTL DEF Spec

\* schedule_due_digests never advances last_digest_scheduled_at past a slot
\* whose deliver_digest message has not gone out, however many scans overlap
\* and whichever of them are aborted.
THEOREM SchedulerSkipsNoSlot == Spec => []NoSlotSkipped
<1>1. SchedulerInv => NoSlotSkipped
  BY DEF SchedulerInv
<1> QED BY InitInv, NextInv, <1>1, PTL DEF Spec

-----------------------------------------------------------------------------
(* Repeats: where scans never overlapped, a slot has one message and those *)
(* of scans that ended without their commit.                               *)

\* Where the counts are kept or a message is only wasted, a slot that was
\* accounted for and is still, and one that was not, keep their bound.
LEMMA SameCount ==
    ASSUME TypeOK, SentCounted, UNCHANGED <<sent, wasted, overlapped>>,
           \A u \in Subs, k \in Slots : Accounted(u, k) => Accounted(u, k)'
    PROVE  SentCounted'
<1> SUFFICES ASSUME NEW u \in Subs, NEW k \in Slots
             PROVE  /\ sent[u][k] <= MaxSends
                    /\ overlapped \/ sent[u][k] <=
                          wasted[u][k] + IF Accounted(u, k)' THEN 1 ELSE 0
  BY DEF SentCounted
<1>1. sent[u][k] \in Nat /\ wasted[u][k] \in Nat
  BY DEF TypeOK
<1>2. QED
  BY <1>1 DEF SentCounted

\* Where scans never overlapped, the others than the one in progress hold nothing.
LEMMA OthersIdle ==
    ASSUME TypeOK, RowsCurrent, NEW s \in scanning
    PROVE  \A r \in Scans \ {s} : todo[r] = {} /\ queued[r] = {}
  BY DEF TypeOK, RowsCurrent

\* A scan reads its rows.
LEMMA LoadCounts ==
    ASSUME TypeOK, overlapped \/ RowsCurrent, SentCounted, NEW s \in Scans, Load(s)
    PROVE  (overlapped' \/ RowsCurrent') /\ SentCounted'
<1>1. /\ s \notin scanning
      /\ overlapped' = (overlapped \/ scanning # {})
      /\ scanning' = scanning \cup {s}
      /\ UNCHANGED <<lastSlot, sent, wasted>>
      /\ todo'[s] = running /\ queued'[s] = {}
      /\ \A u \in running : row'[s][u] = lastSlot[u]
      /\ \A r \in Scans \ {s} : todo'[r] = todo[r] /\ queued'[r] = queued[r] /\ row'[r] = row[r]
  BY DEF TypeOK, Load
<1>2. queued[s] = {} /\ \A r \in Scans \ scanning : todo[r] = {} /\ queued[r] = {}
  BY <1>1 DEF TypeOK
<1>3. overlapped' \/ RowsCurrent'
  <2> SUFFICES ASSUME ~overlapped'
               PROVE  RowsCurrent'
    OBVIOUS
  <2>1. scanning = {}
    BY <1>1
  <2>2. QED
    BY <1>1, <1>2, <2>1 DEF RowsCurrent
<1>4. \A u \in Subs, k \in Slots : Accounted(u, k)' <=> Accounted(u, k)
  BY <1>1, <1>2 DEF Accounted, NextCronMatch
<1>5. SentCounted'
  <2> SUFFICES ASSUME NEW u \in Subs, NEW k \in Slots
               PROVE  /\ sent[u][k] <= MaxSends
                      /\ overlapped' \/ sent[u][k] <=
                            wasted[u][k] + IF Accounted(u, k)' THEN 1 ELSE 0
    BY <1>1 DEF SentCounted
  <2>1. QED
    BY <1>1, <1>4 DEF SentCounted
<1>6. QED
  BY <1>3, <1>5

\* A scan sends the message of a slot: it is the slot's first that counts.
LEMMA SendCounts ==
    ASSUME TypeOK, overlapped \/ RowsCurrent, SentCounted, NEW s \in Scans, NEW u \in Subs,
           Send(s, u)
    PROVE  (overlapped' \/ RowsCurrent') /\ SentCounted'
<1> DEFINE k == NextCronMatch(s, u)
<1>1. /\ u \in todo[s]
      /\ sent' = [sent EXCEPT ![u][k] = Count(@)]
      /\ todo'[s] = todo[s] \ {u} /\ queued'[s] = queued[s] \cup {u}
      /\ \A r \in Scans \ {s} : todo'[r] = todo[r] /\ queued'[r] = queued[r]
      /\ UNCHANGED <<lastSlot, row, scanning, wasted, overlapped>>
  BY DEF TypeOK, Send, historyVars
<1>2. s \in scanning
  BY <1>1 DEF TypeOK
<1>3. overlapped' \/ RowsCurrent'
  BY <1>1 DEF RowsCurrent
<1>4. \A v \in Subs, j \in Slots : Accounted(v, j) => Accounted(v, j)'
  BY <1>1 DEF Accounted, NextCronMatch
<1>5. \A v \in Subs, j \in Slots : v = u /\ j = k => Accounted(v, j)'
  BY <1>1 DEF Accounted, NextCronMatch
<1>6. ~overlapped => ~Accounted(u, k)
  <2> SUFFICES ASSUME RowsCurrent
               PROVE  ~Accounted(u, k)
    OBVIOUS
  <2>1. row[s][u] = lastSlot[u] /\ u \notin queued[s] /\ lastSlot[u] \in Nat
    BY <1>1 DEF TypeOK, RowsCurrent
  <2>2. \A r \in Scans : u \notin queued[r]
    BY <1>2, <2>1, OthersIdle
  <2>3. QED
    BY <2>1, <2>2 DEF Accounted, NextCronMatch
<1> HIDE DEF k
<1>7. ASSUME NEW v \in Subs, NEW j \in Slots
      PROVE  /\ sent'[v][j] <= MaxSends
             /\ overlapped \/ sent'[v][j] <= wasted[v][j] + IF Accounted(v, j)' THEN 1 ELSE 0
  <2>1. /\ sent[v][j] \in Nat /\ wasted[v][j] \in Nat
        /\ sent[v][j] <= MaxSends
        /\ overlapped \/ sent[v][j] <= wasted[v][j] + IF Accounted(v, j) THEN 1 ELSE 0
    BY DEF TypeOK, SentCounted
  <2>2. CASE v = u /\ j = k
    <3>1. sent'[v][j] = Count(sent[v][j])
      BY <1>1, <2>2 DEF TypeOK
    <3>2. sent'[v][j] <= MaxSends /\ sent'[v][j] <= sent[v][j] + 1
      BY <2>1, <3>1, SchedulerAssumption DEF Count
    <3>3. CASE ~overlapped
      <4>1. sent[v][j] <= wasted[v][j]
        BY <1>6, <2>1, <2>2, <3>3
      <4>2. sent'[v][j] \in Nat
        BY <2>1, <3>1 DEF Count
      <4>3. sent'[v][j] <= wasted[v][j] + 1
        BY <2>1, <3>2, <4>1, <4>2
      <4>4. QED
        BY <1>5, <2>2, <3>2, <4>3
    <3>4. QED
      BY <3>2, <3>3
  <2>3. CASE ~(v = u /\ j = k)
    <3>1. sent'[v][j] = sent[v][j]
      BY <1>1, <2>3 DEF TypeOK
    <3>2. QED
      BY <1>4, <2>1, <3>1
  <2>4. QED
    BY <2>2, <2>3
<1>8. SentCounted'
  BY <1>1, <1>7 DEF SentCounted
<1>9. QED
  BY <1>3, <1>8

\* A scan that ends holds no rows.
LEMMA EndScanRows ==
    ASSUME TypeOK, NEW s \in Scans, EndScan(s)
    PROVE  /\ todo'[s] = {} /\ queued'[s] = {}
           /\ scanning' \subseteq scanning
           /\ \A r \in Scans \ {s} :
                 todo'[r] = todo[r] /\ queued'[r] = queued[r] /\ row'[r] = row[r]
  BY DEF TypeOK, EndScan

\* A scan commits: what it has sent is on record.
LEMMA CommitCounts ==
    ASSUME TypeOK, overlapped \/ RowsCurrent, SentCounted, NEW s \in Scans, Commit(s)
    PROVE  (overlapped' \/ RowsCurrent') /\ SentCounted'
<1>1. /\ s \in scanning
      /\ lastSlot' = [u \in Subs |-> IF u \in queued[s] THEN NextCronMatch(s, u)
                                                        ELSE lastSlot[u]]
      /\ UNCHANGED <<sent, wasted, overlapped>>
  BY DEF Commit, historyVars
<1>2. /\ todo'[s] = {} /\ queued'[s] = {}
      /\ scanning' \subseteq scanning
      /\ \A r \in Scans \ {s} :
            todo'[r] = todo[r] /\ queued'[r] = queued[r] /\ row'[r] = row[r]
  BY EndScanRows DEF Commit
<1>3. CASE overlapped
  BY <1>1, <1>3 DEF SentCounted
<1>4. CASE RowsCurrent
  <2>1. \A r \in Scans \ {s} : todo[r] = {} /\ queued[r] = {}
    BY <1>1, <1>4, OthersIdle
  <2>2. RowsCurrent'
    BY <1>2, <1>4, <2>1 DEF RowsCurrent
  <2>3. ASSUME NEW u \in Subs, NEW k \in Slots, Accounted(u, k)
        PROVE  Accounted(u, k)'
    <3>1. CASE u \in queued[s]
      <4>1. lastSlot'[u] = row[s][u] + 1 /\ row[s][u] = lastSlot[u] /\ lastSlot[u] \in Nat
        BY <1>1, <1>4, <3>1 DEF TypeOK, RowsCurrent, NextCronMatch
      <4>2. k <= lastSlot[u] \/ k = row[s][u] + 1
        BY <2>1, <2>3 DEF Accounted, NextCronMatch
      <4>3. k \in Nat
        BY DEF Slots
      <4>4. QED
        BY <4>1, <4>2, <4>3 DEF Accounted
    <3>2. CASE u \notin queued[s]
      BY <1>1, <2>1, <2>3, <3>2 DEF Accounted
    <3>3. QED
      BY <3>1, <3>2
  <2>4. QED
    BY <1>1, <2>2, <2>3, SameCount
<1>5. QED
  BY <1>3, <1>4

\* A scan ends without its commit: what it has sent is wasted.
LEMMA DropCounts ==
    ASSUME TypeOK, overlapped \/ RowsCurrent, SentCounted, NEW s \in scanning, Drop(s)
    PROVE  (overlapped' \/ RowsCurrent') /\ SentCounted'
<1>1. /\ wasted' = [u \in Subs |-> [k \in Slots |->
                      IF u \in queued[s] /\ k = NextCronMatch(s, u) THEN Count(wasted[u][k])
                                                                    ELSE wasted[u][k]]]
      /\ UNCHANGED <<lastSlot, sent, overlapped>>
      /\ s \in Scans
  BY DEF Drop, TypeOK
<1>2. /\ todo'[s] = {} /\ queued'[s] = {}
      /\ scanning' \subseteq scanning
      /\ \A r \in Scans \ {s} :
            todo'[r] = todo[r] /\ queued'[r] = queued[r] /\ row'[r] = row[r]
  BY <1>1, EndScanRows DEF Drop
<1>3. CASE overlapped
  BY <1>1, <1>3 DEF SentCounted
<1>4. CASE RowsCurrent /\ ~overlapped
  <2>1. \A r \in Scans \ {s} : todo[r] = {} /\ queued[r] = {}
    BY <1>4, OthersIdle
  <2>2. RowsCurrent'
    BY <1>1, <1>2, <1>4, <2>1 DEF RowsCurrent
  <2>3. ASSUME NEW u \in Subs, NEW k \in Slots
        PROVE  sent[u][k] <= wasted'[u][k] + IF Accounted(u, k)' THEN 1 ELSE 0
    <3>1. /\ sent[u][k] \in Nat /\ wasted[u][k] \in Nat /\ sent[u][k] <= MaxSends
          /\ sent[u][k] <= wasted[u][k] + IF Accounted(u, k) THEN 1 ELSE 0
      BY <1>4 DEF TypeOK, SentCounted
    <3>2. CASE u \in queued[s] /\ k = NextCronMatch(s, u)
      <4>1. wasted'[u][k] = Count(wasted[u][k])
        BY <1>1, <3>2
      <4>2. QED
        BY <3>1, <4>1, SchedulerAssumption DEF Count
    <3>3. CASE ~(u \in queued[s] /\ k = NextCronMatch(s, u))
      <4>1. wasted'[u][k] = wasted[u][k]
        BY <1>1, <3>3
      <4>2. Accounted(u, k) => Accounted(u, k)'
        BY <1>1, <2>1, <3>3 DEF Accounted
      <4>3. QED
        BY <3>1, <4>1, <4>2
    <3>4. QED
      BY <3>2, <3>3
  <2>4. SentCounted'
    BY <1>1, <2>3 DEF SentCounted
  <2>5. QED
    BY <2>2, <2>4
<1>5. QED
  BY <1>3, <1>4

\* Every step keeps the counts.
LEMMA NextCounts ==
    ASSUME TypeOK, overlapped \/ RowsCurrent, SentCounted, [Next]_vars
    PROVE  (overlapped' \/ RowsCurrent') /\ SentCounted'
<1>1. ASSUME NEW s \in Scans, NEW u \in Subs, PassOver(s, u)
      PROVE  (overlapped' \/ RowsCurrent') /\ SentCounted'
  <2>1. /\ UNCHANGED <<lastSlot, sent, row, queued, scanning, wasted, overlapped>>
        /\ \A r \in Scans : todo'[r] \subseteq todo[r]
    BY <1>1 DEF TypeOK, PassOver, historyVars
  <2>2. overlapped' \/ RowsCurrent'
    BY <2>1 DEF RowsCurrent
  <2>3. QED
    BY <2>1, <2>2 DEF SentCounted, Accounted, NextCronMatch
<1>2. ASSUME UNCHANGED <<lastSlot, sent, todo, row, queued, scanning, wasted, overlapped>>
      PROVE  (overlapped' \/ RowsCurrent') /\ SentCounted'
  BY <1>2 DEF RowsCurrent, SentCounted, Accounted, NextCronMatch
<1>3. ASSUME NEW s \in Scans, Abort(s) \/ \E u \in Subs : CronError(s, u)
      PROVE  (overlapped' \/ RowsCurrent') /\ SentCounted'
  <2>1. s \in scanning /\ Drop(s)
    BY <1>3 DEF TypeOK, Abort, CronError
  <2>2. QED
    BY <2>1, DropCounts
<1>4. CASE Tick \/ (\E u \in Subs : Toggle(u)) \/ UNCHANGED vars
  BY <1>2, <1>4 DEF Tick, Toggle, vars, scanVars, historyVars
<1>5. QED
  BY <1>1, <1>3, <1>4, LoadCounts, SendCounts, CommitCounts DEF Next, ScanStep

\* A slot has a second message only if a scan that had sent the first ended
\* without its commit, or two scans were in progress at once; as many as such
\* scans there may be, no other message is repeated.
THEOREM SchedulerRepeatHasReason == Spec => []RepeatHasReason
<1>1. Init => RepeatInv
  BY InitInv, SchedulerAssumption DEF Init, RepeatInv, RowsCurrent, SentCounted, Slots
<1>2. RepeatInv /\ [Next]_vars => RepeatInv'
  BY NextInv, NextCounts DEF RepeatInv, SchedulerInv
<1>3. RepeatInv => RepeatHasReason
  <2> SUFFICES ASSUME RepeatInv, NEW u \in Subs, NEW k \in Slots, ~overlapped
               PROVE  sent[u][k] <= 1 + wasted[u][k]
    BY DEF RepeatHasReason
  <2>1. sent[u][k] \in Nat /\ wasted[u][k] \in Nat
    BY DEF RepeatInv, SchedulerInv, TypeOK
  <2>2. sent[u][k] <= wasted[u][k] + IF Accounted(u, k) THEN 1 ELSE 0
    BY DEF RepeatInv, SentCounted
  <2>3. QED
    BY <2>1, <2>2
<1>4. QED
  BY <1>1, <1>2, <1>3, PTL DEF Spec

=============================================================================
