-------------------------- MODULE EventFlow_proofs --------------------------
(***************************************************************************)
(* Theorems about EventPoll, EventBatch and their composition, for every   *)
(* set of items, subscriptions, sources, polls and messages, and every     *)
(* bound.                                                                  *)
(***************************************************************************)
EXTENDS EventFlow, TLAPS

-----------------------------------------------------------------------------
(* The polls: their types.                                                 *)

\* A poll that leaves keeps the types, if a retry is within the limit.
LEMMA PollLeaveTyped ==
    ASSUME PollTypeOK, NEW p \in Polls, NEW phase \in {"queued"} \cup PollEnded,
           PollLeave(p, phase),
           phase = "queued" => pollAttempts[p] < MaxAttempts,
           batches' \in [Items -> Nat], dropped' \subseteq Items
    PROVE  PollTypeOK'
<1> USE ItemAssumption DEF PollTypeOK, PollLeave
<1>1. pollAttempts' \in [Polls -> 0..MaxAttempts]
  OBVIOUS
<1>2. pollPc' \in [Polls -> {"queued", "running"} \cup PollEnded]
  BY DEF PollEnded
<1>3. /\ snap' \in [Polls -> SUBSET Sources]
      /\ found' \in [Polls -> SUBSET Items]
  OBVIOUS
<1>4. tx' \in [Polls -> [Sources -> {"waiting", "embedding", "open", "ended", "limit"}]]
  OBVIOUS
<1>5. /\ left' \in [Polls -> [Sources -> SUBSET Items]]
      /\ mine' \in [Polls -> [Sources -> SUBSET Items]]
  OBVIOUS
<1>6. ins' \in [Polls -> [Sources -> Items \cup {NoItem}]]
  OBVIOUS
<1>7. QED
  BY <1>1, <1>2, <1>3, <1>4, <1>5, <1>6

\* A source's transaction that ends keeps the types of its four variables.
LEMMA PollCloseTyped ==
    ASSUME PollTypeOK, NEW p \in Polls, NEW s \in Sources, NEW phase \in {"ended", "limit"},
           Close(p, s, phase)
    PROVE  /\ tx' \in [Polls -> [Sources -> {"waiting", "embedding", "open", "ended", "limit"}]]
           /\ left' \in [Polls -> [Sources -> SUBSET Items]]
           /\ ins' \in [Polls -> [Sources -> Items \cup {NoItem}]]
           /\ mine' \in [Polls -> [Sources -> SUBSET Items]]
  BY DEF PollTypeOK, Close

\* Every step keeps the types.
LEMMA PollNextTyped == PollTypeOK /\ [PollNext]_pollVars => PollTypeOK'
<1> SUFFICES ASSUME PollTypeOK, [PollNext]_pollVars
             PROVE  PollTypeOK'
  OBVIOUS
<1> USE ItemAssumption
<1>1. ASSUME NEW s \in Sources, Watch(s)
      PROVE  PollTypeOK'
  BY <1>1 DEF PollTypeOK, Watch, runVars, sourceVars, outVars
<1>2. ASSUME NEW p \in Polls, PollStart(p)
      PROVE  PollTypeOK'
  BY <1>2 DEF PollTypeOK, PollStart, outVars
<1>3. ASSUME NEW p \in Polls, NEW s \in Sources, SourceStep(p, s)
      PROVE  PollTypeOK'
  <2>1. ASSUME NEW S \in SUBSET Items, Fetch(p, s, S)
        PROVE  PollTypeOK'
    BY <2>1 DEF PollTypeOK, Fetch, runVars, outVars
  <2>2. ASSUME Close(p, s, "ended") \/ Close(p, s, "limit"),
               UNCHANGED <<watched, stored, runVars, outVars>>
        PROVE  PollTypeOK'
    <3>1. /\ tx' \in [Polls -> [Sources -> {"waiting", "embedding", "open", "ended", "limit"}]]
          /\ left' \in [Polls -> [Sources -> SUBSET Items]]
          /\ ins' \in [Polls -> [Sources -> Items \cup {NoItem}]]
          /\ mine' \in [Polls -> [Sources -> SUBSET Items]]
      BY <2>2, PollCloseTyped
    <3>2. QED
      BY <2>2, <3>1 DEF PollTypeOK, runVars, outVars
  <2>3. CASE NothingFetched(p, s)
    BY <2>2, <2>3 DEF NothingFetched
  <2>4. CASE Embedded(p, s)
    BY <2>4 DEF PollTypeOK, Embedded, runVars, outVars
  <2>5. CASE SourceLimit(p, s)
    BY <2>2, <2>5 DEF SourceLimit
  <2>6. ASSUME NEW i \in Items, LookUp(p, s, i)
        PROVE  PollTypeOK'
    BY <2>6 DEF PollTypeOK, LookUp, runVars, outVars
  <2>7. CASE Insert(p, s)
    BY <2>7 DEF PollTypeOK, Insert, runVars, outVars
  <2>8. CASE SourceFails(p, s)
    BY <2>2, <2>8 DEF SourceFails
  <2>9. CASE Commit(p, s)
    <3>1. /\ tx' \in [Polls -> [Sources -> {"waiting", "embedding", "open", "ended", "limit"}]]
          /\ left' \in [Polls -> [Sources -> SUBSET Items]]
          /\ ins' \in [Polls -> [Sources -> Items \cup {NoItem}]]
          /\ mine' \in [Polls -> [Sources -> SUBSET Items]]
      BY <2>9, PollCloseTyped DEF Commit
    <3>2. /\ mine[p][s] \subseteq Items
          /\ found' \in [Polls -> SUBSET Items]
      BY <2>9 DEF PollTypeOK, Commit
    <3>3. /\ stored' \subseteq Items
          /\ wanted' \subseteq Items
      BY <2>9, <3>2 DEF PollTypeOK, Commit
    <3>4. UNCHANGED <<watched, pollPc, pollAttempts, snap, batches, dropped>>
      BY <2>9 DEF Commit
    <3>5. QED
      BY <3>1, <3>2, <3>3, <3>4 DEF PollTypeOK
  <2>10. QED
    BY <1>3, <2>1, <2>3, <2>4, <2>5, <2>6, <2>7, <2>8, <2>9 DEF SourceStep
<1>4. ASSUME NEW p \in Polls, Send(p)
      PROVE  PollTypeOK'
  <2>1. batches' \in [Items -> Nat] /\ dropped' \subseteq Items
    BY <1>4 DEF PollTypeOK, Send
  <2>2. QED
    BY <1>4, <2>1, PollLeaveTyped DEF Send, PollEnded
<1>5. ASSUME NEW p \in Polls, NEW phase \in {"queued"} \cup PollEnded, Unsent(p, phase),
             phase = "queued" => pollAttempts[p] < MaxAttempts
      PROVE  PollTypeOK'
  <2>1. batches' \in [Items -> Nat] /\ dropped' \subseteq Items
    BY <1>5 DEF PollTypeOK, Unsent
  <2>2. PollLeave(p, phase)
    BY <1>5 DEF Unsent
  <2>3. QED
    BY <1>5, <2>1, <2>2, PollLeaveTyped
<1>6. ASSUME NEW p \in Polls, Retry(p) \/ SendFails(p) \/ PollCrash(p)
      PROVE  PollTypeOK'
  BY <1>5, <1>6 DEF Retry, SendFails, PollCrash, PollEnded
<1>7. CASE UNCHANGED pollVars
  BY <1>7 DEF PollTypeOK, pollVars, runVars, sourceVars, outVars
<1>8. QED
  BY <1>1, <1>2, <1>3, <1>4, <1>6, <1>7 DEF PollNext, PollStep

\* The types hold initially.
LEMMA PollInitTyped == PollInit => PollTypeOK
  BY ItemAssumption DEF PollInit, PollTypeOK

\* Type correctness of the polls.
THEOREM PollTyped == PollSpec => []PollTypeOK
  BY PollInitTyped, PollNextTyped, PTL DEF PollSpec

-----------------------------------------------------------------------------
(* The messages.                                                           *)

PollSafe == OneInserter /\ FoundIsStored /\ BatchedIsStored /\ BatchedOnce

\* Where nothing is stored, found or sent, and no transaction inserts a row,
\* the invariant stays.
LEMMA PollFewerRows ==
    ASSUME PollTypeOK, PollSafe, UNCHANGED <<stored, found, batches>>,
           \A p \in Polls, s \in Sources : mine'[p][s] \subseteq mine[p][s]
    PROVE  PollSafe'
<1>1. OneInserter'
  BY DEF PollSafe, OneInserter
<1>2. FoundIsStored' /\ BatchedIsStored' /\ BatchedOnce'
  BY DEF PollSafe, FoundIsStored, BatchedIsStored, BatchedOnce
<1>3. QED
  BY <1>1, <1>2 DEF PollSafe

\* A transaction that ends gives its rows up and leaves the others theirs.
LEMMA PollCloseRows ==
    ASSUME PollTypeOK, NEW p \in Polls, NEW s \in Sources, NEW phase, Close(p, s, phase)
    PROVE  /\ \A q \in Polls, r \in Sources : mine'[q][r] \subseteq mine[q][r]
           /\ mine'[p][s] = {}
           /\ \A q \in Polls, r \in Sources :
                 (q # p \/ r # s) => mine'[q][r] = mine[q][r]
  BY DEF PollTypeOK, Close

\* So does a poll that leaves.
LEMMA PollLeaveRows ==
    ASSUME PollTypeOK, NEW p \in Polls, NEW phase, PollLeave(p, phase)
    PROVE  /\ \A q \in Polls, r \in Sources : mine'[q][r] \subseteq mine[q][r]
           /\ found'[p] = {}
           /\ \A q \in Polls : q # p => found'[q] = found[q]
           /\ stored' = stored
  BY DEF PollTypeOK, PollLeave

\* An insert: the row is stored nowhere and nobody else's.
LEMMA PollInsertSafe ==
    ASSUME PollTypeOK, PollSafe, NEW p \in Polls, NEW s \in Sources, Insert(p, s)
    PROVE  PollSafe'
<1> DEFINE i == ins[p][s]
<1>1. /\ mine'[p][s] = mine[p][s] \cup {i}
      /\ \A q \in Polls, r \in Sources : (q # p \/ r # s) => mine'[q][r] = mine[q][r]
  BY DEF PollTypeOK, Insert
<1>2. i \notin stored
  BY DEF Insert
<1>3. \A q \in Polls, r \in Sources : (q # p \/ r # s) => i \notin mine[q][r]
  BY DEF Insert, Held
<1>4. UNCHANGED <<stored, found, batches>>
  BY DEF Insert, runVars, outVars
<1> HIDE DEF i
<1>5. \A q, v \in Polls, r, w \in Sources :
         (q # v \/ r # w) => mine'[q][r] \cap mine'[v][w] = {}
  <2>1. SUFFICES ASSUME NEW q \in Polls, NEW v \in Polls, NEW r \in Sources,
                        NEW w \in Sources, q # v \/ r # w
                 PROVE  mine'[q][r] \cap mine'[v][w] = {}
    OBVIOUS
  <2>2. mine[q][r] \cap mine[v][w] = {}
    BY <2>1 DEF PollSafe, OneInserter
  <2>3. CASE q = p /\ r = s
    BY <1>1, <1>3, <2>1, <2>2, <2>3
  <2>4. CASE v = p /\ w = s
    BY <1>1, <1>3, <2>1, <2>2, <2>4
  <2>5. QED
    BY <1>1, <2>2, <2>3, <2>4
<1>6. \A q \in Polls, r \in Sources : mine'[q][r] \cap stored' = {}
  BY <1>1, <1>2, <1>4 DEF PollSafe, OneInserter
<1>7. OneInserter'
  BY <1>5, <1>6 DEF OneInserter
<1>8. FoundIsStored' /\ BatchedIsStored' /\ BatchedOnce'
  BY <1>4 DEF PollSafe, FoundIsStored, BatchedIsStored, BatchedOnce
<1>9. QED
  BY <1>7, <1>8 DEF PollSafe

\* A commit: its rows were not stored, so no message and no other poll has
\* them.
LEMMA PollCommitSafe ==
    ASSUME PollTypeOK, PollSafe, NEW p \in Polls, NEW s \in Sources, Commit(p, s)
    PROVE  PollSafe'
<1> DEFINE new == IF s \in snap[p] THEN mine[p][s] ELSE {}
<1>1. /\ mine'[p][s] = {}
      /\ \A q \in Polls, r \in Sources : (q # p \/ r # s) => mine'[q][r] = mine[q][r]
  BY PollCloseRows DEF Commit
<1>2. /\ stored' = stored \cup mine[p][s]
      /\ batches' = batches
  BY DEF Commit
<1>3. /\ found'[p] = found[p] \cup new
      /\ \A q \in Polls : q # p => found'[q] = found[q]
  BY DEF PollTypeOK, Commit
<1>4. mine[p][s] \cap stored = {}
  BY DEF PollSafe, OneInserter
<1>5. new \subseteq mine[p][s]
  OBVIOUS
<1> HIDE DEF new
<1>6. OneInserter'
  <2>1. \A q, v \in Polls, r, w \in Sources :
           (q # v \/ r # w) => mine'[q][r] \cap mine'[v][w] = {}
    BY <1>1 DEF PollSafe, OneInserter
  <2>2. \A q \in Polls, r \in Sources : mine'[q][r] \cap stored' = {}
    BY <1>1, <1>2 DEF PollSafe, OneInserter
  <2>3. QED
    BY <2>1, <2>2 DEF OneInserter
<1>7. FoundIsStored'
  BY <1>2, <1>3, <1>5 DEF PollSafe, FoundIsStored
<1>8. BatchedIsStored'
  BY <1>2 DEF PollSafe, BatchedIsStored
<1>9. ASSUME NEW i \in Items
      PROVE  /\ batches'[i] <= 1
             /\ \A q, v \in Polls : i \in found'[q] \cap found'[v] => q = v
             /\ \A q \in Polls : i \in found'[q] => batches'[i] = 0
  <2>1. CASE i \in new
    <3>1. i \notin stored
      BY <1>4, <1>5, <2>1
    <3>2. \A q \in Polls : i \notin found[q]
      BY <3>1 DEF PollSafe, FoundIsStored
    <3>3. batches[i] = 0
      BY <3>1 DEF PollSafe, BatchedIsStored, PollTypeOK
    <3>4. QED
      BY <1>2, <1>3, <3>2, <3>3
  <2>2. CASE i \notin new
    BY <1>2, <1>3, <2>2 DEF PollSafe, BatchedOnce
  <2>3. QED
    BY <2>1, <2>2
<1>10. QED
  BY <1>6, <1>7, <1>8, <1>9 DEF PollSafe, BatchedOnce

\* A poll that ends: what it sends was in no message and is no other poll's.
LEMMA PollSendSafe ==
    ASSUME PollTypeOK, PollSafe, NEW p \in Polls, Send(p)
    PROVE  PollSafe'
<1>1. /\ \A q \in Polls, r \in Sources : mine'[q][r] \subseteq mine[q][r]
      /\ found'[p] = {}
      /\ \A q \in Polls : q # p => found'[q] = found[q]
      /\ stored' = stored
  BY PollLeaveRows DEF Send
<1>2. \A i \in Items : batches'[i] = batches[i] + IF i \in found[p] THEN 1 ELSE 0
  BY DEF Send
<1>3. OneInserter'
  BY <1>1 DEF PollSafe, OneInserter
<1>4. FoundIsStored'
  BY <1>1 DEF PollSafe, FoundIsStored
<1>5. BatchedIsStored'
  <2>1. SUFFICES ASSUME NEW i \in Items, batches'[i] > 0
                 PROVE  i \in stored
    BY <1>1 DEF BatchedIsStored
  <2>2. CASE i \in found[p]
    BY <2>2 DEF PollSafe, FoundIsStored
  <2>3. CASE i \notin found[p]
    <3>1. batches[i] > 0
      BY <1>2, <2>1, <2>3 DEF PollTypeOK
    <3>2. QED
      BY <3>1 DEF PollSafe, BatchedIsStored
  <2>4. QED
    BY <2>2, <2>3
<1>6. ASSUME NEW i \in Items
      PROVE  /\ batches'[i] <= 1
             /\ \A q, v \in Polls : i \in found'[q] \cap found'[v] => q = v
             /\ \A q \in Polls : i \in found'[q] => batches'[i] = 0
  <2>1. \A q \in Polls : found'[q] \subseteq found[q]
    BY <1>1
  <2>2. CASE i \in found[p]
    <3>1. batches'[i] = 1
      BY <1>2, <2>2 DEF PollSafe, BatchedOnce
    <3>2. \A q \in Polls : i \notin found'[q]
      BY <1>1, <2>2 DEF PollSafe, BatchedOnce
    <3>3. QED
      BY <3>1, <3>2
  <2>3. CASE i \notin found[p]
    <3>1. batches'[i] = batches[i]
      BY <1>2, <2>3 DEF PollTypeOK
    <3>2. QED
      BY <2>1, <3>1 DEF PollSafe, BatchedOnce
  <2>4. QED
    BY <2>2, <2>3
<1>7. QED
  BY <1>3, <1>4, <1>5, <1>6 DEF PollSafe, BatchedOnce

\* A poll that ends without sending has nothing left to pass on.
LEMMA PollUnsentSafe ==
    ASSUME PollTypeOK, PollSafe, NEW p \in Polls, NEW phase, Unsent(p, phase)
    PROVE  PollSafe'
<1>1. /\ \A q \in Polls, r \in Sources : mine'[q][r] \subseteq mine[q][r]
      /\ \A q \in Polls : found'[q] \subseteq found[q]
      /\ stored' = stored
      /\ batches' = batches
  BY PollLeaveRows DEF Unsent
<1>2. OneInserter'
  BY <1>1 DEF PollSafe, OneInserter
<1>3. FoundIsStored' /\ BatchedIsStored' /\ BatchedOnce'
  BY <1>1 DEF PollSafe, FoundIsStored, BatchedIsStored, BatchedOnce
<1>4. QED
  BY <1>2, <1>3 DEF PollSafe

\* Every step keeps the invariant.
LEMMA PollNextSafe == PollTypeOK /\ PollSafe /\ [PollNext]_pollVars => PollSafe'
<1> SUFFICES ASSUME PollTypeOK, PollSafe, [PollNext]_pollVars
             PROVE  PollSafe'
  OBVIOUS
<1>1. ASSUME NEW p \in Polls, NEW s \in Sources, SourceStep(p, s)
      PROVE  PollSafe'
  <2>1. ASSUME NEW phase, Close(p, s, phase), UNCHANGED <<stored, runVars, outVars>>
        PROVE  PollSafe'
    BY <2>1, PollCloseRows, PollFewerRows DEF runVars, outVars
  <2>2. ASSUME UNCHANGED <<stored, runVars, mine, outVars>>
        PROVE  PollSafe'
    BY <2>2, PollFewerRows DEF runVars, outVars
  <2>3. CASE \E S \in SUBSET Items : Fetch(p, s, S)
    BY <2>2, <2>3 DEF Fetch
  <2>4. CASE NothingFetched(p, s)
    BY <2>1, <2>4 DEF NothingFetched
  <2>5. CASE Embedded(p, s)
    BY <2>2, <2>5 DEF Embedded
  <2>6. CASE SourceLimit(p, s)
    BY <2>1, <2>6 DEF SourceLimit
  <2>7. CASE \E i \in Items : LookUp(p, s, i)
    BY <2>2, <2>7 DEF LookUp
  <2>8. CASE Insert(p, s)
    BY <2>8, PollInsertSafe
  <2>9. CASE SourceFails(p, s)
    BY <2>1, <2>9 DEF SourceFails
  <2>10. CASE Commit(p, s)
    BY <2>10, PollCommitSafe
  <2>11. QED
    BY <1>1, <2>3, <2>4, <2>5, <2>6, <2>7, <2>8, <2>9, <2>10 DEF SourceStep
<1>2. ASSUME NEW s \in Sources, Watch(s)
      PROVE  PollSafe'
  BY <1>2, PollFewerRows DEF Watch, runVars, sourceVars, outVars
<1>3. ASSUME NEW p \in Polls, PollStart(p)
      PROVE  PollSafe'
  BY <1>3, PollFewerRows DEF PollStart, outVars
<1>4. ASSUME NEW p \in Polls, Retry(p) \/ SendFails(p) \/ PollCrash(p)
      PROVE  PollSafe'
  BY <1>4, PollUnsentSafe DEF Retry, SendFails, PollCrash
<1>5. CASE UNCHANGED pollVars
  BY <1>5, PollFewerRows DEF pollVars, runVars, sourceVars, outVars
<1>6. QED
  BY <1>1, <1>2, <1>3, <1>4, <1>5, PollSendSafe DEF PollNext, PollStep

\* The invariant holds initially: nothing is inserted, found or sent.
LEMMA PollInitSafe == PollInit => PollSafe
  BY DEF PollInit, PollSafe, OneInserter, FoundIsStored, BatchedIsStored,
         BatchedOnce

\* The inductive invariant of the polls.
THEOREM PollInvariant == PollSpec => []PollInv
<1>1. PollInit => PollInv
  BY PollInitTyped, PollInitSafe DEF PollInv, PollSafe
<1>2. PollInv /\ [PollNext]_pollVars => PollInv'
  BY PollNextTyped, PollNextSafe DEF PollInv, PollSafe
<1>3. QED
  BY <1>1, <1>2, PTL DEF PollSpec

\* Whatever polls overlap, are repeated or meet the same URL, an item is in
\* at most one message to the event tasks.
THEOREM PollBatchesOnce == PollSpec => []BatchedOnce
  BY PollInvariant, PTL DEF PollInv

\* The event tasks find the rows of all ids they are sent.
THEOREM PollBatchesStored == PollSpec => []BatchedIsStored
  BY PollInvariant, PTL DEF PollInv

-----------------------------------------------------------------------------
(* Nothing is forgotten.                                                   *)

\* A wanted item stays in one of the three places.
LEMMA PollNextForgetsNothing ==
    PollTypeOK /\ NothingForgotten /\ [PollNext]_pollVars => NothingForgotten'
<1> SUFFICES ASSUME PollTypeOK, NothingForgotten, [PollNext]_pollVars,
                    NEW i \in wanted'
             PROVE  \/ i \in dropped'
                    \/ i \in Items /\ batches'[i] > 0
                    \/ \E p \in Polls : i \in found'[p]
  BY DEF NothingForgotten
<1> DEFINE Kept == \/ i \in dropped
                   \/ i \in Items /\ batches[i] > 0
                   \/ \E p \in Polls : i \in found[p]
<1>1. i \in wanted => Kept
  BY DEF NothingForgotten
<1>2. ASSUME UNCHANGED <<wanted, dropped, batches, found>>
      PROVE  \/ i \in dropped'
             \/ i \in Items /\ batches'[i] > 0
             \/ \E p \in Polls : i \in found'[p]
  BY <1>1, <1>2
<1>3. ASSUME NEW p \in Polls, NEW phase, PollLeave(p, phase)
      PROVE  /\ wanted' = wanted
             /\ \A q \in Polls : q # p => found'[q] = found[q]
  BY <1>3 DEF PollTypeOK, PollLeave
<1>4. ASSUME NEW p \in Polls, Send(p)
      PROVE  \/ i \in dropped'
             \/ i \in Items /\ batches'[i] > 0
             \/ \E q \in Polls : i \in found'[q]
  <2>1. /\ wanted' = wanted
        /\ dropped' = dropped
        /\ \A q \in Polls : q # p => found'[q] = found[q]
    BY <1>3, <1>4 DEF Send
  <2>2. i \in Items
    BY <2>1 DEF PollTypeOK
  <2>3. batches'[i] = batches[i] + IF i \in found[p] THEN 1 ELSE 0
    BY <1>4, <2>2 DEF Send
  <2>4. batches[i] \in Nat
    BY <2>2 DEF PollTypeOK
  <2>5. CASE i \in found[p] \/ batches[i] > 0
    BY <2>2, <2>3, <2>4, <2>5
  <2>6. CASE i \notin found[p] /\ ~(batches[i] > 0)
    BY <1>1, <2>1, <2>6
  <2>7. QED
    BY <2>5, <2>6
<1>5. ASSUME NEW p \in Polls, NEW phase, Unsent(p, phase)
      PROVE  \/ i \in dropped'
             \/ i \in Items /\ batches'[i] > 0
             \/ \E q \in Polls : i \in found'[q]
  <2>1. /\ wanted' = wanted
        /\ dropped' = dropped \cup found[p]
        /\ batches' = batches
        /\ \A q \in Polls : q # p => found'[q] = found[q]
    BY <1>3, <1>5 DEF Unsent
  <2>2. QED
    BY <1>1, <2>1
<1>6. ASSUME NEW p \in Polls, NEW s \in Sources, Commit(p, s)
      PROVE  \/ i \in dropped'
             \/ i \in Items /\ batches'[i] > 0
             \/ \E q \in Polls : i \in found'[q]
  <2> DEFINE new == IF s \in snap[p] THEN mine[p][s] ELSE {}
  <2>1. /\ wanted' = wanted \cup new
        /\ dropped' = dropped
        /\ batches' = batches
        /\ found'[p] = found[p] \cup new
        /\ \A q \in Polls : q # p => found'[q] = found[q]
    BY <1>6 DEF PollTypeOK, Commit
  <2> HIDE DEF new
  <2>2. QED
    BY <1>1, <2>1
<1>7. ASSUME NEW p \in Polls, NEW s \in Sources, SourceStep(p, s), ~Commit(p, s)
      PROVE  UNCHANGED <<wanted, dropped, batches, found>>
  BY <1>7 DEF SourceStep, Fetch, NothingFetched, Embedded,
              SourceLimit, LookUp, Insert, SourceFails, runVars,
              outVars
<1>8. ASSUME \/ \E s \in Sources : Watch(s)
             \/ \E p \in Polls : PollStart(p)
             \/ UNCHANGED pollVars
      PROVE  UNCHANGED <<wanted, dropped, batches, found>>
  BY <1>8 DEF Watch, PollStart, pollVars, runVars, outVars
<1>9. ASSUME NEW p \in Polls, Retry(p) \/ SendFails(p) \/ PollCrash(p)
      PROVE  \E phase : Unsent(p, phase)
  BY <1>9 DEF Retry, SendFails, PollCrash
<1>10. QED
  BY <1>2, <1>4, <1>5, <1>6, <1>7, <1>8, <1>9 DEF PollNext, PollStep

\* A new item of a followed source is with its poll, in a message, or lost to
\* a poll that ended without sending: there is no fourth way.
THEOREM PollForgetsNothing == PollSpec => []NothingForgotten
<1>1. PollInit => NothingForgotten
  BY DEF PollInit, NothingForgotten
<1>2. QED
  BY <1>1, PollTyped, PollNextForgetsNothing, PTL DEF PollSpec

-----------------------------------------------------------------------------
(* The batch tasks and the verifier: operators.                            *)

\* What an assessor, revised or not, makes of pending items speaks of no other
\* item, and neither does what is delivered of it.
LEMMA OutcomePending ==
    ASSUME NEW S \in SUBSET Items, NEW D \in Outcomes[S]
    PROVE  D \in Listings /\ \A i \in Items \ S : D[i] = 0
<1>1. PICK J \in Assessments(S) : D \in Deliverable(J)
  BY DEF Outcomes, Judged
<1>2. D \in Listings /\ \A i \in Items : D[i] <= J[i]
  BY <1>1 DEF Deliverable
<1>3. J \in Listings /\ \A i \in Items \ S : J[i] = 0
  BY <1>1 DEF Assessments
<1>4. ASSUME NEW i \in Items \ S
      PROVE  D[i] = 0
  <2>1. D[i] \in Nat /\ D[i] <= 0
    BY <1>2, <1>3, EventAssumption DEF Listings
  <2>2. QED
    BY <2>1
<1>5. QED
  BY <1>2, <1>4

\* Nothing is left to deliver, and nothing to report.
LEMMA NothingTyped ==
    /\ Nothing \in Listings
    /\ Nothing \in Reports
    /\ \A i \in Items : Nothing[i] = 0
  BY EventAssumption DEF Nothing, Listings, Reports

\* The phases that a coroutine may go on to.
LEMMA AfterPhase ==
    ASSUME NEW listed
    PROVE  /\ After(listed) \in {"off", "delivering"}
           /\ After(listed) = "off" => listed = Nothing
  BY DEF After

\* A pair and its parts.
LEMMA PairParts ==
    /\ \A p \in Pairs : p[1] \in Subs /\ p[2] \in Items /\ p = <<p[1], p[2]>>
    /\ \A u \in Subs, i \in Items : <<u, i>> \in Pairs
  BY DEF Pairs

-----------------------------------------------------------------------------
(* The batch tasks and the verifier: types.  That `kept` stays a number     *)
(* follows from the balance, below.                                        *)

\* A coroutine that goes on keeps the types of what it had read.
LEMMA GotoTyped ==
    ASSUME TypeOK, NEW t \in Tasks, NEW u \in Subs,
           NEW phase \in {"off", "delivering", "posted"}, Goto(t, u, phase)
    PROVE  /\ co' \in [Tasks -> [Subs -> {"off", "reading", "assessing", "delivering", "posted"}]]
           /\ known' \in [Tasks -> [Subs -> SUBSET Items]]
           /\ pend' \in [Tasks -> [Subs -> SUBSET Items]]
  BY DEF TypeOK, Goto

\* The frontend's acceptance keeps the type of the count of those that met.
LEMMA AcceptedTyped ==
    ASSUME TypeOK, NEW p \in Pairs, NEW late, Accepted(p, late)
    PROVE  raced' \in [Pairs -> Nat]
  BY DEF TypeOK, Accepted

\* A task that leaves keeps the types, if a retry is within the limit.
LEMMA LeaveTyped ==
    ASSUME TypeOK, NEW t \in Tasks, NEW p \in {"queued"} \cup Ended, Leave(t, p),
           p = "queued" => attempts[t] < MaxAttempts, kept' \in [Pairs -> Nat]
    PROVE  TypeOK'
<1>1. /\ pc' \in [Tasks -> {"absent", "queued", "running"} \cup Ended]
      /\ attempts' \in [Tasks -> 0..MaxAttempts]
      /\ retry' \in [Tasks -> BOOLEAN]
      /\ added' \in [Tasks -> SUBSET Pairs]
      /\ poisoned' \in [Tasks -> BOOLEAN]
  BY ItemAssumption DEF TypeOK, Leave, Ended
<1>2. /\ co' \in [Tasks -> [Subs -> {"off", "reading", "assessing", "delivering", "posted"}]]
      /\ known' \in [Tasks -> [Subs -> SUBSET Items]]
      /\ pend' \in [Tasks -> [Subs -> SUBSET Items]]
      /\ todo' \in [Tasks -> [Subs -> Listings]]
      /\ cur' \in [Tasks -> [Subs -> Items \cup {NoItem}]]
  BY NothingTyped DEF TypeOK, Leave
<1>3. UNCHANGED <<batch, sent, verifierVars, raced>>
  BY DEF Leave
<1>4. QED
  BY <1>1, <1>2, <1>3 DEF TypeOK, verifierVars

\* A step of a coroutine keeps the types.
LEMMA CoTyped ==
    ASSUME TypeOK, CoroutinesOK, NEW t \in Tasks, NEW u \in Subs, CoStep(t, u),
           kept' \in [Pairs -> Nat]
    PROVE  TypeOK'
<1>1. CASE Read(t, u)
  BY <1>1 DEF TypeOK, Read, Recorded, taskVars, sessionVars, verifierVars, frontVars
<1>2. CASE ReadFails(t, u)
  BY <1>2, GotoTyped DEF TypeOK, ReadFails, taskVars, sessionVars, verifierVars, frontVars
<1>3. ASSUME NEW listed \in Listings, Assess(t, u, listed)
      PROVE  TypeOK'
  <2>1. Goto(t, u, After(listed)) /\ After(listed) \in {"off", "delivering", "posted"}
    BY <1>3, AfterPhase DEF Assess
  <2>2. todo' \in [Tasks -> [Subs -> Listings]]
    BY <1>3 DEF TypeOK, Assess
  <2>3. QED
    BY <1>3, <2>1, <2>2, GotoTyped
       DEF TypeOK, Assess, taskVars, sessionVars, verifierVars, frontVars
<1>4. CASE ProviderLimit(t, u)
  BY <1>4, GotoTyped DEF TypeOK, ProviderLimit, sessionVars, verifierVars, frontVars
<1>5. ASSUME NEW i \in Items, Post(t, u, i) \/ PostFails(t, u, i)
      PROVE  TypeOK'
  <2>1. todo' = [todo EXCEPT ![t][u][i] = @ - 1] /\ todo[t][u][i] > 0
    BY <1>5 DEF Post, PostFails
  <2>2. todo' \in [Tasks -> [Subs -> Listings]]
    <3>1. todo[t][u][i] \in 0..MaxListed
      BY DEF TypeOK, Listings
    <3>2. todo[t][u][i] - 1 \in 0..MaxListed
      BY <2>1, <3>1, EventAssumption
    <3>3. QED
      BY <2>1, <3>2 DEF TypeOK, Listings
  <2>3. CASE Post(t, u, i)
    <3>1. raced' \in [Pairs -> Nat]
      BY <2>3, AcceptedTyped, PairParts DEF Post
    <3>2. cur' \in [Tasks -> [Subs -> Items \cup {NoItem}]]
      BY <2>3 DEF TypeOK, Post
    <3>3. QED
      BY <2>2, <2>3, <3>1, <3>2, GotoTyped
         DEF TypeOK, Post, taskVars, sessionVars, verifierVars
  <2>4. CASE PostFails(t, u, i)
    <3>1. Goto(t, u, After(todo'[t][u])) /\ After(todo'[t][u]) \in {"off", "delivering"}
      BY <2>4, AfterPhase DEF PostFails
    <3>2. QED
      BY <2>2, <2>4, <3>1, GotoTyped
         DEF TypeOK, PostFails, taskVars, sessionVars, verifierVars, frontVars
  <2>5. QED
    BY <1>5, <2>3, <2>4
<1>6. ASSUME co[t][u] = "posted", Dealt(t, u), sent' \subseteq Pairs,
             added' \in [Tasks -> SUBSET Pairs], poisoned' \in [Tasks -> BOOLEAN],
             raced' = raced
      PROVE  TypeOK'
  <2>1. Goto(t, u, After(todo[t][u])) /\ After(todo[t][u]) \in {"off", "delivering"}
    BY <1>6, AfterPhase DEF Dealt
  <2>2. cur' \in [Tasks -> [Subs -> Items \cup {NoItem}]]
    BY <1>6 DEF TypeOK, Dealt
  <2>3. QED
    BY <1>6, <2>1, <2>2, GotoTyped DEF TypeOK, Dealt, taskVars, verifierVars
<1>7. co[t][u] = "posted" => <<u, cur[t][u]>> \in Pairs
  BY PairParts DEF TypeOK, CoroutinesOK
<1>8. ASSUME NEW R \in SUBSET added[t], Record(t, u, R)
      PROVE  TypeOK'
  BY <1>6, <1>7, <1>8 DEF TypeOK, Record, frontVars
<1>9. CASE RecordCollides(t, u)
  BY <1>6, <1>7, <1>9 DEF TypeOK, RecordCollides, frontVars
<1>10. CASE RecordConflicts(t, u)
  BY <1>6, <1>10 DEF TypeOK, RecordConflicts
<1>11. CASE RecordFails(t, u)
  BY <1>6, <1>11 DEF TypeOK, RecordFails, sessionVars
<1>12. QED
  BY <1>1, <1>2, <1>3, <1>4, <1>5, <1>8, <1>9, <1>10, <1>11 DEF CoStep

\* A step of the verifier keeps the types.
LEMMA VerifierTyped ==
    ASSUME TypeOK, HeldOK, NEW u \in Subs,
           VerifierStep(u) \/ \E missed \in Reports : VerifierStart(u, missed),
           kept' \in [Pairs -> Nat]
    PROVE  TypeOK'
<1>1. ASSUME VerifierLeave(u), sent' \subseteq Pairs
      PROVE  TypeOK'
  BY <1>1, NothingTyped DEF TypeOK, VerifierLeave, taskVars, coVars, sessionVars
<1>2. ASSUME NEW missed \in Reports, VerifierStart(u, missed)
      PROVE  TypeOK'
  <2>1. checks' \in [Subs -> 0..MaxChecks]
    BY <1>2, EventAssumption DEF TypeOK, VerifierStart
  <2>2. QED
    BY <1>2, <2>1 DEF TypeOK, VerifierStart, taskVars, coVars, sessionVars, frontVars
<1>3. ASSUME NEW i \in Items, VerifierCheck(u, i)
      PROVE  TypeOK'
  <2>1. vtodo' \in [Subs -> Reports]
    <3>1. vtodo[u][i] \in 0..MaxReported
      BY DEF TypeOK, Reports
    <3>2. vtodo[u][i] - 1 \in 0..MaxReported
      BY <1>3, <3>1, EventAssumption DEF VerifierCheck
    <3>3. QED
      BY <1>3, <3>2 DEF TypeOK, Reports, VerifierCheck
  <2>2. /\ vpc' \in [Subs -> {"idle", "checking", "posting", "posted"}]
        /\ vcur' \in [Subs -> Items \cup {NoItem}]
    BY <1>3 DEF TypeOK, VerifierCheck
  <2>3. QED
    BY <1>3, <2>1, <2>2 DEF TypeOK, VerifierCheck, taskVars, coVars, sessionVars, frontVars
<1>4. CASE VerifierPost(u)
  <2>1. <<u, vcur[u]>> \in Pairs
    BY <1>4, PairParts DEF HeldOK, VerifierPost
  <2>2. raced' \in [Pairs -> Nat]
    BY <1>4, <2>1, AcceptedTyped DEF VerifierPost
  <2>3. QED
    BY <1>4, <2>2 DEF TypeOK, VerifierPost, taskVars, coVars, sessionVars
<1>5. CASE VerifierPostFails(u)
  BY <1>5 DEF TypeOK, VerifierPostFails, taskVars, coVars, sessionVars, frontVars
<1>6. CASE VerifierFlush(u)
  BY <1>6 DEF TypeOK, HeldOK, VerifierFlush, taskVars, coVars, sessionVars, frontVars
<1>7. CASE VerifierCommit(u)
  BY <1>1, <1>7 DEF TypeOK, VerifierCommit, Pairs
<1>8. CASE VerifierAborts(u)
  BY <1>1, <1>8 DEF TypeOK, VerifierAborts
<1>9. QED
  BY <1>2, <1>3, <1>4, <1>5, <1>6, <1>7, <1>8 DEF VerifierStep

\* Every step keeps the types, if `kept` stays a count.
LEMMA NextTyped ==
    ASSUME TypeOK, CoroutinesOK, HeldOK, [Next]_vars, kept' \in [Pairs -> Nat]
    PROVE  TypeOK'
<1>1. ASSUME NEW t \in Tasks, NEW S \in SUBSET Items, Enqueue(t, S)
      PROVE  TypeOK'
  BY <1>1 DEF TypeOK, Enqueue, Message, coVars, sessionVars, verifierVars, frontVars
<1>2. ASSUME NEW t \in Tasks, NEW R \in SUBSET Subs, Start(t, R)
      PROVE  TypeOK'
  BY <1>2 DEF TypeOK, Start, sessionVars, verifierVars, frontVars
<1>3. ASSUME NEW t \in Tasks, Finish(t) \/ Crash(t)
      PROVE  TypeOK'
  BY <1>3, LeaveTyped DEF Finish, Crash, Ended
<1>4. CASE UNCHANGED vars
  BY <1>4
     DEF TypeOK, vars, taskVars, coVars, sessionVars, verifierVars, frontVars
<1>5. QED
  BY <1>1, <1>2, <1>3, <1>4, CoTyped, VerifierTyped DEF Next, Work, TaskStep

-----------------------------------------------------------------------------
(* The batch tasks and the verifier: who holds what.                       *)

\* A coroutine's step is its own: it runs in a running task, and leaves the
\* messages, the verifiers, the other tasks and the other coroutines alone.
LEMMA CoLocal ==
    ASSUME TypeOK, MessagesOK, NEW t \in Tasks, NEW u \in Subs, CoStep(t, u)
    PROVE  /\ pc[t] = "running" /\ co[t][u] # "off"
           /\ UNCHANGED <<pc, batch, verifierVars>>
           /\ \A w \in Tasks \ {t} : added'[w] = added[w]
           /\ \A w \in Tasks, v \in Subs : (w # t \/ v # u) =>
                 /\ co'[w][v] = co[w][v]
                 /\ known'[w][v] = known[w][v]
                 /\ pend'[w][v] = pend[w][v]
                 /\ todo'[w][v] = todo[w][v]
                 /\ cur'[w][v] = cur[w][v]
<1> DEFINE Others ==
        \A w \in Tasks, v \in Subs : (w # t \/ v # u) =>
            /\ co'[w][v] = co[w][v]
            /\ known'[w][v] = known[w][v]
            /\ pend'[w][v] = pend[w][v]
            /\ todo'[w][v] = todo[w][v]
            /\ cur'[w][v] = cur[w][v]
<1> DEFINE Local == /\ co[t][u] # "off"
                    /\ UNCHANGED <<pc, batch, verifierVars>>
                    /\ \A w \in Tasks \ {t} : added'[w] = added[w]
<1>1. ASSUME Read(t, u)
      PROVE  Others /\ Local
  BY <1>1 DEF TypeOK, Read, taskVars, sessionVars
<1>2. ASSUME ReadFails(t, u)
      PROVE  Others /\ Local
  <2>1. Others
    BY <1>2 DEF TypeOK, ReadFails, Goto
  <2>2. Local
    BY <1>2 DEF ReadFails, taskVars, sessionVars
  <2>3. QED
    BY <2>1, <2>2
<1>3. ASSUME NEW listed \in Listings, Assess(t, u, listed)
      PROVE  Others /\ Local
  BY <1>3 DEF TypeOK, Assess, Goto, taskVars, sessionVars
<1>4. ASSUME ProviderLimit(t, u)
      PROVE  Others /\ Local
  BY <1>4 DEF TypeOK, ProviderLimit, Goto, sessionVars
<1>5. ASSUME NEW i \in Items, Post(t, u, i)
      PROVE  Others /\ Local
  BY <1>5 DEF TypeOK, Post, Goto, taskVars, sessionVars
<1>6. ASSUME NEW i \in Items, PostFails(t, u, i)
      PROVE  Others /\ Local
  BY <1>6 DEF TypeOK, PostFails, Goto, taskVars, sessionVars
<1>7. ASSUME Dealt(t, u)
      PROVE  Others /\ UNCHANGED <<pc, batch, verifierVars>>
  BY <1>7 DEF TypeOK, Dealt, Goto, taskVars
<1>8. ASSUME NEW R \in SUBSET added[t], Record(t, u, R)
      PROVE  Others /\ Local
  BY <1>7, <1>8 DEF TypeOK, Record
<1>9. ASSUME RecordCollides(t, u)
      PROVE  Others /\ Local
  BY <1>7, <1>9 DEF TypeOK, RecordCollides
<1>10. ASSUME RecordConflicts(t, u)
      PROVE  Others /\ Local
  BY <1>7, <1>10 DEF TypeOK, RecordConflicts
<1>11. ASSUME RecordFails(t, u)
      PROVE  Others /\ Local
  BY <1>7, <1>11 DEF TypeOK, RecordFails, sessionVars
<1>12. Others /\ Local
  BY <1>1, <1>2, <1>3, <1>4, <1>5, <1>6, <1>7, <1>8, <1>9, <1>10, <1>11 DEF CoStep
<1>13. pc[t] = "running"
  BY <1>12 DEF MessagesOK
<1>14. QED
  BY <1>12, <1>13

\* What a coroutine holds for its own subscription is in order.
CoroutineOK(t, u) ==
    /\ pend[t][u] \subseteq batch[t] \ known[t][u]
    /\ \A i \in Items : todo[t][u][i] > 0 =>
          i \in pend[t][u] /\ co[t][u] \in {"delivering", "posted"}
    /\ IF co[t][u] = "posted" THEN cur[t][u] \in pend[t][u] ELSE cur[t][u] = NoItem

\* A coroutine that goes on, or ends with nothing left to deliver.
LEMMA GotoKeeps ==
    ASSUME TypeOK, CoroutinesOK, NEW t \in Tasks, NEW u \in Subs,
           NEW phase \in {"off", "delivering"}, Goto(t, u, phase), batch' = batch,
           todo'[t][u] \in Listings, cur'[t][u] = NoItem,
           \A i \in Items : todo'[t][u][i] > 0 => i \in pend[t][u],
           phase = "off" => todo'[t][u] = Nothing
    PROVE  CoroutineOK(t, u)'
<1>1. /\ co'[t][u] = phase
      /\ pend'[t][u] = IF phase = "off" THEN {} ELSE pend[t][u]
      /\ known'[t][u] = IF phase = "off" THEN {} ELSE known[t][u]
  BY DEF TypeOK, Goto
<1>2. pend'[t][u] \subseteq batch'[t] \ known'[t][u]
  BY <1>1 DEF CoroutinesOK
<1>3. \A i \in Items : todo'[t][u][i] > 0 =>
         i \in pend'[t][u] /\ co'[t][u] \in {"delivering", "posted"}
  BY <1>1, NothingTyped
<1>4. QED
  BY <1>1, <1>2, <1>3 DEF CoroutineOK

\* A coroutine's step keeps it in order.
LEMMA CoKeepsOwn ==
    ASSUME TypeOK, MessagesOK, CoroutinesOK, NEW t \in Tasks, NEW u \in Subs, CoStep(t, u)
    PROVE  CoroutineOK(t, u)'
<1>1. /\ CoroutineOK(t, u)
      /\ todo[t][u] \in Listings
      /\ pend[t][u] \subseteq Items
  BY DEF TypeOK, CoroutinesOK, CoroutineOK
<1>2. batch' = batch
  BY CoLocal
<1>3. co[t][u] \notin {"delivering", "posted"} => todo[t][u] = Nothing
  <2>1. SUFFICES ASSUME co[t][u] \notin {"delivering", "posted"}
                 PROVE  todo[t][u] = Nothing
    OBVIOUS
  <2>2. ASSUME NEW i \in Items
        PROVE  todo[t][u][i] = 0
    <3>1. ~(todo[t][u][i] > 0)
      BY <1>1, <2>1 DEF CoroutineOK
    <3>2. todo[t][u][i] \in 0..MaxListed
      BY <1>1 DEF Listings
    <3>3. QED
      BY <3>1, <3>2, EventAssumption
  <2>3. QED
    BY <1>1, <2>2 DEF Nothing, Listings
<1>4. CASE Read(t, u)
  <2>1. /\ pend'[t][u] = batch[t] \ Recorded(u)
        /\ known'[t][u] \in {{}, Recorded(u)}
        /\ todo'[t][u] = Nothing
        /\ cur'[t][u] = NoItem
        /\ co'[t][u] \in {"off", "assessing"}
    BY <1>1, <1>3, <1>4 DEF TypeOK, Read, CoroutineOK
  <2>2. QED
    BY <1>2, <2>1, NothingTyped DEF CoroutineOK
<1>5. CASE ReadFails(t, u)
  <2>1. Goto(t, u, "off") /\ todo'[t][u] = Nothing /\ cur'[t][u] = NoItem
    BY <1>1, <1>3, <1>5 DEF ReadFails, CoroutineOK
  <2>2. QED
    BY <1>2, <2>1, NothingTyped, GotoKeeps
<1>6. ASSUME NEW listed \in Listings, Assess(t, u, listed)
      PROVE  CoroutineOK(t, u)'
  <2>1. /\ Goto(t, u, After(listed))
        /\ todo'[t][u] = listed
        /\ cur'[t][u] = NoItem
    BY <1>1, <1>6 DEF TypeOK, Assess, CoroutineOK
  <2>2. \A i \in Items : listed[i] > 0 => i \in pend[t][u]
    BY <1>1, <1>6, OutcomePending DEF Assess
  <2>3. QED
    BY <1>2, <2>1, <2>2, AfterPhase, GotoKeeps
<1>7. CASE ProviderLimit(t, u)
  <2>1. Goto(t, u, "off") /\ todo'[t][u] = Nothing /\ cur'[t][u] = NoItem
    BY <1>1, <1>3, <1>7 DEF ProviderLimit, CoroutineOK
  <2>2. QED
    BY <1>2, <2>1, NothingTyped, GotoKeeps
<1>8. ASSUME NEW i \in Items, Post(t, u, i) \/ PostFails(t, u, i)
      PROVE  /\ co[t][u] = "delivering"
             /\ i \in pend[t][u]
             /\ todo'[t][u] \in Listings
             /\ \A j \in Items : todo'[t][u][j] > 0 => j \in pend[t][u]
  <2>1. /\ co[t][u] = "delivering"
        /\ todo[t][u][i] > 0
        /\ todo' = [todo EXCEPT ![t][u][i] = @ - 1]
    BY <1>8 DEF Post, PostFails
  <2>2. /\ todo'[t][u] = [todo[t][u] EXCEPT ![i] = todo[t][u][i] - 1]
        /\ todo'[t][u][i] = todo[t][u][i] - 1
        /\ \A j \in Items : j # i => todo'[t][u][j] = todo[t][u][j]
    BY <1>1, <2>1 DEF TypeOK, Listings
  <2>3. \A j \in Items : todo[t][u][j] \in 0..MaxListed
    BY <1>1 DEF Listings
  <2>4. \A j \in Items : todo'[t][u][j] \in 0..MaxListed
    BY <2>1, <2>2, <2>3, EventAssumption
  <2>5. todo'[t][u] \in Listings
    BY <1>1, <2>2, <2>4 DEF Listings
  <2>6. \A j \in Items : todo'[t][u][j] > 0 => todo[t][u][j] > 0
    BY <2>1, <2>2
  <2>7. QED
    BY <1>1, <2>1, <2>5, <2>6 DEF CoroutineOK
<1>9. ASSUME NEW i \in Items, Post(t, u, i)
      PROVE  CoroutineOK(t, u)'
  <2>1. /\ co'[t][u] = "posted"
        /\ pend'[t][u] = pend[t][u]
        /\ known'[t][u] = known[t][u]
        /\ cur'[t][u] = i
    BY <1>9 DEF TypeOK, Post, Goto
  <2>2. QED
    BY <1>1, <1>2, <1>8, <1>9, <2>1 DEF CoroutineOK
<1>10. ASSUME NEW i \in Items, PostFails(t, u, i)
       PROVE  CoroutineOK(t, u)'
  <2>1. Goto(t, u, After(todo'[t][u])) /\ cur'[t][u] = NoItem
    BY <1>1, <1>8, <1>10 DEF PostFails, CoroutineOK
  <2>2. QED
    BY <1>2, <1>8, <1>10, <2>1, AfterPhase, GotoKeeps
<1>11. ASSUME Dealt(t, u)
       PROVE  CoroutineOK(t, u)'
  <2>1. /\ Goto(t, u, After(todo[t][u]))
        /\ todo'[t][u] = todo[t][u]
        /\ cur'[t][u] = NoItem
    BY <1>11 DEF TypeOK, Dealt
  <2>2. QED
    BY <1>1, <1>2, <2>1, AfterPhase, GotoKeeps DEF CoroutineOK
<1>12. QED
  BY <1>4, <1>5, <1>6, <1>7, <1>9, <1>10, <1>11
     DEF CoStep, Record, RecordCollides, RecordConflicts, RecordFails

Shape == MessagesOK /\ CoroutinesOK /\ HeldOK

\* A coroutine's step keeps everything in order.
LEMMA CoShape ==
    ASSUME TypeOK, Shape, NEW t \in Tasks, NEW u \in Subs, CoStep(t, u)
    PROVE  Shape'
<1> USE DEF Shape
<1>1. /\ pc[t] = "running"
      /\ UNCHANGED <<pc, batch, verifierVars>>
      /\ \A w \in Tasks \ {t} : added'[w] = added[w]
      /\ \A w \in Tasks, v \in Subs : (w # t \/ v # u) =>
            /\ co'[w][v] = co[w][v]
            /\ known'[w][v] = known[w][v]
            /\ pend'[w][v] = pend[w][v]
            /\ todo'[w][v] = todo[w][v]
            /\ cur'[w][v] = cur[w][v]
  BY CoLocal
<1>2. MessagesOK'
  BY <1>1 DEF MessagesOK
<1>3. CoroutinesOK'
  <2>1. CoroutineOK(t, u)'
    BY CoKeepsOwn
  <2>2. \A w \in Tasks, v \in Subs : CoroutineOK(w, v)'
    BY <1>1, <2>1 DEF CoroutinesOK, CoroutineOK
  <2>3. QED
    BY <2>2 DEF CoroutinesOK, CoroutineOK
<1>4. sent' = sent \/ \E R \in SUBSET added[t] : Record(t, u, R)
  BY DEF CoStep, Read, ReadFails, Assess, ProviderLimit, Post, PostFails, RecordCollides,
         RecordConflicts, RecordFails
<1>5. CASE sent' = sent
  BY <1>1, <1>2, <1>3, <1>5 DEF HeldOK, verifierVars
<1>6. ASSUME NEW R \in SUBSET added[t], Record(t, u, R)
      PROVE  HeldOK'
  <2>1. /\ sent' = sent \cup R \cup {<<u, cur[t][u]>>}
        /\ Free(R \cup {<<u, cur[t][u]>>})
    BY <1>6 DEF Record
  <2>2. ASSUME NEW v \in Subs, NEW i \in vheld[v]
        PROVE  <<v, i>> \notin sent'
    <3>1. <<v, i>> \notin sent
      BY <2>2 DEF HeldOK
    <3>2. <<v, i>> \notin R \cup {<<u, cur[t][u]>>}
      BY <2>1, <2>2 DEF Free
    <3>3. QED
      BY <2>1, <3>1, <3>2
  <2>3. QED
    BY <1>1, <2>2 DEF HeldOK, verifierVars
<1>7. QED
  BY <1>2, <1>3, <1>4, <1>5, <1>6

\* A task that leaves holds nothing any more.
LEMMA LeaveShape ==
    ASSUME TypeOK, Shape, NEW t \in Tasks, NEW p, Leave(t, p), pc[t] = "running",
           p # "absent", p # "running"
    PROVE  Shape'
<1>1. /\ pc' = [pc EXCEPT ![t] = p]
      /\ added' = [added EXCEPT ![t] = {}]
      /\ UNCHANGED <<batch, sent, verifierVars>>
  BY DEF Leave
<1>2. \A v \in Subs :
         /\ co'[t][v] = "off"
         /\ pend'[t][v] = {}
         /\ todo'[t][v] = Nothing
         /\ cur'[t][v] = NoItem
  BY DEF TypeOK, Leave
<1>3. \A w \in Tasks, v \in Subs : w # t =>
         /\ co'[w][v] = co[w][v]
         /\ known'[w][v] = known[w][v]
         /\ pend'[w][v] = pend[w][v]
         /\ todo'[w][v] = todo[w][v]
         /\ cur'[w][v] = cur[w][v]
  BY DEF TypeOK, Leave
<1>4. MessagesOK'
  BY <1>1, <1>2, <1>3 DEF TypeOK, Shape, MessagesOK
<1>5. CoroutinesOK'
  BY <1>1, <1>2, <1>3, NothingTyped DEF Shape, CoroutinesOK
<1>6. HeldOK'
  BY <1>1 DEF Shape, HeldOK, verifierVars
<1>7. QED
  BY <1>4, <1>5, <1>6 DEF Shape

\* So does a message that arrives and a task that starts.
LEMMA ArrivalShape ==
    ASSUME TypeOK, Shape, NEW t \in Tasks,
           \/ \E S \in SUBSET Items : Enqueue(t, S)
           \/ \E R \in SUBSET Subs : Start(t, R)
    PROVE  Shape'
<1>1. ASSUME NEW S \in SUBSET Items, Enqueue(t, S)
      PROVE  Shape'
  <2>1. /\ pc[t] = "absent"
        /\ pc' = [pc EXCEPT ![t] = "queued"]
        /\ batch' = [batch EXCEPT ![t] = S]
        /\ \A w \in Tasks : batch[w] \cap S = {}
        /\ UNCHANGED <<coVars, sessionVars, sent, verifierVars>>
    BY <1>1 DEF Enqueue, Message
  <2>2. batch[t] = {} /\ \A u \in Subs : pend[t][u] = {}
    BY <2>1 DEF TypeOK, Shape, MessagesOK, CoroutinesOK
  <2>3. MessagesOK'
    BY <2>1 DEF TypeOK, Shape, MessagesOK, coVars, sessionVars
  <2>4. CoroutinesOK'
    BY <2>1, <2>2 DEF TypeOK, Shape, CoroutinesOK, coVars
  <2>5. QED
    BY <2>1, <2>3, <2>4 DEF Shape, HeldOK, verifierVars
<1>2. ASSUME NEW R \in SUBSET Subs, Start(t, R)
      PROVE  Shape'
  <2>1. /\ pc[t] = "queued"
        /\ pc' = [pc EXCEPT ![t] = "running"]
        /\ UNCHANGED <<batch, known, pend, todo, cur, sessionVars, sent, verifierVars>>
        /\ \A w \in Tasks \ {t} : co'[w] = co[w]
        /\ \A u \in Subs : co'[t][u] \in {"off", "reading"}
    BY <1>2 DEF TypeOK, Start
  <2>2. \A u \in Subs : co[t][u] = "off"
    BY <2>1 DEF Shape, MessagesOK
  <2>3. MessagesOK'
    BY <2>1 DEF TypeOK, Shape, MessagesOK, sessionVars
  <2>4. CoroutinesOK'
    BY <2>1, <2>2 DEF Shape, CoroutinesOK
  <2>5. QED
    BY <2>1, <2>3, <2>4 DEF Shape, HeldOK, verifierVars
<1>3. QED
  BY <1>1, <1>2

\* A verifier's step leaves the batch tasks alone, and the rows it holds have no
\* committed twin.
LEMMA VerifierShape ==
    ASSUME TypeOK, Shape, NEW u \in Subs,
           VerifierStep(u) \/ \E missed \in Reports : VerifierStart(u, missed)
    PROVE  Shape'
<1> DEFINE Own == /\ vheld[u] \subseteq Items
                  /\ \A i \in vheld[u] : <<u, i>> \notin sent
                  /\ vpc[u] \in {"posting", "posted"} => vcur[u] \in Items \ vheld[u]
<1>1. UNCHANGED <<taskVars, coVars, sessionVars>>
  BY DEF VerifierStep, VerifierStart, VerifierCheck, VerifierPost, VerifierPostFails,
         VerifierFlush, VerifierCommit, VerifierAborts, VerifierLeave
<1>2. MessagesOK' /\ CoroutinesOK'
  BY <1>1 DEF Shape, MessagesOK, CoroutinesOK, taskVars, coVars, sessionVars
<1>3. \A v \in Subs \ {u} : vpc'[v] = vpc[v] /\ vcur'[v] = vcur[v] /\ vheld'[v] = vheld[v]
  BY DEF TypeOK, VerifierStep, VerifierStart, VerifierCheck, VerifierPost, VerifierPostFails,
         VerifierFlush, VerifierCommit, VerifierAborts, VerifierLeave
<1>4. \A v \in Subs, i \in Items : (v # u /\ <<v, i>> \in sent') => <<v, i>> \in sent
  BY DEF VerifierStep, VerifierStart, VerifierCheck, VerifierPost, VerifierPostFails,
         VerifierFlush, VerifierCommit, VerifierAborts, VerifierLeave
<1>5. Own'
  <2>1. Own
    BY DEF TypeOK, Shape, HeldOK
  <2>2. CASE VerifierLeave(u)
    BY <2>2 DEF TypeOK, VerifierLeave
  <2>3. ASSUME NEW i \in Items, VerifierCheck(u, i)
        PROVE  Own'
    <3>1. vheld' = vheld /\ sent' = sent
      BY <2>3 DEF VerifierCheck
    <3>2. vpc'[u] \in {"posting", "posted"} => vcur'[u] \in Items \ vheld[u]
      BY <2>1, <2>3 DEF TypeOK, VerifierCheck
    <3>3. QED
      BY <2>1, <3>1, <3>2
  <2>4. CASE VerifierPost(u)
    BY <2>1, <2>4 DEF TypeOK, VerifierPost
  <2>5. CASE VerifierPostFails(u)
    BY <2>1, <2>5 DEF TypeOK, VerifierPostFails
  <2>6. CASE VerifierFlush(u)
    BY <2>1, <2>6 DEF TypeOK, VerifierFlush
  <2>7. CASE \E missed \in Reports : VerifierStart(u, missed)
    BY <2>1, <2>7 DEF TypeOK, VerifierStart
  <2>8. QED
    BY <2>2, <2>3, <2>4, <2>5, <2>6, <2>7 DEF VerifierStep, VerifierCommit, VerifierAborts
<1>6. HeldOK'
  <2>1. \A v \in Subs \ {u} : vheld'[v] \subseteq Items
    BY <1>3 DEF TypeOK
  <2>2. QED
    BY <1>3, <1>4, <1>5, <2>1 DEF Shape, HeldOK
<1>7. QED
  BY <1>2, <1>6 DEF Shape

\* Every step keeps everything in order.
LEMMA NextShape ==
    ASSUME TypeOK, Shape, [Next]_vars
    PROVE  Shape'
<1>1. ASSUME NEW t \in Tasks, Finish(t) \/ Crash(t)
      PROVE  Shape'
  BY <1>1, LeaveShape DEF Finish, Crash
<1>2. CASE UNCHANGED vars
  BY <1>2 DEF Shape, MessagesOK, CoroutinesOK, HeldOK, vars, taskVars, coVars, sessionVars,
              verifierVars
<1>3. QED
  BY <1>1, <1>2, CoShape, ArrivalShape, VerifierShape DEF Next, Work, TaskStep

-----------------------------------------------------------------------------
(* The batch tasks and the verifier: the balance of the notifications.     *)

\* A step of a task changes the count of the pairs of its own message only,
\* and that by what it puts on record, gives up or takes on.
LEMMA TaskBalance ==
    ASSUME TypeOK, MessagesOK, Balanced, NEW t \in Tasks,
           UNCHANGED <<batch, vpc, vcur, vheld>>,
           \A w \in Tasks \ {t} : added'[w] = added[w] /\ cur'[w] = cur[w],
           \A p \in added'[t] : p[2] \in batch[t],
           \A p \in Pairs : p[2] \in batch[t] =>
               kept'[p] = (kept[p] - One(p \in sent) - InBatch(t, p))
                          + One(p \in sent') + InBatch(t, p)',
           \A p \in Pairs : p[2] \notin batch[t] =>
               kept'[p] = kept[p] /\ (p \in sent' <=> p \in sent)
    PROVE  Balanced'
<1> SUFFICES ASSUME NEW p \in Pairs
             PROVE  /\ \A w \in Tasks : p[2] \in batch'[w] =>
                         kept'[p] = One(p \in sent') + InBatch(w, p)' + InVerifier(p)'
                    /\ (\A w \in Tasks : p[2] \notin batch'[w]) =>
                         kept'[p] = One(p \in sent') + InVerifier(p)'
                    /\ \A w \in Tasks : p \in added'[w] => p[2] \in batch'[w]
  BY DEF Balanced
<1>1. InVerifier(p)' = InVerifier(p) /\ InVerifier(p) \in Nat
  BY DEF InVerifier, One
<1>2. One(p \in sent) \in Nat /\ InBatch(t, p) \in Nat
  BY DEF InBatch, One
<1>3. One(p \in sent') \in Nat /\ InBatch(t, p)' \in Nat
  BY DEF InBatch, One
<1>4. ASSUME NEW w \in Tasks, p[2] \in batch'[w]
      PROVE  kept'[p] = One(p \in sent') + InBatch(w, p)' + InVerifier(p)'
  <2>1. kept[p] = One(p \in sent) + InBatch(w, p) + InVerifier(p)
    BY <1>4 DEF Balanced
  <2>2. CASE w = t
    BY <1>1, <1>2, <1>3, <1>4, <2>1, <2>2
  <2>3. CASE w # t
    <3>1. p[2] \notin batch[t]
      BY <1>4, <2>3 DEF MessagesOK
    <3>2. InBatch(w, p)' = InBatch(w, p)
      BY <2>3 DEF InBatch
    <3>3. One(p \in sent') = One(p \in sent)
      BY <3>1 DEF One
    <3>4. QED
      BY <1>1, <2>1, <3>1, <3>2, <3>3
  <2>4. QED
    BY <2>2, <2>3
<1>5. ASSUME \A w \in Tasks : p[2] \notin batch'[w]
      PROVE  kept'[p] = One(p \in sent') + InVerifier(p)'
  <2>1. kept[p] = One(p \in sent) + InVerifier(p)
    BY <1>5 DEF Balanced
  <2>2. One(p \in sent') = One(p \in sent)
    BY <1>5 DEF One
  <2>3. QED
    BY <1>1, <1>5, <2>1, <2>2
<1>6. ASSUME NEW w \in Tasks, p \in added'[w]
      PROVE  p[2] \in batch'[w]
  BY <1>6 DEF Balanced
<1>7. QED
  BY <1>4, <1>5, <1>6

\* A step of a verifier changes no count but by what it puts on record, gives
\* up or takes on.
LEMMA VerifierBalance ==
    ASSUME TypeOK, Balanced, UNCHANGED <<batch, added, cur>>,
           \A p \in Pairs :
               kept'[p] = (kept[p] - One(p \in sent) - InVerifier(p))
                          + One(p \in sent') + InVerifier(p)'
    PROVE  Balanced'
<1> SUFFICES ASSUME NEW p \in Pairs
             PROVE  /\ \A w \in Tasks : p[2] \in batch'[w] =>
                         kept'[p] = One(p \in sent') + InBatch(w, p)' + InVerifier(p)'
                    /\ (\A w \in Tasks : p[2] \notin batch'[w]) =>
                         kept'[p] = One(p \in sent') + InVerifier(p)'
                    /\ \A w \in Tasks : p \in added'[w] => p[2] \in batch'[w]
  BY DEF Balanced
<1>1. /\ InVerifier(p) \in Nat /\ InVerifier(p)' \in Nat
      /\ One(p \in sent) \in Nat /\ One(p \in sent') \in Nat
  BY DEF InVerifier, One
<1>2. ASSUME NEW w \in Tasks
      PROVE  InBatch(w, p)' = InBatch(w, p) /\ InBatch(w, p) \in Nat
  BY DEF InBatch, One
<1>3. ASSUME NEW w \in Tasks, p[2] \in batch'[w]
      PROVE  kept'[p] = One(p \in sent') + InBatch(w, p)' + InVerifier(p)'
  <2>1. kept[p] = One(p \in sent) + InBatch(w, p) + InVerifier(p)
    BY <1>3 DEF Balanced
  <2>2. QED
    BY <1>1, <1>2, <2>1
<1>4. ASSUME \A w \in Tasks : p[2] \notin batch'[w]
      PROVE  kept'[p] = One(p \in sent') + InVerifier(p)'
  <2>1. kept[p] = One(p \in sent) + InVerifier(p)
    BY <1>4 DEF Balanced
  <2>2. QED
    BY <1>1, <2>1
<1>5. \A w \in Tasks : p \in added'[w] => p[2] \in batch'[w]
  BY DEF Balanced
<1>6. QED
  BY <1>3, <1>4, <1>5

\* The coroutine's row that is to be recorded, as a pair.
LEMMA RowToRecord ==
    ASSUME TypeOK, Shape, Balanced, NEW t \in Tasks, NEW u \in Subs, co[t][u] = "posted"
    PROVE  /\ cur[t][u] \in Items /\ cur[t][u] \in batch[t]
           /\ <<u, cur[t][u]>> \in Pairs
           /\ \A p \in Pairs : p = <<u, cur[t][u]>> <=> (p[1] = u /\ p[2] = cur[t][u])
           /\ \A p \in added[t] : p \in Pairs /\ p[2] \in batch[t]
<1>1. cur[t][u] \in Items /\ cur[t][u] \in batch[t]
  BY DEF TypeOK, Shape, CoroutinesOK
<1>2. \A p \in added[t] : p \in Pairs /\ p[2] \in batch[t]
  BY DEF TypeOK, Balanced
<1>3. QED
  BY <1>1, <1>2, PairParts

\* The pair that is recorded, or given up, is under way no more.
LEMMA DealtCur ==
    ASSUME TypeOK, NEW t \in Tasks, NEW u \in Subs, Dealt(t, u)
    PROVE  /\ batch' = batch /\ UNCHANGED verifierVars
           /\ \A w \in Tasks \ {t} : cur'[w] = cur[w]
           /\ \A p \in Pairs : cur'[t][p[1]] = p[2] <=> cur[t][p[1]] = p[2] /\ p[1] # u
<1>1. cur' = [cur EXCEPT ![t][u] = NoItem] /\ batch' = batch /\ UNCHANGED verifierVars
  BY DEF Dealt, taskVars
<1>2. \A w \in Tasks \ {t} : cur'[w] = cur[w]
  BY <1>1 DEF TypeOK
<1>3. \A v \in Subs : cur'[t][v] = IF v = u THEN NoItem ELSE cur[t][v]
  BY <1>1 DEF TypeOK
<1>4. QED
  BY <1>1, <1>2, <1>3, PairParts, ItemAssumption

\* A commit: the coroutine's row goes on record, and those R of others.
LEMMA RecordBalance ==
    ASSUME TypeOK, Shape, Balanced, NEW t \in Tasks, NEW u \in Subs,
           NEW R \in SUBSET added[t], Record(t, u, R)
    PROVE  Balanced'
<1> DEFINE row == <<u, cur[t][u]>>
<1>1. /\ co[t][u] = "posted" /\ Dealt(t, u)
      /\ row \notin added[t] /\ row \notin R
      /\ (R \cup {row}) \cap sent = {}
      /\ sent' = sent \cup R \cup {row}
      /\ added' = [added EXCEPT ![t] = @ \ R]
      /\ kept' = kept
  BY DEF Record, frontVars
<1>2. /\ row \in Pairs
      /\ cur[t][u] \in batch[t]
      /\ \A p \in Pairs : p = row <=> (p[1] = u /\ p[2] = cur[t][u])
      /\ \A p \in added[t] : p \in Pairs /\ p[2] \in batch[t]
  BY <1>1, RowToRecord
<1>3. /\ batch' = batch /\ UNCHANGED verifierVars
      /\ \A w \in Tasks \ {t} : cur'[w] = cur[w]
      /\ \A p \in Pairs : cur'[t][p[1]] = p[2] <=> cur[t][p[1]] = p[2] /\ p[1] # u
  BY <1>1, DealtCur
<1>4. added'[t] = added[t] \ R /\ \A w \in Tasks \ {t} : added'[w] = added[w]
  BY <1>1 DEF TypeOK
<1> HIDE DEF row
<1>5. ASSUME NEW p \in Pairs
      PROVE  kept'[p] = (kept[p] - One(p \in sent) - InBatch(t, p))
                        + One(p \in sent') + InBatch(t, p)'
  <2>1. kept[p] \in Nat /\ kept'[p] = kept[p]
    BY <1>1 DEF TypeOK
  <2>2. CASE p = row
    <3>1. /\ p \notin sent /\ p \in sent'
          /\ p \notin added[t] /\ p \notin added'[t]
          /\ cur[t][p[1]] = p[2] /\ cur'[t][p[1]] # p[2]
      BY <1>1, <1>2, <1>3, <1>4, <2>2
    <3>2. QED
      BY <2>1, <3>1 DEF InBatch, One
  <2>3. CASE p \in R
    <3>1. /\ p \notin sent /\ p \in sent'
          /\ p \in added[t] /\ p \notin added'[t]
          /\ cur[t][p[1]] = p[2] <=> cur'[t][p[1]] = p[2]
      BY <1>1, <1>2, <1>3, <1>4, <2>3
    <3>2. QED
      BY <2>1, <3>1 DEF InBatch, One
  <2>4. CASE p # row /\ p \notin R
    <3>1. /\ p \in sent <=> p \in sent'
          /\ p \in added[t] <=> p \in added'[t]
          /\ cur[t][p[1]] = p[2] <=> cur'[t][p[1]] = p[2]
      BY <1>1, <1>2, <1>3, <1>4, <2>4
    <3>2. QED
      BY <2>1, <3>1 DEF InBatch, One
  <2>5. QED
    BY <2>2, <2>3, <2>4
<1>6. \A p \in Pairs : p[2] \notin batch[t] =>
         kept'[p] = kept[p] /\ (p \in sent' <=> p \in sent)
  BY <1>1, <1>2
<1>7. \A p \in added'[t] : p[2] \in batch[t]
  BY <1>2, <1>4
<1>8. QED
  BY <1>3, <1>4, <1>5, <1>6, <1>7, TaskBalance DEF Shape, verifierVars

\* A commit that collides: the row stays in the session.
LEMMA CollisionBalance ==
    ASSUME TypeOK, Shape, Balanced, NEW t \in Tasks, NEW u \in Subs, RecordCollides(t, u)
    PROVE  Balanced'
<1> DEFINE row == <<u, cur[t][u]>>
<1>1. /\ co[t][u] = "posted" /\ Dealt(t, u)
      /\ row \notin added[t]
      /\ added' = [added EXCEPT ![t] = @ \cup {row}]
      /\ UNCHANGED <<sent, kept>>
  BY DEF RecordCollides, frontVars
<1>2. /\ row \in Pairs /\ row[2] = cur[t][u]
      /\ cur[t][u] \in batch[t]
      /\ \A p \in Pairs : p = row <=> (p[1] = u /\ p[2] = cur[t][u])
      /\ \A p \in added[t] : p \in Pairs /\ p[2] \in batch[t]
  BY <1>1, RowToRecord
<1>3. /\ batch' = batch /\ UNCHANGED verifierVars
      /\ \A w \in Tasks \ {t} : cur'[w] = cur[w]
      /\ \A p \in Pairs : cur'[t][p[1]] = p[2] <=> cur[t][p[1]] = p[2] /\ p[1] # u
  BY <1>1, DealtCur
<1>4. added'[t] = added[t] \cup {row} /\ \A w \in Tasks \ {t} : added'[w] = added[w]
  BY <1>1 DEF TypeOK
<1> HIDE DEF row
<1>5. ASSUME NEW p \in Pairs
      PROVE  kept'[p] = (kept[p] - One(p \in sent) - InBatch(t, p))
                        + One(p \in sent') + InBatch(t, p)'
  <2>1. kept[p] \in Nat /\ kept'[p] = kept[p] /\ (p \in sent <=> p \in sent')
    BY <1>1 DEF TypeOK
  <2>2. CASE p = row
    <3>1. /\ p \notin added[t] /\ p \in added'[t]
          /\ cur[t][p[1]] = p[2] /\ cur'[t][p[1]] # p[2]
      BY <1>1, <1>2, <1>3, <1>4, <2>2
    <3>2. QED
      BY <2>1, <3>1 DEF InBatch, One
  <2>3. CASE p # row
    <3>1. /\ p \in added[t] <=> p \in added'[t]
          /\ cur[t][p[1]] = p[2] <=> cur'[t][p[1]] = p[2]
      BY <1>1, <1>2, <1>3, <1>4, <2>3
    <3>2. QED
      BY <2>1, <3>1 DEF InBatch, One
  <2>4. QED
    BY <2>2, <2>3
<1>6. \A p \in Pairs : kept'[p] = kept[p] /\ (p \in sent' <=> p \in sent)
  BY <1>1
<1>7. \A p \in added'[t] : p[2] \in batch[t]
  BY <1>2, <1>4
<1>8. QED
  BY <1>3, <1>4, <1>5, <1>6, <1>7, TaskBalance DEF Shape, verifierVars

\* A failed flush, and a commit on a dead transaction: the rows are given up.
LEMMA GivenUpBalance ==
    ASSUME TypeOK, Shape, Balanced, NEW t \in Tasks, NEW u \in Subs,
           RecordConflicts(t, u) \/ RecordFails(t, u)
    PROVE  Balanced'
<1> DEFINE row == <<u, cur[t][u]>>
<1>1. /\ co[t][u] = "posted" /\ Dealt(t, u)
      /\ sent' = sent
      /\ added'[t] \subseteq added[t] /\ \A w \in Tasks \ {t} : added'[w] = added[w]
  BY DEF TypeOK, RecordConflicts, RecordFails, sessionVars
<1>2. ASSUME NEW p \in Pairs
      PROVE  kept'[p] = kept[p] - One(p \in added[t] /\ p \notin added'[t]) - One(p = row)
  <2>1. CASE RecordConflicts(t, u)
    <3>1. kept'[p] = kept[p] - One(p \in added[t]) - One(p = row) /\ added'[t] = {}
      BY <2>1 DEF TypeOK, RecordConflicts
    <3>2. QED
      BY <3>1 DEF One
  <2>2. CASE RecordFails(t, u)
    <3>1. kept'[p] = kept[p] - One(p \in {row}) /\ added'[t] = added[t]
      BY <2>2 DEF RecordFails, Forget, sessionVars
    <3>2. kept[p] \in Nat
      BY DEF TypeOK
    <3>3. QED
      BY <3>1, <3>2 DEF One
  <2>3. QED
    BY <2>1, <2>2
<1>3. /\ cur[t][u] \in batch[t]
      /\ \A p \in Pairs : p = row <=> (p[1] = u /\ p[2] = cur[t][u])
      /\ \A p \in added[t] : p \in Pairs /\ p[2] \in batch[t]
  BY <1>1, RowToRecord
<1>4. /\ batch' = batch /\ UNCHANGED verifierVars
      /\ \A w \in Tasks \ {t} : cur'[w] = cur[w]
      /\ \A p \in Pairs : cur'[t][p[1]] = p[2] <=> cur[t][p[1]] = p[2] /\ p[1] # u
  BY <1>1, DealtCur
<1> HIDE DEF row
<1>5. ASSUME NEW p \in Pairs
      PROVE  kept'[p] = (kept[p] - One(p \in sent) - InBatch(t, p))
                        + One(p \in sent') + InBatch(t, p)'
  <2>1. kept[p] \in Nat /\ (p \in sent <=> p \in sent')
    BY <1>1 DEF TypeOK
  <2>2. One(p \in added[t]) = One(p \in added'[t]) + One(p \in added[t] /\ p \notin added'[t])
    BY <1>1 DEF One
  <2>3. One(cur[t][p[1]] = p[2]) = One(cur'[t][p[1]] = p[2]) + One(p = row)
    BY <1>3, <1>4 DEF One
  <2> DEFINE a == One(p \in added[t])
             a2 == One(p \in added'[t])
             d == One(p \in added[t] /\ p \notin added'[t])
             c == One(cur[t][p[1]] = p[2])
             c2 == One(cur'[t][p[1]] = p[2])
             r == One(p = row)
             s == One(p \in sent)
  <2>4. /\ a \in Nat /\ a2 \in Nat /\ d \in Nat /\ c \in Nat /\ c2 \in Nat /\ r \in Nat
        /\ s \in Nat
    BY DEF One
  <2>5. kept'[p] = kept[p] - d - r /\ a = a2 + d /\ c = c2 + r /\ One(p \in sent') = s
    BY <1>2, <2>1, <2>2, <2>3 DEF One
  <2>6. InBatch(t, p) = a + c /\ InBatch(t, p)' = a2 + c2
    BY DEF InBatch
  <2> HIDE DEF a, a2, d, c, c2, r, s
  <2>7. QED
    BY <2>1, <2>4, <2>5, <2>6 DEF s
<1>6. ASSUME NEW p \in Pairs, p[2] \notin batch[t]
      PROVE  kept'[p] = kept[p] /\ (p \in sent' <=> p \in sent)
  <2>1. p # row /\ p \notin added[t] /\ kept[p] \in Nat
    BY <1>3, <1>6 DEF TypeOK
  <2>2. QED
    BY <1>1, <1>2, <2>1 DEF One
<1>7. \A p \in added'[t] : p[2] \in batch[t]
  BY <1>1, <1>3
<1>8. QED
  BY <1>1, <1>4, <1>5, <1>6, <1>7, TaskBalance DEF Shape, verifierVars

\* A task that leaves gives up what it had not recorded.
LEMMA LeaveBalance ==
    ASSUME TypeOK, Shape, Balanced, NEW t \in Tasks, NEW phase, Leave(t, phase)
    PROVE  Balanced'
<1>1. /\ UNCHANGED <<batch, sent, verifierVars>>
      /\ added'[t] = {}
      /\ \A w \in Tasks \ {t} : added'[w] = added[w] /\ cur'[w] = cur[w]
      /\ \A u \in Subs : cur'[t][u] = NoItem
  BY DEF TypeOK, Leave
<1>2. \A p \in Pairs :
         kept'[p] = kept[p] - One(p \in added[t]) - One(cur[t][p[1]] = p[2])
  BY DEF Leave
<1>3. \A u \in Subs : cur[t][u] # NoItem => cur[t][u] \in batch[t]
  BY DEF TypeOK, Shape, CoroutinesOK
<1>4. ASSUME NEW p \in Pairs
      PROVE  kept'[p] = (kept[p] - One(p \in sent) - InBatch(t, p))
                        + One(p \in sent') + InBatch(t, p)'
  <2>1. kept[p] \in Nat
    BY DEF TypeOK
  <2>2. cur'[t][p[1]] # p[2] /\ p \notin added'[t]
    BY <1>1, PairParts, ItemAssumption
  <2>3. QED
    BY <1>1, <1>2, <2>1, <2>2 DEF InBatch, One
<1>5. ASSUME NEW p \in Pairs, p[2] \notin batch[t]
      PROVE  kept'[p] = kept[p] /\ (p \in sent' <=> p \in sent)
  <2>1. p \notin added[t] /\ kept[p] \in Nat
    BY <1>5 DEF TypeOK, Balanced
  <2>2. cur[t][p[1]] # p[2]
    BY <1>3, <1>5, PairParts, ItemAssumption
  <2>3. QED
    BY <1>1, <1>2, <2>1, <2>2 DEF One
<1>6. QED
  BY <1>1, <1>4, <1>5, TaskBalance DEF Shape, verifierVars

\* The frontend accepts the notification of a coroutine: one more to record.
LEMMA PostBalance ==
    ASSUME TypeOK, Shape, Balanced, NEW t \in Tasks, NEW u \in Subs, NEW i \in Items,
           Post(t, u, i)
    PROVE  Balanced'
<1>1. /\ UNCHANGED <<batch, added, sent, verifierVars>>
      /\ kept' = [kept EXCEPT ![<<u, i>>] = @ + 1]
      /\ cur' = [cur EXCEPT ![t][u] = i]
      /\ todo[t][u][i] > 0 /\ co[t][u] = "delivering"
  BY DEF Post, Accepted, taskVars, sessionVars
<1>2. cur[t][u] = NoItem /\ i \in batch[t]
  BY <1>1 DEF Shape, CoroutinesOK
<1>3. /\ \A w \in Tasks \ {t} : cur'[w] = cur[w]
      /\ \A v \in Subs : cur'[t][v] = IF v = u THEN i ELSE cur[t][v]
  BY <1>1 DEF TypeOK
<1>4. \A p \in Pairs : p = <<u, i>> <=> (p[1] = u /\ p[2] = i)
  BY PairParts
<1>5. \A p \in Pairs : kept'[p] = IF p = <<u, i>> THEN kept[p] + 1 ELSE kept[p]
  BY <1>1 DEF TypeOK
<1>6. ASSUME NEW p \in Pairs
      PROVE  kept'[p] = (kept[p] - One(p \in sent) - InBatch(t, p))
                        + One(p \in sent') + InBatch(t, p)'
  <2>1. kept[p] \in Nat /\ p[1] \in Subs /\ p[2] # NoItem
    BY PairParts, ItemAssumption DEF TypeOK
  <2>2. CASE p[1] = u /\ p[2] = i
    BY <1>1, <1>2, <1>3, <1>4, <1>5, <2>1, <2>2 DEF InBatch, One
  <2>3. CASE p[1] = u /\ p[2] # i
    BY <1>1, <1>2, <1>3, <1>4, <1>5, <2>1, <2>3 DEF InBatch, One
  <2>4. CASE p[1] # u
    BY <1>1, <1>3, <1>4, <1>5, <2>1, <2>4 DEF InBatch, One
  <2>5. QED
    BY <2>2, <2>3, <2>4
<1>7. \A p \in Pairs : p[2] \notin batch[t] => kept'[p] = kept[p]
  BY <1>2, <1>4, <1>5
<1>8. \A p \in added'[t] : p[2] \in batch[t]
  BY <1>1 DEF TypeOK, Balanced
<1>9. QED
  BY <1>1, <1>3, <1>6, <1>7, <1>8, TaskBalance DEF Shape, verifierVars

\* A coroutine's step keeps the balance.
LEMMA CoBalance ==
    ASSUME TypeOK, Shape, Balanced, NEW t \in Tasks, NEW u \in Subs, CoStep(t, u)
    PROVE  Balanced'
<1>1. ASSUME UNCHANGED <<batch, cur, added, sent, kept, vpc, vcur, vheld>>
      PROVE  Balanced'
  BY <1>1 DEF Balanced, InBatch, InVerifier
<1>2. CASE Read(t, u) \/ ReadFails(t, u)
  BY <1>1, <1>2 DEF Read, ReadFails, taskVars, sessionVars, verifierVars, frontVars
<1>3. ASSUME NEW listed \in Listings, Assess(t, u, listed)
      PROVE  Balanced'
  BY <1>1, <1>3 DEF Assess, taskVars, sessionVars, verifierVars, frontVars
<1>4. CASE ProviderLimit(t, u)
  BY <1>1, <1>4 DEF ProviderLimit, sessionVars, verifierVars, frontVars
<1>5. ASSUME NEW i \in Items, PostFails(t, u, i)
      PROVE  Balanced'
  BY <1>1, <1>5 DEF PostFails, taskVars, sessionVars, verifierVars, frontVars
<1>6. QED
  BY <1>2, <1>3, <1>4, <1>5, PostBalance, RecordBalance, CollisionBalance, GivenUpBalance
     DEF CoStep

\* A message brings items that no other has, to a task that holds nothing.
LEMMA MessageBalance ==
    ASSUME TypeOK, Shape, Balanced, NEW t \in Tasks, NEW S \in SUBSET Items, Enqueue(t, S)
    PROVE  Balanced'
<1>1. /\ pc[t] = "absent"
      /\ batch' = [batch EXCEPT ![t] = S]
      /\ \A w \in Tasks : batch[w] \cap S = {}
      /\ UNCHANGED <<cur, added, sent, kept, vpc, vcur, vheld>>
  BY DEF Enqueue, Message, coVars, sessionVars, verifierVars, frontVars
<1>2. /\ added[t] = {} /\ batch[t] = {}
      /\ \A u \in Subs : cur[t][u] = NoItem
  BY <1>1 DEF TypeOK, Shape, MessagesOK, CoroutinesOK
<1>3. batch'[t] = S /\ \A w \in Tasks \ {t} : batch'[w] = batch[w]
  BY <1>1 DEF TypeOK
<1>4. \A p \in Pairs, w \in Tasks : InBatch(w, p)' = InBatch(w, p)
  BY <1>1 DEF InBatch
<1>5. \A p \in Pairs : InVerifier(p)' = InVerifier(p) /\ InVerifier(p) \in Nat
  BY <1>1 DEF InVerifier, One
<1>6. ASSUME NEW p \in Pairs
      PROVE  /\ \A w \in Tasks : p[2] \in batch'[w] =>
                  kept'[p] = One(p \in sent') + InBatch(w, p)' + InVerifier(p)'
             /\ (\A w \in Tasks : p[2] \notin batch'[w]) =>
                  kept'[p] = One(p \in sent') + InVerifier(p)'
             /\ \A w \in Tasks : p \in added'[w] => p[2] \in batch'[w]
  <2>1. \A w \in Tasks : p \in added'[w] => p[2] \in batch'[w]
    BY <1>1, <1>2, <1>3 DEF Balanced
  <2>2. (\A w \in Tasks : p[2] \notin batch'[w]) =>
           kept'[p] = One(p \in sent') + InVerifier(p)'
    BY <1>1, <1>2, <1>3, <1>5 DEF Balanced
  <2>3. ASSUME NEW w \in Tasks, p[2] \in batch'[w]
        PROVE  kept'[p] = One(p \in sent') + InBatch(w, p)' + InVerifier(p)'
    <3>1. CASE w = t
      <4>1. \A x \in Tasks : p[2] \notin batch[x]
        BY <1>1, <1>3, <2>3, <3>1
      <4>2. kept[p] = One(p \in sent) + InVerifier(p)
        BY <4>1 DEF Balanced
      <4>3. InBatch(t, p) = 0
        BY <1>2, PairParts, ItemAssumption DEF InBatch, One
      <4>4. One(p \in sent) \in Nat
        BY DEF One
      <4>5. QED
        BY <1>1, <1>4, <1>5, <3>1, <4>2, <4>3, <4>4
    <3>2. CASE w # t
      BY <1>1, <1>3, <1>4, <1>5, <2>3, <3>2 DEF Balanced
    <3>3. QED
      BY <3>1, <3>2
  <2>4. QED
    BY <2>1, <2>2, <2>3
<1>7. QED
  BY <1>6 DEF Balanced

\* A verifier's step keeps the balance.
LEMMA VerifierBalanced ==
    ASSUME TypeOK, Shape, Balanced, NEW u \in Subs,
           VerifierStep(u) \/ \E missed \in Reports : VerifierStart(u, missed)
    PROVE  Balanced'
<1>1. UNCHANGED <<batch, added, cur>>
  BY DEF VerifierStep, VerifierStart, VerifierCheck, VerifierPost, VerifierPostFails,
         VerifierFlush, VerifierCommit, VerifierAborts, VerifierLeave, taskVars, coVars,
         sessionVars
<1>2. /\ \A v \in Subs \ {u} : vpc'[v] = vpc[v] /\ vcur'[v] = vcur[v] /\ vheld'[v] = vheld[v]
      /\ \A i \in vheld[u] : <<u, i>> \notin sent
      /\ vpc[u] \in {"posting", "posted"} => vcur[u] \in Items \ vheld[u]
  BY DEF TypeOK, Shape, HeldOK, VerifierStep, VerifierStart, VerifierCheck, VerifierPost,
         VerifierPostFails, VerifierFlush, VerifierCommit, VerifierAborts, VerifierLeave
<1> SUFFICES ASSUME NEW p \in Pairs
             PROVE  kept'[p] = (kept[p] - One(p \in sent) - InVerifier(p))
                               + One(p \in sent') + InVerifier(p)'
  BY <1>1, VerifierBalance
<1> DEFINE q == p[1]
           i == p[2]
<1>3. kept[p] \in Nat /\ q \in Subs /\ i \in Items /\ p = <<q, i>>
  BY PairParts DEF TypeOK
<1>4. CASE (\E missed \in Reports : VerifierStart(u, missed)) \/ VerifierPostFails(u)
           \/ \E j \in Items : VerifierCheck(u, j)
  <2>1. kept' = kept /\ sent' = sent /\ vheld' = vheld
    BY <1>4 DEF VerifierStart, VerifierCheck, VerifierPostFails, frontVars
  <2>2. vpc[u] # "posted" /\ vpc'[u] # "posted"
    BY <1>4 DEF TypeOK, VerifierStart, VerifierCheck, VerifierPostFails
  <2>3. QED
    BY <1>2, <1>3, <2>1, <2>2 DEF InVerifier, One
<1>5. CASE VerifierPost(u)
  <2>1. /\ vpc[u] = "posting" /\ vpc'[u] = "posted"
        /\ sent' = sent /\ vheld' = vheld /\ vcur' = vcur
        /\ kept' = [kept EXCEPT ![<<u, vcur[u]>>] = @ + 1]
    BY <1>5 DEF TypeOK, VerifierPost, Accepted
  <2>2. kept'[p] = IF p = <<u, vcur[u]>> THEN kept[p] + 1 ELSE kept[p]
    BY <2>1 DEF TypeOK
  <2>3. p = <<u, vcur[u]>> <=> q = u /\ i = vcur[u]
    BY <1>3
  <2>4. QED
    BY <1>2, <1>3, <2>1, <2>2, <2>3 DEF InVerifier, One
<1>6. CASE VerifierFlush(u)
  <2>1. /\ vpc[u] = "posted" /\ vpc'[u] = "checking"
        /\ vheld'[u] = vheld[u] \cup {vcur[u]}
        /\ sent' = sent /\ kept' = kept
    BY <1>6 DEF TypeOK, VerifierFlush, frontVars
  <2>2. QED
    BY <1>2, <1>3, <2>1 DEF InVerifier, One
<1>7. CASE VerifierCommit(u)
  <2>1. /\ vpc[u] = "checking" /\ vpc'[u] = "idle" /\ vheld'[u] = {} /\ kept' = kept
        /\ sent' = sent \cup ({u} \X vheld[u])
    BY <1>7 DEF TypeOK, VerifierCommit, VerifierLeave
  <2>2. p \in sent' <=> p \in sent \/ (q = u /\ i \in vheld[u])
    BY <1>3, <2>1
  <2>3. QED
    BY <1>2, <1>3, <2>1, <2>2 DEF InVerifier, One
<1>8. CASE VerifierAborts(u)
  <2> DEFINE lost == vheld[u] \cup IF vpc[u] = "posted" THEN {vcur[u]} ELSE {}
  <2>1. /\ vpc'[u] = "idle" /\ vheld'[u] = {} /\ sent' = sent
        /\ kept'[p] = kept[p] - One(p \in {u} \X lost)
    BY <1>8 DEF TypeOK, VerifierAborts, VerifierLeave, Forget
  <2>2. p \in {u} \X lost <=> q = u /\ (i \in vheld[u] \/ (vpc[u] = "posted" /\ vcur[u] = i))
    BY <1>3
  <2> HIDE DEF lost
  <2>3. QED
    BY <1>2, <1>3, <2>1, <2>2 DEF InVerifier, One
<1>9. QED
  BY <1>4, <1>5, <1>6, <1>7, <1>8 DEF VerifierStep

\* Every step keeps the balance.
LEMMA NextBalance ==
    ASSUME TypeOK, Shape, Balanced, [Next]_vars
    PROVE  Balanced'
<1>1. ASSUME NEW t \in Tasks, NEW R \in SUBSET Subs, Start(t, R)
      PROVE  Balanced'
  BY <1>1 DEF Start, Balanced, InBatch, InVerifier, sessionVars, verifierVars, frontVars
<1>2. ASSUME NEW t \in Tasks, Finish(t) \/ Crash(t)
      PROVE  Balanced'
  BY <1>2, LeaveBalance DEF Finish, Crash
<1>3. CASE UNCHANGED vars
  BY <1>3 DEF Balanced, InBatch, InVerifier, vars, taskVars, coVars, sessionVars, verifierVars,
              frontVars
<1>4. QED
  BY <1>1, <1>2, <1>3, CoBalance, MessageBalance, VerifierBalanced DEF Next, Work, TaskStep

\* Every step keeps the domain of the counts.
LEMMA CountsDomain ==
    ASSUME TypeOK, [Next]_vars
    PROVE  kept' = [p \in Pairs |-> kept'[p]]
<1>1. ASSUME NEW p, NEW late, Accepted(p, late)
      PROVE  kept' = [q \in Pairs |-> kept'[q]]
  BY <1>1 DEF TypeOK, Accepted
<1>2. CASE kept' = kept
  BY <1>2 DEF TypeOK
<1>3. ASSUME NEW S, Forget(S)
      PROVE  kept' = [p \in Pairs |-> kept'[p]]
  BY <1>3 DEF Forget
<1>4. ASSUME NEW t \in Tasks, NEW u \in Subs, CoStep(t, u)
      PROVE  kept' = [p \in Pairs |-> kept'[p]]
  BY <1>1, <1>2, <1>3, <1>4
     DEF CoStep, Read, ReadFails, Assess, ProviderLimit, Post, PostFails, Record,
         RecordCollides, RecordConflicts, RecordFails, frontVars
<1>5. ASSUME NEW u \in Subs, VerifierStep(u) \/ \E missed \in Reports : VerifierStart(u, missed)
      PROVE  kept' = [p \in Pairs |-> kept'[p]]
  BY <1>1, <1>2, <1>3, <1>5
     DEF VerifierStep, VerifierStart, VerifierCheck, VerifierPost, VerifierPostFails,
         VerifierFlush, VerifierCommit, VerifierAborts, frontVars
<1>6. ASSUME NEW t \in Tasks, Finish(t) \/ Crash(t)
      PROVE  kept' = [p \in Pairs |-> kept'[p]]
  BY <1>6 DEF Finish, Crash, Leave
<1>7. QED
  BY <1>2, <1>4, <1>5, <1>6
     DEF Next, Work, TaskStep, Start, Enqueue, Message, vars, frontVars

-----------------------------------------------------------------------------
(* The batch tasks and the verifier: repeats.                              *)

\* An accepted notification that nothing was under way for, of a pair that was
\* not on record, is the first that counts.
LEMMA FirstCounts ==
    ASSUME TypeOK, Balanced, RepeatHasReason, NEW p \in Pairs, NEW late,
           Accepted(p, late), ~late => p \notin sent
    PROVE  RepeatHasReason'
<1>1. kept' = [kept EXCEPT ![p] = @ + 1]
  BY DEF Accepted
<1>2. CASE late \/ UnderWay(p)
  <2>1. raced' = [raced EXCEPT ![p] = @ + 1]
    BY <1>2 DEF Accepted
  <2>2. QED
    BY <1>1, <2>1 DEF TypeOK, RepeatHasReason
<1>3. CASE ~(late \/ UnderWay(p))
  <2>1. raced' = raced
    BY <1>3 DEF Accepted
  <2>2. InVerifier(p) = 0 /\ \A t \in Tasks : InBatch(t, p) = 0
    BY <1>3 DEF UnderWay, InVerifier, InBatch, One
  <2>3. One(p \in sent) = 0
    BY <1>3 DEF One
  <2>4. kept[p] = 0
    BY <2>2, <2>3 DEF Balanced
  <2>5. QED
    BY <1>1, <2>1, <2>4 DEF TypeOK, RepeatHasReason
<1>4. QED
  BY <1>2, <1>3

\* A step that accepts nothing repeats nothing.
LEMMA FewerCount ==
    ASSUME TypeOK, RepeatHasReason, raced' = raced,
           \A p \in Pairs : kept'[p] \in Nat /\ kept'[p] <= kept[p]
    PROVE  RepeatHasReason'
<1> SUFFICES ASSUME NEW p \in Pairs
             PROVE  kept'[p] <= 1 + raced[p]
  BY DEF RepeatHasReason
<1>1. kept[p] \in Nat /\ raced[p] \in Nat /\ kept[p] <= 1 + raced[p]
  BY DEF TypeOK, RepeatHasReason
<1>2. QED
  BY <1>1

\* Every step repeats a notification for a reason only.
LEMMA NextRepeats ==
    ASSUME TypeOK, Shape, Balanced, RepeatHasReason, [Next]_vars,
           \A p \in Pairs : kept'[p] \in Nat
    PROVE  RepeatHasReason'
<1>1. ASSUME raced' = raced, kept' = kept \/ \E S : Forget(S)
      PROVE  RepeatHasReason'
  <2>1. ASSUME NEW p \in Pairs
        PROVE  kept'[p] <= kept[p]
    <3>1. kept[p] \in Nat
      BY DEF TypeOK
    <3>2. QED
      BY <1>1, <3>1 DEF Forget, One
  <2>2. QED
    BY <1>1, <2>1, FewerCount
<1>2. ASSUME NEW t \in Tasks, NEW p, Leave(t, p)
      PROVE  RepeatHasReason'
  <2>1. kept' = [q \in Pairs |-> kept[q] - One(q \in added[t]) - One(cur[t][q[1]] = q[2])]
    BY <1>2 DEF Leave
  <2>2. ASSUME NEW q \in Pairs
        PROVE  kept'[q] <= kept[q]
    <3>1. kept[q] \in Nat
      BY DEF TypeOK
    <3>2. QED
      BY <2>1, <3>1 DEF One
  <2>3. QED
    BY <1>2, <2>2, FewerCount DEF Leave
<1>3. ASSUME NEW t \in Tasks, NEW u \in Subs, RecordConflicts(t, u)
      PROVE  RepeatHasReason'
  <2>1. kept' = [q \in Pairs |-> kept[q] - One(q \in added[t]) - One(q = <<u, cur[t][u]>>)]
    BY <1>3 DEF RecordConflicts
  <2>2. ASSUME NEW q \in Pairs
        PROVE  kept'[q] <= kept[q]
    <3>1. kept[q] \in Nat
      BY DEF TypeOK
    <3>2. QED
      BY <2>1, <3>1 DEF One
  <2>3. QED
    BY <1>3, <2>2, FewerCount DEF RecordConflicts
<1>4. ASSUME NEW t \in Tasks, NEW u \in Subs, NEW i \in Items, Post(t, u, i)
      PROVE  RepeatHasReason'
  <2>1. /\ Accepted(<<u, i>>, i \in Recorded(u) \ known[t][u])
        /\ todo[t][u][i] > 0
    BY <1>4 DEF Post
  <2>2. i \notin known[t][u]
    BY <2>1 DEF Shape, CoroutinesOK
  <2>3. <<u, i>> \in sent => i \in Recorded(u) \ known[t][u]
    BY <2>2 DEF Recorded
  <2>4. QED
    BY <2>1, <2>3, PairParts, FirstCounts
<1>5. ASSUME NEW u \in Subs, VerifierPost(u)
      PROVE  RepeatHasReason'
  <2>1. /\ Accepted(<<u, vcur[u]>>, vcur[u] \in Recorded(u))
        /\ vcur[u] \in Items
    BY <1>5 DEF VerifierPost, Shape, HeldOK
  <2>2. <<u, vcur[u]>> \in sent => vcur[u] \in Recorded(u)
    BY <2>1 DEF Recorded
  <2>3. QED
    BY <2>1, <2>2, PairParts, FirstCounts
<1>6. ASSUME NEW t \in Tasks, NEW u \in Subs, CoStep(t, u)
      PROVE  RepeatHasReason'
  <2>1. CASE RecordFails(t, u)
    BY <1>1, <2>1 DEF RecordFails
  <2>2. CASE \/ Read(t, u) \/ ReadFails(t, u) \/ ProviderLimit(t, u) \/ RecordCollides(t, u)
             \/ \E listed \in Listings : Assess(t, u, listed)
             \/ \E i \in Items : PostFails(t, u, i)
             \/ \E R \in SUBSET added[t] : Record(t, u, R)
    BY <1>1, <2>2 DEF Read, ReadFails, ProviderLimit, RecordCollides, Assess, PostFails, Record,
                      frontVars
  <2>3. QED
    BY <1>3, <1>4, <1>6, <2>1, <2>2 DEF CoStep
<1>7. ASSUME NEW u \in Subs, VerifierStep(u) \/ \E missed \in Reports : VerifierStart(u, missed)
      PROVE  RepeatHasReason'
  <2>1. CASE VerifierAborts(u)
    BY <1>1, <2>1 DEF VerifierAborts, VerifierLeave
  <2>2. CASE \/ \E missed \in Reports : VerifierStart(u, missed)
             \/ \E i \in Items : VerifierCheck(u, i)
             \/ VerifierPostFails(u) \/ VerifierFlush(u) \/ VerifierCommit(u)
    BY <1>1, <2>2 DEF VerifierStart, VerifierCheck, VerifierPostFails, VerifierFlush,
                      VerifierCommit, VerifierLeave, frontVars
  <2>3. QED
    BY <1>5, <1>7, <2>1, <2>2 DEF VerifierStep
<1>8. ASSUME \/ \E t \in Tasks, S \in SUBSET Items : Enqueue(t, S)
             \/ \E t \in Tasks, R \in SUBSET Subs : Start(t, R)
             \/ UNCHANGED vars
      PROVE  RepeatHasReason'
  BY <1>1, <1>8 DEF Enqueue, Message, Start, vars, frontVars
<1>9. QED
  BY <1>2, <1>6, <1>7, <1>8 DEF Next, Work, TaskStep, Finish, Crash

-----------------------------------------------------------------------------
(* The batch tasks and the verifier: theorems.                             *)

\* The invariant holds initially: no message is there and nothing is notified.
LEMMA InitEvent == Init => EventInv
<1> SUFFICES ASSUME Init
             PROVE  EventInv
  OBVIOUS
<1>1. TypeOK
  BY NothingTyped, ItemAssumption, EventAssumption DEF Init, TypeOK, Pairs, Ended
<1>2. MessagesOK /\ CoroutinesOK /\ HeldOK
  BY NothingTyped DEF Init, MessagesOK, CoroutinesOK, HeldOK
<1>3. Balanced /\ RepeatHasReason
  BY PairParts DEF Init, Balanced, RepeatHasReason, InVerifier, One
<1>4. QED
  BY <1>1, <1>2, <1>3 DEF EventInv

\* Every step keeps the invariant.
LEMMA NextEvent == EventInv /\ [Next]_vars => EventInv'
<1> SUFFICES ASSUME EventInv, [Next]_vars
             PROVE  EventInv'
  OBVIOUS
<1>1. TypeOK /\ Shape /\ Balanced /\ RepeatHasReason
  BY DEF EventInv, Shape
<1>2. Shape'
  BY <1>1, NextShape
<1>3. Balanced'
  BY <1>1, NextBalance
<1>4. \A p \in Pairs : kept'[p] \in Nat
  BY <1>3 DEF Balanced, InBatch, InVerifier, One
<1>5. kept' \in [Pairs -> Nat]
  BY <1>1, <1>4, CountsDomain
<1>6. TypeOK'
  BY <1>1, <1>5, NextTyped DEF Shape
<1>7. RepeatHasReason'
  BY <1>1, <1>4, NextRepeats
<1>8. QED
  BY <1>2, <1>3, <1>6, <1>7 DEF EventInv, Shape

\* The inductive invariant of the batch tasks and the verifier: every
\* notification that can still be recorded is on record or held by the one task
\* or the verifier that made it.
THEOREM EventInvariant == Spec => []EventInv
  BY InitEvent, NextEvent, PTL DEF Spec

\* Type correctness of the batch tasks; in particular no notification is given
\* up more often than it was accepted.
THEOREM EventTyped == Spec => []TypeOK
  BY EventInvariant, PTL DEF EventInv

\* However coroutines, commits, retries and the verifier interleave, and
\* whatever the assessor lists twice, a subscriber is notified of an item again
\* only if an earlier notification was not recorded or the two met.
THEOREM EventRepeatHasReason == Spec => []RepeatHasReason
  BY EventInvariant, PTL DEF EventInv

\* A pair on record was notified, whoever's commit flushed its row.
THEOREM EventRecordedReceived == Spec => []RecordedWasReceived
<1>1. EventInv => RecordedWasReceived
  <2> SUFFICES ASSUME EventInv, NEW p \in Pairs, p \in sent
               PROVE  kept[p] > 0
    BY DEF RecordedWasReceived
  <2>1. One(p \in sent) = 1 /\ InVerifier(p) \in Nat /\ \A t \in Tasks : InBatch(t, p) \in Nat
    BY DEF One, InVerifier, InBatch
  <2>2. QED
    BY <2>1 DEF EventInv, Balanced
<1>2. QED
  BY <1>1, EventInvariant, PTL

-----------------------------------------------------------------------------
(* The polls and the batch tasks together.                                 *)

FlowInv == PollInv /\ EventInv /\ MessageIsStored /\ MessageFromPoll

\* What a poll does by itself sends nothing and takes no stored item away.
LEMMA PollWorkKeeps == PollWork => batches' = batches /\ stored \subseteq stored'
  BY DEF PollWork, Watch, PollStep, PollStart, SourceStep, Fetch, NothingFetched, Embedded,
         SourceLimit, LookUp, Insert, SourceFails, Commit, Retry, SendFails, PollCrash,
         Unsent, PollLeave, outVars

\* The batch tasks and verifiers leave the messages as they were sent.
LEMMA WorkKeepsMessages == Work => batch' = batch
<1> SUFFICES ASSUME Work
             PROVE  batch' = batch
  OBVIOUS
<1>1. ASSUME NEW t \in Tasks, NEW u \in Subs, CoStep(t, u)
      PROVE  batch' = batch
  BY <1>1 DEF CoStep, Read, ReadFails, Assess, ProviderLimit, Post, PostFails, Record,
              RecordCollides, RecordConflicts, RecordFails, Dealt, taskVars
<1>2. ASSUME NEW u \in Subs, VerifierStep(u) \/ \E missed \in Reports : VerifierStart(u, missed)
      PROVE  batch' = batch
  BY <1>2 DEF VerifierStep, VerifierStart, VerifierCheck, VerifierPost, VerifierPostFails,
              VerifierFlush, VerifierCommit, VerifierAborts, VerifierLeave, taskVars
<1>3. ASSUME NEW t \in Tasks, TaskStep(t) \/ Crash(t)
      PROVE  batch' = batch
  BY <1>1, <1>3 DEF TaskStep, Start, Finish, Crash, Leave
<1>4. QED
  BY <1>2, <1>3 DEF Work

\* Every step of the whole is a step of the polls, or none.
LEMMA FlowStepPoll == [FlowNext]_flowVars => [PollNext]_pollVars
  BY DEF FlowNext, flowVars, PollWork, SendBatch, BatchWork, PollNext

\* ... and a step of the batch tasks and verifiers, or none: what a poll sends
\* was in no message, as EventBatch takes for granted.
LEMMA FlowStepBatch ==
    ASSUME FlowInv, [FlowNext]_flowVars
    PROVE  [Next]_vars
<1>1. ASSUME NEW p \in Polls, SendBatch(p)
      PROVE  [Next]_vars
  <2>1. ASSUME NEW t \in Tasks, Message(t, found[p])
        PROVE  Next
    <3>1. found[p] \in SUBSET Items
      BY DEF FlowInv, PollInv, PollTypeOK
    <3>2. \A i \in found[p] : batches[i] = 0
      BY <3>1 DEF FlowInv, PollInv, BatchedOnce
    <3>3. \A w \in Tasks, i \in Items : i \in batch[w] => batches[i] > 0
      BY DEF FlowInv, MessageFromPoll
    <3>4. \A w \in Tasks : batch[w] \cap found[p] = {}
      BY <3>1, <3>2, <3>3
    <3>5. QED
      BY <2>1, <3>1, <3>4 DEF Next, Enqueue
  <2>2. QED
    BY <1>1, <2>1 DEF SendBatch
<1>2. QED
  BY <1>1 DEF FlowNext, flowVars, BatchWork, Next

\* Every step of the whole keeps the messages what the polls have sent.
LEMMA FlowStepMessages ==
    ASSUME FlowInv, [FlowNext]_flowVars
    PROVE  MessageIsStored' /\ MessageFromPoll'
<1>1. ASSUME batch' = batch, batches' = batches, stored \subseteq stored'
      PROVE  MessageIsStored' /\ MessageFromPoll'
  BY <1>1 DEF FlowInv, MessageIsStored, MessageFromPoll
<1>2. ASSUME NEW p \in Polls, SendBatch(p)
      PROVE  MessageIsStored' /\ MessageFromPoll'
  <2>1. stored' = stored /\ \A i \in Items :
           batches'[i] = batches[i] + IF i \in found[p] THEN 1 ELSE 0
    BY <1>2 DEF SendBatch, Send, PollLeave
  <2>2. \A i \in Items : batches[i] \in Nat
    BY DEF FlowInv, PollInv, PollTypeOK
  <2>3. \A w \in Tasks : batch'[w] = batch[w] \/ batch'[w] = found[p]
    BY <1>2 DEF SendBatch, Message, FlowInv, EventInv, TypeOK, vars, taskVars
  <2>4. found[p] \subseteq stored
    BY DEF FlowInv, PollInv, FoundIsStored
  <2>5. MessageIsStored'
    BY <2>1, <2>3, <2>4 DEF FlowInv, MessageIsStored
  <2>6. ASSUME NEW w \in Tasks, NEW i \in Items, i \in batch'[w]
        PROVE  batches'[i] > 0
    <3>1. batches[i] > 0 \/ i \in found[p]
      BY <2>3, <2>6 DEF FlowInv, MessageFromPoll
    <3>2. QED
      BY <2>1, <2>2, <3>1
  <2>7. QED
    BY <2>5, <2>6 DEF MessageFromPoll
<1>3. QED
  BY <1>1, <1>2, PollWorkKeeps, WorkKeepsMessages
     DEF FlowNext, flowVars, BatchWork, vars, taskVars, pollVars, outVars

\* The whole does with the polls what EventPoll says.
THEOREM FlowImplementsPoll == FlowSpec => PollSpec
  BY FlowStepPoll, PTL DEF FlowSpec, FlowInit, PollSpec

\* The inductive invariant of the whole.
THEOREM FlowInvariant == FlowSpec => []FlowInv
<1>1. FlowInit => MessageIsStored /\ MessageFromPoll
  BY DEF FlowInit, Init, MessageIsStored, MessageFromPoll
<1>2. FlowInit => FlowInv
  BY <1>1, InitEvent, PollInitTyped, PollInitSafe DEF FlowInit, FlowInv, PollInv, PollSafe
<1>3. FlowInv /\ [FlowNext]_flowVars => FlowInv'
  <2> SUFFICES ASSUME FlowInv, [FlowNext]_flowVars
               PROVE  FlowInv'
    OBVIOUS
  <2>1. PollInv'
    BY FlowStepPoll, PollNextTyped, PollNextSafe DEF FlowInv, PollInv, PollSafe
  <2>2. EventInv'
    BY FlowStepBatch, NextEvent DEF FlowInv
  <2>3. QED
    BY <2>1, <2>2, FlowStepMessages DEF FlowInv
<1>4. QED
  BY <1>2, <1>3, PTL DEF FlowSpec

\* The whole does with the batch tasks and verifiers what EventBatch says: its
\* assumption that no two messages have an item in common is met by the polls.
THEOREM FlowImplementsBatch == FlowSpec => Spec
<1>1. FlowInv /\ [FlowNext]_flowVars => [Next]_vars
  BY FlowStepBatch
<1>2. QED
  BY <1>1, FlowInvariant, PTL DEF FlowSpec, FlowInit, Spec

\* A batch task finds the rows of all the items it is sent.
THEOREM FlowMessagesStored == FlowSpec => []MessageIsStored
<1>1. FlowInv => MessageIsStored
  BY DEF FlowInv
<1>2. QED
  BY <1>1, FlowInvariant, PTL

\* No item is in the messages of two batch tasks.
THEOREM FlowMessagesDisjoint == FlowSpec => []MessagesDisjoint
<1>1. FlowInv => MessagesDisjoint
  BY DEF FlowInv, EventInv, MessagesOK, MessagesDisjoint
<1>2. QED
  BY <1>1, FlowInvariant, PTL

\* From poll to subscriber, an item is notified again only for a reason.
THEOREM FlowRepeatHasReason == FlowSpec => []RepeatHasReason
  BY FlowImplementsBatch, EventRepeatHasReason, PTL

=============================================================================
