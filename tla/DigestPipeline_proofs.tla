------------------------ MODULE DigestPipeline_proofs ------------------------
(***************************************************************************)
(* Theorems about DigestPipeline, for every set of sources, every finite   *)
(* set of items, any number of revisions and any window of the night.      *)
(***************************************************************************)
EXTENDS DigestPipeline, Integers, FiniteSetTheorems, SequenceTheorems, WellFoundedInduction, TLAPS

----------------------------------------------------------------------------
(* Numbers and lists.                                                      *)

\* A bounded set of numbers has a greatest one.
LEMMA GreatestExists ==
    ASSUME NEW S \in SUBSET Nat, S # {}, NEW b \in Nat, \A n \in S : n <= b
    PROVE  \E n \in S : \A m \in S : m <= n
<1> DEFINE T == {x \in Nat : \A n \in S : n <= x}
<1>1. T \subseteq Nat /\ T # {}
  OBVIOUS
<1>2. PICK x \in T : \A y \in T : ~ (<<y, x>> \in OpToRel(<, Nat))
  BY <1>1, WFMin, NatLessThanWellFounded
<1>3. x \in Nat /\ \A n \in S : n <= x
  BY <1>2
<1>4. \A y \in Nat : (\A n \in S : n <= y) => ~(y < x)
  BY <1>2, <1>3 DEF OpToRel
<1> HIDE DEF T
<1>5. x \in S
  <2>1. CASE x = 0
    <3>1. PICK n \in S : TRUE
      OBVIOUS
    <3>2. n \in Nat /\ n <= 0
      BY <1>3, <2>1
    <3>3. n = x
      BY <2>1, <3>2
    <3>4. QED
      BY <3>3
  <2>2. CASE x # 0
    <3>1. x - 1 \in Nat /\ x - 1 < x
      BY <1>3, <2>2
    <3>2. PICK n \in S : ~(n <= x - 1)
      BY <1>4, <3>1
    <3>3. n = x
      BY <1>3, <3>1, <3>2
    <3>4. QED
      BY <3>3
  <2>3. QED
    BY <2>1, <2>2
<1>6. QED
  BY <1>3, <1>5

\* The number that is recomputed for a source, from rows of any length, is
\* one of those before the first row of the source's, the greatest.
LEMMA RecomputedGreatest ==
    ASSUME nightRows \in Seq(Items), NEW s \in Sources
    PROVE  /\ Recomputed(s) \in Nat
           /\ \A n \in Before(s) : n <= Recomputed(s)
<1>1. Len(nightRows) \in Nat
  BY LenProperties
<1>2. Before(s) \in SUBSET Nat /\ \A n \in Before(s) : n <= Len(nightRows)
  BY <1>1 DEF Before
<1>3. CASE Before(s) = {}
  BY <1>3 DEF Recomputed, CountOf
<1>4. CASE Before(s) # {}
  <2>1. \E n \in Before(s) : \A m \in Before(s) : m <= n
    BY <1>1, <1>2, <1>4, GreatestExists
  <2>2. QED
    BY <1>2, <1>4, <2>1 DEF Recomputed, CountOf
<1>5. QED
  BY <1>3, <1>4

\* The rows of a digest are a list of its items, with at least one.
LEMMA OrdersTyped ==
    ASSUME NEW U \in SUBSET Items, NEW order \in Orders(U)
    PROVE  /\ order \in Seq(Items)
           /\ RangeOf(order) = U
           /\ U # {} => Len(order) >= 1
<1>1. IsFiniteSet(U) /\ Cardinality(U) \in Nat
  BY PipelineAssumption, FS_Subset, FS_CardinalityType
<1>2. order \in [1..Cardinality(U) -> U] /\ RangeOf(order) = U
  BY DEF Orders
<1>3. order \in Seq(Items)
  BY <1>1, <1>2, SeqDef
<1>4. Len(order) = Cardinality(U)
  BY <1>1, <1>2
<1>5. U # {} => Cardinality(U) # 0
  BY <1>1, FS_EmptySet
<1>6. QED
  BY <1>1, <1>2, <1>3, <1>4, <1>5

----------------------------------------------------------------------------
(* Drafts.                                                                 *)

\* A draft that is judged has candidates and made-up ids, one that is to be
\* delivered candidates only.
DraftKnown ==
    /\ pc \in {"judging", "drafted"} => draft \subseteq cand \cup {Phantom}
    /\ pc \in {"reflecting", "marking", "flushing", "delivering"} =>
           draft \subseteq cand /\ draft # {}

\* A draft may be refused once more only while the writer or the judge is at
\* work; a refusal that is known later is of the last draft.
RefusedLast ==
    /\ pc \in {"writing", "judging"} => revision < MaxRevisions
    /\ pc = "idle" => revision = 0
    /\ quality = "REVISE" /\ pc \notin {"idle", "writing", "judging"} => revision = MaxRevisions
    /\ dropped \cap named = {}

\* Every step keeps what is known of the drafts.
LEMMA NextDraft == TypeOK /\ DraftKnown /\ [Next]_vars => DraftKnown'
<1> SUFFICES ASSUME TypeOK, DraftKnown, [Next]_vars
             PROVE  DraftKnown'
  OBVIOUS
<1>1. ASSUME UNCHANGED <<pc, draft, cand>>
      PROVE  DraftKnown'
  BY <1>1 DEF DraftKnown
<1>2. ASSUME pc' = "idle"
      PROVE  DraftKnown'
  BY <1>2 DEF DraftKnown
<1>3. CASE Digest
  <2>1. CASE \E C \in SUBSET Items : Fetch(C)
    BY <2>1 DEF Fetch, DraftKnown
  <2>2. CASE \E U \in SUBSET (cand \cup {Phantom}) : Write(U)
    BY <2>2 DEF Write, DraftKnown
  <2>3. CASE Refuse \/ Accept \/ JudgeFails
    BY <2>3 DEF Refuse, Accept, JudgeFails, DraftKnown
  <2>4. CASE \E c \in BOOLEAN : Check(c)
    <3>1. CASE Real(draft) = {}
      BY <1>2, <2>4, <3>1 DEF Check, Rollback, Close
    <3>2. CASE Real(draft) # {}
      BY <2>4, <3>2 DEF Check, Real, DraftKnown
    <3>3. QED
      BY <3>1, <3>2
  <2>5. CASE ReflectorEnds \/ Mark \/ Flush
    BY <2>5 DEF ReflectorEnds, Mark, Flush, draftVars, DraftKnown
  <2>6. CASE \E s \in Sources : RemoveSource(s)
    BY <1>1, <2>6 DEF RemoveSource, draftVars
  <2>7. CASE NothingWritten \/ Fail \/ \E order \in Orders(draft) : Deliver(order)
    BY <1>2, <2>7 DEF NothingWritten, Fail, Deliver, Rollback, Close
  <2>8. QED
    BY <1>3, <2>1, <2>2, <2>3, <2>4, <2>5, <2>6, <2>7 DEF Digest
<1>4. CASE \/ \E s \in Sources, byUser \in BOOLEAN : Attach(s, byUser)
           \/ \E s \in Sources : Detach(s)
           \/ NightRead \/ NightCommit \/ NightFails
  BY <1>1, <1>4 DEF Attach, Detach, NightRead, NightCommit, NightFails, draftVars
<1>5. CASE UNCHANGED vars
  BY <1>1, <1>5 DEF vars, draftVars
<1>6. QED
  BY <1>3, <1>4, <1>5 DEF Next

\* Every step keeps what the reflector is told, and what it spares.
LEMMA NextRefused == TypeOK /\ RefusedLast /\ [Next]_vars => RefusedLast'
<1> SUFFICES ASSUME TypeOK, RefusedLast, [Next]_vars
             PROVE  RefusedLast'
  OBVIOUS
<1>0. revision \in 0..MaxRevisions /\ MaxRevisions \in Nat \ {0}
  BY PipelineAssumption DEF TypeOK
<1>1. ASSUME UNCHANGED <<pc, revision, quality, dropped>>, dropped \cap named' = {}
      PROVE  RefusedLast'
  BY <1>1 DEF RefusedLast
<1>2. ASSUME pc' = "idle", revision' = 0, dropped' = {}
      PROVE  RefusedLast'
  BY <1>2 DEF RefusedLast
<1>3. CASE Digest
  <2>1. CASE \E C \in SUBSET Items : Fetch(C)
    BY <1>0, <2>1 DEF Fetch, RefusedLast, linkVars
  <2>2. CASE \E U \in SUBSET (cand \cup {Phantom}) : Write(U)
    BY <2>2 DEF Write, RefusedLast, linkVars
  <2>3. CASE Refuse
    BY <1>0, <2>3 DEF Refuse, OutOfRevisions, RefusedLast, linkVars
  <2>4. CASE Accept \/ JudgeFails
    BY <2>4 DEF Accept, JudgeFails, Unjudged, RefusedLast, linkVars
  <2>5. CASE \E c \in BOOLEAN : Check(c)
    <3>1. CASE Real(draft) = {}
      BY <1>2, <2>5, <3>1 DEF Check, Rollback, Close
    <3>2. CASE Real(draft) # {}
      BY <2>5, <3>2 DEF Check, RefusedLast, linkVars
    <3>3. QED
      BY <3>1, <3>2
  <2>6. CASE ReflectorEnds \/ Mark \/ Flush
    BY <2>6 DEF ReflectorEnds, Mark, Flush, draftVars, linkVars, RefusedLast
  <2>7. CASE \E s \in Sources : RemoveSource(s)
    BY <2>7 DEF RemoveSource, Removable, draftVars, linkVars, RefusedLast
  <2>8. CASE NothingWritten \/ Fail \/ \E order \in Orders(draft) : Deliver(order)
    BY <1>2, <2>8 DEF NothingWritten, Fail, Deliver, Rollback, Close
  <2>9. QED
    BY <1>3, <2>1, <2>2, <2>3, <2>4, <2>5, <2>6, <2>7, <2>8 DEF Digest
<1>4. ASSUME NEW s \in Sources, NEW byUser \in BOOLEAN, Attach(s, byUser)
      PROVE  RefusedLast'
  <2>1. s \notin dropped /\ named' \subseteq named \cup {s}
    BY <1>4 DEF Attach, TypeOK
  <2>2. QED
    BY <1>1, <1>4, <2>1 DEF Attach, draftVars, RefusedLast
<1>5. CASE \E s \in Sources : Detach(s)
  BY <1>1, <1>5 DEF Detach, draftVars, RefusedLast
<1>6. CASE NightRead \/ NightCommit \/ NightFails
  BY <1>1, <1>6 DEF NightRead, NightCommit, NightFails, draftVars, linkVars, RefusedLast
<1>7. CASE UNCHANGED vars
  BY <1>1, <1>7 DEF vars, draftVars, linkVars, RefusedLast
<1>8. QED
  BY <1>3, <1>4, <1>5, <1>6, <1>7 DEF Next

----------------------------------------------------------------------------
(* Types.                                                                  *)

\* The end of a digest is typed.
LEMMA CloseTyped ==
    ASSUME Close
    PROVE  /\ pc' \in Phases /\ cand' \subseteq Items
           /\ revision' \in 0..MaxRevisions
           /\ draft' \subseteq Items \cup {Phantom}
           /\ quality' \in {"none", "PASS", "REVISE"}
           /\ dropped' = {} /\ marked' = {}
           /\ base' \in [Sources -> Nat]
<1>1. 0 \in 0..MaxRevisions /\ 0 \in Nat
  BY PipelineAssumption
<1>2. QED
  BY <1>1 DEF Close, Phases

\* So is that of a night.
LEMMA NightEndsTyped ==
    ASSUME NightEnds
    PROVE  /\ night' \in {"idle", "open"} /\ nightRows' \in Seq(Items)
           /\ nightBase' \in [Sources -> Nat]
           /\ nightLinks' = {} /\ nightLost' \in BOOLEAN
<1>1. <<>> \in Seq(Items)
  OBVIOUS
<1>2. QED
  BY <1>1 DEF NightEnds

\* A step of the digest's that changes the draft and the phase only keeps the
\* types, if it keeps theirs.
LEMMA DraftTyped ==
    ASSUME TypeOK, UNCHANGED <<linkVars, streak, rows, nightVars, since, latest, raced>>,
           pc' \in Phases, cand' \subseteq Items, revision' \in 0..MaxRevisions,
           draft' \subseteq Items \cup {Phantom}, quality' \in {"none", "PASS", "REVISE"},
           dropped' \subseteq links, base' \in [Sources -> Nat],
           marked' \subseteq links
    PROVE  TypeOK'
  BY DEF TypeOK, linkVars, nightVars

\* A transaction that is rolled back.
LEMMA RollbackTyped == TypeOK /\ Rollback => TypeOK'
<1> SUFFICES ASSUME TypeOK, Rollback
             PROVE  TypeOK'
  OBVIOUS
<1>1. Close
  BY DEF Rollback
<1>2. {} \subseteq links
  OBVIOUS
<1>3. UNCHANGED <<linkVars, streak, rows, nightVars, since, latest, raced>>
  BY DEF Rollback
<1>4. QED
  BY <1>1, <1>2, <1>3, CloseTyped, DraftTyped

\* A delivery keeps the types.
LEMMA DeliverTyped ==
    ASSUME TypeOK, DraftKnown, NEW order \in Orders(draft), Deliver(order)
    PROVE  TypeOK'
<1>1. draft \in SUBSET Items
  BY DEF Deliver, DraftKnown, TypeOK
<1>2. order \in Seq(Items)
  BY <1>1, OrdersTyped
<1>3. rows' \in Seq(Items)
  BY <1>2, ConcatProperties DEF Deliver, TypeOK
<1>4. Contributing \subseteq Sources
  BY <1>1, PipelineAssumption DEF Contributing
<1>5. streak' \in [Sources -> Nat]
  BY DEF Deliver, TypeOK, Moved
<1>6. since' \in [Sources -> Nat]
  BY DEF Deliver, TypeOK
<1>7. /\ links' = links \ dropped /\ named' = named \ dropped
      /\ nightLinks' = nightLinks \ dropped
      /\ UNCHANGED <<night, nightRows, nightBase>>
  BY DEF Deliver, NightLoses
<1>8. nightLost' \in BOOLEAN
  BY DEF Deliver, NightLoses, TypeOK
<1>9. latest' \subseteq Sources /\ raced' \subseteq Sources
  BY <1>4 DEF Deliver, TypeOK
<1>10. Close
  BY DEF Deliver
<1>11. QED
  BY <1>3, <1>5, <1>6, <1>7, <1>8, <1>9, <1>10, CloseTyped DEF TypeOK

\* Every step keeps the types.
LEMMA NextTyped == TypeOK /\ DraftKnown /\ RefusedLast /\ [Next]_vars => TypeOK'
<1> SUFFICES ASSUME TypeOK, DraftKnown, RefusedLast, [Next]_vars
             PROVE  TypeOK'
  OBVIOUS
<1>0. revision \in 0..MaxRevisions /\ MaxRevisions \in Nat \ {0}
  BY PipelineAssumption DEF TypeOK
<1>1. CASE Digest
  <2>1. CASE \E C \in SUBSET Items : Fetch(C)
    <3>1. \E C \in SUBSET Items : Fetch(C)
      BY <2>1
    <3>2. pc' \in Phases /\ cand' \subseteq Items
      BY <3>1 DEF Fetch, Phases
    <3>3. UNCHANGED <<linkVars, streak, rows, revision, draft, quality, dropped, base,
                      marked, nightVars, since, latest, raced>>
      BY <3>1 DEF Fetch
    <3>4. QED
      BY <3>2, <3>3, DraftTyped DEF TypeOK
  <2>2. CASE \E U \in SUBSET (cand \cup {Phantom}) : Write(U)
    <3>1. pc' \in Phases /\ draft' \subseteq Items \cup {Phantom}
      BY <2>2 DEF Write, Phases, TypeOK
    <3>2. UNCHANGED <<linkVars, streak, rows, cand, revision, quality, dropped, base,
                      marked, nightVars, since, latest, raced>>
      BY <2>2 DEF Write
    <3>3. QED
      BY <3>1, <3>2, DraftTyped DEF TypeOK
  <2>3. CASE Refuse
    <3>1. revision < MaxRevisions
      BY <2>3 DEF Refuse, RefusedLast
    <3>2. revision' \in 0..MaxRevisions
      BY <1>0, <2>3, <3>1 DEF Refuse
    <3>3. /\ pc' \in Phases /\ quality' \in {"none", "PASS", "REVISE"}
          /\ UNCHANGED <<linkVars, streak, rows, cand, draft, dropped, base,
                         marked, nightVars, since, latest, raced>>
      BY <2>3 DEF Refuse, Phases
    <3>4. QED
      BY <3>2, <3>3, DraftTyped DEF TypeOK
  <2>4. CASE Accept \/ JudgeFails
    <3>1. /\ pc' \in Phases /\ quality' \in {"none", "PASS", "REVISE"}
          /\ UNCHANGED <<linkVars, streak, rows, cand, revision, draft, dropped, base,
                         marked, nightVars, since, latest, raced>>
      BY <2>4 DEF Accept, JudgeFails, Unjudged, Phases
    <3>2. QED
      BY <3>1, DraftTyped DEF TypeOK
  <2>5. ASSUME NEW c \in BOOLEAN, Check(c)
        PROVE  TypeOK'
    <3>1. CASE Real(draft) = {}
      BY <2>5, <3>1, RollbackTyped DEF Check
    <3>2. CASE Real(draft) # {}
      <4>1. /\ pc' \in Phases /\ draft' \subseteq Items \cup {Phantom}
            /\ UNCHANGED <<linkVars, streak, rows, cand, revision, quality, dropped, base,
                           marked, nightVars, since, latest, raced>>
        BY <2>5, <3>2 DEF Check, Real, Phases, TypeOK
      <4>2. QED
        BY <4>1, DraftTyped DEF TypeOK
    <3>3. QED
      BY <3>1, <3>2
  <2>6. ASSUME NEW s \in Sources, RemoveSource(s)
        PROVE  TypeOK'
    <3>1. dropped' \subseteq links
      BY <2>6 DEF RemoveSource, Removable, TypeOK
    <3>2. UNCHANGED <<linkVars, streak, rows, pc, draftVars, base, marked, nightVars,
                      since, latest, raced>>
      BY <2>6 DEF RemoveSource
    <3>3. QED
      BY <3>1, <3>2, DraftTyped DEF TypeOK, draftVars
  <2>7. CASE ReflectorEnds \/ Mark \/ Flush
    <3>1. /\ pc' \in Phases
          /\ base' \in [Sources -> Nat] /\ marked' \subseteq links
      BY <2>7 DEF ReflectorEnds, Mark, Flush, Phases, TypeOK
    <3>2. UNCHANGED <<linkVars, streak, rows, draftVars, dropped, nightVars, since, latest, raced>>
      BY <2>7 DEF ReflectorEnds, Mark, Flush
    <3>3. QED
      BY <3>1, <3>2, DraftTyped DEF TypeOK, draftVars
  <2>8. CASE NothingWritten \/ Fail
    BY <2>8, RollbackTyped DEF NothingWritten, Fail
  <2>9. CASE \E order \in Orders(draft) : Deliver(order)
    BY <2>9, DeliverTyped
  <2>10. QED
    BY <1>1, <2>1, <2>2, <2>3, <2>4, <2>5, <2>6, <2>7, <2>8, <2>9 DEF Digest
<1>2. ASSUME NEW s \in Sources, NEW byUser \in BOOLEAN, Attach(s, byUser)
      PROVE  TypeOK'
  BY <1>2 DEF TypeOK, Attach, draftVars, nightVars
<1>3. ASSUME NEW s \in Sources, Detach(s)
      PROVE  TypeOK'
  BY <1>3 DEF TypeOK, Detach, NightLoses, draftVars
<1>4. CASE NightRead
  BY <1>4 DEF TypeOK, NightRead, linkVars, draftVars
<1>5. CASE NightCommit
  <2>1. \A s \in Sources : Recomputed(s) \in Nat
    BY RecomputedGreatest DEF TypeOK
  <2>2. streak' \in [Sources -> Nat]
    BY <1>5, <2>1 DEF NightCommit, TypeOK
  <2>3. raced' \subseteq Sources
    BY <1>5 DEF NightCommit, TypeOK
  <2>4. NightEnds /\ UNCHANGED <<linkVars, rows, pc, draftVars, dropped, base, marked,
                                 since, latest>>
    BY <1>5 DEF NightCommit
  <2>5. QED
    BY <2>2, <2>3, <2>4, NightEndsTyped DEF TypeOK, linkVars, draftVars
<1>6. CASE NightFails
  <2>1. NightEnds /\ UNCHANGED <<linkVars, streak, rows, pc, draftVars, dropped, base,
                                 marked, since, latest, raced>>
    BY <1>6 DEF NightFails
  <2>2. QED
    BY <2>1, NightEndsTyped DEF TypeOK, linkVars, draftVars
<1>7. CASE UNCHANGED vars
  BY <1>7 DEF TypeOK, vars, linkVars, draftVars, nightVars
<1>8. QED
  BY <1>1, <1>2, <1>3, <1>4, <1>5, <1>6, <1>7 DEF Next

----------------------------------------------------------------------------
(* Streaks.                                                                *)

\* As many rows as digests were recorded since a link contributed are none of
\* its source's.
RowsCover ==
    \A s \in links :
        /\ since[s] <= Len(rows)
        /\ \A n \in 1..Len(rows) : n <= since[s] => SourceOf[rows[n]] # s

\* RowsCover of the links survives what leaves the rows alone and counts no
\* digest.
LEMMA CoverKept ==
    ASSUME TypeOK, RowsCover, UNCHANGED rows,
           \A s \in links' : s \in Sources /\ (since'[s] = 0 \/ (s \in links /\ since'[s] = since[s]))
    PROVE  RowsCover'
<1>1. Len(rows) \in Nat
  BY LenProperties DEF TypeOK
<1>2. QED
  BY <1>1 DEF RowsCover

\* It survives a delivery: its rows come first, and those of the sources that
\* have not contributed are none of them.
LEMMA CoverDelivered ==
    ASSUME TypeOK, DraftKnown, RowsCover, NEW order \in Orders(draft), Deliver(order)
    PROVE  RowsCover'
<1>1. draft \in SUBSET Items /\ draft # {}
  BY DEF Deliver, DraftKnown, TypeOK
<1>2. /\ order \in Seq(Items)
      /\ RangeOf(order) = draft
      /\ Len(order) >= 1
  BY <1>1, OrdersTyped
<1>3. rows \in Seq(Items) /\ Len(rows) \in Nat /\ Len(order) \in Nat
  BY <1>2, LenProperties DEF TypeOK
<1>4. /\ rows' = order \o rows
      /\ Len(rows') = Len(order) + Len(rows)
      /\ \A n \in 1..(Len(order) + Len(rows)) :
             rows'[n] = IF n <= Len(order) THEN order[n] ELSE rows[n - Len(order)]
  BY <1>2, <1>3, ConcatProperties DEF Deliver
<1>5. \A n \in 1..Len(order) : SourceOf[order[n]] \in Contributing
  <2>1. DOMAIN order = 1..Len(order)
    BY <1>2, LenProperties
  <2>2. QED
    BY <1>2, <2>1 DEF RangeOf, Contributing
<1>6. SUFFICES ASSUME NEW s \in links'
               PROVE  /\ since'[s] <= Len(rows')
                      /\ \A n \in 1..Len(rows') : n <= since'[s] => SourceOf[rows'[n]] # s
  BY DEF RowsCover
<1>7. s \in links /\ s \in Sources
  BY DEF Deliver, TypeOK
<1>8. CASE s \in Contributing
  <2>1. since'[s] = 0
    BY <1>7, <1>8 DEF Deliver
  <2>2. QED
    BY <1>3, <1>4, <2>1
<1>9. CASE s \notin Contributing
  <2>1. since[s] \in Nat /\ since'[s] \in {since[s], since[s] + 1}
    BY <1>7, <1>9 DEF Deliver, TypeOK
  <2>2. since[s] <= Len(rows)
    BY <1>7 DEF RowsCover
  <2>3. since'[s] <= Len(rows')
    BY <1>2, <1>3, <1>4, <2>1, <2>2
  <2>4. ASSUME NEW n \in 1..Len(rows'), n <= since'[s]
        PROVE  SourceOf[rows'[n]] # s
    <3>1. CASE n <= Len(order)
      <4>1. rows'[n] = order[n] /\ n \in 1..Len(order)
        BY <1>3, <1>4, <2>4, <3>1
      <4>2. QED
        BY <1>5, <1>9, <4>1
    <3>2. CASE n > Len(order)
      <4>1. rows'[n] = rows[n - Len(order)]
        BY <1>3, <1>4, <2>4, <3>2
      <4>2. n - Len(order) \in 1..Len(rows) /\ n - Len(order) <= since[s]
        BY <1>2, <1>3, <1>4, <2>1, <2>4, <3>2
      <4>3. QED
        BY <1>7, <4>1, <4>2 DEF RowsCover
    <3>3. QED
      BY <1>3, <3>1, <3>2
  <2>5. QED
    BY <2>3, <2>4
<1>10. QED
  BY <1>8, <1>9

\* What the night recomputes from the rows as they are covers the digests.
LEMMA RecomputedCovers ==
    ASSUME TypeOK, RowsCover, nightRows = rows, NEW s \in links
    PROVE  Least(since[s], Window) <= Recomputed(s)
<1>1. /\ Len(rows) \in Nat /\ Window \in Nat
      /\ since[s] \in Nat /\ s \in Sources
  BY PipelineAssumption, LenProperties DEF TypeOK
<1>2. Recomputed(s) \in Nat /\ \A n \in Before(s) : n <= Recomputed(s)
  BY <1>1, RecomputedGreatest DEF TypeOK
<1> DEFINE m == Least(since[s], Window)
<1>3. m \in Nat /\ m <= since[s] /\ m <= Window
  BY <1>1 DEF Least
<1>4. CASE m = 0
  BY <1>2, <1>4
<1>5. CASE m # 0
  <2>1. since[s] <= Len(rows) /\ \A n \in 1..Len(rows) : n <= since[s] => SourceOf[rows[n]] # s
    BY DEF RowsCover
  <2> HIDE DEF m
  <2>2. m \in 1..Len(rows)
    BY <1>1, <1>3, <1>5, <2>1
  <2>3. \A k \in 1..m : SourceOf[rows[k]] # s
    BY <1>1, <1>3, <2>1, <2>2
  <2>4. m \in Before(s)
    BY <1>3, <2>2, <2>3 DEF Before
  <2>5. QED
    BY <1>2, <2>4 DEF m
<1>6. QED
  BY <1>4, <1>5

\* A delivery keeps the streaks: they move on with the digests, or are put down
\* as overwritten.
LEMMA StreaksDelivered ==
    ASSUME TypeOK, StreakCoversDigests, NEW order \in Orders(draft), Deliver(order)
    PROVE  StreakCoversDigests'
<1>1. SUFFICES ASSUME NEW s \in links' \ raced'
               PROVE  Least(since'[s], Window) <= streak'[s]
  BY DEF StreakCoversDigests
<1>2. s \in links /\ s \in Sources /\ Window \in Nat
  BY PipelineAssumption DEF Deliver, TypeOK
<1>3. since[s] \in Nat /\ streak[s] \in Nat /\ base[s] \in Nat
  BY <1>2 DEF TypeOK
<1>4. CASE s \in Contributing
  <2>1. since'[s] = 0
    BY <1>2, <1>4 DEF Deliver
  <2>2. streak'[s] \in Nat
    BY <1>2, <1>3, <1>4 DEF Deliver, Moved
  <2>3. QED
    BY <1>2, <2>1, <2>2 DEF Least
<1>5. CASE s \notin Contributing
  <2>1. s \notin raced /\ (s \in marked => streak[s] = base[s])
    BY <1>1, <1>2, <1>5 DEF Deliver
  <2>2. Least(since[s], Window) <= streak[s]
    BY <1>2, <2>1 DEF StreakCoversDigests
  <2>3. CASE s \in marked
    <3>1. since'[s] = since[s] + 1
      BY <1>2, <1>5, <2>3 DEF Deliver
    <3>2. streak'[s] = base[s] + 1
      BY <1>2, <1>3, <1>5, <2>3 DEF Deliver, Moved
    <3>3. QED
      BY <1>2, <1>3, <2>1, <2>2, <2>3, <3>1, <3>2 DEF Least
  <2>4. CASE s \notin marked
    <3>1. since'[s] = since[s] /\ streak'[s] = streak[s]
      BY <1>2, <1>5, <2>4 DEF Deliver
    <3>2. QED
      BY <2>2, <3>1
  <2>5. QED
    BY <2>3, <2>4
<1>6. QED
  BY <1>4, <1>5

\* The streaks keep up with the digests.
LEMMA NextStreaks ==
    TypeOK /\ DraftKnown /\ RowsCover /\ StreakCoversDigests /\ [Next]_vars =>
        RowsCover' /\ StreakCoversDigests'
<1> SUFFICES ASSUME TypeOK, DraftKnown, RowsCover, StreakCoversDigests, [Next]_vars
             PROVE  RowsCover' /\ StreakCoversDigests'
  OBVIOUS
<1>0. links \subseteq Sources /\ Window \in Nat
  BY PipelineAssumption DEF TypeOK
<1>1. ASSUME UNCHANGED <<rows, since, streak, raced>>, links' \subseteq links
      PROVE  RowsCover' /\ StreakCoversDigests'
  BY <1>0, <1>1 DEF RowsCover, StreakCoversDigests
<1>2. CASE Digest
  <2>1. CASE \E order \in Orders(draft) : Deliver(order)
    BY <2>1, CoverDelivered, StreaksDelivered
  <2>2. CASE ~(\E order \in Orders(draft) : Deliver(order))
    <3>1. UNCHANGED <<rows, since, streak, raced, links>>
      BY <1>2, <2>2 DEF Digest, Fetch, Write, NothingWritten, Refuse, Accept, JudgeFails, Check,
                        RemoveSource, ReflectorEnds, Mark, Flush, Fail, Rollback,
                        linkVars
    <3>2. QED
      BY <1>1, <3>1
  <2>3. QED
    BY <2>1, <2>2
<1>3. ASSUME NEW s \in Sources, NEW byUser \in BOOLEAN, Attach(s, byUser)
      PROVE  RowsCover' /\ StreakCoversDigests'
  <2>1. \A x \in links' : since'[x] = 0 \/ (x \in links /\ since'[x] = since[x])
    BY <1>0, <1>3 DEF Attach, TypeOK
  <2>2. RowsCover'
    BY <1>0, <1>3, <2>1, CoverKept DEF Attach
  <2>3. ASSUME NEW x \in links' \ raced'
        PROVE  Least(since'[x], Window) <= streak'[x]
    <3>1. CASE x = s
      <4>1. since'[x] = 0 /\ streak'[x] = 0
        BY <1>3, <3>1 DEF Attach, TypeOK
      <4>2. QED
        BY <1>0, <4>1 DEF Least
    <3>2. CASE x # s
      <4>1. x \in links \ raced /\ since'[x] = since[x] /\ streak'[x] = streak[x]
        BY <1>0, <1>3, <2>3, <3>2 DEF Attach, TypeOK
      <4>2. QED
        BY <4>1 DEF StreakCoversDigests
    <3>3. QED
      BY <3>1, <3>2
  <2>4. QED
    BY <2>2, <2>3 DEF StreakCoversDigests
<1>4. CASE \E s \in Sources : Detach(s)
  BY <1>1, <1>4 DEF Detach
<1>5. CASE NightRead \/ NightFails
  BY <1>1, <1>5 DEF NightRead, NightFails, linkVars
<1>6. CASE NightCommit
  <2>1. UNCHANGED <<rows, since, links>> /\ nightLinks \subseteq links
    BY <1>6 DEF NightCommit, linkVars, TypeOK
  <2>2. RowsCover'
    BY <2>1 DEF RowsCover
  <2> DEFINE written == {s \in nightLinks : Recomputed(s) # nightBase[s]}
  <2>3. /\ streak' = [s \in Sources |-> IF s \in written THEN Recomputed(s) ELSE streak[s]]
        /\ raced' = IF rows = nightRows THEN raced \ written ELSE raced \cup written
    BY <1>6 DEF NightCommit
  <2> HIDE DEF written
  <2>4. ASSUME NEW x \in links \ raced'
        PROVE  Least(since[x], Window) <= streak'[x]
    <3>1. CASE x \in written
      <4>1. rows = nightRows
        BY <2>3, <2>4, <3>1
      <4>2. Least(since[x], Window) <= Recomputed(x)
        BY <4>1, RecomputedCovers
      <4>3. streak'[x] = Recomputed(x)
        BY <1>0, <2>3, <3>1
      <4>4. QED
        BY <4>2, <4>3
    <3>2. CASE x \notin written
      <4>1. x \notin raced /\ streak'[x] = streak[x]
        BY <1>0, <2>3, <2>4, <3>2
      <4>2. QED
        BY <4>1 DEF StreakCoversDigests
    <3>3. QED
      BY <3>1, <3>2
  <2>5. QED
    BY <2>1, <2>2, <2>4 DEF StreakCoversDigests
<1>7. CASE UNCHANGED vars
  BY <1>1, <1>7 DEF vars, linkVars
<1>8. QED
  BY <1>2, <1>3, <1>4, <1>5, <1>6, <1>7 DEF Next

----------------------------------------------------------------------------
(* Theorems.                                                               *)

PipelineInv == TypeOK /\ DraftKnown /\ RefusedLast /\ RowsCover /\ StreakCoversDigests

\* The invariant holds at first ...
LEMMA InitInv == Init => PipelineInv
<1> SUFFICES ASSUME Init
             PROVE  PipelineInv
  OBVIOUS
<1> USE PipelineAssumption
<1>1. /\ links \subseteq Sources /\ named \subseteq links
      /\ streak = [s \in Sources |-> 0] /\ since = [s \in Sources |-> 0]
      /\ rows = <<>> /\ pc = "idle" /\ revision = 0 /\ quality = "none" /\ dropped = {}
  BY DEF Init
<1>2. TypeOK
  <2>1. <<>> \in Seq(Items) /\ 0 \in 0..MaxRevisions /\ [s \in Sources |-> 0] \in [Sources -> Nat]
    OBVIOUS
  <2>2. QED
    BY <1>1, <2>1 DEF Init, TypeOK, Phases
<1>3. DraftKnown /\ RefusedLast
  BY <1>1 DEF DraftKnown, RefusedLast
<1>4. RowsCover /\ StreakCoversDigests
  BY <1>1 DEF RowsCover, StreakCoversDigests, Least
<1>5. QED
  BY <1>2, <1>3, <1>4 DEF PipelineInv

\* ... and after every step.
LEMMA NextInv == PipelineInv /\ [Next]_vars => PipelineInv'
  BY NextTyped, NextDraft, NextRefused, NextStreaks DEF PipelineInv

\* The inductive invariant: types, what the draft holds, of which draft a
\* refusal is, and what rows and streaks say of the digests.
THEOREM PipelineInvariant == Spec => []PipelineInv
  BY InitInv, NextInv, PTL DEF Spec

\* Every variable has its type in every state.
THEOREM PipelineTyped == Spec => []TypeOK
  BY PipelineInvariant, PTL DEF PipelineInv

\* The reflector is told of the last draft only, and removes nothing that the
\* user has named, for any number of revisions.
THEOREM PipelineReflectorActsOnFacts == Spec => []ReflectorActsOnFacts
<1>1. PipelineInv => ReflectorActsOnFacts
  BY DEF PipelineInv, RefusedLast, ReflectorActsOnFacts
<1>2. QED
  BY <1>1, PipelineInvariant, PTL

\* No streak falls behind the digests without a contribution, but for the lost
\* updates between a digest and the night.
THEOREM PipelineStreakCoversDigests == Spec => []StreakCoversDigests
  BY PipelineInvariant, PTL DEF PipelineInv

=============================================================================
