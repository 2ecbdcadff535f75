------------------------- MODULE DiscoveryRun_proofs -------------------------
(***************************************************************************)
(* Theorems about DiscoveryRun, for every finite set of URLs and of        *)
(* finders and every cap and bound.                                        *)
(***************************************************************************)
EXTENDS DiscoveryRun, FiniteSetTheorems, SequenceTheorems, TLAPS

----------------------------------------------------------------------------
(* Lists.                                                                  *)

\* A list has no more members than its length.
LEMMA RangeBound ==
    ASSUME NEW S, NEW s \in Seq(S)
    PROVE  /\ IsFiniteSet(RangeOf(s))
           /\ Cardinality(RangeOf(s)) <= Len(s)
<1>1. /\ Len(s) \in Nat
      /\ s \in [1..Len(s) -> S]
      /\ DOMAIN s = 1..Len(s)
  BY LenProperties
<1>2. s \in Surjection(1..Len(s), RangeOf(s))
  BY <1>1 DEF Surjection, RangeOf
<1>3. /\ IsFiniteSet(1..Len(s))
      /\ Cardinality(1..Len(s)) = IF 1 > Len(s) THEN 0 ELSE Len(s) - 1 + 1
  BY <1>1, FS_Interval
<1>4. Cardinality(1..Len(s)) = Len(s)
  BY <1>1, <1>3
<1>5. /\ IsFiniteSet(RangeOf(s))
      /\ Cardinality(RangeOf(s)) <= Cardinality(1..Len(s))
  BY <1>2, <1>3, FS_Surjection
<1>6. QED
  BY <1>4, <1>5

\* The room under the hard cap is a number.
LEMMA RoomTyped ==
    ASSUME attached \subseteq Urls
    PROVE  /\ Cardinality(attached) \in Nat
           /\ Room \in Nat
           /\ Room > 0 => Room + Cardinality(attached) = HardCap
<1>1. Cardinality(attached) \in Nat
  BY DiscoveryAssumption, FS_Subset, FS_CardinalityType
<1>2. QED
  BY <1>1, DiscoveryAssumption DEF Room

\* A submission is cut to what fits, and has no member that it had not.
LEMMA CutFits ==
    ASSUME attached \subseteq Urls, NEW s \in Seq(Urls)
    PROVE  /\ Cut(s) \in Seq(Urls)
           /\ RangeOf(Cut(s)) \subseteq RangeOf(s)
           /\ Len(Cut(s)) <= Room
<1>1. /\ Len(s) \in Nat
      /\ s \in [1..Len(s) -> Urls]
      /\ DOMAIN s = 1..Len(s)
  BY LenProperties
<1>2. Room \in Nat
  BY RoomTyped
<1>3. CASE Len(s) <= Room
  BY <1>1, <1>2, <1>3 DEF Cut
<1>4. CASE Len(s) > Room
  <2> DEFINE c == SubSeq(s, 1, Room)
  <2>1. \A i \in 1..Room : s[i] \in Urls
    BY <1>1, <1>2, <1>4
  <2>2. /\ c \in Seq(Urls)
        /\ Len(c) = IF 1 <= Room THEN Room - 1 + 1 ELSE 0
        /\ \A i \in 1..(Room - 1 + 1) : c[i] = s[1 + i - 1]
    BY <1>2, <2>1, SubSeqProperties
  <2>3. QED
    BY <1>1, <1>2, <1>4, <2>2, LenProperties DEF Cut, RangeOf
<1>5. QED
  BY <1>1, <1>2, <1>3, <1>4

\* The lists that are submitted are sequences of URLs.
LEMMA ListsTyped == Lists \subseteq Seq(Urls)
<1>1. ASSUME NEW n \in 1..2, NEW s \in [1..n -> Urls]
      PROVE  s \in Seq(Urls)
  BY SeqDef
<1>2. QED
  BY <1>1 DEF Lists

\* What is selected and not linked is within the room of the selection.
LEMMA UnlinkedFits ==
    ASSUME TypeOK, selected # <<>>, SelectionSound
    PROVE  Cardinality(Unlinked) + Cardinality(attached) <= HardCap
<1>1. /\ IsFiniteSet(RangeOf(selected))
      /\ Cardinality(RangeOf(selected)) <= Len(selected)
      /\ Len(selected) \in Nat
  BY RangeBound, LenProperties DEF TypeOK
<1>2. Unlinked \in SUBSET RangeOf(selected)
  BY DEF Unlinked, Selection
<1>3. Cardinality(Unlinked) <= Cardinality(RangeOf(selected))
  BY <1>1, <1>2, FS_Subset
<1>4. Cardinality(Unlinked) \in Nat /\ Cardinality(RangeOf(selected)) \in Nat
  BY <1>1, <1>2, FS_Subset, FS_CardinalityType
<1>5. Len(selected) + Cardinality(attached) <= HardCap
  BY DEF SelectionSound
<1>6. Cardinality(attached) \in Nat
  BY RoomTyped DEF TypeOK
<1>7. QED
  BY <1>1, <1>3, <1>4, <1>5, <1>6, DiscoveryAssumption

----------------------------------------------------------------------------
(* Types.                                                                  *)

\* Every step keeps the types.
LEMMA NextTyped == TypeOK /\ [Next]_vars => TypeOK'
<1> SUFFICES ASSUME TypeOK, [Next]_vars
             PROVE  TypeOK'
  OBVIOUS
<1> USE DiscoveryAssumption
<1>1. CASE Skip
  BY <1>1 DEF TypeOK, Skip, Phases, Notices, subVars, runVars
<1>2. CASE Start
  BY <1>2 DEF TypeOK, Start, Phases, subVars, runVars
<1>3. CASE Meanwhile
  BY <1>3 DEF TypeOK, Meanwhile, Stop, Delete, Attach, Detach, runVars
<1>4. CASE AgentEnds
  BY <1>4 DEF TypeOK, AgentEnds, Phases, Notices, subVars, runVars
<1>5. CASE Persist
  <2>1. Unlinked \subseteq Urls
    BY DEF Unlinked, Selection, TypeOK
  <2>2. QED
    BY <1>5, <2>1 DEF TypeOK, Persist, Phases, Notices, runVars
<1>6. CASE Notify \/ NotifyFails
  BY <1>6 DEF TypeOK, Notify, NotifyFails, Phases, Notices, subVars, runVars
<1>7. CASE LimitHit \/ Crash
  <2>1. <<>> \in Seq(Urls)
    OBVIOUS
  <2>2. NoRun
    BY <1>7 DEF LimitHit, Crash
  <2>3. /\ finder' \in [Finders -> {"free", "running"}]
        /\ found' \in [Finders -> SUBSET Urls]
        /\ pool' \subseteq Urls /\ selected' \in Seq(Urls) /\ aborted' \in BOOLEAN
        /\ spawned' \in 0..SpawnCap /\ calls' \in 0..MaxCalls
    <3>1. /\ finder' \in [Finders -> {"free", "running"}]
          /\ found' \in [Finders -> SUBSET Urls]
      BY <2>2 DEF NoRun
    <3>2. pool' = {} /\ aborted' = FALSE /\ spawned' = 0 /\ calls' = 0
      BY <2>2 DEF NoRun
    <3>3. selected' \in Seq(Urls)
      BY <2>1, <2>2 DEF NoRun
    <3>4. 0 \in 0..SpawnCap /\ 0 \in 0..MaxCalls
      OBVIOUS
    <3>5. QED
      BY <3>1, <3>2, <3>3, <3>4
  <2>4. /\ phase' \in Phases
        /\ retries' \in 0..MaxRetries
        /\ UNCHANGED <<attached, locked, subVars, told, added>>
    BY <1>7 DEF LimitHit, Crash, NextRetry, Phases, TypeOK
  <2>5. QED
    BY <2>3, <2>4 DEF TypeOK, subVars
<1>8. CASE ComeBack
  BY <1>8 DEF TypeOK, ComeBack, Phases, subVars, runVars
<1>9. CASE Tools
  <2>1. ASSUME NEW f \in Finders, Spawn(f)
        PROVE  TypeOK'
    BY <2>1 DEF TypeOK, Spawn, Call, MaySpawn, subVars
  <2>2. ASSUME NEW f \in Finders, Return(f)
        PROVE  TypeOK'
    BY <2>2 DEF TypeOK, Return, Fresh, subVars
  <2>3. ASSUME NEW f \in Finders, FinderCrashes(f)
        PROVE  TypeOK'
    BY <2>3 DEF TypeOK, FinderCrashes, subVars
  <2>4. ASSUME NEW f \in Finders, NEW u \in Urls, Validate(f, u)
        PROVE  TypeOK'
    BY <2>4 DEF TypeOK, Validate, subVars
  <2>5. ASSUME NEW s \in Lists, Submit(s)
        PROVE  TypeOK'
    <3>1. Cut(s) \in Seq(Urls)
      BY ListsTyped, CutFits DEF TypeOK
    <3>2. QED
      BY <2>5, <3>1 DEF TypeOK, Submit, Call, subVars
  <2>6. CASE Abort
    BY <2>6 DEF TypeOK, Abort, Call, subVars
  <2>7. QED
    BY <1>9, <2>1, <2>2, <2>3, <2>4, <2>5, <2>6 DEF Tools
<1>10. CASE UNCHANGED vars
  BY <1>10 DEF TypeOK, vars, subVars, runVars
<1>11. QED
  BY <1>1, <1>2, <1>3, <1>4, <1>5, <1>6, <1>7, <1>8, <1>9, <1>10 DEF Next

----------------------------------------------------------------------------
(* The selection.                                                          *)

\* Before an attempt starts nothing is left of an earlier one, and until the
\* commit nothing is committed.
FreshStart ==
    /\ phase \in {"queued", "waiting"} => pool = {} /\ selected = <<>>
    /\ phase \in {"queued", "agent", "persist", "waiting"} => added = {}

DiscoveryInv == TypeOK /\ FreshStart /\ SelectionSound

\* An attempt starts from nothing.
LEMMA NextFresh == TypeOK /\ FreshStart /\ [Next]_vars => FreshStart'
<1> SUFFICES ASSUME TypeOK, FreshStart, [Next]_vars
             PROVE  FreshStart'
  OBVIOUS
<1>1. CASE Tools
  BY <1>1 DEF Tools, Spawn, Return, FinderCrashes, Validate, Submit, Abort, Call, FreshStart
<1>2. CASE ~Tools
  BY <1>2 DEF Next, Skip, Start, Meanwhile, AgentEnds, Persist, Notify, NotifyFails, LimitHit,
              ComeBack, Crash, NoRun, FreshStart, vars, runVars, Stop, Delete, Attach, Detach
<1>3. QED
  BY <1>1, <1>2

\* The selection stays sound.
LEMMA NextSound == TypeOK /\ FreshStart /\ SelectionSound /\ [Next]_vars => SelectionSound'
<1> SUFFICES ASSUME TypeOK, FreshStart, SelectionSound, [Next]_vars
             PROVE  SelectionSound'
  OBVIOUS
<1>1. ASSUME pool' = {}, selected' = <<>>
      PROVE  SelectionSound'
  BY <1>1 DEF SelectionSound, RangeOf
<1>2. ASSUME UNCHANGED <<pool, selected, attached, locked>>
      PROVE  SelectionSound'
  BY <1>2 DEF SelectionSound
<1>3. CASE Start
  BY <1>1, <1>3 DEF Start, FreshStart, runVars
<1>4. CASE LimitHit \/ Crash
  BY <1>1, <1>4 DEF LimitHit, Crash, NoRun
<1>5. CASE Skip \/ Meanwhile \/ AgentEnds \/ Persist \/ Notify \/ NotifyFails \/ ComeBack
  BY <1>2, <1>5 DEF Skip, Meanwhile, AgentEnds, Persist, Notify, NotifyFails, ComeBack, runVars
<1>6. CASE Tools
  <2>1. ASSUME NEW f \in Finders, Return(f)
        PROVE  SelectionSound'
    BY <2>1 DEF Return, Fresh, Excluded, SelectionSound
  <2>2. ASSUME NEW f \in Finders, Spawn(f) \/ FinderCrashes(f)
        PROVE  SelectionSound'
    BY <1>2, <2>2 DEF Spawn, FinderCrashes
  <2>3. ASSUME NEW f \in Finders, NEW u \in Urls, Validate(f, u)
        PROVE  SelectionSound'
    BY <1>2, <2>3 DEF Validate
  <2>4. ASSUME NEW s \in Lists, Submit(s)
        PROVE  SelectionSound'
    <3>1. /\ Cut(s) \in Seq(Urls)
          /\ RangeOf(Cut(s)) \subseteq RangeOf(s)
          /\ Len(Cut(s)) <= Room
      BY ListsTyped, CutFits DEF TypeOK
    <3>2. /\ selected' = Cut(s) /\ RangeOf(s) \subseteq pool
          /\ UNCHANGED <<pool, attached, locked>>
      BY <2>4 DEF Submit, Acceptable
    <3>3. /\ Cardinality(attached) \in Nat
          /\ Room \in Nat
          /\ Room > 0 => Room + Cardinality(attached) = HardCap
      BY RoomTyped DEF TypeOK
    <3>4. Len(Cut(s)) \in Nat /\ (Len(Cut(s)) = 0 => Cut(s) = <<>>)
      BY <3>1, LenProperties, EmptySeq
    <3>5. Len(Cut(s)) + Cardinality(attached) <= HardCap \/ Cut(s) = <<>>
      BY <3>1, <3>3, <3>4, DiscoveryAssumption
    <3>6. QED
      BY <3>1, <3>2, <3>5 DEF SelectionSound
  <2>5. CASE Abort
    BY <1>2, <2>5 DEF Abort
  <2>6. QED
    BY <1>6, <2>1, <2>2, <2>3, <2>4, <2>5 DEF Tools
<1>7. CASE UNCHANGED vars
  BY <1>2, <1>7 DEF vars, runVars
<1>8. QED
  BY <1>3, <1>4, <1>5, <1>6, <1>7 DEF Next

----------------------------------------------------------------------------
(* Theorems.                                                               *)

LEMMA InitInv == Init => DiscoveryInv
<1> SUFFICES ASSUME Init
             PROVE  DiscoveryInv
  OBVIOUS
<1>1. <<>> \in Seq(Urls)
  OBVIOUS
<1>2. TypeOK
  <2>1. /\ phase \in Phases /\ told \in Notices
        /\ attached \subseteq Urls /\ locked \subseteq Urls /\ links \subseteq Urls
        /\ live \in {"running", "stopped", "deleted"}
        /\ pool \subseteq Urls /\ aborted \in BOOLEAN /\ added \subseteq Urls
    BY DEF Init, Phases, Notices
  <2>2. /\ finder \in [Finders -> {"free", "running"}]
        /\ found \in [Finders -> SUBSET Urls]
    BY DEF Init
  <2>3. spawned \in 0..SpawnCap /\ calls \in 0..MaxCalls /\ retries \in 0..MaxRetries
    BY DiscoveryAssumption DEF Init
  <2>4. selected \in Seq(Urls)
    BY <1>1 DEF Init
  <2>5. QED
    BY <2>1, <2>2, <2>3, <2>4 DEF TypeOK
<1>3. FreshStart /\ SelectionSound
  BY DEF Init, FreshStart, SelectionSound, RangeOf
<1>4. QED
  BY <1>2, <1>3 DEF DiscoveryInv

\* Every step keeps the invariant.
LEMMA NextInv == DiscoveryInv /\ [Next]_vars => DiscoveryInv'
  BY NextTyped, NextFresh, NextSound DEF DiscoveryInv

\* The inductive invariant: types, a fresh start of every attempt, and the
\* soundness of what is selected.
THEOREM DiscoveryInvariant == Spec => []DiscoveryInv
  BY InitInv, NextInv, PTL DEF Spec

\* Every variable has its type in every state.
THEOREM DiscoveryTyped == Spec => []TypeOK
  BY DiscoveryInvariant, PTL DEF DiscoveryInv

\* Whatever the finders find, the agent submits and the retries repeat, the
\* selection is of this attempt, new to the subscription and within the cap.
THEOREM DiscoverySelectionSound == Spec => []SelectionSound
  BY DiscoveryInvariant, PTL DEF DiscoveryInv

\* A task commits once, nothing that is linked by then, and within the room it
\* computed before its agent ran.
THEOREM DiscoveryCommitsOnce == Spec => CommitsOnce
<1>1. ASSUME DiscoveryInv, [Next]_vars, added' # added
      PROVE  /\ added = {} /\ phase = "persist" /\ added' \cap links = {}
             /\ Cardinality(added') + Cardinality(attached) <= HardCap
  <2>1. Persist
    BY <1>1 DEF Next, Skip, Start, Meanwhile, AgentEnds, Notify, NotifyFails, LimitHit, ComeBack,
                Crash, Tools, Spawn, Return, FinderCrashes, Validate, Submit, Abort, vars
  <2>2. added = {} /\ phase = "persist" /\ added' = Unlinked
    BY <1>1, <2>1 DEF Persist, DiscoveryInv, FreshStart
  <2>3. selected # <<>>
    BY <1>1, <2>2 DEF Unlinked, Selection, RangeOf
  <2>4. Cardinality(Unlinked) + Cardinality(attached) <= HardCap
    BY <1>1, <2>3, UnlinkedFits DEF DiscoveryInv
  <2>5. QED
    BY <2>2, <2>4 DEF Unlinked
<1>2. DiscoveryInv /\ [Next]_vars =>
          [added' # added =>
              /\ added = {} /\ phase = "persist" /\ added' \cap links = {}
              /\ Cardinality(added') + Cardinality(attached) <= HardCap]_vars
  BY <1>1
<1>3. QED
  BY <1>2, DiscoveryInvariant, PTL DEF Spec, CommitsOnce

=============================================================================
