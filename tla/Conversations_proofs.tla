-------------------------- MODULE Conversations_proofs --------------------------
(***************************************************************************)
(* Theorems about Conversations and the rate limit it asks, for every set  *)
(* of requests, turns and confirmations, every limit and every size of a   *)
(* thread.                                                                 *)
(***************************************************************************)
EXTENDS Conversations, Integers, FiniteSetTheorems, SequenceTheorems, WellFoundedInduction, TLAPS

----------------------------------------------------------------------------
(* Inductive invariants.                                                   *)

Stages ==
    {"idle", "limit", "agent", "confirm", "cancel", "act", "note", "note-cancel", "save", "save-cancel"}
Requests == [at : Stages, id : Ids \cup {None}]

\* A nonce that is not minted has left no trace.  One that is pending has not
\* been executed; at most one request has taken it to execute it.
NonceOnce(n) ==
    /\ minted[n] = None =>
           /\ n \notin pending /\ n \notin shown /\ n \notin told /\ ran[n] = 0
           /\ \A w \in Workers : req[w].id # n
    /\ n \in pending => ran[n] = 0
    /\ ran[n] = 0 \/ ran[n] = 1
    /\ \A w \in Workers : req[w].at = "act" /\ req[w].id = n => n \notin pending /\ ran[n] = 0
    /\ \A v, w \in Workers :
           req[v].at = "act" /\ req[v].id = n /\ req[w].at = "act" /\ req[w].id = n => v = w

\* A cancel has taken the nonce or found it taken; without a second request
\* under way, the one who executes and the one who cancels exclude each other.
NonceCancelled(n) ==
    /\ \A w \in Workers :
           req[w].id = n /\ req[w].at \in {"note-cancel", "save-cancel"} => n \notin pending
    /\ n \notin crossed =>
           /\ \A v, w \in Workers : req[v].id = n /\ req[w].id = n => v = w
           /\ ran[n] # 0 =>
                  \A w \in Workers :
                      req[w].id = n => req[w].at \notin {"cancel", "note-cancel", "save-cancel"}
           /\ n \in told =>
                  /\ n \notin pending /\ ran[n] = 0
                  /\ \A w \in Workers : req[w].id = n => req[w].at # "act"

NonceInv == \A n \in Nonces : NonceOnce(n) /\ NonceCancelled(n)

\* The messages end with the whole exchange of one turn.
WholeEnd(ms) ==
    ms # <<>> =>
        /\ Len(ms) >= 2
        /\ ms[Len(ms) - 1] = Message("user", ms[Len(ms)].turn)
        /\ ms[Len(ms)].role = "assistant"

\* What the agent works on ends with the message of its turn; what a note is
\* added to ends with a whole exchange.
ThreadInv ==
    /\ WholeEnd(thread.msgs)
    /\ TooLong(thread.msgs) => Len(thread.msgs) = 2
    /\ \A w \in Workers :
           /\ req[w].at = "agent" =>
                  /\ loaded[w].msgs # <<>>
                  /\ loaded[w].msgs[Len(loaded[w].msgs)] = Message("user", req[w].id)
           /\ req[w].at \in {"save", "save-cancel"} => WholeEnd(loaded[w].msgs)

TalkInv ==
    /\ TypeOK
    /\ CounterExpires
    /\ req \in [Workers -> Requests]
    /\ NonceInv
    /\ ThreadInv
    /\ NothingForgotten
----------------------------------------------------------------------------
(* The rate limit.                                                         *)

\* A step of one caller keeps the types and the way to an expiry.
LEMMA LimitStepKeeps ==
    ASSUME LimitTypeOK, CounterExpires, NEW c \in Callers, LimitStep(c)
    PROVE  LimitTypeOK' /\ CounterExpires'
<1> USE LimitAssumption
<1>1. CASE Hit(c)
  <2>1. LimitTypeOK'
    BY <1>1 DEF LimitTypeOK, Hit
  <2>2. CASE value = 0
    <3>1. command'[c] = "expire"
      BY <1>1, <2>2 DEF Hit, LimitTypeOK, FirstHit
    <3>2. QED
      BY <2>1, <3>1 DEF CounterExpires
  <2>3. CASE value > 0
    <3>1. CASE \E b \in Callers : command[b] = "expire"
      <4>1. PICK b \in Callers : command[b] = "expire"
        BY <3>1
      <4>2. b # c /\ command'[b] = "expire"
        BY <1>1, <4>1 DEF Hit, LimitTypeOK
      <4>3. QED
        BY <2>1, <4>2 DEF CounterExpires
    <3>2. CASE expires \/ lost
      BY <1>1, <2>1, <3>2 DEF Hit, CounterExpires
    <3>3. QED
      BY <2>3, <3>1, <3>2 DEF CounterExpires
  <2>4. QED
    BY <2>1, <2>2, <2>3 DEF LimitTypeOK
<1>2. CASE SetExpiry(c)
  BY <1>2 DEF LimitTypeOK, SetExpiry, CounterExpires
<1>3. CASE Pass(c) \/ Refuse(c)
  <2>1. LimitTypeOK' /\ value' = value /\ expires' = expires /\ lost' = lost
    BY <1>3 DEF LimitTypeOK, Pass, Refuse, Leave
  <2>2. \A b \in Callers : command[b] = "expire" => command'[b] = "expire"
    BY <1>3 DEF LimitTypeOK, Pass, Refuse, Leave
  <2>3. QED
    BY <2>1, <2>2 DEF CounterExpires
<1>4. CASE PassOnError(c)
  <2>1. Leave(c)
    BY <1>4 DEF PassOnError
  <2>2. /\ command' \in [Callers -> {"none", "expire", "compare"}]
        /\ seen' \in [Callers -> 0..MaxHits]
        /\ \A b \in Callers : b # c => command'[b] = command[b]
    BY <2>1 DEF Leave, LimitTypeOK
  <2>3. CASE command[c] = "none"
    <3>1. expires' = expires
      BY <1>4, <2>3 DEF PassOnError
    <3>2. \/ value' = value /\ lost' = lost
          \/ value < MaxHits /\ value' = value + 1 /\ lost' = (lost \/ FirstHit(value + 1))
      BY <1>4, <2>3 DEF PassOnError
    <3>3. value' \in 0..MaxHits
      BY <3>2 DEF LimitTypeOK
    <3>4. lost' \in BOOLEAN /\ (lost => lost')
      BY <3>2 DEF LimitTypeOK
    <3>7. ASSUME value' > 0, ~(value > 0)
          PROVE  lost'
      <4>1. value = 0 /\ value' # value
        BY <3>7 DEF LimitTypeOK
      <4>2. lost' = (lost \/ FirstHit(value + 1)) /\ value + 1 = 1
        BY <3>2, <4>1
      <4>3. QED
        BY <4>2 DEF FirstHit
    <3>5. LimitTypeOK'
      BY <2>2, <3>1, <3>3, <3>4 DEF LimitTypeOK
    <3>6. QED
      BY <2>2, <2>3, <3>1, <3>4, <3>5, <3>7 DEF CounterExpires
  <2>4. CASE command[c] = "expire"
    <3>1. /\ \/ lost' = TRUE /\ UNCHANGED expires
             \/ expires' = TRUE /\ UNCHANGED lost
          /\ UNCHANGED value
      BY <1>4, <2>4 DEF PassOnError
    <3>2. value' \in 0..MaxHits /\ expires' \in BOOLEAN /\ lost' \in BOOLEAN
      BY <3>1 DEF LimitTypeOK
    <3>3. LimitTypeOK'
      BY <2>2, <3>2 DEF LimitTypeOK
    <3>4. QED
      BY <3>1, <3>3 DEF CounterExpires
  <2>5. CASE command[c] = "compare"
    <3>1. value' = value /\ expires' = expires /\ lost' = lost
      BY <1>4, <2>5 DEF PassOnError
    <3>2. LimitTypeOK'
      BY <2>2, <3>1 DEF LimitTypeOK
    <3>3. QED
      BY <2>2, <2>5, <3>1, <3>2 DEF CounterExpires
  <2>6. QED
    BY <2>3, <2>4, <2>5 DEF LimitTypeOK
<1>5. CASE Die(c)
  <2>1. LimitTypeOK'
    BY <1>5 DEF LimitTypeOK, Die, Leave
  <2>2. \A b \in Callers : b # c => command'[b] = command[b]
    BY <1>5 DEF LimitTypeOK, Die, Leave
  <2>3. value' = value /\ expires' = expires /\ lost' = (lost \/ command[c] = "expire")
    BY <1>5 DEF Die
  <2>4. QED
    BY <2>1, <2>2, <2>3 DEF CounterExpires
<1>6. QED
  BY <1>1, <1>2, <1>3, <1>4, <1>5 DEF LimitStep

\* So does every step of the rate limit.
LEMMA LimitNextKeeps ==
    ASSUME LimitTypeOK, CounterExpires, [LimitNext]_limitVars
    PROVE  LimitTypeOK' /\ CounterExpires'
<1>1. CASE UNCHANGED limitVars
  BY <1>1 DEF limitVars, LimitTypeOK, CounterExpires
<1>2. CASE WindowEnds
  <2>1. value' = 0 /\ ~(0 > 0)
    BY <1>2 DEF WindowEnds
  <2>2. LimitTypeOK'
    <3>1. value' \in 0..MaxHits
      BY <2>1, LimitAssumption
    <3>2. expires' \in BOOLEAN /\ UNCHANGED <<command, seen, lost>>
      BY <1>2 DEF WindowEnds
    <3>3. QED
      BY <3>1, <3>2 DEF LimitTypeOK
  <2>3. QED
    BY <2>1, <2>2 DEF CounterExpires
<1>3. CASE \E c \in Callers : LimitStep(c)
  BY <1>3, LimitStepKeeps
<1>4. QED
  BY <1>1, <1>2, <1>3 DEF LimitNext

\* It starts with no key.
LEMMA LimitStarts == LimitInit => LimitTypeOK /\ CounterExpires
<1>1. ASSUME LimitInit PROVE LimitTypeOK
  <2>1. value \in 0..MaxHits /\ 0 \in 0..MaxHits
    BY <1>1, LimitAssumption DEF LimitInit
  <2>2. command \in [Callers -> {"none", "expire", "compare"}] /\ seen \in [Callers -> 0..MaxHits]
    BY <1>1, <2>1 DEF LimitInit
  <2>3. expires \in BOOLEAN /\ lost \in BOOLEAN
    BY <1>1 DEF LimitInit
  <2>4. QED
    BY <2>1, <2>2, <2>3 DEF LimitTypeOK
<1>2. LimitInit => ~(value > 0)
  BY DEF LimitInit
<1>3. QED
  BY <1>1, <1>2 DEF CounterExpires

\* The counter of the rate limit has an expiry or gets one, unless an EXPIRE
\* was lost: for every number of callers and every limit.
THEOREM LimitCounterExpires == LimitSpec => [](LimitTypeOK /\ CounterExpires)
<1>1. LimitTypeOK /\ CounterExpires /\ [LimitNext]_limitVars => (LimitTypeOK /\ CounterExpires)'
  BY LimitNextKeeps
<1>2. QED
  BY <1>1, LimitStarts, PTL DEF LimitSpec

\* What a request does to the rate limit is a step of the rate limit, and
\* everything else leaves it alone.
LEMMA NextLimits ==
    ASSUME [Next]_vars
    PROVE  [LimitNext]_limitVars
<1>1. CASE UNCHANGED vars
  BY <1>1 DEF vars
<1>2. ASSUME NEW w \in Workers, Work(w)
      PROVE  [LimitNext]_limitVars
  <2> w \in Callers
    BY DEF Workers
  <2>1. CASE AskLimit(w) \/ Load(w) \/ TooMany(w) \/ Abort(w)
    BY <2>1 DEF AskLimit, Load, TooMany, Abort, LimitNext, LimitStep
  <2>2. CASE \E t \in Turns : Send(w, t)
    BY <2>2 DEF Send
  <2>3. CASE \E n \in Nonces : Mint(w, n)
    BY <2>3 DEF Mint
  <2>4. CASE Answer(w) \/ AgentError(w)
    BY <2>4 DEF Answer, AgentError
  <2>5. CASE \E n \in Nonces, d \in {"confirm", "cancel"} : Tap(w, n, d)
    BY <2>5 DEF Tap
  <2>6. CASE Cancel(w) \/ Redeem(w) \/ Act(w)
    BY <2>6 DEF Cancel, Redeem, Act
  <2>7. CASE LoadForNote(w) \/ SaveNote(w)
    BY <2>7 DEF LoadForNote, SaveNote
  <2>8. QED
    BY <1>2, <2>1, <2>2, <2>3, <2>4, <2>5, <2>6, <2>7 DEF Work
<1>3. CASE \E n \in Nonces : Expire(n)
  BY <1>3 DEF Expire
<1>4. CASE Forget
  BY <1>4 DEF Forget
<1>5. CASE NewWindow
  BY <1>5 DEF NewWindow, LimitNext
<1>6. QED
  BY <1>1, <1>2, <1>3, <1>4, <1>5 DEF Next

\* The conversation implements the rate limit: whatever its requests do, the
\* counter behaves as check_rate_limit alone allows.
THEOREM TalkImplementsLimit == Spec => LimitSpec
<1>1. Init => LimitInit
  BY DEF Init
<1>2. QED
  BY <1>1, NextLimits, PTL DEF Spec, LimitSpec

\* So the counter of a user's requests expires.
THEOREM TalkCounterExpires == Spec => []CounterExpires
BY TalkImplementsLimit, LimitCounterExpires, PTL

----------------------------------------------------------------------------
(* Threads.                                                                *)

Messages == [role : {"user", "assistant"}, turn : Turns]

\* A bounded set of numbers has a least one.
LEMMA LeastExists ==
    ASSUME NEW S \in SUBSET Nat, S # {}
    PROVE  \E n \in S : \A m \in S : n <= m
<1>1. PICK x \in S : \A y \in S : ~ (<<y, x>> \in OpToRel(<, Nat))
  BY WFMin, NatLessThanWellFounded
<1>2. \A y \in S : ~(y < x)
  BY <1>1 DEF OpToRel
<1>3. QED
  BY <1>2

\* What a log with one more line has lines for.
LEMMA UnionOfLine ==
    ASSUME NEW log, NEW line
    PROVE  UNION {e.of : e \in log \cup {line}} = line.of \cup UNION {e.of : e \in log}
OBVIOUS

\* Taking the first k messages out of a thread leaves a thread of the others,
\* which knows what it knew.
LEMMA CompactedKeeps ==
    ASSUME NEW th \in Threads, NEW k \in 0..Len(th.msgs), NEW kind \in {"closed", "trimmed"}
    PROVE  /\ Compacted(th, k, kind) \in Threads
           /\ Len(Compacted(th, k, kind).msgs) = Len(th.msgs) - k
           /\ \A i \in 1..(Len(th.msgs) - k) : Compacted(th, k, kind).msgs[i] = th.msgs[k + i]
           /\ Known(Compacted(th, k, kind)) = Known(th)
<1> DEFINE ms == th.msgs
           tail == SubSeq(ms, k + 1, Len(ms))
           head == SubSeq(ms, 1, k)
           ids == InMessages(head)
<1>1. ms \in Seq(Messages) /\ th.log \in SUBSET Lines /\ Len(ms) \in Nat
  BY LenProperties DEF Threads, Messages
<1>2. k \in Nat /\ k <= Len(ms)
  BY <1>1
<1>3. /\ tail \in Seq(Messages) /\ Len(tail) = Len(ms) - k
      /\ \A i \in 1..(Len(ms) - k) : tail[i] = ms[k + i]
  <2>1. k + 1 \in 1..(Len(ms) + 1) /\ Len(ms) \in (k + 1 - 1)..Len(ms)
    BY <1>1, <1>2
  <2>2. /\ tail \in Seq(Messages) /\ Len(tail) = Len(ms) - (k + 1) + 1
        /\ \A i \in 1..(Len(ms) - (k + 1) + 1) : tail[i] = ms[(k + 1) + i - 1]
    BY <1>1, <2>1, SubSeqProperties
  <2>3. QED
    BY <1>1, <1>2, <2>2
<1>4. /\ head \in Seq(Messages) /\ Len(head) = k
      /\ \A i \in 1..k : head[i] = ms[i]
  <2>1. 1 \in 1..(Len(ms) + 1) /\ k \in (1 - 1)..Len(ms)
    BY <1>1, <1>2
  <2>2. /\ head \in Seq(Messages) /\ Len(head) = k - 1 + 1
        /\ \A i \in 1..(k - 1 + 1) : head[i] = ms[1 + i - 1]
    BY <1>1, <2>1, SubSeqProperties
  <2>3. QED
    BY <1>1, <1>2, <2>2
<1>5. DOMAIN ms = 1..Len(ms) /\ DOMAIN tail = 1..(Len(ms) - k) /\ DOMAIN head = 1..k
  BY <1>1, <1>3, <1>4, LenProperties
<1>6. /\ Compacted(th, k, kind).msgs = tail
      /\ Compacted(th, k, kind).log = th.log \cup {[kind |-> kind, of |-> ids]}
  BY DEF Compacted, Log
<1>7. ids \in SUBSET Ids
  <2>1. \A i \in 1..k : head[i].turn \in Turns
    BY <1>4, <1>5, ElementOfSeq DEF Messages
  <2>2. QED
    BY <1>5, <2>1 DEF InMessages, Ids
<1>8. Compacted(th, k, kind) \in Threads
  <2>1. [kind |-> kind, of |-> ids] \in Lines
    BY <1>7 DEF Lines
  <2>2. th.log \cup {[kind |-> kind, of |-> ids]} \in SUBSET Lines
    BY <1>1, <2>1
  <2>3. QED
    BY <1>3, <2>2 DEF Compacted, Log, Threads, Messages
<1>9. InMessages(ms) = InMessages(tail) \cup ids
  <2>1. ASSUME NEW x \in InMessages(ms) PROVE x \in InMessages(tail) \cup ids
    <3>1. PICK i \in 1..Len(ms) : x = ms[i].turn
      BY <1>5 DEF InMessages
    <3>2. CASE i <= k
      <4>1. i \in DOMAIN head /\ head[i] = ms[i]
        BY <1>1, <1>2, <1>4, <1>5, <3>2
      <4>2. QED
        BY <3>1, <4>1 DEF InMessages
    <3>3. CASE i > k
      <4>1. i - k \in DOMAIN tail /\ tail[i - k] = ms[k + (i - k)] /\ k + (i - k) = i
        BY <1>1, <1>2, <1>3, <1>5, <3>3
      <4>2. QED
        BY <3>1, <4>1 DEF InMessages
    <3>4. QED
      BY <1>1, <1>2, <3>2, <3>3
  <2>2. ASSUME NEW x \in InMessages(tail) PROVE x \in InMessages(ms)
    <3>1. PICK i \in 1..(Len(ms) - k) : x = tail[i].turn
      BY <1>5, <2>2 DEF InMessages
    <3>2. k + i \in DOMAIN ms /\ x = ms[k + i].turn
      BY <1>1, <1>2, <1>3, <1>5, <3>1
    <3>3. QED
      BY <3>2 DEF InMessages
  <2>3. ASSUME NEW x \in ids PROVE x \in InMessages(ms)
    <3>1. PICK i \in 1..k : x = head[i].turn
      BY <1>5, <2>3 DEF InMessages
    <3>2. i \in DOMAIN ms /\ x = ms[i].turn
      BY <1>1, <1>2, <1>4, <1>5, <3>1
    <3>3. QED
      BY <3>2 DEF InMessages
  <2>4. QED
    BY <2>1, <2>2, <2>3
<1>10. Known(Compacted(th, k, kind)) = Known(th)
  <2> HIDE DEF ids, tail, head
  <2>1. UNION {e.of : e \in th.log \cup {[kind |-> kind, of |-> ids]}}
            = ids \cup UNION {e.of : e \in th.log}
    <3> DEFINE line == [kind |-> kind, of |-> ids]
    <3>1. line.of = ids
      OBVIOUS
    <3> HIDE DEF line
    <3>2. UNION {e.of : e \in th.log \cup {line}} = line.of \cup UNION {e.of : e \in th.log}
      BY UnionOfLine
    <3>3. QED
      BY <3>1, <3>2 DEF line
  <2>2. QED
    BY <1>6, <1>9, <2>1 DEF Known
<1>11. QED
  BY <1>3, <1>6, <1>8, <1>10

\* An empty list of messages is not too long.
LEMMA NothingFits ==
    ASSUME NEW ms \in Seq(Messages), Len(ms) = 0
    PROVE  ~TooLong(ms)
<1>1. DOMAIN ms = {}
  BY LenProperties
<1>2. {i \in DOMAIN ms : IsBig(ms[i])} = {}
  BY <1>1
<1>3. Cardinality({i \in DOMAIN ms : IsBig(ms[i])}) = 0
  BY <1>2, FS_EmptySet
<1>4. Tokens(ms) = 0 + HotMax * 0
  BY <1>3 DEF Tokens
<1>5. HotMax \in Nat
  BY ConversationAssumption
<1>6. QED
  BY <1>4, <1>5 DEF TooLong

\* Two messages or more that remain are the end of those before.
LEMMA WholeEndKept ==
    ASSUME NEW th \in Threads, WholeEnd(th.msgs), NEW k \in 0..Len(th.msgs),
           NEW kind \in {"closed", "trimmed"}, Len(th.msgs) - k >= 2
    PROVE  WholeEnd(Compacted(th, k, kind).msgs)
<1> DEFINE ms == th.msgs
           rest == Compacted(th, k, kind).msgs
<1>1. ms \in Seq(Messages) /\ Len(ms) \in Nat
  BY LenProperties DEF Threads, Messages
<1>2. Len(rest) = Len(ms) - k /\ \A i \in 1..(Len(ms) - k) : rest[i] = ms[k + i]
  BY CompactedKeeps
<1>3. k \in Nat /\ k <= Len(ms) - 2
  BY <1>1
<1>4. /\ Len(rest) \in 1..(Len(ms) - k) /\ k + Len(rest) = Len(ms)
      /\ Len(rest) - 1 \in 1..(Len(ms) - k) /\ k + (Len(rest) - 1) = Len(ms) - 1
  BY <1>1, <1>2, <1>3
<1>5. rest[Len(rest)] = ms[Len(ms)] /\ rest[Len(rest) - 1] = ms[Len(ms) - 1]
  BY <1>2, <1>4
<1>6. ms # <<>>
  BY <1>1, <1>3, EmptySeq
<1>7. QED
  BY <1>2, <1>5, <1>6 DEF WholeEnd

\* Trimming a thread that ends with a whole exchange leaves a thread that
\* knows what it knew, still ends so, and is not too long, or is one exchange.
LEMMA TrimmedKeeps ==
    ASSUME NEW th \in Threads
    PROVE  /\ Trimmed(th) \in Threads
           /\ Known(Trimmed(th)) = Known(th)
           /\ WholeEnd(th.msgs) =>
                  /\ WholeEnd(Trimmed(th).msgs)
                  /\ TooLong(Trimmed(th).msgs) => Len(Trimmed(th).msgs) = 2
<1> DEFINE ms == th.msgs
           ks == {k \in 0..Len(ms) : EnoughDropped(ms, k)}
           least == CHOOSE i \in ks : \A j \in ks : i <= j
<1>1. ms \in Seq(Messages) /\ Len(ms) \in Nat
  BY LenProperties DEF Threads, Messages
<1>2. least \in ks /\ \A j \in ks : least <= j
  <2>1. Len(ms) \in ks
    BY <1>1 DEF EnoughDropped
  <2>2. ks \in SUBSET Nat /\ ks # {}
    BY <1>1, <2>1
  <2>3. \E i \in ks : \A j \in ks : i <= j
    BY <2>2, LeastExists
  <2>4. QED
    BY <2>3
<1>3. Trimmed(th) = IF least = 0 THEN th ELSE Compacted(th, least, "trimmed")
  BY DEF Trimmed
<1> HIDE DEF least
<1>4. least \in 0..Len(ms) /\ EnoughDropped(ms, least) /\ least \in Nat
  BY <1>1, <1>2
<1>5. Trimmed(th) \in Threads /\ Known(Trimmed(th)) = Known(th)
  BY <1>3, <1>4, CompactedKeeps
<1>6. Len(ms) - least <= 2 \/ ~TooLong(SubSeq(ms, least + 1, Len(ms)))
  BY <1>4 DEF EnoughDropped
<1>7. ASSUME WholeEnd(ms)
      PROVE  /\ WholeEnd(Trimmed(th).msgs)
             /\ TooLong(Trimmed(th).msgs) => Len(Trimmed(th).msgs) = 2
  <2>1. CASE least = 0
    <3>1. Trimmed(th) = th
      BY <1>3, <2>1
    <3>2. CASE Len(ms) = 0
      BY <1>1, <1>7, <3>1, <3>2, NothingFits
    <3>3. CASE Len(ms) # 0
      <4>1. Len(ms) >= 2
        BY <1>1, <1>7, <3>3 DEF WholeEnd
      <4>2. SubSeq(ms, 1, Len(ms)) = ms
        <5>1. Compacted(th, 0, "trimmed") \in Threads /\ 0 \in 0..Len(ms)
          BY <1>1, CompactedKeeps
        <5>2. /\ Len(Compacted(th, 0, "trimmed").msgs) = Len(ms) - 0
              /\ \A i \in 1..(Len(ms) - 0) : Compacted(th, 0, "trimmed").msgs[i] = ms[0 + i]
          BY <5>1, CompactedKeeps
        <5>3. Compacted(th, 0, "trimmed").msgs \in Seq(Messages)
          BY <5>1 DEF Threads, Messages
        <5>4. \A i \in 1..Len(ms) : Compacted(th, 0, "trimmed").msgs[i] = ms[i]
          BY <1>1, <5>2
        <5>5. Compacted(th, 0, "trimmed").msgs = ms
          BY <1>1, <5>2, <5>3, <5>4, SeqEqual
        <5>6. Compacted(th, 0, "trimmed").msgs = SubSeq(ms, 0 + 1, Len(ms))
          BY DEF Compacted
        <5>7. QED
          BY <5>5, <5>6
      <4>3. Len(ms) <= 2 \/ ~TooLong(ms)
        <5>1. least + 1 = 1 /\ Len(ms) - least = Len(ms)
          BY <1>1, <2>1
        <5>2. QED
          BY <1>6, <4>2, <5>1
      <4>4. TooLong(ms) => Len(ms) = 2
        <5>1. Len(ms) <= 2 => Len(ms) = 2
          <6> DEFINE n == Len(ms)
          <6>1. n \in Nat /\ n >= 2
            BY <1>1, <4>1
          <6> HIDE DEF n
          <6>2. n <= 2 => n = 2
            BY <6>1
          <6>3. QED
            BY <6>2 DEF n
        <5>2. QED
          BY <4>3, <5>1
      <4>5. QED
        BY <1>7, <3>1, <4>4
    <3>4. QED
      BY <3>2, <3>3
  <2>2. CASE least # 0
    <3>1. Len(ms) - least >= 2
      <4>1. least - 1 \in 0..Len(ms) /\ ~(least <= least - 1)
        BY <1>1, <1>4, <2>2
      <4>2. ~EnoughDropped(ms, least - 1)
        BY <1>2, <4>1
      <4>3. ~(Len(ms) - (least - 1) <= 2)
        BY <4>2 DEF EnoughDropped
      <4>4. QED
        BY <1>1, <1>4, <4>3
    <3>2. Trimmed(th) = Compacted(th, least, "trimmed")
      BY <1>3, <2>2
    <3>3. WholeEnd(Trimmed(th).msgs)
      BY <1>4, <1>7, <3>1, <3>2, WholeEndKept
    <3>4. Trimmed(th).msgs = SubSeq(ms, least + 1, Len(ms))
      <4>1. Compacted(th, least, "trimmed").msgs = SubSeq(ms, least + 1, Len(ms))
        BY DEF Compacted
      <4>2. QED
        BY <3>2, <4>1
    <3>5. Len(Trimmed(th).msgs) = Len(ms) - least
      BY <1>4, <3>2, CompactedKeeps
    <3>6. QED
      BY <1>1, <1>4, <1>6, <3>1, <3>3, <3>4, <3>5
  <2>3. QED
    BY <2>1, <2>2
<1>8. QED
  BY <1>5, <1>7

\* Closing a scenario keeps the last exchange and what the thread knows.
LEMMA ClosedKeeps ==
    ASSUME NEW th \in Threads
    PROVE  /\ Closed(th) \in Threads
           /\ Known(Closed(th)) = Known(th)
           /\ WholeEnd(th.msgs) => WholeEnd(Closed(th).msgs)
<1> DEFINE ms == th.msgs
           k == IF Len(ms) > 2 THEN Len(ms) - 2 ELSE 0
<1>1. ms \in Seq(Messages) /\ Len(ms) \in Nat
  BY LenProperties DEF Threads, Messages
<1>2. k \in 0..Len(ms)
  BY <1>1
<1>3. Closed(th) = Compacted(th, k, "closed")
  BY DEF Closed
<1>4. Closed(th) \in Threads /\ Known(Closed(th)) = Known(th) /\ Len(Closed(th).msgs) = Len(ms) - k
  BY <1>2, <1>3, CompactedKeeps
<1>5. ASSUME WholeEnd(ms) PROVE WholeEnd(Closed(th).msgs)
  <2>1. CASE Len(ms) = 0
    <3>1. Len(Closed(th).msgs) = 0 /\ Closed(th).msgs \in Seq(Messages)
      BY <1>1, <1>4, <2>1 DEF Threads, Messages
    <3>2. Closed(th).msgs = <<>>
      BY <3>1, EmptySeq
    <3>3. QED
      BY <3>2 DEF WholeEnd
  <2>2. CASE Len(ms) # 0
    <3>1. Len(ms) >= 2
      BY <1>1, <1>5, <2>2 DEF WholeEnd
    <3>2. Len(ms) - k >= 2
      BY <1>1, <3>1
    <3>3. QED
      BY <1>2, <1>3, <1>5, <3>2, WholeEndKept
  <2>3. QED
    BY <2>1, <2>2
<1>6. QED
  BY <1>4, <1>5

----------------------------------------------------------------------------
(* Requests.                                                               *)

\* What a request that is at a stage is about.
LEMMA RequestIds ==
    ASSUME TypeOK, NEW w \in Workers
    PROVE  /\ req[w].at \in {"limit", "agent"} => req[w].id \in Turns
           /\ req[w].at \in {"confirm", "cancel", "act", "note", "note-cancel", "save", "save-cancel"}
                  => req[w].id \in Nonces
           /\ req[w] = Idle => req[w].at = "idle" /\ req[w].id = None
           /\ req[w].id \in Ids \cup {None}
           /\ req[w] # Idle => req[w].id \in Ids
<1>1. CASE req[w] = Idle
  BY <1>1 DEF Idle
<1>2. CASE req[w] # Idle
  BY <1>2 DEF TypeOK, Ids
<1>3. QED
  BY <1>1, <1>2

\* One request moves, the others stay.
LEMMA GotoMoves ==
    ASSUME req \in [Workers -> Requests], NEW w \in Workers, NEW s \in Stages, Goto(w, s)
    PROVE  /\ req' \in [Workers -> Requests]
           /\ req'[w].at = s /\ req'[w].id = req[w].id
           /\ \A v \in Workers : v # w => req'[v] = req[v]
<1>1. req[w] \in Requests
  OBVIOUS
<1>2. [req[w] EXCEPT !.at = s] \in Requests
  BY <1>1 DEF Requests
<1>3. req' = [req EXCEPT ![w] = [req[w] EXCEPT !.at = s]]
  BY DEF Goto
<1>4. req'[w] = [req[w] EXCEPT !.at = s]
  BY <1>3
<1>5. [req[w] EXCEPT !.at = s].at = s /\ [req[w] EXCEPT !.at = s].id = req[w].id
  BY <1>1 DEF Requests
<1>6. QED
  BY <1>2, <1>3, <1>4, <1>5

\* One request ends, the others stay.
LEMMA FinishMoves ==
    ASSUME req \in [Workers -> Requests], loaded \in [Workers -> Threads],
           NEW w \in Workers, Finish(w)
    PROVE  /\ req' \in [Workers -> Requests] /\ loaded' \in [Workers -> Threads]
           /\ req'[w] = Idle /\ req'[w].at = "idle" /\ req'[w].id = None
           /\ \A v \in Workers : v # w => req'[v] = req[v] /\ loaded'[v] = loaded[v]
<1>1. Idle \in Requests /\ Idle.at = "idle" /\ Idle.id = None
  BY DEF Idle, Requests, Stages
<1>2. Fresh \in Threads
  <2>1. <<>> \in Seq(Messages)
    BY EmptySeq
  <2>2. QED
    BY <2>1 DEF Fresh, Threads, Messages
<1>3. QED
  BY <1>1, <1>2 DEF Finish

\* What TypeOK says of the requests.
RequestsOK ==
    \A w \in Workers :
        \/ req[w] = Idle
        \/ req[w].id \in Turns /\ req[w].at \in {"limit", "agent"}
        \/ /\ req[w].id \in Nonces
           /\ req[w].at \in {"confirm", "cancel", "act", "note", "note-cancel", "save", "save-cancel"}

\* A thread with one more message, and with one more line.
LEMMA AppendTyped ==
    ASSUME NEW th \in Threads, NEW role \in {"user", "assistant"}, NEW t \in Turns
    PROVE  LET new == [th EXCEPT !.msgs = Append(@, Message(role, t))] IN
           /\ new \in Threads
           /\ Len(new.msgs) = Len(th.msgs) + 1
           /\ \A i \in 1..Len(th.msgs) : new.msgs[i] = th.msgs[i]
           /\ new.msgs[Len(new.msgs)] = Message(role, t)
           /\ Known(new) = Known(th) \cup {t}
<1> DEFINE ms == th.msgs
           m == Message(role, t)
           longer == Append(ms, m)
           new == [th EXCEPT !.msgs = longer]
<1>1. ms \in Seq(Messages) /\ th.log \in SUBSET Lines /\ Len(ms) \in Nat
  BY LenProperties DEF Threads, Messages
<1>2. m \in Messages /\ m.turn = t
  BY DEF Message, Messages
<1> HIDE DEF m
<1>3. /\ longer \in Seq(Messages) /\ Len(longer) = Len(ms) + 1
      /\ \A i \in 1..Len(ms) : longer[i] = ms[i]
      /\ longer[Len(ms) + 1] = m
  BY <1>1, <1>2, AppendProperties
<1> HIDE DEF longer
<1>4. new.msgs = longer /\ new.log = th.log
  BY DEF Threads
<1>5. new \in Threads
  BY <1>1, <1>3 DEF Threads, Messages
<1>6. DOMAIN ms = 1..Len(ms) /\ DOMAIN longer = 1..(Len(ms) + 1)
  BY <1>1, <1>3, LenProperties
<1>7. InMessages(longer) = InMessages(ms) \cup {t}
  <2>1. ASSUME NEW x \in InMessages(longer) PROVE x \in InMessages(ms) \cup {t}
    <3>1. PICK i \in 1..(Len(ms) + 1) : x = longer[i].turn
      BY <1>6 DEF InMessages
    <3>2. CASE i = Len(ms) + 1
      BY <1>2, <1>3, <3>1, <3>2
    <3>3. CASE i # Len(ms) + 1
      <4>1. i \in DOMAIN ms /\ x = ms[i].turn
        BY <1>1, <1>3, <1>6, <3>1, <3>3
      <4>2. QED
        BY <4>1 DEF InMessages
    <3>4. QED
      BY <3>2, <3>3
  <2>2. ASSUME NEW x \in InMessages(ms) PROVE x \in InMessages(longer)
    <3>1. PICK i \in 1..Len(ms) : x = ms[i].turn
      BY <1>6 DEF InMessages
    <3>2. i \in DOMAIN longer /\ x = longer[i].turn
      BY <1>1, <1>3, <1>6, <3>1
    <3>3. QED
      BY <3>2 DEF InMessages
  <2>3. t \in InMessages(longer)
    <3>1. Len(ms) + 1 \in DOMAIN longer /\ longer[Len(ms) + 1].turn = t
      BY <1>1, <1>2, <1>3, <1>6
    <3>2. QED
      BY <3>1 DEF InMessages
  <2>4. QED
    BY <2>1, <2>2, <2>3
<1>8. Known(new) = Known(th) \cup {t}
  BY <1>4, <1>7 DEF Known
<1>9. QED
  BY <1>3, <1>4, <1>5, <1>8 DEF m, longer

\* A thread with the line of a decision.
LEMMA NotedTyped ==
    ASSUME NEW th \in Threads, NEW n \in Nonces
    PROVE  LET new == [th EXCEPT !.log = @ \cup Log("button", {n})] IN
           /\ new \in Threads
           /\ new.msgs = th.msgs
           /\ Known(new) = Known(th) \cup {n}
<1> DEFINE line == [kind |-> "button", of |-> {n}]
           new == [th EXCEPT !.log = @ \cup {line}]
<1>1. line \in Lines /\ line.of = {n}
  BY DEF Lines, Ids
<1> HIDE DEF line
<1>2. th.log \cup {line} \in SUBSET Lines
  BY <1>1 DEF Threads
<1>3. new.msgs = th.msgs /\ new.log = th.log \cup {line} /\ new \in Threads
  BY <1>2 DEF Threads
<1>4. UNION {e.of : e \in th.log \cup {line}} = line.of \cup UNION {e.of : e \in th.log}
  BY UnionOfLine
<1>5. Known(new) = Known(th) \cup {n}
  <2> HIDE DEF new
  <2>1. Known(new) = InMessages(th.msgs) \cup UNION {e.of : e \in th.log \cup {line}}
    BY <1>3 DEF Known
  <2>2. QED
    BY <1>1, <1>4, <2>1 DEF Known
<1>6. QED
  BY <1>3, <1>5 DEF line, Log

----------------------------------------------------------------------------
(* Types.                                                                  *)

\* A thread knows turns and nonces only.
LEMMA KnownIds ==
    ASSUME NEW th \in Threads
    PROVE  Known(th) \in SUBSET Ids
<1>1. th.msgs \in Seq(Messages) /\ th.log \in SUBSET Lines
  BY DEF Threads, Messages
<1>2. \A i \in DOMAIN th.msgs : th.msgs[i].turn \in Turns
  <2>1. DOMAIN th.msgs = 1..Len(th.msgs)
    BY <1>1, LenProperties
  <2>2. \A i \in 1..Len(th.msgs) : th.msgs[i] \in Messages
    BY <1>1, ElementOfSeq
  <2>3. QED
    BY <2>1, <2>2 DEF Messages
<1>3. \A e \in th.log : e.of \in SUBSET Ids
  BY <1>1 DEF Lines
<1>4. QED
  BY <1>2, <1>3 DEF Known, InMessages, Ids

\* A save of a thread that knows the turn or decision id and what was loaded
\* forgets nothing, and leaves a thread that fits.
LEMMA SaveKeeps ==
    ASSUME NEW w \in Workers, NEW th \in Threads, NEW id \in Ids,
           thread \in Threads, loaded[w] \in Threads, saved \in SUBSET Ids, gone \in SUBSET Ids,
           Known(th) = Known(loaded[w]) \cup {id},
           NothingForgotten,
           Save(w, th, id)
    PROVE  /\ thread' \in Threads /\ saved' \in SUBSET Ids /\ gone' \in SUBSET Ids
           /\ NothingForgotten'
           /\ WholeEnd(th.msgs) =>
                  /\ WholeEnd(thread'.msgs)
                  /\ TooLong(thread'.msgs) => Len(thread'.msgs) = 2
<1>1. /\ thread' = Trimmed(th) /\ saved' = saved \cup {id}
      /\ gone' = gone \cup (Known(thread) \ Known(loaded[w]))
  BY DEF Save
<1>2. thread' \in Threads /\ Known(thread') = Known(loaded[w]) \cup {id}
  BY <1>1, TrimmedKeeps
<1>3. gone' \in SUBSET Ids
  BY <1>1, KnownIds
<1>4. NothingForgotten'
  BY <1>1, <1>2 DEF NothingForgotten
<1>5. QED
  BY <1>1, <1>2, <1>3, <1>4, TrimmedKeeps

\* The parts of TypeOK that are not about requests and threads.
RestTyped ==
    /\ pending \subseteq Nonces /\ shown \subseteq Nonces /\ sent \subseteq Turns
    /\ minted \in [Nonces -> Turns \cup {None}]
    /\ taps \in 0..MaxTaps
    /\ ran \in [Nonces -> Nat]
    /\ told \subseteq Nonces /\ crossed \subseteq Nonces

ThreadTyped ==
    thread \in Threads /\ loaded \in [Workers -> Threads] /\ saved \subseteq Ids /\ gone \subseteq Ids

\* TypeOK in four parts.
LEMMA TypeParts == TypeOK <=> LimitTypeOK /\ RequestsOK /\ RestTyped /\ ThreadTyped
BY DEF TypeOK, RequestsOK, RestTyped, ThreadTyped

\* The requests stay requests.
LEMMA RequestStep ==
    ASSUME TypeOK, req \in [Workers -> Requests], [Next]_vars
    PROVE  RequestsOK' /\ req' \in [Workers -> Requests]
<1> USE DEF RequestsOK
<1>0. RequestsOK /\ loaded \in [Workers -> Threads] /\ \A v \in Workers : req[v].id \in Ids \cup {None}
  BY RequestIds, TypeParts DEF ThreadTyped
<1>1. CASE UNCHANGED req
  BY <1>0, <1>1
<1>2. ASSUME NEW w \in Workers, Finish(w)
      PROVE  RequestsOK' /\ req' \in [Workers -> Requests]
  BY <1>0, <1>2, FinishMoves
<1>3. ASSUME NEW w \in Workers, NEW s \in Stages, Goto(w, s),
             req[w].id \in Nonces, s \in {"act", "note", "note-cancel", "save", "save-cancel"}
      PROVE  RequestsOK' /\ req' \in [Workers -> Requests]
  BY <1>0, <1>3, GotoMoves
<1>4. ASSUME NEW w \in Workers, NEW s \in Stages, NEW i \in Ids, req' = [req EXCEPT ![w] = [at |-> s, id |-> i]],
             i \in Nonces /\ s \in {"confirm", "cancel"}
      PROVE  RequestsOK' /\ req' \in [Workers -> Requests]
  <2>1. [at |-> s, id |-> i] \in Requests
    BY DEF Requests
  <2>2. req' \in [Workers -> Requests]
    BY <1>4, <2>1
  <2>3. \A v \in Workers : req'[v] = IF v = w THEN [at |-> s, id |-> i] ELSE req[v]
    BY <1>4
  <2>4. QED
    BY <1>0, <1>4, <2>2, <2>3
<1>5. ASSUME NEW w \in Workers, req' = [req EXCEPT ![w] = Idle]
      PROVE  RequestsOK' /\ req' \in [Workers -> Requests]
  <2>1. Idle \in Requests
    BY DEF Requests, Idle, Stages
  <2>2. \A v \in Workers : req'[v] = IF v = w THEN Idle ELSE req[v]
    BY <1>5
  <2>3. QED
    BY <1>0, <1>5, <2>1, <2>2
<1>6. ASSUME NEW w \in Workers, Work(w)
      PROVE  RequestsOK' /\ req' \in [Workers -> Requests]
  <2> HIDE DEF RequestsOK
  <2>1. CASE \E t \in Turns : Send(w, t)
    <3>1. PICK t \in Turns : Send(w, t)
      BY <2>1
    <3>2. req' = [req EXCEPT ![w] = [at |-> "limit", id |-> t]]
      BY <3>1 DEF Send
    <3>3. t \in Ids /\ "limit" \in Stages
      BY DEF Ids, Stages
    <3>4. [at |-> "limit", id |-> t] \in Requests
      BY <3>3 DEF Requests
    <3>5. req' \in [Workers -> Requests]
      BY <3>2, <3>4
    <3>6. \A v \in Workers : req'[v] = IF v = w THEN [at |-> "limit", id |-> t] ELSE req[v]
      BY <3>2
    <3>7. QED
      BY <1>0, <3>5, <3>6 DEF RequestsOK
  <2>2. CASE AskLimit(w) \/ \E n \in Nonces : Mint(w, n)
    BY <1>1, <2>2 DEF AskLimit, Mint
  <2>3. CASE Load(w)
    <3>1. Goto(w, "agent") /\ req[w].at = "limit"
      BY <2>3 DEF Load
    <3>2. req[w].id \in Turns /\ "agent" \in Stages
      BY <3>1, RequestIds DEF Stages
    <3>3. /\ req' \in [Workers -> Requests]
          /\ req'[w].at = "agent" /\ req'[w].id = req[w].id
          /\ \A v \in Workers : v # w => req'[v] = req[v]
      BY <3>1, <3>2, GotoMoves
    <3>4. QED
      BY <1>0, <3>2, <3>3 DEF RequestsOK
  <2>4. CASE TooMany(w) \/ Answer(w) \/ AgentError(w) \/ SaveNote(w) \/ Abort(w)
    BY <1>2, <2>4 DEF TooMany, Answer, AgentError, SaveNote, Abort
  <2>5. CASE \E n \in Nonces, d \in {"confirm", "cancel"} : Tap(w, n, d)
    BY <1>4, <2>5 DEF Tap, Ids, Stages
  <2>6. CASE Cancel(w)
    BY <1>3, <2>6, RequestIds DEF Cancel, Stages
  <2>7. CASE Redeem(w)
    <3>1. PICK s \in {"act", "note"} : Goto(w, s)
      BY <2>7 DEF Redeem
    <3>2. QED
      BY <1>3, <2>7, <3>1, RequestIds DEF Redeem, Stages
  <2>8. CASE Act(w)
    BY <1>3, <1>5, <2>8, RequestIds DEF Act, Stages
  <2>9. CASE LoadForNote(w)
    <3>1. PICK s \in {"save", "save-cancel"} : Goto(w, s)
      BY <2>9 DEF LoadForNote
    <3>2. QED
      BY <1>3, <2>9, <3>1, RequestIds DEF LoadForNote, Stages
  <2>10. QED
    BY <1>6, <2>1, <2>2, <2>3, <2>4, <2>5, <2>6, <2>7, <2>8, <2>9 DEF Work
<1>7. QED
  BY <1>1, <1>6 DEF Next, vars, Expire, Forget, NewWindow

\* The nonces, turns and counters stay within their types.
LEMMA RestStep ==
    ASSUME TypeOK, [Next]_vars
    PROVE  RestTyped'
<1>0. RestTyped
  BY TypeParts
<1>1. CASE UNCHANGED <<talkVars, histVars>>
  BY <1>0, <1>1 DEF talkVars, histVars, RestTyped
<1>2. ASSUME NEW w \in Workers, Work(w)
      PROVE  RestTyped'
  <2>1. CASE \E t \in Turns : Send(w, t)
    BY <1>0, <2>1 DEF Send, histVars, RestTyped
  <2>2. CASE AskLimit(w) \/ Load(w) \/ TooMany(w) \/ LoadForNote(w) \/ Abort(w)
    BY <1>1, <2>2 DEF AskLimit, Load, TooMany, LoadForNote, Abort
  <2>3. ASSUME NEW n \in Nonces, Mint(w, n)
        PROVE  RestTyped'
    <3>1. req[w].id \in Turns
      BY <2>3, RequestIds DEF Mint
    <3>2. minted' \in [Nonces -> Turns \cup {None}] /\ pending' \subseteq Nonces
      BY <1>0, <2>3, <3>1 DEF Mint, RestTyped
    <3>3. QED
      BY <1>0, <2>3, <3>2 DEF Mint, histVars, RestTyped
  <2>4. CASE Answer(w) \/ AgentError(w)
    <3>1. shown' \subseteq Nonces
      BY <1>0, <2>4 DEF Answer, AgentError, MintedBy, RestTyped
    <3>2. QED
      BY <1>0, <2>4, <3>1 DEF Answer, AgentError, histVars, RestTyped
  <2>5. ASSUME NEW n \in Nonces, NEW d \in {"confirm", "cancel"}, Tap(w, n, d)
        PROVE  RestTyped'
    <3>1. taps' \in 0..MaxTaps
      BY <1>0, <2>5, ConversationAssumption DEF Tap, RestTyped
    <3>2. crossed' \subseteq Nonces
      BY <1>0, <2>5 DEF Tap, RestTyped
    <3>3. QED
      BY <1>0, <2>5, <3>1, <3>2 DEF Tap, RestTyped
  <2>6. CASE Cancel(w) \/ Redeem(w)
    BY <1>0, <2>6 DEF Cancel, Redeem, Taken, histVars, RestTyped
  <2>7. CASE Act(w)
    <3>1. req[w].id \in Nonces
      BY <2>7, RequestIds DEF Act
    <3>2. ran' \in [Nonces -> Nat]
      BY <1>0, <2>7, <3>1 DEF Act, RestTyped
    <3>3. QED
      BY <1>0, <2>7, <3>2 DEF Act, talkVars, RestTyped
  <2>8. CASE SaveNote(w)
    <3>1. req[w].id \in Nonces
      BY <2>8, RequestIds DEF SaveNote
    <3>2. told' \subseteq Nonces
      BY <1>0, <2>8, <3>1 DEF SaveNote, RestTyped
    <3>3. QED
      BY <1>0, <2>8, <3>2 DEF SaveNote, talkVars, RestTyped
  <2>9. QED
    BY <1>2, <2>1, <2>2, <2>3, <2>4, <2>5, <2>6, <2>7, <2>8 DEF Work
<1>3. CASE \E n \in Nonces : Expire(n)
  BY <1>0, <1>3 DEF Expire, histVars, RestTyped
<1>4. QED
  BY <1>1, <1>2, <1>3 DEF Next, vars, Forget, NewWindow

----------------------------------------------------------------------------
(* Threads under the steps of the requests.                                *)

\* A thread that is left alone stays good, when no request gets to work on a
\* thread.
LEMMA ThreadUntouched ==
    ASSUME ThreadInv, NothingForgotten, ThreadTyped, loaded' \in [Workers -> Threads],
           UNCHANGED <<thread, saved, gone>>,
           \A v \in Workers :
               req'[v].at \in {"agent", "save", "save-cancel"} =>
                   req'[v] = req[v] /\ loaded'[v] = loaded[v]
    PROVE  ThreadInv' /\ NothingForgotten' /\ ThreadTyped'
<1>1. NothingForgotten' /\ ThreadTyped'
  BY DEF NothingForgotten, ThreadTyped
<1>2. WholeEnd(thread'.msgs) /\ (TooLong(thread'.msgs) => Len(thread'.msgs) = 2)
  BY DEF ThreadInv
<1>3. ASSUME NEW v \in Workers
      PROVE  /\ req'[v].at = "agent" =>
                    /\ loaded'[v].msgs # <<>>
                    /\ loaded'[v].msgs[Len(loaded'[v].msgs)] = Message("user", req'[v].id)
             /\ req'[v].at \in {"save", "save-cancel"} => WholeEnd(loaded'[v].msgs)
  <2>1. CASE req'[v].at \in {"agent", "save", "save-cancel"}
    <3>1. req'[v] = req[v] /\ loaded'[v] = loaded[v]
      BY <2>1
    <3>2. QED
      BY <3>1 DEF ThreadInv
  <2>2. CASE req'[v].at \notin {"agent", "save", "save-cancel"}
    BY <2>2
  <2>3. QED
    BY <2>1, <2>2
<1>4. QED
  BY <1>1, <1>2, <1>3 DEF ThreadInv

\* A save that ends its request: the others' threads are as they were.
LEMMA SaveEnds ==
    ASSUME ThreadInv, NothingForgotten, ThreadTyped, req \in [Workers -> Requests],
           NEW w \in Workers, NEW th \in Threads, NEW id \in Ids,
           Known(th) = Known(loaded[w]) \cup {id}, WholeEnd(th.msgs),
           Save(w, th, id), Finish(w)
    PROVE  ThreadInv' /\ NothingForgotten' /\ ThreadTyped'
<1>1. /\ loaded' \in [Workers -> Threads]
      /\ req'[w].at = "idle"
      /\ \A v \in Workers : v # w => req'[v] = req[v] /\ loaded'[v] = loaded[v]
  BY FinishMoves DEF ThreadTyped
<1>2. loaded[w] \in Threads
  BY DEF ThreadTyped
<1>3. /\ thread' \in Threads /\ saved' \in SUBSET Ids /\ gone' \in SUBSET Ids
      /\ NothingForgotten'
      /\ WholeEnd(thread'.msgs) /\ (TooLong(thread'.msgs) => Len(thread'.msgs) = 2)
  BY <1>2, SaveKeeps DEF ThreadTyped
<1>4. ThreadTyped'
  BY <1>1, <1>3 DEF ThreadTyped
<1>5. ASSUME NEW v \in Workers
      PROVE  /\ req'[v].at = "agent" =>
                    /\ loaded'[v].msgs # <<>>
                    /\ loaded'[v].msgs[Len(loaded'[v].msgs)] = Message("user", req'[v].id)
             /\ req'[v].at \in {"save", "save-cancel"} => WholeEnd(loaded'[v].msgs)
  <2>1. CASE v = w
    BY <1>1, <2>1
  <2>2. CASE v # w
    <3>1. req'[v] = req[v] /\ loaded'[v] = loaded[v]
      BY <1>1, <2>2
    <3>2. QED
      BY <3>1 DEF ThreadInv
  <2>3. QED
    BY <2>1, <2>2
<1>6. QED
  BY <1>3, <1>4, <1>5 DEF ThreadInv

\* The reply of a turn completes its exchange.
LEMMA ReplyCompletes ==
    ASSUME NEW th \in Threads, NEW t \in Turns,
           th.msgs # <<>>, th.msgs[Len(th.msgs)] = Message("user", t)
    PROVE  LET reply == [th EXCEPT !.msgs = Append(@, Message("assistant", t))] IN
           /\ reply \in Threads /\ Closed(reply) \in Threads
           /\ Known(reply) = Known(th) \cup {t} /\ Known(Closed(reply)) = Known(th) \cup {t}
           /\ WholeEnd(reply.msgs) /\ WholeEnd(Closed(reply).msgs)
<1> DEFINE reply == [th EXCEPT !.msgs = Append(@, Message("assistant", t))]
<1>1. /\ reply \in Threads
      /\ Len(reply.msgs) = Len(th.msgs) + 1
      /\ \A i \in 1..Len(th.msgs) : reply.msgs[i] = th.msgs[i]
      /\ reply.msgs[Len(reply.msgs)] = Message("assistant", t)
      /\ Known(reply) = Known(th) \cup {t}
  BY AppendTyped
<1> HIDE DEF reply
<1>2. Len(th.msgs) \in Nat /\ Len(th.msgs) # 0
  <2>1. th.msgs \in Seq(Messages)
    BY DEF Threads, Messages
  <2>2. QED
    BY <2>1, EmptySeq, LenProperties
<1>3. WholeEnd(reply.msgs)
  <2>1. Len(reply.msgs) >= 2 /\ Len(reply.msgs) - 1 = Len(th.msgs)
    BY <1>1, <1>2
  <2>2. reply.msgs[Len(reply.msgs) - 1] = Message("user", t)
    <3>1. Len(th.msgs) \in 1..Len(th.msgs)
      BY <1>2
    <3>2. QED
      BY <1>1, <2>1, <3>1
  <2>3. reply.msgs[Len(reply.msgs)].turn = t /\ reply.msgs[Len(reply.msgs)].role = "assistant"
    BY <1>1 DEF Message
  <2>4. QED
    BY <2>1, <2>2, <2>3 DEF WholeEnd
<1>4. QED
  BY <1>1, <1>3, ClosedKeeps DEF reply

\* Every step keeps the threads good and what was saved known.
LEMMA ThreadStep ==
    ASSUME TypeOK, req \in [Workers -> Requests], ThreadInv, NothingForgotten, [Next]_vars
    PROVE  ThreadInv' /\ NothingForgotten' /\ ThreadTyped'
<1>0. ThreadTyped
  BY TypeParts
<1>1. ASSUME UNCHANGED <<thread, loaded, saved, gone>>,
             \A v \in Workers :
                 req'[v].at \in {"agent", "save", "save-cancel"} => req'[v] = req[v]
      PROVE  ThreadInv' /\ NothingForgotten' /\ ThreadTyped'
  <2>1. loaded' \in [Workers -> Threads] /\ \A v \in Workers : loaded'[v] = loaded[v]
    BY <1>0, <1>1 DEF ThreadTyped
  <2>2. QED
    BY <1>0, <1>1, <2>1, ThreadUntouched
<1>2. ASSUME NEW w \in Workers, Finish(w), UNCHANGED <<thread, saved, gone>>
      PROVE  ThreadInv' /\ NothingForgotten' /\ ThreadTyped'
  <2>1. /\ loaded' \in [Workers -> Threads]
        /\ req'[w].at = "idle"
        /\ \A v \in Workers : v # w => req'[v] = req[v] /\ loaded'[v] = loaded[v]
    BY <1>0, <1>2, FinishMoves DEF ThreadTyped
  <2>2. QED
    BY <1>0, <1>2, <2>1, ThreadUntouched
<1>3. ASSUME NEW w \in Workers, Work(w)
      PROVE  ThreadInv' /\ NothingForgotten' /\ ThreadTyped'
  <2>1. CASE \E t \in Turns : Send(w, t)
    <3>1. PICK t \in Turns : Send(w, t)
      BY <2>1
    <3>2. /\ req' = [req EXCEPT ![w] = [at |-> "limit", id |-> t]]
          /\ UNCHANGED <<thread, loaded, saved, gone>>
      BY <3>1 DEF Send
    <3>3. \A v \in Workers : req'[v] = IF v = w THEN [at |-> "limit", id |-> t] ELSE req[v]
      BY <3>2
    <3>4. QED
      BY <1>1, <3>2, <3>3
  <2>2. CASE AskLimit(w) \/ \E n \in Nonces : Mint(w, n)
    BY <1>1, <2>2 DEF AskLimit, Mint
  <2>3. CASE Load(w)
    <3> DEFINE new == [thread EXCEPT !.msgs = Append(@, Message("user", req[w].id))]
    <3>1. /\ Goto(w, "agent") /\ req[w].at = "limit" /\ loaded' = [loaded EXCEPT ![w] = new]
          /\ UNCHANGED <<thread, saved, gone>>
      BY <2>3 DEF Load
    <3>2. req[w].id \in Turns /\ thread \in Threads
      BY <1>0, <3>1, RequestIds DEF ThreadTyped
    <3>3. /\ new \in Threads
          /\ Len(new.msgs) = Len(thread.msgs) + 1
          /\ new.msgs[Len(new.msgs)] = Message("user", req[w].id)
      BY <3>2, AppendTyped
    <3> HIDE DEF new
    <3>4. new.msgs # <<>>
      <4>1. thread.msgs \in Seq(Messages)
        BY <3>2 DEF Threads, Messages
      <4>2. Len(new.msgs) # 0
        BY <3>3, <4>1, LenProperties
      <4>3. QED
        BY <4>2, EmptySeq
    <3>5. /\ req'[w].at = "agent" /\ req'[w].id = req[w].id
          /\ \A v \in Workers : v # w => req'[v] = req[v]
      BY <3>1, GotoMoves DEF Stages
    <3>6. loaded' \in [Workers -> Threads] /\ \A v \in Workers : loaded'[v] = IF v = w THEN new ELSE loaded[v]
      BY <1>0, <3>1, <3>3 DEF ThreadTyped
    <3>7. NothingForgotten' /\ ThreadTyped'
      BY <1>0, <3>1, <3>6 DEF NothingForgotten, ThreadTyped
    <3>8. WholeEnd(thread'.msgs) /\ (TooLong(thread'.msgs) => Len(thread'.msgs) = 2)
      BY <3>1 DEF ThreadInv
    <3>9. ASSUME NEW v \in Workers
          PROVE  /\ req'[v].at = "agent" =>
                        /\ loaded'[v].msgs # <<>>
                        /\ loaded'[v].msgs[Len(loaded'[v].msgs)] = Message("user", req'[v].id)
                 /\ req'[v].at \in {"save", "save-cancel"} => WholeEnd(loaded'[v].msgs)
      <4>1. CASE v = w
        BY <3>3, <3>4, <3>5, <3>6, <4>1
      <4>2. CASE v # w
        <5>1. req'[v] = req[v] /\ loaded'[v] = loaded[v]
          BY <3>5, <3>6, <4>2
        <5>2. QED
          BY <5>1 DEF ThreadInv
      <4>3. QED
        BY <4>1, <4>2
    <3>10. QED
      BY <3>7, <3>8, <3>9 DEF ThreadInv
  <2>4. CASE TooMany(w) \/ AgentError(w) \/ Abort(w)
    BY <1>2, <2>4 DEF TooMany, AgentError, Abort
  <2>5. CASE Answer(w)
    <3> DEFINE reply == [loaded[w] EXCEPT !.msgs = Append(@, Message("assistant", req[w].id))]
    <3>1. req[w].at = "agent" /\ Finish(w) /\ (Save(w, reply, req[w].id) \/ Save(w, Closed(reply), req[w].id))
      BY <2>5 DEF Answer
    <3>2. req[w].id \in Turns /\ req[w].id \in Ids /\ loaded[w] \in Threads
      BY <1>0, <3>1, RequestIds DEF ThreadTyped, Ids
    <3>3. /\ loaded[w].msgs # <<>>
          /\ loaded[w].msgs[Len(loaded[w].msgs)] = Message("user", req[w].id)
      BY <3>1 DEF ThreadInv
    <3>4. /\ reply \in Threads /\ Closed(reply) \in Threads
          /\ Known(reply) = Known(loaded[w]) \cup {req[w].id}
          /\ Known(Closed(reply)) = Known(loaded[w]) \cup {req[w].id}
          /\ WholeEnd(reply.msgs) /\ WholeEnd(Closed(reply).msgs)
      BY <3>2, <3>3, ReplyCompletes
    <3> HIDE DEF reply
    <3>5. CASE Save(w, reply, req[w].id)
      BY <1>0, <3>1, <3>2, <3>4, <3>5, SaveEnds
    <3>6. CASE Save(w, Closed(reply), req[w].id)
      BY <1>0, <3>1, <3>2, <3>4, <3>6, SaveEnds
    <3>7. QED
      BY <3>1, <3>5, <3>6
  <2>6. CASE \E n \in Nonces, d \in {"confirm", "cancel"} : Tap(w, n, d)
    <3>1. PICK n \in Nonces, d \in {"confirm", "cancel"} : Tap(w, n, d)
      BY <2>6
    <3>2. /\ req' = [req EXCEPT ![w] = [at |-> d, id |-> n]]
          /\ UNCHANGED <<thread, loaded, saved, gone>>
      BY <3>1 DEF Tap
    <3>3. \A v \in Workers : req'[v] = IF v = w THEN [at |-> d, id |-> n] ELSE req[v]
      BY <3>2
    <3>4. QED
      BY <1>1, <3>2, <3>3
  <2>7. CASE Cancel(w) \/ Redeem(w)
    <3>1. UNCHANGED <<thread, loaded, saved, gone>>
      BY <2>7 DEF Cancel, Redeem
    <3>2. PICK s \in {"note-cancel", "act", "note"} : Goto(w, s)
      BY <2>7 DEF Cancel, Redeem
    <3>3. s \in Stages
      BY DEF Stages
    <3>4. req'[w].at = s /\ \A v \in Workers : v # w => req'[v] = req[v]
      BY <3>2, <3>3, GotoMoves
    <3>5. QED
      BY <1>1, <3>1, <3>4
  <2>8. CASE Act(w)
    <3>1. UNCHANGED <<thread, loaded, saved, gone>>
      BY <2>8 DEF Act, talkVars
    <3>2. req'[w].at \in {"note", "idle"} /\ \A v \in Workers : v # w => req'[v] = req[v]
      <4>1. CASE Goto(w, "note")
        BY <4>1, GotoMoves DEF Stages
      <4>2. CASE req' = [req EXCEPT ![w] = Idle]
        BY <4>2 DEF Idle
      <4>3. QED
        BY <2>8, <4>1, <4>2 DEF Act
    <3>3. QED
      BY <1>1, <3>1, <3>2
  <2>9. CASE LoadForNote(w)
    <3>1. loaded' = [loaded EXCEPT ![w] = thread] /\ UNCHANGED <<thread, saved, gone>>
      BY <2>9 DEF LoadForNote
    <3>2. PICK s \in {"save", "save-cancel"} : Goto(w, s)
      BY <2>9 DEF LoadForNote
    <3>3. s \in Stages
      BY DEF Stages
    <3>4. req'[w].at = s /\ \A v \in Workers : v # w => req'[v] = req[v]
      BY <3>2, <3>3, GotoMoves
    <3>5. loaded' \in [Workers -> Threads] /\ \A v \in Workers : loaded'[v] = IF v = w THEN thread ELSE loaded[v]
      BY <1>0, <3>1 DEF ThreadTyped
    <3>6. NothingForgotten' /\ ThreadTyped'
      BY <1>0, <3>1, <3>5 DEF NothingForgotten, ThreadTyped
    <3>7. WholeEnd(thread'.msgs) /\ (TooLong(thread'.msgs) => Len(thread'.msgs) = 2)
      BY <3>1 DEF ThreadInv
    <3>8. ASSUME NEW v \in Workers
          PROVE  /\ req'[v].at = "agent" =>
                        /\ loaded'[v].msgs # <<>>
                        /\ loaded'[v].msgs[Len(loaded'[v].msgs)] = Message("user", req'[v].id)
                 /\ req'[v].at \in {"save", "save-cancel"} => WholeEnd(loaded'[v].msgs)
      <4>1. CASE v = w
        <5>1. loaded'[v] = thread' /\ req'[v].at # "agent"
          BY <3>1, <3>4, <3>5, <4>1
        <5>2. QED
          BY <3>7, <5>1
      <4>2. CASE v # w
        <5>1. req'[v] = req[v] /\ loaded'[v] = loaded[v]
          BY <3>4, <3>5, <4>2
        <5>2. QED
          BY <5>1 DEF ThreadInv
      <4>3. QED
        BY <4>1, <4>2
    <3>9. QED
      BY <3>6, <3>7, <3>8 DEF ThreadInv
  <2>10. CASE SaveNote(w)
    <3> DEFINE new == [loaded[w] EXCEPT !.log = @ \cup Log("button", {req[w].id})]
    <3>1. req[w].at \in {"save", "save-cancel"} /\ Save(w, new, req[w].id) /\ Finish(w)
      BY <2>10 DEF SaveNote
    <3>2. req[w].id \in Nonces /\ req[w].id \in Ids /\ loaded[w] \in Threads
      BY <1>0, <3>1, RequestIds DEF ThreadTyped, Ids
    <3>3. new \in Threads /\ new.msgs = loaded[w].msgs /\ Known(new) = Known(loaded[w]) \cup {req[w].id}
      BY <3>2, NotedTyped
    <3>4. WholeEnd(new.msgs)
      BY <3>1, <3>3 DEF ThreadInv
    <3> HIDE DEF new
    <3>5. QED
      BY <1>0, <3>1, <3>2, <3>3, <3>4, SaveEnds
  <2>11. QED
    BY <1>3, <2>1, <2>2, <2>3, <2>4, <2>5, <2>6, <2>7, <2>8, <2>9, <2>10 DEF Work
<1>4. CASE Forget
  <2>1. /\ thread' = Fresh /\ gone' = gone \cup Known(thread)
        /\ UNCHANGED <<req, loaded, saved>>
    BY <1>4 DEF Forget
  <2>2. Fresh \in Threads /\ Fresh.msgs = <<>> /\ Len(Fresh.msgs) = 0 /\ Fresh.msgs \in Seq(Messages)
    <3>1. <<>> \in Seq(Messages) /\ Len(<<>>) = 0
      BY EmptySeq
    <3>2. QED
      BY <3>1 DEF Fresh, Threads, Messages
  <2>3. WholeEnd(thread'.msgs) /\ ~TooLong(thread'.msgs)
    BY <2>1, <2>2, NothingFits DEF WholeEnd
  <2>4. thread \in Threads /\ gone' \in SUBSET Ids
    BY <1>0, <2>1, KnownIds DEF ThreadTyped
  <2>5. ThreadTyped' /\ NothingForgotten'
    BY <1>0, <2>1, <2>2, <2>4 DEF ThreadTyped, NothingForgotten
  <2>6. QED
    BY <2>1, <2>3, <2>5 DEF ThreadInv
<1>5. QED
  BY <1>1, <1>3, <1>4 DEF Next, vars, Expire, NewWindow

----------------------------------------------------------------------------
(* Confirmations under the steps of the requests.                          *)

\* A nonce that no request takes up, executes or decides on keeps what holds
\* of it; it may expire, and its buttons may be shown if it was minted.
LEMMA NonceUntouched ==
    ASSUME NEW n \in Nonces, NonceOnce(n), NonceCancelled(n),
           n \in pending' => n \in pending,
           n \in shown' => n \in shown \/ minted[n] # None,
           n \in told' <=> n \in told,
           n \in crossed <=> n \in crossed',
           ran'[n] = ran[n], minted'[n] = minted[n],
           \A v \in Workers : req'[v] = req[v] \/ (req[v].id # n /\ req'[v].id # n) \/ req'[v].id # n
    PROVE  NonceOnce(n)' /\ NonceCancelled(n)'
<1>1. NonceOnce(n)'
  BY DEF NonceOnce
<1>2. NonceCancelled(n)'
  BY DEF NonceCancelled
<1>3. QED
  BY <1>1, <1>2

\* The confirmations stay sound under every step.
LEMMA NonceStep ==
    ASSUME TypeOK, req \in [Workers -> Requests], NonceInv, [Next]_vars
    PROVE  NonceInv'
<1>0. RestTyped /\ loaded \in [Workers -> Threads] /\ None \notin Ids /\ Turns \cap Nonces = {}
  BY TypeParts, ConversationAssumption DEF ThreadTyped, Ids
<1>1. ASSUME UNCHANGED <<pending, minted, ran, told, crossed>>,
             \A n \in Nonces : n \in shown' => n \in shown \/ minted[n] # None,
             \A v \in Workers : req'[v] = req[v] \/ req'[v].id \notin Nonces
      PROVE  NonceInv'
  BY <1>1, NonceUntouched DEF NonceInv
<1>2. ASSUME NEW w \in Workers, Finish(w),
             UNCHANGED <<pending, minted, ran, told, crossed>>,
             \A n \in Nonces : n \in shown' => n \in shown \/ minted[n] # None
      PROVE  NonceInv'
  <2>1. req'[w].id = None /\ \A v \in Workers : v # w => req'[v] = req[v]
    BY <1>0, <1>2, FinishMoves
  <2>2. req'[w].id \notin Nonces
    BY <1>0, <2>1 DEF Ids
  <2>3. QED
    BY <1>1, <1>2, <2>1, <2>2
\* A step of a request for n changes nothing for the other nonces.
<1>3. ASSUME NEW w \in Workers, NEW n \in Nonces, req[w].id = n,
             \A m \in Nonces \ {n} :
                 /\ m \in pending' => m \in pending
                 /\ m \in shown' => m \in shown
                 /\ m \in told' <=> m \in told
                 /\ m \in crossed' <=> m \in crossed
                 /\ ran'[m] = ran[m] /\ minted'[m] = minted[m],
             \A v \in Workers : v # w => req'[v] = req[v],
             req'[w].id = n \/ req'[w].id \notin Nonces,
             NonceOnce(n)' /\ NonceCancelled(n)'
      PROVE  NonceInv'
  <2>1. ASSUME NEW m \in Nonces, m # n
        PROVE  NonceOnce(m)' /\ NonceCancelled(m)'
    <3>1. \A v \in Workers : req'[v] = req[v] \/ req'[v].id # m
      BY <1>3, <2>1
    <3>2. QED
      BY <1>3, <2>1, <3>1, NonceUntouched DEF NonceInv
  <2>2. QED
    BY <1>3, <2>1 DEF NonceInv
<1>4. ASSUME NEW w \in Workers, Work(w)
      PROVE  NonceInv'
  <2>1. CASE \E t \in Turns : Send(w, t)
    <3>1. PICK t \in Turns : Send(w, t)
      BY <2>1
    <3>2. /\ req' = [req EXCEPT ![w] = [at |-> "limit", id |-> t]]
          /\ UNCHANGED <<pending, minted, ran, told, crossed, shown>>
      BY <3>1 DEF Send, histVars
    <3>3. \A v \in Workers : req'[v] = IF v = w THEN [at |-> "limit", id |-> t] ELSE req[v]
      BY <3>2
    <3>4. t \notin Nonces
      BY <1>0
    <3>5. QED
      BY <1>1, <3>2, <3>3, <3>4
  <2>2. CASE AskLimit(w)
    BY <1>1, <2>2 DEF AskLimit, talkVars, histVars
  <2>3. CASE Load(w)
    <3>1. /\ Goto(w, "agent") /\ req[w].at = "limit"
          /\ UNCHANGED <<pending, minted, ran, told, crossed, shown>>
      BY <2>3 DEF Load, talkVars, histVars
    <3>2. req[w].id \notin Nonces
      BY <1>0, <3>1, RequestIds
    <3>3. req'[w].id = req[w].id /\ \A v \in Workers : v # w => req'[v] = req[v]
      BY <3>1, GotoMoves DEF Stages
    <3>4. QED
      BY <1>1, <3>1, <3>2, <3>3
  <2>4. CASE TooMany(w) \/ Abort(w)
    BY <1>2, <2>4 DEF TooMany, Abort, talkVars, histVars
  <2>5. CASE Answer(w) \/ AgentError(w)
    <3>1. req[w].id \in Turns /\ None \notin Turns
      BY <1>0, <2>5, RequestIds DEF Answer, AgentError, Ids
    <3>2. \A n \in Nonces : n \in shown' => n \in shown \/ minted[n] # None
      BY <2>5, <3>1 DEF Answer, AgentError, MintedBy
    <3>3. QED
      BY <1>2, <2>5, <3>2 DEF Answer, AgentError, histVars
  <2>6. ASSUME NEW n \in Nonces, Mint(w, n)
        PROVE  NonceInv'
    <3>1. /\ minted[n] = None /\ minted' = [minted EXCEPT ![n] = req[w].id]
          /\ pending' = pending \cup {n} /\ req[w].at = "agent"
          /\ UNCHANGED <<req, shown, ran, told, crossed>>
      BY <2>6 DEF Mint, histVars
    <3>2. /\ n \notin told /\ ran[n] = 0 /\ n \notin shown
          /\ \A v \in Workers : req[v].id # n
      BY <3>1 DEF NonceInv, NonceOnce
    <3>3. minted'[n] # None /\ \A m \in Nonces : m # n => minted'[m] = minted[m]
      <4>1. req[w].id \in Turns /\ None \notin Turns
        BY <1>0, <3>1, RequestIds DEF Ids
      <4>2. QED
        BY <1>0, <3>1, <4>1 DEF RestTyped
    <3>4. NonceOnce(n)'
      BY <3>1, <3>2, <3>3 DEF NonceOnce
    <3>5. NonceCancelled(n)'
      BY <3>1, <3>2 DEF NonceCancelled
    <3>6. ASSUME NEW m \in Nonces, m # n
          PROVE  NonceOnce(m)' /\ NonceCancelled(m)'
      BY <3>1, <3>3, <3>6, NonceUntouched DEF NonceInv
    <3>7. QED
      BY <3>4, <3>5, <3>6 DEF NonceInv
  <2>7. ASSUME NEW n \in Nonces, NEW d \in {"confirm", "cancel"}, Tap(w, n, d)
        PROVE  NonceInv'
    <3>1. /\ req[w] = Idle /\ n \in shown /\ n \in pending
          /\ req' = [req EXCEPT ![w] = [at |-> d, id |-> n]]
          /\ crossed' = IF At(n) = {} THEN crossed ELSE crossed \cup {n}
          /\ UNCHANGED <<pending, minted, shown, ran, told>>
      BY <2>7 DEF Tap
    <3>2. /\ req'[w].at = d /\ req'[w].id = n
          /\ \A v \in Workers : v # w => req'[v] = req[v]
      BY <3>1
    <3>3. NonceOnce(n) /\ NonceCancelled(n)
      BY DEF NonceInv
    <3>4. minted[n] # None /\ ran[n] = 0
      BY <3>1, <3>3 DEF NonceOnce
    <3>5. NonceOnce(n)'
      BY <3>1, <3>2, <3>3, <3>4 DEF NonceOnce
    <3>6. NonceCancelled(n)'
      <4>1. ASSUME NEW v \in Workers, req'[v].id = n /\ req'[v].at \in {"note-cancel", "save-cancel"}
            PROVE  n \notin pending'
        <5>1. v # w
          BY <3>2, <4>1
        <5>2. QED
          BY <3>1, <3>2, <3>3, <4>1, <5>1 DEF NonceCancelled
      <4>2. ASSUME n \notin crossed'
            PROVE  /\ n \notin told
                   /\ \A v \in Workers : v # w => req'[v].id # n
        <5>1. At(n) = {} /\ n \notin crossed
          BY <3>1, <4>2
        <5>2. \A v \in Workers : req[v].id # n
          BY <5>1 DEF At
        <5>3. QED
          BY <3>1, <3>2, <3>3, <5>1, <5>2 DEF NonceCancelled
      <4>3. QED
        BY <3>1, <3>4, <4>1, <4>2 DEF NonceCancelled
    <3>7. ASSUME NEW m \in Nonces, m # n
          PROVE  NonceOnce(m)' /\ NonceCancelled(m)'
      <4>1. m \in crossed <=> m \in crossed'
        BY <3>1, <3>7
      <4>2. \A v \in Workers : req'[v] = req[v] \/ req'[v].id # m
        BY <3>2, <3>7
      <4>3. QED
        BY <3>1, <4>1, <4>2, NonceUntouched DEF NonceInv
    <3>8. QED
      BY <3>5, <3>6, <3>7 DEF NonceInv
  <2>8. CASE Cancel(w)
    <3>1. PICK n \in Nonces : n = req[w].id
      BY <2>8, RequestIds DEF Cancel
    <3>2. /\ req[w].at = "cancel" /\ pending' = pending \ {n} /\ Goto(w, "note-cancel")
          /\ UNCHANGED <<minted, shown, ran, told, crossed>>
      BY <2>8, <3>1 DEF Cancel, Taken, histVars
    <3>3. /\ req'[w].at = "note-cancel" /\ req'[w].id = n
          /\ \A v \in Workers : v # w => req'[v] = req[v]
      BY <3>1, <3>2, GotoMoves DEF Stages
    <3>4. NonceOnce(n) /\ NonceCancelled(n) /\ req[w].id = n
      BY <3>1 DEF NonceInv
    <3>5. NonceOnce(n)'
      BY <3>2, <3>3, <3>4 DEF NonceOnce
    <3>6. NonceCancelled(n)'
      BY <3>2, <3>3, <3>4 DEF NonceCancelled
    <3>7. QED
      BY <1>3, <3>1, <3>2, <3>3, <3>5, <3>6
  <2>9. CASE Redeem(w)
    <3>1. PICK n \in Nonces : n = req[w].id
      BY <2>9, RequestIds DEF Redeem
    <3> DEFINE s == IF n \in pending THEN "act" ELSE "note"
    <3>2. /\ req[w].at = "confirm" /\ pending' = pending \ {n} /\ Goto(w, s)
          /\ UNCHANGED <<minted, shown, ran, told, crossed>>
      BY <2>9, <3>1 DEF Redeem, Taken, histVars
    <3>3. /\ req'[w].at = s /\ req'[w].id = n
          /\ \A v \in Workers : v # w => req'[v] = req[v]
      BY <3>1, <3>2, GotoMoves DEF Stages
    <3>4. NonceOnce(n) /\ NonceCancelled(n) /\ req[w].id = n
      BY <3>1 DEF NonceInv
    <3>5. NonceOnce(n)'
      BY <3>2, <3>3, <3>4 DEF NonceOnce
    <3>6. NonceCancelled(n)'
      BY <3>2, <3>3, <3>4 DEF NonceCancelled
    <3>7. QED
      BY <1>3, <3>1, <3>2, <3>3, <3>5, <3>6
  <2>10. CASE Act(w)
    <3>1. PICK n \in Nonces : n = req[w].id
      BY <2>10, RequestIds DEF Act
    <3>2. /\ req[w].at = "act" /\ ran' \in {ran, [ran EXCEPT ![n] = @ + 1]}
          /\ Goto(w, "note") \/ req' = [req EXCEPT ![w] = Idle]
          /\ UNCHANGED <<pending, minted, shown, told, crossed>>
      BY <2>10, <3>1 DEF Act, talkVars
    <3>3. /\ \/ req'[w].at = "note" /\ req'[w].id = n
             \/ req'[w].at = "idle" /\ req'[w].id = None
          /\ \A v \in Workers : v # w => req'[v] = req[v]
      <4>1. CASE Goto(w, "note")
        BY <3>1, <4>1, GotoMoves DEF Stages
      <4>2. CASE req' = [req EXCEPT ![w] = Idle]
        BY <4>2 DEF Idle
      <4>3. QED
        BY <3>2, <4>1, <4>2
    <3>4. NonceOnce(n) /\ NonceCancelled(n)
      BY <3>1 DEF NonceInv
    <3>5. ran[n] = 0 /\ n \notin pending
      BY <3>1, <3>2, <3>4 DEF NonceOnce
    <3>6. (ran'[n] = 0 \/ ran'[n] = 1) /\ \A m \in Nonces : m # n => ran'[m] = ran[m]
      BY <1>0, <3>1, <3>2, <3>5 DEF RestTyped
    <3>7. req[w].id = n /\ minted[n] # None
      BY <3>1, <3>4 DEF NonceOnce
    <3>8. NonceOnce(n)'
      <4>1. \A v \in Workers : ~(req'[v].at = "act" /\ req'[v].id = n)
        <5>1. ~(req'[w].at = "act")
          BY <3>3
        <5>2. ASSUME NEW v \in Workers, v # w, req'[v].at = "act", req'[v].id = n
              PROVE  FALSE
          BY <3>2, <3>3, <3>4, <3>7, <5>2 DEF NonceOnce
        <5>3. QED
          BY <5>1, <5>2
      <4>2. QED
        BY <3>2, <3>5, <3>6, <3>7, <4>1 DEF NonceOnce
    <3>9. NonceCancelled(n)'
      <4>1. ASSUME NEW v \in Workers, req'[v].id = n, req'[v].at \in {"note-cancel", "save-cancel"}
            PROVE  n \notin pending'
        BY <3>2, <3>5
      <4>2. ASSUME n \notin crossed'
            PROVE  /\ n \notin told
                   /\ \A v \in Workers : v # w => req'[v].id # n
        BY <3>2, <3>3, <3>4, <3>7, <4>2 DEF NonceCancelled
      <4>3. req'[w].at \in {"note", "idle"}
        BY <3>3
      <4>4. QED
        BY <3>2, <4>1, <4>2, <4>3 DEF NonceCancelled
    <3>10. req'[w].id = n \/ req'[w].id \notin Nonces
      BY <1>0, <3>3 DEF Ids
    <3>11. QED
      BY <1>3, <3>1, <3>2, <3>3, <3>6, <3>8, <3>9, <3>10
  <2>11. CASE LoadForNote(w)
    <3>1. PICK n \in Nonces : n = req[w].id
      BY <2>11, RequestIds DEF LoadForNote
    <3> DEFINE s == IF req[w].at = "note" THEN "save" ELSE "save-cancel"
    <3>2. /\ req[w].at \in {"note", "note-cancel"} /\ Goto(w, s)
          /\ UNCHANGED <<pending, ran, minted, shown, told, crossed>>
      BY <2>11, <3>1 DEF LoadForNote, talkVars, histVars
    <3>3. /\ req'[w].at = s /\ req'[w].id = n
          /\ \A v \in Workers : v # w => req'[v] = req[v]
      BY <3>1, <3>2, GotoMoves DEF Stages
    <3>4. NonceOnce(n) /\ NonceCancelled(n) /\ req[w].id = n
      BY <3>1 DEF NonceInv
    <3>5. NonceOnce(n)'
      BY <3>2, <3>3, <3>4 DEF NonceOnce
    <3>6. NonceCancelled(n)'
      BY <3>2, <3>3, <3>4 DEF NonceCancelled
    <3>7. QED
      BY <1>3, <3>1, <3>2, <3>3, <3>5, <3>6
  <2>12. CASE SaveNote(w)
    <3>1. PICK n \in Nonces : n = req[w].id
      BY <2>12, RequestIds DEF SaveNote
    <3>2. /\ req[w].at \in {"save", "save-cancel"} /\ Finish(w)
          /\ told' = IF req[w].at = "save" THEN told ELSE told \cup {n}
          /\ UNCHANGED <<pending, ran, minted, shown, crossed>>
      BY <2>12, <3>1 DEF SaveNote, talkVars
    <3>3. /\ req'[w].at = "idle" /\ req'[w].id = None /\ None \notin Nonces
          /\ \A v \in Workers : v # w => req'[v] = req[v]
      BY <1>0, <3>2, FinishMoves DEF Ids
    <3>4. NonceOnce(n) /\ NonceCancelled(n) /\ req[w].id = n
      BY <3>1 DEF NonceInv
    <3>5. minted[n] # None
      BY <3>4 DEF NonceOnce
    <3>6. NonceOnce(n)'
      BY <3>1, <3>2, <3>3, <3>4, <3>5 DEF NonceOnce
    <3>7. NonceCancelled(n)'
      <4>1. CASE req[w].at = "save"
        BY <3>1, <3>2, <3>3, <3>4, <4>1 DEF NonceCancelled
      <4>2. CASE req[w].at = "save-cancel"
        <5>1. n \notin pending
          BY <3>4, <4>2 DEF NonceCancelled
        <5>2. ASSUME n \notin crossed
              PROVE  ran[n] = 0 /\ \A v \in Workers : req'[v].id # n
          BY <3>1, <3>3, <3>4, <4>2, <5>2 DEF NonceCancelled
        <5>3. QED
          BY <3>1, <3>2, <3>3, <5>1, <5>2 DEF NonceCancelled
      <4>3. QED
        BY <3>2, <4>1, <4>2
    <3>8. QED
      BY <1>3, <3>1, <3>2, <3>3, <3>6, <3>7
  <2>13. QED
    BY <1>4, <2>1, <2>2, <2>3, <2>4, <2>5, <2>6, <2>7, <2>8, <2>9, <2>10, <2>11, <2>12 DEF Work
<1>5. CASE \E n \in Nonces : Expire(n)
  BY <1>5, NonceUntouched DEF Expire, histVars, NonceInv
<1>6. CASE Forget \/ NewWindow
  BY <1>1, <1>6 DEF Forget, NewWindow, talkVars, histVars
<1>7. CASE UNCHANGED vars
  BY <1>1, <1>7 DEF vars, talkVars, histVars
<1>8. QED
  BY <1>4, <1>5, <1>6, <1>7 DEF Next

----------------------------------------------------------------------------
(* Theorems.                                                               *)

\* The invariant holds at first ...
LEMMA TalkInit == Init => TalkInv
<1> SUFFICES ASSUME Init PROVE TalkInv
  OBVIOUS
<1>1. Fresh \in Threads /\ Fresh.msgs = <<>> /\ Len(Fresh.msgs) = 0 /\ Fresh.msgs \in Seq(Messages)
  <2>1. <<>> \in Seq(Messages) /\ Len(<<>>) = 0
    BY EmptySeq
  <2>2. QED
    BY <2>1 DEF Fresh, Threads, Messages
<1>2. Idle \in Requests /\ Idle.at = "idle" /\ Idle.id = None
  BY DEF Idle, Requests, Stages
<1>3. req \in [Workers -> Requests] /\ \A w \in Workers : req[w] = Idle
  BY <1>2 DEF Init
<1>4. LimitTypeOK /\ CounterExpires
  BY LimitStarts DEF Init
<1>5. RestTyped
  <2>1. 0 \in 0..MaxTaps
    BY ConversationAssumption
  <2>2. minted \in [Nonces -> Turns \cup {None}] /\ ran \in [Nonces -> Nat]
    BY DEF Init
  <2>3. QED
    BY <2>1, <2>2 DEF Init, RestTyped
<1>6. ThreadTyped
  BY <1>1 DEF Init, ThreadTyped
<1>7. TypeOK
  BY <1>3, <1>4, <1>5, <1>6, TypeParts DEF RequestsOK
<1>8. NonceInv
  <2>1. \A w \in Workers : req[w].at = "idle" /\ req[w].id = None
    BY <1>2, <1>3
  <2>2. None \notin Nonces
    BY ConversationAssumption
  <2>3. ASSUME NEW n \in Nonces
        PROVE  /\ n \notin pending /\ n \notin shown /\ n \notin told /\ ran[n] = 0
               /\ \A w \in Workers : req[w].id # n
    BY <2>1, <2>2 DEF Init
  <2>4. QED
    BY <2>1, <2>3 DEF NonceInv, NonceOnce, NonceCancelled
<1>9. ThreadInv
  <2>1. thread = Fresh /\ \A w \in Workers : req[w].at = "idle"
    BY <1>2, <1>3 DEF Init
  <2>2. WholeEnd(thread.msgs) /\ ~TooLong(thread.msgs)
    BY <1>1, <2>1, NothingFits DEF WholeEnd
  <2>3. QED
    BY <2>1, <2>2 DEF ThreadInv
<1>10. NothingForgotten
  BY DEF Init, NothingForgotten
<1>11. QED
  BY <1>3, <1>4, <1>7, <1>8, <1>9, <1>10 DEF TalkInv

\* ... and after every step.
LEMMA TalkNext ==
    ASSUME TalkInv, [Next]_vars
    PROVE  TalkInv'
<1>1. /\ TypeOK /\ CounterExpires /\ req \in [Workers -> Requests]
      /\ NonceInv /\ ThreadInv /\ NothingForgotten
  BY DEF TalkInv
<1>2. LimitTypeOK' /\ CounterExpires'
  BY <1>1, NextLimits, LimitNextKeeps DEF TypeOK
<1>3. RequestsOK' /\ req' \in [Workers -> Requests]
  BY <1>1, RequestStep
<1>4. RestTyped'
  BY <1>1, RestStep
<1>5. ThreadInv' /\ NothingForgotten' /\ ThreadTyped'
  BY <1>1, ThreadStep
<1>6. NonceInv'
  BY <1>1, NonceStep
<1>7. TypeOK'
  BY <1>2, <1>3, <1>4, <1>5 DEF TypeOK, RequestsOK, RestTyped, ThreadTyped
<1>8. QED
  BY <1>2, <1>3, <1>5, <1>6, <1>7 DEF TalkInv

\* The inductive invariant of the conversations.
THEOREM TalkInvariant == Spec => []TalkInv
BY TalkInit, TalkNext, PTL DEF Spec

\* Every variable has its type.
THEOREM TalkTyped == Spec => []TypeOK
<1>1. TalkInv => TypeOK
  BY DEF TalkInv
<1>2. QED
  BY <1>1, TalkInvariant, PTL

\* A confirmed action runs at most once (RunsOnce): a request that is about
\* to execute it has taken the nonce, and there is one such request at most.
THEOREM TalkRunsOnce == Spec => []RunsOnce
<1>1. TalkInv => RunsOnce
  BY DEF TalkInv, NonceInv, NonceOnce, RunsOnce
<1>2. QED
  BY <1>1, TalkInvariant, PTL

\* What was told to be cancelled runs neither before nor after, unless two
\* requests for the nonce overlapped (CancelledNeverRuns).
THEOREM TalkCancelledNeverRuns == Spec => []CancelledNeverRuns
<1>1. ASSUME TalkInv PROVE CancelledNeverRuns
  <2>1. ASSUME NEW n \in told, n \notin crossed PROVE ran[n] = 0
    <3>1. n \in Nonces
      BY <1>1 DEF TalkInv, TypeOK
    <3>2. QED
      BY <1>1, <2>1, <3>1 DEF TalkInv, NonceInv, NonceCancelled
  <2>2. QED
    BY <2>1 DEF CancelledNeverRuns
<1>2. QED
  BY <1>1, TalkInvariant, PTL

\* Saving, closing, trimming and noting lose no turn and no decision but
\* those another request overwrote or a reset dropped (NothingForgotten).
THEOREM TalkNothingForgotten == Spec => []NothingForgotten
<1>1. TalkInv => NothingForgotten
  BY DEF TalkInv
<1>2. QED
  BY <1>1, TalkInvariant, PTL

\* The thread that is stored fits the limit or is one exchange, and ends with
\* a whole exchange (ThreadFits), for messages and limits of any size.
THEOREM TalkThreadFits == Spec => []ThreadFits
<1>1. ASSUME TalkInv PROVE ThreadFits
  <2>1. thread.msgs \in Seq(Messages)
    BY <1>1, TypeParts DEF TalkInv, ThreadTyped, Threads, Messages
  <2>2. Len(thread.msgs) # 0 => thread.msgs # <<>>
    BY <2>1, EmptySeq
  <2>3. QED
    BY <1>1, <2>2 DEF TalkInv, ThreadInv, WholeEnd, ThreadFits
<1>2. QED
  BY <1>1, TalkInvariant, PTL
=============================================================================
