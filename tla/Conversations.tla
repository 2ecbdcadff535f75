---------------------------- MODULE Conversations ----------------------------
(***************************************************************************)
(* One user's conversation: the thread in Redis, the turns of the agent    *)
(* and the buttons that confirm an action.                                 *)
(*                                                                         *)
(* A turn passes the rate limit, loads the thread, lets the agent work for *)
(* minutes and then saves the whole thread.  A tool that needs a           *)
(* confirmation stores a nonce in Redis; the frontend shows its buttons    *)
(* when the stream has ended.  A button's request looks at the nonce, lets *)
(* the tool consume it (or consumes it itself, to cancel), and notes the   *)
(* outcome in the thread by another load and save.  The frontend handles   *)
(* updates concurrently, and the backend has no lock per user.             *)
(***************************************************************************)
EXTENDS Naturals, Sequences, FiniteSets, RateLimit

CONSTANTS
    Turns,         \* messages of the user
    Nonces,        \* confirmations
    None,          \* neither
    Big,           \* the turns whose message alone exceeds the limit
    HotMax,        \* conversation_hot_max_tokens, in small messages
    MaxTaps        \* bound: so many taps on buttons

ASSUME ConversationAssumption ==
    /\ Turns \cap Nonces = {} /\ None \notin Turns \cup Nonces
    /\ Big \subseteq Turns
    /\ HotMax \in Nat /\ MaxTaps \in Nat

VARIABLES
    thread,        \* messages and compacted_log
    pending,       \* nonces in Redis
    shown,         \* nonces whose buttons the user sees
    sent,          \* turns the user has sent
    minted,        \* the turn in which each nonce was minted
    req,           \* the request each worker is at
    loaded,        \* the thread it has loaded
    taps,          \* how many taps there were
    ran,           \* how often each nonce's action was executed
    told,          \* nonces whose action the user was told is cancelled
    crossed,       \* history: nonces of two requests at the same time
    saved,         \* history: turns and decisions saved in the thread
    gone           \* history: overwritten by a save, or dropped by a reset

talkVars == <<pending, shown, sent, minted, taps>>
histVars == <<ran, told, crossed>>
vars == <<thread, req, loaded, talkVars, histVars, saved, gone, limitVars>>

Workers == Callers
Ids == Turns \cup Nonces
Fresh == [msgs |-> <<>>, log |-> {}]
Idle == [at |-> "idle", id |-> None]

\* The turns and nonces of a thread: its messages', and those its compacted
\* log has a line for.
InMessages(ms) == {ms[i].turn : i \in DOMAIN ms}
Known(th) == InMessages(th.msgs) \cup UNION {e.of : e \in th.log}

Init ==
    /\ LimitInit
    /\ thread = Fresh
    /\ pending = {} /\ shown = {} /\ sent = {}
    /\ minted = [n \in Nonces |-> None]
    /\ req = [w \in Workers |-> Idle]
    /\ loaded = [w \in Workers |-> Fresh]
    /\ taps = 0
    /\ ran = [n \in Nonces |-> 0]
    /\ told = {} /\ crossed = {} /\ saved = {} /\ gone = {}

Goto(w, at) == req' = [req EXCEPT ![w].at = at]
Finish(w) ==
    /\ req' = [req EXCEPT ![w] = Idle]
    /\ loaded' = [loaded EXCEPT ![w] = Fresh]

----------------------------------------------------------------------------
(* The thread: messages, closing a scenario, the size guardrail.           *)

\* Seeded fault: the provider's name for the role is stored.
MessageOfModel(role, t) ==
    [role |-> IF role = "assistant" THEN "model" ELSE role, turn |-> t]

\* A message of turn t, of the user or of the assistant.
Message(role, t) == [role |-> role, turn |-> t]

IsBig(m) == m.role = "user" /\ m.turn \in Big
Tokens(ms) == Len(ms) + HotMax * Cardinality({i \in DOMAIN ms : IsBig(ms[i])})
TooLong(ms) == Tokens(ms) > HotMax

\* Seeded fault: dropped messages leave no line.
LogNothing(kind, ids) == {}

\* A line of the compacted log.
Log(kind, ids) == {[kind |-> kind, of |-> ids]}

\* The first k messages leave the thread for a line of the log.
Compacted(th, k, kind) ==
    [msgs |-> SubSeq(th.msgs, k + 1, Len(th.msgs)),
     log |-> th.log \cup Log(kind, InMessages(SubSeq(th.msgs, 1, k)))]

\* _apply_scenario_close: all but the last exchange.
Closed(th) ==
    Compacted(th, IF Len(th.msgs) > 2 THEN Len(th.msgs) - 2 ELSE 0, "closed")

\* Seeded fault: the last exchange may be dropped too.
EnoughDroppedToFit(ms, k) == ~TooLong(SubSeq(ms, k + 1, Len(ms)))

\* _enforce_size_guardrail: as few of the oldest as make the rest fit, and
\* the last two stay.
EnoughDropped(ms, k) ==
    Len(ms) - k <= 2 \/ ~TooLong(SubSeq(ms, k + 1, Len(ms)))

Trimmed(th) ==
    LET ks == {k \in 0..Len(th.msgs) : EnoughDropped(th.msgs, k)}
        k == CHOOSE i \in ks : \A j \in ks : i <= j
    IN  IF k = 0 THEN th ELSE Compacted(th, k, "trimmed")

\* The whole thread is written, whatever it has become since it was loaded.
Save(w, th, id) ==
    /\ thread' = Trimmed(th)
    /\ saved' = saved \cup {id}
    /\ gone' = gone \cup (Known(thread) \ Known(loaded[w]))

----------------------------------------------------------------------------
(* Turns.                                                                  *)

\* A message arrives; the rate limit is asked.
Send(w, t) ==
    /\ req[w] = Idle
    /\ t \notin sent
    /\ sent' = sent \cup {t}
    /\ req' = [req EXCEPT ![w] = [at |-> "limit", id |-> t]]
    /\ UNCHANGED <<thread, loaded, pending, shown, minted, taps, histVars, saved, gone, limitVars>>

\* A command of the check that does not decide it.
AskLimit(w) ==
    /\ req[w].at = "limit"
    /\ Hit(w) \/ SetExpiry(w)
    /\ UNCHANGED <<thread, req, loaded, talkVars, histVars, saved, gone>>

\* The check passes; the thread is loaded and the message appended.
Load(w) ==
    /\ req[w].at = "limit"
    /\ Pass(w) \/ PassOnError(w)
    /\ Goto(w, "agent")
    /\ loaded' = [loaded EXCEPT ![w] =
                     [thread EXCEPT !.msgs = Append(@, Message("user", req[w].id))]]
    /\ UNCHANGED <<thread, talkVars, histVars, saved, gone>>

\* 429.
TooMany(w) ==
    /\ req[w].at = "limit"
    /\ Refuse(w)
    /\ Finish(w)
    /\ UNCHANGED <<thread, talkVars, histVars, saved, gone>>

\* A tool asks for a confirmation (_gate_with_confirmation without a token).
Mint(w, n) ==
    /\ req[w].at = "agent"
    /\ minted[n] = None
    /\ minted' = [minted EXCEPT ![n] = req[w].id]
    /\ pending' = pending \cup {n}
    /\ UNCHANGED <<thread, req, loaded, shown, sent, taps, histVars, saved, gone, limitVars>>

MintedBy(t) == {n \in Nonces : minted[n] = t}

\* The turn ends: the reply is appended, a closed scenario compacted, the
\* thread trimmed and saved.  The frontend shows the buttons of the
\* confirmations, if the end of the stream reaches it.
Answer(w) ==
    LET reply == [loaded[w] EXCEPT !.msgs = Append(@, Message("assistant", req[w].id))] IN
    /\ req[w].at = "agent"
    /\ Save(w, reply, req[w].id) \/ Save(w, Closed(reply), req[w].id)
    /\ shown' \in {shown, shown \cup MintedBy(req[w].id)}
    /\ Finish(w)
    /\ UNCHANGED <<pending, sent, minted, taps, histVars, limitVars>>

\* The agent has failed: nothing is saved; the buttons are shown.
AgentError(w) ==
    /\ req[w].at = "agent"
    /\ shown' = shown \cup MintedBy(req[w].id)
    /\ Finish(w)
    /\ UNCHANGED <<thread, pending, sent, minted, taps, histVars, saved, gone, limitVars>>

----------------------------------------------------------------------------
(* Buttons.                                                                *)

At(n) == {w \in Workers : req[w].id = n}

\* A tap whose request finds the nonce (peek); otherwise it is a 404.  The
\* keyboard may still be there for another tap.
Tap(w, n, decision) ==
    /\ req[w] = Idle
    /\ n \in shown \cap pending
    /\ taps < MaxTaps
    /\ taps' = taps + 1
    /\ req' = [req EXCEPT ![w] = [at |-> decision, id |-> n]]
    /\ crossed' = IF At(n) = {} THEN crossed ELSE crossed \cup {n}
    /\ UNCHANGED <<thread, loaded, pending, shown, sent, minted, ran, told, saved, gone, limitVars>>

\* Seeded fault: GET instead of GETDEL.
NotTaken(n) == pending

\* GETDEL.
Taken(n) == pending \ {n}

\* Cancel: whether the nonce was still there is not looked at.
Cancel(w) ==
    LET n == req[w].id IN
    /\ req[w].at = "cancel"
    /\ pending' = Taken(n)
    /\ Goto(w, "note-cancel")
    /\ UNCHANGED <<thread, loaded, shown, sent, minted, taps, histVars, saved, gone, limitVars>>

\* Confirm: the tool's gate consumes the nonce; without it the tool refuses.
Redeem(w) ==
    LET n == req[w].id IN
    /\ req[w].at = "confirm"
    /\ pending' = Taken(n)
    /\ Goto(w, IF n \in pending THEN "act" ELSE "note")
    /\ UNCHANGED <<thread, loaded, shown, sent, minted, taps, histVars, saved, gone, limitVars>>

\* The tool acts, or refuses (a rate limit of its own, a missing row), or
\* raises, which is a 500 that nothing notes.
Act(w) ==
    LET n == req[w].id IN
    /\ req[w].at = "act"
    /\ ran' \in {ran, [ran EXCEPT ![n] = @ + 1]}
    /\ Goto(w, "note") \/ req' = [req EXCEPT ![w] = Idle]
    /\ UNCHANGED <<thread, loaded, talkVars, told, crossed, saved, gone, limitVars>>

\* _record_button_decision loads the thread ...
LoadForNote(w) ==
    /\ req[w].at \in {"note", "note-cancel"}
    /\ loaded' = [loaded EXCEPT ![w] = thread]
    /\ Goto(w, IF req[w].at = "note" THEN "save" ELSE "save-cancel")
    /\ UNCHANGED <<thread, talkVars, histVars, saved, gone, limitVars>>

\* ... and saves it with a line for the decision; the user is told.
SaveNote(w) ==
    /\ req[w].at \in {"save", "save-cancel"}
    /\ Save(w, [loaded[w] EXCEPT !.log = @ \cup Log("button", {req[w].id})], req[w].id)
    /\ told' = IF req[w].at = "save" THEN told ELSE told \cup {req[w].id}
    /\ Finish(w)
    /\ UNCHANGED <<talkVars, ran, crossed, limitVars>>

----------------------------------------------------------------------------
(* Redis and failures.                                                     *)

\* The nonce's ten minutes are over.
Expire(n) ==
    /\ n \in pending
    /\ pending' = pending \ {n}
    /\ UNCHANGED <<thread, req, loaded, shown, sent, minted, taps, histVars, saved, gone, limitVars>>

\* DELETE of the conversation, or its thirty days are over.
Forget ==
    /\ thread # Fresh
    /\ thread' = Fresh
    /\ gone' = gone \cup Known(thread)
    /\ UNCHANGED <<req, loaded, talkVars, histVars, saved, limitVars>>

\* A window of the rate limit ends.
NewWindow ==
    /\ WindowEnds
    /\ UNCHANGED <<thread, req, loaded, talkVars, histVars, saved, gone>>

\* The process dies, the connection breaks or Redis fails: the request is
\* gone.
Abort(w) ==
    /\ req[w] # Idle
    /\ Die(w) \/ (command[w] = "none" /\ UNCHANGED limitVars)
    /\ Finish(w)
    /\ UNCHANGED <<thread, talkVars, histVars, saved, gone>>

Work(w) ==
    \/ \E t \in Turns : Send(w, t)
    \/ AskLimit(w) \/ Load(w) \/ TooMany(w)
    \/ \E n \in Nonces : Mint(w, n)
    \/ Answer(w) \/ AgentError(w)
    \/ \E n \in Nonces, d \in {"confirm", "cancel"} : Tap(w, n, d)
    \/ Cancel(w) \/ Redeem(w) \/ Act(w) \/ LoadForNote(w) \/ SaveNote(w)
    \/ Abort(w)

Next ==
    \/ \E w \in Workers : Work(w)
    \/ \E n \in Nonces : Expire(n)
    \/ Forget
    \/ NewWindow

Spec == Init /\ [][Next]_vars

----------------------------------------------------------------------------
(* Properties.                                                             *)

Lines == [kind : {"closed", "trimmed", "button"}, of : SUBSET Ids]
Threads == [msgs : Seq([role : {"user", "assistant"}, turn : Turns]), log : SUBSET Lines]

TypeOK ==
    /\ LimitTypeOK
    /\ thread \in Threads
    /\ pending \subseteq Nonces /\ shown \subseteq Nonces /\ sent \subseteq Turns
    /\ minted \in [Nonces -> Turns \cup {None}]
    /\ \A w \in Workers :
           \/ req[w] = Idle
           \/ req[w].id \in Turns /\ req[w].at \in {"limit", "agent"}
           \/ /\ req[w].id \in Nonces
              /\ req[w].at \in {"confirm", "cancel", "act", "note", "note-cancel", "save", "save-cancel"}
    /\ loaded \in [Workers -> Threads]
    /\ taps \in 0..MaxTaps
    /\ ran \in [Nonces -> Nat]
    /\ told \subseteq Nonces /\ crossed \subseteq Nonces
    /\ saved \subseteq Ids /\ gone \subseteq Ids

\* A confirmation is executed at most once, however often its button is
\* tapped and whatever requests overlap: the tool's gate takes the nonce.
RunsOnce == \A n \in Nonces : ran[n] <= 1

\* What the user was told is cancelled is not executed, before or after,
\* unless another request for the same nonce was under way: the cancel does
\* not look at whether it got the nonce.
CancelledNeverRuns == \A n \in told : ran[n] > 0 => n \in crossed

\* Every turn and decision that was saved is still in the thread, as a
\* message or under a line of the log, unless a save overwrote what its
\* request had never loaded, or a reset dropped it: closing, trimming and
\* noting decisions lose nothing.
NothingForgotten == saved \subseteq Known(thread) \cup gone

\* The thread is within the limit or a single exchange, and it always ends
\* with the whole exchange of one turn: neither trimming, closing, a note nor
\* a save of an older copy leaves a reply without its message.
ThreadFits ==
    LET n == Len(thread.msgs) IN
    /\ TooLong(thread.msgs) => n = 2
    /\ n # 0 =>
           /\ n >= 2
           /\ thread.msgs[n - 1] = Message("user", thread.msgs[n].turn)
           /\ thread.msgs[n].role = "assistant"
=============================================================================
