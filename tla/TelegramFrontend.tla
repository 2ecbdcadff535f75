-------------------------- MODULE TelegramFrontend --------------------------
(***************************************************************************)
(* The Telegram bot: how a user gets a backend account, where the account  *)
(* delivers, and how a delivery reaches the chat.                          *)
(*                                                                         *)
(* The bot keeps an API key for each Telegram user, and a user writes from *)
(* a private chat or from a group, where others write too.  Updates are    *)
(* handled concurrently.  A handler reads its user's key, has the backend  *)
(* confirm a key it has not seen since the bot started, registers a new    *)
(* account if there is none, and makes the chat of the message the         *)
(* account's address; then the turn runs under that account and may create *)
(* subscriptions, which keep a copy of the address.  The backend POSTs     *)
(* what it delivers to that copy; the bot splits it and sends one message  *)
(* after the other.  The bot may restart, the backend's database be wiped. *)
(***************************************************************************)
EXTENDS Naturals, FiniteSets

CONSTANTS
    Users,         \* Telegram users (from_user.id)
    Chats,         \* Telegram chats (chat.id)
    ChatsOf,       \* the chats a user writes in: the private one, and groups
    Accounts,      \* backend users that are ever registered
    Handlers,      \* updates in work at the same time
    Deliveries,    \* webhook POSTs
    Parts,         \* Telegram messages a delivery is split into
    MaxSubs,       \* bound: subscriptions at the same time
    Nobody

ASSUME FrontendAssumption ==
    /\ Nobody \notin Users \cup Chats \cup Accounts
    /\ ChatsOf \in [Users -> SUBSET Chats]
    /\ Parts \in Nat \ {0}
    /\ MaxSubs \in Nat

VARIABLES
    key,           \* table users of the bot: Telegram user -> account
    trusted,       \* _VALIDATED_KEYS
    made,          \* accounts that were registered
    valid,         \* accounts the backend knows
    hook,          \* delivery_webhook_url of each account
    subs,          \* subscriptions: their account and their own address
    handler,       \* what each handler does, for whom, with which key
    post,          \* where each delivery is
    shown,         \* the parts of it the chat has got
    waits,         \* the backend is waiting for the answer
    recorded,      \* deliveries the backend has taken for done
    hidden         \* history: accounts whose key a second, simultaneous
                   \* registration of their user has replaced

keyVars == <<key, trusted, hidden>>
backendVars == <<made, valid, hook, subs>>
postVars == <<post, shown, waits, recorded>>
vars == <<keyVars, backendVars, handler, postVars>>

Free == [at |-> "free", user |-> Nobody, chat |-> Nobody,
         read |-> Nobody, uses |-> Nobody, copy |-> Nobody]
Stages == {"free", "validate", "register", "save", "sync", "ask", "turn"}

Init ==
    /\ key = [u \in Users |-> Nobody]
    /\ trusted = {} /\ made = {} /\ valid = {} /\ subs = {}
    /\ hook = [a \in Accounts |-> Nobody]
    /\ handler = [h \in Handlers |-> Free]
    /\ post = [d \in Deliveries |-> "none"]
    /\ shown = [d \in Deliveries |-> 0]
    /\ waits = [d \in Deliveries |-> FALSE]
    /\ recorded = {} /\ hidden = {}

----------------------------------------------------------------------------
(* ensure_api_key.                                                         *)

Goes(h, stage) == handler' = [handler EXCEPT ![h].at = stage]

\* Where a handler goes that has the account's key: only a message comes with
\* a chat that becomes the address.
Answering(c) == IF c = Nobody THEN "ask" ELSE "sync"

\* ensure_api_key reads the user's key; what comes next depends on it.
Begin(h, u, c) ==
    /\ handler[h] = Free
    /\ handler' = [handler EXCEPT ![h] =
           [at |-> IF key[u] = Nobody THEN "register"
                   ELSE IF key[u] \in trusted THEN Answering(c) ELSE "validate",
            user |-> u, chat |-> c, read |-> key[u], uses |-> key[u], copy |-> Nobody]]
    /\ UNCHANGED <<keyVars, backendVars, postVars>>

\* /start or a message that the user writes in a chat
Receive(h, u, c) == c \in ChatsOf[u] /\ Begin(h, u, c)

\* A tap on a button.
Tap(h, u) == Begin(h, u, Nobody)

\* Seeded fault: every answer is taken for a 401.
RecognizedNever(a) == FALSE

\* GET /users/me: 401 for a key that the backend does not know.
Recognized(a) == a \in valid

Validate(h) ==
    /\ handler[h].at = "validate"
    /\ IF Recognized(handler[h].uses)
       THEN /\ trusted' = trusted \cup {handler[h].uses}
            /\ Goes(h, Answering(handler[h].chat))
       ELSE Goes(h, "register") /\ UNCHANGED trusted
    /\ UNCHANGED <<key, hidden, backendVars, postVars>>

\* POST /users
Register(h) ==
    /\ handler[h].at = "register"
    /\ \E a \in Accounts \ made :
           /\ made' = made \cup {a}
           /\ valid' = valid \cup {a}
           /\ handler' = [handler EXCEPT ![h] = [@ EXCEPT !.at = "save", !.uses = a]]
    /\ UNCHANGED <<keyVars, hook, subs, postVars>>

\* The new key replaces whatever is stored, another new one too.
Save(h) ==
    LET u == handler[h].user IN
    /\ handler[h].at = "save"
    /\ key' = [key EXCEPT ![u] = handler[h].uses]
    /\ trusted' = trusted \cup {handler[h].uses}
    /\ hidden' = hidden \cup ({key[u]} \ {Nobody, handler[h].read})
    /\ Goes(h, Answering(handler[h].chat))
    /\ UNCHANGED <<backendVars, postVars>>

\* The backend cannot be reached: the user reads an error text.
GiveUp(h) ==
    /\ handler[h].at \in {"validate", "register", "save"}
    /\ handler' = [handler EXCEPT ![h] = Free]
    /\ UNCHANGED <<keyVars, backendVars, postVars>>

----------------------------------------------------------------------------
(* The turn.                                                               *)

\* Seeded fault: a key is good once it was made.
AuthorizedIfMade(a) == a \in made

\* The backend serves accounts it knows (get_current_user).
Authorized(a) == a \in valid

\* PATCH /users/me with the chat's address, for a key the backend knows.
Sync(h) ==
    /\ handler[h].at = "sync"
    /\ hook' = IF Authorized(handler[h].uses)
               THEN [hook EXCEPT ![handler[h].uses] = handler[h].chat] ELSE hook
    /\ Goes(h, "ask")
    /\ UNCHANGED <<keyVars, made, valid, subs, postVars>>

\* A failure is logged only.
SyncFails(h) ==
    /\ handler[h].at = "sync"
    /\ Goes(h, "ask")
    /\ UNCHANGED <<keyVars, backendVars, postVars>>

\* The turn's request loads the account's row, with the address of the moment.
Ask(h) ==
    /\ handler[h].at = "ask"
    /\ Authorized(handler[h].uses)
    /\ handler' = [handler EXCEPT ![h] =
           [@ EXCEPT !.at = "turn", !.copy = hook[handler[h].uses]]]
    /\ UNCHANGED <<keyVars, backendVars, postVars>>

\* create_subscription and import_subscription, from a message: the row gets
\* the address that the request has loaded.
Subscribe(h) ==
    /\ handler[h].at = "turn" /\ handler[h].chat # Nobody
    /\ Authorized(handler[h].uses)
    /\ Cardinality(subs) < MaxSubs
    /\ subs' = subs \cup {[account |-> handler[h].uses, copy |-> handler[h].copy]}
    /\ UNCHANGED <<keyVars, made, valid, hook, handler, postVars>>

\* delete_subscription, which a tap confirms, of one's own only
Unsubscribe(h, s) ==
    /\ handler[h].at = "turn" /\ handler[h].chat = Nobody
    /\ s.account = handler[h].uses
    /\ subs' = subs \ {s}
    /\ UNCHANGED <<keyVars, made, valid, hook, handler, postVars>>

\* The turn is over, fails, is refused (401), or there is none (/start).
EndTurn(h) ==
    /\ handler[h].at \in {"ask", "turn"}
    /\ handler' = [handler EXCEPT ![h] = Free]
    /\ UNCHANGED <<keyVars, backendVars, postVars>>

----------------------------------------------------------------------------
(* Deliveries.                                                             *)

\* Where a subscription delivers: to its own address; if it has none, to the
\* one its account has by now.
Address(s) == IF s.copy # Nobody THEN s.copy ELSE hook[s.account]

\* deliver: the backend POSTs to the address.
Post(d, s) ==
    /\ post[d] = "none"
    /\ Address(s) # Nobody
    /\ post' = [post EXCEPT ![d] = "sending"]
    /\ waits' = [waits EXCEPT ![d] = TRUE]
    /\ UNCHANGED <<keyVars, backendVars, handler, shown, recorded>>

\* deliver without an address: a line in the log, and the delivery is taken
\* for done.
PostNowhere(d, s) ==
    /\ post[d] = "none"
    /\ Address(s) = Nobody
    /\ post' = [post EXCEPT ![d] = "logged"]
    /\ recorded' = recorded \cup {d}
    /\ UNCHANGED <<keyVars, backendVars, handler, shown, waits>>

\* handle_deliver sends the next part.
SendPart(d) ==
    /\ post[d] = "sending"
    /\ shown[d] < Parts
    /\ shown' = [shown EXCEPT ![d] = @ + 1]
    /\ UNCHANGED <<keyVars, backendVars, handler, post, waits, recorded>>

\* Seeded fault: a refused part is only logged.
RefusalIgnored == "answered"

\* Telegram refuses a part: 500, and the parts before it stay shown.
Refused == "failed"

PartFails(d) ==
    /\ post[d] = "sending"
    /\ shown[d] < Parts
    /\ post' = [post EXCEPT ![d] = Refused]
    /\ UNCHANGED <<keyVars, backendVars, handler, shown, waits, recorded>>

\* All parts are sent: 200.
AllSent(d) ==
    /\ post[d] = "sending"
    /\ shown[d] = Parts
    /\ post' = [post EXCEPT ![d] = "answered"]
    /\ UNCHANGED <<keyVars, backendVars, handler, shown, waits, recorded>>

\* The backend has the answer, and records the delivery if it is 200.
Record(d) ==
    /\ waits[d] /\ post[d] \in {"answered", "failed"}
    /\ waits' = [waits EXCEPT ![d] = FALSE]
    /\ recorded' = IF post[d] = "answered" THEN recorded \cup {d} ELSE recorded
    /\ UNCHANGED <<keyVars, backendVars, handler, post, shown>>

\* It takes longer than the backend waits: a failure there, while the bot
\* sends on.
TimesOut(d) ==
    /\ waits[d]
    /\ waits' = [waits EXCEPT ![d] = FALSE]
    /\ UNCHANGED <<keyVars, backendVars, handler, post, shown, recorded>>

----------------------------------------------------------------------------
(* Restarts.                                                               *)

\* The bot: its handlers and the cache are gone, the stored keys stay.  A turn
\* that runs at the backend may go on.  What was being sent ends there, and
\* the backend reads a broken connection.
Restart ==
    /\ trusted' = {}
    /\ handler' = [h \in Handlers |-> IF handler[h].at = "turn" THEN handler[h] ELSE Free]
    /\ post' = [d \in Deliveries |-> IF post[d] = "sending" THEN "failed" ELSE post[d]]
    /\ UNCHANGED <<key, hidden, backendVars, shown, waits, recorded>>

\* The backend's database is wiped, and with it accounts, addresses and
\* subscriptions.
Wipe ==
    /\ valid # {}
    /\ valid' = {} /\ subs' = {}
    /\ hook' = [a \in Accounts |-> Nobody]
    /\ UNCHANGED <<keyVars, made, handler, postVars>>

----------------------------------------------------------------------------
Handle(h) ==
    \/ \E u \in Users : Tap(h, u) \/ \E c \in Chats : Receive(h, u, c)
    \/ Validate(h) \/ Register(h) \/ Save(h) \/ GiveUp(h)
    \/ Sync(h) \/ SyncFails(h) \/ Ask(h) \/ Subscribe(h) \/ EndTurn(h)
    \/ \E s \in subs : Unsubscribe(h, s)

Transmit(d) ==
    \/ \E s \in subs : Post(d, s) \/ PostNowhere(d, s)
    \/ SendPart(d) \/ PartFails(d) \/ AllSent(d) \/ Record(d) \/ TimesOut(d)

Next ==
    \/ \E h \in Handlers : Handle(h)
    \/ \E d \in Deliveries : Transmit(d)
    \/ Restart \/ Wipe

Spec == Init /\ [][Next]_vars

----------------------------------------------------------------------------
(* Properties.                                                             *)

\* Every variable has its type; subscriptions and addresses are those of
\* accounts the backend knows (get_current_user).
TypeOK ==
    /\ key \in [Users -> made \cup {Nobody}]
    /\ trusted \subseteq made /\ made \subseteq Accounts /\ valid \subseteq made
    /\ hook \in [Accounts -> Chats \cup {Nobody}]
    /\ \A a \in Accounts \ valid : hook[a] = Nobody
    /\ subs \subseteq [account : valid, copy : Chats \cup {Nobody}]
    /\ handler \in [Handlers -> [at : Stages, user : Users \cup {Nobody},
                                 chat : Chats \cup {Nobody},
                                 read : Accounts \cup {Nobody},
                                 uses : Accounts \cup {Nobody},
                                 copy : Chats \cup {Nobody}]]
    /\ post \in [Deliveries -> {"none", "sending", "answered", "failed", "logged"}]
    /\ shown \in [Deliveries -> 0..Parts]
    /\ waits \in [Deliveries -> BOOLEAN]
    /\ recorded \subseteq Deliveries
    /\ hidden \subseteq Accounts

\* Where a subscription delivers, somebody writes whose key opens its account
\* and who so can stop it: through wipes, restarts, failed and repeated
\* registrations, and changes of the chat.  In a group that is one member; the
\* others cannot stop what arrives there.  An account is lost to its user only
\* when two of the user's updates register at the same time
\* (ensure_api_key, _sync_delivery_webhook, create_subscription).
SenderIsManageable ==
    \A s \in subs : Address(s) # Nobody /\ s.account \notin hidden =>
        \E u \in Users : key[u] = s.account /\ Address(s) \in ChatsOf[u]

\* What the backend has recorded as delivered the chat has got in full, with
\* every part sent once; unless there was no address, when it is recorded and
\* shown to nobody (handle_deliver, deliver).
RecordedIsShown == \A d \in recorded : shown[d] = Parts \/ post[d] = "logged"
=============================================================================
