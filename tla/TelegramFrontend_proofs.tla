----------------------- MODULE TelegramFrontend_proofs -----------------------
(***************************************************************************)
(* Theorems about TelegramFrontend, for every set of users, chats,         *)
(* accounts, handlers and deliveries, whoever writes in which chat, and    *)
(* every number of parts and of subscriptions.                             *)
(***************************************************************************)
EXTENDS TelegramFrontend, TLAPS

HandlerStates == [at : Stages, user : Users \cup {Nobody}, chat : Chats \cup {Nobody},
                  read : Accounts \cup {Nobody}, uses : Accounts \cup {Nobody},
                  copy : Chats \cup {Nobody}]

----------------------------------------------------------------------------
(* Types.                                                                  *)

\* A handler that goes to a stage remains a handler.
LEMMA GoesTyped ==
    ASSUME TypeOK, NEW h \in Handlers, NEW stage \in Stages, Goes(h, stage)
    PROVE  handler' \in [Handlers -> HandlerStates]
  BY DEF TypeOK, Goes, HandlerStates

\* So does one that is free again.
LEMMA FreeTyped ==
    ASSUME TypeOK, NEW h \in Handlers, handler' = [handler EXCEPT ![h] = Free]
    PROVE  handler' \in [Handlers -> HandlerStates]
<1>1. Free \in HandlerStates
  BY DEF Free, HandlerStates, Stages
<1>2. QED
  BY <1>1 DEF TypeOK, HandlerStates

\* Where a handler goes with its key is a stage.
LEMMA AnsweringStage == \A c : Answering(c) \in {"ask", "sync"} /\ Answering(c) \in Stages
  BY DEF Answering, Stages

\* A step of a handler's that leaves the backend alone.
LEMMA HandlerTyped ==
    ASSUME TypeOK, handler' \in [Handlers -> HandlerStates],
           key' \in [Users -> made \cup {Nobody}], trusted' \subseteq made,
           hidden' \subseteq Accounts, UNCHANGED <<backendVars, postVars>>
    PROVE  TypeOK'
  BY DEF TypeOK, HandlerStates, backendVars, postVars

\* What a handler that is at work knows: its user, a chat that the user writes
\* in, and registered accounts.
InformedAt(h) ==
    /\ handler[h].at # "free" =>
           /\ handler[h].user \in Users
           /\ handler[h].chat # Nobody => handler[h].chat \in ChatsOf[handler[h].user]
    /\ handler[h].at = "sync" => handler[h].chat # Nobody
    /\ handler[h].read \in made \cup {Nobody}
    /\ handler[h].uses \in made \cup {Nobody}
    /\ handler[h].at \in {"validate", "save", "sync", "ask", "turn"} => handler[h].uses \in made

Informed == \A h \in Handlers : InformedAt(h)

\* The handler that begins.
LEMMA BeginHandler ==
    ASSUME TypeOK, NEW h \in Handlers, NEW u \in Users, NEW c \in Chats \cup {Nobody},
           Begin(h, u, c)
    PROVE  /\ handler' \in [Handlers -> HandlerStates]
           /\ \A g \in Handlers : g # h => handler'[g] = handler[g]
           /\ handler'[h].user = u /\ handler'[h].chat = c
           /\ handler'[h].read = key[u] /\ handler'[h].uses = key[u]
           /\ handler'[h].at \in {"register", "validate", "sync", "ask"}
           /\ handler'[h].at = "register" <=> key[u] = Nobody
           /\ handler'[h].at = "sync" => c # Nobody
<1> DEFINE at == IF key[u] = Nobody THEN "register"
                 ELSE IF key[u] \in trusted THEN Answering(c) ELSE "validate"
           new == [at |-> at, user |-> u, chat |-> c, read |-> key[u], uses |-> key[u],
                   copy |-> Nobody]
<1>1. key[u] \in Accounts \cup {Nobody}
  BY DEF TypeOK
<1>2. /\ at \in {"register", "validate", "sync", "ask"}
      /\ at = "register" <=> key[u] = Nobody
      /\ at = "sync" => c # Nobody
  BY DEF Answering
<1>3. at \in Stages
  BY <1>2 DEF Stages
<1> HIDE DEF at
<1>4. new \in HandlerStates
  BY <1>1, <1>3 DEF HandlerStates
<1>5. handler \in [Handlers -> HandlerStates]
  BY DEF TypeOK, HandlerStates
<1>6. handler' = [handler EXCEPT ![h] = new]
  BY DEF Begin, at
<1>7. handler'[h] = new /\ \A g \in Handlers : g # h => handler'[g] = handler[g]
  BY <1>5, <1>6
<1>8. handler' \in [Handlers -> HandlerStates]
  BY <1>4, <1>5, <1>6
<1>9. QED
  BY <1>2, <1>7, <1>8

\* The handler whose request the backend lets in.
LEMMA AskHandler ==
    ASSUME TypeOK, NEW h \in Handlers, Ask(h), handler[h].uses \in Accounts
    PROVE  /\ handler' \in [Handlers -> HandlerStates]
           /\ \A g \in Handlers : g # h => handler'[g] = handler[g]
           /\ handler'[h].at = "turn" /\ handler'[h].copy = hook[handler[h].uses]
           /\ handler'[h].user = handler[h].user /\ handler'[h].chat = handler[h].chat
           /\ handler'[h].read = handler[h].read /\ handler'[h].uses = handler[h].uses
<1>1. handler \in [Handlers -> HandlerStates] /\ handler[h] \in HandlerStates
  BY DEF TypeOK, HandlerStates
<1>2. hook[handler[h].uses] \in Chats \cup {Nobody}
  BY DEF TypeOK
<1> DEFINE new == [handler[h] EXCEPT !.at = "turn", !.copy = hook[handler[h].uses]]
<1>3. /\ new \in HandlerStates
      /\ new.at = "turn" /\ new.copy = hook[handler[h].uses]
      /\ new.user = handler[h].user /\ new.chat = handler[h].chat
      /\ new.read = handler[h].read /\ new.uses = handler[h].uses
  BY <1>1, <1>2 DEF HandlerStates, Stages
<1>4. handler' = [handler EXCEPT ![h] = new]
  BY DEF Ask
<1> HIDE DEF new
<1>5. handler' \in [Handlers -> HandlerStates] /\ handler'[h] = new
      /\ \A g \in Handlers : g # h => handler'[g] = handler[g]
  BY <1>1, <1>3, <1>4
<1>6. QED
  BY <1>3, <1>5

\* A handler that goes to a stage changes nothing else.
LEMMA GoesHandler ==
    ASSUME TypeOK, NEW h \in Handlers, NEW stage \in Stages, Goes(h, stage)
    PROVE  /\ \A g \in Handlers : g # h => handler'[g] = handler[g]
           /\ handler'[h].at = stage
           /\ handler'[h].user = handler[h].user /\ handler'[h].chat = handler[h].chat
           /\ handler'[h].read = handler[h].read /\ handler'[h].uses = handler[h].uses
           /\ handler'[h].copy = handler[h].copy
<1>1. handler \in [Handlers -> HandlerStates] /\ handler[h] \in HandlerStates
  BY DEF TypeOK, HandlerStates
<1>2. handler' = [handler EXCEPT ![h] = [handler[h] EXCEPT !.at = stage]]
  BY DEF Goes
<1>3. QED
  BY <1>1, <1>2 DEF HandlerStates

\* The handler that registers an account.
LEMMA RegisterHandler ==
    ASSUME TypeOK, NEW h \in Handlers, Register(h)
    PROVE  \E a \in Accounts \ made :
               /\ made' = made \cup {a} /\ valid' = valid \cup {a}
               /\ handler' \in [Handlers -> HandlerStates]
               /\ \A g \in Handlers : g # h => handler'[g] = handler[g]
               /\ handler'[h].at = "save" /\ handler'[h].uses = a
               /\ handler'[h].user = handler[h].user /\ handler'[h].chat = handler[h].chat
               /\ handler'[h].read = handler[h].read
<1>1. PICK a \in Accounts \ made :
          /\ made' = made \cup {a}
          /\ valid' = valid \cup {a}
          /\ handler' = [handler EXCEPT ![h] = [@ EXCEPT !.at = "save", !.uses = a]]
  BY DEF Register
<1>2. handler \in [Handlers -> HandlerStates] /\ handler[h] \in HandlerStates
  BY DEF TypeOK, HandlerStates
<1> DEFINE new == [handler[h] EXCEPT !.at = "save", !.uses = a]
<1>3. /\ new \in HandlerStates /\ new.at = "save" /\ new.uses = a
      /\ new.user = handler[h].user /\ new.chat = handler[h].chat
      /\ new.read = handler[h].read
  BY <1>2 DEF HandlerStates, Stages
<1>4. handler' = [handler EXCEPT ![h] = new]
  BY <1>1
<1> HIDE DEF new
<1>5. handler' \in [Handlers -> HandlerStates] /\ handler'[h] = new
      /\ \A g \in Handlers : g # h => handler'[g] = handler[g]
  BY <1>2, <1>3, <1>4
<1>6. QED
  BY <1>1, <1>3, <1>5

\* Every step keeps the types.
LEMMA NextTyped == TypeOK /\ Informed /\ [Next]_vars => TypeOK'
<1> SUFFICES ASSUME TypeOK, Informed, [Next]_vars
             PROVE  TypeOK'
  OBVIOUS
<1> USE FrontendAssumption
<1>1. ASSUME NEW h \in Handlers, Handle(h)
      PROVE  TypeOK'
  <2>0. InformedAt(h)
    BY DEF Informed
  <2>1. ASSUME NEW u \in Users, NEW c \in Chats \cup {Nobody}, Begin(h, u, c)
        PROVE  TypeOK'
    <3>1. handler' \in [Handlers -> HandlerStates]
      BY <2>1, BeginHandler
    <3>2. QED
      BY <2>1, <3>1, HandlerTyped DEF Begin, TypeOK, keyVars
  <2>2. CASE Validate(h)
    <3>1. handler[h].uses \in made
      BY <2>0, <2>2 DEF Validate, InformedAt
    <3>2. handler' \in [Handlers -> HandlerStates]
      BY <2>2, GoesTyped, AnsweringStage DEF Validate, Stages
    <3>3. QED
      BY <2>2, <3>1, <3>2, HandlerTyped DEF Validate, TypeOK
  <2>3. CASE Register(h)
    <3>1. PICK a \in Accounts \ made :
              /\ made' = made \cup {a} /\ valid' = valid \cup {a}
              /\ handler' \in [Handlers -> HandlerStates]
      BY <2>3, RegisterHandler
    <3>2. subs' \subseteq [account : valid', copy : Chats \cup {Nobody}]
      BY <2>3, <3>1 DEF Register, TypeOK
    <3>3. QED
      BY <2>3, <3>1, <3>2 DEF TypeOK, Register, keyVars, postVars, HandlerStates
  <2>4. CASE Save(h)
    <3>1. handler[h].uses \in made /\ handler[h].user \in Users
      BY <2>0, <2>4 DEF Save, InformedAt
    <3>2. handler' \in [Handlers -> HandlerStates]
      BY <2>4, GoesTyped, AnsweringStage DEF Save
    <3>3. key' \in [Users -> made \cup {Nobody}] /\ hidden' \subseteq Accounts
      BY <2>4, <3>1 DEF Save, TypeOK
    <3>4. QED
      BY <2>4, <3>1, <3>2, <3>3, HandlerTyped DEF Save, TypeOK
  <2>5. CASE GiveUp(h)
    <3>1. handler' \in [Handlers -> HandlerStates]
      BY <2>5, FreeTyped DEF GiveUp
    <3>2. QED
      BY <2>5, <3>1, HandlerTyped DEF GiveUp, TypeOK, keyVars
  <2>6. CASE Sync(h)
    <3>1. handler[h].uses \in Accounts
      BY <2>0, <2>6 DEF Sync, InformedAt, TypeOK
    <3>2. handler[h].chat \in Chats
      BY <2>0, <2>6 DEF Sync, InformedAt
    <3>3. handler' \in [Handlers -> HandlerStates]
      BY <2>6, GoesTyped DEF Sync, Stages
    <3>4. hook' \in [Accounts -> Chats \cup {Nobody}]
          /\ \A a \in Accounts \ valid : hook'[a] = Nobody
      BY <2>6, <3>1, <3>2 DEF Sync, Authorized, TypeOK
    <3>5. QED
      BY <2>6, <3>3, <3>4 DEF TypeOK, Sync, keyVars, postVars, HandlerStates
  <2>7. CASE SyncFails(h)
    <3>1. handler' \in [Handlers -> HandlerStates]
      BY <2>7, GoesTyped DEF SyncFails, Stages
    <3>2. QED
      BY <2>7, <3>1, HandlerTyped DEF SyncFails, TypeOK, keyVars
  <2>8. CASE Ask(h)
    <3>1. handler[h].uses \in Accounts
      BY <2>0, <2>8 DEF Ask, InformedAt, TypeOK
    <3>2. handler' \in [Handlers -> HandlerStates]
      BY <2>8, <3>1, AskHandler
    <3>3. QED
      BY <2>8, <3>2, HandlerTyped DEF Ask, TypeOK, keyVars
  <2>9. CASE Subscribe(h)
    <3>1. handler[h].uses \in valid /\ handler[h].copy \in Chats \cup {Nobody}
      BY <2>9 DEF Subscribe, Authorized, TypeOK
    <3>2. subs' \subseteq [account : valid, copy : Chats \cup {Nobody}]
      BY <2>9, <3>1 DEF Subscribe, TypeOK
    <3>3. QED
      BY <2>9, <3>2 DEF TypeOK, Subscribe, keyVars, postVars
  <2>10. ASSUME NEW s \in subs, Unsubscribe(h, s)
         PROVE  TypeOK'
    BY <2>10 DEF TypeOK, Unsubscribe, keyVars, postVars
  <2>11. CASE EndTurn(h)
    <3>1. handler' \in [Handlers -> HandlerStates]
      BY <2>11, FreeTyped DEF EndTurn
    <3>2. QED
      BY <2>11, <3>1, HandlerTyped DEF EndTurn, TypeOK, keyVars
  <2>12. QED
    BY <1>1, <2>1, <2>2, <2>3, <2>4, <2>5, <2>6, <2>7, <2>8, <2>9, <2>10, <2>11
       DEF Handle, Receive, Tap
<1>2. ASSUME NEW d \in Deliveries, Transmit(d)
      PROVE  TypeOK'
  <2>1. ASSUME NEW s \in subs, Post(d, s)
        PROVE  TypeOK'
    BY <2>1 DEF TypeOK, Post, keyVars, backendVars
  <2>2. ASSUME NEW s \in subs, PostNowhere(d, s)
        PROVE  TypeOK'
    BY <2>2 DEF TypeOK, PostNowhere, keyVars, backendVars
  <2>3. CASE SendPart(d)
    BY <2>3 DEF TypeOK, SendPart, keyVars, backendVars
  <2>4. CASE PartFails(d)
    BY <2>4 DEF TypeOK, PartFails, Refused, keyVars, backendVars
  <2>5. CASE AllSent(d)
    BY <2>5 DEF TypeOK, AllSent, keyVars, backendVars
  <2>6. CASE Record(d)
    BY <2>6 DEF TypeOK, Record, keyVars, backendVars
  <2>7. CASE TimesOut(d)
    BY <2>7 DEF TypeOK, TimesOut, keyVars, backendVars
  <2>8. QED
    BY <1>2, <2>1, <2>2, <2>3, <2>4, <2>5, <2>6, <2>7 DEF Transmit
<1>3. CASE Restart
  <2>1. Free \in HandlerStates
    BY DEF Free, HandlerStates, Stages
  <2>2. handler' \in [Handlers -> HandlerStates]
    BY <1>3, <2>1 DEF TypeOK, Restart, HandlerStates
  <2>3. QED
    BY <1>3, <2>2 DEF TypeOK, Restart, backendVars, HandlerStates
<1>4. CASE Wipe
  BY <1>4 DEF TypeOK, Wipe, keyVars, postVars
<1>5. CASE UNCHANGED vars
  BY <1>5 DEF TypeOK, vars, keyVars, backendVars, postVars
<1>6. QED
  BY <1>1, <1>2, <1>3, <1>4, <1>5 DEF Next
----------------------------------------------------------------------------
(* What handlers know.                                                     *)

\* Every step leaves every handler informed.
LEMMA NextInformed ==
    ASSUME TypeOK, Informed, [Next]_vars
    PROVE  \A g \in Handlers : InformedAt(g)'
<1> USE FrontendAssumption
<1>0. /\ key \in [Users -> made \cup {Nobody}]
      /\ handler \in [Handlers -> HandlerStates]
      /\ \A g \in Handlers : InformedAt(g)
  BY DEF TypeOK, Informed, HandlerStates
<1>a. ASSUME UNCHANGED <<handler, made>>
      PROVE  \A g \in Handlers : InformedAt(g)'
  BY <1>0, <1>a DEF InformedAt
<1>b. ASSUME NEW h \in Handlers, handler' = [handler EXCEPT ![h] = Free], UNCHANGED made
      PROVE  \A g \in Handlers : InformedAt(g)'
  <2>1. \A g \in Handlers : handler'[g] = IF g = h THEN Free ELSE handler[g]
    BY <1>0, <1>b
  <2>2. QED
    BY <1>0, <1>b, <2>1 DEF InformedAt, Free
<1>c. ASSUME NEW h \in Handlers, NEW stage \in Stages, Goes(h, stage), UNCHANGED made,
             handler[h].at # "free", stage = "sync" => handler[h].chat # Nobody,
             stage \in {"validate", "save", "sync", "ask", "turn"} => handler[h].uses \in made
      PROVE  \A g \in Handlers : InformedAt(g)'
  BY <1>0, <1>c, GoesHandler DEF InformedAt
<1>1. ASSUME NEW h \in Handlers, Handle(h)
      PROVE  \A g \in Handlers : InformedAt(g)'
  <2>1. ASSUME NEW u \in Users, NEW c \in Chats \cup {Nobody}, Begin(h, u, c),
               c # Nobody => c \in ChatsOf[u]
        PROVE  \A g \in Handlers : InformedAt(g)'
    <3>1. /\ \A g \in Handlers : g # h => handler'[g] = handler[g]
          /\ handler'[h].user = u /\ handler'[h].chat = c
          /\ handler'[h].read = key[u] /\ handler'[h].uses = key[u]
          /\ handler'[h].at \in {"register", "validate", "sync", "ask"}
          /\ handler'[h].at = "register" <=> key[u] = Nobody
          /\ handler'[h].at = "sync" => c # Nobody
      BY <2>1, BeginHandler
    <3>2. key[u] \in made \cup {Nobody} /\ made' = made
      BY <1>0, <2>1 DEF Begin, backendVars
    <3>3. InformedAt(h)'
      BY <2>1, <3>1, <3>2 DEF InformedAt
    <3>4. \A g \in Handlers : g # h => InformedAt(g)'
      BY <1>0, <3>1, <3>2 DEF InformedAt
    <3>5. QED
      BY <3>3, <3>4
  <2>2. CASE Validate(h)
    <3>1. handler[h].uses \in made
      BY <1>0, <2>2 DEF Validate, InformedAt
    <3>2. CASE Recognized(handler[h].uses)
      <4>1. Goes(h, Answering(handler[h].chat)) /\ UNCHANGED made
        BY <2>2, <3>2 DEF Validate, backendVars
      <4>2. Answering(handler[h].chat) = "sync" => handler[h].chat # Nobody
        BY DEF Answering
      <4>3. QED
        BY <1>c, <2>2, <3>1, <4>1, <4>2, AnsweringStage DEF Validate
    <3>3. CASE ~Recognized(handler[h].uses)
      BY <1>c, <2>2, <3>1, <3>3 DEF Validate, Stages, backendVars
    <3>4. QED
      BY <3>2, <3>3
  <2>3. CASE Register(h)
    <3>1. PICK a \in Accounts \ made :
              /\ made' = made \cup {a}
              /\ \A g \in Handlers : g # h => handler'[g] = handler[g]
              /\ handler'[h].at = "save" /\ handler'[h].uses = a
              /\ handler'[h].user = handler[h].user /\ handler'[h].chat = handler[h].chat
              /\ handler'[h].read = handler[h].read
      BY <2>3, RegisterHandler
    <3>2. QED
      BY <1>0, <2>3, <3>1 DEF InformedAt, Register
  <2>4. CASE Save(h)
    <3>1. handler[h].uses \in made
      BY <1>0, <2>4 DEF Save, InformedAt
    <3>2. Goes(h, Answering(handler[h].chat)) /\ UNCHANGED made
      BY <2>4 DEF Save, backendVars
    <3>3. Answering(handler[h].chat) = "sync" => handler[h].chat # Nobody
      BY DEF Answering
    <3>4. QED
      BY <1>c, <2>4, <3>1, <3>2, <3>3, AnsweringStage DEF Save
  <2>5. CASE GiveUp(h)
    BY <1>b, <2>5 DEF GiveUp, backendVars
  <2>6. CASE Sync(h)
    BY <1>0, <1>c, <2>6 DEF Sync, Stages, InformedAt
  <2>7. CASE SyncFails(h)
    BY <1>0, <1>c, <2>7 DEF SyncFails, Stages, InformedAt, backendVars
  <2>8. CASE Ask(h)
    <3>1. handler[h].uses \in made /\ handler[h].at = "ask" /\ UNCHANGED made
      BY <1>0, <2>8 DEF Ask, InformedAt, backendVars
    <3>2. handler[h].uses \in Accounts
      BY <3>1 DEF TypeOK
    <3>3. QED
      BY <1>0, <2>8, <3>1, <3>2, AskHandler DEF InformedAt
  <2>9. CASE Subscribe(h)
    BY <1>a, <2>9 DEF Subscribe
  <2>10. ASSUME NEW s \in subs, Unsubscribe(h, s)
         PROVE  \A g \in Handlers : InformedAt(g)'
    BY <1>a, <2>10 DEF Unsubscribe
  <2>11. CASE EndTurn(h)
    BY <1>b, <2>11 DEF EndTurn, backendVars
  <2>12. QED
    BY <1>1, <2>1, <2>2, <2>3, <2>4, <2>5, <2>6, <2>7, <2>8, <2>9, <2>10, <2>11
       DEF Handle, Receive, Tap
<1>2. ASSUME NEW d \in Deliveries, Transmit(d)
      PROVE  \A g \in Handlers : InformedAt(g)'
  BY <1>a, <1>2 DEF Transmit, Post, PostNowhere, SendPart, PartFails, AllSent, Record, TimesOut,
                    backendVars
<1>3. CASE Restart
  <2>1. \A g \in Handlers : handler'[g] = IF handler[g].at = "turn" THEN handler[g] ELSE Free
    BY <1>3 DEF Restart
  <2>2. made' = made
    BY <1>3 DEF Restart, backendVars
  <2>3. QED
    BY <1>0, <2>1, <2>2 DEF InformedAt, Free
<1>4. CASE Wipe
  BY <1>a, <1>4 DEF Wipe
<1>5. CASE UNCHANGED vars
  BY <1>a, <1>5 DEF vars, backendVars
<1>6. QED
  BY <1>1, <1>2, <1>3, <1>4, <1>5 DEF Next

----------------------------------------------------------------------------
(* The address and the key.                                                *)

\* Somebody who writes in chat c holds the key of account a, or a second
\* registration has hidden it.
Placed(a, c) == a \in hidden \/ \E u \in Users : key[u] = a /\ c \in ChatsOf[u]

\* A key that is about to be used is its user's if it opens anything, one that
\* is replaced opens nothing, and the address a turn has loaded is placed.
KeyFollows(h) ==
    /\ handler[h].at \in {"validate", "sync", "ask"} /\ handler[h].uses \in valid =>
           handler[h].uses \in hidden \/ key[handler[h].user] = handler[h].uses
    /\ handler[h].at \in {"register", "save"} => handler[h].read \notin valid
    /\ handler[h].at = "validate" => handler[h].read = handler[h].uses
    /\ handler[h].at = "turn" /\ handler[h].uses \in valid /\ handler[h].copy # Nobody =>
           Placed(handler[h].uses, handler[h].copy)

AddressFollows(a) == hook[a] # Nobody => Placed(a, hook[a])

CopyFollows(s) == s.copy # Nobody => Placed(s.account, s.copy)

Follow ==
    /\ \A h \in Handlers : KeyFollows(h)
    /\ \A a \in Accounts : AddressFollows(a)
    /\ \A s \in subs : CopyFollows(s)

\* What is placed stays so while keys and excuses are as they are.
LEMMA StaysPlaced ==
    ASSUME UNCHANGED <<key, hidden>>, NEW a, NEW c
    PROVE  Placed(a, c)' <=> Placed(a, c)
  BY DEF Placed

\* Saving a key moves no valid account out of its place: the key it replaces is
\* the one that the backend refused, or becomes hidden.
LEMMA SavePlaces ==
    ASSUME TypeOK, Informed, NEW h \in Handlers, Save(h), handler[h].read \notin valid,
           NEW a \in valid, NEW c, Placed(a, c)
    PROVE  Placed(a, c)'
<1>1. /\ a # Nobody
      /\ handler[h].user \in Users
      /\ key \in [Users -> made \cup {Nobody}]
  BY FrontendAssumption DEF TypeOK, Save, Informed, InformedAt
<1>2. /\ \A u \in Users : u # handler[h].user => key'[u] = key[u]
      /\ hidden' = hidden \cup ({key[handler[h].user]} \ {Nobody, handler[h].read})
  BY <1>1 DEF Save
<1>3. CASE a \in hidden
  BY <1>2, <1>3 DEF Placed
<1>4. CASE a = key[handler[h].user]
  BY <1>1, <1>2, <1>4 DEF Placed
<1>5. CASE a \notin hidden /\ a # key[handler[h].user]
  BY <1>2, <1>5 DEF Placed
<1>6. QED
  BY <1>3, <1>4, <1>5

\* A step in which nothing that is followed changes.
LEMMA StaysFollowed ==
    ASSUME Follow, UNCHANGED <<key, hidden, valid, hook>>, subs' \subseteq subs
    PROVE  /\ UNCHANGED handler => \A g \in Handlers : KeyFollows(g)'
           /\ \A a \in Accounts : AddressFollows(a)'
           /\ \A s \in subs' : CopyFollows(s)'
<1>1. ASSUME UNCHANGED handler
      PROVE  \A g \in Handlers : KeyFollows(g)'
  BY <1>1, StaysPlaced DEF Follow, KeyFollows
<1>2. \A a \in Accounts : AddressFollows(a)'
  BY StaysPlaced DEF Follow, AddressFollows
<1>3. \A s \in subs' : CopyFollows(s)'
  BY StaysPlaced DEF Follow, CopyFollows
<1>4. QED
  BY <1>1, <1>2, <1>3

\* A handler's step in which only its own stage changes, and perhaps the keys
\* that are trusted.
LEMMA GoesFollows ==
    ASSUME TypeOK, Follow, NEW h \in Handlers, NEW stage \in Stages, Goes(h, stage),
           UNCHANGED <<key, hidden, valid>>,
           stage \in {"sync", "ask"} => handler[h].at \in {"validate", "sync", "ask"},
           stage \in {"register", "save"} => handler[h].read \notin valid,
           stage \notin {"validate", "turn"}
    PROVE  \A g \in Handlers : KeyFollows(g)'
<1>1. \A g \in Handlers : KeyFollows(g)
  BY DEF Follow
<1>2. \A g \in Handlers : g # h => KeyFollows(g)'
  BY <1>1, GoesHandler, StaysPlaced DEF KeyFollows
<1>3. KeyFollows(h)'
  BY <1>1, GoesHandler DEF KeyFollows
<1>4. QED
  BY <1>2, <1>3

\* A handler that is free follows.
LEMMA FreeFollows ==
    ASSUME TypeOK, Follow, NEW h \in Handlers, handler' = [handler EXCEPT ![h] = Free],
           UNCHANGED <<key, hidden, valid>>
    PROVE  \A g \in Handlers : KeyFollows(g)'
<1>1. \A g \in Handlers : handler'[g] = IF g = h THEN Free ELSE handler[g]
  BY DEF TypeOK
<1>2. QED
  BY <1>1, StaysPlaced DEF Follow, KeyFollows, Free

\* Keys, addresses and copies go on to follow one another.
LEMMA NextFollows == TypeOK /\ Informed /\ Follow /\ [Next]_vars => Follow'
<1> SUFFICES ASSUME TypeOK, Informed, Follow, [Next]_vars
             PROVE  Follow'
  OBVIOUS
<1> USE FrontendAssumption
<1>0. /\ \A g \in Handlers : KeyFollows(g)
      /\ \A a \in Accounts : AddressFollows(a)
      /\ \A s \in subs : CopyFollows(s)
  BY DEF Follow
<1>a. ASSUME \A g \in Handlers : KeyFollows(g)', UNCHANGED <<key, hidden, valid, hook, subs>>
      PROVE  Follow'
  <2>1. /\ \A a \in Accounts : AddressFollows(a)'
        /\ \A s \in subs' : CopyFollows(s)'
    BY <1>a, StaysFollowed
  <2>2. QED
    BY <1>a, <2>1 DEF Follow
<1>1. ASSUME NEW h \in Handlers, Handle(h)
      PROVE  Follow'
  <2>0. InformedAt(h) /\ KeyFollows(h)
    BY <1>0 DEF Informed
  <2>1. ASSUME NEW u \in Users, NEW c \in Chats \cup {Nobody}, Begin(h, u, c)
        PROVE  Follow'
    <3>1. /\ \A g \in Handlers : g # h => handler'[g] = handler[g]
          /\ handler'[h].user = u
          /\ handler'[h].read = key[u] /\ handler'[h].uses = key[u]
          /\ handler'[h].at \in {"register", "validate", "sync", "ask"}
          /\ handler'[h].at = "register" <=> key[u] = Nobody
      BY <2>1, BeginHandler
    <3>2. UNCHANGED <<key, hidden, valid, hook, subs>>
      BY <2>1 DEF Begin, keyVars, backendVars
    <3>3. Nobody \notin valid
      BY DEF TypeOK
    <3>4. KeyFollows(h)'
      BY <3>1, <3>2, <3>3 DEF KeyFollows
    <3>5. \A g \in Handlers : g # h => KeyFollows(g)'
      BY <1>0, <3>1, <3>2, StaysPlaced DEF KeyFollows
    <3>6. QED
      BY <1>a, <3>2, <3>4, <3>5
  <2>2. CASE Validate(h)
    <3>1. UNCHANGED <<key, hidden, valid, hook, subs>> /\ handler[h].at = "validate"
      BY <2>2 DEF Validate, backendVars
    <3>2. CASE handler[h].uses \in valid
      <4>1. Goes(h, Answering(handler[h].chat))
        BY <2>2, <3>2 DEF Validate, Recognized
      <4>2. QED
        BY <1>a, <3>1, <4>1, AnsweringStage, GoesFollows
    <3>3. CASE handler[h].uses \notin valid
      <4>1. Goes(h, "register") /\ handler[h].read \notin valid
        BY <2>0, <2>2, <3>1, <3>3 DEF Validate, Recognized, KeyFollows
      <4>2. QED
        BY <1>a, <3>1, <4>1, GoesFollows DEF Stages
    <3>4. QED
      BY <3>2, <3>3
  <2>3. CASE Register(h)
    <3>1. PICK n \in Accounts \ made :
              /\ valid' = valid \cup {n}
              /\ \A g \in Handlers : g # h => handler'[g] = handler[g]
              /\ handler'[h].at = "save"
              /\ handler'[h].read = handler[h].read
      BY <2>3, RegisterHandler
    <3>2. UNCHANGED <<key, hidden, hook, subs>> /\ handler[h].read \notin valid
      BY <2>0, <2>3 DEF Register, keyVars, KeyFollows
    <3>3. \A g \in Handlers : handler[g].uses # n /\ handler[g].read # n
      BY <3>1 DEF Informed, InformedAt
    <3>4. \A g \in Handlers : g # h => KeyFollows(g)'
      BY <1>0, <3>1, <3>2, <3>3, StaysPlaced DEF KeyFollows
    <3>5. KeyFollows(h)'
      BY <3>1, <3>2, <3>3 DEF KeyFollows
    <3>6. /\ \A a \in Accounts : AddressFollows(a)'
          /\ \A s \in subs' : CopyFollows(s)'
      BY <1>0, <3>2, StaysPlaced DEF AddressFollows, CopyFollows
    <3>7. QED
      BY <3>4, <3>5, <3>6 DEF Follow
  <2>4. CASE Save(h)
    <3> DEFINE u == handler[h].user
    <3>1. /\ u \in Users /\ handler[h].uses \in made
          /\ handler[h].read \notin valid
          /\ UNCHANGED <<valid, hook, subs>>
      BY <2>0, <2>4 DEF Save, InformedAt, KeyFollows, backendVars
    <3>2. /\ key'[u] = handler[h].uses
          /\ \A x \in Users : x # u => key'[x] = key[x]
          /\ hidden' = hidden \cup ({key[u]} \ {Nobody, handler[h].read})
      BY <2>4, <3>1 DEF Save, TypeOK
    <3>3. Goes(h, Answering(handler[h].chat))
      BY <2>4 DEF Save
    <3>4. /\ \A g \in Handlers : g # h => handler'[g] = handler[g]
          /\ handler'[h].at \in {"sync", "ask"}
          /\ handler'[h].user = u /\ handler'[h].uses = handler[h].uses
      BY <3>3, GoesHandler, AnsweringStage
    <3>5. Nobody \notin valid
      BY DEF TypeOK
    <3>6. \A g \in Handlers : g # h => KeyFollows(g)'
      <4> SUFFICES ASSUME NEW g \in Handlers, g # h
                   PROVE  KeyFollows(g)'
        OBVIOUS
      <4>1. KeyFollows(g) /\ handler'[g] = handler[g]
        BY <1>0, <3>4
      <4>2. handler[g].at # "free" => handler[g].user \in Users
        BY DEF Informed, InformedAt
      <4>3. ASSUME handler[g].at \in {"validate", "sync", "ask"}, handler[g].uses \in valid
            PROVE  handler[g].uses \in hidden' \/ key'[handler[g].user] = handler[g].uses
        BY <3>1, <3>2, <3>5, <4>1, <4>2, <4>3 DEF KeyFollows
      <4>4. ASSUME handler[g].at = "turn", handler[g].uses \in valid, handler[g].copy # Nobody
            PROVE  Placed(handler[g].uses, handler[g].copy)'
        <5>1. Placed(handler[g].uses, handler[g].copy)
          BY <4>1, <4>4 DEF KeyFollows
        <5>2. \A a \in valid : \A c : Placed(a, c) => Placed(a, c)'
          BY <2>4, <3>1, SavePlaces
        <5>3. QED
          BY <4>1, <4>4, <5>1, <5>2 DEF Placed
      <4>5. QED
        BY <3>1, <4>1, <4>3, <4>4 DEF KeyFollows
    <3>7. KeyFollows(h)'
      BY <3>1, <3>2, <3>4 DEF KeyFollows
    <3>8. \A a \in Accounts : AddressFollows(a)'
      <4> SUFFICES ASSUME NEW a \in Accounts, hook[a] # Nobody
                   PROVE  Placed(a, hook[a])'
        BY <3>1 DEF AddressFollows
      <4>1. a \in valid /\ Placed(a, hook[a])
        BY <1>0 DEF TypeOK, AddressFollows
      <4>2. \A c : Placed(a, c) => Placed(a, c)'
        BY <2>4, <3>1, <4>1, SavePlaces
      <4>3. QED
        BY <3>1, <4>1, <4>2 DEF Placed
    <3>9. \A s \in subs' : CopyFollows(s)'
      <4> SUFFICES ASSUME NEW s \in subs, s.copy # Nobody
                   PROVE  Placed(s.account, s.copy)'
        BY <3>1 DEF CopyFollows
      <4>1. s.account \in valid /\ Placed(s.account, s.copy)
        BY <1>0 DEF TypeOK, CopyFollows
      <4>2. QED
        BY <2>4, <3>1, <4>1, SavePlaces
    <3>10. QED
      BY <3>6, <3>7, <3>8, <3>9 DEF Follow
  <2>5. CASE GiveUp(h)
    BY <1>a, <2>5, FreeFollows DEF GiveUp, keyVars, backendVars
  <2>6. CASE Sync(h)
    <3>1. /\ handler[h].at = "sync" /\ handler[h].user \in Users
          /\ handler[h].chat \in ChatsOf[handler[h].user]
      BY <2>0, <2>6 DEF Sync, InformedAt
    <3>2. UNCHANGED <<key, hidden, valid, subs>> /\ Goes(h, "ask")
      BY <2>6 DEF Sync, keyVars
    <3>3. \A g \in Handlers : KeyFollows(g)'
      BY <3>1, <3>2, GoesFollows DEF Stages
    <3>4. \A a \in Accounts : AddressFollows(a)'
      <4> SUFFICES ASSUME NEW a \in Accounts
                   PROVE  AddressFollows(a)'
        OBVIOUS
      <4>1. CASE a = handler[h].uses /\ a \in valid
        <5>1. hook'[a] = handler[h].chat
          BY <2>6, <4>1 DEF Sync, Authorized, TypeOK
        <5>2. Placed(a, handler[h].chat)
          BY <2>0, <3>1, <4>1 DEF KeyFollows, Placed
        <5>3. QED
          BY <3>2, <5>1, <5>2, StaysPlaced DEF AddressFollows
      <4>2. CASE ~(a = handler[h].uses /\ a \in valid)
        <5>1. hook'[a] = hook[a]
          BY <2>6, <4>2 DEF Sync, Authorized, TypeOK
        <5>2. QED
          BY <1>0, <3>2, <5>1, StaysPlaced DEF AddressFollows
      <4>3. QED
        BY <4>1, <4>2
    <3>5. \A s \in subs' : CopyFollows(s)'
      BY <1>0, <3>2, StaysPlaced DEF CopyFollows
    <3>6. QED
      BY <3>3, <3>4, <3>5 DEF Follow
  <2>7. CASE SyncFails(h)
    <3>1. /\ UNCHANGED <<key, hidden, valid, hook, subs>> /\ Goes(h, "ask")
          /\ handler[h].at = "sync"
      BY <2>7 DEF SyncFails, keyVars, backendVars
    <3>2. QED
      BY <1>a, <3>1, GoesFollows DEF Stages
  <2>8. CASE Ask(h)
    <3>1. /\ UNCHANGED <<key, hidden, valid, hook, subs>>
          /\ handler[h].at = "ask" /\ handler[h].uses \in valid /\ handler[h].uses \in Accounts
      BY <2>8 DEF Ask, Authorized, keyVars, backendVars, TypeOK
    <3>2. /\ \A g \in Handlers : g # h => handler'[g] = handler[g]
          /\ handler'[h].at = "turn" /\ handler'[h].copy = hook[handler[h].uses]
          /\ handler'[h].uses = handler[h].uses
      BY <2>8, <3>1, AskHandler
    <3>3. KeyFollows(h)'
      BY <1>0, <3>1, <3>2, StaysPlaced DEF KeyFollows, AddressFollows
    <3>4. \A g \in Handlers : g # h => KeyFollows(g)'
      BY <1>0, <3>1, <3>2, StaysPlaced DEF KeyFollows
    <3>5. QED
      BY <1>a, <3>1, <3>3, <3>4
  <2>9. CASE Subscribe(h)
    <3> DEFINE s == [account |-> handler[h].uses, copy |-> handler[h].copy]
    <3>1. /\ UNCHANGED <<key, hidden, valid, hook, handler>> /\ subs' = subs \cup {s}
          /\ handler[h].at = "turn" /\ handler[h].uses \in valid
      BY <2>9 DEF Subscribe, Authorized, keyVars
    <3>2. CopyFollows(s)
      BY <2>0, <3>1 DEF CopyFollows, KeyFollows
    <3>3. \A t \in subs' : CopyFollows(t)'
      BY <1>0, <3>1, <3>2, StaysPlaced DEF CopyFollows
    <3>4. \A g \in Handlers : KeyFollows(g)'
      BY <1>0, <3>1, StaysPlaced DEF KeyFollows
    <3>5. \A a \in Accounts : AddressFollows(a)'
      BY <1>0, <3>1, StaysPlaced DEF AddressFollows
    <3>6. QED
      BY <3>3, <3>4, <3>5 DEF Follow
  <2>10. ASSUME NEW s \in subs, Unsubscribe(h, s)
         PROVE  Follow'
    <3>1. UNCHANGED <<key, hidden, valid, hook, handler>> /\ subs' \subseteq subs
      BY <2>10 DEF Unsubscribe, keyVars
    <3>2. QED
      BY <3>1, StaysFollowed DEF Follow
  <2>11. CASE EndTurn(h)
    BY <1>a, <2>11, FreeFollows DEF EndTurn, keyVars, backendVars
  <2>12. QED
    BY <1>1, <2>1, <2>2, <2>3, <2>4, <2>5, <2>6, <2>7, <2>8, <2>9, <2>10, <2>11
       DEF Handle, Receive, Tap
<1>2. ASSUME NEW d \in Deliveries, Transmit(d)
      PROVE  Follow'
  <2>1. UNCHANGED <<keyVars, backendVars, handler>>
    BY <1>2 DEF Transmit, Post, PostNowhere, SendPart, PartFails, AllSent, Record, TimesOut
  <2>2. QED
    BY <2>1, StaysFollowed DEF Follow, keyVars, backendVars
<1>3. CASE Restart
  <2>1. /\ UNCHANGED <<key, hidden, valid, hook, subs>>
        /\ \A g \in Handlers : handler'[g] = IF handler[g].at = "turn" THEN handler[g] ELSE Free
    BY <1>3 DEF Restart, backendVars
  <2>2. \A g \in Handlers : KeyFollows(g)'
    BY <1>0, <2>1, StaysPlaced DEF KeyFollows, Free
  <2>3. QED
    BY <1>a, <2>1, <2>2
<1>4. CASE Wipe
  <2>1. /\ \A a \in Accounts : hook'[a] = Nobody
        /\ subs' = {} /\ valid' = {} /\ handler' = handler /\ key' = key
    BY <1>4 DEF Wipe, keyVars
  <2>2. \A g \in Handlers : KeyFollows(g)'
    BY <1>0, <2>1 DEF KeyFollows
  <2>3. QED
    BY <2>1, <2>2 DEF Follow, AddressFollows
<1>5. CASE UNCHANGED vars
  BY <1>5, StaysFollowed DEF Follow, vars, keyVars, backendVars
<1>6. QED
  BY <1>1, <1>2, <1>3, <1>4, <1>5 DEF Next

----------------------------------------------------------------------------
(* Deliveries.                                                             *)

\* Whatever counts as recorded was answered with all parts sent, or logged.
AnsweredInFull ==
    \A d \in Deliveries :
        /\ post[d] = "answered" => shown[d] = Parts
        /\ d \in recorded => post[d] \in {"answered", "logged"}

\* Only what was sent in full, or to nowhere, is ever recorded.
LEMMA NextAnswered == TypeOK /\ AnsweredInFull /\ [Next]_vars => AnsweredInFull'
<1> SUFFICES ASSUME TypeOK, AnsweredInFull, [Next]_vars
             PROVE  AnsweredInFull'
  OBVIOUS
<1>0. /\ post \in [Deliveries -> {"none", "sending", "answered", "failed", "logged"}]
      /\ shown \in [Deliveries -> 0..Parts]
      /\ waits \in [Deliveries -> BOOLEAN]
  BY DEF TypeOK
<1>1. ASSUME NEW h \in Handlers, Handle(h)
      PROVE  AnsweredInFull'
  BY <1>1 DEF Handle, Receive, Tap, Begin, Validate, Register, Save, GiveUp, Sync, SyncFails,
              Ask, Subscribe, Unsubscribe, EndTurn, AnsweredInFull, postVars
<1>2. ASSUME NEW d \in Deliveries, Transmit(d)
      PROVE  AnsweredInFull'
  BY <1>0, <1>2 DEF Transmit, Post, PostNowhere, SendPart, PartFails, AllSent, Record, TimesOut,
                    Refused, AnsweredInFull
<1>3. CASE Restart
  BY <1>0, <1>3 DEF Restart, AnsweredInFull
<1>4. CASE Wipe
  BY <1>4 DEF Wipe, AnsweredInFull, postVars
<1>5. CASE UNCHANGED vars
  BY <1>5 DEF AnsweredInFull, vars, postVars
<1>6. QED
  BY <1>1, <1>2, <1>3, <1>4, <1>5 DEF Next

----------------------------------------------------------------------------
(* Theorems.                                                               *)

FrontInv == TypeOK /\ Informed /\ Follow /\ AnsweredInFull

LEMMA InitInv == Init => FrontInv
  BY FrontendAssumption
     DEF Init, FrontInv, TypeOK, Informed, InformedAt, Follow, KeyFollows, AddressFollows,
         AnsweredInFull, Free, Stages

\* Every step keeps the invariant.
LEMMA NextInv == FrontInv /\ [Next]_vars => FrontInv'
<1> SUFFICES ASSUME FrontInv, [Next]_vars
             PROVE  FrontInv'
  OBVIOUS
<1>1. TypeOK' /\ Follow' /\ AnsweredInFull'
  BY NextTyped, NextFollows, NextAnswered DEF FrontInv
<1>2. \A g \in Handlers : InformedAt(g)'
  BY NextInformed DEF FrontInv
<1>3. QED
  BY <1>1, <1>2 DEF FrontInv, Informed

\* The inductive invariant: what the handlers know, whose key a handler uses and
\* replaces, that addresses and their copies lie where the key's user writes,
\* and which deliveries were answered.
THEOREM FrontInvariant == Spec => []FrontInv
  BY InitInv, NextInv, PTL DEF Spec

\* Every variable has its type in every state.
THEOREM FrontTyped == Spec => []TypeOK
  BY FrontInvariant, PTL DEF FrontInv

\* A subscription delivers where somebody writes whose key opens its account,
\* whatever users and groups there are, unless two registrations of its user
\* overlapped: ensure_api_key never leaves another account behind that sends.
THEOREM FrontSenderIsManageable == Spec => []SenderIsManageable
<1>1. FrontInv => SenderIsManageable
  <2> SUFFICES ASSUME FrontInv, NEW s \in subs, Address(s) # Nobody, s.account \notin hidden
               PROVE  \E u \in Users : key[u] = s.account /\ Address(s) \in ChatsOf[u]
    BY DEF SenderIsManageable
  <2>1. s.account \in Accounts /\ CopyFollows(s) /\ AddressFollows(s.account)
    BY DEF FrontInv, TypeOK, Follow
  <2>2. Placed(s.account, Address(s))
    BY <2>1 DEF Address, CopyFollows, AddressFollows
  <2>3. QED
    BY <2>2 DEF Placed
<1>2. QED
  BY <1>1, FrontInvariant, PTL

\* What the backend takes for delivered was shown in full, or had no address.
THEOREM FrontRecordedIsShown == Spec => []RecordedIsShown
<1>1. FrontInv => RecordedIsShown
  BY DEF FrontInv, TypeOK, AnsweredInFull, RecordedIsShown
<1>2. QED
  BY <1>1, FrontInvariant, PTL


=============================================================================
