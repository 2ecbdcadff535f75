# TLA+ development of the news personalization service

This directory specifies, model-checks and proves properties of the backend of
the news personalization service (`src/backend/src/news_service`, written
`NS/` below): FastAPI handlers and Celery tasks around one Postgres database,
a Redis, LLM and search providers, and a frontend (the Telegram bot) that is
reached through a webhook.

The hard part of the service is not in any one function. Every task reads
rows, spends seconds to minutes in providers, POSTs to the frontend and
commits afterwards, while other tasks, the user and the feeds go on. The
modules model that: what is read when, what is used after it was read, what is
visible to whom, and what is left behind when a step fails.

## Inventory

| Part | State | Operations | Meets | What makes it correct |
|---|---|---|---|---|
| Digest delivery (`tasks/deliver_digest.py`, `agents/digest/`) | `sent_items`, the task's transaction, its Celery retry counter | load and check the subscription, read sent rows, fetch candidates, write and judge, insert rows, wait for the minute, POST, commit | scheduler, "digest now", polls, stop / delete, other digest tasks | no item twice without a reason, no record without a delivery, no item lost, every task ends |
| Digest scheduler (`tasks/schedule_digests.py`, `services/scheduler.py`) | `last_digest_scheduled_at` | the minute scan: load, test, send, stamp, commit | overlapping scans, stop / resume, broker | no slot skipped, a repeat has a reason, every firing is sent, one row does not stop the others |
| Event delivery (`tasks/deliver_events.py`, `agents/event/`) | `sent_items`, one session per batch shared by all coroutines | read, assess, judge, POST, add, commit | the verifier, retries, other coroutines | as for digests |
| Event verifier (`tasks/reflect_events.py`) | `sent_items`, catch-up items, `last_reflected_at` | search, check, POST, flush, one commit | batch tasks | as for digests |
| Feed polling (`tasks/poll_feeds.py`, `db/vector_store.py`) | `news_items`, a transaction per source, the ids found | fetch, embed, look up, insert, commit, send the batch | overlapping polls, two feeds with one URL, provider limits | an id goes out once, only when stored, and is not forgotten |
| Provider-limit retry (`tasks/retry_policy.py`), dead letters (`tasks/celery_app.py`), admin alerts | retry counter, `failed_tasks`, a throttle key | defer, give up, alert once per window | every task | bounded, loses no work |
| Subscription tools (`agents/conversational/tools.py`) | `subscriptions`, links, removal log | create, update, add / remove source, stop, resume, delete, share, import, digest now, discovery | confirmations, caps, tasks | caps hold, a stopped subscription is silent, links and counts agree |
| Source pool (`services/coverage.py`, stats and embedding jobs, `agents/digest/reflector.py`) | `sources.subscriber_count`, `is_active`, links, streaks | attach, adopt, detach, deactivate, reflect | discovery, tools, deletes, imports | a followed source is active, the caps hold |
| Source discovery (`tasks/discover_sources.py`, `agents/source_discovery/`) | selected sources of a run | load the room left, run finders, persist, notify | tools, other discoveries | the hard cap, no locked-out source, ends |
| Confirmations, shares, rate limits (`core/`) | Redis keys with a TTL | create, peek, consume, cancel; mint, redeem; count | HTTP handlers | single shot, owner only, counters expire |
| Conversations (`api/routes_conversations.py`) | the stored thread | load, run a turn, close a scenario, trim, save; record a button decision | concurrent turns and buttons | no turn or decision is lost |
| LLM access, guardrails, relevance, search, adapters | none that lasts | calls and pure functions | | |
| Telegram frontend (`src/tgbot`) | user registry, API keys | deliver to chat, start, settings | backend webhook | a delivery goes where its account's user writes, and reaches it in full |

The hazards that follow from this, each at the line where it bites, with the
properties about it and what these leave out, are listed in `PROJECT.json`.

## Modules

| Module | Models | Extends / instantiates |
|---|---|---|
| `DeliveryLedger` | abstract: unsent, open, recorded items of one subscription | |
| `DigestDelivery`, `MCDigestDelivery` | the `deliver_digest` tasks of one subscription, its `sent_items`, polls seen from a digest | instantiates `DeliveryLedger` |
| `DigestPipeline`, `MCDigestPipeline` | inside one digest: writer, judge, reflector, streaks; the nightly task | |
| `DigestScheduler` | the `schedule_due_digests` scans | |
| `EventItems` | the constants of the next two | |
| `EventPoll` | the `poll_all_feeds` tasks | extends `EventItems` |
| `EventBatch` | batch tasks with their shared session, judge loop, and the verifiers | extends `EventItems` |
| `EventFlow`, `MCEventFlow` | the two together: polls send what batch tasks deliver | extends `EventPoll`, `EventBatch` |
| `SourcePool`, `MCSourcePool` | subscriptions, links and the shared `sources` rows under tools, reflector and discovery | |
| `DiscoveryRun` | one discovery task with its agent, finders, commit and notice | |
| `RateLimit` | `check_rate_limit`, command by command | |
| `Conversations`, `MCConversations` | turns, buttons, nonces and the stored thread of one user | extends `RateLimit` |
| `TelegramFrontend`, `MCTelegramFrontend` | the bot: keys, accounts, addresses, deliveries in parts | |
| `*_proofs` (8) | the theorems about the module of that name | the module, TLAPS |

The `MC` modules only name model values and the symmetry of a run. Definitions
marked *Seeded fault* are wrong variants of the definition that follows them;
nothing uses them: they are there to see each property fail when the code is
changed that way (`mutants` in `PROJECT.json`).

### DigestDelivery

One action per step of the task. `Start` / `Skip` are the load of the
subscription and the three checks (the only look at its status);
`FetchCandidates` is the cut-off of `candidates.py` over what the task has read
and what is committed now; `Compose`, `NothingNew`, `WriterError` and
`ProviderLimit` are the outcomes of the writer / judge loop; `InsertRow`,
`UniqueViolation`, `DeadlockAbort` and `Flushed` are the flush of the
`sent_items` rows; `Post`, `PostRefused`, `PostAnswerLost` and `PostNothingNew`
are the webhook; `Commit` and `Crash` end the transaction. A poll is split
where the code is: `PollFetch` takes `fetched_at`, `PollCommit` makes the row
visible. Postgres appears as what `uq_sent_item` does to concurrent inserts:
wait for the open transaction, fail if it commits, go on if it rolls back;
a cycle of waits loses one transaction.

What the LLM writes is a choice among all non-empty subsets of the candidates.
A `scheduled_for` of 0 is "digest now", which is also the only caller that asks
to be told when there is nothing new.

Left out: the 50 + 30 limit on candidates (every qualifying item is offered)
and the text of the digest. The reflector and the contribution streaks are in
`DigestPipeline`; their row locks make some overlapping tasks wait longer than
here, so this module has more interleavings than the code.

### DigestScheduler

Beat starts a scan every minute, and scans pile up behind workers that hold a
digest for its minute, so several run at once. `Load` reads the rows, `Send`
and `PassOver` visit one, `Commit` writes every changed row at once, `Drop`
is a scan that ends without it. `CronError` is the row whose cron expression
makes a library raise something the scan does not catch. The slots are
croniter's occurrences, `Firings` are Celery's.

### DigestPipeline

One digest of one subscription at a time, from the first read to the delivery,
in one transaction. `Fetch` takes the candidates, `Write` drafts ids (some of
them made up: `Phantom`), `Refuse` / `Accept` / `JudgeFails` are the judge and
its bounded loop, `Check` drops the ids that are no candidates and decides
whether there is a reason to reflect: a refused last draft, a source that has
drifted or fallen silent (`Ill`), or a streak at `Threshold`. The reflector
removes sources the user has not named (`RemoveSource`), and may ask for a
discovery; `Mark` moves the streaks on with the values read at that moment,
`Flush` takes the row locks, `Deliver` records the rows in some order.
`NightRead`, `NightCommit` and `NightFails` are
`update_subscription_source_stats`: rows and streaks are read, and all that has
changed is written at one commit. `Attach` and `Detach` are other operations
on the links.

### EventBatch

A batch task is a set of coroutines, one per subscription, on one SQLAlchemy
session. `Record` commits a coroutine's row together with rows the others have
added; `RecordCollides` is asyncpg refusing a second operation; after
`RecordConflicts` the session is dead and every later `Record` is a
`RecordFails`, while the coroutines go on POSTing. What the assessor says of the
listed items (`Assessments`) goes through the judge loop as a function:
`Verdicts`, `Without`, `Revised`, `Judged`, and `Deliverable` is what is left
to POST. The verifier has a session per subscription, searches and reports
missed items (`Reports`), flushes each row after its POST and commits once. A
subscription has one verifier run at a time (the task runs daily). The
assessor may list an item several times (`MaxListed`). Flush and commit of the
batch are one step; the verifier's are two, because other misses are POSTed in
between.

### EventPoll

One transaction per source: `Fetch`, `Embedded`, then `LookUp` and `Insert` per
post (two steps: another transaction may insert between them), `Commit`. All
ways for a source to end without a commit (timeout, error, unique violation,
deadlock victim) have the same effect and are `SourceFails`. `Send` passes the
ids on; `Retry`, `SendFails` and `Crash` do not. The order of the sources and
the semaphore are left out (any order, any concurrency).

### EventFlow

The composition, in one state: `PollWork` and `BatchWork` interleave, and
`SendBatch` is the step both take part in, a poll's `Send` that is the `Message`
of a batch task. `EventBatch` by itself guards `Enqueue` with the claim that no
item is in two messages; here there is no such guard, and the claim is what the
polls have to bring about (`MessagesDisjoint`), with the stored rows
(`MessageIsStored`). The verifier reports items the polls have stored: an item
it finds first is stored by its own flush under a sentinel source and is no
poll's to send, so the two never exchange it.

### SourcePool

A worker executes one operation at a time, and each is a transaction without
row locks: what it reads (`base`, `was`, `had`, `locked`) is what it computes
with at its commit. `StartCreate`, `StartResume`, `Redeem` (import), `Stop`,
`Delete`, the removal of a source and `StartDiscovery` are the tools, the
reflector's removal and the task; `Ensure` and `Insert` are
`ensure_source_coverage` on a row that is there or not; the commits write
counts, `is_active`, links and the removal log. The ORM writes only columns it
has changed, so an `is_active` that was read as true is not written again. `raced`
(a row overwritten from an outdated copy) and `uncounted` (a link an import
made) are the two ways the code lets counts go wrong; the properties say that
there is no third.

### DiscoveryRun

`Start` reads what is attached and locked out; the agent's tools are `Spawn`,
`Submit` and `Abort`, a finder's own steps `Validate`, `Return` and
`FinderCrashes`, all of them concurrent; `AgentEnds`, `Persist`, `Notify` and
the retry end the task. `Meanwhile` is what the user does to the subscription
and its links in the minutes that takes.

### Conversations and RateLimit

`Send`, `AskLimit`, `Load`, `Mint`, `Answer` / `AgentError` are a turn; `Tap`,
`Cancel` / `Redeem`, `Act`, `LoadForNote`, `SaveNote` a button. The thread
holds messages and the lines of the compacted log, each with the turns it
stands for, so that what a close or a trim moves into the log is still known.
A message is small, or larger than the whole limit (`Big`): that is what
`_enforce_size_guardrail` tells apart. `RateLimit` is the counter with its three
Redis commands and what happens when one of them fails or its caller dies.

### TelegramFrontend

The bot keeps a key per Telegram *user* (`from_user.id`), while the address it
gives the backend is that of the *chat* the message came from (`chat.id`); no
handler is restricted to private chats, so `ChatsOf` says which chats, private or
shared, each user writes in. Handlers of updates run concurrently: `Receive` (a
message) and `Tap` (a button, which sets no address) read the user's key,
`Validate` asks the backend about it (once after each start of the bot),
`Register` and `Save` get a new account, `Sync` makes the chat the account's
address, `Ask` is the turn's request, which loads the account with its address.
`Subscribe` copies that address into the subscription, and `Address` takes the
copy first and the account's address where there is none. `Post`, `SendPart`,
`PartFails`, `AllSent`, `TimesOut`, `Record` are a delivery in `Parts` messages,
`PostNowhere` one without an address. `Restart` empties the bot's memory,
`Wipe` the backend's database.

A delivery's address is read when it is POSTed, not at the start of its task; a
stopped subscription keeps its address and counts as a subscription; nobody
leaves a group (`ChatsOf` is a constant).

## Properties

Each is stated in a comment above its definition.

- `NoUnexplainedRepeat`, `RepeatHasReason`: the frontend shows an item again
  only if an earlier accepted delivery was not recorded (for digests nothing
  else; for events also a delivery under way at the same time).
- `RecordedWasReceived`: nothing is on record that was not delivered.
- `UnracedItemKept`: an item is out of the reach of later digests only when a
  recorded digest's writer was offered it, or its poll overlapped that digest.
- `LedgerSpec`: the digest tasks implement `DeliveryLedger`.
- `ReflectorActsOnFacts`, `StreakCoversDigests`: the reflector is told of the
  draft that goes out and spares what the user named; a source of no use is
  noticed, unless digest and night overwrote one another.
- `NoSlotSkipped`, `EverySlotSent`: at least one message for every slot.
- `BatchedOnce`, `NothingForgotten` (of polls): at most one message per item,
  which is what keeps two batch tasks from delivering it, and never silently none.
- `MessageIsStored`: a batch task finds the rows of its message.
- `CountCoversLinks`, `FollowedIsPolled`: no order of operations makes a count
  too small or a followed source silent, but for the two ways above.
- `RunningWithinCap`, `RoomKept`, `RemovedStaysOut`: how far the caps and the
  lockout hold when they are checked minutes before they matter.
- `SelectionSound`, `CommitsOnce`: what a discovery selects and commits.
- `RunsOnce`, `CancelledNeverRuns`: confirmations.
- `NothingForgotten` (of conversations), `ThreadFits`: the stored thread.
- `CounterExpires`: nobody is over the limit for ever, unless an EXPIRE was lost.
- `SenderIsManageable`: where a subscription delivers, somebody writes who holds
  the key of its account and can stop it; in a group that is one member.
- `RecordedIsShown`: a chat has seen what is recorded, unless there was no address.
- `EveryTaskEnds`: nobody waits for ever for another's row, minute or provider.

Variables marked *history* (`received`, `forgotten`, `kept`, `told`, `ran`, ...)
are read by no guard of the modelled code. Some of them name what the code gets
wrong, so that a property can say that it is the only way to get it wrong; what
such a property excuses it does not find:

| Excused | By | In |
|---|---|---|
| a slot's second message when scans overlapped | `overlapped` | `RepeatHasReason` of the scheduler; `NoSlotSkipped` holds there too |
| an item whose poll overlapped a recorded digest | `raced` | `UnracedItemKept` |
| an item shown twice by two deliveries that met | `raced` | `RepeatHasReason` of events; `RecordedWasReceived` holds there too |
| ids of a poll that ended without sending them | `dropped` | `NothingForgotten` of polls |
| counts overwritten from an old copy, links of an import | `raced`, `uncounted` | `CountCoversLinks`, `FollowedIsPolled` |
| one running subscription more per concurrent request | `Cap + Workers - 1` | `RunningWithinCap` |
| links made or removed while a discovery runs | `had`, `since` | `RoomKept`, `RemovedStaysOut` |
| a tap and a cancel that overlap | `crossed` | `CancelledNeverRuns` |
| what a save of an older thread overwrites | `gone` | `NothingForgotten` of conversations |
| an EXPIRE that was never executed | `lost` | `CounterExpires` |
| streaks written from an older reading | `raced` | `StreakCoversDigests` |
| an account replaced by its user's second registration | `hidden` | `SenderIsManageable` |

## Runs and bounds

| Run | Bounds | Why they are enough |
|---|---|---|
| `digest_delivery` | 2 items, 2 tasks, 4 moments, slots now / last moment, 1 retry; symmetric in items and tasks | two tasks make every overlap, two items a deadlock and a partial overlap of their rows; three moments after the start order poll, digest and cut-off in every way |
| `digest_liveness` | 2 items, 2 tasks, slot at the last moment | waits, deadlock, retry, the minute |
| `digest_pipeline` | 2 sources, 4 items (3 of one source), window 3, threshold 2, 2 revisions | a window that fills up, a source that contributes and one that does not, a night between two digests and a digest between the night's read and commit |
| `digest_streak` | as `digest_pipeline` | ends in a violation |
| `digest_scheduler` | 2 rows (one broken), 2 scans, 1 abort, slots 1 and 2 (1 minute, lead 1) | an older scan committing after a newer one needs two scans and two slots |
| `cron_broken_row` | 1 scan, 3 slots | ends in a violation |
| `event_batch` | 1 item, 2 subscriptions, 1 task, item listed up to twice, 1 missed item reported up to twice, 2 revisions, 1 retry, 1 verifier run each | a second subscription is what shares the session; the verifier and a double listing make the conflicts |
| `event_flow` | 1 URL, 2 sources, 2 polls, 2 batch tasks of 1 subscription, 1 retry, no verifier run; symmetric in sources, polls and tasks | one URL in two feeds and two polls is every way to meet it; a second task is there for a second message; the verifier is in `event_batch` |
| `source_pool` | 3 subscriptions of 2 users, 2 sources, 2 workers, both caps 1, 4 jobs; symmetric | a cap is overrun with one more than it; a third subscription and user make another follower of a shared row; four jobs are create, create / import, and a remove beside a discovery |
| `conversations` | 2 requests at a time, 2 turns (one big), 2 nonces, 2 taps, limit 1, 2 hits, limit of 3 small messages; symmetric in requests and nonces | two requests make every overlap, two taps the double tap and tap against cancel, a big message and four small ones every trim |
| `discovery_run` | 2 URLs, 2 finders, hard cap 2, 2 spawns, 5 calls, 1 retry | two finders that overlap with a submission, a room of one when one is attached |
| `telegram_frontend` | 2 users, a group of both and a private chat of one, 2 handlers, 2 accounts, 1 subscription at a time, 1 delivery of 2 parts; symmetric in accounts and handlers | two handlers race for a user, or two users write in one group, or one user in two chats; the second account is the other user's, the race's, or the one after a wipe; the proof covers more of them together |

`CHECK_DEADLOCK FALSE` stands where all work may have ended (the two digest runs,
batches, pool and conversations, whose bounds are used up).

Fairness: a worker that has a task goes on with it, and every provider,
database and webhook call returns because each has a timeout
(`WF_vars(Progress(t))`, `WF_vars(TaskStep(t))`, `WF_vars(VerifierStep(u))`);
beat starts scans and a scan goes on until it ends (`WF_vars(ScanStep(s))`);
time passes. A discovery is taken up, comes back after a limit, and its agent
ends or is killed by the task's time limit (the five `WF` of
`DiscoveryRun!Spec`); nothing is assumed of a finder. Users, polls, crashes and
aborts owe nothing.

### What the code does otherwise than it says

Two runs end in a violation and check a sentence of a comment or a test:

- `cron_broken_row`: a row that raises anything but `ValueError` stops the
  digests of everybody (`test_schedule_digests.py:146`).
- `digest_streak`: `sent_at` differs per row, so the nightly task takes each row
  of a digest for a digest of its own (`update_subscription_source_stats.py:150`).

Others met while modelling, as the modules have them (the properties are stated
so that they hold beside them), or outside the modules:

- An item committed after a digest, with a `fetched_at` from before it, never
  qualifies (`poll_feeds.py:185` against `candidates.py:25-28`).
- A digest goes out for a subscription stopped while it was written or waited
  for its minute (`deliver_digest.py:91` against `models/subscription.py:34-36`).
- Two cron libraries: minutes at which a schedule does not fire are recorded and
  sent (`schedule_digests.py:70` against `core/config.py:54-56`).
- A provider limit in one source loses the event notifications of the other
  sources of the poll (`poll_feeds.py:139` against `retry_policy.py:6-9`).
- A catch-up item is stored under a sentinel source; the poll that later meets
  its URL takes it for an old one (`reflect_events.py:265`).
- Of two overlapping digests, one streak increment can be lost; a digest writes
  over a streak that the night has written since the digest read it; one link
  removed during the night's run fails its commit for everybody.
- The digest writer turns a provider limit into a `RuntimeError`, so the task is
  never retried for it (`writer.py:233-242`, against `core/llm.py:198-202`);
  finders and the event judge swallow theirs (`pipeline.py:404`).
- An event assessment that a revision makes "not relevant" is delivered if it
  has a text: the relevant ones are selected before the judge loop only
  (`deliver_events.py:205-209`, against the docstring at `:281-284`); and an
  overall PASS of the judge overrides a REVISE of a single item.
- A reflector that fails after removing sources loses its wish for a discovery.
- A finder that returns after an `abort` fills the pool all the same, and what is
  then submitted is kept, where the log line says that it is treated as zero
  sources (`pipeline.py:592-598`). The notice "Attached N new" lists all that was selected, new or not.
- While Redis fails after an INCR, the counter has no expiry; a user who gets
  over the limit then stays there (`rate_limit.py:65-67`, `:73-74`).
- A refused import has spent its share token. An identifier and a URL of one
  source in one `add` raise its count twice.
- `_VALIDATED_KEYS` of the bot is never invalidated (`user_registry.py:8`), so
  after a wipe of the backend a chat's requests are refused until the bot starts
  again, which `api_key_is_valid` (`client.py:78-83`) is there to prevent.
- In a group the account of the member who wrote delivers to a chat whose other
  members cannot manage it: the key is stored by `from_user.id`, the address is
  `chat.id` (`start.py:121`, `:129`). A subscription keeps the chat of its
  creation (`tools.py:331`), while one that was created before any address was
  known follows the account to the chat of its user's last message.
- A digest without an address is logged and recorded as delivered
  (`delivery.py:18-20`): after a failed address update of a new account
  (`start.py:416-424`), too, not only in local development.
- `split_for_telegram` returns a part over the limit when one of several
  paragraphs is longer than it (`text_split.py:22-30`).

## Proofs

For every set of items, tasks, subscriptions, sources, users, requests and
chats, whoever writes in which chat, and for every bound, from the assumptions named in the modules
(`DigestAssumption`, `SchedulerAssumption`, `ItemAssumption`, `EventAssumption`, `PoolAssumption`,
`DiscoveryAssumption`, `PipelineAssumption`, `FrontendAssumption`,
`LimitAssumption`, `ConversationAssumption`), all evaluated by TLC in the runs:

- `DigestTyped`, `DigestInvariant`, `DigestNoRepeat`, `DigestRecorded`. The
  delivery properties are not inductive by themselves. `DigestInv` adds who
  may hold an uncommitted row (`HolderOK`: only a task between its flush and
  its end, for one of its items, with no committed twin), that a flushed task
  holds all its rows (`FlushedOK`), that times are not the mark for "no row"
  (`StampOK`), and the balance `received = forgotten + (1 if open)`
  (`Balanced`). A POST by a task that holds its rows meets neither a
  recorded nor an open delivery of the same items, which is why the balance
  survives it; both delivery properties follow from the balance.
- `DigestImplementsLedger`: from the same invariant, every step of the tasks is
  a step of `DeliveryLedger` or a stutter under
  `state[i] = recorded / open / unsent`.
- `DigestUnracedItemKept`, from `DigestInv` and three more parts (`KeptInv`). A
  recorded digest moves the cut-off to its stamp, so every item fetched before
  it must be accounted for. `WindowOK` says that of a task in hand: what is
  fetched is among its candidates or was missed, was sent or is too old, is shut
  out by a row the task has read, or was fetched after the stamp.
  `FetchedKept` says it of what is on record, for stored and unstored items
  alike; a commit turns the first into the second. `PastOK` (stamps lie in the
  past, what a task has read stays on record) makes later fetches pass.
- `SchedulerTyped`, `SchedulerSkipsNoSlot`. `NoSlotSkipped` alone is not
  inductive: a commit writes what a scan computed long ago. `RowsSent` says
  that the same holds of what every scan has read and of what it is about to
  write, whatever others have committed meanwhile.
- `SchedulerRepeatHasReason`, from that invariant and two more parts
  (`RepeatInv`). While no scans have overlapped, what a scan has read is what is
  stored (`RowsCurrent`), and a slot has at most one message that is on record
  or is to be put there by the scan that sent it, next to those of scans
  that ended without a commit (`SentCounted`).
- `PollTyped`, `PollInvariant`, `PollBatchesOnce`, `PollBatchesStored`,
  `PollForgetsNothing`. That an item is sent once rests on the moment of the
  commit: the rows of the transaction were not stored before (`OneInserter`:
  an inserted row is in one open transaction and has no stored twin), and
  whatever is found or sent is stored (`FoundIsStored`, `BatchedIsStored`), so
  no poll and no message can have them yet. `PollForgetsNothing` is inductive
  with the types alone.
- `EventTyped`, `EventInvariant`, `EventRepeatHasReason`,
  `EventRecordedReceived`. The heart of `EventInv` is a balance
  (`Balanced`): for a pair of subscription and item, the notifications that can
  still be recorded are one if it is on record, and one for each that the one
  task whose message has the item has added or is recording (`InBatch`), or
  the verifier has POSTed or flushed (`InVerifier`). It survives a commit that
  takes other coroutines' rows along, a conflict that kills the session, and a
  retry, because each of them moves or gives up exactly those. `MessagesOK`,
  `CoroutinesOK` and `HeldOK` say who can have a pair; types need the balance
  too, for `kept` never to fall below zero.
- `FlowImplementsPoll`, `FlowImplementsBatch`, `FlowMessagesStored`,
  `FlowMessagesDisjoint`, `FlowRepeatHasReason`. The composition
  implements both of its parts. For `EventBatch` that is a step from assumption
  to fact: a message's ids were found by one poll and have been in no message
  before (`PollInv`), and an item is in a task's message only when it has been
  in one (`MessageFromPoll`), so `SendBatch` is an `Enqueue`. All that is
  proved of the parts then holds of the whole.
- `PoolTyped`, `PoolInvariant`, `PoolCountCovers`, `PoolFollowedPolled`,
  `PoolRunningCap`, `PoolRemovedStaysOut`, `PoolRoomKept`. `PoolInv` says who
  owns a row that is being inserted (`RowsOK`), that a new subscription has one
  creator and no links yet (`JobsOK`, `NoLinksYet`), that a removal knows when
  its link is gone (`RemovalsOK`), that a counted follower keeps its row active
  (`FollowedIsActive`), and what a discovery carries from its reads
  (`LockoutSeen`, `SelectionFits`). A commit whose copy is not outdated writes
  the stored count and one more or less, as links grow or shrink by one; one
  whose copy is outdated goes into `raced`.
- `DiscoveryTyped`, `DiscoveryInvariant`, `DiscoverySelectionSound`,
  `DiscoveryCommitsOnce`: an attempt starts from nothing (`FreshStart`), and
  the selection stays within a pool that only grows.
- `PipelineTyped`, `PipelineInvariant`, `PipelineReflectorActsOnFacts`,
  `PipelineStreakCoversDigests`. The streak's claim needs that the rows say the
  same, those stored and those the night has read (`RowsCover`): before the
  first row of a source there are at least as many rows as digests since it
  contributed, because a digest has at least one row.
- `FrontTyped`, `FrontInvariant`, `FrontSenderIsManageable`,
  `FrontRecordedIsShown`. `FrontInv` says what each stage of a handler may know
  (`Informed`), that a key in use is its user's or opens nothing and one that is
  replaced opens nothing, that the account's address, the one a turn has loaded and
  those its subscriptions copied lie where the key's holder writes (`Follow`, made
  of `Placed`), and what an answer means (`AnsweredInFull`). The step that matters
  is `Save` (`SavePlaces`): the key that it replaces was refused, or is hidden.
- `TalkTyped`, `TalkInvariant`, `TalkRunsOnce`, `TalkCancelledNeverRuns`,
  `TalkNothingForgotten`, `TalkThreadFits`. `NonceOnce`: a nonce in Redis has
  not run, and one request at most has taken it; `NonceCancelled`: without a
  second request under way, taking it to execute and taking it to cancel exclude
  each other. `ThreadInv` follows a thread through the requests: what an agent
  works on ends with its user's message, what a decision is noted in ends with a
  whole exchange. The lemmas about `Compacted`, `Closed` and `Trimmed` hold
  for threads of every length; that `Trimmed` leaves a whole exchange rests on
  the least number of messages it may drop (`LeastExists`).
- `LimitCounterExpires`, `TalkImplementsLimit`, `TalkCounterExpires`: the rate
  limit on its own, that the conversation implements it, and so that its counter
  expires.

Only model-checked: the liveness properties, `EveryTaskEnds` of digests, batches
and discoveries and `EverySlotSent` (the prover has no rule for liveness under
fairness, nor for ENABLED). Every invariant, action property and refinement that a
passing run checks is proved.

## Not modelled

- Feed adapters, parsing, LLM and search calls, prompts, relevance scores,
  descriptions and embeddings, the SSRF filter and other guardrails on text: pure
  functions or input / output, present in the modules as the choice of an
  outcome, a failure or a provider limit.
- Time zones and the cron grammar: two readings of an expression are constants
  of `DigestScheduler`.
- `update_subscription`, `remember`, language and time zone tools and the
  reflector's rewrite of `user_spec`: single columns, the last writer wins (a
  user's edit during a digest can be overwritten by the reflector's).
- `failed_tasks` rows and the throttled admin alert: nothing reads them.
- The candidates' 50 + 30 limit, the semaphores of poll and discovery.
- The weekly refresh of descriptions, debug routes, wiring.

## Plan

What is left, in this order:

1. The verifier's catch-up items in `EventFlow`, with the item that is stored
   under the wrong source.
2. The candidates' limit in `DigestDelivery`, with the items it leaves behind.
