# Verification of omni-backend

omni-backend is a NestJS server that brings the direct messages of X, Telegram
and email accounts into one PostgreSQL database and sends messages on behalf of
the accounts' owner and assistants.  What makes it hard to get right is spread
over queues: pollers, BullMQ jobs with retries, workers running concurrently,
one IMAP connection shared by three users, one Telegram client per account that
several callers create and replace, Redis and PostgreSQL written one after the
other, and a process that may die between any two of these steps.
The modules here model those parts, TLC checks them on small instances, and
TLAPS proves the central results for every instance.

## The system

| Part | State | Operations | Talks to |
| --- | --- | --- | --- |
| Registry and poll scheduling (`registry.service.ts`, `provider.registry.ts`) | drivers in memory; `connected_accounts` | boot, 30 s tick | adds poll jobs |
| Poll processor (`poll.processor.ts`) | `cursor`, `lastPolledAt` | one job per account and interval | provider, save-message queue, Pusher |
| X provider (`x.provider.ts`) | session tokens, rate counters in Redis | poll, send, refresh, initial fetch | X API |
| Email provider (`email.provider.ts`), connection manager | one IMAP connection per account | poll of INBOX and Sent, send, append, cleanup | IMAP, SMTP |
| Email reconciliation (`email-reconciliation.processor.ts`) | none of its own | every five minutes per account | the same IMAP connection, save-message queue |
| Message processor (`message.processor.ts`) | `conversations`, `messages` | save-message job | database, actor mappings |
| Pusher webhook (`pusher-webhook.*`), messaging service | `messages` | send-message and read-message jobs | provider, actor mappings, Pusher |
| Outbound actors (`outbound-message-actor.service.ts`) | Redis entry, `message_actor_mappings` row | record, resolve | Redis, database |
| Telegram provider and event listener | client pool, pending creations, seen updates | login, updates, send | TDLib, database, Pusher |
| Connector, contacts sync, conversation doctor | `contacts`, `conversations` | bulk imports and repairs | providers, database |
| Auth (`auth.service.ts`) | users, codes, sessions, login prompts | connect accounts, tokens | all providers, Redis |
| Messages, memos, users, activity logs, health, docs | database rows | HTTP queries and single writes | database |

The main flow: a tick adds a poll job; the job asks the provider for messages
after the cursor, **saves the new cursor, then** adds one save-message job per
message; a worker finds or creates the conversation and inserts the message.
The other direction: a Pusher webhook adds a send-message job; its processor
sends through the provider, writes the message row and records who acted; the
copy in Sent comes back through the poll and meets that row.

What must hold, part by part: a message the cursor passed is stored or its loss
has a cause that can be named; a due account is polled; each folder is read
completely and as itself; mails stay with their account and a thread together;
a request sends a bounded number of mails and its row names who sent it; a
Telegram message keeps one row through temporary and final id, and its chat one
conversation; one client per Telegram session, and a login that is verified on
it; an IMAP connection that can be reached or is closed; tokens survive
concurrent refreshes and rate limits are lifted.  `PROJECT.json` lists the
hazards with their lines.

## The modules

| Module | Models | Checked by |
| --- | --- | --- |
| `MessageLedger` | abstract: what becomes of each message below the cursor | `message_ingest` |
| `MessageIngest` | an X poll, its cursor and page, the save-message queue and workers, a crash | `message_ingest`, `message_ingest_live` |
| `PollScheduling` | tick, job key, attempts, drivers, suspension, restart | `poll_scheduling` |
| `EmailPoll` | poll, reconciliation and cleanup over one IMAP connection | `email_poll` |
| `ImapConnections` | that connection: map entry, pending connect, close handler, reconnect timers | `imap_connections` |
| `EmailThreading` | which conversation a mail is stored in | `email_threading` |
| `OutboundMail` | a send request, the row, and the actor mapping | `outbound_mail` |
| `XAccess` | the tokens and counters that stand before every call of X | `x_access` |
| `TelegramPool` | the client pool, pending creations, and the client of a login | `telegram_pool` |
| `TelegramLogin` | the prompts of a login, their timers, and the requests that answer them | `telegram_login` |
| `TelegramMessages` | the five writers of an outgoing message's row | `telegram_messages` |
| `TelegramConversations` | which conversation a chat has | `telegram_conversations` |

The theorems are in eight modules `*Proofs`: `MessageIngestProofs` (with
`MessageIngest` as an implementation of `MessageLedger`), `PollSchedulingProofs`,
`ImapConnectionsProofs`, `OutboundMailProofs`, `XAccessProofs`, and three that
are about two modules each: `EmailProofs` (`EmailPoll` and `EmailThreading`),
`TelegramPoolProofs` (`TelegramPool` and `TelegramLogin`) and
`TelegramMessagesProofs` (`TelegramMessages` and `TelegramConversations`).  Where
two specifications are extended together, the second has a prefix on its common
names: `ThreadingSpec`, `LoginSpec`, `ConversationsSpec`.  `MC*` modules only give
constants their values.

Each await that leaves the process (database, Redis, IMAP, SMTP, TDLib, BullMQ)
ends an action, because another callback may run there; code between two awaits
belongs to the step after it.  Variables whose comment says *history* are not in
the program: they remember a cause, so that a property can say "unless".
Troubles, mishaps and failures are failing calls, outages and crashes; they are
bounded, never excluded, where a call that fails changes what the module says.
`TelegramPool` has none beside a login's that ends in failure: its calls are TDLib's,
a failing `getMe` only leaves a creation to its timer, and a client may close by
itself.

How the modules compose: `EmailPoll` takes its connection as given and
`ImapConnections` says when there is one; `TelegramLogin` takes its client as its
own and `TelegramPool` says when it is; `MessageIngest` assumes the account is
polled and `PollScheduling` says when it is not; `TelegramMessages` works in one
conversation and `TelegramConversations` says which.  Each pair shares only the
fact named here, so they are checked apart and read together.

How state and actions correspond to the code:

* **MessageIngest.** `cursor` is `connected_accounts.cursor.since_id`, `poll` the
  local variables of `PollProcessor.process`, `queue` the waiting BullMQ jobs as
  a bag, `worker` the jobs in `MessageProcessor.process`, `chats` and `rows` the
  tables with their unique keys, `pushed` the Pusher announcements.  `PollFetch`,
  `PersistCursor`, `EnqueueNext` are `performPoll`, `updateAccountAfterPoll`,
  `handleSingleMessage`, whose awaits for one message are one step: no other part
  decides by what lies between them, and a failure on the way is a step of its
  own (`EnqueueFails`).  `FindChat`, `TouchChat`, `CreateChat(Fails)` are
  `handleGenericConversation`; `FindMessage`, `InsertMessage` are `saveMessage`.
  `Crash` is the process dying with BullMQ's rule for stalled jobs (handed out
  once more, then failed).  Conversations of X are those whose events carry a
  conversation id.  What is added to `lost` is always a named failure.
* **PollScheduling.** `job` is what BullMQ keeps under `jobKey`, `toAdd` the rest
  of the loop in `schedulePollJobs`, `drivers` the `ProviderRegistry`, `due` the
  comparison of `lastPolledAt` with the interval, `sessions` the rows of
  `social_media_sessions`, one per user and platform.  `ConnectX` writes the
  session and the account's row side by side (`allSettled`), so either may be
  written without the other; `ConnectEmail` writes one after the other.  A job of
  an account without a session completes without polling, as `resolveSessionToken`
  returns nothing (`MayPoll`).  A job counts its stalls: handed out again after the
  first, failed after the second.  Telegram accounts get no poll jobs and are not
  instances.
* **EmailPoll.** `selected` is the mailbox the connection has open; `Opens` is
  every `mailboxOpen` of the three users.  The range `n:*` always holds the
  newest message, as IMAP defines it.  `Missing` compares INBOX with the uids of
  all rows, as `getRecentLocalUids` does: `Stored` is what was enqueued, but for the
  messages whose jobs fail each time (`NeverStored`; `EmailThreading` says which
  mails the processor refuses).  That the other jobs are done by then only saves
  repetitions, and the rows looked at (`localLookback`) are taken to reach back as
  far as the window.
* **ImapConnections.** `entry` and `attempts` are `connections` and the
  `reconnectAttempts` of its value, `pending` is `pendingConnections`; `Get` is
  `getConnection`, `Closes`, `TimerFires`, `RetrySucceeds`, `RetryFails` are the
  handler of `close` and `scheduleReconnect`.  The client of the timer is the one
  it was set for, the attempts counted are those of whatever the map holds.
* **EmailThreading.** `Head` holds what `handleEmailConversation` derives from a
  mail's headers; the steps are `resolveParentConversation`, `findEmailThread`,
  `resolveConversation` and `saveMessage`.  `ParentKey` is `parentExternalId`: the
  thread id, or the counterparty's address for a mail that has none.
* **OutboundMail.** `job` and `step` are the webhook's job; `saver` the jobs that
  read the copy back; `cache` and `table` the two places of an actor mapping.
  Both paths are taken to find the same conversation.  The seven days after
  which a mapping expires in Redis are left out, and so is a reader that finds
  the mapping of a request made by the owner (the answer is the same).
* **XAccess.** `session` is the row of `social_media_sessions`, `granted` and
  `live` the refresh tokens X handed out and those not used up, `counter` the
  poll's key in Redis and one of the three a send keeps.  A caller goes through
  `checkPollLimit` or `checkSendLimit` (look, then set or increment, each a call
  of Redis), `refreshTokenIfNeeded` (refresh, `v2.me()`, save) and the call.
  `Crash` ends all callers; `RedisChanges` is the client losing or finding Redis,
  where reads answer nothing and writes are skipped in silence.  `calls` holds all
  that X received while a counter lasts, `failed` those among them that it answered
  with an error, which the code does not count.
* **TelegramPool.** `pool` and `pending` are `clientPool` and
  `pendingClientCreations`, `creating` the clients whose creation still polls
  `getMe`, `heard` those with update handlers.  `Call` and `Answered` are
  `getOrCreateClient` before and after its await, `CreationEnds` the end of
  `createClient` (by an answer or after thirty seconds), and a login walks through
  `removeClient`, the creation, the prompts, the poll and `setupListenerForUser`.
  `ClosesItself` is TDLib closing a client whose session was ended elsewhere; nothing
  in the pool hears of it.
* **TelegramLogin.** `entry` and `resolves` are `pendingAuthPromises`: an entry is
  named by the prompt that made it and says which promises its resolvers belong to.
  `prompt` holds the promises TDLib awaits.  `VerifyTelegram` is the look into
  Redis, `Answer` everything from the look into the map to the first await, `Seen`
  and `GiveUp` the two ends of the thirty seconds of polling, `Save`, `RemoveKey`,
  `Forget` the steps after success.  TDLib itself (`Begins`, `AsksOn`, `Accepts`) is
  modelled from the callbacks it is given.
* **TelegramMessages.** `writer` holds, per message, the handlers of new, accepted
  and read messages, the webhook's job and the import of a fetched history; each
  looks a row up and writes it in a later step.  A row is "heard" or "fetched" by
  who inserted it, and has the temporary or the final id.  Updates write only the
  columns that changed, as the ORM does.  The scope is one conversation: the handler
  of an accepted message looks the temporary id up over all of them, here among the
  message's own rows.  An import that fails is tried again, as the import of a
  history that may come at any time.
* **TelegramConversations.** `conv` is the table, `job` the handlers of new
  messages and new chats and the connector's job; each looks for the name, then
  for the id in its own form, then writes.  A chat is a chat as one user's account
  sees it: two members of a group have two chats of one id.  Look-ups see the rows
  of the job's user, the unique key (`Occupied`) those of all.

## What the runs show

| Run | Bounds | Distinct states |
| --- | --- | --- |
| `message_ingest` | 3 events (two of one chat), page of 2, 2 workers, 2 mishaps, 1 waiting copy | 793 000 |
| `message_ingest_live` | 2 events, 1 mishap | 10 000 |
| `poll_scheduling` | 2 accounts on 2 platforms, 3 attempts, 4 troubles, 1 change | 238 000 |
| `email_poll` | 4 messages in INBOX, or 2 and 1 in Sent, with 1 failure; 2 in INBOX, or 1 in each, with 1 cleanup; window of 3, page of 1 | 258 000 |
| `imap_connections` | 2 callers, 4 clients, 2 attempts, 4 troubles | 185 000 |
| `email_threading` | 6 mails of 2 accounts, 2 peers and 2 threads, 2 workers, 1 redelivery, 1 mishap | 2 660 000 |
| `outbound_mail` | 2 attempts, 2 mishaps, 2 readers, 2 reads | 463 000 |
| `x_access` | 1 poll, 2 sends, limit of 2, 3 grants, 1 mishap | 5 660 000 |
| `telegram_pool` | 2 callers, 2 logins, 3 clients, 1 of which closes by itself | 1 000 000 |
| `telegram_login` | 2 requests, 3 prompts, 1 mishap, with and without a password | 161 000 |
| `telegram_messages` | one message of the backend, one of another device, 1 mishap | 689 000 |
| `telegram_conversations` | a private chat and a group of one user, the group of another, 3 names, 2 jobs at once, 3 in all, 3 rows, 1 renaming, 1 failure | 2 330 000 |

All runs pass.  What their properties say:

* `Accounted`, `PushedIsKept`, `RaceHasWinner`: a message below the cursor is in
  hand or stored, or one of six named failures is to blame, the lost race of two
  jobs for a new conversation and the events before the page among them;
  `ImplementsLedger`: queues, duplicates and crashes change nothing else;
  `EventuallySettled`: nothing stays in hand for ever.  (Documentation.md,
  1117-1119, has polling go on until no more messages are available; the events
  excused as *skipped* are those for which it does not.)
* `DueIsPolledOrExcused` leaves three excuses for a due account that is not polled:
  the failed job that blocks its key, the missing driver, and the session that was
  not written.  `FailedForCause`: a key is only blocked by as many throwing attempts
  as there are or by a second stall, one crash does not do.
  `SuspendedFallsSilent` says that a suspension ends the polls, whatever waits.
* `Covered`, `ReadsItsFolder`, `EventuallyRead` name what a folder can lose:
  unparsable or expunged messages, what the first poll or a crash left, and what was
  read while somebody else opened another folder; the polls get from one message to
  the next unless all they ask for is unparsable.  `EventuallyRecovered`: what the
  first poll or a crash left is recovered, unless it is older than the window, a row
  of Sent has its uid, the reconciliation was led to another folder, or refused
  messages with lower uids, missing each time anew, fill the batch
  (`Starved`).  `DeletesItsFolder`:
  a cleanup empties another folder only if that one was opened between its steps.
* `ReachableUnlessRetried`, `ClosedIsRetried`, `CallersServed`: a connection is
  left open out of reach only by retries that were charged to another client or
  opened one outside the map; a closed one is always retried; nobody waits in vain.
* `AccountsApart`, `SplitForCause`, `RefusedForCause`: mails stay with their
  account; a thread is split, or a mail refused, only by races and failures that
  are named, a second root of a thread, a mail stored twice, and a mail without
  thread id that meets the child conversation of its counterparty among them.
* `NamedForCause`, `ActorKept`, `SendsBounded`, `RequestEnds`: who sent a mail,
  that it stays known, and how many mails one request may send.
* `SessionLives`: whoever refreshes at once, the stored token is usable or about to
  be replaced, unless a failure lost its successor.  `CallsBounded`: what the
  non-atomic counters let through, `n * (2 * Limit + n - 1) / 2` calls of `n` sends
  in one window, plus the calls that X received and failed: the code counts those
  nowhere, so nothing bounds them.  The bound is met exactly (with `<` for `<=` TLC
  finds a counterexample), so its square in `n` is real: with the twenty workers of
  the queue and a limit of fifteen it is 490 calls.  A bound linear in `n`, `(Limit
  + 1) * n`, holds up to three sends and not for four (13 calls against 12 with a
  limit of two), more than the run has; `CallsAlwaysBounded` proves the square for
  any number. `LimitLifts`: a limit is lifted, except by the one order of expiry and
  increment that leaves a key without one.
* `OneClient`, `VerifiesItsOwn`, `CallersAnswered`: the pool keeps to one client
  unless a removal overlooks a creation under way.  The pooled client may be closed
  only if it closed by itself; then it stays until a login removes it.
* `AskedIsAnswerable`: while the login may be verified, what TDLib waits for has a
  resolver, unless a failing request swept away the entry that came after its own.
  `FailsForCause`: right answers fail when the password comes along with the code,
  before TDLib asks for it, or when another request spoilt the prompt.
  `AuthorisedIsSaved`: a login on disk goes unsaved when TDLib accepts it after
  all requests gave up, or a row was not written, which `allSettled` hides.
  `AskedIsSettled`: no prompt of TDLib stays open.
* `ShownOnce`, `NamesActor`, `ReadStays`: the orders of the five writers in which
  a message gets two rows, goes unnamed, or is delivered after it was read.
* `UnderItsChat`, `StoredUnlessClash`: as long as no two chats of a user have gone by
  one name, messages stay under their own chat; one of which no call failed is lost
  only if its chat got two rows, or another user has the group's row.  So of two
  users in a group only the first gets its messages.  (A message one of whose calls
  fails is lost too: the handlers log and go on.)

Why the bounds are enough: every cause named above is one crash, one failing call,
one race of two jobs, or one page that is too small, and each instance has room for
it; two workers suffice for a race, three events for one page to be full and one
event to be outside it, a page of one in a window of three of four messages for mail
to be left behind, to fall out of the window, to be starved by a refused one or to
be recovered, and for a poll to go from a first message to a second, two attempts
for a retry to repeat what was done, two readers for a mapping to be moved under the
eyes of another, four clients for one to be connected, lost, reconnected and
replaced while another retries, three grants for two concurrent refreshes and a new
login, three clients for a removal that overlooks a creation, three prompts for a
wrong code, a right one and a password, six mails for each cause of a refusal.  Each
excuse ("unless ...") but one is needed: with it struck out, its run finds a
counterexample.  The one is the unparsable message of `EventuallyRecovered`, which
within the bounds is never among those left behind.  `email_poll` has no bound for each kind of event but one set,
`Scope`, of what may happen together, since liveness over four messages, Sent,
failures and a cleanup at once takes too long.  All bounds are constants named
*bound* where they are declared.  Workers, sends, jobs and names are symmetric in
runs without liveness; liveness runs use no symmetry.

Fairness is that of a running Node process: code that can go on does (`WF` of
the steps of a poll, a job, an attempt), `setInterval` keeps ticking, delays
end, and BullMQ hands out waiting jobs in turn, which is why taking one
particular job needs `SF` in `MessageIngest`.  In `ImapConnections` a call of
`connect()` ends, in either way; in `TelegramPool` a creation ends after thirty
seconds at the latest, settled promises resume and a removal goes on; in
`TelegramLogin` time passes and timers go off.  Nothing is assumed of failures,
crashes, new messages or users.  `MessageIngest` and `EmailPoll` assume that the
account goes on being polled; `PollScheduling` says when it does not.  Deadlock
checking is off where a bounded run comes to rest.

The type invariant is checked in `message_ingest` and `poll_scheduling` and proved
for every module that has one (in `ImapConnections` as part of
`ConnectionsAlwaysSound`).

## What is proved

All theorems hold for every value of the constants that satisfies the module's
assumption (types, positive bounds, finite sets of workers, callers, sends,
logins and messages).  Each inductive invariant was checked by TLC as an
invariant of the module's run before it was proved.

* `MessageIngestProofs`: `TypeCorrect`, then `AccountedAlways`.  `Accounted`
  is preserved step by step: an event leaves the loop only into the queue, a
  job leaves the queue only to a worker, a worker ends only with a row or a
  cause.  The lemmas `ProcessFacts`, `WorkerFacts`, `CrashFacts` state those
  movements once; `KeptStep` and `HeldStep` carry "waiting, in work or stored,
  or lost for a reason" over any step and serve `PushedAlwaysKept` too.
  `StoredAlwaysInChat` is not inductive: a worker about to insert must already
  have its conversation, which `ChatFirst` adds.
  `CursorOnlyAdvances` needs `PageAhead` (a fetched page
  lies beyond the cursor, which only this poll moves).  `RaceAlwaysHasWinner`
  needs `ChatsHaveWinners`: each existing conversation has an event that got
  past its creation and is still in hand, stored, or lost to another failure.
  `IngestImplementsLedger` shows the initial states and each step, including a
  crash that returns jobs to the queue, to be a step or a stutter of
  `MessageLedger`.
* `PollSchedulingProofs`: `JobsAlwaysSound` is the inductive invariant: a job
  is active exactly when a worker has it, a waiting or active job still has an
  attempt left and stalled once at most, and a failed one has used its attempts up or
  stalled twice.
  `TypeCorrect`, `WorkerAlwaysHoldsJob`, `FailedAlwaysForCause` follow.
* `ImapConnectionsProofs`: the two invariants of the run are inductive once
  `PendingManaged` ties the client being connected to the map entry.
* `OutboundMailProofs`: `AttemptsSound` counts the mails sent by the runs of the
  job, `OnlySent` and `Settled` say what rows and readers may hold, `MovedFirst`
  that a reader that removes the table's mapping has cached it or was refused.
* `EmailProofs`, `EmailPoll`: `FolderInv` says which folder is open while a poll or
  the reconciliation reads one, and that the poll has got its own messages so far,
  which gives `ReadsItsFolder`.  `Covered` is about the saved cursor, but the poll
  finds, fetches and saves in separate steps: `WindowSound` says that the window it
  is about to fetch has no hole below any of its uids, `TopsSound` that whatever the
  new cursor will pass is got or has a known reason not to be.  The lemmas about
  `FirstN`, `UidsToFetch` and `Higher` say what a window and a cursor are for every
  number of messages.  `CursorsOnlyAdvance` (no poll moves a cursor back, with
  `TopsAhead`) was checked by TLC apart from the run.  `DeletesItsFolder` needs
  `WipeHasFolder`: a cleanup under way has its folder open, or was led astray.
* `EmailProofs`, `EmailThreading`: `WorkerSound` says what a job knows at each step
  of the parent and the rows it has looked for, `Pairs` that jobs of related mails
  which overlap have left their mark on both, `Started` that a parent was created
  by a root which failed, stored its mail or is about to, `RootsWell` where a stored
  root is.  `AccountsApart`, `SplitForCause` and `RefusedForCause` follow.  The
  assumptions are that thread ids are not addresses (they are Message-IDs, kept in
  their angle brackets) and that a mail without one starts its own thread
  (it has neither In-Reply-To nor References, from which a thread id is taken first).
* `XAccessProofs`: `GrantsApart` (no two callers, nor the session, hold one unused
  token) carries `SessionLives`; `CountersExpire` carries `LimitLifts`;
  `PollCounted` ties the poll's counter to its answered calls.  `SendsCounted` is the
  counting argument for the sends: the calls so far and those *ahead*, which the
  counter will let through before it stands at its limit, stay within what as many
  sends as have started the counter anew can gain (`Restarts`).  The first bound
  stated here, `(Limit + 1) * n`, could not be made inductive, and with four sends
  TLC found it exceeded.
* `TelegramPoolProofs`, `TelegramPool`: `PoolSound` says which client is open,
  pooled, pending or being created in each situation, with those that closed by
  themselves apart, `LoginSound` where a login's own client is, `Numbered` that no
  client is named before it is made.
* `TelegramPoolProofs`, `TelegramLogin`: `Aligned` and `Progress` say how far TDLib,
  the map, the key and the requests can be from each other, `Renewed` that the
  entry in the map was made or renewed by the last prompt, `AnsweredRight` and
  `Awaited` that a request which answered right has given TDLib all it needs and
  that somebody waits for it, `NewLogin` when a login on disk is not TDLib's any
  more.
* `TelegramMessagesProofs`, `TelegramMessages`: an invariant per message.
  `WriterSound` says what a writer that has looked knows, `RowsSound` that each row
  has one inserter, `OwnSound` and `ForeignSound` which id a row has by the stages
  and writers passed, `ActorSound` that the named row is the one later writers find.
* `TelegramMessagesProofs`, `TelegramConversations`: rows are never deleted
  (`JobsFound`) and two rows of a chat are noticed (`TwiceKnown`).  As long as names
  are apart, a row goes by names of its own chat (`RowsNamed`), so the row a job
  finds, by name or by id, is of the job's chat (`JobOwn`), and so is that of each
  stored message.  A write is refused only by a second row of the same chat, which
  `Twice` counts, or by a row of another user's chat of the same id (`Elsewhere`);
  rows stay, so the cause does.

Only model-checked: the liveness properties (the prover has no rule for fairness
here).  Every safety invariant and every action property that a run checks is a
theorem.

## What is not modelled

Message text, attachments and recipients are data without influence on control;
so is every name but those Telegram conversations are looked up by.  Left out on
purpose:

* unread counts, the read status of inbound messages, typing and presence,
  edits and deletions: single-row writes no other part decides by;
* the reconciliation's own scheduling, a smaller `PollScheduling`; shutdown hooks,
  which `main.ts` does not enable;
* the contacts sync's own TDLib client, which breaks the one-client rule by
  design, and the conversation doctor's periodic repairs;
* the cached list of sessions; X's own limits, except as failing calls;
* one-time passwords, MFA and tokens of the backend's own users;
* request handlers that only query, configuration, migrations, HTTP clients,
  logging and documentation;
* which of a conversation's messages its preview shows when jobs run out of order,
  and a second listener on one client, which only notifies twice;
* the batch flush of the connector, where one bad row loses the batch, and the ORM's
  shared unit of work (`allowGlobalContext` in `database.module.ts`), whose
  behaviour is that of a library; entities are taken to be what the query returned.

By lines the mapped part looks small because the repository carries a yarn
release of 194 000 lines; it is a quarter of the server's own source.

## Plan

1. Refinements: what `TelegramPool` promises `TelegramLogin` (a client of its own)
   and `ImapConnections` promises `EmailPoll` as abstract specifications, each
   shown to be implemented.
2. Unread counts: increments by jobs, recomputation, read events.
3. The reconciliation's scheduling as an instance of `PollScheduling`.
