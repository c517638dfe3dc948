# Glazz Chat: specifications

Glazz Chat is a chat application: a Go API and a Go worker over PostgreSQL and Redis,
a language-model provider behind a gateway, and a browser client that talks REST and
WebSocket. This directory holds TLA+ models of the parts whose correctness rests on the
order in which processes take their steps, the TLC configurations that check them, and
TLAPS proofs of what matters most. `PROJECT.json` lists components, runs, mutants, the
map from definitions to source lines, findings, hazards and theorems.

Paths below are relative to `src/apps/api/` unless they start with `src/` or name a
document at the top of the repository.

## 1. The system

| component | state | operations | correct when | here |
|---|---|---|---|---|
| Quota (`internal/quota`) | `daily_usage`, guest allowance, `quota_reservations`; Redis leases and rate windows | MaxOutputTokens, Reserve, Settle | budgets and concurrency limits hold under races; the ledger balances; a lease is released by its owner only | `Quota`, `QuotaProofs` |
| Chat (`internal/chat`) | conversation state, generations, messages, usage ledger; in memory: CancelFuncs and early cancels | Prepare, Retry, Start, generate, finish, fail, blockSafety, Cancel | one generation at a time; rows agree when it ends; cancels and retries follow the state diagram | `Chat`, `GenerationLifecycle`, `ChatProofs` |
| Outbox and worker (`internal/platform/outbox`, `cmd/worker`) | `outbox_events`, `outbox_receipts`, advisory locks, connection pool | enqueue, RunOnce, process, fail | one runner at a time in a handler and none after the receipt, while the connection of its advisory lock holds; rows agree with receipts, final states, every event settled | `Outbox`, `OutboxProofs` |
| Conversations (`internal/conversations`, `internal/guests`) | conversations with owner, creation key, archiving, deletion | Create, Update, Delete, List, Get, MigrateGuestConversations | a creation sent again makes no second conversation; pages lose and repeat nothing; nothing is deleted under a running generation | `Conversations`, `OwnershipProofs`; generation state, in `Chat` |
| Contexts and summaries (`internal/chat`) | messages with their sequence, summaries with their versions, an advisory lock | buildContext, buildStoredContext, ensureSummary | summaries join without gap or overlap and leave no message out | `Summaries`, `SummariesProofs` |
| Identity (`internal/identity`) | users, OAuth accounts, guest sessions, sessions with their refresh tokens; OAuth state in Redis; cookies | Start, Complete, ProvisionGoogle, migrateGuest, Create, Rotate, Revoke | a session has one live token; reuse revokes it, and only reuse; revocation is final | `Accounts`, `OwnershipProofs`; migration of conversations, in `Chat` |
| Privacy (`internal/privacy`) | account status, deletion jobs | Request, PurgeDue, CleanupGuests | an accepted deletion ends the sessions and is carried out | `Accounts`, `OwnershipProofs` |
| Realtime (`internal/realtime`) | sequence and replay log per actor in Redis, tickets, connections with their queues | Emit, Replay, Issue, Consume, Serve | the log has no holes; replay plus subscription loses nothing; a slow page is closed and not waited for; a ticket is used once | `Realtime`, `RealtimeProofs`; acknowledge before start, in `Chat` |
| Provider gateway (`internal/provider`) | slots in a channel, circuit breaker under a mutex | Stream, Next, Close, Catalog, Health | no slot is lost or given back twice; circuit and count of failures agree whatever is reported late; who waits is served | `Gateway`, `GatewayProofs`; what a stream delivers, in `Chat` |
| Administration (`internal/admin`) | models, settings, roles, each with versions | UpdateModel, UpdateSetting, UpdateUserRole | one default model per type of actor; an administrator remains | `Administration` of `Catalogue`, `Settings`, `Roles`; `AdministrationProofs` |
| Runtime settings (`internal/settings`) | `runtime_settings`; a snapshot in Redis | Load, Invalidate | a stale snapshot has a reason and a TTL; the summary model is usable when it is stored | `Settings` |
| Model catalogue (`internal/models`) | models and their availability | Sync, selection | availability follows the provider and never costs a default | `Catalogue`; as a handler, in `Outbox` |
| HTTP server, database pool, Redis client | none, connections, none | routing, transactions, scripts | | as far as the above use them |
| Configuration, telemetry, generated code, web, contracts | none that a behaviour depends on | | | not modelled |

How they interact. A `chat.generate` command arrives over a WebSocket of any API
replica, or a retry over HTTP. Chat asks Quota to reserve (Redis lease, then a
PostgreSQL transaction under an advisory lock), accepts the generation in one
transaction, lets the handler acknowledge it through the broker, and starts a goroutine
that streams from the provider, appends to the message, finalizes five rows in separate
statements, settles the reservation and gives the lease back. Cancels reach the memory
of whatever replica receives them. Administration writes models, settings and roles which
every request reads, and enqueues outbox events which the workers claim. Nothing but PostgreSQL and Redis is shared between processes.

Hard behaviours. Concurrency: replicas race for leases, rows and locks; cancels race
with the registration of what they cancel; a guest signs in under a running generation.
Administrators edit the same
rows, each transaction seeing its own snapshot per statement. Failure: a process dies
between two statements; the reply to a commit or a Redis
command is lost; errors of finalizing statements are ignored. Ordering: the generation
is accepted before it is acknowledged and started after it. Time: leases, claims and
usage days end while somebody works under them. Resources: pools, slots, queues.
`PROJECT.json` lists each hazard at its line.

## 2. Modules

| module | models | proved in | checked by |
|---|---|---|---|
| `Quota` | `internal/quota/service.go`, its queries, `redisx` leases | `QuotaProofs` | `MCQuota` |
| `GenerationLifecycle` | what Chat promises about `generations.status` | `ChatProofs` (refinement) | `MCChat` |
| `Chat` | `internal/chat/service.go`, the command part of `realtime/handler.go`, deletion and migration | `ChatProofs` | `MCChat` |
| `Outbox` | `internal/platform/outbox`, the advisory lock of `database.go`, the enqueueing endpoint | `OutboxProofs` | `MCOutbox` |
| `Realtime` | `internal/realtime/broker.go`, connections in `handler.go`, the replay log in `redisx` | `RealtimeProofs` | `MCRealtime` |
| `Accounts` | `internal/identity` (`oauth`, `users`, `sessions`, `browser`), `internal/privacy` | `OwnershipProofs` | `MCAccounts` |
| `Summaries` | contexts and summaries of `internal/chat/service.go`, and its statements on messages | `SummariesProofs` | `MCSummaries` |
| `Conversations` | `internal/conversations`, `internal/guests`, `internal/platform/server/conversations.go` | `OwnershipProofs` | `MCConversations` |
| `Gateway` | `internal/provider` | `GatewayProofs` | `MCGateway` |
| `Requesters` | the people whose requests hold row locks | | `MCAdministration` |
| `Catalogue` | UpdateModel of `internal/admin/service.go`, `internal/models` | `AdministrationProofs` | `MCAdministration` |
| `Settings` | `internal/settings`, UpdateSetting of `internal/admin/service.go`; extends `Catalogue`, whose rows it checks and locks | `AdministrationProofs` | `MCAdministration` |
| `Roles` | UpdateUserRole of `internal/admin/service.go`, Request of `internal/privacy/service.go` | `AdministrationProofs` | `MCAdministration` |
| `Administration` | composes the last three: `internal/platform/server/admin.go` | `AdministrationProofs` | `MCAdministration` |

Definitions whose comment starts with "Variant" are not part of any specification: they
are versions of an action with a plausible mistake, and each property is shown to fail
when its variant takes the action's place.

### Quota

A request is one command on its way through `MaxOutputTokens`, `Reserve`, the generation
and `Settle`; `pc` says how far it got. `CheckBudget` reads the budgets outside any
transaction; `AcquireLease` is the `SETNX` of the actor's lease (its reply may be lost);
`BeginAdmission` takes the global advisory lock and counts open reservations;
`CommitAdmission` charges the actor's and the global row and inserts the reservation, or
commits without the caller learning it; `AbortAdmission` is every rollback;
`SettleReservation` and `SettleFails` are the settlement; `ReleaseLease` is the deferred
script. `LeaseExpires`, `Crash` and `Midnight` happen at any time. A usage row is
`<<actor, day>>`; a guest's allowance never resets, so its day is 1. `RowAdmits` follows
the SQL: the first row of a day is inserted with no comparison at all.

Left out: the rate windows (the environment may refuse any request before the lease),
changes of the limits during a behaviour, the wording of errors. `lapsed` is history.

### Chat and GenerationLifecycle

An element of `Requests` is a command or a retry, and also the generation, message,
reservation and lease owner created for it: the code makes fresh ids per request. `pc`
goes through one phase per statement of the handler and then of the goroutine, so any
other process may act between two of them. `generation`, `message`, `conversation`,
`reservation` and `ledger` are rows; `lease` is Redis; `job`, `cancellations`,
`pendingCancel` and `cancelled` are the memory of a replica and vanish in `Stop`;
`commands` holds cancels that were acknowledged and not yet carried out.

- `Lookup`, `ReserveQuota`, `BuildContext`, `Accept`/`RollBack`, `Refund` are `Prepare`
  and `Retry`. `Accept` has the guards of the transaction: unique idempotency key, the
  partial unique index on active generations, a conversation that is not deleted.
- `Acknowledge` is the end of the command in `readLoop`; when `Emit` fails the request is
  abandoned.
- `Register` to `Unregister` are `generate`: marking, connecting, chunks, the three ways
  to finish, and their statements one by one. Each may fail, and the code goes on.
- `AcknowledgeCancel`, `Cancel`, `DeleteConversation`, `MigrateGuest`, `LeaseExpires`,
  `BeginShutdown`, `Stop` are everybody else.

Abstractions: text is a number of chunks; the outcome of a provider or of the safety
policy is a choice; `Reserve` is one step here, detailed in `Quota`; times of
acceptance strictly increase in the order the clock is read; titles are left out, contexts
and summaries are in `Summaries`; purging of deleted conversations is left out. A
write that an ignored error loses puts the request in `faulty`; `lapsed` and `overtaken`
are history of the same kind. Properties name these sets to say exactly when they hold.

`GenerationLifecycle` is the abstract specification: one status per request, at most
one active generation per conversation, one per idempotency key, and retries only of
what ended. `Chat!ImplementsLifecycle` states that Chat refines it, with `phase` mapped to
the status column.

### Outbox

A job `<<w, e>>` is the goroutine of runner `w` for event `e`. `Claim` is
`ClaimOutboxEvents` (`FOR UPDATE SKIP LOCKED` makes it atomic); `TryAdvisory` takes a
connection and `pg_try_advisory_lock`; `CheckReceipt`, `Handle`, `Complete` and `Fail`
each need one more connection, which `FreeConnection` counts; `ClaimExpires` and
`ClaimOverrun` are the TTL of a claim whose job is gone or slow; `Restart` kills a
process, whose advisory locks PostgreSQL drops and whose WorkerID stays in the rows as
`Former`. `LockLost` is the connection of an advisory lock breaking: PostgreSQL frees the
lock, and the job, whose statements use other connections of the pool, goes on. `unguarded`
is history: the events this happened to, until none of their jobs is past its lock
(`GuardAgain`). `effects` counts how often a handler took effect, up to 2, and `attempts`
saturates at `MaxAttempts`, which is all that either is compared with.

### Realtime

The events of one actor. An event is its number. `emitting[m]` is how far an emitter got
through `Broker.Emit`: `NextSequence`, `AppendReplay` and `Publish` are its three Redis
commands, each of which may fail with or without its effect. Emitters are the goroutines
of generations and heartbeats (`Sources`) and the handlers themselves, which emit
`connection.ready` and `connection.resync_required`.

`socket[k]` is the handler's side of a page's connection: a phase of `Serve` and
`readLoop`, the resume it is serving, the channel of its subscription (`inbox`) and its
write queue. `Replay` is two reads, `ReadCurrent` and `ReadLog`, with everybody else in
between. `EnqueueReplay` and `Forward` fail on a full queue; the socket is then
`closing` or `deaf` until `Serve` gets to close it (`Drop`). `Write` is `writeLoop` and
the page's `handleEvent` together: the page keeps the highest number it saw
(`src/apps/web/src/components/chat/chat-app.tsx`) and resumes after it. A page that saw
nothing yet loads everything through REST, and so does one told to resynchronize.

`published`, `interrupted` are history: `interrupted` are pages whose subscription lost
a message in Redis or the client library, about which the code promises nothing.
`KeysExpire` is ten minutes without an event, in which the sequence starts over. Left
out: tickets, malformed commands, `command.acknowledged` and `command.rejected` (events
like any other here, emitted by a source), and the content of events.

### Accounts

Logins, sessions and deletions of accounts. A session is created by one login and known
by it; its refresh tokens are numbered in the order they are issued, and `used` are
those with `used_at`. `Provision` and `CreateSession` are the two transactions of the
OAuth callback, between which anything may happen. A refresh `f` is one request to
`/auth/refresh`: `Send` presents the cookie, which all tabs of a browser share;
`LockToken` is the `SELECT ... FOR UPDATE`, which waits for whoever holds the row;
`DetectReuse`, `RefuseToken` and `Rotate` are the three ways on, up to the commit, after
which `Deliver` or `LoseReply` is what becomes of the reply. `Revoke` is a logout.
`Request` accepts a deletion, `Claim`, `Purge`, `PurgeRefused` and `PurgeFails` are
`PurgeDue`; `BecomeOverdue` and `Overrun` are the 15 minutes after which a claim may be
taken over. `Purgeable` contains the `CHECK` of `guest_sessions`.

Every other transaction is one action: the statements of each lock the rows they share.
`unsure` (sessions with a lost reply or overlapping requests) and `late` (sessions made
for an account that was being deleted) are history. Left out: the OAuth state, access
tokens and CSRF; the expiry of sessions, which `Rotate` refuses like revocation; a second
guest; accounts that are suspended; `CleanupGuests`. A batch of `PurgeDue` (20) has room for all
accounts that are due.

### Summaries

One conversation, whose messages are numbered by their sequence. `turn[r]` is a request
from `Reserve` through the context (`ReadMessages`, `TryLock`, `ReadLatest`, `Summarize`
are `buildContext` and `ensureSummary`), the transaction that stores its messages, and
the end of its generation, to the release of the lease. `Chat` has the same requests
with everything that does not touch the transcript. A summary is the set of messages its
transcript was made of, beside the range its row claims: the property compares the two.
`LockLost` is the connection of the advisory lock breaking during the provider's stream,
which leaves only the unique version to keep two summaries apart. `lapsed` is history.

Abstractions: what does not fit a context is a prefix of any length, because windows
and prompts differ between requests; the content of a summary is left out. An error of
`ensureSummary` is ignored by the code: the context then goes without the messages
between the last summary and the recent ones.

### Conversations

The conversations of one person on one browser: a guest session and the account it signs
in to. `Insert`, `Refuse` and `AnswerCreation` are `Create` with the query that follows a unique
violation; `Violates` is the three unique indexes. `Update`, `Archive` and `Delete` write
what `Update` and `Delete` write, `Migrate` is the sign-in. `Start` and `Page` are the
`GET`s of one reader, with everybody else's writes in between; `listing.shown`
counts how often the reader saw each row that nobody touched since it started. `posted` is
history. The specification is `ConversationsSpec`, because `OwnershipProofs` extends
`Accounts` as well and one `Spec` is enough there.

Abstractions: titles; `generation_state`, which is Chat's; the search filter; messages'
pages, whose cursor is a sequence that never changes. Not promised by the code, and not
stated here: a repeated deletion with the same key is acknowledged without a change, but
one of two that overlap gets 409; a conversation that is updated moves to the front and
is not seen by later pages; a guest's creation that lands after the sign-in belongs to a
guest nobody can act as; a guest that deleted its conversation cannot have another one.

### Gateway

`call[c]` is a goroutine in `Stream` and `Next`, up to the next lock, channel operation
or answer. `PassCircuit` is `isOpen` with its reset after `openUntil`; `Observe` is
`observe`. `Retry` and `Fail` are the loop of `Stream`; `ReleaseOnce` is `once.Do` of
`Next` and `Close`. `StatusRetryable` and `TransportRetryable` translate `responseError`
and `Normalize`: of an error only its class matters. A `Probe` is `Catalog` or `Health`,
which look at the circuit and take no slot.

### Administration: Catalogue, Settings, Roles

A person has one administrative request at a time, authorized when it began. Each
transaction is taken apart into its statements: locks on rows, the version it saw, and
for `UpdateModel` each `ClearOtherModelDefault` (`BeginClear` fixes which rows it waits
for, `EndClear` looks at them again, as READ COMMITTED does) and the two counts before
COMMIT. A transaction's writes are in `edit[p]` until `CommitEdit` publishes them;
`UniqueDefaults` is the two unique indexes. `FetchCatalog` and `ApplyCatalog` are `Sync`.
`ReadSettings` and `CacheSettings` are `Load`; `InvalidateFirst`, `CheckReference`,
`CommitChange`, `InvalidateAgain` are `UpdateSetting`, whose reference check locks a
row of `Catalogue`. `SerializeGrant`, `AllowGrant`, `CommitGrant` are `UpdateUserRole`;
`CloseAccount` is `privacy.Request`, which takes no advisory lock.

Abstractions: one provider; `supported` is constant, as nothing sets it to false; the
sort order and the audit log; `requireRecent`; two settings, one numeric and the one that
refers to a model. Left out: `ConfigureProvider`. Two synchronizations that overlap may apply the
older list last, until the next one.

## 3. Runs

| run | instance | shows |
|---|---|---|
| `quota` | two commands of a user, one of a guest, two days, message limits of 1 and 2, token limits of 1 to 3, two open reservations | budgets, concurrency, lease exclusion, ledger |
| `chat` | a command, its duplicate and a retry, one conversation, one disturbance at a time, the two commands symmetric | overlap, state, settlement and retries |
| `chat_live` | a command and a retry on two replicas, fair | a conversation unlocks; refinement of GenerationLifecycle |
| `outbox` | two workers, two events, two attempts, three connections, two faults, fair | exclusion unless a lock breaks, receipts, settlement |
| `realtime` | one page, two emitting goroutines, a log of two events, a queue of one, numbers drawn up to 3, fair | no holes in the log, complete resumes, delivery or closing |
| `outbox_pool` | the instance of `outbox` with two connections and no fault | **violated**: the pool deadlocks and no claim recovers it |
| `accounts` | one account with one session, three refreshes, two workers, one fault, fair | one live token, final revocation, reuse only after a lost reply or overlap, sessions of closed accounts, purge |
| `accounts_purge` | two accounts, two logins, one worker, no fault, fair | **violated**: an accepted deletion removes the content |
| `summaries` | four requests of one conversation, two faults, symmetric | summaries join and leave nothing out |
| `conversations` | two keys, one earlier conversation, two requests at once, pages of one, two times, three rows, symmetric | creation once, complete pages |
| `gateway` | three callers, two slots, one probe, two failures open the circuit, one retry, fair | slots, circuit and count in agreement, service of those who wait |
| `administration` | two people, three models, two workers, one loader, four kinds of edit, three activities, one loss, symmetric | defaults, summary model, cache, administrators |

Bounds, and why they are enough.

- `Quota`: every property relates at most two requests and one row; a third request
  makes the rows of two actors meet in the global row. Limits of 1 to 3 put every
  boundary (equal, one more, exhausted by the other) inside the instance. `MaxDay` 2 lets
  any step fall after midnight.
- `Chat`: three requests on one conversation cover a race, a duplicate and a
  continuation; conversations interact only through the actor's lease, which excludes
  them from each other. One chunk is enough to tell an offset of nothing from one of
  something. `MaxDisturbances` is a state constraint that bounds how many lost writes,
  lapsed leases, cancels, migrations and stopping replicas are there together; a
  disturbance that has passed (a cancelled request that ended) makes room for another.
  In `chat_live` it cuts behaviours off at the bound, so liveness is shown for
  behaviours that stay inside it.
- `Outbox`: two workers, because each property is about one runner against another; two
  events, because a batch shares its pool; `MaxFaults` counts restarts, lost replies,
  failed statements, overrun claims and broken lock connections, two of which are needed to
  steal a claim and lose the answer, or to bring a second runner into a handler. It appears in the guards of these actions.
- `Realtime`: one page, because pages share only the log and the topic and react to each
  other as to any emitter; two sources, to append and publish in the other order. The
  queue is smaller than the log, as 64 is smaller than 256, so a replay can overflow it,
  and the log is smaller than the events, so a resume can fall out of the window.
  `MaxSequence` stops sources and new connections, not the handler of a connection
  that is open; numbers therefore exceed it by the handlers' own events.
- `Accounts`: one session, because sessions share nothing but their account; three
  refreshes let a token be presented twice around a rotation and its successor once
  more. Two workers let a claim be taken over; `MaxFaults` counts workers that stop, fail
  or overrun, and appears in the guards of these actions. `accounts_purge` needs
  no fault at all.

- `Summaries`: two requests that end leave messages for a third to summarize while a
  fourth races with it; `MaxFaults` 2 lets a lock be lost and a process die. A second
  conversation would share nothing but the lease.
- `Conversations`: two keys make two conversations, of which a guest may have one, beside
  one from another browser: three rows and pages of one give two cursors, and two times
  give ties and any order.
- `Gateway`: with one caller more than slots, waiting happens; two failures and one retry
  put an error on either side of the limit. The answers of the provider are classes
  computed from every error the code names.
- `Administration`: two people suffice, because each property is broken by two overlapping
  transactions or not at all; three models, because moving a default from one to two others
  at once needs them. `MaxActivities` bounds what begins, not the steps of what began.

Fairness. `Chat!FairSpec` assumes weak fairness of every request's steps after the
client sent it: the Go scheduler runs every runnable goroutine, and provider, PostgreSQL
and Redis calls have timeouts. The environment (cancels, deletions, lapses, shutdown)
has none. `Outbox!FairSpec` assumes that time passes (`BecomeDue`, `ClaimExpires`), that
each runner's ticker fires, and that a job which can take a step takes one; faults have
none and are bounded. `TryAdvisory` and the steps that need a connection are disabled
while the pool is exhausted, so fairness promises nothing there: this is what
`outbox_pool` shows. `Realtime!FairSpec` lets the loops of a connection run and `Serve` close
it after one of them failed (Redis calls end and writes have a timeout); emitters, pages
and the network have no fairness. `Accounts!FairSpec` assumes that the maintenance
ticker of a worker fires, that its loop goes through the batch, that time passes, and that a
transaction which holds a row ends; browsers and users have none. `Gateway!Spec` assumes that the provider answers, or that the
90 seconds of a request end it, and that callers close their streams; strong fairness of
`Acquire` is the order in which a Go channel serves its senders.

`CHECK_DEADLOCK FALSE` is set wherever finitely many requests, events or activities come
to an end; `gateway` checks deadlock.

## 4. Proofs

Each theorem holds for every value of the constants that the named assumptions admit:
positive limits, finite request sets, sentinels that are not members.

`QuotaProofs` has one invariant per concern, each inductive beside `TypeOK`.
- *Budgets* (`BudgetInv`). `BudgetsRespected` is not inductive: the first row of a day
  admits any number of tokens. It holds because a request never asks for more than a whole
  limit (`RequestBounded`), because a row without messages carries no tokens
  (`EmptyRows`), and because the usage date cannot change between the check and the charge
  (`DateFixed`).
- *Concurrency* (`AdmissionInv`). The transaction that is admitting holds the lock, and no
  reservation was added since it counted.
- *Lease* (`LeaseInv`). Who relies on the lease has it or is in `lapsed`; both exclusion and
  the action property `NoForeignRelease` (no step of a request takes the lease of another
  away) follow.
- *Ledger* (`LedgerInv`). Each row holds the sum of the charges of the requests charged to
  it. The fold of `LedgerBalanced` is recursive, and the library's induction theorems cannot
  be used for it; instead, that the sum exists and does not depend on the order is proved from the
  smallest size of a set for which it would not (`SumsExist`, `TotalSplit`, `FoldIsTotal`).
  A settlement may then replace one charge by another, and a commit add one.

`ChatProofs` shows every invariant of `Chat` and the refinement of `GenerationLifecycle`. `IInv`
joins the following to the types.
- *Progress.* For each phase, what the rows and the local variables of the request hold;
  outside `faulty` they agree, and `Settled` is what is left at the end. The rows of a request
  are written by its own handler and goroutine only (`Others`), so one lemma per phase suffices.
- *Lease* (`LeaseHeld`). A request in flight that has not lapsed is the holder that Redis
  names. `OneAtATime` follows, as one actor owns a conversation.
- *Conversation* (`Alone`, `StateHonest`). Beside an active generation no other accepted
  request of the conversation is in flight, unless one overtook another. Hence nobody
  else's unlocking writes `idle` over a running generation.
- *Retries* (`RetryKept`). What a retry looked up before it had the lease is still
  continuable and older when it accepts; terminal generations do not change.

Each step of Chat leaves the statuses alone or is one step of `GenerationLifecycle`
(`LifecycleStep`): acceptance checks the indexes, and `RetryKept` supplies what a retry continues.

`OutboxProofs` has one invariant `IInv`. For events that are not `unguarded`, a job past the
advisory lock is its holder, and one that handles has no receipt against it; for all events,
one that completes took effect, the attempt it remembers is not more than the row's, and only
pending rows are claimed. The last is why neither an expired claim nor a late runner can touch
a finished row; the first is why the receipt checked by a job is still absent when it runs the
handler. That receipts and rows agree and that finished rows stay does not rest on the lock.
Four theorems state more than the runs check: `DeadAfterAllAttempts`, `ReceiptStopsHandlers`
and `TerminalIsFinal` here and `NoForeignRelease` above.

`RealtimeProofs` shows `TypeOK`, which bounds the write queues, `ReplayHasNoHoles` and
`ReplayIsComplete`. The second is not inductive, because an event that is stored late may follow the trimming of
one that is published already. `IInv` therefore speaks of stored events, published or not,
and adds what makes trimming safe: when one of them is not in the log, the log is full and
everything in it is later (`NoHoles`). The lemmas about `Newest` say that trimming a log
that is one event too long removes its first event and nothing else.
`ReplayIsComplete` follows from the order of three things the code does, each a part of
`ResumeInv`: a connection subscribes before it reads, it reads the sequence before the log,
and an emitter draws its number before it publishes (`NumbersDrawn`). So a handler that has read the
sequence gets every later number through its subscription, and the log it reads next has,
by `NoHoles`, what was published before (`Promise`).

`OwnershipProofs` has two parts, who owns an account's sessions and who its conversations. It
shows every invariant of `Accounts` and `RevocationIsFinal`; `IInv` has three parts beside the types.
- *Sessions* (`SessionsSound`). A login creates its session once, at its end; a session has
  exactly one unused token, and its row goes with the row of its owner.
- *Refreshes* (`RefreshesSound`). A refresh past `LockRefreshToken` is the holder of the row
  lock, and what it found out about the session is still true. So a rotation never meets a
  session that was revoked in between.
- *Careful browsers* (`CarefulSound`). For a session with no lost reply and no overlapping
  refreshes: at most one refresh is under way, what it presents is unused, and so is the
  cookie unless an answer is on its way. `NoFalseReuse` says none of this and follows from it.

It also shows every invariant of `Conversations`. `CreatedOnce` needs that sign-in keeps
creation keys (`KeysKept`), that each owner has a key once (the unique indexes,
`UniqueKeys`), and why sign-in cannot violate the user's index: the guest's keys
(`GuestKeys`) are not among those the account brought, and before the sign-in every request
of this browser is the guest's (`NothingNewBefore`). That the two sets of keys are disjoint
is `LimitAssumption`: clients draw keys as UUIDs.
`PagesComplete` rests on `ListingInv`: of the rows that nobody touched, those in front of
the cursor were shown once and those behind it never. A page shows the first rows behind the
cursor in their order, so the lemmas are about ranks: the rank of a row is between 1
and the number of rows, ranks differ, and hence, an injection between sets of one size being
onto, every rank is taken.

`SummariesProofs` shows `TypeOK` and `SummariesFaithful`. Contiguity holds whatever locks and
leases are lost, because a request that can still insert its version starts after the latest
summary (`TurnSound`). Completeness rests on the lease: while none has lapsed, a request
between Reserve and Settle has it (`Holders`), hence the messages it read are those a summary
has to cover, and the message it will finalize is ahead of all summaries.

`GatewayProofs` shows `TypeOK`, `SlotsAreHeld` and `CircuitMatchesCount`. The count of failures is
the hard part of the types: while the circuit is closed it is below the limit, and otherwise
it grows with each caller that was past `isOpen` and reports late, so `IInv` bounds it by the
limit, the number of callers and those who have yet to report (`FailuresBounded`).

`AdministrationProofs` shows the types of the composition and its four invariants and action
properties. An edit that reached its last statement holds the lock of the row and of every
default that it cleared (`EditLocked`), a checked reference stays locked and valid until the
commit (`ReferenceLocked`), a person has one request at a time (`OneRequest`), and a
demotion allowed under the role lock leaves another administrator (`RolesInv`). The three
modules share `Catalogue`'s rows and locks, so their invariants are proved together.

The theorems are about `Spec`, without fairness; where a run checks `FairSpec`, it implies `Spec`.

Every invariant and action property of the runs is thus a theorem. Model-checked only are the
liveness properties (`ConversationUnlocks`, `EventuallySettled`, `EventuallyShown`,
`EventuallyPurged`, `EventuallyServed`), which rest on fairness and are out of the prover's
reach, and the two refuted by a run.

## 5. Findings and limits of the code

Two runs refute what a document says; `PROJECT.json` describes them: a worker pool no
larger than its batch can stop for ever (`outbox_pool`), and an account that took over a
guest session cannot be purged (`accounts_purge`).

Properties are stated as strongly as the code allows. These limits show in how they are
worded, and a reader of the documents would expect more:

- A lease is never renewed: after its TTL a second generation of one actor can start
  (PROJECT.md:101, "One concurrent generation per user"; ARCHITECTURE.md:480).
  `LeaseExcludes` and `OneAtATime` name the lapse.
- A cancel of a generation that was accepted and does not stream yet ends it as failed
  (docs/product-capabilities.md:129). `Settled` allows it.
- When the acknowledgement of a command cannot be emitted, its accepted generation is
  abandoned (ARCHITECTURE.md:148, 475). `ConversationUnlocks` excludes it.
- A page resumes after the highest number it saw, which may be higher than that of an event
  it never got; after ten idle minutes numbers start over (ARCHITECTURE.md:450).
  `ReplayIsComplete` speaks of events behind that number.
- `pendingCancel` keeps the id of a cancel that comes after its goroutine ended
  (`internal/chat/service.go:1038`); failed purge jobs are claimed before newer ones
  (`queries/privacy.sql:46`).
- The latest generation a retry continues is read before the lease is taken
  (`RetryContinues`); a login under way when a deletion is accepted leaves a session behind
  until the purge (`ClosedAccountHasNoSession`).
- The last administrator is protected from demotions only: deleting the own account does
  not take the lock of role changes (`internal/privacy/service.go:67`;
  docs/security-production-readiness.md:135). `AdministratorRemains` names it.
- A `Load` that an update overtakes puts the old settings back into the cache until the TTL
  (`FreshUnlessOvertaken`).
- When both default models become unavailable, only an edit that makes one model the default of
  both types is accepted, since each edit must leave a selectable default for each type.
- The connection of an advisory lock may break under its holder, which does not notice
  (`internal/platform/database/database.go:82`): once the claim of the event is stale, a second runner
  runs the handler beside the first, which may take effect after the receipt of the other
  (docs/data-model.md:513, "per-handler receipts prevent an already completed effect from
  running again"; docs/technical-architecture.md:411). `HandlersExclusive` and
  `ReceiptStopsHandlers` name it; `models.sync`, the only handler, may be repeated.
- The circuit breaker looks at the circuit before the wait for a slot only
  (`internal/provider/resilient.go:108`): a request that started before the circuit opened, or waits
  for a slot meanwhile, still reaches the provider. Its success zeroes `openUntil` (line 164), so
  that others pass within the 30 seconds; its failure opens a circuit that had lapsed.
- A context holds the latest summary only, whose range begins after the one before it
  (`internal/chat/service.go:776`, 820): what earlier versions summarized is in no context any
  more, and no property asks for it.
- What a crash leaves behind, or a write whose error is ignored, is not repaired:
  `Settled` and `ConversationUnlocks` excuse these requests. A lost reply of COMMIT in
  `Reserve` leaves its slot of the global limit taken.
- A summary that fails, or is skipped because another request has the lock, leaves a context
  with a gap (`internal/chat/service.go:775`).

## 6. Not modelled

- Tickets and the OAuth state: each is one atomic GETDEL of one value.
- Access tokens, CSRF tokens and cookies' attributes: pure functions of their input.
- `CleanupGuests`, lists of the administration, `ConfigureProvider`, the audit log: single
  statements, or rows nothing reads back.
- The runner of migrations (`internal/platform/database/migrate.go`): runs once, before the
  processes start.
- The serializable retries of `ProvisionGoogle`: the transaction is one action of `Accounts`.
- Rate windows: the environment of `Quota` refuses any request before the lease.
- Generated titles and the content of the safety policy: choices of `Chat`.
- Configuration, telemetry, logging, the generated API types: no state a behaviour depends on.
- The browser client beyond the number it resumes after; contracts and tools, which are static.
