# A verification of genro-mail-proxy in TLA+

genro-mail-proxy takes messages from applications over an API, keeps them in a
database, sends them over SMTP and pushes what became of them back to the
applications. This directory holds TLA+ modules that model it, TLC
configurations that check them on small instances, and TLAPS proofs.

Paths below are relative to the repository's `src/`; `core/` is
`core/mail_proxy/` and `ee/` is `enterprise/mail_proxy/` there. Documentation is
named from the root (`docs/...`).

## 1. Inventory

| Component | State | Operations | Hard behaviour |
|---|---|---|---|
| SMTP sender, `core/smtp/sender.py` | the tasks of the current batch, semaphores, wake event | `_dispatch_loop`, `_process_cycle`, `_dispatch_batch`, `_dispatch_message`, `_send_with_limits`, `_process_attachments` | parallel tasks, lost SMTP replies, failures between send and mark |
| messages, `core/entities/message/` | one row per (tenant_id, id): pk, smtp_ts, deferred_ts, payload, priority, batch_code | `insert_batch`, `fetch_ready`, `mark_*`, `clear_deferred`, `update_payload`, `remove_*` | whole-row read-modify-write by concurrent coroutines |
| message_events, `core/entities/message_event/table.py` | rows with event_type, reported_ts | `add_event` and its trigger, `fetch_unreported`, `mark_reported` | two statements per event; events of removed messages |
| SMTP pool, `core/smtp/pool.py` | idle lists, active counters, conditions | `acquire`, `release`, `connection`, `cleanup` | connecting outside the lock, waiters, age |
| rate limiter, `core/smtp/rate_limiter.py` | send history, in-flight counters, in memory | `check_and_plan`, `log_send`, `release_slot` | parallel sends, windows, changes of the limits, restart |
| client reporter, `core/reporting/client_reporter.py` | `_last_sync`, run-now request, wake event | `_report_loop`, `_process_cycle`, `wake`, `_apply_retention` | lost answers, one failing tenant among several, requests during a call |
| tenants, accounts, `core/entities/`, `ee/entities/` | rows with suspensions, API key, flags, limits, IMAP state | `add`, `update`, `remove`, `suspend_batch`, `activate_batch`, API keys | overlapping `record()` sections on one row; deletion in three statements |
| commands and REST, `core/proxy.py`, `core/interface/` | result queue | `addMessages`, `deleteMessages`, `cleanupMessages`, ... | several statements per entry, back-pressure, two ways in of which one is logged |
| command log, `core/entities/command_log/` | rows | `log_command`, `export_commands`, `purge_before` | logged after the fact |
| attachments, `core/smtp/attachments.py`, `cache.py`, `storage/` | memory LRU, files on disk, filesystems of mounts | `fetch`, `get`, `set`, eviction, expiry | worker threads that outlive a timeout; files changed by others between look-up and read |
| bounce and PEC receivers, `ee/bounce/`, `ee/pec/` | last UID and UIDVALIDITY: in memory, or in the account row | `_poll_loop`, parsers, acceptance timeout | restart, failure in the middle of a poll, recreated mailbox, late receipts |
| table layer, `sql/` | none | `record()`, `select`, `insert`, `update`, `delete` | `record()` holds no lock between its SELECT and its UPDATE |
| command line, forms, HTTP clients, metrics, encryption, database drivers | none that matters here | | not modelled, section 7 |

How they interact. API calls write `messages`; the sender polls `messages`, and
records what happened with `add_event`, whose trigger writes the message row. A
cycle that did something sets the reporter's wake event. The reporter reads
`message_events`, calls the tenants, marks the events reported and lets
retention delete messages that are reported in full. The receivers read
mailboxes and add events of messages sent before. Every coroutine runs in one
asyncio loop; every SQL statement is awaited on a connection of its own and
committed at once, so two coroutines interleave at every statement.

What makes each part correct:

- sender and tables: no message is settled without an event, none is sent twice
  unless its first delivery could not be recorded, removed messages stay
  removed, and every message settles;
- pool: the counter is exact, the limit holds, every caller gets an answer;
- rate limiter: no window sees more messages than its limit that the program
  could know of, and the in-flight counter is the number of sends under way;
- reporter: what is marked reported was received, nothing is received twice
  without a failure, retention deletes only what was received, every event is
  reported in the end;
- API: overlapping calls do not undo each other, no call made for one tenant
  touches another one or hangs, nothing of a removed tenant remains, the log
  replays;
- receivers: no mail is passed over, none is recorded twice without a reset,
  an acceptance that is there is not called missing;
- attachments: a mail carries what it lists, the cache stays within its limits,
  and no fetch fails because of what other fetches do to the cache.

The code does not do all of this. Where it does not, a property says what is left,
each exception is a history variable, and section 6 says what the code does.

## 2. Modules

| Module | Models |
|---|---|
| `MailQueue` | the sender, messages, message_events and `insert_batch`, statement by statement |
| `Outbox` | what the queue promises of each message row: an abstract specification that `MailQueue` implements |
| `SMTPPool` | the pool of one account key |
| `RateLimiter` | the counters of the limiter under one account id, with the sender's steps around them |
| `ClientReporter` | the reporter, the event table as it sees it, retention |
| `Reports` | what the reporter promises the tenants: an abstract specification that `ClientReporter` implements |
| `Delivery` | queue and reporter together, over the tables in which they meet |
| `Tables` | the rows of tenants, accounts, messages, events and the log, and the statements on them |
| `Commands` | API calls over `Tables`: commands and REST methods |
| `Receivers` | the bounce and the PEC receiver, their mailboxes and the rows they write |
| `Intake` | what the receivers promise about the mails that come back: an abstract specification that `Receivers` implements |
| `Attachments` | the fetches of a mail, the two-tier cache, mounts, the large-file action |
| `MailQueueProofs`, `SMTPPoolProofs`, `RateLimiterProofs`, `ClientReporterProofs`, `DeliveryProofs`, `CommandsProofs`, `ReceiversProofs`, `AttachmentsProofs` | theorems and proofs |
| `MC*` | constants for TLC |

Definitions whose comment begins with "Mutant" or "A fault" are bugs of a
plausible kind: substituted for the definition they resemble, they make TLC
report the property they are meant for. They show that each property depends on
the code it is about.

The same table is modelled in several modules where several components use it:
each shows the columns that the component reads or writes and, of the others,
what they do to it (`Deliver` and `Report` in `Commands`, `Attempt` in
`Receivers`, `TableStep` in `ClientReporter`).

`async with table.record(pk)` (`sql/table.py:59-86`) reads a row, lets the body
change it and writes all columns back. Wherever it appears it is two actions, a
SELECT and an UPDATE, with the copy kept in the coroutine. A row that was
missing at the first is not written at the second, and an UPDATE of a row that
is gone changes nothing.

### MailQueue and Outbox

`rows` and `events` are the tables, `suspended` the tenant's list, `task[m]` the
coroutine of message m in the batch, `api[c]` a call of `insert_batch`; an action
is one SQL statement or one SMTP conversation. A task goes through `queued`
(waiting for the semaphores), `clear` (`clear_deferred`), `build`, `limits`,
`send`, then, for a temporary failure, `payload` and `store` (`update_payload`),
then `event`, `mark`, `settle` (`add_event`: insert, and the two halves of the
mark). A lost reply is the branch of `SendMessage` in which the server accepts
and the sender sees a timeout. `TaskFails` is an exception that
`gather(return_exceptions=True)` swallows, `Crash` the end of the process, after
which only the tables are left. `ProcessCycle` is one of the two fetches of
`_process_cycle`, `phase` which; it waits for all tasks, as `gather` does. The
pauses of the loop are not modelled: a model that may fetch at any time allows
every behaviour of one that waits.

`Outbox` has, per primary key, a state (none, pending, processed, removed), the
number of deliveries, the events told, and what may have been forgotten. Its
actions say that a message is settled only after its outcome was told, that
"sent" is told only of what the server took, that a removed row never comes
back, and that a second delivery needs a forgotten first. `Receipt` is an event
of the receivers, which the queue itself never records. `MailQueue!O` is the
refinement mapping: the state is `StateOf(pk)` (which rows have the key, and
whether they are processed), `told` the keys and types of `events` in order,
`forgotten` is `excused`, which grows with faults and with `Reopen`, the finding
of `MailQueueFinal`. `Outbox` allows `Forget` at any time; that the queue forgets
only for a reason is `DeliveredTwiceOnlyIfExcused`.

Abstractions, and why they are sound here:

- Data. A payload is "valid", "invalid" (a field that `_build_email` needs is
  missing) or "wrapped" (what `update_payload` stores), with the number of the
  submission it came from. Times are "null", "later" or "due"; the clock makes
  "later" into "due" at any moment. A primary key is the rank of its row in
  `ORDER BY priority, created_at, pk`: rows are ranked as they are inserted.
  Real keys are UUIDs and `created_at` has a resolution of a second, so rows of
  the same second may be ranked otherwise; no property checked as holding
  depends on it.
- `Start` lets tasks of different accounts start in any order; asyncio's
  semaphores are first-in-first-out, so the model allows every order the code
  does and more. A task holding the global semaphore while it waits for that of
  its account is not counted, for the same reason.
- Suspension is one step here; its two statements are in `Commands`.
- `RetryCount` is 0: the code asks for it on the fetched row, which never has it
  (the finding of `MailQueueRetry`).
- History variables: `delivered` counts what the server accepted, `excused` the
  keys whose first delivery may have been forgotten. No action reads them.

### SMTPPool

`idle` and `active` are `_idle[key]` and `_active_count[key]`; an action is a
section under the lock. The lock is held across NOOP and QUIT, so a section is a
step. An idle connection is the `created_at` of its wrapper; which SMTP
connection is inside does not matter to the properties. `DiscardIdle` may take
any idle connection: it is too old or fails its NOOP. `ConnectFails` gives the
count back without a notification, as the code does. Time is a bounded clock for
ages; a deadline passes at any time.

### RateLimiter

`history` and `in_flight` are the limiter's, an action is a section under its
lock or a step of the sender around it. The counters are kept by account id
(`core/smtp/rate_limiter.py:147`), which is unique within a tenant only
(`core/entities/account/table.py:98-110`): `Accounts` are the accounts, each of
another tenant and with `limits` of its own, that have this id and so share them.
`MCWindows == <<1, 2>>` are a short and a long window, one a multiple of the other
as a minute, an hour and a day are.

The SMTP conversation is two steps. In `ServerTakes` the server takes the message;
its answer arrives, and `LogSend` follows (or `NeverLogged`, if the event cannot be
written), or it is lost or later than the 30 s of `wait_for`
(`core/smtp/sender.py:566`), and the sender calls `release_slot` for a message that
was delivered (line 569): `ReleaseSlot` is possible both before the server has
taken the message and after. `GiveBack` is what `log_send` and `release_slot` have in
common: they lower the counter whether or not `check_and_plan` raised it for this
send. Limits are each account's own and may be changed at any time
(`Reconfigure`).

`sent` is what the SMTP server has taken since the start of the process, answered
or not; the limits are of one process, because the history is in memory
(`Restart` empties both). `reserved` is the set of senders that hold a
reservation, `leaked` the number of reservations that were never given back,
`stolen` that of slots given back by sends that had reserved none, `reconfigured`
the accounts whose limits have been changed: history variables, all of them.
`WithinLimits` is about the messages whose answer arrived, of which alone the
program can know, and about accounts whose limits are still those of the start (a
new limit cannot undo earlier sends); `stolen` says how far sharing can break it.
`SlotsMatchReservations` has no exceptions: the counter is between what is held
and what is held less what was stolen. `Cleaned` drops what is older than the
longest window.

### ClientReporter

`due` is the set of tenants for which `now - _last_sync >= DEFAULT_SYNC_INTERVAL`;
an answer removes a tenant (`_last_sync` = now or `next_sync_after`), time or a
run-now command adds it. `runNow` and `wake` are the request and the event,
`batch`, `todo`, `post`, `acked` the locals of `_process_cycle`; an action ends at
an await. `mode` is what the tenants table says: "url", "inactive", "none" (no
URL) or "missing". A call is a step that begins it and a step that ends it, and
`faults` limits lost answers, failed cycles and restarts. The history variable
`owed` is the set of tenants to whom a run-now request owes a call; a tenant whose
request is replaced by another tenant's before a cycle takes it is not owed one
(section 6), nor is one that can no longer be called. `StartActive` is the setting
`start_active`: a proxy that is not active wakes up and does nothing
(`core/reporting/client_reporter.py:205`).

An event carries its `event_ts`, `ts`. It is not the order of the rows: the clock is
read before later awaits (`core/proxy.py:579` for an event of line 606,
`core/smtp/sender.py:580` and 589, `ee/pec/receiver.py:257` and 275; the events of
`core/smtp/sender.py:426` and 441 bear the time at which their cycle began), has a
resolution of a second and may be set back. `RecordEvent` therefore stamps an event
with any of `Stamps`, and `Before` is `ORDER BY e.event_ts ASC, e.id ASC`
(`core/entities/message_event/table.py:231`).

What others write to the two tables is `TableStep`, which asks for less than any
of them does: `RecordEvent` is an event of any kind for any message, also for one
that is processed or gone; `MarkProcessed` needs an event with an outcome;
`Reopen` is the re-submission that writes an old copy back; `DeleteMessage` takes
any row away. What holds of the reporter holds in any company that writes no more
than this, and `Delivery` shows that the queue does not.

`Reports` is what a tenant may expect: the set of events it has heard, those the
tables show as reported, those that may have been forgotten though they were
heard. Its `Hear` says that a tenant hears of its own messages only, of nothing
that is marked, of nothing again that was not forgotten, and of no event before
another of the same message that was recorded earlier and whose stamp is not later; `Mark` that only what was heard is marked;
`Retire` that a message is retired when all its events are. `ClientReporter!R` maps
`heard` to `received`, `marked` to the rows with a `reported_ts`, `forgotten` to
`excused`, `failures` to `faults`; ids are the same in both. `Reports` lets every
failure forget anything that was heard; that the reporter loses only what the
cycle at hand had not written is `ReceivedTwiceOnlyIfExcused`.

### Delivery

The queue and the reporter over one pair of tables. The queue is `Outbox`, whose
keys are the messages, and not `MailQueue`: what it does beyond that the reporter
cannot see, and that `MailQueue` does no more is `ImplementsOutbox`. The reporter
is `ClientReporter`, without its `TableStep`. A `QueueStep` is a step of `Outbox` on
one message, or a failure that forgets deliveries; the reporter sees the rows and
events it writes. A `ReportStep` is a step of the reporter; the queue sees the
rows that retention deletes, a set of them in one step. A DELETE of several rows
by a client is taken as several steps: between them others may act, so the model
allows what the code does and more. `StateIn` and `Unseen` say what a row and a new event
of the queue are to the reporter: whether `smtp_ts` is set, whether the event tells
the outcome, and any stamp, since the queue promises none.

### Tables and Commands

`Tables` holds the rows and an operator per statement or row change: `active`
stands for all columns that `update` and `add` of a tenant write, and of the
events of a message it keeps which kinds there are and whether they are
reported. `Commands` runs calls over them. `calls[c]` is the task of one call: its
operation, where it is, its parameters and the rows it has read; `pc` names the
next statement. A call comes as a command (`handle_command`, which logs it in
`LogCommand` after it has been answered) or as a REST method, which nobody logs.
`addMessages` validates item by item, inserts what passed, refuses the rest with
an error event each, publishes to the result queue and replies; `Publish` gives
up when the queue stays full. `deleteTenant` is three DELETEs. An exception is
`Raise`: the task ends and nothing is logged. A call is made for a tenant, the one
its command or path names. Which token may name which tenant is not modelled;
where a call names no tenant, it may touch what its arguments lead to:
`DeleteRoute` takes the primary key of any row
(`core/entities/message/endpoint.py:277-286`). The dispatch loop and the reporter
appear as `Deliver` and `Report`, which change what a call reads between its
statements; `Crash` ends every task.

History variables: `serial` is what the tenants would be if each command had
read the row when it wrote it, `dirty` the tenants whose row was written between
the two statements of another call, `gap` whether the log has lost its claim to
be the sequence of what was executed, `orphaned` the tenants named by a call that
overlapped their removal or came later. `LogReplays` folds `Replayed` over the log.

### Receivers

The UID of a mail is its place in the mailbox; `box[b]` has its UIDVALIDITY and
its mails. `bounce` and `pec` are the loops with their local variables; the UID
state is a field of `bounce` and the account row `sync[a]` of PEC. An IMAP
session is a step for connect, login and SELECT and one for SEARCH with the
FETCHes; then each mail is parsed and its event stored in steps of their own.
`BounceId` and `DetectReceiptType` are the parsers: what of a mail they look at,
in which order, and what makes them raise. The sender's two-step mark of the row
(`ReadRow`, `WriteRow`) and an API call that edits the account (`EditAccount`,
`SaveAccount`) interleave with them. `Restart` makes a new `BounceReceiver`,
`Recreate` renumbers a mailbox. Retention is left to `ClientReporter`.

History variables: `recorded` how often a mail became an event, `excused` mails
that a reset lets a receiver see again, `missed` mails whose FETCH failed,
`broken` messages with a fault between two writes that belong together.

`Intake` says what all these steps amount to. `about[m]` is the key a mail names
and `Kind` the event it makes; `upto[b]` is the UID up to which a mailbox has been
left behind. `Record` makes a mail's event under the key it names, again only if
that was forgotten; `Move` leaves a mailbox behind only up to where every mail is
handled (an event, nothing to record, or not to be fetched), or goes back to an
earlier UID; `Timeout` needs a message without acceptance and error; `Recreate`
makes every position void. `Receivers!I` maps `upto` to the position of each
receiver if it is of the mailbox's UIDVALIDITY and to 0 if it is not, `about` to
`MailId`, `forgotten` to `excused`, `lost` to `missed`, `torn` to `broken`. `Intake`
may forget at any time what it has recorded; that the receivers forget only at a
restart, a recreated mailbox, a poll given up or a row written back is how
`Receivers` assigns `excused`.

### Attachments

`task[<<m, i>>]` is the fetch of the i-th attachment of m: its `pc` is where the
coroutine waits, its `job` what its thread is doing on disk. A `Timeout` cancels
the coroutine and leaves the thread. `memory` and `disk` are the two tiers, oldest
or least recently used entry first; contents are a file and a length, so that
half-written files are seen. `_ensure_space` reads its plan under the lock
(`EnsureSpace`) and evicts file by file (`Evict`); reads hold no lock, so a file
may be gone, expired or half written when it is read. The file system may refuse
any operation (`Refuse`): `exists` is outside the `try` of `DiskCache.get` and fails
the fetch; a refused `read`, `unlink` or `rmdir` is caught and is a miss; a refused
eviction frees nothing and is passed over; whatever is refused to `DiskCache.set`
(`core/smtp/cache.py:159-170`), which has no handler, leaves the lock and fails the
fetch and with it the mail (`SetFails`), and a `write_bytes` that fails leaves the
file as it had emptied it. `fs` is the filesystem that
a `StorageNode_EE` keeps per mount name. `Assemble` attaches, links or rejects by
`large_file_config`. `aged`, `torn`, `refused` and `mixed` are history variables:
something expired, keys read while or left half written, what was refused to whom,
messages read through another tenant's filesystem. A failure is `disk` if the file
system refused the fetch something and `cache` if others removed what it met;
`OthersFailNoFetch` is about the latter.

## 3. Runs

Runs that pass:

| Run | Question | Distinct states |
|---|---|---|
| `MailQueueOverlap` | one message, two overlapping calls, a task, one failure; is every step one of `Outbox` | 550 thousand |
| `MailQueueLive` | do two messages of one priority settle that compete for a batch of one, with retries, suspension of one batch or of all, and one failure; is nothing fetched again before it is marked | 125 thousand |
| `SMTPPool` | three workers and two places: counter, limit, does every `acquire` end | 23 thousand |
| `RateLimiter` | three parallel sends for accounts of two tenants with one id, two windows, limits removed, lost answers, restarts, sends never logged | 1.8 million |
| `ClientReporterSafe` | two tenants in one cycle with one failure; is every step one of `Reports` | 2.7 million |
| `ClientReporterModes` | one tenant changed at any time, run-now commands, two stamps in any order, one failure: order, and is every event reported | 853 thousand |
| `Commands` | any two calls of 18 operations on two tenants, interleaved with each other, deliveries, reports, and one crash or unlogged command | 345 thousand |
| `Receivers` | two mails of seven kinds, one receiver, one restart, failure, recreated mailbox or edited account; is every step one of `Intake` | 93 thousand |
| `Attachments` | three mails with up to two attachments of every kind through caches that hold one file, expiry, one timeout, crash or refusal of the file system | 326 thousand |

Why the bounds are enough to be of use. The hazards of the queue need one row and
two writers: one message, two calls, three submissions and three keys allow a
call to overlap an attempt, another call, a deletion and a new row under the
same name. The hazards of the loop need two rows, so that one is fetched while
the other is under way, and starvation needs two that compete. The pool's need
more workers than places; the limiter's more senders than the limit and a clock
that passes both windows; the reporter's two tenants, one of which fails. The
API's need a pair of calls and a second tenant to be left alone; the receivers'
a mail that is followed by another, one of them a stumbling-block; the cache's a
tier that is full with one file, so that every `set` evicts. One failure is
allowed per run, placed anywhere; the proofs lift all these bounds for the
properties they cover.

What the bounds leave out: the messages of `MailQueueLive` have one priority and
are fetched one at a time, so that a higher priority starves a lower one, and the
cap per account, are not exercised. In the runs of `ClientReporter` one tenant
sends run-now commands (`Askers`), `StartActive` holds, and `ClientReporterSafe` has
one stamp, so that order is by id there; `ClientReporterModes` has two. Its liveness
is that of one tenant with a batch of one: that tenants starve each other is a
divergence (section 6), not something it could show. `RateLimiter` has one slot to
steal (`MaxStolen`) and lets three messages be taken. In `Attachments` `MaxTroubles` is
one for timeouts, crashes and refusals together (with two, a run takes longer than
it is worth). The theorems have none of these bounds.

Constants whose name begins with `Max` bound counters,
but for `MaxConcurrent`, `MaxPerAccount`, `MaxRetries`, `MaxFetches`, `MemoryMax`
and `DiskMax`, which are settings of the program.

`MCSymmetry` and `Symmetric` permute clients, senders, calls and tenants that are
alike, in runs without liveness properties only.

Deadlock is checked except in the runs whose world may be used up: the pool's
(all acquisitions made), `Commands` (all calls made), the receivers' (all mails
arrived, receivers not deployed) and `Attachments` (all mails built).

Runs that end in a violation, each of a sentence the repository says of itself:

| Run | Property | The code |
|---|---|---|
| `MailQueueFinal` | `SentIsFinal` | a re-submission that overlaps the mark clears `smtp_ts`; the message is sent again |
| `MailQueueRetry` | `RetriedUntilMaxRetries` | the stored payload is wrapped, so the second attempt raises KeyError |
| `ReceiversCorrelation` | `EventsFindTheirMessage` | the tracking header carries the client's id, which the receivers take for a pk |

What the properties of the passing runs excuse is said in their comments: a
second delivery only after a fault or a lost reply, a second report only after a
lost answer, a failed cycle or a restart, a tenant's row only where two `record()`
sections overlapped. Each excuse is a history variable that grows in the actions
concerned and nowhere else.

Some of them excuse the very hazard, because the code does not prevent it:
`dirty` excuses what two overlapping `record()` sections do to a tenant, `gap` a log
that overlapping commands, REST calls or a crash have made incomplete, `orphaned`
a call that overlaps the removal of its tenant, `broken` a fault between
`clear_pec_flag` and `add_event`. Of these hazards the properties show only the rest:
that nothing but such an overlap or fault does the damage, which for
`TenantRowIsSerial` and `DeclassifiedIsReported` is little more than that a single
command, or receipt, writes what it should. Section 6 lists what is excused.

`EveryMessageSettles` holds with few retries partly because of the finding of
`MailQueueRetry`: a message is given up after its first temporary failure.

## 4. Fairness

- `MailQueue`: weak fairness of the loop, of each task, of each call and of the
  clock. The loop polls at the latest after `send_loop_interval`, an SMTP
  conversation ends by its 30 s timeout, asyncio resumes what is ready. Rate
  limiting is bounded by `MaxDefers`: the limiter puts a message off to a time
  that comes, but how often it does so is not bounded by the code.
- `SMTPPool`: weak fairness of each worker, its deadline and its release, which
  `connection()` guarantees by its `finally`.
- `ClientReporter`: weak fairness of the loop and of the end of each call (its
  HTTP timeout), and strong fairness of acceptance: a tenant that is called
  again and again accepts in the end. Without it nothing can be promised of a
  tenant that is down.
- `Receivers`: weak fairness of the steps of each receiver, whose `_poll_loop`
  goes on after every error. Nothing is assumed of mails, senders or faults.
- `Attachments`: weak fairness of the threads and tasks. Timeouts are not among
  what is fair: builds end without them.
- `Commands`: `NoCallStuck` says that a call in progress always has a next step;
  calls have finitely many, so no fairness is needed.

## 5. Proofs

The theorems hold for any sets and any bounds, from the modules' named
assumptions alone (`ConstantsAssumption`, `PoolAssumption`, `LimiterAssumption`,
`ReporterAssumption`, `TablesAssumption`, `CommandsAssumption`,
`ReceiversAssumption`, `AttachmentsAssumption`). They say that sets are finite
where their size is taken and that bounds are numbers; beyond that

- in `RateLimiter` that `Windows` is ascending, as a minute, an hour and a day are;
- in `Receivers` that the id a client chose for a message is nobody's primary key
  (a key is a UUID), and that no account has the mailbox of bounces;
- in `Attachments` that sizes are numbers and a mail has at most `MaxParts`
  attachments.

| Module | Proved of `Spec` |
|---|---|
| `MailQueueProofs` | `[]TypeOK`, `[]ProcessedHasOutcome`, `[]SentMeansDelivered` (it is not checked by a run of its own: `Outbox` implies it), `[]DeliveredTwiceOnlyIfExcused`, `RemovedStaysRemoved`, `ImplementsOutbox`: the queue refines `Outbox` |
| `SMTPPoolProofs` | `[]TypeOK`, `[]ActiveIsAccurate`, `[]WithinMaxPerAccount` |
| `RateLimiterProofs` | `[]TypeOK`, `[]WithinLimits`, `[]SlotsMatchReservations`, `PutOffWithinWindow` |
| `ClientReporterProofs` | `[]TypeOK`, `[]ReportedWasReceived` (`Reports` implies it), `[]ReceivedTwiceOnlyIfExcused`, `[]ReceivedInOrder`, `[]RunNowIsHonoured`, `RetentionLosesNothing`, `ImplementsReports`: the reporter refines `Reports` |
| `DeliveryProofs` | of `DeliverySpec`: `[]SameTables`, `QueueKeepsToOutbox`, `ReporterKeepsToSpec`, `ImplementsReports`, `[]HeardSentIsTrue`, `[]TakenTwiceOnlyIfForgotten`, `[]OutcomeIsOnItsWay`, `RetiredIsKnown` |
| `CommandsProofs` | `[]TypeOK`, `[]TenantRowIsSerial`, `[]DoneHasOutcome`, `[]NoOrphans`, `[]LogReplays`, `TenantIsolation` |
| `ReceiversProofs` | `[]TypeOK`, `[]NothingSkipped`, `[]RecordedTwiceOnlyIfExcused` (`Intake` implies it), `[]DeclassifiedIsReported`, `TimeoutOnlyIfUnanswered`, `ImplementsIntake`: the receivers refine `Intake` |
| `AttachmentsProofs` | `[]TypeOK`, `[]MemoryIsAccounted`, `[]DiskWithinLimit`, `[]BuiltMailIsRight`, `[]OthersFailNoFetch` |

`MailQueueProofs`. `ProcessedHasOutcome` speaks of rows, but a row can be written
from a copy read long ago; `DeliveredTwiceOnlyIfExcused` speaks of a counter, but
what keeps it at one is where the tasks are. `IInv` adds

- `TaskFine`: the copy a task carries is of its own message or empty, and if it
  is processed there is an event for it; past `add_event` the verdict is in the
  events; a verdict "sent" means the server took the message; and if the mark
  found no row there will be none with that key again (keys are not reused);
- `RowFine`, `CallFine`: the same for rows and for the copies of API calls;
- `KeysApart`: a key is of one message and not used before it is given out;
- `Once`: a delivered key that is not excused was delivered once, its row is
  processed or its task holds the verdict "sent", and no other task is about to
  send it.

The heart of the argument is that the dispatcher is the only one that sets
`smtp_ts`, that a batch is fetched only when no task is left (so a fetched row
belongs to no task), and that the one writer who can undo the mark, a
re-submission with an old copy, excuses the key.

Its second part takes that invariant and shows that the initial states map to
initial states and every step to a step of `Outbox` or to none. Most actions
leave what a client sees alone; the others are grouped by the abstract step they
take: an insert is `Accept`, a SMTP conversation `Deliver`, `add_event` `Tell`, the
mark `Settle`, an API write of an old copy `Reopen`, a deletion `Remove`, an
exception or a crash that leaves a delivery unrecorded `Forget`. `Marks` is what
`IInv` lacks for this: a task or a call may hold a processed copy of a row that is
pending again only if the key is excused, so that writing it back is no settlement
without reason.

`SMTPPoolProofs`. The conjunction of the three properties is inductive: the limit
is the sum of the idle connections and the counter, and the counter is a
cardinality, so the lemmas are about adding and removing one element of the set
of busy workers.

`RateLimiterProofs`. A window is safe at the moment of a send only because what was
admitted earlier is counted, logged or not, for whichever account. `Steady` are the
accounts that have had a limit since the start. `Covered` says that what was
answered to them since any moment of the longest window, together with the slots
they hold for messages not yet answered (`Waiting`), is at most what the log shows
since that moment, together with `in_flight` and `stolen`; `Admitted` that for each
limit of a steady account what was answered in its window, together with what is
waiting, is within the limit and `stolen`; `ReservedFine` that every send of such an
account holds a slot. A lost answer ends a slot that was waiting and adds nothing
to what was answered, so both survive it. Clean-up forgets only what counts for no
window (`CleanedFine`), and this is where ascending windows are needed.

`ClientReporterProofs`. Order and acknowledgement are decided when the batch is
fetched and written when the cycle ends; `IInv` says what of it holds between.
`BatchInOrder`: an event of the batch has no other of its message, recorded earlier
and with a stamp that is not later, that is neither reported nor in the batch. `BatchFine`: what is in the batch stays
unreported until it is marked, and the tenants whose events were acknowledged in
this cycle are not called again in it. `ReceiptsKept`: what was received and is
not marked is acknowledged in this cycle, or excused. `RunNowIsHonoured` has an
invariant of its own, `Requests`: a request keeps the loop awake until a cycle
takes it; a tenant that is owed a call is due, has a URL, and either its request
still waits or the current cycle is for it and has not come to it (`Ahead`).

The refinement of `Reports` needs of `IInv` what an answered call rests on: the
payload is of the tenant called (`TenantOfEvent`), unmarked and complete towards
the past (`BatchFine`, `BatchInOrder`), and heard before only if excused
(`ReceiptsKept`). A call that is answered is `Hear`, one whose answer is lost `Hear`
together with `Fail`, a failed cycle or a restart `Fail` with or without the payload
of the call in progress. The mark is `Mark`, because all that is acknowledged was
received; retention is `Retire`; everything else the loop does leaves the mapped
state as it is.

`DeliveryProofs`. Each part is proved alone, relying on what the other writes; so
the composition is sound if each gives what the other relies on, and this is shown
step by step. A `QueueStep` is a `TableStep` of the reporter or changes nothing it
sees: in particular a row is settled only after an outcome, which the reporter
finds in its events because both tables are the same (`SameTables`). A `ReportStep`
leaves the queue alone, except that retention is `Remove` of a set of processed
rows. `QueueInCompany` and `ReporterInCompany` follow, and all theorems of the
reporter hold of `Delivery`. The three properties about both come from putting an
invariant of one beside one of the other: an event "sent" is of a delivered message,
and an event that was heard is one that was told; a processed row has an outcome,
and an event of a row that is there is unreported or was received; what retention
deletes is processed, and all its events were received.

`CommandsProofs`. `TypeInv` says of a call in progress which parameters its next
steps may read (`Shape`); most steps move a call on with what it knew (`Quietly`),
and each property needs a closer look at the others only. Each has an inductive
invariant of its own, about what calls carry between two statements:

- `CopiesFresh`: the tenant row that a `record()` section holds is the row of the
  table, unless the tenant is `dirty`; writing it back then does what the command
  would do to the row it finds.
- `SettledTold`: the copy of a message that a call holds is processed only if its
  message has an event, and a refused message has one before its row is marked.
- `RemovalAlone`: no other call is for a tenant that is being removed, unless it
  is `orphaned`, so that what one DELETE has emptied is empty after the next.
- `KeysOwned`: there is a map from the keys drawn so far to tenants, such that a
  row or a call of a tenant, other than a REST delete, holds only keys of that
  tenant. Statements that find
  rows by key, whatever tenant the rows are of, thus find the caller's. The map is
  not in the state: each step that draws a key shows how to extend it.

- `LogSound`, for `LogReplays`: as long as the log has no `gap`, calls that change
  a tenant come one at a time for each tenant and know of its row what is there
  (`Ready`), and executing the log leads to the tenants of now; while a command has
  written its row and not yet its log entry, to that row as it was before
  (`Shows`). `Reaches` executes a log entry by entry; `ReplayReaches` shows that the
  fold in `Replay` does the same. A replay draws other keys than the first
  execution, so all of this is about what can be seen of a row (`View`).

`ReceiversProofs`. A position is a UID together with its UIDVALIDITY. There are
several of each mailbox at a time: in the receiver's memory, in the account's row,
in the rows a poll has read, in the row an API call has read and may write back.
Of each of them `Soundness` says that no mail at or before it is left to handle,
which is why none is skipped, whichever of them is written last. `Coverage` says
that no mail after it must be left alone, so that a mail is recorded again only if
a reset excused it. `Boxing` says what an open session has fetched: UIDs after the
position, in order, and all of them but those whose FETCH failed (`Polling`).
`Flags` relates the events of a message to its `is_pec` flag in the row and in the
sender's copy of the row, which may undo the receiver's change or make it again.
A poll takes the least UID it has yet to handle; that there is one is a lemma
(`MinOf`).

The refinement of `Intake` rests on the same invariant. A recorded bounce is
`Record` with `Move` of its mailbox, a recorded receipt `Record` alone, since its
position is stored later; that the mail was not recorded before, or is excused, is
`Coverage` (`NotAgain`). A failed FETCH is `Miss`. `Recreate` voids the position
because `Soundness` keeps every stored UIDVALIDITY at or below the mailbox's. All
other steps are `Proceed`: no step moves more than one position (`OnePosition`), and
by `Soundness` after the step what it moves to leaves nothing unhandled (`Moving`),
whether it is the end of a poll or an API call that writes an old row back.

`AttachmentsProofs`. The limits are about sums of sizes over sequences.
`TotalAddsUp` shows that `Total` is the sum it is meant to be: that the recursion
in `FoldLeft` defines a function, and that each partial sum is the one before and
a size. From it follow the lemmas on appending, removing and moving an entry.
`IInv` says of the parts

- `MemoryFine`: the byte counter is the sum of the entries and within the limit, and
  a content is the whole file or was read from one that was not (`torn`);
- `DiskFine`: a key has one entry, and its file is whole, torn, or being written;
- `TasksFine`: a fetch that failed because of others has its content (`Blamed`); what
  a fetch carries is the whole of its own file or of the one its
  cache key stands for, unless `torn` or `mixed` excuse it, and what it is about
  to write to the disk is whole;
- `LockFine`, `Holding`: the lock is held by a fetch that is waiting for its own
  write; and until something is cancelled every write is by the holder;
- `Quiet`: as long as nothing has expired or been cancelled, no read removes a
  file or a directory, so a write finds its directory and the cache raises nothing;
- `Space`: until something is cancelled or an eviction refused (`Fit`), the files are
  within the limit, and the
  plan of a writer (`Planned`, `Room`) names every file that is on disk, so that
  carrying it out makes the room that was counted on.

The library's induction theorems take an operator as a parameter, which none of
the provers used here can instantiate. Where induction over data is needed, for
`Total` and for `Replay`, it is done by hand: a set of numbers has a least
element (`WFMin` of the library), so a property without a least counterexample
holds (`Least`, `Induction`).

Only model-checked: `NoCallStuck`, which contains ENABLED (it is also a property of
bounds that are large enough: at `MaxPk` an insert has no next step), and the
liveness properties, since fairness is out of the prover's reach. Only proved: the
properties of `Delivery`, which has no run; those of its two parts are run alone,
and every step of it is a step of both. The run of
`ClientReporter` has one tenant that asks, to keep it small; the theorem on
`RunNowIsHonoured` is about any number.

## 6. Divergences

The three findings are runs (section 3). What else the modelling brought to
light is in the models as the code does it; a property states the form that
does hold, or none does.

Messages and sender

- `update_payload` stores the payload that was fetched before the attempt over a
  re-submission that came meanwhile (`core/smtp/sender.py:590`);
  `docs/multi_tenancy.rst:742` says that messages with the same ID overwrite
  unsent ones.
- `addMessages` answers "already sent" for every message that is processed, also
  for those that ended in an error (`core/proxy.py:643`).
- `MessageEndpoint.get` shows a message that ended in an error as "sent"
  (`core/entities/message/endpoint.py:503-521`, where the enumeration of lines
  48-66 tells them apart): the row has no `error` column.
- Messages of a batch are sent in parallel and need not arrive in order
  (`docs/faq.rst:78`).
- The payload that the REST methods store has neither `tenant_id` nor `id`, so
  that the tenant's attachment settings, mounts and large-file configuration and
  the tracking header do not apply to it (`core/smtp/sender.py:759, 925, 945`).

Pool and limiter

- `check_and_plan` puts a message off to the next multiple of the window
  (`core/smtp/rate_limiter.py:198`). The window slides, so sends made late in it
  may still fill it then and the message is put off again: this is not "the
  earliest timestamp at which the message can be safely sent" (line 68).
- A message whose answer is lost or later than 30 s gives back its slot and is not
  logged (`core/smtp/sender.py:563-569`), although the server may have taken it:
  the server may then see more messages in a window than the limit. `WithinLimits`
  counts the answered ones.
- The limiter's counters are by account id, which is unique within a tenant only
  (`core/smtp/rate_limiter.py:147`): tenants whose accounts have the same id use up
  each other's limits, and a send of one without limits gives back a slot that a
  send of the other has reserved (`stolen`). So does a send that was under way when
  limits were set for its account. Each such slot lets one message too many through.
- After `add_event` raised for a sent message `log_send` is skipped
  (`core/smtp/sender.py:659`): its slot stays taken until the process ends.
- A connection that fails to open frees a place of the pool and notifies nobody
  (`core/smtp/pool.py:252-255`); a waiter sleeps on until a release or its
  timeout. `EveryAcquireEnds` holds because of the timeout.
- `release()` puts a connection into a new wrapper, so that `ttl` limits the time
  a connection is idle and not its age (`core/smtp/pool.py:294`).

Reporter

- Events are reported in the order of `event_ts` and then id
  (`core/entities/message_event/table.py:231`). As stamps are taken before later
  awaits, an event may be recorded and reported after another of its message whose
  stamp is later: `ReceivedInOrder` holds for events whose stamps agree with the
  order in which they were recorded.
- A run-now command during the call to the same tenant is overwritten by the
  answer (`core/reporting/client_reporter.py:292`), and one for another tenant
  replaces it, so that the first waits for the interval to end;
  `docs/multi_tenancy.rst:592-593` says that it triggers an immediate cycle.
- One LIMIT serves all tenants (`core/reporting/client_reporter.py:215`): events
  that cannot be reported come back in every cycle and may keep others from
  being reported, although `docs/api_reference.rst:336-339` says that the service
  posts whenever there are results to share. `EveryEventReported` holds because
  its run has one tenant.

API and tables

- `DELETE` of a message over REST removes the row with the given key, whatever tenant
  it is of (`core/entities/message/endpoint.py:277-286`), and `require_token`
  (`core/interface/api_base.py:356-392`) accepts the token of any tenant for it; the
  check of `verify_tenant_token` (lines 279-316) has no caller. Lines 38, 294-297 and
  362 say that a tenant's token restricts access to its own resources.
  `TenantIsolation` is about the tenant a call names, and says of this call that it
  removes the row of its key and no other.
- Of two overlapping `record()` sections on a tenant the second undoes the first:
  a suspension is lost, or an old API key comes back
  (`core/entities/tenant/table.py:230`). `TenantRowIsSerial` excuses exactly these.
- REST calls do not pass `handle_command` and are not logged
  (`core/proxy.py:423-424` says that state-modifying commands are logged for
  replay); only run-now, suspend and activate of the instance do.
- `deleteMessages` calls `Table.delete` with one argument too many and raises
  TypeError for every message of the tenant (`core/proxy.py:695`).
- `delete_batch` answers "unauthorized", which its documentation
  (`core/entities/message/endpoint.py:448`) gives to messages of other tenants,
  for a tenant's own message whose account has been removed.
- `get_pec_account_ids` looks up by account id alone: a message of an ordinary
  account is flagged `is_pec` when another tenant has a PEC account of that id.
- Suspension is matched by LIKE (`core/entities/message/table.py:411`), in which
  `_` and `%` of a batch code match other codes; `is_batch_suspended`
  (`core/entities/tenant/table.py:172`) says that they must match exactly.

Receivers

- A mail that is no delivery report and has unencoded 8-bit characters in its
  subject makes the parser raise in every poll. All mails behind it wait
  (`ee/bounce/receiver.py:191`); `EveryMailRecorded` excuses them. In a PEC
  mailbox, where the UID is stored after the poll, the receipts before it are
  recorded anew in every poll.
- A refusal whose `X-Ricevuta` header is missing or unknown is recorded as
  `pec_acceptance`: "NON ACCETTAZIONE:" in the subject contains "ACCETTAZIONE:",
  which is looked for first (`ee/pec/parser.py:61-66`); `docs/pec.rst:78-81` makes
  it a `pec_error`.
- `presa_in_carico` becomes `pec_acceptance`; `docs/pec.rst:82-85` says `pec_relay`.
- A PEC message that ended in an SMTP error gets a `pec_timeout` too: only
  `smtp_ts` is looked at.
- `list_pec_accounts` reads with a query of its own, so that `imap_password` is
  not decrypted on the way.

Attachments

- `_fs_cache` is keyed by the name of the mount only (`ee/storage/node_ee.py:38`):
  mounts of the same name in two tenants share the filesystem of whichever was
  used first. `BuiltMailIsRight` excuses the messages concerned (`mixed`).
- A file of the disk cache that is read while it is written, or was left half
  written by a crash or by a `write_bytes` that failed (`core/smtp/cache.py:170`), is
  served short as a hit (`docs/attachments.rst:250`). `BuiltMailIsRight` excuses
  these files (`torn`).
- An error of the file system in `DiskCache.set` (`core/smtp/cache.py:159-170`) is not
  caught, as it is in `get`: it fails a fetch that has its content and needed the
  cache no more, and with it the mail. So does a directory that another fetch
  removes, after an expiry, before the file in it is written.
- An upload of a large file stays when a later attachment makes the message fail.
- `cleanup_expired` of both caches and of uploaded files, and `close_all` of the
  pool, have no caller.

Migrations (`core/entities/message/table.py:155-212`,
`core/entities/account/table.py:156-255`) commit statement by statement. A crash
midway leaves a `*_new` table on which the next start fails, and one between DROP
and RENAME the rows in that table only; `core/entities/account/table.py:173` says "Safe to
call on every startup".

## 7. Not modelled

- Command line, forms, request models, HTTP client, REPL, Prometheus metrics:
  wiring and presentation, without state the proxy depends on.
- Database drivers and encryption: a statement is atomic and committed on its
  own, as the SQLite adapter does it; a column reads as it was written.
- Migrations of old schemas: they run once, before anything else.
- MIME headers other than the tracking header; the texts of bounces and receipts.
- Authentication by key: it reads, and refuses a request before the steps shown;
  for whose resources a token is accepted is said in section 6.
- What nobody calls: `cleanup_expired`, `purge_for_account`, `clear`, `close_all`.
- `report_delivery_callable` (embedding in Python) and events without a tenant
  (`messages.tenant_id` is NOT NULL) in the reporter.
- Starting and stopping the loops: a pause, which the models allow anywhere.

Hazards without a property are listed in `PROJECT.json` with the reason: the
stored payload and the order in a batch (above), the age of a connection, the
TypeError of `deleteMessages`, bounces of messages that retention has removed,
and migrations.

## 8. Plan

Done: the queue and its refinement, pool, limiter, reporter and its refinement,
both together, API calls, receivers and their refinement, attachments; the safety
properties of all of them proved, but for the one named at the end of section 5.

What is left, in order of what it would show:

1. `Tables` as the refinement target of the queue's statements, in place of the
   `Deliver` step in `Commands`.
2. `Intake` in `Delivery` in place of `Receipt`: that a tenant hears of every
   bounce of a message that is still there.
3. The migrations as a module of their own, with a crash between any two
   statements.
