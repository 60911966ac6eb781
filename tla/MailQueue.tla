------------------------------ MODULE MailQueue ------------------------------
(***************************************************************************)
(* The messages and message_events tables and the coroutines that work on  *)
(* them: the SMTP dispatch loop (SmtpSender), the tasks of the batch it is *)
(* dispatching, and the API calls that submit and delete messages.         *)
(*                                                                         *)
(* Every SQL statement is a step of its own, because every statement runs  *)
(* on a connection of its own and is awaited.  In particular               *)
(* `async with table.record(pk)` is a SELECT of the whole row followed, in *)
(* a later step, by an UPDATE of all its columns.  The one exception is    *)
(* the tenants row: there is one operator here, whose suspend and activate *)
(* commands do not overlap, so that each is a single step.                 *)
(***************************************************************************)
EXTENDS Naturals, Sequences, FiniteSets

CONSTANTS
    Msgs,           \* message keys (tenant_id, id)
    Clients,        \* API calls that may run insert_batch at the same time
    Batches,        \* batch codes
    BatchOf,        \* [Msgs -> Batches \cup {NoBatch}]: messages.batch_code
    NoBatch,        \* batch_code IS NULL
    AccountOf,      \* [Msgs -> account ids]: messages.account_id
    Suspendable,    \* codes the operator may suspend or activate, NoBatch for all
    Priorities,     \* priorities a client may ask for
    Kinds,          \* payloads a client may send: "valid", "invalid"
    Schedules,      \* deferred_ts a client may ask for: "null", "later"
    FetchLimit,     \* smtp_batch_size
    AccountBatch,   \* batch_size_per_account
    MaxConcurrent,  \* max_concurrent_sends
    MaxPerAccount,  \* max_concurrent_per_account
    MaxRetries,     \* RetryStrategy.max_retries
    MaxPk,          \* bound: rows ever inserted
    MaxSubmits,     \* bound: insert_batch entries ever processed
    MaxDefers,      \* bound: times a rate limit puts a message off
    MaxFaults       \* bound: crashes, failed statements and lost SMTP replies

ASSUME ConstantsAssumption ==
    /\ IsFiniteSet(Msgs) /\ Msgs # {}
    /\ BatchOf \in [Msgs -> Batches \cup {NoBatch}]
    /\ NoBatch \notin Batches
    /\ DOMAIN AccountOf = Msgs
    /\ Suspendable \subseteq Batches \cup {NoBatch}
    /\ Priorities \subseteq 0..3
    /\ Kinds \subseteq {"valid", "invalid"}
    /\ Schedules \subseteq {"null", "later"}
    /\ {FetchLimit, AccountBatch, MaxConcurrent, MaxPerAccount} \subseteq Nat \ {0}
    /\ {MaxRetries, MaxPk, MaxSubmits, MaxDefers, MaxFaults} \subseteq Nat

VARIABLES
    rows,       \* messages: rows[m].pk = 0 when key m has no row
    events,     \* message_events, in id order
    suspended,  \* tenants.suspended_batches: a set of codes, or Batches \cup {NoBatch} for "*"
    phase,      \* which of the two fetches of _process_cycle comes next
    task,       \* the coroutine of each message of the current batch
    api,        \* the API calls in progress
    nextPk,     \* the primary key get_uuid() returns next
    used,       \* how much of each bound has been used
    delivered,  \* history: how often the SMTP server accepted each pk
    excused     \* history: pks whose delivery may have been forgotten

vars == <<rows, events, suspended, phase, task, api, nextPk, used,
          delivered, excused>>

-----------------------------------------------------------------------------
(* Rows, events and coroutine states.                                      *)

Pks == 1..MaxPk

\* messages.payload: what a client sent, or what a retry stored ("wrapped").
PayloadKinds == {"valid", "invalid", "wrapped"}

\* deferred_ts: NULL, in the future, or not after now_ts.
Deferrals == {"null", "later", "due"}

Row == [pk: 0..MaxPk, processed: BOOLEAN, deferred: Deferrals,
        kind: PayloadKinds, prio: 0..3]

NoRow == [pk |-> 0, processed |-> FALSE, deferred |-> "null",
          kind |-> "valid", prio |-> 0]

Verdicts == {"none", "sent", "error", "deferred"}

\* message_events.description, as far as it matters here: a malformed payload,
\* any other reason to give up, a rate limit, a temporary SMTP failure.
Reasons == {"none", "missing", "refused", "rate_limit", "smtp"}

Event == [pk: Pks, type: Verdicts \ {"none"}, why: Reasons]

TaskPcs == {"off", "queued", "clear", "build", "limits", "send", "payload",
            "store", "event", "mark", "settle"}

\* What a task uses of the row that fetch_ready returned.
Entry == [pk: 0..MaxPk, kind: PayloadKinds, prio: 0..3]

EntryOf(row) == [pk |-> row.pk, kind |-> row.kind, prio |-> row.prio]

Task == [pc: TaskPcs, entry: Entry, copy: Row, verdict: Verdicts, why: Reasons]

IdleTask == [pc |-> "off", entry |-> EntryOf(NoRow), copy |-> NoRow,
             verdict |-> "none", why |-> "none"]

Call == [pc: {"idle", "insert", "record", "update"}, msg: Msgs,
         pk: 0..MaxPk, new: Row, copy: Row]

IdleCall == [pc |-> "idle", msg |-> CHOOSE m \in Msgs : TRUE, pk |-> 0,
             new |-> NoRow, copy |-> NoRow]

Everything == Batches \cup {NoBatch}

-----------------------------------------------------------------------------
(* The record() context manager.                                           *)

\* __aenter__: SELECT * FROM messages WHERE pk = ...; NoRow when it is gone.
SelectRow(m, pk) == IF rows[m].pk = pk THEN rows[m] ELSE NoRow

\* Mutant: INSERT OR REPLACE, which brings a removed row back.
UpsertRow(m, copy) == IF copy.pk # 0 THEN [rows EXCEPT ![m] = copy] ELSE rows

\* __aexit__: UPDATE of every column from the copy read by __aenter__.
\* Nothing is written if there was no row then, or there is none now.
UpdateRow(m, copy) ==
    IF copy.pk # 0 /\ rows[m].pk = copy.pk
    THEN [rows EXCEPT ![m] = copy]
    ELSE rows

-----------------------------------------------------------------------------
(* The dispatch loop.                                                      *)

\* Mutant: a deferred message is ready only if its deferral was cleared.
ReadyIfNeverDeferred(m) ==
    /\ rows[m].pk # 0
    /\ ~rows[m].processed
    /\ rows[m].deferred = "null"
    /\ BatchOf[m] \notin suspended
    /\ IF phase = "immediate" THEN rows[m].prio = 0 ELSE rows[m].prio >= 1

\* fetch_ready: pending, due, in the requested priority range, not suspended.
Ready(m) ==
    /\ rows[m].pk # 0
    /\ ~rows[m].processed
    /\ rows[m].deferred # "later"
    /\ BatchOf[m] \notin suspended
    /\ IF phase = "immediate" THEN rows[m].prio = 0 ELSE rows[m].prio >= 1

\* ORDER BY priority, created_at, pk.  A key here is the rank of its row in that
\* order: rows are ranked as they are inserted.
Before(x, y) == x.prio < y.prio \/ (x.prio = y.prio /\ x.pk < y.pk)

FetchReady ==
    LET ready == {m \in Msgs : Ready(m)}
    IN  {m \in ready : Cardinality({x \in ready : Before(rows[x], rows[m])}) < FetchLimit}

\* _dispatch_batch: at most AccountBatch messages of each account, the rest
\* stay pending for the next cycle.
DispatchBatch(batch) ==
    {m \in batch : Cardinality({x \in batch : /\ AccountOf[x] = AccountOf[m]
                                              /\ Before(rows[x], rows[m])}) < AccountBatch}

\* Mutant: the next batch is fetched while tasks of the last one run.
ProcessCycleWithoutGather ==
    /\ task' = [m \in Msgs |->
                  IF m \in DispatchBatch(FetchReady)
                  THEN [IdleTask EXCEPT !.pc = "queued", !.entry = EntryOf(rows[m])]
                  ELSE task[m]]
    /\ phase' = IF phase = "immediate" THEN "regular" ELSE "immediate"
    /\ UNCHANGED <<rows, events, suspended, api, nextPk, used, delivered, excused>>

\* One half of _process_cycle: the loop is here only when gather() has
\* returned for every task of the previous batch.
ProcessCycle ==
    /\ \A m \in Msgs : task[m].pc = "off"
    /\ task' = [m \in Msgs |->
                  IF m \in DispatchBatch(FetchReady)
                  THEN [IdleTask EXCEPT !.pc = "queued", !.entry = EntryOf(rows[m])]
                  ELSE task[m]]
    /\ phase' = IF phase = "immediate" THEN "regular" ELSE "immediate"
    /\ UNCHANGED <<rows, events, suspended, api, nextPk, used, delivered, excused>>

-----------------------------------------------------------------------------
(* One task of the batch: dispatch_with_limits, _dispatch_message and      *)
(* _send_with_limits.                                                      *)

Running == {m \in Msgs : task[m].pc \notin {"off", "queued"}}

\* Both semaphores are taken, in the order of the batch within an account;
\* clear_deferred reads the row.  A task that has the global semaphore and
\* waits for that of its account counts as queued, so the model allows every
\* order of starting that the code does, and more.
Start(m) ==
    /\ task[m].pc = "queued"
    /\ \A x \in Msgs : (task[x].pc = "queued" /\ AccountOf[x] = AccountOf[m])
                         => ~Before(task[x].entry, task[m].entry)
    /\ Cardinality(Running) < MaxConcurrent
    /\ Cardinality({x \in Running : AccountOf[x] = AccountOf[m]}) < MaxPerAccount
    /\ task' = [task EXCEPT ![m].pc = "clear",
                            ![m].copy = SelectRow(m, task[m].entry.pk)]
    /\ UNCHANGED <<rows, events, suspended, phase, api, nextPk, used, delivered, excused>>

\* Mutant: the message is claimed by setting smtp_ts before it is sent.
ClearDeferredAndClaim(m) ==
    /\ task[m].pc = "clear"
    /\ rows' = UpdateRow(m, [task[m].copy EXCEPT !.deferred = "null", !.processed = TRUE])
    /\ task' = [task EXCEPT ![m].pc = "build", ![m].copy = NoRow]
    /\ UNCHANGED <<events, suspended, phase, api, nextPk, used, delivered, excused>>

ClearDeferred(m) ==
    /\ task[m].pc = "clear"
    /\ rows' = UpdateRow(m, [task[m].copy EXCEPT !.deferred = "null"])
    /\ task' = [task EXCEPT ![m].pc = "build", ![m].copy = NoRow]
    /\ UNCHANGED <<events, suspended, phase, api, nextPk, used, delivered, excused>>

\* The outcome of a task is fixed: it is recorded as an event.
Conclude(m, verdict, why) ==
    task' = [task EXCEPT ![m].pc = "event", ![m].verdict = verdict, ![m].why = why]

\* _build_email: a payload without from, to or subject raises KeyError; an
\* attachment that cannot be fetched raises ValueError.  A wrapped payload
\* has no "from" at its top level.
BuildEmail(m) ==
    /\ task[m].pc = "build"
    /\ \/ task[m].entry.kind # "valid" /\ Conclude(m, "error", "missing")
       \/ task[m].entry.kind = "valid" /\ Conclude(m, "error", "refused")
       \/ task[m].entry.kind = "valid" /\ task' = [task EXCEPT ![m].pc = "limits"]
    /\ UNCHANGED <<rows, events, suspended, phase, api, nextPk, used, delivered, excused>>

\* _resolve_account raises AccountConfigurationError.
NoAccount(m) ==
    /\ task[m].pc = "limits"
    /\ Conclude(m, "error", "refused")
    /\ UNCHANGED <<rows, events, suspended, phase, api, nextPk, used, delivered, excused>>

\* check_and_plan finds a limit reached: the account's limit_behavior rejects
\* the message or puts it off.
RateLimited(m) ==
    /\ task[m].pc = "limits"
    /\ \/ Conclude(m, "error", "refused") /\ UNCHANGED used
       \/ /\ used.defers < MaxDefers
          /\ used' = [used EXCEPT !.defers = @ + 1]
          /\ Conclude(m, "deferred", "rate_limit")
    /\ UNCHANGED <<rows, events, suspended, phase, api, nextPk, delivered, excused>>

\* check_and_plan lets the message through.
Admitted(m) ==
    /\ task[m].pc = "limits"
    /\ task' = [task EXCEPT ![m].pc = "send"]
    /\ UNCHANGED <<rows, events, suspended, phase, api, nextPk, used, delivered, excused>>

\* payload.get("retry_count", 0) is asked of the fetched row, which never has
\* that key: update_payload stores it inside the payload column.
RetryCount(entry) == 0

ShouldRetry(entry) == RetryCount(entry) < MaxRetries

\* A temporary failure, or no answer in time.
TemporaryFailure(m) ==
    IF ShouldRetry(task[m].entry)
    THEN task' = [task EXCEPT ![m].pc = "payload", ![m].verdict = "deferred", ![m].why = "smtp"]
    ELSE Conclude(m, "error", "refused")

Accept(m) == delivered' = [delivered EXCEPT ![task[m].entry.pk] = @ + 1]

\* The SMTP conversation: accepted, refused for good, failed for now, or
\* accepted by the server while the sender sees a timeout.
SendMessage(m) ==
    /\ task[m].pc = "send"
    /\ \/ Accept(m) /\ Conclude(m, "sent", "none") /\ UNCHANGED <<used, excused>>
       \/ Conclude(m, "error", "refused") /\ UNCHANGED <<delivered, used, excused>>
       \/ TemporaryFailure(m) /\ UNCHANGED <<delivered, used, excused>>
       \/ /\ used.faults < MaxFaults
          /\ used' = [used EXCEPT !.faults = @ + 1]
          /\ Accept(m)
          /\ excused' = excused \cup {task[m].entry.pk}
          /\ TemporaryFailure(m)
    /\ UNCHANGED <<rows, events, suspended, phase, api, nextPk>>

\* update_payload reads the row ...
SelectForPayload(m) ==
    /\ task[m].pc = "payload"
    /\ task' = [task EXCEPT ![m].pc = "store",
                            ![m].copy = SelectRow(m, task[m].entry.pk)]
    /\ UNCHANGED <<rows, events, suspended, phase, api, nextPk, used, delivered, excused>>

\* ... and stores as payload a copy of the whole fetched entry, the message
\* one level down.
UpdatePayload(m) ==
    /\ task[m].pc = "store"
    /\ rows' = UpdateRow(m, [task[m].copy EXCEPT !.kind = "wrapped"])
    /\ task' = [task EXCEPT ![m].pc = "event", ![m].copy = NoRow]
    /\ UNCHANGED <<events, suspended, phase, api, nextPk, used, delivered, excused>>

\* add_event inserts the event; its trigger runs afterwards.
InsertEvent(m) ==
    /\ task[m].pc = "event"
    /\ events' = Append(events, [pk |-> task[m].entry.pk, type |-> task[m].verdict,
                                 why |-> task[m].why])
    /\ task' = [task EXCEPT ![m].pc = "mark"]
    /\ UNCHANGED <<rows, suspended, phase, api, nextPk, used, delivered, excused>>

\* trigger_on_inserted calls mark_sent, mark_error or set_deferred, which
\* reads the row ...
SelectForMark(m) ==
    /\ task[m].pc = "mark"
    /\ task' = [task EXCEPT ![m].pc = "settle",
                            ![m].copy = SelectRow(m, task[m].entry.pk)]
    /\ UNCHANGED <<rows, events, suspended, phase, api, nextPk, used, delivered, excused>>

\* Mutants: the event type is stored as the deferral; sent is not final.
MarkedWithType(row, verdict) ==
    [row EXCEPT !.processed = (verdict # "deferred"), !.deferred = verdict]
MarkedIfError(row, verdict) ==
    [row EXCEPT !.processed = (verdict = "error"),
                !.deferred = IF verdict = "deferred" THEN "later" ELSE "null"]

Marked(row, verdict) ==
    [row EXCEPT !.processed = (verdict # "deferred"),
                !.deferred = IF verdict = "deferred" THEN "later" ELSE "null"]

\* ... and writes it back; the task is over and its semaphores are free.
UpdateMark(m) ==
    /\ task[m].pc = "settle"
    /\ rows' = UpdateRow(m, Marked(task[m].copy, task[m].verdict))
    /\ task' = [task EXCEPT ![m] = IdleTask]
    /\ UNCHANGED <<events, suspended, phase, api, nextPk, used, delivered, excused>>

TaskStep(m) ==
    \/ Start(m) \/ ClearDeferred(m) \/ BuildEmail(m)
    \/ NoAccount(m) \/ RateLimited(m) \/ Admitted(m)
    \/ SendMessage(m) \/ SelectForPayload(m) \/ UpdatePayload(m)
    \/ InsertEvent(m) \/ SelectForMark(m) \/ UpdateMark(m)

-----------------------------------------------------------------------------
(* The API.                                                                *)

\* insert_batch, first statement for an entry: is there such a message?
LookupExisting(c, m, p, k, s) ==
    /\ api[c].pc = "idle"
    /\ used.submits < MaxSubmits
    /\ used' = [used EXCEPT !.submits = @ + 1]
    /\ LET new == [NoRow EXCEPT !.deferred = s, !.kind = k, !.prio = p]
       IN  api' = IF rows[m].pk = 0
                  THEN [api EXCEPT ![c] = [IdleCall EXCEPT !.pc = "insert", !.msg = m, !.new = new]]
                  ELSE IF rows[m].processed
                  THEN api
                  ELSE [api EXCEPT ![c] = [IdleCall EXCEPT !.pc = "record", !.msg = m,
                                                           !.pk = rows[m].pk, !.new = new]]
    /\ UNCHANGED <<rows, events, suspended, phase, task, nextPk, delivered, excused>>

\* A new message; UNIQUE (tenant_id, id) refuses it if another call was faster.
InsertNew(c) ==
    LET m == api[c].msg
    IN  /\ api[c].pc = "insert"
        /\ nextPk <= MaxPk
        /\ IF rows[m].pk = 0
           THEN /\ rows' = [rows EXCEPT ![m] = [api[c].new EXCEPT !.pk = nextPk]]
                /\ nextPk' = nextPk + 1
           ELSE UNCHANGED <<rows, nextPk>>
        /\ api' = [api EXCEPT ![c] = IdleCall]
        /\ UNCHANGED <<events, suspended, phase, task, used, delivered, excused>>

\* A pending message: record(pk) reads it ...
SelectPending(c) ==
    /\ api[c].pc = "record"
    /\ api' = [api EXCEPT ![c].pc = "update",
                          ![c].copy = SelectRow(api[c].msg, api[c].pk)]
    /\ UNCHANGED <<rows, events, suspended, phase, task, nextPk, used, delivered, excused>>

\* ... and writes every column back, smtp_ts as it was read.
UpdatePending(c) ==
    LET m   == api[c].msg
        new == api[c].new
        row == [api[c].copy EXCEPT !.deferred = new.deferred, !.kind = new.kind,
                                   !.prio = new.prio]
        written == row.pk # 0 /\ rows[m].pk = row.pk
    IN  /\ api[c].pc = "update"
        /\ rows' = UpdateRow(m, row)
        /\ excused' = IF written /\ rows[m].processed /\ ~row.processed
                      THEN excused \cup {row.pk} ELSE excused
        /\ api' = [api EXCEPT ![c] = IdleCall]
        /\ UNCHANGED <<events, suspended, phase, task, nextPk, used, delivered>>

CallStep(c) == InsertNew(c) \/ SelectPending(c) \/ UpdatePending(c)

\* remove_by_pk, whoever asks for it.
RemoveByPk(m) ==
    /\ rows[m].pk # 0
    /\ rows' = [rows EXCEPT ![m] = NoRow]
    /\ UNCHANGED <<events, suspended, phase, task, api, nextPk, used, delivered, excused>>

\* suspend_batch(batch_code): "*" already covers every batch.
SuspendBatch(b) ==
    /\ suspended' = IF b = NoBatch THEN Everything ELSE suspended \cup {b}
    /\ UNCHANGED <<rows, events, phase, task, api, nextPk, used, delivered, excused>>

\* activate_batch(batch_code): one batch cannot be taken out of "*".
ActivateBatch(b) ==
    /\ suspended' = IF b = NoBatch THEN {}
                    ELSE IF suspended = Everything THEN suspended
                    ELSE suspended \ {b}
    /\ UNCHANGED <<rows, events, phase, task, api, nextPk, used, delivered, excused>>

-----------------------------------------------------------------------------
(* Time and failures.                                                      *)

Due(row) == IF row.deferred = "later" THEN [row EXCEPT !.deferred = "due"] ELSE row

\* The clock reaches the deferred_ts of m, wherever that value is held.
TimePasses(m) ==
    /\ rows[m].deferred = "later"
    /\ rows' = [rows EXCEPT ![m] = Due(@)]
    /\ task' = [task EXCEPT ![m].copy = Due(@)]
    /\ api' = [c \in Clients |->
                 IF api[c].msg = m
                 THEN [api[c] EXCEPT !.new = Due(@), !.copy = Due(@)]
                 ELSE api[c]]
    /\ UNCHANGED <<events, suspended, phase, nextPk, used, delivered, excused>>

\* The server has the message and no table says so yet.
Unrecorded(m) == task[m].verdict = "sent" /\ task[m].pc \in {"event", "mark", "settle"}

\* A statement of the task raises: gather() logs the exception, the row stays
\* as it is.
TaskFails(m) ==
    /\ task[m].pc \notin {"off", "send"}
    /\ used.faults < MaxFaults
    /\ used' = [used EXCEPT !.faults = @ + 1]
    /\ excused' = IF Unrecorded(m) THEN excused \cup {task[m].entry.pk} ELSE excused
    /\ task' = [task EXCEPT ![m] = IdleTask]
    /\ UNCHANGED <<rows, events, suspended, phase, api, nextPk, delivered>>

\* The process dies and is started again: the tables are all that is left.
Crash ==
    /\ used.faults < MaxFaults
    /\ used' = [used EXCEPT !.faults = @ + 1]
    /\ excused' = excused \cup {task[m].entry.pk : m \in {x \in Msgs : Unrecorded(x)}}
    /\ task' = [m \in Msgs |-> IdleTask]
    /\ api' = [c \in Clients |-> IdleCall]
    /\ phase' = "immediate"
    /\ UNCHANGED <<rows, events, suspended, nextPk, delivered>>

-----------------------------------------------------------------------------
Init ==
    /\ rows = [m \in Msgs |-> NoRow]
    /\ events = <<>>
    /\ suspended = {}
    /\ phase = "immediate"
    /\ task = [m \in Msgs |-> IdleTask]
    /\ api = [c \in Clients |-> IdleCall]
    /\ nextPk = 1
    /\ used = [submits |-> 0, defers |-> 0, faults |-> 0]
    /\ delivered = [pk \in Pks |-> 0]
    /\ excused = {}

Next ==
    \/ ProcessCycle
    \/ \E m \in Msgs : TaskStep(m)
    \/ \E c \in Clients, m \in Msgs, p \in Priorities, k \in Kinds, s \in Schedules :
          LookupExisting(c, m, p, k, s)
    \/ \E c \in Clients : CallStep(c)
    \/ \E m \in Msgs : RemoveByPk(m)
    \/ \E b \in Suspendable : SuspendBatch(b) \/ ActivateBatch(b)
    \/ \E m \in Msgs : TimePasses(m)
    \/ \E m \in Msgs : TaskFails(m)
    \/ Crash

Spec == Init /\ [][Next]_vars

\* The event loop keeps running its coroutines, an SMTP conversation ends by
\* its 30 s timeout at the latest, and the clock advances.
Fairness ==
    /\ WF_vars(ProcessCycle)
    /\ \A m \in Msgs : WF_vars(TaskStep(m)) /\ WF_vars(TimePasses(m))
    /\ \A c \in Clients : WF_vars(CallStep(c))

FairSpec == Spec /\ Fairness

-----------------------------------------------------------------------------
(* The refinement.                                                         *)

\* What a client sees of the row with primary key pk.
StateOf(pk) ==
    IF pk >= nextPk THEN "none"
    ELSE IF \A m \in Msgs : rows[m].pk # pk THEN "removed"
    ELSE IF \E m \in Msgs : rows[m].pk = pk /\ rows[m].processed THEN "processed"
    ELSE "pending"

O == INSTANCE Outbox WITH
        state <- [pk \in Pks |-> StateOf(pk)],
        told <- [i \in DOMAIN events |-> <<events[i].pk, events[i].type>>],
        forgotten <- excused

-----------------------------------------------------------------------------
(* Properties.                                                             *)

TypeOK ==
    /\ rows \in [Msgs -> Row]
    /\ events \in Seq(Event)
    /\ suspended \subseteq Everything
    /\ phase \in {"immediate", "regular"}
    /\ task \in [Msgs -> Task]
    /\ api \in [Clients -> Call]
    /\ nextPk \in 1..(MaxPk + 1)
    /\ used \in [submits: 0..MaxSubmits, defers: 0..MaxDefers, faults: 0..MaxFaults]
    /\ delivered \in [Pks -> Nat]
    /\ excused \subseteq Pks

\* A message shown as processed (smtp_ts set) has a sent or error event, so
\* the client is told of it: neither the two-statement add_event nor the
\* whole-row writes of concurrent calls can settle a message silently.
ProcessedHasOutcome ==
    \A m \in Msgs : rows[m].processed =>
        \E i \in DOMAIN events : /\ events[i].pk = rows[m].pk
                                 /\ events[i].type \in {"sent", "error"}

\* A "sent" event is only ever recorded for a message the SMTP server took.
SentMeansDelivered ==
    \A i \in DOMAIN events : events[i].type = "sent" => delivered[events[i].pk] > 0

\* A message reaches the SMTP server twice only after a lost reply, a failure
\* between the send and the mark, or a re-submission written over the mark.
DeliveredTwiceOnlyIfExcused ==
    \A pk \in Pks : delivered[pk] > 1 => pk \in excused

\* The dispatcher's whole-row writes never bring a removed message back: a row
\* keeps its pk, disappears, or appears with a fresh one.
RemovedStaysRemoved ==
    [][\A m \in Msgs : rows'[m].pk \in {0, rows[m].pk, nextPk}]_vars

\* Every message is processed or removed in the end, unless it stays suspended.
EveryMessageSettles ==
    \A m \in Msgs :
        <>[](BatchOf[m] \notin suspended) =>
            (rows[m].pk # 0 ~> rows[m].processed \/ rows[m].pk = 0)

\* Whatever way the statements of tasks, calls and failures interleave, each row
\* goes through the life that Outbox describes: every step of the queue is a
\* step of Outbox or leaves what a client sees as it was.
ImplementsOutbox == O!Spec

\* entities/message/table.py:258 "Existing processed: skip (already sent)": a
\* message the server took and that is marked processed stays so.
SentIsFinal ==
    [][\A m \in Msgs :
          /\ rows[m].processed /\ delivered[rows[m].pk] > 0
          /\ rows'[m].pk = rows[m].pk
          => rows'[m].processed]_vars

\* docs/faq.rst:73 "The message is retried with exponential backoff. After
\* max_retries attempts, it's marked as error": a message that failed for now
\* is not given up as malformed before its retries are used up.
RetriedUntilMaxRetries ==
    \A i \in DOMAIN events :
        LET attempts == {j \in 1..(i - 1) : /\ events[j].pk = events[i].pk
                                            /\ events[j].type = "deferred"
                                            /\ events[j].why = "smtp"}
        IN  events[i].why = "missing" /\ attempts # {}
               => Cardinality(attempts) >= MaxRetries
==============================================================================
