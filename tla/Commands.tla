------------------------------ MODULE Commands ------------------------------
(***************************************************************************)
(* The API calls of the proxy over the tables: the commands that           *)
(* handle_command executes and logs, and the REST methods of the endpoints *)
(* that reach the tables without it.  Calls are tasks of one event loop:   *)
(* each SQL statement is a step, and calls interleave between statements.  *)
(* `record()` is a SELECT in one step and an UPDATE in a later one.        *)
(*                                                                         *)
(* The dispatch loop and the reporter appear as what they do to the rows.  *)
(***************************************************************************)
EXTENDS Tables, SequencesExt

CONSTANTS
    Calls,         \* API tasks that may run at the same time
    Ops,           \* the operations a run exercises
    Existing,      \* tenants there at the start, each with all of AccountIds
    Submissions,   \* what addMessages may be given; an empty list changes nothing
    QueueSize,     \* result_queue maxsize
    MaxCalls,      \* bound: calls ever made
    MaxFaults      \* bound: crashes and command_log inserts that fail

Item == [id: Ids, form: Forms]
Valid(i) == [id |-> i, form |-> "valid"]

ASSUME CommandsAssumption ==
    /\ Existing \subseteq Tenants
    /\ Submissions \subseteq Seq(Item) \ {<<>>}
    /\ Cardinality(AccountKeys) <= MaxPk
    /\ {QueueSize, MaxCalls, MaxFaults} \subseteq Nat

VARIABLES
    calls,    \* the call each task is executing
    results,  \* _result_queue: how many events wait in it
    used,     \* how much of each bound has been used
    serial,   \* history: tenants, had no write been made from an old copy
    dirty,    \* history: tenants written while another call held a copy
    gap,      \* history: the log is not the sequence of what was executed
    orphaned  \* history: tenants named by a call that overlapped their removal
              \* or that came when they did not exist

history == <<serial, dirty, gap, orphaned>>
vars == <<tables, calls, results, used, history>>

-----------------------------------------------------------------------------
(* Calls.                                                                  *)

RecordOps == {"suspend", "activate", "updateTenant"}
KeyOps == {"createKey", "revokeKey"}
TenantOps == RecordOps \cup KeyOps \cup {"addTenant", "deleteTenant"}
AccountOps == {"addAccount", "addPecAccount", "deleteAccount"}
MessageOps == {"addMessages", "addBatch", "add", "deleteMessages", "deleteBatch", "delete",
               "cleanupMessages"}

\* Mutant: updateTenant is left out.
LoggedWithoutUpdate == (RecordOps \cup {"addTenant", "deleteTenant", "addAccount", "deleteAccount",
                          "addMessages", "deleteMessages", "cleanupMessages"}) \ {"updateTenant"}

\* _LOGGED_COMMANDS.
LoggedCommands == RecordOps \cup {"addTenant", "deleteTenant", "addAccount", "deleteAccount",
                    "addMessages", "deleteMessages", "cleanupMessages"}

\* A task between two requests, and a call that has just been received.
IdleCall == [op |-> "none", pc |-> "idle"]

\* rest: whether it comes as a REST call, which handle_command never sees.
NewCall(op, t, first, rest) ==
    [op |-> op, rest |-> rest, pc |-> first, t |-> t, a |-> "none", codes |-> {}, active |-> TRUE,
     items |-> <<>>, valid |-> <<>>, batch |-> <<>>, refused |-> FALSE, failed |-> FALSE,
     publish |-> 0, queued |-> 0, pk |-> 0, account |-> 0, pec |-> FALSE,
     tenantCopy |-> NoTenant, accountCopy |-> NoAccount, messageCopy |-> NoMessage, ok |-> TRUE]

Busy(c) == calls[c].pc # "idle"
At(c, op, pc) == calls[c].op = op /\ calls[c].pc = pc

\* Other calls in progress that name the same tenant.
Others(c, t) == {d \in Calls \ {c} : Busy(d) /\ calls[d].t = t}

\* The call returns: handle_command goes on to log it, a REST method is done.
Answered(c, call, ok) ==
    calls' = [calls EXCEPT ![c] = IF call.op \in LoggedCommands /\ ~call.rest
                                  THEN [call EXCEPT !.pc = "log", !.ok = ok]
                                  ELSE IdleCall]
Answer(c, ok) == Answered(c, calls[c], ok)

\* An exception leaves handle_command: nothing is logged.
Raise(c) == calls' = [calls EXCEPT ![c] = IdleCall]

GoTo(c, pc) == calls' = [calls EXCEPT ![c].pc = pc]

\* A call that changes tenants while another one does.
Overlaps(c, call) ==
    call.op \in TenantOps /\ \E d \in Others(c, call.t) : calls[d].op \in TenantOps

\* A call that the log will not tell of, though it is for a tenant's row.
Untold(call) == call.op \in TenantOps \ KeyOps /\ call.rest

\* A request arrives.
Begin(c, call) ==
    /\ call.op \in Ops
    /\ ~Busy(c)
    /\ used.calls < MaxCalls
    /\ used' = [used EXCEPT !.calls = @ + 1]
    /\ calls' = [calls EXCEPT ![c] = call]
    /\ gap' = (gap \/ Overlaps(c, call) \/ Untold(call))
    /\ orphaned' = IF \/ ~tenants[call.t].there
                      \/ \E d \in Others(c, call.t) : "deleteTenant" \in {call.op, calls[d].op}
                   THEN orphaned \cup {call.t} ELSE orphaned
    /\ UNCHANGED <<tables, results, serial, dirty>>

-----------------------------------------------------------------------------
(* Tenants.                                                                *)

\* Every write to the row of t makes the copies that others hold old ones.
TouchTenant(c, t) ==
    dirty' = IF \E d \in Others(c, t) : calls[d].tenantCopy.there
             THEN dirty \cup {t} ELSE dirty

\* What a record() call changes in the row it has read.
TenantColumns(call, row) ==
    CASE call.op = "suspend"      -> SuspendBatch(row, call.codes)
      [] call.op = "activate"     -> ActivateBatch(row, call.codes)
      [] call.op = "updateTenant" -> UpdateFields(row, call.active)
      [] call.op = "addTenant"    -> AddExisting(row, call.active)

Succeeds(call, row) ==
    row.there /\ (call.op = "activate" => ~ActivateRefused(row, call.codes))

SelectTenant(c) ==
    /\ calls[c].pc = "select" /\ calls[c].op \in RecordOps \cup {"addTenant"}
    /\ calls' = [calls EXCEPT ![c].pc = "write", ![c].tenantCopy = tenants[calls[c].t]]
    /\ UNCHANGED <<tables, results, used, history>>

WriteTenant(c) ==
    LET call == calls[c]
        row  == call.tenantCopy
    IN  /\ call.pc = "write" /\ call.op \in RecordOps \cup {"addTenant"}
        /\ tenants' = UpdateTenant(call.t, TenantColumns(call, row))
        /\ serial' = IF row.there /\ tenants[call.t].there
                     THEN [serial EXCEPT ![call.t] = TenantColumns(call, @)] ELSE serial
        /\ TouchTenant(c, call.t)
        /\ Answer(c, Succeeds(call, row))
        /\ UNCHANGED <<accounts, messages, events, log, nextPk, nextKey, results, used,
                       gap, orphaned>>

\* add (EE): is there such a tenant?
GetTenant(c) ==
    /\ At(c, "addTenant", "get")
    /\ GoTo(c, IF tenants[calls[c].t].there THEN "select" ELSE "insert")
    /\ UNCHANGED <<tables, results, used, history>>

\* A second insert of the same id raises; dispatch answers ok = False.
InsertTenant(c) ==
    LET t == calls[c].t
    IN  /\ At(c, "addTenant", "insert")
        /\ nextKey <= MaxKeys
        /\ nextKey' = nextKey + 1
        /\ IF tenants[t].there
           THEN UNCHANGED <<tenants, serial>>
           ELSE /\ tenants' = [tenants EXCEPT ![t] = AddNew(calls[c].active)]
                /\ serial' = [serial EXCEPT ![t] = AddNew(calls[c].active)]
        /\ TouchTenant(c, t)
        /\ Answer(c, ~tenants[t].there)
        /\ UNCHANGED <<accounts, messages, events, log, nextPk, results, used,
                       gap, orphaned>>

\* Mutant: only the queue is emptied.
RemovePendingMessages(c) ==
    /\ At(c, "deleteTenant", "messages")
    /\ messages' = DeleteMessages({k \in MessagesOf(calls[c].t) : ~messages[k].done})
    /\ GoTo(c, "accounts")
    /\ UNCHANGED <<tenants, accounts, events, log, nextPk, nextKey, results, used, history>>

\* remove (EE): messages, accounts, tenant, in three statements.
RemoveMessages(c) ==
    /\ At(c, "deleteTenant", "messages")
    /\ messages' = DeleteMessages(MessagesOf(calls[c].t))
    /\ GoTo(c, "accounts")
    /\ UNCHANGED <<tenants, accounts, events, log, nextPk, nextKey, results, used, history>>

RemoveAccounts(c) ==
    /\ At(c, "deleteTenant", "accounts")
    /\ accounts' = DeleteAccounts(AccountsOf(calls[c].t))
    /\ GoTo(c, "tenant")
    /\ UNCHANGED <<tenants, messages, events, log, nextPk, nextKey, results, used, history>>

RemoveTenant(c) ==
    LET t == calls[c].t
    IN  /\ At(c, "deleteTenant", "tenant")
        /\ tenants' = [tenants EXCEPT ![t] = NoTenant]
        /\ serial' = [serial EXCEPT ![t] = NoTenant]
        /\ TouchTenant(c, t)
        /\ Answer(c, tenants[t].there)
        /\ UNCHANGED <<accounts, messages, events, log, nextPk, nextKey, results, used,
                       gap, orphaned>>

\* create_api_key reads the tenant before it updates the row.
CreateKeyGet(c) ==
    /\ At(c, "createKey", "get")
    /\ IF tenants[calls[c].t].there THEN GoTo(c, "key") ELSE Answer(c, FALSE)
    /\ UNCHANGED <<tables, results, used, history>>

WriteKey(c) ==
    LET call == calls[c]
        key  == IF call.op = "createKey" THEN nextKey ELSE 0
    IN  /\ call.pc = "key" /\ call.op \in KeyOps
        /\ key <= MaxKeys
        /\ nextKey' = IF call.op = "createKey" THEN nextKey + 1 ELSE nextKey
        /\ tenants' = SetApiKey(call.t, key)
        /\ serial' = IF tenants[call.t].there THEN [serial EXCEPT ![call.t].key = key] ELSE serial
        /\ TouchTenant(c, call.t)
        /\ Answer(c, tenants[call.t].there)
        /\ UNCHANGED <<accounts, messages, events, log, nextPk, results, used,
                       gap, orphaned>>

TenantStep(c) ==
    \/ SelectTenant(c) \/ WriteTenant(c) \/ GetTenant(c) \/ InsertTenant(c)
    \/ RemoveMessages(c) \/ RemoveAccounts(c) \/ RemoveTenant(c)
    \/ CreateKeyGet(c) \/ WriteKey(c)

-----------------------------------------------------------------------------
(* Accounts.                                                               *)

SelectAccount(c) ==
    /\ calls[c].pc = "select" /\ calls[c].op \in {"addAccount", "addPecAccount"}
    /\ calls' = [calls EXCEPT ![c].pc = "write",
                              ![c].accountCopy = accounts[<<calls[c].t, calls[c].a>>]]
    /\ UNCHANGED <<tables, results, used, history>>

\* UNIQUE (tenant_id, id) refuses a second insert, and the statement raises.
\* The update writes the pk that was read, whatever the row has now.
WriteAccount(c) ==
    LET call == calls[c]
        k    == <<call.t, call.a>>
        row  == AddAccountColumns(call.accountCopy, call.op = "addPecAccount")
        new  == call.accountCopy.pk = 0
        done == new <=> accounts[k].pk = 0
    IN  /\ call.pc = "write" /\ call.op \in {"addAccount", "addPecAccount"}
        /\ row.pk <= MaxPk
        /\ accounts' = IF done THEN [accounts EXCEPT ![k] = row] ELSE accounts
        /\ nextPk' = IF new THEN nextPk + 1 ELSE nextPk
        /\ Answer(c, done)
        /\ UNCHANGED <<tenants, messages, events, log, nextKey, results, used, history>>

\* deleteAccount looks first, and answers "not found" without a DELETE.
GetAccount(c) ==
    /\ At(c, "deleteAccount", "get")
    /\ IF accounts[<<calls[c].t, calls[c].a>>].pk # 0 THEN GoTo(c, "remove") ELSE Answer(c, FALSE)
    /\ UNCHANGED <<tables, results, used, history>>

RemoveAccount(c) ==
    /\ At(c, "deleteAccount", "remove")
    /\ accounts' = DeleteAccounts({<<calls[c].t, calls[c].a>>})
    /\ Answer(c, TRUE)
    /\ UNCHANGED <<tenants, messages, events, log, nextPk, nextKey, results, used, history>>

AccountStep(c) == SelectAccount(c) \/ WriteAccount(c) \/ GetAccount(c) \/ RemoveAccount(c)

-----------------------------------------------------------------------------
(* Messages: addMessages and add_batch.                                    *)

Key(call) == <<call.t, Head(call.batch).id>>

\* Every event has been handed over, or there is none: the reply is next.
Finish(call) == [call EXCEPT !.pc = IF call.publish > 0 THEN "publish" ELSE "answer"]

\* _handle_add_messages after an item: the next one, then insert_batch with
\* all that passed validation, then the refused ones are published.
Continue(call) ==
    IF call.items # <<>> THEN [call EXCEPT !.pc = "check"]
    ELSE IF call.valid # <<>>
    THEN [call EXCEPT !.pc = "resolve", !.batch = call.valid, !.valid = <<>>]
    ELSE Finish(call)

\* insert_batch after an entry.
NextEntry(call) ==
    IF call.refused
    THEN Continue([call EXCEPT !.items = Tail(@), !.batch = <<>>, !.refused = FALSE,
                               !.failed = TRUE, !.publish = @ + 1])
    ELSE IF Tail(call.batch) # <<>>
    THEN [call EXCEPT !.pc = "resolve", !.batch = Tail(@)]
    ELSE Finish([call EXCEPT !.batch = <<>>])

\* Mutant: the row of a refused message is marked without an event.
StoredWithoutEvent(call) ==
    IF call.refused THEN [call EXCEPT !.pc = "selectMark"]
    ELSE NextEntry([call EXCEPT !.queued = @ + 1])

\* A row was written for the entry: its refusal is recorded, or it is queued.
Stored(call) ==
    IF call.refused THEN [call EXCEPT !.pc = "event"]
    ELSE NextEntry([call EXCEPT !.queued = @ + 1])

\* _validate_enqueue_payload: the fields, then the account of the tenant.
IsValid(call) ==
    Head(call.items).form = "valid" /\ accounts[<<call.t, call.a>>].pk # 0

CheckItem(c) ==
    LET call == calls[c]
    IN  /\ At(c, "addMessages", "check")
        /\ calls' = [calls EXCEPT ![c] =
                       IF IsValid(call)
                       THEN Continue([call EXCEPT !.valid = Append(@, Head(call.items)),
                                                  !.items = Tail(@)])
                       ELSE [call EXCEPT !.pc = "resolve", !.refused = TRUE,
                                         !.batch = <<Head(call.items)>>]]
        /\ UNCHANGED <<tables, results, used, history>>

\* Mutant: the account is looked up by its id alone; the first match wins.
ResolveAnyTenant(c) ==
    LET call == calls[c]
        same == {k \in AccountKeys : k[2] = call.a /\ accounts[k].pk # 0}
    IN  /\ call.pc = "resolve"
        /\ calls' = [calls EXCEPT
                       ![c].pc = "exists",
                       ![c].account = IF same = {} THEN 0
                                      ELSE accounts[CHOOSE k \in same : TRUE].pk,
                       ![c].pec = call.a \in PecAccountIds]
        /\ UNCHANGED <<tables, results, used, history>>

\* insert_batch: the PEC accounts, and the pk of the account.
Resolve(c) ==
    LET call == calls[c]
    IN  /\ call.pc = "resolve"
        /\ calls' = [calls EXCEPT ![c].pc = "exists",
                                  ![c].account = accounts[<<call.t, call.a>>].pk,
                                  ![c].pec = call.a \in PecAccountIds]
        /\ UNCHANGED <<tables, results, used, history>>

\* A processed message is skipped, and addMessages says "already sent".
LookupMessage(c) ==
    LET call == calls[c]
        row  == messages[Key(call)]
    IN  /\ call.pc = "exists"
        /\ calls' = [calls EXCEPT ![c] =
             IF row.pk = 0 THEN [call EXCEPT !.pc = "insertMessage"]
             ELSE IF row.done
             THEN NextEntry(call)
             ELSE [call EXCEPT !.pc = "selectMessage", !.pk = row.pk]]
        /\ UNCHANGED <<tables, results, used, history>>

\* UNIQUE (tenant_id, id) refuses a second row, and the whole call raises.
InsertMessage(c) ==
    LET call == calls[c]
        k    == Key(call)
    IN  /\ call.pc = "insertMessage"
        /\ nextPk <= MaxPk
        /\ nextPk' = nextPk + 1
        /\ IF messages[k].pk # 0
           THEN Raise(c) /\ UNCHANGED messages
           ELSE /\ messages' = [messages EXCEPT ![k] =
                       PendingColumns([NoMessage EXCEPT !.pk = nextPk], call.account,
                                      Head(call.batch).form, call.pec)]
                /\ calls' = [calls EXCEPT ![c] = Stored([call EXCEPT !.pk = nextPk])]
        /\ UNCHANGED <<tenants, accounts, events, log, nextKey, results, used,
                       serial, dirty, gap, orphaned>>

SelectMessage(c) ==
    LET call == calls[c]
        row  == messages[Key(call)]
    IN  /\ call.pc \in {"selectMessage", "selectMark"}
        /\ calls' = [calls EXCEPT
                       ![c].pc = IF call.pc = "selectMark" THEN "mark" ELSE "store",
                       ![c].messageCopy = IF row.pk = call.pk THEN row ELSE NoMessage]
        /\ UNCHANGED <<tables, results, used, history>>

\* record(pk).__aexit__: the row as it was read, with the new content.
StoreMessage(c) ==
    LET call == calls[c]
        k    == Key(call)
        row  == call.messageCopy
    IN  /\ call.pc = "store"
        /\ messages' = UpdateMessage(k, PendingColumns(row, call.account,
                                                       Head(call.batch).form, call.pec))
        /\ calls' = [calls EXCEPT ![c] = Stored(call)]
        /\ UNCHANGED <<tenants, accounts, events, log, nextPk, nextKey, results, used,
                       serial, dirty, gap, orphaned>>

\* A refused message: add_event stores an error, whose trigger marks the row.
RefusedEvent(c) ==
    /\ calls[c].pc = "event"
    /\ events' = AddEvent(calls[c].pk, "error")
    /\ GoTo(c, "selectMark")
    /\ UNCHANGED <<tenants, accounts, messages, log, nextPk, nextKey, results, used, history>>

MarkRefused(c) ==
    LET call == calls[c]
    IN  /\ call.pc = "mark"
        /\ messages' = UpdateMessage(Key(call), [call.messageCopy EXCEPT !.done = TRUE])
        /\ calls' = [calls EXCEPT ![c] = NextEntry(call)]
        /\ UNCHANGED <<tenants, accounts, events, log, nextPk, nextKey, results, used, history>>

\* Mutant: queue.put without wait_for.
PublishAndWait(c) ==
    LET call == calls[c]
    IN  /\ call.pc = "publish"
        /\ results < QueueSize
        /\ results' = results + 1
        /\ calls' = [calls EXCEPT ![c] = Finish([call EXCEPT !.publish = @ - 1])]
        /\ UNCHANGED <<tables, used, history>>

\* _put_with_backpressure: a full queue for as long as the timeout loses the event.
Publish(c) ==
    LET call == calls[c]
    IN  /\ call.pc = "publish"
        /\ results' = IF results < QueueSize THEN results + 1 ELSE results
        /\ calls' = [calls EXCEPT ![c] = Finish([call EXCEPT !.publish = @ - 1])]
        /\ UNCHANGED <<tables, used, history>>

\* ok = False only if nothing was queued and something was refused.
Reply(c) ==
    /\ calls[c].pc = "answer"
    /\ Answer(c, calls[c].queued > 0 \/ ~calls[c].failed)
    /\ UNCHANGED <<tables, results, used, history>>

AddStep(c) ==
    \/ CheckItem(c) \/ Resolve(c) \/ LookupMessage(c) \/ InsertMessage(c)
    \/ SelectMessage(c) \/ StoreMessage(c) \/ RefusedEvent(c) \/ MarkRefused(c)
    \/ Publish(c) \/ Reply(c)

-----------------------------------------------------------------------------
(* Messages: deletion and retention.                                       *)

\* Which of the ids are the tenant's.  deleteMessages then calls
\* Table.delete with two arguments, which raises TypeError; it gets no
\* further than telling that an id is not the tenant's.
IdsForTenant(c) ==
    LET call == calls[c]
        own  == Head(call.items).id \in GetIdsForTenant({Head(call.items).id}, call.t)
    IN  /\ call.pc = "ids"
        /\ CASE call.op = "deleteMessages" -> IF own THEN Raise(c) ELSE Answer(c, TRUE)
             [] call.op = "deleteBatch"    -> GoTo(c, IF own THEN "get" ELSE "existing")
        /\ UNCHANGED <<tables, results, used, history>>

\* delete_batch: existing_ids decides between unauthorized and not found.
NotOwn(c) ==
    /\ At(c, "deleteBatch", "existing")
    /\ Answer(c, TRUE)
    /\ UNCHANGED <<tables, results, used, history>>

GetMessage(c) ==
    LET pk == messages[<<calls[c].t, Head(calls[c].items).id>>].pk
    IN  /\ At(c, "deleteBatch", "get")
        /\ IF pk = 0 THEN Answer(c, TRUE)
           ELSE calls' = [calls EXCEPT ![c].pc = "remove", ![c].pk = pk]
        /\ UNCHANGED <<tables, results, used, history>>

RemoveMessage(c) ==
    /\ calls[c].pc = "remove" /\ calls[c].op \in {"deleteBatch", "delete"}
    /\ messages' = RemoveByPk(calls[c].pk)
    /\ Answer(c, TRUE)
    /\ UNCHANGED <<tenants, accounts, events, log, nextPk, nextKey, results, used, history>>

Cleanup(c) ==
    /\ At(c, "cleanupMessages", "delete")
    /\ messages' = DeleteMessages(FullyReportedForTenant(calls[c].t))
    /\ Answer(c, TRUE)
    /\ UNCHANGED <<tenants, accounts, events, log, nextPk, nextKey, results, used, history>>

RemoveStep(c) ==
    IdsForTenant(c) \/ NotOwn(c) \/ GetMessage(c) \/ RemoveMessage(c) \/ Cleanup(c)

-----------------------------------------------------------------------------
(* The command log.                                                        *)

Entry(call) == [op |-> call.op, t |-> call.t, codes |-> call.codes, active |-> call.active]

\* handle_command logs a command when it has been executed; a failure to do
\* so is a warning.
LogCommand(c) ==
    LET call == calls[c]
    IN  /\ call.pc = "log"
        /\ \/ log' = Append(log, Entry(call)) /\ UNCHANGED <<used, gap>>
           \/ /\ used.faults < MaxFaults
              /\ used' = [used EXCEPT !.faults = @ + 1]
              /\ gap' = TRUE
              /\ UNCHANGED log
        /\ calls' = [calls EXCEPT ![c] = IdleCall]
        /\ UNCHANGED <<tenants, accounts, messages, events, nextPk, nextKey, results,
                       serial, dirty, orphaned>>

\* purge_before with a threshold after the last entry: the count, then the
\* DELETE, which also takes what was logged in between.
CountLog(c) ==
    /\ At(c, "purgeLog", "count")
    /\ IF log # <<>> THEN GoTo(c, "purge") ELSE Answer(c, TRUE)
    /\ UNCHANGED <<tables, results, used, history>>

PurgeLog(c) ==
    /\ At(c, "purgeLog", "purge")
    /\ log' = <<>>
    /\ gap' = TRUE
    /\ Answer(c, TRUE)
    /\ UNCHANGED <<tenants, accounts, messages, events, nextPk, nextKey, results, used,
                   serial, dirty, orphaned>>

\* export_commands, replayed on the tenants of the start: every entry in id
\* order, whatever its response was.
Replayed(ts, e) ==
    LET row == ts[e.t]
        new == CASE e.op = "suspend"      -> SuspendBatch(row, e.codes)
                 [] e.op = "activate"     -> ActivateBatch(row, e.codes)
                 [] e.op = "updateTenant" -> UpdateFields(row, e.active)
                 [] e.op = "addTenant"    -> IF row.there THEN AddExisting(row, e.active)
                                             ELSE AddNew(e.active)
                 [] e.op = "deleteTenant" -> NoTenant
                 [] OTHER                 -> row
    IN  IF row.there \/ e.op = "addTenant" THEN [ts EXCEPT ![e.t] = new] ELSE ts

InitTenants == [t \in Tenants |-> [NoTenant EXCEPT !.there = t \in Existing]]

Replay == FoldLeft(Replayed, InitTenants, log)

LogStep(c) == LogCommand(c) \/ CountLog(c) \/ PurgeLog(c)

-----------------------------------------------------------------------------
(* The rest of the proxy.                                                  *)

\* The dispatch loop settles a pending message: sent, or an error, as it must
\* be for one that cannot be built.  Its result waits no longer than the timeout.
Deliver(k) ==
    LET row == messages[k]
    IN  /\ row.pk # 0 /\ ~row.done
        /\ messages' = [messages EXCEPT ![k].done = TRUE]
        /\ \E type \in {"sent", "error"} :
              /\ row.form = "invalid" => type = "error"
              /\ events' = AddEvent(row.pk, type)
        /\ results' = IF results < QueueSize THEN results + 1 ELSE results
        /\ UNCHANGED <<tenants, accounts, log, nextPk, nextKey, calls, used, history>>

\* The reporter has told the client of every event of a message.
Report(pk) ==
    /\ events[pk].told = "no"
    /\ events' = [events EXCEPT ![pk].told = "yes"]
    /\ UNCHANGED <<tenants, accounts, messages, log, nextPk, nextKey, calls, results, used, history>>

\* results(): somebody may read the queue.
ReadResult ==
    /\ results > 0
    /\ results' = results - 1
    /\ UNCHANGED <<tables, calls, used, history>>

\* The process dies: calls and queue are gone, the tables are not.
Crash ==
    /\ used.faults < MaxFaults
    /\ used' = [used EXCEPT !.faults = @ + 1]
    /\ gap' = (gap \/ \E c \in Calls : Busy(c) /\ calls[c].op \in TenantOps)
    /\ calls' = [c \in Calls |-> IdleCall]
    /\ results' = 0
    /\ UNCHANGED <<tables, serial, dirty, orphaned>>

-----------------------------------------------------------------------------
Init ==
    /\ tenants = InitTenants
    /\ \E pk \in [AccountKeys -> 0..Cardinality(AccountKeys)] :
          /\ \A k \in AccountKeys : pk[k] = 0 <=> k[1] \notin Existing
          /\ \A j, k \in AccountKeys : pk[j] = pk[k] /\ pk[j] # 0 => j = k
          /\ accounts = [k \in AccountKeys |-> [NoAccount EXCEPT !.pk = pk[k]]]
    /\ messages = [k \in MessageKeys |-> NoMessage]
    /\ events = [pk \in 1..MaxPk |-> NoEvents]
    /\ log = <<>>
    /\ nextPk = Cardinality(AccountKeys) + 1
    /\ nextKey = 1
    /\ calls = [c \in Calls |-> IdleCall]
    /\ results = 0
    /\ used = [calls |-> 0, faults |-> 0]
    /\ serial = InitTenants
    /\ dirty = {} /\ orphaned = {}
    /\ gap = FALSE

CodeArgs == {{}} \cup {{b} : b \in Codes}

\* What COMMAND_MAP and register_endpoint both lead to: a command that
\* EndpointDispatcher turns into a method, or a REST call of that method.
Method(c, t, rest) ==
    \/ \E codes \in CodeArgs, op \in {"suspend", "activate"} :
          Begin(c, [NewCall(op, t, "select", rest) EXCEPT !.codes = codes])
    \/ \E v \in BOOLEAN :
          \/ Begin(c, [NewCall("updateTenant", t, "select", rest) EXCEPT !.active = v])
          \/ Begin(c, [NewCall("addTenant", t, "get", rest) EXCEPT !.active = v])
    \/ Begin(c, NewCall("deleteTenant", t, "messages", rest))
    \/ \E a \in AccountIds : Begin(c, [NewCall("addAccount", t, "select", rest) EXCEPT !.a = a])

\* The commands that _execute_command handles itself.
Command(c, t) ==
    \/ Begin(c, NewCall("cleanupMessages", t, "delete", FALSE))
    \/ \E a \in AccountIds :
          \/ Begin(c, [NewCall("deleteAccount", t, "get", FALSE) EXCEPT !.a = a])
          \/ \E s \in Submissions :
                Begin(c, [NewCall("addMessages", t, "check", FALSE) EXCEPT !.a = a, !.items = s])
    \/ \E i \in Ids :
          Begin(c, [NewCall("deleteMessages", t, "ids", FALSE) EXCEPT !.items = <<Valid(i)>>])

\* MessageEndpoint.add and delete, of one message.  delete takes a pk, whatever
\* tenant its row belongs to: t is the tenant that makes the call, and require_token
\* compares a tenant's token with no row.
AddRoute(c, t) ==
    \E a \in AccountIds, i \in Ids :
        Begin(c, [NewCall("add", t, "resolve", TRUE) EXCEPT !.a = a, !.batch = <<Valid(i)>>])
DeleteRoute(c, t) ==
    \E k \in {j \in MessageKeys : messages[j].pk # 0} :
        Begin(c, [NewCall("delete", t, "remove", TRUE) EXCEPT !.pk = messages[k].pk])

\* register_endpoint: methods that are no command, or that are another way to
\* what a command does.
Route(c, t) ==
    \/ Begin(c, NewCall("createKey", t, "get", TRUE))
    \/ Begin(c, NewCall("revokeKey", t, "key", TRUE))
    \/ Begin(c, NewCall("purgeLog", t, "count", TRUE))
    \/ Begin(c, NewCall("cleanupMessages", t, "delete", TRUE))
    \/ \E i \in Ids :
          Begin(c, [NewCall("deleteBatch", t, "ids", TRUE) EXCEPT !.items = <<Valid(i)>>])
    \/ \E a \in AccountIds :
          \/ Begin(c, [NewCall("addPecAccount", t, "select", TRUE) EXCEPT !.a = a])
          \/ Begin(c, [NewCall("deleteAccount", t, "remove", TRUE) EXCEPT !.a = a])
          \/ \E s \in {x \in Submissions : \A n \in DOMAIN x : x[n].form = "valid"} :
                Begin(c, [NewCall("addBatch", t, "resolve", TRUE) EXCEPT !.a = a, !.batch = s])

Request(c, t) ==
    \/ \E rest \in BOOLEAN : Method(c, t, rest)
    \/ Command(c, t)
    \/ Route(c, t) \/ AddRoute(c, t) \/ DeleteRoute(c, t)

CallStep(c) == TenantStep(c) \/ AccountStep(c) \/ AddStep(c) \/ RemoveStep(c) \/ LogStep(c)

Next ==
    \/ \E c \in Calls, t \in Tenants : Request(c, t)
    \/ \E c \in Calls : CallStep(c)
    \/ \E k \in MessageKeys : Deliver(k)
    \/ \E pk \in 1..MaxPk : Report(pk)
    \/ ReadResult
    \/ Crash

Spec == Init /\ [][Next]_vars

-----------------------------------------------------------------------------
(* Properties.                                                             *)

CallTypes ==
    /\ results \in 0..QueueSize
    /\ used \in [calls: 0..MaxCalls, faults: 0..MaxFaults]
    /\ dirty \subseteq Tenants /\ orphaned \subseteq Tenants
    /\ \A c \in {d \in Calls : Busy(d)} :
                        /\ calls[c].t \in Tenants
                        /\ calls[c].tenantCopy \in TenantRow
                        /\ calls[c].accountCopy \in AccountRow
                        /\ calls[c].messageCopy \in MessageRow

TypeOK == TablesOK /\ CallTypes

\* The row of a tenant is what its commands, in the order they wrote it, make
\* of it: a suspension, a key or a field set by one command is not undone by
\* another, unless a record() section of the two overlapped.
TenantRowIsSerial == \A t \in Tenants \ dirty : tenants[t] = serial[t]

\* Replaying the log on the tenants of the start gives the tenants of now,
\* once no command is in progress: proxy.py:424 "for audit trail and replay
\* capability".  What breaks it is in gap: tenant commands that overlapped, a
\* crash, an entry that was not stored, a purge, a REST call, never logged.
Visible(ts) == [t \in Tenants |-> [there |-> ts[t].there, active |-> ts[t].active,
                                  suspended |-> ts[t].suspended]]
LogReplays ==
    ~gap /\ (\A c \in Calls : ~Busy(c)) => Visible(Replay) = Visible(tenants)

\* A message shown as processed has an event, so that its client hears of it:
\* a refused message is never settled by the row alone, whatever another call,
\* the dispatch loop or a crash does between the statements.
DoneHasOutcome ==
    \A k \in MessageKeys :
        messages[k].pk # 0 /\ messages[k].done => events[messages[k].pk].told # "none"

\* The row that a REST delete names by its pk, of whatever tenant, goes away.
DeletedByPk(call, k) ==
    call.op = "delete" /\ messages[k].pk = call.pk /\ messages'[k] = NoMessage

\* No step of a call for one tenant touches rows of another one, but for the REST
\* delete of a message: it removes the row whose pk it was given, of any tenant,
\* and no other.  That keys of all tenants come from one counter, that calls act
\* on keys looked up some steps before, and that rows come and go in between,
\* leads no other call to a foreign row.
TenantIsolation ==
    [][\A c \in Calls : calls'[c] # calls[c] /\ Busy(c) =>
          \A u \in Tenants \ {calls[c].t} :
             /\ tenants'[u] = tenants[u]
             /\ \A a \in AccountIds : accounts'[<<u, a>>] = accounts[<<u, a>>]
             /\ \A i \in Ids : \/ messages'[<<u, i>>] = messages[<<u, i>>]
                               \/ DeletedByPk(calls[c], <<u, i>>)]_vars

\* A tenant that has been removed leaves no account and no message behind,
\* unless a call for it overlapped the removal or came later.
NoOrphans ==
    \A t \in Tenants \ orphaned :
        ~tenants[t].there => AccountsOf(t) = {} /\ MessagesOf(t) = {}

\* No call hangs: whatever other calls have done in between, and even when
\* nobody reads the result queue, a call in progress has a next step.  Calls
\* have finitely many steps, so that each is answered or raises.
NoCallStuck == \A c \in Calls : Busy(c) => ENABLED CallStep(c)
==============================================================================
