--------------------------- MODULE ClientReporter ---------------------------
(***************************************************************************)
(* The loop that pushes delivery reports to the tenants (ClientReporter),  *)
(* the message_events it reads and marks, and the retention that deletes   *)
(* messages whose events are all reported.                                 *)
(*                                                                         *)
(* Every await is a step boundary: a call to a tenant begins in one step   *)
(* and is answered in another, and events are recorded, messages deleted   *)
(* and run-now commands given in between.  What a cycle learned is written *)
(* to the database only at its end.                                        *)
(*                                                                         *)
(* messages.tenant_id is NOT NULL, so the branch of _process_cycle for     *)
(* events without a tenant is never taken and is left out.                 *)
(***************************************************************************)
EXTENDS Naturals, Sequences, FiniteSets

CONSTANTS
    Tenants,
    Nobody,      \* no tenant
    Msgs,        \* messages, each inserted once
    TenantOf,    \* [Msgs -> Tenants]: messages.tenant_id
    InitMode,    \* [Tenants -> Modes]: the tenants table at the start
    NewModes,    \* what an operator may turn a tenant into
    Askers,      \* tenants that may give the run-now command
    GlobalURL,   \* client_sync_url is configured
    StartActive, \* start_active: if not, the proxy is never active
    Stamps,      \* values of event_ts, the second an event is said to be of
    BatchSize,   \* smtp_batch_size, the LIMIT of fetch_unreported
    MaxEvents,   \* bound: rows of message_events
    MaxFaults    \* bound: lost answers, failed cycles and restarts

\* A tenant with a URL, one with a URL that is not active, one without a URL,
\* and one whose row has been deleted.
Modes == {"url", "inactive", "none", "missing"}

ASSUME ReporterAssumption ==
    /\ IsFiniteSet(Tenants)
    /\ IsFiniteSet(Msgs)
    /\ Nobody \notin Tenants
    /\ TenantOf \in [Msgs -> Tenants]
    /\ InitMode \in [Tenants -> Modes]
    /\ NewModes \subseteq Modes
    /\ Askers \subseteq Tenants
    /\ GlobalURL \in BOOLEAN
    /\ StartActive \in BOOLEAN
    /\ Stamps \subseteq Nat /\ Stamps # {}
    /\ BatchSize \in Nat \ {0}
    /\ MaxEvents \in Nat
    /\ MaxFaults \in Nat

VARIABLES
    events,    \* message_events in id order
    state,     \* messages: waiting (smtp_ts NULL), processed, or gone
    mode,      \* the tenants table
    due,       \* tenants whose _last_sync is an interval or more ago
    runNow,    \* _run_now_tenant_id
    wake,      \* _wake_event
    pc,        \* where _process_cycle is
    target,    \* target_tenant_id
    batch,     \* ids of the events fetched
    todo,      \* tenants the current loop has still to look at
    post,      \* the tenant whose answer is awaited
    acked,     \* acked_event_ids
    queued,    \* total_queued > 0
    faults,
    received,  \* history: ids a tenant has received
    again,     \* history: ids a tenant has received more than once
    excused,   \* history: ids received in a call or a cycle that failed
    owed       \* history: tenants that asked for a call, none being in progress,
               \* were not replaced by another request, and have not had it

cycle == <<target, batch, todo, post, acked, queued>>
tables == <<events, state, mode>>
history == <<received, again, excused>>
vars == <<events, state, mode, due, runNow, wake, pc, target, batch, todo,
          post, acked, queued, faults, received, again, excused, owed>>

\* reported_ts: NULL, or not older, or older, than the retention period.
Event == [msg: Msgs, final: BOOLEAN, ts: Stamps, reported: {"no", "recent", "old"}]

Ids == 1..MaxEvents

TenantOfEvent(i) == TenantOf[events[i].msg]

-----------------------------------------------------------------------------
(* What others write to the tables.                                        *)

InsertEvent(m, final, ts) ==
    /\ Len(events) < MaxEvents
    /\ events' = Append(events, [msg |-> m, final |-> final, ts |-> ts, reported |-> "no"])

HasFinal(m) == \E i \in DOMAIN events : events[i].msg = m /\ events[i].final

\* add_event, for an attempt to send (final if it was sent or given up), a
\* bounce or a PEC receipt.  It does not ask whether the message is still
\* there, or what has been recorded of it before: a task may be told of a
\* deletion too late, and a failure may have a message sent again.  The clock
\* is read some awaits before the INSERT, so the stamps of two tasks may be in
\* another order than their events.
RecordEvent(m) ==
    /\ \E final \in BOOLEAN, ts \in Stamps : InsertEvent(m, final, ts)
    /\ UNCHANGED <<state, mode, due, runNow, wake, pc, cycle, faults, history, owed>>

\* trigger_on_inserted marks the message, in a statement of its own.
MarkProcessed(m) ==
    /\ state[m] = "waiting" /\ HasFinal(m)
    /\ state' = [state EXCEPT ![m] = "processed"]
    /\ UNCHANGED <<events, mode, due, runNow, wake, pc, cycle, faults, history, owed>>

\* A re-submission writes the whole row as it was before the mark.
Reopen(m) ==
    /\ state[m] = "processed"
    /\ state' = [state EXCEPT ![m] = "waiting"]
    /\ UNCHANGED <<events, mode, due, runNow, wake, pc, cycle, faults, history, owed>>

\* remove_by_pk; the events stay.
DeleteMessage(m) ==
    /\ state[m] # "gone"
    /\ state' = [state EXCEPT ![m] = "gone"]
    /\ UNCHANGED <<events, mode, due, runNow, wake, pc, cycle, faults, history, owed>>

\* An operator adds, changes or deletes a tenant.
SetMode(t, new) ==
    /\ mode' = [mode EXCEPT ![t] = new]
    /\ owed' = IF new = "url" THEN owed ELSE owed \ {t}
    /\ UNCHANGED <<events, state, due, runNow, wake, pc, cycle, faults, history>>

-----------------------------------------------------------------------------
(* wake() and the passage of time.                                         *)

\* A request for t replaces the one in runNow; a request during a call to t is
\* overwritten by its answer.
Owe(t) ==
    owed' = (owed \ {runNow}) \cup (IF mode[t] = "url" /\ post # t THEN {t} ELSE {})

\* Mutant: the interval of the tenant is not reset.
RunNowKeepingSync(t) ==
    /\ runNow' = t
    /\ wake' = TRUE
    /\ Owe(t)
    /\ UNCHANGED <<tables, due, pc, cycle, faults, history>>

\* wake(tenant_id)
RunNow(t) ==
    /\ due' = due \cup {t}
    /\ runNow' = t
    /\ wake' = TRUE
    /\ Owe(t)
    /\ UNCHANGED <<tables, pc, cycle, faults, history>>

\* wake(), by an operator
WakeAll ==
    /\ wake' = TRUE
    /\ UNCHANGED <<tables, due, runNow, pc, cycle, faults, history, owed>>

\* The sync interval of a tenant, or its do-not-disturb time, is over.
IntervalElapses(t) ==
    /\ due' = due \cup {t}
    /\ UNCHANGED <<tables, runNow, wake, pc, cycle, faults, history, owed>>

\* The report of event i is now older than the retention period.
ReportAges(i) ==
    /\ i \in DOMAIN events
    /\ events[i].reported = "recent"
    /\ events' = [events EXCEPT ![i].reported = "old"]
    /\ UNCHANGED <<state, mode, due, runNow, wake, pc, cycle, faults, history, owed>>

-----------------------------------------------------------------------------
(* _process_cycle                                                          *)

\* The run-now request is consumed before the first await.
BeginCycle ==
    /\ pc' = "fetch"
    /\ target' = runNow
    /\ runNow' = Nobody
    /\ queued' = FALSE

\* _wait_for_wakeup returns: the event is set, or 300 s have passed.  The cycle
\* of a proxy that is not active is over before it begins.
WaitForWakeup ==
    /\ pc = "wait"
    /\ IF StartActive THEN BeginCycle ELSE UNCHANGED <<pc, target, runNow, queued>>
    /\ wake' = FALSE
    /\ UNCHANGED <<tables, due, batch, todo, post, acked, faults, history, owed>>

\* Events not reported whose message still exists (the JOIN drops the others).
Unreported == {i \in DOMAIN events : /\ events[i].reported = "no"
                                     /\ state[events[i].msg] # "gone"}

\* ORDER BY event_ts, id.
Before(j, i) == \/ events[j].ts < events[i].ts
                \/ events[j].ts = events[i].ts /\ j < i

\* Mutant: ORDER BY ... DESC.
Newest(ids) == {i \in ids : Cardinality({j \in ids : Before(i, j)}) < BatchSize}

Oldest(ids) == {i \in ids : Cardinality({j \in ids : Before(j, i)}) < BatchSize}

FetchUnreported ==
    /\ pc = "fetch"
    /\ batch' = Oldest(Unreported)
    /\ todo' = {TenantOfEvent(i) : i \in batch'}
    /\ acked' = {}
    /\ pc' = "call"
    /\ UNCHANGED <<tables, due, runNow, wake, target, post, queued, faults, history, owed>>

Reachable(t) == mode[t] \in {"url", "inactive"} \/ (mode[t] = "none" /\ GlobalURL)

\* Mutant: the interval is respected even with events to report.
CallTenantIfDue(t) ==
    /\ pc = "call" /\ post = Nobody /\ t \in todo
    /\ IF Reachable(t) /\ t \in due
       THEN post' = t /\ owed' = owed \ {t} /\ UNCHANGED todo
       ELSE todo' = todo \ {t} /\ UNCHANGED <<post, owed>>
    /\ UNCHANGED <<tables, due, runNow, wake, pc, target, batch, acked, queued, faults, history>>

\* The first loop: tenants with events are called whatever their interval, and
\* even if they are not active.
CallTenant(t) ==
    /\ pc = "call" /\ post = Nobody /\ t \in todo
    /\ IF Reachable(t)
       THEN post' = t /\ owed' = owed \ {t} /\ UNCHANGED todo
       ELSE todo' = todo \ {t} /\ UNCHANGED <<post, owed>>
    /\ UNCHANGED <<tables, due, runNow, wake, pc, target, batch, acked, queued, faults, history>>

\* The second loop is for active tenants with a URL that had no events, or for
\* the one that asked to be called now.
ListTenants ==
    /\ pc = "call" /\ post = Nobody /\ todo = {}
    /\ todo' = {t \in Tenants : /\ mode[t] = "url"
                                /\ t \notin {TenantOfEvent(i) : i \in batch}
                                /\ target \in {Nobody, t}}
    /\ pc' = "beat"
    /\ UNCHANGED <<tables, due, runNow, wake, target, batch, post, acked, queued,
                   faults, history, owed>>

CallIdleTenant(t) ==
    /\ pc = "beat" /\ post = Nobody /\ t \in todo
    /\ IF t \in due
       THEN post' = t /\ owed' = owed \ {t} /\ UNCHANGED todo
       ELSE todo' = todo \ {t} /\ UNCHANGED <<post, owed>>
    /\ UNCHANGED <<tables, due, runNow, wake, pc, target, batch, acked, queued, faults, history>>

\* The ids in the payload of the call in progress.
Payload == IF pc = "call" /\ post # Nobody
           THEN {i \in batch : TenantOfEvent(i) = post}
           ELSE {}

Receive(ids) ==
    /\ received' = received \cup ids
    /\ again' = again \cup (received \cap ids)

\* A 2xx answer: all ids of the payload are acknowledged, whatever the answer
\* lists under error and not_found; _last_sync is overwritten with now or with
\* next_sync_after.
Accepted(t) ==
    /\ post = t /\ t # Nobody
    /\ Receive(Payload)
    /\ acked' = acked \cup Payload
    /\ due' = due \ {t}
    /\ \E more \in BOOLEAN : queued' = (queued \/ more)
    /\ todo' = todo \ {t}
    /\ post' = Nobody
    /\ UNCHANGED <<tables, runNow, wake, pc, target, batch, faults, excused, owed>>

\* Mutant: the ids are acknowledged before the answer is looked at.
RefusedAfterAck(t) ==
    /\ post = t /\ t # Nobody
    /\ acked' = acked \cup Payload
    /\ todo' = todo \ {t}
    /\ post' = Nobody
    /\ UNCHANGED <<tables, due, runNow, wake, pc, target, batch, queued, faults, history, owed>>

\* ClientError or TimeoutError: this tenant is skipped, the cycle goes on.
Refused(t) ==
    /\ post = t /\ t # Nobody
    /\ \/ UNCHANGED <<faults, history>>
       \/ /\ faults < MaxFaults
          /\ faults' = faults + 1
          /\ Receive(Payload)
          /\ excused' = excused \cup Payload
    /\ todo' = todo \ {t}
    /\ post' = Nobody
    /\ UNCHANGED <<tables, due, runNow, wake, pc, target, batch, acked, queued, owed>>

\* Mutant: the loop goes on to the next cycle before the events are marked.
MarkReportedUnlessQueued ==
    /\ pc = "beat" /\ post = Nobody /\ todo = {}
    /\ events' = [i \in DOMAIN events |->
                    IF i \in acked /\ ~queued THEN [events[i] EXCEPT !.reported = "recent"]
                    ELSE events[i]]
    /\ pc' = "retain"
    /\ UNCHANGED <<state, mode, due, runNow, wake, cycle, faults, history, owed>>

\* One UPDATE for all acknowledged events of all tenants.
MarkReported ==
    /\ pc = "beat" /\ post = Nobody /\ todo = {}
    /\ events' = [i \in DOMAIN events |->
                    IF i \in acked THEN [events[i] EXCEPT !.reported = "recent"]
                    ELSE events[i]]
    /\ pc' = "retain"
    /\ UNCHANGED <<state, mode, due, runNow, wake, cycle, faults, history, owed>>

EventsOf(m) == {i \in DOMAIN events : events[i].msg = m}

\* Mutant: one old report is enough.
RemovableIfAnyOld(m) ==
    /\ state[m] = "processed"
    /\ \E i \in EventsOf(m) : events[i].reported = "old"

\* remove_fully_reported_before(threshold): MAX over no events is NULL.
Removable(m) ==
    /\ state[m] = "processed"
    /\ EventsOf(m) # {}
    /\ \A i \in EventsOf(m) : events[i].reported = "old"

\* The end of the cycle; if a client has more to send the next one follows at
\* once, without a look at the wake event.
ApplyRetention ==
    /\ pc = "retain"
    /\ state' = [m \in Msgs |-> IF Removable(m) THEN "gone" ELSE state[m]]
    /\ acked' = {} /\ batch' = {}
    /\ IF queued THEN BeginCycle
       ELSE pc' = "wait" /\ target' = Nobody /\ UNCHANGED <<runNow, queued>>
    /\ UNCHANGED <<events, mode, due, wake, todo, post, faults, history, owed>>

\* Mutant: the acknowledgements of the failed cycle are kept.
AbandonKeepingAcks ==
    /\ faults < MaxFaults
    /\ faults' = faults + 1
    /\ \/ Receive(Payload) /\ excused' = excused \cup Payload \cup acked
       \/ UNCHANGED <<received, again>> /\ excused' = excused \cup acked
    /\ pc' = "wait"
    /\ target' = Nobody /\ todo' = {} /\ post' = Nobody
    /\ batch' = {} /\ queued' = FALSE /\ UNCHANGED acked

\* The cycle is over early: what it learned and did not write is lost, and a
\* tenant may have received the payload of the call in progress.
Abandon ==
    /\ faults < MaxFaults
    /\ faults' = faults + 1
    /\ \/ Receive(Payload) /\ excused' = excused \cup Payload \cup acked
       \/ UNCHANGED <<received, again>> /\ excused' = excused \cup acked
    /\ pc' = "wait"
    /\ target' = Nobody /\ todo' = {} /\ post' = Nobody
    /\ acked' = {} /\ batch' = {} /\ queued' = FALSE

\* An exception the cycle does not catch: a statement fails, an answer is not
\* of the expected shape.
CycleFails ==
    /\ pc # "wait"
    /\ Abandon
    /\ owed' = {}
    /\ UNCHANGED <<tables, due, runNow, wake>>

\* The process is restarted: _last_sync and the requests are forgotten.
Restart ==
    /\ Abandon
    /\ due' = Tenants
    /\ runNow' = Nobody /\ wake' = FALSE
    /\ owed' = {}
    /\ UNCHANGED tables

-----------------------------------------------------------------------------
Init ==
    /\ events = <<>>
    /\ state = [m \in Msgs |-> "waiting"]
    /\ mode = InitMode
    /\ due = Tenants
    /\ runNow = Nobody /\ wake = FALSE
    /\ pc = "wait"
    /\ target = Nobody /\ batch = {} /\ todo = {} /\ post = Nobody
    /\ acked = {} /\ queued = FALSE
    /\ faults = 0
    /\ received = {} /\ again = {} /\ excused = {}
    /\ owed = {}

\* The reporter's own steps; how a call ends is up to the tenant.
LoopStep ==
    \/ WaitForWakeup \/ FetchUnreported \/ ListTenants
    \/ MarkReported \/ ApplyRetention
    \/ \E t \in Tenants : CallTenant(t) \/ CallIdleTenant(t)

Answered(t) == Accepted(t) \/ Refused(t)

\* The loop, the calls, what goes wrong, the commands and the clock ...
ReporterStep ==
    \/ LoopStep
    \/ \E t \in Tenants : Answered(t)
    \/ CycleFails \/ Restart
    \/ \E t \in Askers : RunNow(t)
    \/ \E t \in Tenants : IntervalElapses(t)
    \/ \E t \in Tenants, new \in NewModes : SetMode(t, new)
    \/ WakeAll
    \/ \E i \in Ids : ReportAges(i)

\* ... and what others write to the messages and their events.
TableStep ==
    \E m \in Msgs : RecordEvent(m) \/ MarkProcessed(m) \/ Reopen(m) \/ DeleteMessage(m)

Next == ReporterStep \/ TableStep

Spec == Init /\ [][Next]_vars

\* The loop keeps running (its wait ends after 300 s at the latest), a call
\* ends by its HTTP timeout, and a tenant that is called again and again
\* accepts in the end.
FairSpec ==
    /\ Spec
    /\ WF_vars(LoopStep)
    /\ \A t \in Tenants : WF_vars(Answered(t)) /\ SF_vars(Accepted(t))

-----------------------------------------------------------------------------
(* The refinement.                                                         *)

Reported == {i \in DOMAIN events : events[i].reported # "no"}

R == INSTANCE Reports WITH
        told <- [i \in DOMAIN events |-> <<events[i].msg, events[i].final, events[i].ts>>],
        heard <- received,
        marked <- Reported,
        forgotten <- excused,
        failures <- faults

-----------------------------------------------------------------------------
(* Properties.                                                             *)

TypeOK ==
    /\ events \in Seq(Event)
    /\ Len(events) <= MaxEvents
    /\ state \in [Msgs -> {"waiting", "processed", "gone"}]
    /\ mode \in [Tenants -> Modes]
    /\ due \subseteq Tenants
    /\ {runNow, target, post} \subseteq Tenants \cup {Nobody}
    /\ wake \in BOOLEAN /\ queued \in BOOLEAN
    /\ pc \in {"wait", "fetch", "call", "beat", "retain"}
    /\ todo \subseteq Tenants /\ owed \subseteq Tenants
    /\ batch \subseteq DOMAIN events
    /\ acked \subseteq batch
    /\ faults \in 0..MaxFaults
    /\ again \subseteq received /\ received \cup excused \subseteq DOMAIN events

\* An event counts as reported only once its tenant has accepted it, although
\* the acknowledgements of several tenants, some of which fail, are collected
\* over several calls and written in one statement at the end.
ReportedWasReceived ==
    \A i \in DOMAIN events : events[i].reported # "no" => i \in received

\* A tenant receives an event a second time only if a call or a cycle failed:
\* in a run without failures every event is reported exactly once.
ReceivedTwiceOnlyIfExcused == again \subseteq excused

\* Of two events of one message, one recorded after the other, the tenant does
\* not hear the second without the first, whatever is fetched, fails and is
\* fetched again, unless the second claims to be the older one: the order is
\* that of the stamps, and a task may insert an event with a stamp it took
\* before another task took its own.
ReceivedInOrder ==
    \A i \in received : \A j \in 1..(i - 1) :
        events[j].msg = events[i].msg /\ events[j].ts <= events[i].ts => j \in received

\* Retention never deletes a message the tenant has not heard everything of.
RetentionLosesNothing ==
    [][pc = "retain" /\ pc' # pc =>
          \A m \in Msgs : state[m] # "gone" /\ state'[m] = "gone"
             => EventsOf(m) \subseteq received]_vars

\* However calls, answers, failures and the statements of others interleave,
\* each step of the reporter is a step of Reports or changes nothing a tenant
\* has heard or the tables show.
ImplementsReports == R!Spec

\* If the proxy is active, and every tenant is active with an endpoint from some
\* time on, every event of a message that is not deleted is reported in the end.
EveryEventReported ==
    (StartActive /\ \A t \in Tenants : <>[](mode[t] = "url"))
        => \A i \in Ids : i \in Unreported ~> i \notin Unreported

\* A tenant that asked to be called now is called before the loop goes to
\* sleep again, unless it was being called when it asked, another tenant asked
\* before a cycle took its request, or the cycle failed: a command that comes at
\* any point of a cycle is neither lost nor starved.
RunNowIsHonoured == StartActive /\ pc = "wait" /\ ~wake => owed = {}
=============================================================================
