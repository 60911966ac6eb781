--------------------------- MODULE MailQueueProofs ---------------------------
(***************************************************************************)
(* Proofs about MailQueue, for any number of messages, clients, accounts,  *)
(* retries and failures.                                                   *)
(*                                                                         *)
(* First its invariants, then that it implements Outbox: every statement   *)
(* of every task, call and operator is a step of Outbox or changes nothing *)
(* a client sees.                                                          *)
(***************************************************************************)
EXTENDS MailQueue, FiniteSetTheorems, SequenceTheorems, TLAPS

-----------------------------------------------------------------------------
(* The inductive invariant.                                                *)

\* The sent or error event that justifies calling message pk processed.
HasOutcome(pk) ==
    \E i \in DOMAIN events : events[i].pk = pk /\ events[i].type \in {"sent", "error"}

\* What holds of the task t of message m.  The copy of the row it carries is
\* of the message it is sending, or empty; a copy that is processed has an
\* outcome; the verdict is in the events once the task is past add_event; and
\* if mark_sent found no row, then that message will not be there again.
TaskFine(m, t) ==
    /\ t.pc = "off" => t = IdleTask
    /\ t.pc # "off" => t.entry.pk \in Pks
    /\ t.entry.pk < nextPk
    /\ t.copy.pk \in {0, t.entry.pk}
    /\ t.pc \in {"payload", "store"} => t.verdict = "deferred"
    /\ t.pc \in {"event", "mark", "settle"} => t.verdict # "none"
    /\ t.verdict = "sent" => t.pc \in {"event", "mark", "settle"}
    /\ t.verdict = "sent" => delivered[t.entry.pk] > 0
    /\ t.pc = "settle" /\ t.copy.pk = 0 => rows[m].pk # t.entry.pk
    /\ t.copy.processed => HasOutcome(t.copy.pk)
    /\ t.pc \in {"mark", "settle"} /\ t.verdict \in {"sent", "error"}
         => HasOutcome(t.entry.pk)

RowFine(row) == row.pk < nextPk /\ (row.processed => HasOutcome(row.pk))

CallFine(call) ==
    /\ ~call.new.processed
    /\ call.copy.processed => HasOutcome(call.copy.pk)

\* A primary key is of one message only, and not used before it is given out.
KeysApart ==
    /\ \A m, x \in Msgs : m # x =>
          /\ rows[m].pk # 0 => rows[m].pk # rows[x].pk
          /\ task[m].entry.pk # 0 => task[m].entry.pk \notin {rows[x].pk, task[x].entry.pk}
    /\ \A pk \in Pks : pk >= nextPk => delivered[pk] = 0

\* A message the server took, whose delivery cannot have been forgotten, was
\* taken once; its row is processed or its task is about to see to that; and no
\* task is about to send it.
DeliveredOnce(pk) ==
    /\ delivered[pk] = 1
    /\ \A m \in Msgs : /\ rows[m].pk = pk => rows[m].processed \/ task[m].entry.pk = pk
                       /\ task[m].entry.pk = pk => task[m].verdict = "sent"

Once == \A pk \in Pks : pk \notin excused /\ delivered[pk] # 0 => DeliveredOnce(pk)

IInv ==
    /\ TypeOK
    /\ \A m \in Msgs : TaskFine(m, task[m])
    /\ \A m \in Msgs : RowFine(rows[m])
    /\ \A c \in Clients : CallFine(api[c])
    /\ SentMeansDelivered
    /\ KeysApart
    /\ Once

-----------------------------------------------------------------------------
(* Types of the rows and tasks the actions build.                          *)

\* The fixed rows, tasks and calls have their types.
LEMMA ConstantTypes ==
  /\ NoRow \in Row
  /\ EntryOf(NoRow) \in Entry
  /\ IdleTask \in Task
  /\ IdleCall \in Call
  <1> USE ConstantsAssumption
  <1>1. NoRow \in Row
    BY DEF NoRow, Row, Deferrals, PayloadKinds
  <1>2. EntryOf(NoRow) \in Entry
    BY DEF NoRow, EntryOf, Entry, PayloadKinds
  <1>3. IdleTask \in Task
    BY <1>1, <1>2 DEF IdleTask, Task, TaskPcs, Verdicts, Reasons
  <1>4. (CHOOSE m \in Msgs : TRUE) \in Msgs
    OBVIOUS
  <1>5. IdleCall \in Call
    BY <1>1, <1>4 DEF IdleCall, Call
  <1> QED
    BY <1>1, <1>2, <1>3, <1>5

\* record(pk): what is read is the message asked for or nothing.
LEMMA SelectRowFacts ==
  ASSUME TypeOK, NEW m \in Msgs, NEW pk \in 0..MaxPk
  PROVE  /\ SelectRow(m, pk) \in Row
         /\ SelectRow(m, pk).pk \in {0, pk}
         /\ SelectRow(m, pk).pk # 0 => SelectRow(m, pk) = rows[m]
         /\ pk # 0 /\ SelectRow(m, pk).pk = 0 => rows[m].pk # pk
         /\ SelectRow(m, pk).processed => SelectRow(m, pk) = rows[m]
  BY ConstantTypes DEF SelectRow, TypeOK, NoRow

\* What is written goes to the row it was read from, or nowhere.
LEMMA UpdateRowFacts ==
  ASSUME TypeOK, NEW m \in Msgs, NEW r \in Row
  PROVE  /\ UpdateRow(m, r) \in [Msgs -> Row]
         /\ \A x \in Msgs : UpdateRow(m, r)[x].pk = rows[x].pk
         /\ \A x \in Msgs : x # m => UpdateRow(m, r)[x] = rows[x]
         /\ \/ UpdateRow(m, r)[m] = rows[m] /\ (r.pk = 0 \/ r.pk # rows[m].pk)
            \/ UpdateRow(m, r)[m] = r /\ r.pk # 0 /\ r.pk = rows[m].pk
  BY DEF UpdateRow, TypeOK

\* Every event is one.
LEMMA EventTypes ==
  ASSUME TypeOK, NEW i \in DOMAIN events
  PROVE  i \in 1..Len(events) /\ events[i] \in Event /\ events[i].pk \in Pks
  <1>1. events \in Seq(Event)
    BY DEF TypeOK
  <1>2. i \in 1..Len(events)
    BY <1>1, LenProperties
  <1>3. events[i] \in Event
    BY <1>1, <1>2, ElementOfSeq
  <1> QED
    BY <1>2, <1>3 DEF Event

-----------------------------------------------------------------------------
\* Nothing has happened yet.
LEMMA InitIInv == Init => IInv
  <1> SUFFICES ASSUME Init PROVE IInv
    OBVIOUS
  <1> USE ConstantsAssumption DEF Init
  <1>1. TypeOK
    BY ConstantTypes DEF TypeOK, Pks
  <1>2. ASSUME NEW m \in Msgs PROVE TaskFine(m, task[m]) /\ RowFine(rows[m])
    BY DEF TaskFine, RowFine, IdleTask, EntryOf, NoRow
  <1>3. ASSUME NEW c \in Clients PROVE CallFine(api[c])
    BY DEF CallFine, IdleCall, NoRow
  <1>4. SentMeansDelivered
    BY DEF SentMeansDelivered
  <1>5. KeysApart
    BY DEF KeysApart, IdleTask, EntryOf, NoRow
  <1>6. Once
    BY DEF Once
  <1> QED
    BY <1>1, <1>2, <1>3, <1>4, <1>5, <1>6 DEF IInv

-----------------------------------------------------------------------------
(* What is fine stays fine while events are added, deliveries counted, keys *)
(* given out, and rows keep their key, go or come with a fresh one.         *)

Growing ==
    /\ \A m \in Msgs : rows'[m].pk \in {rows[m].pk, 0, nextPk}
    /\ \A pk \in 0..MaxPk : HasOutcome(pk) => HasOutcome(pk)'
    /\ \A pk \in Pks : delivered'[pk] >= delivered[pk]
    /\ nextPk' >= nextPk

\* A task that is not touched stays fine.
LEMMA TaskStaysFine ==
  ASSUME TypeOK, TypeOK', Growing, NEW m \in Msgs, NEW t \in Task, TaskFine(m, t)
  PROVE  TaskFine(m, t)'
  <1>1. t.entry.pk \in 0..MaxPk /\ t.copy.pk \in 0..MaxPk
    BY DEF Task, Entry, Row
  <1>2. /\ MaxPk \in Nat
        /\ nextPk \in Nat /\ nextPk' \in Nat /\ nextPk' >= nextPk
        /\ rows'[m].pk \in {rows[m].pk, 0, nextPk}
        /\ \A pk \in Pks : /\ delivered[pk] \in Nat /\ delivered'[pk] \in Nat
                           /\ delivered'[pk] >= delivered[pk]
        /\ \A pk \in 0..MaxPk : HasOutcome(pk) => HasOutcome(pk)'
    BY ConstantsAssumption DEF Growing, TypeOK
  <1>3. t.entry.pk < nextPk'
    <2>1. t.entry.pk < nextPk
      BY DEF TaskFine
    <2> QED
      BY <2>1, <1>1, <1>2
  <1>4. t.verdict = "sent" => delivered'[t.entry.pk] > 0
    <2>1. t.verdict = "sent" => t.entry.pk \in Pks /\ delivered[t.entry.pk] > 0
      BY DEF TaskFine
    <2> QED
      BY <2>1, <1>2
  <1>5. t.pc = "settle" /\ t.copy.pk = 0 => rows'[m].pk # t.entry.pk
    <2>1. t.pc = "settle" /\ t.copy.pk = 0
            => t.entry.pk \in Pks /\ rows[m].pk # t.entry.pk /\ t.entry.pk < nextPk
      BY DEF TaskFine
    <2> QED
      BY <2>1, <1>1, <1>2 DEF Pks
  <1>6. /\ t.copy.processed => HasOutcome(t.copy.pk)'
        /\ t.pc \in {"mark", "settle"} /\ t.verdict \in {"sent", "error"}
             => HasOutcome(t.entry.pk)'
    BY <1>1, <1>2 DEF TaskFine
  <1> QED
    BY <1>3, <1>4, <1>5, <1>6 DEF TaskFine

\* A row or a call that is not touched stays fine.
LEMMA RowStaysFine ==
  ASSUME TypeOK, TypeOK', Growing, NEW row \in Row, RowFine(row)
  PROVE  RowFine(row)'
  BY DEF Growing, RowFine, Row, TypeOK

LEMMA CallStaysFine ==
  ASSUME Growing, NEW call \in Call, CallFine(call)
  PROVE  CallFine(call)'
  BY DEF Growing, CallFine, Call, Row

-----------------------------------------------------------------------------
(* Steps of a task that write nothing to the tables.                       *)

UsedOK == used \in [submits: 0..MaxSubmits, defers: 0..MaxDefers, faults: 0..MaxFaults]

\* Only the task of m changes; it keeps its message and does not forget that
\* the message was sent.
LEMMA TaskMoves ==
  ASSUME IInv, UsedOK', NEW m \in Msgs, NEW t \in Task,
         task' = [task EXCEPT ![m] = t],
         TaskFine(m, t),
         t.entry = task[m].entry,
         task[m].verdict = "sent" => t.verdict = "sent",
         UNCHANGED <<rows, events, suspended, phase, api, nextPk, delivered, excused>>
  PROVE  IInv'
  <1> USE DEF IInv
  <1>0. TypeOK'
    BY DEF TypeOK, UsedOK
  <1>1. Growing
    BY DEF Growing, TypeOK, HasOutcome
  <1>2. ASSUME NEW x \in Msgs PROVE TaskFine(x, task[x])'
    <2>1. CASE x = m
      BY <2>1, <1>0, <1>1, TaskStaysFine DEF TypeOK
    <2>2. CASE x # m
      <3>1. task'[x] = task[x] /\ task[x] \in Task
        BY <2>2 DEF TypeOK
      <3> QED
        BY <3>1, <1>0, <1>1, TaskStaysFine
    <2> QED
      BY <2>1, <2>2
  <1>3. ASSUME NEW x \in Msgs PROVE RowFine(rows[x])'
    BY <1>0, <1>1, RowStaysFine DEF TypeOK
  <1>4. ASSUME NEW c \in Clients PROVE CallFine(api[c])'
    BY <1>1, CallStaysFine DEF TypeOK
  <1>5. SentMeansDelivered'
    BY DEF SentMeansDelivered
  <1>6. \A x \in Msgs : task'[x].entry = task[x].entry
    BY DEF TypeOK
  <1>7. KeysApart'
    BY <1>6 DEF KeysApart
  <1>8. Once'
    BY <1>6 DEF Once, DeliveredOnce, TypeOK
  <1> QED
    BY <1>0, <1>2, <1>3, <1>4, <1>5, <1>7, <1>8

\* record(pk) is entered: the task goes on with a copy of its row.
LEMMA TaskReads ==
  ASSUME IInv, NEW m \in Msgs, NEW pc,
         \/ task[m].pc = "queued" /\ pc = "clear"
         \/ task[m].pc = "payload" /\ pc = "store"
         \/ task[m].pc = "mark" /\ pc = "settle",
         task' = [task EXCEPT ![m].pc = pc, ![m].copy = SelectRow(m, task[m].entry.pk)],
         UNCHANGED <<rows, events, suspended, phase, api, nextPk, used,
                     delivered, excused>>
  PROVE  IInv'
  <1> DEFINE copy == SelectRow(m, task[m].entry.pk)
             t == [task[m] EXCEPT !.pc = pc, !.copy = copy]
  <1>1. TypeOK /\ TaskFine(m, task[m]) /\ RowFine(rows[m]) /\ task[m] \in Task
    BY DEF IInv, TypeOK
  <1>2. task[m].entry.pk \in Pks /\ task[m].entry.pk \in 0..MaxPk
    BY <1>1 DEF TaskFine, Task, Entry
  <1>3. /\ copy \in Row
        /\ copy.pk \in {0, task[m].entry.pk}
        /\ copy.pk = 0 => rows[m].pk # task[m].entry.pk
        /\ copy.processed => HasOutcome(copy.pk)
    <2>1. task[m].entry.pk # 0
      BY <1>2 DEF Pks
    <2> QED
      BY <1>1, <1>2, <2>1, SelectRowFacts DEF RowFine
  <1>4. t \in Task /\ t.entry = task[m].entry /\ t.verdict = task[m].verdict
    BY <1>1, <1>3 DEF Task, TaskPcs
  <1>5. task' = [task EXCEPT ![m] = t]
    BY DEF TypeOK, IInv
  <1>6. TaskFine(m, t)
    <2>1. t.pc = pc /\ t.copy = copy
      BY <1>1 DEF Task
    <2> QED
      BY <1>1, <1>2, <1>3, <1>4, <2>1 DEF TaskFine
  <1>7. UsedOK'
    BY <1>1 DEF TypeOK, UsedOK
  <1> HIDE DEF t, copy
  <1> QED
    BY <1>4, <1>5, <1>6, <1>7, TaskMoves

\* The task goes on without a copy, or fixes a verdict other than sent.
LEMMA TaskAdvances ==
  ASSUME IInv, UsedOK', NEW m \in Msgs, NEW pc, NEW verdict, NEW why \in Reasons,
         task[m].pc \in {"build", "limits", "send"},
         \/ pc \in {"limits", "send"} /\ verdict = task[m].verdict
         \/ pc = "payload" /\ verdict = "deferred"
         \/ pc = "event" /\ verdict \in {"deferred", "error"},
         task' = [task EXCEPT ![m].pc = pc, ![m].verdict = verdict, ![m].why = why],
         UNCHANGED <<rows, events, suspended, phase, api, nextPk, delivered, excused>>
  PROVE  IInv'
  <1> DEFINE t == [task[m] EXCEPT !.pc = pc, !.verdict = verdict, !.why = why]
  <1>1. TypeOK /\ TaskFine(m, task[m]) /\ task[m] \in Task
    BY DEF IInv, TypeOK
  <1>2. task[m].verdict # "sent"
    BY <1>1 DEF TaskFine
  <1>3. /\ t \in Task /\ t.entry = task[m].entry /\ t.copy = task[m].copy
        /\ t.pc = pc /\ t.verdict = verdict
    BY <1>1 DEF Task, TaskPcs, Verdicts
  <1>4. task' = [task EXCEPT ![m] = t]
    BY <1>1 DEF TypeOK
  <1>5. TaskFine(m, t)
    BY <1>1, <1>2, <1>3 DEF TaskFine
  <1> HIDE DEF t
  <1> QED
    BY <1>2, <1>3, <1>4, <1>5, TaskMoves

\* A verdict other than sent is fixed.
LEMMA TaskConcludes ==
  ASSUME IInv, UsedOK', NEW m \in Msgs, NEW verdict \in {"error", "deferred"},
         NEW why \in Reasons,
         task[m].pc \in {"build", "limits", "send"},
         Conclude(m, verdict, why),
         UNCHANGED <<rows, events, suspended, phase, api, nextPk, delivered, excused>>
  PROVE  IInv'
  BY TaskAdvances DEF Conclude

\* _build_email, _resolve_account and check_and_plan.
LEMMA PrepareIInv ==
  ASSUME IInv, NEW m \in Msgs,
         BuildEmail(m) \/ NoAccount(m) \/ RateLimited(m) \/ Admitted(m)
  PROVE  IInv'
  <1>1. task \in [Msgs -> Task] /\ UsedOK /\ MaxDefers \in Nat
    BY ConstantsAssumption DEF IInv, TypeOK, UsedOK
  <1>2. UsedOK'
    BY <1>1 DEF BuildEmail, NoAccount, RateLimited, Admitted, UsedOK
  <1>3. ASSUME NEW pc \in {"limits", "send"}, task' = [task EXCEPT ![m].pc = pc],
               task[m].pc \in {"build", "limits"},
               UNCHANGED <<rows, events, suspended, phase, api, nextPk, delivered,
                           excused>>
        PROVE  IInv'
    <2>1. task[m].why \in Reasons
      BY <1>1 DEF Task
    <2>2. task' = [task EXCEPT ![m].pc = pc, ![m].verdict = task[m].verdict,
                               ![m].why = task[m].why]
      BY <1>1, <1>3 DEF Task
    <2> QED
      BY <2>1, <2>2, <1>2, <1>3, TaskAdvances
  <1>4. {"missing", "refused", "rate_limit"} \subseteq Reasons
    BY DEF Reasons
  <1>5. CASE BuildEmail(m)
    BY <1>2, <1>3, <1>4, <1>5, TaskConcludes DEF BuildEmail
  <1>6. CASE NoAccount(m)
    BY <1>2, <1>4, <1>6, TaskConcludes DEF NoAccount
  <1>7. CASE RateLimited(m)
    BY <1>2, <1>4, <1>7, TaskConcludes DEF RateLimited
  <1>8. CASE Admitted(m)
    BY <1>2, <1>3, <1>8 DEF Admitted
  <1> QED
    BY <1>5, <1>6, <1>7, <1>8

-----------------------------------------------------------------------------
(* The SMTP conversation.                                                  *)

\* The server takes the message: the task knows it, or it is excused.
LEMMA ServerTakes ==
  ASSUME IInv, UsedOK', NEW m \in Msgs, NEW t \in Task,
         task[m].pc = "send",
         task' = [task EXCEPT ![m] = t],
         t.entry = task[m].entry,
         TaskFine(m, t)',
         Accept(m),
         \/ excused' = excused /\ t.verdict = "sent"
         \/ excused' = excused \cup {task[m].entry.pk},
         UNCHANGED <<rows, events, suspended, phase, api, nextPk>>
  PROVE  IInv'
  <1> DEFINE pk == task[m].entry.pk
  <1>1. /\ TypeOK /\ TaskFine(m, task[m]) /\ KeysApart /\ Once /\ SentMeansDelivered
        /\ task \in [Msgs -> Task]
        /\ delivered \in [Pks -> Nat]
        /\ nextPk \in Nat
    BY DEF IInv, TypeOK
  <1>2. pk \in Pks /\ pk # 0 /\ pk \in Nat /\ pk < nextPk /\ task[m].verdict # "sent"
    BY <1>1, ConstantsAssumption DEF TaskFine, Pks
  <1>3. /\ delivered' \in [Pks -> Nat]
        /\ delivered'[pk] = delivered[pk] + 1
        /\ \A q \in Pks : q # pk => delivered'[q] = delivered[q]
    BY <1>1, <1>2 DEF Accept
  <1>4. TypeOK'
    BY <1>1, <1>2, <1>3 DEF TypeOK, UsedOK
  <1>5. Growing
    <2>1. \A q \in Pks : delivered'[q] >= delivered[q]
      BY <1>1, <1>2, <1>3
    <2> QED
      BY <2>1, <1>1 DEF Growing, HasOutcome
  <1>6. ASSUME NEW x \in Msgs
        PROVE  /\ TaskFine(x, task[x])'
               /\ task'[x].entry = task[x].entry
               /\ x # m => task'[x] = task[x]
    <2>1. CASE x = m
      BY <2>1, <1>1
    <2>2. CASE x # m
      <3>1. task'[x] = task[x] /\ task[x] \in Task /\ TaskFine(x, task[x])
        BY <2>2, <1>1 DEF IInv
      <3> QED
        BY <3>1, <1>1, <1>4, <1>5, TaskStaysFine
    <2> QED
      BY <2>1, <2>2
  <1>7. /\ \A x \in Msgs : RowFine(rows[x])'
        /\ \A c \in Clients : CallFine(api[c])'
    BY <1>1, <1>4, <1>5, RowStaysFine, CallStaysFine DEF IInv, TypeOK
  <1>8. SentMeansDelivered'
    <2>1. \A i \in DOMAIN events : events[i].pk \in Pks
      BY <1>1, EventTypes
    <2> QED
      BY <2>1, <1>1, <1>2, <1>3 DEF SentMeansDelivered
  <1>9. KeysApart'
    BY <1>1, <1>2, <1>3, <1>6 DEF KeysApart
  <1>10. ASSUME NEW q \in Pks, q \notin excused', delivered'[q] # 0
         PROVE  DeliveredOnce(q)'
    <2>1. CASE q # pk
      <3>1. q \notin excused /\ delivered[q] # 0 /\ DeliveredOnce(q)
        BY <2>1, <1>1, <1>3, <1>10 DEF Once
      <3> QED
        BY <2>1, <3>1, <1>3, <1>6 DEF DeliveredOnce
    <2>2. CASE q = pk
      <3>1. excused' = excused /\ t.verdict = "sent" /\ pk \notin excused
        BY <2>2, <1>10
      <3>2. delivered[pk] = 0
        BY <3>1, <1>1, <1>2 DEF Once, DeliveredOnce
      <3>3. \A x \in Msgs : x # m => rows[x].pk # pk /\ task[x].entry.pk # pk
        BY <1>1, <1>2 DEF KeysApart
      <3>4. task'[m].verdict = "sent" /\ task'[m].entry.pk = pk
        BY <3>1, <1>1
      <3>5. delivered'[pk] = 1
        BY <3>2, <1>3
      <3> QED
        BY <2>2, <3>3, <3>4, <3>5, <1>6 DEF DeliveredOnce
    <2> QED
      BY <2>1, <2>2
  <1>11. Once'
    BY <1>10 DEF Once
  <1> QED
    BY <1>4, <1>6, <1>7, <1>8, <1>9, <1>11 DEF IInv

\* A temporary failure ends in a retry or in an error.
LEMMA TemporaryFailureTask ==
  ASSUME TypeOK, NEW m \in Msgs, TemporaryFailure(m)
  PROVE  \E pc \in {"payload", "event"}, verdict \in {"deferred", "error"}, why \in Reasons :
            /\ pc = "payload" => verdict = "deferred"
            /\ task' = [task EXCEPT ![m].pc = pc, ![m].verdict = verdict, ![m].why = why]
  <1>1. "smtp" \in Reasons /\ "refused" \in Reasons
    BY DEF Reasons
  <1>2. CASE ShouldRetry(task[m].entry)
    BY <1>1, <1>2 DEF TemporaryFailure
  <1>3. CASE ~ShouldRetry(task[m].entry)
    BY <1>1, <1>3 DEF TemporaryFailure, Conclude
  <1> QED
    BY <1>2, <1>3

\* The SMTP conversation ends in one of its four ways.
LEMMA SendIInv ==
  ASSUME IInv, NEW m \in Msgs, SendMessage(m)
  PROVE  IInv'
  <1>1. /\ TypeOK /\ TaskFine(m, task[m]) /\ task[m] \in Task /\ task \in [Msgs -> Task]
        /\ UsedOK /\ MaxFaults \in Nat /\ task[m].pc = "send"
    BY ConstantsAssumption DEF IInv, TypeOK, UsedOK, SendMessage
  <1>2. UsedOK'
    BY <1>1 DEF SendMessage, UsedOK
  <1>3. "refused" \in Reasons /\ "none" \in Reasons
    BY DEF Reasons
  <1>4. /\ task[m].entry.pk \in Pks /\ task[m].copy.pk \in {0, task[m].entry.pk}
        /\ task[m].entry.pk < nextPk
        /\ task[m].copy.processed => HasOutcome(task[m].copy.pk)
        /\ delivered \in [Pks -> Nat]
    BY <1>1 DEF TaskFine, TypeOK
  <1>5. ASSUME NEW pc \in {"payload", "event"}, NEW verdict \in {"sent", "deferred", "error"},
               NEW why \in Reasons,
               pc = "payload" => verdict = "deferred",
               task' = [task EXCEPT ![m].pc = pc, ![m].verdict = verdict, ![m].why = why],
               Accept(m),
               \/ excused' = excused /\ verdict = "sent"
               \/ excused' = excused \cup {task[m].entry.pk},
               UNCHANGED <<rows, events, suspended, phase, api, nextPk>>
        PROVE  IInv'
    <2>0. PICK t \in Task : t = [task[m] EXCEPT !.pc = pc, !.verdict = verdict, !.why = why]
      BY <1>1 DEF Task, TaskPcs, Verdicts
    <2>1. /\ t.entry = task[m].entry /\ t.copy = task[m].copy
          /\ t.pc = pc /\ t.verdict = verdict
      BY <1>1, <2>0 DEF Task
    <2>2. task' = [task EXCEPT ![m] = t]
      BY <1>1, <1>5, <2>0
    <2>3. delivered'[task[m].entry.pk] > 0
      BY <1>4, <1>5 DEF Accept
    <2>4. t.copy.processed => HasOutcome(t.copy.pk)'
      BY <2>1, <1>4, <1>5 DEF HasOutcome
    <2>5. TaskFine(m, t)'
      BY <2>1, <2>3, <2>4, <1>4, <1>5 DEF TaskFine
    <2> QED
      BY <2>1, <2>2, <2>5, <1>1, <1>2, <1>5, ServerTakes
  <1>6. CASE /\ Accept(m) /\ Conclude(m, "sent", "none") /\ UNCHANGED <<used, excused>>
             /\ UNCHANGED <<rows, events, suspended, phase, api, nextPk>>
    BY <1>3, <1>5, <1>6 DEF Conclude
  <1>7. CASE /\ Conclude(m, "error", "refused") /\ UNCHANGED <<delivered, used, excused>>
             /\ UNCHANGED <<rows, events, suspended, phase, api, nextPk>>
    BY <1>1, <1>2, <1>3, <1>7, TaskConcludes
  <1>8. CASE /\ TemporaryFailure(m) /\ UNCHANGED <<delivered, used, excused>>
             /\ UNCHANGED <<rows, events, suspended, phase, api, nextPk>>
    <2>1. PICK pc \in {"payload", "event"}, verdict \in {"deferred", "error"}, why \in Reasons :
             /\ pc = "payload" => verdict = "deferred"
             /\ task' = [task EXCEPT ![m].pc = pc, ![m].verdict = verdict, ![m].why = why]
      BY <1>1, <1>8, TemporaryFailureTask
    <2> QED
      BY <2>1, <1>1, <1>2, <1>8, TaskAdvances
  <1>9. CASE /\ TemporaryFailure(m) /\ Accept(m)
             /\ excused' = excused \cup {task[m].entry.pk}
             /\ UNCHANGED <<rows, events, suspended, phase, api, nextPk>>
    <2>1. PICK pc \in {"payload", "event"}, verdict \in {"deferred", "error"}, why \in Reasons :
             /\ pc = "payload" => verdict = "deferred"
             /\ task' = [task EXCEPT ![m].pc = pc, ![m].verdict = verdict, ![m].why = why]
      BY <1>1, <1>9, TemporaryFailureTask
    <2> QED
      BY <2>1, <1>5, <1>9
  <1> QED
    BY <1>6, <1>7, <1>8, <1>9 DEF SendMessage

-----------------------------------------------------------------------------
(* add_event                                                               *)

\* The verdict of the task becomes an event.
LEMMA InsertEventIInv ==
  ASSUME IInv, NEW m \in Msgs, InsertEvent(m)
  PROVE  IInv'
  <1> DEFINE e == [pk |-> task[m].entry.pk, type |-> task[m].verdict, why |-> task[m].why]
  <1>1. /\ TypeOK /\ TaskFine(m, task[m]) /\ KeysApart /\ Once /\ SentMeansDelivered
        /\ task[m] \in Task /\ task \in [Msgs -> Task] /\ events \in Seq(Event)
        /\ task[m].pc = "event"
    BY DEF IInv, TypeOK, InsertEvent
  <1>2. /\ task[m].entry.pk \in Pks /\ task[m].verdict \in Verdicts \ {"none"}
        /\ task[m].verdict = "sent" => delivered[task[m].entry.pk] > 0
    BY <1>1 DEF TaskFine, Task
  <1>3. e \in Event
    BY <1>1, <1>2 DEF Event, Task
  <1> HIDE DEF e
  <1>4. /\ events' = Append(events, e)
        /\ events' \in Seq(Event)
        /\ Len(events') = Len(events) + 1
        /\ \A i \in 1..Len(events) : events'[i] = events[i]
        /\ events'[Len(events) + 1] = e
        /\ Len(events) \in Nat
        /\ DOMAIN events = 1..Len(events)
        /\ DOMAIN events' = 1..(Len(events) + 1)
    <2>1. events' = Append(events, e)
      BY DEF InsertEvent, e
    <2>2. events' \in Seq(Event) /\ Len(events') = Len(events) + 1
      BY <2>1, <1>1, <1>3, AppendProperties
    <2> QED
      BY <2>1, <2>2, <1>1, <1>3, AppendProperties, LenProperties
  <1>5. PICK t \in Task : /\ t.entry = task[m].entry /\ t.copy = task[m].copy
                          /\ t.pc = "mark" /\ t.verdict = task[m].verdict
                          /\ task' = [task EXCEPT ![m] = t]
    <2>1. [task[m] EXCEPT !.pc = "mark"] \in Task
      BY <1>1 DEF Task, TaskPcs
    <2> QED
      BY <2>1, <1>1 DEF Task, InsertEvent
  <1>6. TypeOK'
    BY <1>1, <1>4, <1>5 DEF TypeOK, InsertEvent
  <1>7. ASSUME NEW pk, HasOutcome(pk) PROVE HasOutcome(pk)'
    <2>1. PICK i \in 1..Len(events) : events[i].pk = pk /\ events[i].type \in {"sent", "error"}
      BY <1>4, <1>7 DEF HasOutcome
    <2>2. i \in DOMAIN events' /\ events'[i] = events[i]
      BY <2>1, <1>4
    <2> QED
      BY <2>1, <2>2 DEF HasOutcome
  <1>8. t.verdict \in {"sent", "error"} => HasOutcome(t.entry.pk)'
    <2>1. Len(events) + 1 \in DOMAIN events'
      BY <1>4
    <2> QED
      BY <2>1, <1>4, <1>5 DEF HasOutcome, e
  <1>9. Growing
    BY <1>1, <1>7 DEF Growing, InsertEvent, TypeOK
  <1>10. ASSUME NEW x \in Msgs
         PROVE  TaskFine(x, task[x])' /\ task'[x].entry = task[x].entry
                /\ task'[x].verdict = task[x].verdict
    <2>1. CASE x = m
      <3>1. TaskFine(m, t)'
        BY <1>1, <1>2, <1>5, <1>7, <1>8 DEF TaskFine, InsertEvent
      <3> QED
        BY <2>1, <3>1, <1>1, <1>5
    <2>2. CASE x # m
      <3>1. task'[x] = task[x] /\ task[x] \in Task /\ TaskFine(x, task[x])
        BY <2>2, <1>1, <1>5 DEF IInv
      <3> QED
        BY <3>1, <1>1, <1>6, <1>9, TaskStaysFine
    <2> QED
      BY <2>1, <2>2
  <1>11. /\ \A x \in Msgs : RowFine(rows[x])'
         /\ \A c \in Clients : CallFine(api[c])'
    BY <1>1, <1>6, <1>9, RowStaysFine, CallStaysFine DEF IInv, TypeOK, InsertEvent
  <1>12. SentMeansDelivered'
    <2> SUFFICES ASSUME NEW i \in DOMAIN events', events'[i].type = "sent"
                 PROVE  delivered[events'[i].pk] > 0
      BY DEF SentMeansDelivered, InsertEvent
    <2>1. CASE i \in 1..Len(events)
      BY <2>1, <1>1, <1>4 DEF SentMeansDelivered
    <2>2. CASE i = Len(events) + 1
      BY <2>2, <1>2, <1>4 DEF e
    <2> QED
      BY <2>1, <2>2, <1>4
  <1>13. KeysApart'
    BY <1>1, <1>10 DEF KeysApart, InsertEvent
  <1>14. Once'
    BY <1>1, <1>10 DEF Once, DeliveredOnce, InsertEvent
  <1> QED
    BY <1>6, <1>10, <1>11, <1>12, <1>13, <1>14 DEF IInv

-----------------------------------------------------------------------------
(* Whole-row writes of a task.                                             *)

\* The task writes back the copy it read: while it has not sent the message, or
\* at its end, and then a message that was sent is processed.
LEMMA TaskWrites ==
  ASSUME IInv, NEW m \in Msgs, NEW t \in Task, NEW r \in Row,
         rows' = UpdateRow(m, r),
         task' = [task EXCEPT ![m] = t],
         r.pk \in {0, task[m].entry.pk},
         r.processed => HasOutcome(r.pk),
         TaskFine(m, t),
         \/ /\ t.entry = task[m].entry /\ t.verdict = task[m].verdict
            /\ task[m].verdict # "sent"
         \/ /\ t = IdleTask
            /\ task[m].verdict = "sent" /\ rows[m].pk = task[m].entry.pk
                 => r.pk = rows[m].pk /\ r.processed,
         UNCHANGED <<events, suspended, phase, api, nextPk, used, delivered, excused>>
  PROVE  IInv'
  <1>1. /\ TypeOK /\ TaskFine(m, task[m]) /\ KeysApart /\ Once /\ SentMeansDelivered
        /\ task \in [Msgs -> Task] /\ rows \in [Msgs -> Row]
        /\ IdleTask.entry.pk = 0
    BY DEF IInv, TypeOK, IdleTask, EntryOf, NoRow
  <1>2. /\ rows' \in [Msgs -> Row]
        /\ \A x \in Msgs : rows'[x].pk = rows[x].pk
        /\ \A x \in Msgs : x # m => rows'[x] = rows[x] /\ task'[x] = task[x]
        /\ task'[m] = t
        /\ \/ rows'[m] = rows[m] /\ (r.pk = 0 \/ r.pk # rows[m].pk)
           \/ rows'[m] = r /\ r.pk # 0 /\ r.pk = rows[m].pk
    <2>1. /\ rows' \in [Msgs -> Row]
          /\ \A x \in Msgs : rows'[x].pk = rows[x].pk
          /\ \A x \in Msgs : x # m => rows'[x] = rows[x]
      <3>1. TypeOK
        BY <1>1
      <3>2. /\ UpdateRow(m, r) \in [Msgs -> Row]
            /\ \A x \in Msgs : UpdateRow(m, r)[x].pk = rows[x].pk
            /\ \A x \in Msgs : x # m => UpdateRow(m, r)[x] = rows[x]
        BY <3>1, UpdateRowFacts, Zenon
      <3> QED
        BY <3>2, Zenon
    <2>2. \/ rows'[m] = rows[m] /\ (r.pk = 0 \/ r.pk # rows[m].pk)
          \/ rows'[m] = r /\ r.pk # 0 /\ r.pk = rows[m].pk
      BY <1>1, UpdateRowFacts
    <2>3. task'[m] = t /\ \A x \in Msgs : x # m => task'[x] = task[x]
      BY <1>1
    <2> QED
      BY <2>1, <2>2, <2>3
  <1>3. TypeOK'
    BY <1>1, <1>2 DEF TypeOK
  <1>4. Growing
    <2>1. \A pk \in Pks : delivered'[pk] >= delivered[pk]
      BY <1>1 DEF TypeOK
    <2> QED
      BY <2>1, <1>1, <1>2 DEF Growing, HasOutcome, TypeOK
  <1>5. ASSUME NEW x \in Msgs PROVE TaskFine(x, task[x])'
    <2>1. CASE x = m
      BY <2>1, <1>1, <1>2, <1>3, <1>4, TaskStaysFine
    <2>2. CASE x # m
      <3>1. task'[x] = task[x] /\ task[x] \in Task /\ TaskFine(x, task[x])
        BY <2>2, <1>1, <1>2 DEF IInv
      <3> QED
        BY <3>1, <1>1, <1>3, <1>4, TaskStaysFine
    <2> QED
      BY <2>1, <2>2
  <1>6. ASSUME NEW x \in Msgs PROVE RowFine(rows[x])'
    <2>1. rows'[x] \in Row /\ RowFine(rows[x])
      BY <1>2 DEF IInv
    <2>2. CASE rows'[x] = rows[x]
      BY <2>1, <2>2, <1>1, <1>3, <1>4, RowStaysFine
    <2>3. CASE x = m /\ rows'[x] = r /\ r.pk = rows[m].pk
      <3>1. RowFine(r)
        BY <2>1, <2>3 DEF RowFine
      <3> QED
        BY <3>1, <2>3, <1>1, <1>3, <1>4, RowStaysFine
    <2> QED
      BY <2>2, <2>3, <1>2
  <1>7. \A c \in Clients : CallFine(api[c])'
    BY <1>1, <1>4, CallStaysFine DEF IInv, TypeOK
  <1>8. SentMeansDelivered'
    BY <1>1 DEF SentMeansDelivered
  <1>9. \A x \in Msgs : task'[x].entry.pk \in {0, task[x].entry.pk}
    BY <1>1, <1>2
  <1>10. KeysApart'
    BY <1>1, <1>2, <1>9 DEF KeysApart
  <1>11. ASSUME NEW q \in Pks, q \notin excused, delivered[q] # 0
         PROVE  DeliveredOnce(q)'
    <2>1. DeliveredOnce(q) /\ q # 0
      BY <1>1, <1>11 DEF Once, Pks
    <2>2. rows'[m].pk = q => rows'[m].processed \/ task'[m].entry.pk = q
      BY <2>1, <1>1, <1>2 DEF DeliveredOnce
    <2>3. task'[m].entry.pk = q => task'[m].verdict = "sent"
      BY <2>1, <1>1, <1>2 DEF DeliveredOnce
    <2> QED
      BY <2>1, <2>2, <2>3, <1>2 DEF DeliveredOnce
  <1>12. Once'
    BY <1>11 DEF Once
  <1> QED
    BY <1>3, <1>5, <1>6, <1>7, <1>8, <1>10, <1>12 DEF IInv

\* clear_deferred and update_payload are left: the copy is written back with
\* another deferral or payload, before the message is sent.
LEMMA StoreIInv ==
  ASSUME IInv, NEW m \in Msgs, ClearDeferred(m) \/ UpdatePayload(m)
  PROVE  IInv'
  <1>1. /\ TypeOK /\ TaskFine(m, task[m]) /\ task[m] \in Task /\ task \in [Msgs -> Task]
        /\ NoRow \in Row /\ NoRow.pk = 0 /\ ~NoRow.processed
        /\ task[m].pc \in {"clear", "store"}
    BY ConstantTypes DEF IInv, TypeOK, ClearDeferred, UpdatePayload, NoRow
  <1>2. /\ task[m].verdict # "sent" /\ task[m].entry.pk \in Pks
        /\ task[m].copy \in Row /\ task[m].entry \in Entry
        /\ task[m].copy.pk \in {0, task[m].entry.pk}
        /\ task[m].copy.processed => HasOutcome(task[m].copy.pk)
    BY <1>1 DEF TaskFine, Task
  <1>3. PICK t \in Task : /\ t.entry = task[m].entry /\ t.verdict = task[m].verdict
                          /\ t.copy = NoRow
                          /\ t.pc = "build" \/ (t.pc = "event" /\ t.verdict # "none")
                          /\ task' = [task EXCEPT ![m] = t]
    <2>1. CASE ClearDeferred(m)
      <3>1. [task[m] EXCEPT !.pc = "build", !.copy = NoRow] \in Task
        BY <1>1 DEF Task, TaskPcs
      <3> QED
        BY <3>1, <2>1, <1>1 DEF Task, ClearDeferred
    <2>2. CASE UpdatePayload(m)
      <3>1. [task[m] EXCEPT !.pc = "event", !.copy = NoRow] \in Task
        BY <1>1 DEF Task, TaskPcs
      <3>2. task[m].verdict # "none"
        BY <2>2, <1>1 DEF TaskFine, UpdatePayload
      <3> QED
        BY <3>1, <3>2, <2>2, <1>1 DEF Task, UpdatePayload
    <2> QED
      BY <2>1, <2>2
  <1>4. PICK r \in Row : /\ rows' = UpdateRow(m, r)
                         /\ r.pk = task[m].copy.pk /\ r.processed = task[m].copy.processed
    <2>1. CASE ClearDeferred(m)
      <3>1. [task[m].copy EXCEPT !.deferred = "null"] \in Row
        BY <1>2 DEF Row, Deferrals
      <3> QED
        BY <3>1, <2>1, <1>2 DEF Row, ClearDeferred
    <2>2. CASE UpdatePayload(m)
      <3>1. [task[m].copy EXCEPT !.kind = "wrapped"] \in Row
        BY <1>2 DEF Row, Entry, PayloadKinds
      <3> QED
        BY <3>1, <2>2, <1>2 DEF Row, UpdatePayload
    <2> QED
      BY <2>1, <2>2
  <1>5. TaskFine(m, t)
    BY <1>1, <1>2, <1>3 DEF TaskFine
  <1>6. UNCHANGED <<events, suspended, phase, api, nextPk, used, delivered, excused>>
    BY DEF ClearDeferred, UpdatePayload
  <1> QED
    BY <1>2, <1>3, <1>4, <1>5, <1>6, TaskWrites

\* mark_sent, mark_error or set_deferred is left and the task ends.  If it was
\* sent, the row is processed or there is none.
LEMMA UpdateMarkIInv ==
  ASSUME IInv, NEW m \in Msgs, UpdateMark(m)
  PROVE  IInv'
  <1>1. /\ TypeOK /\ TaskFine(m, task[m]) /\ task[m] \in Task /\ task[m].pc = "settle"
        /\ rows \in [Msgs -> Row] /\ nextPk \in 1..(MaxPk + 1)
    BY DEF IInv, TypeOK, UpdateMark
  <1>2. /\ task[m].entry.pk \in Pks /\ task[m].copy \in Row
        /\ task[m].copy.pk \in {0, task[m].entry.pk}
        /\ task[m].copy.pk = 0 => rows[m].pk # task[m].entry.pk
        /\ task[m].verdict \in {"sent", "error", "deferred"}
        /\ task[m].verdict \in {"sent", "error"} => HasOutcome(task[m].entry.pk)
    BY <1>1 DEF TaskFine, Task, Verdicts
  <1>3. PICK r \in Row : /\ rows' = UpdateRow(m, r)
                         /\ r.pk = task[m].copy.pk
                         /\ r.processed = (task[m].verdict # "deferred")
    <2>1. Marked(task[m].copy, task[m].verdict) \in Row
      BY <1>2 DEF Marked, Row, Deferrals
    <2> QED
      BY <2>1, <1>2 DEF Marked, Row, UpdateMark
  <1>4. IdleTask \in Task /\ TaskFine(m, IdleTask)
    <2>1. nextPk > 0
      BY <1>1, ConstantsAssumption
    <2> QED
      BY <2>1, ConstantTypes DEF TaskFine, IdleTask, EntryOf, NoRow
  <1>5. /\ task' = [task EXCEPT ![m] = IdleTask]
        /\ UNCHANGED <<events, suspended, phase, api, nextPk, used, delivered, excused>>
    BY DEF UpdateMark
  <1>6. CASE r.processed => HasOutcome(r.pk)
    BY <1>2, <1>3, <1>4, <1>5, <1>6, TaskWrites
  <1>7. CASE r.processed /\ ~HasOutcome(r.pk)
    <2>1. r.pk = 0
      BY <1>2, <1>3, <1>7
    <2>2. rows' = UpdateRow(m, NoRow)
      BY <2>1, <1>3 DEF UpdateRow, NoRow
    <2>3. NoRow \in Row /\ NoRow.pk = 0 /\ ~NoRow.processed
      BY ConstantTypes DEF NoRow
    <2> QED
      BY <2>1, <2>2, <2>3, <1>2, <1>3, <1>4, <1>5, TaskWrites
  <1> QED
    BY <1>6, <1>7

-----------------------------------------------------------------------------
(* The API: steps that leave the tasks alone and write at most one row.    *)

\* Row m becomes r: it keeps its key, goes, or is new with a fresh key; if it
\* loses its mark, its key is excused.
LEMMA OneRowChanges ==
  ASSUME IInv, TypeOK', NEW m \in Msgs, NEW r \in Row,
         rows' = [rows EXCEPT ![m] = r],
         \/ r.pk \in {0, rows[m].pk} /\ nextPk' = nextPk
         \/ r.pk = nextPk /\ nextPk' = nextPk + 1,
         r.processed => HasOutcome(r.pk),
         \A c \in Clients : CallFine(api'[c]),
         excused \subseteq excused',
         rows[m].processed /\ r.pk = rows[m].pk => r.processed \/ r.pk \in excused',
         UNCHANGED <<events, task, delivered>>
  PROVE  IInv'
  <1>1. /\ TypeOK /\ KeysApart /\ Once /\ SentMeansDelivered
        /\ rows \in [Msgs -> Row] /\ task \in [Msgs -> Task]
        /\ nextPk \in Nat /\ nextPk' \in Nat /\ nextPk' >= nextPk /\ nextPk > 0
        /\ \A x \in Msgs : RowFine(rows[x]) /\ TaskFine(x, task[x])
    <2>1. /\ TypeOK /\ KeysApart /\ Once /\ SentMeansDelivered
          /\ \A x \in Msgs : RowFine(rows[x]) /\ TaskFine(x, task[x])
      BY DEF IInv
    <2>2. /\ rows \in [Msgs -> Row] /\ task \in [Msgs -> Task]
          /\ nextPk \in 1..(MaxPk + 1) /\ MaxPk \in Nat
      BY <2>1, ConstantsAssumption DEF TypeOK
    <2> QED
      BY <2>1, <2>2
  <1>2. /\ rows'[m] = r
        /\ \A x \in Msgs : x # m => rows'[x] = rows[x]
    BY <1>1
  <1>3. Growing
    <2>1. \A pk \in Pks : delivered'[pk] >= delivered[pk]
      BY <1>1 DEF TypeOK
    <2>2. \A x \in Msgs : rows'[x].pk \in {rows[x].pk, 0, nextPk}
      BY <1>2
    <2> QED
      BY <2>1, <2>2, <1>1 DEF Growing, HasOutcome
  <1>4. ASSUME NEW x \in Msgs PROVE TaskFine(x, task[x])'
    BY <1>1, <1>3, TaskStaysFine
  <1>5. ASSUME NEW x \in Msgs PROVE RowFine(rows[x])'
    <2>1. CASE x = m
      <3>1. rows[m].pk \in Nat /\ rows[m].pk < nextPk
        BY <1>1 DEF RowFine, Row
      <3>2. r.pk < nextPk'
        BY <3>1, <1>1
      <3> QED
        BY <3>2, <2>1, <1>2 DEF RowFine, HasOutcome
    <2>2. CASE x # m
      BY <2>2, <1>1, <1>2, <1>3, RowStaysFine
    <2> QED
      BY <2>1, <2>2
  <1>6. \A c \in Clients : CallFine(api[c])'
    BY DEF CallFine, HasOutcome
  <1>7. SentMeansDelivered'
    BY <1>1 DEF SentMeansDelivered
  <1>8. r.pk = nextPk => \A x \in Msgs : rows[x].pk # r.pk /\ task[x].entry.pk # r.pk
    <2>1. \A x \in Msgs : /\ rows[x].pk \in Nat /\ rows[x].pk < nextPk
                          /\ task[x].entry.pk \in Nat /\ task[x].entry.pk < nextPk
      BY <1>1 DEF RowFine, TaskFine, Row, Task, Entry
    <2> QED
      BY <2>1, <1>1
  <1>9. KeysApart'
    <2>1. \A x, y \in Msgs : x # y =>
             /\ rows'[x].pk # 0 => rows'[x].pk # rows'[y].pk
             /\ task[x].entry.pk # 0 => task[x].entry.pk \notin {rows'[y].pk, task[y].entry.pk}
      BY <1>1, <1>2, <1>8 DEF KeysApart
    <2>2. \A pk \in Pks : pk >= nextPk' => delivered[pk] = 0
      BY <1>1 DEF KeysApart, Pks
    <2> QED
      BY <2>1, <2>2 DEF KeysApart
  <1>10. ASSUME NEW q \in Pks, q \notin excused', delivered'[q] # 0
         PROVE  DeliveredOnce(q)'
    <2>1. DeliveredOnce(q) /\ q # 0 /\ q # nextPk
      BY <1>1, <1>10 DEF Once, Pks, KeysApart
    <2>2. rows'[m].pk = q => rows'[m].processed \/ task[m].entry.pk = q
      BY <2>1, <1>2, <1>10 DEF DeliveredOnce
    <2> QED
      BY <2>1, <2>2, <1>2 DEF DeliveredOnce
  <1> QED
    BY <1>4, <1>5, <1>6, <1>7, <1>9, <1>10 DEF IInv, Once

\* Nothing but the calls in progress changes, or something outside of the
\* invariant.
LEMMA OnlyCallsChange ==
  ASSUME IInv, TypeOK', \A c \in Clients : CallFine(api'[c]),
         UNCHANGED <<rows, events, task, nextPk, delivered, excused>>
  PROVE  IInv'
  <1>1. PICK m \in Msgs : TRUE
    BY ConstantsAssumption
  <1>2. rows \in [Msgs -> Row] /\ \A x \in Msgs : RowFine(rows[x])
    BY DEF IInv, TypeOK
  <1>3. rows[m] \in Row /\ rows' = [rows EXCEPT ![m] = rows[m]] /\ RowFine(rows[m])
    BY <1>2
  <1>4. PICK r \in Row : r = rows[m]
    BY <1>3
  <1> QED
    BY <1>3, <1>4, OneRowChanges DEF RowFine

\* insert_batch looks an entry up.
LEMMA LookupIInv ==
  ASSUME IInv, NEW c \in Clients, NEW m \in Msgs, NEW p \in Priorities, NEW k \in Kinds,
         NEW s \in Schedules, LookupExisting(c, m, p, k, s)
  PROVE  IInv'
  <1>1. /\ TypeOK /\ api \in [Clients -> Call] /\ rows \in [Msgs -> Row]
        /\ used \in [submits: 0..MaxSubmits, defers: 0..MaxDefers, faults: 0..MaxFaults]
        /\ \A d \in Clients : CallFine(api[d])
    <2>1. TypeOK /\ \A d \in Clients : CallFine(api[d])
      BY DEF IInv
    <2> QED
      BY <2>1 DEF TypeOK
  <1>2. used.submits \in Nat /\ used.submits < MaxSubmits /\ MaxSubmits \in Nat
    BY <1>1, ConstantsAssumption DEF LookupExisting
  <1>3. used' \in [submits: 0..MaxSubmits, defers: 0..MaxDefers, faults: 0..MaxFaults]
    BY <1>1, <1>2 DEF LookupExisting
  <1>4. PICK new \in Row :
           /\ new = [NoRow EXCEPT !.deferred = s, !.kind = k, !.prio = p]
           /\ ~new.processed
    <2>1. s \in Deferrals /\ k \in PayloadKinds /\ p \in 0..3
      BY ConstantsAssumption DEF Deferrals, PayloadKinds
    <2>2. used.submits + 1 \in 0..MaxSubmits
      BY <1>2
    <2>3. NoRow \in Row /\ ~NoRow.processed
      BY ConstantTypes DEF NoRow
    <2>4. [NoRow EXCEPT !.deferred = s, !.kind = k, !.prio = p] \in Row
      BY <2>1, <2>2, <2>3 DEF Row
    <2> QED
      BY <2>3, <2>4 DEF Row
  <1>5. \/ api' = [api EXCEPT ![c] = [IdleCall EXCEPT !.pc = "insert", !.msg = m, !.new = new]]
        \/ api' = api
        \/ api' = [api EXCEPT ![c] = [IdleCall EXCEPT !.pc = "record", !.msg = m,
                                                      !.pk = rows[m].pk, !.new = new]]
    BY <1>4 DEF LookupExisting
  <1>6. api' \in [Clients -> Call] /\ \A d \in Clients : CallFine(api'[d])
    <2>1. ASSUME NEW call \in Call, call.new = new, call.copy = NoRow,
                 api' = [api EXCEPT ![c] = call]
          PROVE  api' \in [Clients -> Call] /\ \A d \in Clients : CallFine(api'[d])
      <3>1. CallFine(call)
        BY <2>1, <1>4 DEF CallFine, NoRow
      <3> QED
        BY <3>1, <2>1, <1>1
    <2>2. CASE api' = [api EXCEPT ![c] = [IdleCall EXCEPT !.pc = "insert", !.msg = m, !.new = new]]
      <3>1. PICK call \in Call :
               call = [IdleCall EXCEPT !.pc = "insert", !.msg = m, !.new = new]
        BY ConstantTypes DEF Call
      <3>2. call.new = new /\ call.copy = NoRow
        BY <3>1 DEF IdleCall
      <3> QED
        BY <2>1, <2>2, <3>1, <3>2
    <2>3. CASE api' = [api EXCEPT ![c] = [IdleCall EXCEPT !.pc = "record", !.msg = m,
                                                          !.pk = rows[m].pk, !.new = new]]
      <3>1. rows[m].pk \in 0..MaxPk
        BY <1>1 DEF Row
      <3>2. PICK call \in Call :
               call = [IdleCall EXCEPT !.pc = "record", !.msg = m,
                                       !.pk = rows[m].pk, !.new = new]
        BY <3>1, ConstantTypes DEF Call
      <3>3. call.new = new /\ call.copy = NoRow
        BY <3>2 DEF IdleCall
      <3> QED
        BY <2>1, <2>3, <3>2, <3>3
    <2> QED
      BY <1>1, <1>5, <2>2, <2>3
  <1>7. TypeOK'
    BY <1>1, <1>3, <1>6 DEF TypeOK, LookupExisting
  <1> QED
    BY <1>6, <1>7, OnlyCallsChange DEF LookupExisting

\* A call enters record(pk): its copy is the row or empty.
LEMMA SelectPendingIInv ==
  ASSUME IInv, NEW c \in Clients, SelectPending(c)
  PROVE  IInv'
  <1>1. /\ TypeOK /\ \A d \in Clients : CallFine(api[d])
        /\ \A x \in Msgs : RowFine(rows[x])
    BY DEF IInv
  <1>2. api \in [Clients -> Call] /\ api[c].msg \in Msgs /\ api[c].pk \in 0..MaxPk
    BY <1>1 DEF TypeOK, Call
  <1>3. PICK copy \in Row : /\ copy = SelectRow(api[c].msg, api[c].pk)
                            /\ copy.processed => HasOutcome(copy.pk)
    BY <1>1, <1>2, SelectRowFacts DEF RowFine
  <1>4. PICK call \in Call : /\ call.new = api[c].new /\ call.copy = copy
                             /\ api' = [api EXCEPT ![c] = call]
    <2>1. [api[c] EXCEPT !.pc = "update", !.copy = copy] \in Call
      BY <1>2 DEF Call
    <2> QED
      BY <2>1, <1>2, <1>3 DEF Call, SelectPending
  <1>5. CallFine(call)
    BY <1>1, <1>3, <1>4 DEF CallFine
  <1>6. api' \in [Clients -> Call] /\ \A d \in Clients : CallFine(api'[d])
    BY <1>1, <1>2, <1>4, <1>5
  <1>7. TypeOK'
    BY <1>1, <1>6 DEF TypeOK, SelectPending
  <1> QED
    BY <1>6, <1>7, OnlyCallsChange DEF SelectPending

\* A call ends with its write.
LEMMA CallEnds ==
  ASSUME IInv, NEW c \in Clients, api' = [api EXCEPT ![c] = IdleCall]
  PROVE  api' \in [Clients -> Call] /\ \A d \in Clients : CallFine(api'[d])
  <1>1. api \in [Clients -> Call] /\ \A d \in Clients : CallFine(api[d])
    BY DEF IInv, TypeOK
  <1>2. IdleCall \in Call /\ CallFine(IdleCall)
    BY ConstantTypes DEF CallFine, IdleCall, NoRow
  <1> QED
    BY <1>1, <1>2

\* insert_batch inserts a new message.
LEMMA InsertNewIInv ==
  ASSUME IInv, NEW c \in Clients, InsertNew(c)
  PROVE  IInv'
  <1> DEFINE m == api[c].msg
  <1>1. /\ TypeOK /\ CallFine(api[c])
        /\ api' = [api EXCEPT ![c] = IdleCall]
        /\ UNCHANGED <<events, suspended, phase, task, used, delivered, excused>>
    BY DEF IInv, InsertNew
  <1>2. /\ api[c].msg \in Msgs /\ api[c].new \in Row /\ rows \in [Msgs -> Row]
        /\ nextPk \in Pks /\ MaxPk \in Nat
    <2>1. /\ api \in [Clients -> Call] /\ rows \in [Msgs -> Row]
          /\ nextPk \in 1..(MaxPk + 1)
      BY <1>1 DEF TypeOK
    <2>2. nextPk <= MaxPk /\ MaxPk \in Nat
      BY ConstantsAssumption DEF InsertNew
    <2>3. api[c].msg \in Msgs /\ api[c].new \in Row
      BY <2>1 DEF Call
    <2> QED
      BY <2>1, <2>2, <2>3 DEF Pks
  <1>3. api' \in [Clients -> Call] /\ \A d \in Clients : CallFine(api'[d])
    BY <1>1, CallEnds
  <1>4. CASE rows[m].pk = 0
    <2>1. PICK r \in Row : /\ r = [api[c].new EXCEPT !.pk = nextPk]
                           /\ r.pk = nextPk /\ ~r.processed
      <3>1. ~api[c].new.processed
        BY <1>1 DEF CallFine
      <3>2. [api[c].new EXCEPT !.pk = nextPk] \in Row
        BY <1>2 DEF Row, Pks
      <3> QED
        BY <3>1, <3>2, <1>2 DEF Row
    <2>2. rows' = [rows EXCEPT ![m] = r] /\ nextPk' = nextPk + 1
      BY <2>1, <1>4 DEF InsertNew
    <2>3. TypeOK'
      <3>1. rows' \in [Msgs -> Row] /\ nextPk' \in 1..(MaxPk + 1)
        BY <2>2, <1>2 DEF Pks
      <3> QED
        BY <3>1, <1>1, <1>3 DEF TypeOK
    <2>4. m \in Msgs /\ rows[m].pk # r.pk
      BY <1>2, <1>4, <2>1 DEF Pks
    <2> HIDE DEF m
    <2> QED
      BY <2>1, <2>2, <2>3, <2>4, <1>1, <1>3, OneRowChanges
  <1>5. CASE rows[m].pk # 0
    <2>1. UNCHANGED <<rows, nextPk>>
      BY <1>5 DEF InsertNew
    <2>2. TypeOK'
      BY <2>1, <1>1, <1>3 DEF TypeOK
    <2> QED
      BY <2>1, <2>2, <1>1, <1>3, OnlyCallsChange
  <1> QED
    BY <1>4, <1>5

\* insert_batch overwrites a pending message; a mark that was made meanwhile is
\* lost, and its key excused.
LEMMA UpdatePendingIInv ==
  ASSUME IInv, NEW c \in Clients, UpdatePending(c)
  PROVE  IInv'
  <1> DEFINE m == api[c].msg
             new == api[c].new
             w == [api[c].copy EXCEPT !.deferred = new.deferred, !.kind = new.kind,
                                      !.prio = new.prio]
             written == w.pk # 0 /\ rows[m].pk = w.pk
  <1>1. /\ TypeOK /\ CallFine(api[c]) /\ \A x \in Msgs : RowFine(rows[x])
        /\ api' = [api EXCEPT ![c] = IdleCall]
        /\ UNCHANGED <<events, suspended, phase, task, nextPk, used, delivered>>
    BY DEF IInv, UpdatePending
  <1>2. /\ m \in Msgs /\ new \in Row /\ api[c].copy \in Row /\ rows \in [Msgs -> Row]
        /\ excused \subseteq Pks
    BY <1>1 DEF TypeOK, Call, Row
  <1>3. api' \in [Clients -> Call] /\ \A d \in Clients : CallFine(api'[d])
    BY <1>1, CallEnds
  <1>4. /\ w \in Row
        /\ w.processed => HasOutcome(w.pk)
    <2>1. w \in Row /\ w.pk = api[c].copy.pk /\ w.processed = api[c].copy.processed
      BY <1>2 DEF Row
    <2> QED
      BY <2>1, <1>1 DEF CallFine
  <1>5. /\ rows' = UpdateRow(m, w)
        /\ excused' = IF written /\ rows[m].processed /\ ~w.processed
                      THEN excused \cup {w.pk} ELSE excused
    BY DEF UpdatePending
  <1> HIDE DEF w
  <1>6. CASE written
    <2>1. rows' = [rows EXCEPT ![m] = w]
      BY <1>5, <1>6 DEF UpdateRow
    <2>2. w.pk = rows[m].pk
      BY <1>6
    <2>3. /\ excused \subseteq excused' /\ excused' \subseteq Pks
          /\ rows[m].processed => w.processed \/ w.pk \in excused'
      <3>1. w.pk \in Pks
        BY <1>4, <1>6, ConstantsAssumption DEF Row, Pks
      <3> QED
        BY <3>1, <1>2, <1>5, <1>6
    <2>5. TypeOK'
      BY <2>1, <2>3, <1>1, <1>2, <1>3, <1>4 DEF TypeOK
    <2> HIDE DEF m, new
    <2> QED
      BY <2>1, <2>2, <2>3, <2>5, <1>1, <1>2, <1>3, <1>4, OneRowChanges
  <1>7. CASE ~written
    <2>1. UNCHANGED <<rows, excused>>
      BY <1>5, <1>7 DEF UpdateRow
    <2>2. TypeOK'
      BY <2>1, <1>1, <1>3 DEF TypeOK
    <2> QED
      BY <2>1, <2>2, <1>1, <1>3, OnlyCallsChange
  <1> QED
    BY <1>6, <1>7

\* remove_by_pk, suspend_batch and activate_batch.
LEMMA OperatorIInv ==
  ASSUME IInv,
         \/ \E m \in Msgs : RemoveByPk(m)
         \/ \E b \in Suspendable : SuspendBatch(b) \/ ActivateBatch(b)
  PROVE  IInv'
  <1>1. TypeOK /\ \A c \in Clients : CallFine(api[c])
    BY DEF IInv
  <1>2. ASSUME NEW m \in Msgs, RemoveByPk(m) PROVE IInv'
    <2>1. /\ NoRow \in Row /\ NoRow.pk = 0 /\ ~NoRow.processed
          /\ rows' = [rows EXCEPT ![m] = NoRow] /\ rows[m].pk # 0
          /\ UNCHANGED <<events, suspended, phase, task, api, nextPk, used,
                         delivered, excused>>
      BY <1>2, ConstantTypes DEF RemoveByPk, NoRow
    <2>2. TypeOK'
      BY <2>1, <1>1 DEF TypeOK
    <2>3. \A c \in Clients : CallFine(api'[c])
      BY <2>1, <1>1
    <2> QED
      BY <2>1, <2>2, <2>3, OneRowChanges
  <1>3. ASSUME NEW b \in Suspendable, SuspendBatch(b) \/ ActivateBatch(b) PROVE IInv'
    <2>1. /\ suspended' \subseteq Everything
          /\ UNCHANGED <<rows, events, phase, task, api, nextPk, used,
                         delivered, excused>>
      <3>1. suspended \subseteq Everything /\ b \in Everything
        BY <1>1, ConstantsAssumption DEF TypeOK, Everything
      <3> QED
        BY <3>1, <1>3 DEF SuspendBatch, ActivateBatch
    <2>2. TypeOK'
      BY <2>1, <1>1 DEF TypeOK
    <2>3. \A c \in Clients : CallFine(api'[c])
      BY <2>1, <1>1
    <2> QED
      BY <2>1, <2>2, <2>3, OnlyCallsChange
  <1> QED
    BY <1>2, <1>3

-----------------------------------------------------------------------------
(* Time, failures, and the next batch.                                     *)

\* Only the deferral of a row that is due changes.
LEMMA DueFacts ==
  ASSUME NEW row \in Row
  PROVE  Due(row) \in Row /\ Due(row).pk = row.pk /\ Due(row).processed = row.processed
  BY DEF Due, Row, Deferrals

\* The clock reaches a deferred_ts.
LEMMA TimeIInv ==
  ASSUME IInv, NEW m \in Msgs, TimePasses(m)
  PROVE  IInv'
  <1>1. /\ TypeOK /\ KeysApart /\ Once /\ SentMeansDelivered
        /\ \A x \in Msgs : TaskFine(x, task[x]) /\ RowFine(rows[x])
        /\ \A c \in Clients : CallFine(api[c])
        /\ UNCHANGED <<events, suspended, phase, nextPk, used, delivered, excused>>
    BY DEF IInv, TimePasses
  <1>2. /\ rows \in [Msgs -> Row] /\ task \in [Msgs -> Task] /\ api \in [Clients -> Call]
        /\ nextPk \in 1..(MaxPk + 1)
    BY <1>1 DEF TypeOK
  <1>3. ASSUME NEW x \in Msgs
        PROVE  rows'[x] \in Row /\ rows'[x].pk = rows[x].pk
               /\ rows'[x].processed = rows[x].processed
    BY <1>2, DueFacts DEF TimePasses
  <1>4. ASSUME NEW x \in Msgs
        PROVE  /\ task'[x] \in Task
               /\ task'[x].pc = task[x].pc /\ task'[x].entry = task[x].entry
               /\ task'[x].verdict = task[x].verdict
               /\ task'[x].copy.pk = task[x].copy.pk
               /\ task'[x].copy.processed = task[x].copy.processed
               /\ task'[x] = task[x] \/ task'[x].copy = Due(task[x].copy)
    <2>1. CASE x # m
      BY <2>1, <1>2 DEF TimePasses
    <2>2. CASE x = m
      <3>1. /\ task'[m] = [task[m] EXCEPT !.copy = Due(task[m].copy)]
            /\ task[m].copy \in Row
        BY <1>2 DEF TimePasses, Task
      <3>2. /\ Due(task[m].copy) \in Row /\ Due(task[m].copy).pk = task[m].copy.pk
            /\ Due(task[m].copy).processed = task[m].copy.processed
        BY <3>1, DueFacts
      <3> QED
        BY <2>2, <3>1, <3>2, <1>2 DEF Task
    <2> QED
      BY <2>1, <2>2
  <1>5. ASSUME NEW c \in Clients
        PROVE  api'[c] \in Call /\ CallFine(api'[c])
    <2>1. api[c] \in Call /\ api[c].new \in Row /\ api[c].copy \in Row /\ CallFine(api[c])
      BY <1>1, <1>2 DEF Call
    <2>2. CASE api[c].msg = m
      <3>1. api'[c] = [api[c] EXCEPT !.new = Due(api[c].new), !.copy = Due(api[c].copy)]
        BY <2>2 DEF TimePasses
      <3>2. api'[c] \in Call /\ api'[c].new = Due(api[c].new) /\ api'[c].copy = Due(api[c].copy)
        BY <3>1, <2>1, DueFacts DEF Call
      <3> QED
        BY <3>2, <2>1, DueFacts DEF CallFine
    <2>3. CASE api[c].msg # m
      BY <2>1, <2>3 DEF TimePasses
    <2> QED
      BY <2>2, <2>3
  <1>6. TypeOK'
    <2>1. rows' \in [Msgs -> Row]
      <3>1. rows' = [rows EXCEPT ![m] = rows'[m]]
        BY <1>2 DEF TimePasses
      <3> QED
        BY <3>1, <1>2, <1>3
    <2>2. task' \in [Msgs -> Task]
      <3>1. task' = [task EXCEPT ![m] = task'[m]]
        BY <1>2 DEF TimePasses
      <3> QED
        BY <3>1, <1>2, <1>4
    <2>3. api' \in [Clients -> Call]
      <3>1. api' = [c \in Clients |-> api'[c]]
        BY DEF TimePasses
      <3> QED
        BY <3>1, <1>5
    <2> QED
      BY <2>1, <2>2, <2>3, <1>1 DEF TypeOK
  <1>7. ASSUME NEW x \in Msgs PROVE TaskFine(x, task[x])'
    <2>1. CASE task[x].pc = "off"
      <3>1. task[x] = IdleTask
        BY <2>1, <1>1 DEF TaskFine
      <3>2. Due(NoRow) = NoRow
        BY DEF Due, NoRow
      <3>3. task'[x] = IdleTask
        <4>1. CASE x # m
          BY <4>1, <3>1, <1>2 DEF TimePasses
        <4>2. CASE x = m
          <5>1. IdleTask \in Task /\ IdleTask.copy = NoRow
            BY ConstantTypes DEF IdleTask
          <5>2. task'[m] = [task[m] EXCEPT !.copy = Due(task[m].copy)]
            BY <1>2 DEF TimePasses
          <5>3. task'[m] = [IdleTask EXCEPT !.copy = IdleTask.copy]
            BY <5>1, <5>2, <4>2, <3>1, <3>2
          <5>4. [IdleTask EXCEPT !.copy = IdleTask.copy] = IdleTask
            BY <5>1 DEF Task
          <5> QED
            BY <5>3, <5>4, <4>2
        <4> QED
          BY <4>1, <4>2
      <3> QED
        BY <3>1, <3>3, <1>1, <1>2 DEF TaskFine, HasOutcome, IdleTask, EntryOf, NoRow
    <2>2. CASE task[x].pc # "off"
      BY <2>2, <1>1, <1>3, <1>4 DEF TaskFine, HasOutcome
    <2> QED
      BY <2>1, <2>2
  <1>8. \A x \in Msgs : RowFine(rows[x])'
    BY <1>1, <1>3 DEF RowFine, HasOutcome
  <1>9. \A c \in Clients : CallFine(api[c])'
    BY <1>1, <1>5 DEF CallFine, HasOutcome
  <1>10. SentMeansDelivered' /\ KeysApart' /\ Once'
    BY <1>1, <1>3, <1>4 DEF SentMeansDelivered, KeysApart, Once, DeliveredOnce
  <1> QED
    BY <1>6, <1>7, <1>8, <1>9, <1>10 DEF IInv

\* Tasks of S end without a word, by an exception or with the process; what they
\* sent and did not record is excused.
LEMMA TasksEnd ==
  ASSUME IInv, TypeOK', NEW S \in SUBSET Msgs,
         task' = [m \in Msgs |-> IF m \in S THEN IdleTask ELSE task[m]],
         \A c \in Clients : CallFine(api'[c]),
         excused \subseteq excused',
         \A m \in S : task[m].verdict = "sent" => task[m].entry.pk \in excused',
         UNCHANGED <<rows, events, nextPk, delivered>>
  PROVE  IInv'
  <1>1. /\ TypeOK /\ KeysApart /\ Once /\ SentMeansDelivered
        /\ \A x \in Msgs : TaskFine(x, task[x]) /\ RowFine(rows[x])
    BY DEF IInv
  <1>2. nextPk > 0
    BY <1>1, ConstantsAssumption DEF TypeOK
  <1>3. IdleTask.entry.pk = 0 /\ IdleTask.verdict = "none"
    BY DEF IdleTask, EntryOf, NoRow
  <1>4. ASSUME NEW x \in Msgs
        PROVE  /\ TaskFine(x, task[x])'
               /\ task'[x].entry.pk \in {0, task[x].entry.pk}
    <2>1. CASE x \in S
      <3>1. task'[x] = IdleTask
        BY <2>1
      <3> QED
        BY <3>1, <1>2, <1>3 DEF TaskFine, IdleTask, EntryOf, NoRow
    <2>2. CASE x \notin S
      BY <2>2, <1>1 DEF TaskFine, HasOutcome
    <2> QED
      BY <2>1, <2>2
  <1>5. \A x \in Msgs : RowFine(rows[x])'
    BY <1>1 DEF RowFine, HasOutcome
  <1>6. \A c \in Clients : CallFine(api[c])'
    BY DEF CallFine, HasOutcome
  <1>7. SentMeansDelivered' /\ KeysApart'
    BY <1>1, <1>4 DEF SentMeansDelivered, KeysApart
  <1>8. ASSUME NEW q \in Pks, q \notin excused', delivered'[q] # 0
        PROVE  DeliveredOnce(q)'
    <2>1. DeliveredOnce(q) /\ q # 0
      BY <1>1, <1>8 DEF Once, Pks
    <2>2. ASSUME NEW x \in Msgs, task[x].entry.pk = q PROVE task'[x] = task[x]
      BY <2>1, <2>2, <1>8 DEF DeliveredOnce
    <2>3. ASSUME NEW x \in Msgs, task'[x].entry.pk = q PROVE task'[x] = task[x]
      BY <2>1, <2>2, <2>3, <1>4
    <2> QED
      BY <2>1, <2>2, <2>3 DEF DeliveredOnce
  <1> QED
    BY <1>1, <1>4, <1>5, <1>6, <1>7, <1>8 DEF IInv, Once

\* A statement of a task raises, or the process dies.
LEMMA FaultIInv ==
  ASSUME IInv, (\E m \in Msgs : TaskFails(m)) \/ Crash
  PROVE  IInv'
  <1>1. /\ TypeOK /\ \A c \in Clients : CallFine(api[c])
        /\ \A x \in Msgs : TaskFine(x, task[x])
    BY DEF IInv
  <1>2. /\ task \in [Msgs -> Task] /\ excused \subseteq Pks
        /\ used \in [submits: 0..MaxSubmits, defers: 0..MaxDefers, faults: 0..MaxFaults]
        /\ MaxFaults \in Nat /\ IdleTask \in Task
    BY <1>1, ConstantsAssumption, ConstantTypes DEF TypeOK
  <1>3. \A x \in Msgs : task[x].verdict = "sent" => Unrecorded(x) /\ task[x].entry.pk \in Pks
    BY <1>1 DEF TaskFine, Unrecorded
  <1>4. \A x \in Msgs : Unrecorded(x) => task[x].entry.pk \in Pks
    BY <1>1 DEF TaskFine, Unrecorded
  <1>5. used' \in [submits: 0..MaxSubmits, defers: 0..MaxDefers, faults: 0..MaxFaults]
    BY <1>2 DEF TaskFails, Crash
  <1>6. ASSUME NEW m \in Msgs, TaskFails(m) PROVE IInv'
    <2>1. /\ task' = [x \in Msgs |-> IF x \in {m} THEN IdleTask ELSE task[x]]
          /\ task' \in [Msgs -> Task]
      BY <1>2, <1>6 DEF TaskFails
    <2>2. /\ excused \subseteq excused' /\ excused' \subseteq Pks
          /\ task[m].verdict = "sent" => task[m].entry.pk \in excused'
      BY <1>2, <1>3, <1>4, <1>6 DEF TaskFails
    <2>3. UNCHANGED <<rows, events, suspended, phase, api, nextPk, delivered>>
      BY <1>6 DEF TaskFails
    <2>4. TypeOK'
      BY <2>1, <2>2, <2>3, <1>1, <1>5 DEF TypeOK
    <2> QED
      BY <2>1, <2>2, <2>3, <2>4, <1>1, TasksEnd
  <1>7. CASE Crash
    <2>1. /\ task' = [x \in Msgs |-> IF x \in Msgs THEN IdleTask ELSE task[x]]
          /\ task' \in [Msgs -> Task]
      BY <1>2, <1>7 DEF Crash
    <2>2. /\ excused \subseteq excused' /\ excused' \subseteq Pks
          /\ \A m \in Msgs : task[m].verdict = "sent" => task[m].entry.pk \in excused'
      BY <1>2, <1>3, <1>4, <1>7 DEF Crash
    <2>3. /\ api' = [c \in Clients |-> IdleCall] /\ phase' = "immediate"
          /\ UNCHANGED <<rows, events, suspended, nextPk, delivered>>
      BY <1>7 DEF Crash
    <2>4. api' \in [Clients -> Call] /\ \A c \in Clients : CallFine(api'[c])
      BY <2>3, ConstantTypes DEF CallFine, IdleCall, NoRow
    <2>5. TypeOK'
      BY <2>1, <2>2, <2>3, <2>4, <1>1, <1>5 DEF TypeOK
    <2> QED
      BY <2>1, <2>2, <2>3, <2>4, <2>5, TasksEnd
  <1> QED
    BY <1>6, <1>7

\* The next batch is queued: pending rows only, so none that was delivered.
LEMMA ProcessCycleIInv ==
  ASSUME IInv, ProcessCycle
  PROVE  IInv'
  <1>1. /\ TypeOK /\ KeysApart /\ Once /\ SentMeansDelivered
        /\ \A x \in Msgs : TaskFine(x, task[x]) /\ RowFine(rows[x])
        /\ \A c \in Clients : CallFine(api[c])
        /\ UNCHANGED <<rows, events, suspended, api, nextPk, used, delivered, excused>>
    BY DEF IInv, ProcessCycle
  <1>2. /\ rows \in [Msgs -> Row] /\ task \in [Msgs -> Task] /\ MaxPk \in Nat
        /\ IdleTask \in Task /\ IdleTask.entry.pk = 0
    BY <1>1, ConstantsAssumption, ConstantTypes DEF TypeOK, IdleTask, EntryOf, NoRow
  <1>3. \A x \in Msgs : task[x] = IdleTask
    BY <1>1 DEF ProcessCycle, TaskFine
  <1>4. ASSUME NEW x \in Msgs
        PROVE  \/ task'[x] = IdleTask
               \/ /\ task'[x] = [IdleTask EXCEPT !.pc = "queued", !.entry = EntryOf(rows[x])]
                  /\ rows[x].pk # 0 /\ ~rows[x].processed
    <2>1. CASE x \in DispatchBatch(FetchReady)
      <3>1. rows[x].pk # 0 /\ ~rows[x].processed
        BY <2>1 DEF DispatchBatch, FetchReady, Ready
      <3> QED
        BY <3>1, <2>1 DEF ProcessCycle
    <2>2. CASE x \notin DispatchBatch(FetchReady)
      BY <2>2, <1>3 DEF ProcessCycle
    <2> QED
      BY <2>1, <2>2
  <1>5. ASSUME NEW x \in Msgs
        PROVE  /\ task'[x] \in Task /\ TaskFine(x, task[x])'
               /\ \/ task'[x].entry.pk = 0
                  \/ task'[x].entry.pk = rows[x].pk /\ ~rows[x].processed
    <2>1. CASE task'[x] = IdleTask
      <3>1. TaskFine(x, IdleTask)
        BY <1>1, <1>3
      <3> QED
        BY <3>1, <2>1, <1>1, <1>2 DEF TaskFine, HasOutcome
    <2>2. CASE /\ task'[x] = [IdleTask EXCEPT !.pc = "queued", !.entry = EntryOf(rows[x])]
               /\ rows[x].pk # 0 /\ ~rows[x].processed
      <3>1. EntryOf(rows[x]) \in Entry /\ EntryOf(rows[x]).pk = rows[x].pk
        BY <1>2 DEF EntryOf, Entry, Row
      <3>2. rows[x].pk \in Pks /\ rows[x].pk < nextPk
        BY <2>2, <1>1, <1>2 DEF RowFine, Row, Pks
      <3>3. /\ task'[x] \in Task
            /\ task'[x].pc = "queued" /\ task'[x].entry = EntryOf(rows[x])
            /\ task'[x].copy = NoRow /\ task'[x].verdict = "none"
        <4>1. IdleTask.copy = NoRow /\ IdleTask.verdict = "none"
          BY DEF IdleTask
        <4> QED
          BY <4>1, <3>1, <2>2, <1>2 DEF Task, TaskPcs
      <3> QED
        BY <2>2, <3>1, <3>2, <3>3, <1>1 DEF TaskFine, NoRow
    <2> QED
      BY <2>1, <2>2, <1>4
  <1>6. TypeOK'
    <2>1. task' = [x \in Msgs |-> task'[x]]
      BY DEF ProcessCycle
    <2>2. task' \in [Msgs -> Task]
      BY <2>1, <1>5
    <2>3. phase' \in {"immediate", "regular"}
      BY DEF ProcessCycle
    <2> QED
      BY <2>2, <2>3, <1>1 DEF TypeOK
  <1>7. /\ \A x \in Msgs : RowFine(rows[x])'
        /\ \A c \in Clients : CallFine(api[c])'
        /\ SentMeansDelivered'
    BY <1>1 DEF RowFine, CallFine, HasOutcome, SentMeansDelivered
  <1>8. KeysApart'
    <2>1. \A x, y \in Msgs : x # y /\ rows[x].pk # 0 => rows[x].pk # rows[y].pk
      BY <1>1 DEF KeysApart
    <2>2. \A x, y \in Msgs : x # y /\ task'[x].entry.pk # 0
             => task'[x].entry.pk \notin {rows[y].pk, task'[y].entry.pk}
      BY <2>1, <1>5
    <2> QED
      BY <2>1, <2>2, <1>1 DEF KeysApart
  <1>9. ASSUME NEW q \in Pks, q \notin excused', delivered'[q] # 0
        PROVE  DeliveredOnce(q)'
    <2>1. DeliveredOnce(q) /\ q # 0
      BY <1>1, <1>9 DEF Once, Pks
    <2>2. \A x \in Msgs : rows[x].pk = q => rows[x].processed
      BY <2>1, <1>2, <1>3 DEF DeliveredOnce
    <2>3. \A x \in Msgs : task'[x].entry.pk # q
      BY <2>1, <2>2, <1>5
    <2> QED
      BY <2>1, <2>2, <2>3, <1>1 DEF DeliveredOnce
  <1> QED
    BY <1>5, <1>6, <1>7, <1>8, <1>9 DEF IInv, Once

-----------------------------------------------------------------------------
(* The whole module.                                                       *)

LEMMA TaskStepIInv ==
  ASSUME IInv, NEW m \in Msgs, TaskStep(m)
  PROVE  IInv'
  <1>1. CASE Start(m)
    BY <1>1, TaskReads DEF Start
  <1>2. CASE ClearDeferred(m) \/ UpdatePayload(m)
    BY <1>2, StoreIInv
  <1>3. CASE BuildEmail(m) \/ NoAccount(m) \/ RateLimited(m) \/ Admitted(m)
    BY <1>3, PrepareIInv
  <1>4. CASE SendMessage(m)
    BY <1>4, SendIInv
  <1>5. CASE SelectForPayload(m)
    BY <1>5, TaskReads DEF SelectForPayload
  <1>6. CASE InsertEvent(m)
    BY <1>6, InsertEventIInv
  <1>7. CASE SelectForMark(m)
    BY <1>7, TaskReads DEF SelectForMark
  <1>8. CASE UpdateMark(m)
    BY <1>8, UpdateMarkIInv
  <1> QED
    BY <1>1, <1>2, <1>3, <1>4, <1>5, <1>6, <1>7, <1>8 DEF TaskStep

LEMMA StutterIInv ==
  ASSUME IInv, UNCHANGED vars
  PROVE  IInv'
  <1>1. TypeOK /\ \A c \in Clients : CallFine(api[c])
    BY DEF IInv
  <1>2. TypeOK' /\ \A c \in Clients : CallFine(api'[c])
    BY <1>1 DEF TypeOK, vars
  <1> QED
    BY <1>2, OnlyCallsChange DEF vars

\* The invariant is inductive.
LEMMA NextIInv == IInv /\ [Next]_vars => IInv'
  <1> SUFFICES ASSUME IInv, [Next]_vars PROVE IInv'
    OBVIOUS
  <1>1. CASE ProcessCycle
    BY <1>1, ProcessCycleIInv
  <1>2. CASE \E m \in Msgs : TaskStep(m)
    BY <1>2, TaskStepIInv
  <1>3. CASE \E c \in Clients, m \in Msgs, p \in Priorities, k \in Kinds, s \in Schedules :
                LookupExisting(c, m, p, k, s)
    BY <1>3, LookupIInv
  <1>4. CASE \E c \in Clients : CallStep(c)
    BY <1>4, InsertNewIInv, SelectPendingIInv, UpdatePendingIInv DEF CallStep
  <1>5. CASE \/ \E m \in Msgs : RemoveByPk(m)
             \/ \E b \in Suspendable : SuspendBatch(b) \/ ActivateBatch(b)
    BY <1>5, OperatorIInv
  <1>6. CASE \E m \in Msgs : TimePasses(m)
    BY <1>6, TimeIInv
  <1>7. CASE (\E m \in Msgs : TaskFails(m)) \/ Crash
    BY <1>7, FaultIInv
  <1>8. CASE UNCHANGED vars
    BY <1>8, StutterIInv
  <1> QED
    BY <1>1, <1>2, <1>3, <1>4, <1>5, <1>6, <1>7, <1>8 DEF Next

LEMMA InvariantHolds == Spec => []IInv
  BY InitIInv, NextIInv, PTL DEF Spec

\* Every state the queue reaches has its type: no sequence of statements of any
\* number of tasks and API calls writes a row, event or copy of another shape.
THEOREM TypeCorrect == Spec => []TypeOK
  <1>1. IInv => TypeOK
    BY DEF IInv
  <1> QED
    BY <1>1, InvariantHolds, PTL

\* A message shown as processed always has a sent or error event, whatever
\* statements of concurrent tasks and calls come between reading its row and
\* writing it back.
THEOREM NoSilentOutcome == Spec => []ProcessedHasOutcome
  <1>1. IInv => ProcessedHasOutcome
    BY DEF IInv, RowFine, HasOutcome, ProcessedHasOutcome
  <1> QED
    BY <1>1, InvariantHolds, PTL

\* A "sent" event is only ever recorded for a message the SMTP server took.
THEOREM NoFalseSent == Spec => []SentMeansDelivered
  <1>1. IInv => SentMeansDelivered
    BY DEF IInv
  <1> QED
    BY <1>1, InvariantHolds, PTL

\* A message is delivered at most once, but for a lost reply, a failure between
\* the send and the mark, or a re-submission written over the mark.
THEOREM DeliveredAtMostOnce == Spec => []DeliveredTwiceOnlyIfExcused
  <1>1. IInv => DeliveredTwiceOnlyIfExcused
    <2> SUFFICES ASSUME IInv, NEW pk \in Pks, delivered[pk] > 1, pk \notin excused
                 PROVE  FALSE
      BY DEF DeliveredTwiceOnlyIfExcused
    <2>1. Once /\ delivered[pk] \in Nat
      BY DEF IInv, TypeOK
    <2>2. delivered[pk] = 1
      BY <2>1 DEF Once, DeliveredOnce
    <2> QED
      BY <2>2
  <1> QED
    BY <1>1, InvariantHolds, PTL

\* No statement of a task or call in progress brings a removed message back.
LEMMA RowsKeepTheirKeys ==
  ASSUME TypeOK, Next, NEW x \in Msgs
  PROVE  rows'[x].pk \in {0, rows[x].pk, nextPk}
  <1>1. rows \in [Msgs -> Row]
    BY DEF TypeOK
  <1>2. ASSUME NEW m \in Msgs, NEW r, rows' = UpdateRow(m, r)
        PROVE  rows'[x].pk = rows[x].pk
    BY <1>1, <1>2 DEF UpdateRow
  <1>3. CASE ProcessCycle
    BY <1>3 DEF ProcessCycle
  <1>4. ASSUME NEW m \in Msgs, TaskStep(m)
        PROVE  rows'[x].pk = rows[x].pk
    <2>1. CASE ClearDeferred(m)
      BY <2>1, <1>2 DEF ClearDeferred
    <2>2. CASE UpdatePayload(m)
      BY <2>2, <1>2 DEF UpdatePayload
    <2>3. CASE UpdateMark(m)
      BY <2>3, <1>2 DEF UpdateMark
    <2>4. CASE Start(m) \/ SelectForPayload(m) \/ SelectForMark(m) \/ InsertEvent(m)
      BY <2>4 DEF Start, SelectForPayload, SelectForMark, InsertEvent
    <2>5. CASE \/ BuildEmail(m) \/ NoAccount(m) \/ RateLimited(m) \/ Admitted(m)
               \/ SendMessage(m)
      BY <2>5 DEF BuildEmail, NoAccount, RateLimited, Admitted, SendMessage
    <2> QED
      BY <1>4, <2>1, <2>2, <2>3, <2>4, <2>5 DEF TaskStep
  <1>5. ASSUME NEW c \in Clients, CallStep(c)
        PROVE  rows'[x].pk \in {rows[x].pk, nextPk}
    <2>0. api[c].msg \in Msgs /\ api[c].new \in Row
      BY DEF TypeOK, Call
    <2>1. CASE InsertNew(c)
      BY <2>0, <2>1, <1>1 DEF InsertNew, Row
    <2>2. CASE SelectPending(c)
      BY <2>2 DEF SelectPending
    <2>3. CASE UpdatePending(c)
      BY <2>0, <2>3, <1>2 DEF UpdatePending
    <2> QED
      BY <1>5, <2>1, <2>2, <2>3 DEF CallStep
  <1>6. CASE \E m \in Msgs : RemoveByPk(m)
    BY <1>6, <1>1 DEF RemoveByPk, NoRow
  <1>7. CASE \E m \in Msgs : TimePasses(m)
    <2>1. PICK m \in Msgs : rows' = [rows EXCEPT ![m] = Due(rows[m])]
      BY <1>7, <1>1 DEF TimePasses
    <2>2. Due(rows[m]).pk = rows[m].pk
      BY <1>1, DueFacts
    <2> QED
      BY <2>1, <2>2, <1>1
  <1>8. CASE \/ \E c \in Clients, m \in Msgs, p \in Priorities, k \in Kinds, s \in Schedules :
                   LookupExisting(c, m, p, k, s)
             \/ \E b \in Suspendable : SuspendBatch(b) \/ ActivateBatch(b)
             \/ \E m \in Msgs : TaskFails(m)
             \/ Crash
    BY <1>8 DEF LookupExisting, SuspendBatch, ActivateBatch, TaskFails, Crash
  <1> QED
    BY <1>3, <1>4, <1>5, <1>6, <1>7, <1>8 DEF Next

\* A removed message stays removed: a row keeps its key, goes, or comes with the
\* key get_uuid() returns next.
THEOREM RemovedIsGone == Spec => RemovedStaysRemoved
  <1>1. TypeOK /\ [Next]_vars =>
          [\A m \in Msgs : rows'[m].pk \in {0, rows[m].pk, nextPk}]_vars
    BY RowsKeepTheirKeys
  <1> QED
    BY <1>1, TypeCorrect, PTL DEF Spec, RemovedStaysRemoved

-----------------------------------------------------------------------------
(* Why a stale whole-row write reopens only what is excused.               *)

\* The same row, as far as a client sees it.
Kept(r, s) == r.pk = s.pk /\ r.processed = s.processed

\* While a task has a message, its row is processed only if a call wrote that
\* back over a reopening; what the task read then is excused as well.
TaskMark(m) ==
    /\ task[m].pc # "off" /\ rows[m].pk = task[m].entry.pk /\ rows[m].processed
         => rows[m].pk \in excused
    /\ task[m].copy.processed => task[m].copy.pk \in excused

\* A call holds a processed copy of a row that is not processed only if it was
\* reopened since.
CallMark(c) ==
    /\ api[c].copy.pk < nextPk
    /\ /\ api[c].copy.pk # 0 /\ api[c].copy.processed
       /\ rows[api[c].msg].pk = api[c].copy.pk /\ ~rows[api[c].msg].processed
       => api[c].copy.pk \in excused

Marks == (\A m \in Msgs : TaskMark(m)) /\ (\A c \in Clients : CallMark(c))

LEMMA InitMarks == Init => Marks
  BY ConstantsAssumption DEF Init, Marks, TaskMark, CallMark, IdleTask, IdleCall, NoRow

\* The types these proofs use.
LEMMA Typed ==
  ASSUME IInv
  PROVE  /\ nextPk \in Nat /\ 0 < nextPk
         /\ rows \in [Msgs -> Row] /\ task \in [Msgs -> Task] /\ api \in [Clients -> Call]
         /\ \A c \in Clients : api[c].msg \in Msgs
         /\ \A m \in Msgs : rows[m].pk \in Nat /\ rows[m].pk < nextPk
         /\ excused \subseteq Pks
  <1>1. TypeOK /\ \A m \in Msgs : RowFine(rows[m])
    BY DEF IInv
  <1>2. /\ nextPk \in 1..(MaxPk + 1) /\ MaxPk \in Nat
        /\ rows \in [Msgs -> Row] /\ task \in [Msgs -> Task] /\ api \in [Clients -> Call]
        /\ excused \subseteq Pks
    BY <1>1, ConstantsAssumption DEF TypeOK
  <1>3. \A m \in Msgs : rows[m].pk \in 0..MaxPk
    BY <1>2 DEF Row
  <1> QED
    BY <1>1, <1>2, <1>3 DEF Call, RowFine

\* A step that leaves every row as a client sees it.
LEMMA QuietMarks ==
  ASSUME IInv, Marks, nextPk' = nextPk, excused \subseteq excused',
         \A m \in Msgs : Kept(rows'[m], rows[m]),
         \A m \in Msgs :
            \/ task'[m].pc = "off" /\ ~task'[m].copy.processed
            \/ ~rows[m].processed /\ ~task'[m].copy.processed
            \/ /\ task[m].pc # "off" /\ task'[m].entry = task[m].entry
               /\ \/ ~task'[m].copy.processed
                  \/ Kept(task'[m].copy, task[m].copy)
                  \/ Kept(task'[m].copy, rows[m]) /\ rows[m].pk = task[m].entry.pk
            \/ task[m].pc = "off" /\ task'[m] = task[m],
         \A c \in Clients :
            \/ api'[c].copy.pk = 0
            \/ api'[c].msg = api[c].msg /\ Kept(api'[c].copy, api[c].copy)
            \/ api'[c].msg \in Msgs /\ Kept(api'[c].copy, rows[api'[c].msg])
  PROVE  Marks'
  <1>1. ASSUME NEW m \in Msgs PROVE TaskMark(m)'
    <2>1. TaskMark(m)
      BY DEF Marks
    <2>2. CASE task[m].pc = "off" /\ task'[m] = task[m]
      BY <2>1, <2>2 DEF TaskMark
    <2>3. CASE \/ task'[m].pc = "off" /\ ~task'[m].copy.processed
               \/ ~rows[m].processed /\ ~task'[m].copy.processed
      BY <2>3 DEF TaskMark, Kept
    <2>4. CASE /\ task[m].pc # "off" /\ task'[m].entry = task[m].entry
               /\ \/ ~task'[m].copy.processed
                  \/ Kept(task'[m].copy, task[m].copy)
                  \/ Kept(task'[m].copy, rows[m]) /\ rows[m].pk = task[m].entry.pk
      BY <2>1, <2>4 DEF TaskMark, Kept
    <2> QED
      BY <2>2, <2>3, <2>4
  <1>2. ASSUME NEW c \in Clients PROVE CallMark(c)'
    <2>1. CallMark(c)
      BY DEF Marks
    <2>2. CASE api'[c].copy.pk = 0
      BY <2>2, Typed DEF CallMark
    <2>3. CASE api'[c].msg = api[c].msg /\ Kept(api'[c].copy, api[c].copy)
      BY <2>1, <2>3, Typed DEF CallMark, Kept
    <2>4. CASE api'[c].msg \in Msgs /\ Kept(api'[c].copy, rows[api'[c].msg])
      BY <2>4, Typed DEF CallMark, Kept
    <2> QED
      BY <2>2, <2>3, <2>4
  <1> QED
    BY <1>1, <1>2 DEF Marks

\* A task writes back the row it read, which is the row of its message.
LEMMA TaskWriteMarks ==
  ASSUME IInv, Marks, NEW m \in Msgs, NEW r \in Row, task[m].pc # "off",
         rows' = UpdateRow(m, r),
         r.pk = 0 \/ r.pk = task[m].entry.pk,
         \/ task'[m].pc = "off"
         \/ r.pk = task[m].copy.pk /\ (r.processed => task[m].copy.processed),
         nextPk' = nextPk, excused' = excused, api' = api,
         task'[m].entry = task[m].entry \/ task'[m].pc = "off",
         ~task'[m].copy.processed,
         \A x \in Msgs : x # m => task'[x] = task[x]
  PROVE  Marks'
  <1>1. /\ \A x \in Msgs : rows'[x].pk = rows[x].pk
        /\ \A x \in Msgs : x # m => rows'[x] = rows[x]
        /\ \/ rows'[m] = rows[m]
           \/ rows'[m] = r /\ r.pk # 0 /\ r.pk = rows[m].pk
    <2>1. TypeOK
      BY DEF IInv
    <2>2. /\ \A x \in Msgs : UpdateRow(m, r)[x].pk = rows[x].pk
          /\ \A x \in Msgs : x # m => UpdateRow(m, r)[x] = rows[x]
          /\ \/ UpdateRow(m, r)[m] = rows[m]
             \/ UpdateRow(m, r)[m] = r /\ r.pk # 0 /\ r.pk = rows[m].pk
      BY ONLY <2>1, UpdateRowFacts, m \in Msgs, r \in Row
    <2> QED
      BY <2>2
  <1>2. ASSUME NEW x \in Msgs PROVE TaskMark(x)'
    <2>1. TaskMark(x) /\ TaskMark(m)
      BY DEF Marks
    <2>2. CASE x = m
      <3> SUFFICES ASSUME task'[m].pc # "off", rows'[m].pk = task'[m].entry.pk,
                          rows'[m].processed
                   PROVE  rows'[m].pk \in excused
        BY <2>2 DEF TaskMark
      <3>1. CASE rows'[m] = rows[m]
        BY <2>1, <3>1 DEF TaskMark
      <3>2. CASE rows'[m] = r
        <4>1. r.processed
          BY <3>2
        <4>2. task[m].copy.processed /\ r.pk = task[m].copy.pk
          BY <4>1
        <4> QED
          BY <2>1, <3>2, <4>2 DEF TaskMark
      <3> QED
        BY <1>1, <3>1, <3>2
    <2>3. CASE x # m
      BY <1>1, <2>1, <2>3 DEF TaskMark
    <2> QED
      BY <2>2, <2>3
  <1>3. ASSUME NEW c \in Clients PROVE CallMark(c)'
    <2>1. CallMark(c) /\ TaskMark(m)
      BY DEF Marks
    <2>2. CASE api[c].msg = m
      BY <1>1, <2>1, <2>2 DEF CallMark, TaskMark
    <2>3. CASE api[c].msg # m
      BY <1>1, <2>1, <2>3, Typed DEF CallMark
    <2> QED
      BY <2>2, <2>3
  <1> QED
    BY <1>2, <1>3 DEF Marks

\* clear_deferred, update_payload and the marking of the outcome.
LEMMA TaskWritesRow ==
  ASSUME IInv, Marks, NEW m \in Msgs, ClearDeferred(m) \/ UpdatePayload(m) \/ UpdateMark(m)
  PROVE  Marks'
  <1>1. /\ TypeOK /\ TaskFine(m, task[m])
        /\ task[m] \in Task /\ task[m].copy \in Row /\ task \in [Msgs -> Task]
        /\ task[m].pc # "off" /\ task[m].verdict \in Verdicts
    <2>1. TypeOK /\ TaskFine(m, task[m])
      BY DEF IInv
    <2>2. task[m] \in Task /\ task \in [Msgs -> Task]
      BY <2>1 DEF TypeOK
    <2> QED
      BY <2>1, <2>2 DEF Task, ClearDeferred, UpdatePayload, UpdateMark
  <1>2. task[m].copy.pk \in {0, task[m].entry.pk}
    BY <1>1 DEF TaskFine
  <1>3. /\ nextPk' = nextPk /\ excused' = excused /\ api' = api
        /\ \A x \in Msgs : x # m => task'[x] = task[x]
        /\ ~task'[m].copy.processed
        /\ task'[m].entry = task[m].entry \/ task'[m].pc = "off"
    <2>1. CASE ClearDeferred(m)
      BY <1>1, <2>1 DEF ClearDeferred, NoRow, Task
    <2>2. CASE UpdatePayload(m)
      BY <1>1, <2>2 DEF UpdatePayload, NoRow, Task
    <2>3. CASE UpdateMark(m)
      BY <1>1, <2>3 DEF UpdateMark, IdleTask, NoRow
    <2> QED
      BY <2>1, <2>2, <2>3
  <1>4. PICK r \in Row : /\ rows' = UpdateRow(m, r) /\ r.pk = task[m].copy.pk
                         /\ task'[m].pc = "off" \/ (r.processed => task[m].copy.processed)
    <2>1. CASE ClearDeferred(m)
      <3>1. [task[m].copy EXCEPT !.deferred = "null"] \in Row
        BY <1>1 DEF Row, Deferrals
      <3> QED
        BY <3>1, <2>1, <1>1 DEF Row, ClearDeferred
    <2>2. CASE UpdatePayload(m)
      <3>1. [task[m].copy EXCEPT !.kind = "wrapped"] \in Row
        BY <1>1 DEF Row, PayloadKinds
      <3> QED
        BY <3>1, <2>2, <1>1 DEF Row, UpdatePayload
    <2>3. CASE UpdateMark(m)
      <3>1. Marked(task[m].copy, task[m].verdict) \in Row
        BY <1>1 DEF Row, Marked, Deferrals
      <3>2. Marked(task[m].copy, task[m].verdict).pk = task[m].copy.pk
        BY <1>1 DEF Row, Marked
      <3>3. task'[m].pc = "off"
        BY <1>1, <2>3 DEF UpdateMark, IdleTask
      <3> QED
        BY <3>1, <3>2, <3>3, <2>3 DEF UpdateMark
    <2> QED
      BY <2>1, <2>2, <2>3
  <1> QED
    BY <1>1, <1>2, <1>3, <1>4, TaskWriteMarks

\* Steps of a task that write no row.
LEMMA TaskQuietMarks ==
  ASSUME IInv, Marks, NEW m \in Msgs,
         \/ Start(m) \/ SelectForPayload(m) \/ SelectForMark(m) \/ InsertEvent(m)
         \/ BuildEmail(m) \/ NoAccount(m) \/ RateLimited(m) \/ Admitted(m) \/ SendMessage(m)
  PROVE  Marks'
  <1>1. /\ task \in [Msgs -> Task] /\ task[m] \in Task
        /\ \A x \in Msgs : TaskFine(x, task[x])
        /\ excused \subseteq excused' /\ rows' = rows /\ api' = api /\ nextPk' = nextPk
        /\ TypeOK
    <2>1. TypeOK /\ \A x \in Msgs : TaskFine(x, task[x])
      BY DEF IInv
    <2> QED
      BY <2>1 DEF TypeOK, Start, SelectForPayload, SelectForMark, InsertEvent, BuildEmail,
                  NoAccount, RateLimited, Admitted, SendMessage
  <1>2. /\ task[m].pc # "off"
        /\ \A x \in Msgs : x # m => task'[x] = task[x]
        /\ task'[m].entry = task[m].entry
        /\ \/ task'[m].copy = task[m].copy
           \/ task'[m].copy = SelectRow(m, task[m].entry.pk)
    <2>1. CASE Start(m) \/ SelectForPayload(m) \/ SelectForMark(m)
      BY <1>1, <2>1 DEF Start, SelectForPayload, SelectForMark, Task
    <2>2. CASE InsertEvent(m) \/ BuildEmail(m) \/ NoAccount(m) \/ RateLimited(m) \/ Admitted(m)
      BY <1>1, <2>2 DEF InsertEvent, BuildEmail, NoAccount, RateLimited, Admitted, Conclude, Task
    <2>3. CASE SendMessage(m)
      BY <1>1, <2>3 DEF SendMessage, TemporaryFailure, Conclude, Task
    <2> QED
      BY <2>1, <2>2, <2>3
  <1>3. SelectRow(m, task[m].entry.pk).processed
          => /\ SelectRow(m, task[m].entry.pk) = rows[m]
             /\ rows[m].pk = task[m].entry.pk
    BY DEF SelectRow, NoRow
  <1>4. ASSUME NEW x \in Msgs, x # m
        PROVE  \/ task[x].pc = "off" /\ task'[x] = task[x]
               \/ /\ task[x].pc # "off" /\ task'[x].entry = task[x].entry
                  /\ Kept(task'[x].copy, task[x].copy)
    BY <1>2, <1>4 DEF Kept
  <1>5. /\ task[m].pc # "off" /\ task'[m].entry = task[m].entry
        /\ \/ ~task'[m].copy.processed
           \/ Kept(task'[m].copy, task[m].copy)
           \/ Kept(task'[m].copy, rows[m]) /\ rows[m].pk = task[m].entry.pk
    BY <1>2, <1>3 DEF Kept
  <1>6. /\ \A x \in Msgs : Kept(rows'[x], rows[x])
        /\ \A c \in Clients : api'[c].msg = api[c].msg /\ Kept(api'[c].copy, api[c].copy)
    BY <1>1 DEF Kept
  <1> QED
    BY <1>1, <1>4, <1>5, <1>6, QuietMarks

\* Steps of a call that write no row, and those of the operator's suspensions.
LEMMA CallQuietMarks ==
  ASSUME IInv, Marks, task' = task, rows' = rows, nextPk' = nextPk, excused' = excused,
         \A c \in Clients :
            \/ api'[c] = api[c]
            \/ api'[c].copy.pk = 0
            \/ api'[c].msg = api[c].msg /\ api'[c].copy = SelectRow(api[c].msg, api[c].pk)
  PROVE  Marks'
  <1>1. \A c \in Clients : api[c].msg \in Msgs
    BY Typed
  <1>2. ASSUME NEW c \in Clients
        PROVE  \/ api'[c].copy.pk = 0
               \/ api'[c].msg = api[c].msg /\ Kept(api'[c].copy, api[c].copy)
               \/ api'[c].msg \in Msgs /\ Kept(api'[c].copy, rows[api'[c].msg])
    BY <1>1 DEF Kept, SelectRow, NoRow
  <1>3. \A m \in Msgs : /\ Kept(rows'[m], rows[m])
                        /\ \/ task[m].pc = "off" /\ task'[m] = task[m]
                           \/ /\ task[m].pc # "off" /\ task'[m].entry = task[m].entry
                              /\ Kept(task'[m].copy, task[m].copy)
    BY DEF Kept
  <1> QED
    BY <1>2, <1>3, QuietMarks

LEMMA LookupMarks ==
  ASSUME IInv, Marks, NEW c \in Clients, NEW m \in Msgs, NEW p, NEW k, NEW s,
         LookupExisting(c, m, p, k, s)
  PROVE  Marks'
  <1>1. api \in [Clients -> Call]
    BY Typed
  <1>2. api'[c] = api[c] \/ api'[c].copy.pk = 0
    BY <1>1 DEF LookupExisting, IdleCall, NoRow
  <1>3. \A d \in Clients : d # c => api'[d] = api[d]
    BY <1>1 DEF LookupExisting
  <1> QED
    BY <1>2, <1>3, CallQuietMarks DEF LookupExisting

LEMMA SelectPendingMarks ==
  ASSUME IInv, Marks, NEW c \in Clients, SelectPending(c)
  PROVE  Marks'
  <1>1. api \in [Clients -> Call] /\ api[c] \in Call
    BY Typed
  <1>2. api'[c].msg = api[c].msg /\ api'[c].copy = SelectRow(api[c].msg, api[c].pk)
    BY <1>1 DEF SelectPending, Call
  <1>3. \A d \in Clients : d # c => api'[d] = api[d]
    BY <1>1 DEF SelectPending
  <1> QED
    BY <1>2, <1>3, CallQuietMarks DEF SelectPending

\* A new row is pending and its key is in no copy.
LEMMA InsertNewMarks ==
  ASSUME IInv, Marks, NEW c \in Clients, InsertNew(c)
  PROVE  Marks'
  <1> DEFINE m == api[c].msg
  <1>1. /\ m \in Msgs /\ api \in [Clients -> Call] /\ api[c].new \in Row
        /\ rows \in [Msgs -> Row] /\ nextPk \in Nat /\ 0 < nextPk
        /\ ~api[c].new.processed
    <2>1. CallFine(api[c])
      BY DEF IInv
    <2> QED
      BY <2>1, Typed DEF Call, CallFine
  <1>2. /\ \A d \in Clients : d # c => api'[d] = api[d]
        /\ api'[c].copy.pk = 0
        /\ task' = task /\ excused' = excused
    BY <1>1 DEF InsertNew, IdleCall, NoRow
  <1>3. /\ nextPk' \in Nat /\ nextPk <= nextPk'
        /\ \A x \in Msgs : x # m => rows'[x] = rows[x]
        /\ \/ rows'[m] = rows[m]
           \/ rows'[m].pk = nextPk /\ ~rows'[m].processed
    BY <1>1 DEF InsertNew, Row
  <1>4. ASSUME NEW x \in Msgs PROVE TaskMark(x)'
    <2>1. TaskMark(x)
      BY DEF Marks
    <2> QED
      BY <2>1, <1>1, <1>2, <1>3 DEF TaskMark
  <1>5. ASSUME NEW d \in Clients PROVE CallMark(d)'
    <2>1. CASE d = c
      BY <2>1, <1>1, <1>2, <1>3 DEF CallMark
    <2>2. CASE d # c
      <3>1. /\ CallMark(d) /\ api'[d] = api[d] /\ api[d].msg \in Msgs
            /\ api[d].copy.pk \in Nat
        <4>1. api[d] \in Call
          BY <1>1
        <4> QED
          BY <4>1, <1>2, <2>2, ConstantsAssumption DEF Marks, Call, Row
      <3>2. api[d].copy.pk < nextPk /\ api[d].copy.pk < nextPk'
        BY <3>1, <1>1, <1>3 DEF CallMark
      <3>3. CASE rows'[api[d].msg] = rows[api[d].msg]
        BY <3>1, <3>2, <3>3, <1>2 DEF CallMark
      <3>4. CASE api[d].msg = m /\ rows'[m].pk = nextPk
        BY <3>1, <3>2, <3>4, <1>1, <1>2 DEF CallMark
      <3> QED
        BY <3>1, <3>3, <3>4, <1>3
    <2> QED
      BY <2>1, <2>2
  <1> QED
    BY <1>4, <1>5 DEF Marks

\* A call's whole-row write reopens a row only when it excuses it, and settles
\* one again only if it was excused before.
LEMMA UpdatePendingMarks ==
  ASSUME IInv, Marks, NEW c \in Clients, UpdatePending(c)
  PROVE  Marks'
  <1> DEFINE m   == api[c].msg
             row == [api[c].copy EXCEPT !.deferred = api[c].new.deferred,
                                        !.kind = api[c].new.kind, !.prio = api[c].new.prio]
  <1>1. /\ m \in Msgs /\ api \in [Clients -> Call]
        /\ api[c].copy \in Row /\ api[c].new \in Row /\ TypeOK /\ nextPk \in Nat /\ 0 < nextPk
    BY Typed DEF IInv, Call
  <1>2. row \in Row /\ row.pk = api[c].copy.pk /\ row.processed = api[c].copy.processed
    BY <1>1 DEF Row
  <1>3. /\ \A x \in Msgs : rows'[x].pk = rows[x].pk
        /\ \A x \in Msgs : x # m => rows'[x] = rows[x]
        /\ \/ rows'[m] = rows[m]
           \/ rows'[m] = row /\ row.pk # 0 /\ row.pk = rows[m].pk
    <2>1. rows' = UpdateRow(m, row)
      BY DEF UpdatePending
    <2> HIDE DEF row
    <2> QED
      BY <1>1, <1>2, <2>1, UpdateRowFacts
  <1>4. /\ excused \subseteq excused'
        /\ row.pk # 0 /\ rows[m].pk = row.pk /\ rows[m].processed /\ ~row.processed
             => row.pk \in excused'
        /\ task' = task /\ nextPk' = nextPk
        /\ \A d \in Clients : d # c => api'[d] = api[d]
        /\ api'[c].copy.pk = 0
    BY <1>1 DEF UpdatePending, IdleCall, NoRow
  <1> HIDE DEF row
  <1>5. ASSUME NEW x \in Msgs PROVE TaskMark(x)'
    <2>1. TaskMark(x) /\ CallMark(c)
      BY DEF Marks
    <2>2. CASE rows'[x] = rows[x]
      BY <2>1, <2>2, <1>4 DEF TaskMark
    <2>3. CASE x = m /\ rows'[m] = row /\ row.pk # 0 /\ row.pk = rows[m].pk
      BY <2>1, <2>3, <1>2, <1>4 DEF TaskMark, CallMark
    <2> QED
      BY <2>2, <2>3, <1>3
  <1>6. ASSUME NEW d \in Clients PROVE CallMark(d)'
    <2>1. CASE d = c
      BY <2>1, <1>1, <1>4 DEF CallMark
    <2>2. CASE d # c
      <3>1. CallMark(d) /\ api'[d] = api[d] /\ api[d].msg \in Msgs
        BY <2>2, <1>4, Typed DEF Marks
      <3>2. CASE rows'[api[d].msg] = rows[api[d].msg]
        BY <3>1, <3>2, <1>4 DEF CallMark
      <3>3. CASE api[d].msg = m /\ rows'[m] = row /\ row.pk # 0 /\ row.pk = rows[m].pk
        BY <3>1, <3>3, <1>2, <1>4 DEF CallMark
      <3> QED
        BY <3>1, <3>2, <3>3, <1>3
    <2> QED
      BY <2>1, <2>2
  <1> QED
    BY <1>5, <1>6 DEF Marks

LEMMA RemoveMarks ==
  ASSUME IInv, Marks, NEW m \in Msgs, RemoveByPk(m)
  PROVE  Marks'
  <1>1. /\ rows \in [Msgs -> Row] /\ task' = task /\ api' = api
        /\ nextPk' = nextPk /\ excused' = excused
        /\ rows'[m].pk = 0 /\ ~rows'[m].processed
        /\ \A x \in Msgs : x # m => rows'[x] = rows[x]
    BY Typed DEF RemoveByPk, NoRow
  <1>2. \A x \in Msgs : TaskMark(x) => TaskMark(x)'
    BY <1>1 DEF TaskMark
  <1>3. \A c \in Clients : CallMark(c) => CallMark(c)'
    BY <1>1, Typed DEF CallMark
  <1> QED
    BY <1>2, <1>3 DEF Marks

\* The clock moves no row to another state a client sees.
LEMMA TimeMarks ==
  ASSUME IInv, Marks, NEW m \in Msgs, TimePasses(m)
  PROVE  Marks'
  <1>1. \A row \in Row : Kept(Due(row), row)
    BY DEF Kept, Due, Row
  <1>2. /\ rows \in [Msgs -> Row] /\ task \in [Msgs -> Task] /\ api \in [Clients -> Call]
        /\ nextPk' = nextPk /\ excused' = excused
    BY Typed DEF TimePasses
  <1>3. \A x \in Msgs : Kept(rows'[x], rows[x])
    BY <1>1, <1>2 DEF TimePasses, Kept
  <1>4. ASSUME NEW x \in Msgs
        PROVE  \/ task'[x].pc = "off" /\ ~task'[x].copy.processed
               \/ /\ task[x].pc # "off" /\ task'[x].entry = task[x].entry
                  /\ Kept(task'[x].copy, task[x].copy)
    <2>1. TaskFine(x, task[x]) /\ task[x] \in Task /\ task[x].copy \in Row
      BY <1>2 DEF IInv, Task
    <2>2. /\ task'[x].pc = task[x].pc /\ task'[x].entry = task[x].entry
          /\ \/ task'[x].copy = task[x].copy
             \/ task'[x].copy = Due(task[x].copy)
      BY <1>2, <2>1 DEF TimePasses, Task
    <2>3. Kept(task'[x].copy, task[x].copy)
      BY <1>1, <2>1, <2>2 DEF Kept
    <2>4. task[x].pc = "off" => ~task[x].copy.processed
      BY <2>1 DEF TaskFine, IdleTask, NoRow
    <2> QED
      BY <2>2, <2>3, <2>4 DEF Kept
  <1>5. ASSUME NEW c \in Clients
        PROVE  api'[c].msg = api[c].msg /\ Kept(api'[c].copy, api[c].copy)
    <2>1. api[c] \in Call /\ api[c].copy \in Row
      BY <1>2 DEF Call
    <2>2. /\ api'[c].msg = api[c].msg
          /\ api'[c].copy = api[c].copy \/ api'[c].copy = Due(api[c].copy)
      BY <2>1 DEF TimePasses, Call
    <2> QED
      BY <1>1, <2>1, <2>2 DEF Kept
  <1> QED
    BY <1>2, <1>3, <1>4, <1>5, QuietMarks

\* Failures only end tasks and calls; a cycle starts tasks for pending rows.
LEMMA TasksEndMarks ==
  ASSUME IInv, Marks, \/ \E m \in Msgs : TaskFails(m)
                      \/ Crash
                      \/ ProcessCycle
  PROVE  Marks'
  <1>1. /\ rows' = rows /\ nextPk' = nextPk /\ excused \subseteq excused'
        /\ task \in [Msgs -> Task] /\ \A x \in Msgs : TaskFine(x, task[x])
    BY Typed DEF TaskFails, Crash, ProcessCycle, IInv
  <1>2. IdleTask.pc = "off" /\ ~IdleTask.copy.processed
    BY DEF IdleTask, NoRow
  <1>3. ASSUME NEW x \in Msgs
        PROVE  \/ task'[x].pc = "off" /\ ~task'[x].copy.processed
               \/ ~rows[x].processed /\ ~task'[x].copy.processed
               \/ task[x].pc # "off" /\ task'[x] = task[x]
    <2>1. task[x].pc = "off" => task[x] = IdleTask
      BY <1>1 DEF TaskFine
    <2>2. CASE (\E m \in Msgs : TaskFails(m)) \/ Crash
      <3>1. task'[x] = task[x] \/ task'[x] = IdleTask
        BY <2>2, <1>1 DEF TaskFails, Crash
      <3> QED
        BY <3>1, <2>1, <1>2
    <2>3. CASE ProcessCycle
      <3>1. CASE x \in DispatchBatch(FetchReady)
        <4>1. ~rows[x].processed
          BY <3>1 DEF DispatchBatch, FetchReady, Ready
        <4>2. task'[x].copy = NoRow
          BY <3>1, <2>3 DEF ProcessCycle, IdleTask
        <4> QED
          BY <4>1, <4>2 DEF NoRow
      <3>2. CASE x \notin DispatchBatch(FetchReady)
        BY <3>2, <2>1, <2>3, <1>2 DEF ProcessCycle
      <3> QED
        BY <3>1, <3>2
    <2> QED
      BY <2>2, <2>3
  <1>4. ASSUME NEW c \in Clients
        PROVE  api'[c].copy.pk = 0 \/ api'[c] = api[c]
    <2>1. IdleCall.copy.pk = 0
      BY DEF IdleCall, NoRow
    <2>2. api' = api \/ api' = [d \in Clients |-> IdleCall]
      BY DEF TaskFails, Crash, ProcessCycle
    <2> QED
      BY <2>1, <2>2
  <1>5. \A x \in Msgs : Kept(rows'[x], rows[x]) /\ Kept(task[x].copy, task[x].copy)
    BY <1>1 DEF Kept
  <1>6. \A c \in Clients : Kept(api[c].copy, api[c].copy)
    BY DEF Kept
  <1> QED
    BY <1>1, <1>3, <1>4, <1>5, <1>6, QuietMarks

LEMMA NextMarks == IInv /\ Marks /\ [Next]_vars => Marks'
  <1> SUFFICES ASSUME IInv, Marks, [Next]_vars PROVE Marks'
    OBVIOUS
  <1>1. CASE (\E m \in Msgs : TaskFails(m)) \/ Crash \/ ProcessCycle
    BY <1>1, TasksEndMarks
  <1>2. ASSUME NEW m \in Msgs, TaskStep(m) PROVE Marks'
    BY <1>2, TaskQuietMarks, TaskWritesRow DEF TaskStep
  <1>3. CASE \E c \in Clients, m \in Msgs, p \in Priorities, k \in Kinds, s \in Schedules :
                LookupExisting(c, m, p, k, s)
    BY <1>3, LookupMarks
  <1>4. CASE \E c \in Clients : CallStep(c)
    BY <1>4, InsertNewMarks, SelectPendingMarks, UpdatePendingMarks DEF CallStep
  <1>5. CASE \E m \in Msgs : RemoveByPk(m)
    BY <1>5, RemoveMarks
  <1>6. CASE \/ \E b \in Suspendable : SuspendBatch(b) \/ ActivateBatch(b)
             \/ UNCHANGED vars
    <2>1. task' = task /\ rows' = rows /\ nextPk' = nextPk /\ excused' = excused /\ api' = api
      BY <1>6 DEF SuspendBatch, ActivateBatch, vars
    <2> QED
      BY <2>1, CallQuietMarks
  <1>7. CASE \E m \in Msgs : TimePasses(m)
    BY <1>7, TimeMarks
  <1> QED
    BY <1>1, <1>2, <1>3, <1>4, <1>5, <1>6, <1>7 DEF Next

-----------------------------------------------------------------------------
(* What a client sees before and after a step.                             *)

States == [pk \in Pks |-> StateOf(pk)]

Told == [i \in DOMAIN events |-> <<events[i].pk, events[i].type>>]

Shown == <<States, delivered, Told, excused>>

\* Rows that are kept look as before.
LEMMA SameStates ==
  ASSUME nextPk' = nextPk, \A m \in Msgs : Kept(rows'[m], rows[m])
  PROVE  States' = States
  <1>1. \A pk \in Pks : StateOf(pk)' = StateOf(pk)
    BY DEF StateOf, Kept
  <1> QED
    BY <1>1 DEF States

\* One row looks different.
LEMMA OneState ==
  ASSUME NEW p \in Pks, NEW s, StateOf(p)' = s,
         \A q \in Pks : q # p => StateOf(q)' = StateOf(q)
  PROVE  States' = [States EXCEPT ![p] = s]
  BY DEF States

\* The row of m is the only one that changes, and it keeps its key.
LEMMA RowChanges ==
  ASSUME IInv, NEW m \in Msgs, rows[m].pk # 0, nextPk' = nextPk,
         rows'[m].pk = rows[m].pk,
         \A x \in Msgs : x # m => rows'[x] = rows[x]
  PROVE  /\ rows[m].pk \in Pks
         /\ States[rows[m].pk] = IF rows[m].processed THEN "processed" ELSE "pending"
         /\ States' = [States EXCEPT ![rows[m].pk] =
                         IF rows'[m].processed THEN "processed" ELSE "pending"]
  <1> DEFINE p == rows[m].pk
  <1>1. /\ p \in Pks /\ p < nextPk /\ nextPk \in Nat
        /\ \A x \in Msgs : x # m => rows[x].pk # p
    <2>1. rows[m] \in Row /\ p < nextPk /\ nextPk \in Nat
      BY Typed
    <2>2. KeysApart
      BY DEF IInv
    <2> QED
      BY <2>1, <2>2 DEF Row, Pks, KeysApart
  <1>2. StateOf(p) = IF rows[m].processed THEN "processed" ELSE "pending"
    BY <1>1 DEF StateOf, Pks
  <1>3. StateOf(p)' = IF rows'[m].processed THEN "processed" ELSE "pending"
    BY <1>1 DEF StateOf, Pks
  <1>4. \A q \in Pks : q # p => StateOf(q)' = StateOf(q)
    BY DEF StateOf
  <1> QED
    BY <1>1, <1>2, <1>3, <1>4, OneState DEF States

\* What has been told, as Outbox knows it.
LEMMA OutcomeTold ==
  ASSUME NEW p, HasOutcome(p)
  PROVE  O!HasFinal(p)
  BY DEF HasOutcome, O!HasFinal, O!Final

-----------------------------------------------------------------------------
(* The steps.                                                              *)

\* A row is written back.
LEMMA WriteSimulates ==
  ASSUME IInv, NEW m \in Msgs, NEW r \in Row, rows' = UpdateRow(m, r),
         nextPk' = nextPk, events' = events, delivered' = delivered,
         r.pk # 0 /\ r.pk = rows[m].pk /\ r.processed => HasOutcome(r.pk),
         excused' = IF r.pk # 0 /\ r.pk = rows[m].pk /\ rows[m].processed /\ ~r.processed
                    THEN excused \cup {r.pk} ELSE excused
  PROVE  O!Next \/ UNCHANGED Shown
  <1>1. TypeOK
    BY DEF IInv
  <1>2. /\ \A x \in Msgs : x # m => rows'[x] = rows[x]
        /\ \/ rows'[m] = rows[m] /\ (r.pk = 0 \/ r.pk # rows[m].pk)
           \/ rows'[m] = r /\ r.pk # 0 /\ r.pk = rows[m].pk
    <2>1. /\ \A x \in Msgs : x # m => UpdateRow(m, r)[x] = rows[x]
          /\ \/ UpdateRow(m, r)[m] = rows[m] /\ (r.pk = 0 \/ r.pk # rows[m].pk)
             \/ UpdateRow(m, r)[m] = r /\ r.pk # 0 /\ r.pk = rows[m].pk
      BY ONLY <1>1, UpdateRowFacts, m \in Msgs, r \in Row
    <2> QED
      BY <2>1
  <1>3. Told' = Told
    BY DEF Told
  <1>4. CASE rows'[m] = rows[m] /\ (r.pk = 0 \/ r.pk # rows[m].pk)
    <2>1. States' = States
      BY <1>2, <1>4, SameStates DEF Kept
    <2> QED
      BY <1>3, <1>4, <2>1 DEF Shown
  <1>5. CASE rows'[m] = r /\ r.pk # 0 /\ r.pk = rows[m].pk
    <2>1. /\ r.pk \in Pks
          /\ States[r.pk] = IF rows[m].processed THEN "processed" ELSE "pending"
          /\ States' = [States EXCEPT ![r.pk] = IF r.processed THEN "processed" ELSE "pending"]
      BY <1>2, <1>5, RowChanges
    <2>2. CASE rows[m].processed = r.processed
      <3>1. \A x \in Msgs : Kept(rows'[x], rows[x])
        BY <1>2, <1>5, <2>2 DEF Kept
      <3>2. States' = States
        BY <3>1, SameStates
      <3>3. excused' = excused
        BY <2>2
      <3> QED
        BY <1>3, <3>2, <3>3 DEF Shown
    <2>3. CASE ~rows[m].processed /\ r.processed
      <3>1. O!HasFinal(r.pk)
        BY <1>5, <2>3, OutcomeTold
      <3>2. O!Settle(r.pk)
        BY <1>3, <2>1, <2>3, <3>1 DEF O!Settle, States, Told
      <3> QED
        BY <2>1, <3>2 DEF O!Next, O!Step
    <2>4. CASE rows[m].processed /\ ~r.processed
      <3>1. O!Reopen(r.pk)
        BY <1>3, <1>5, <2>1, <2>4 DEF O!Reopen, States, Told
      <3> QED
        BY <2>1, <3>1 DEF O!Next, O!Step
    <2> QED
      BY <2>2, <2>3, <2>4, <1>1 DEF TypeOK, Row
  <1> QED
    BY <1>2, <1>4, <1>5

\* clear_deferred, update_payload and the marking of the outcome.
LEMMA TaskWriteSimulates ==
  ASSUME IInv, Marks, NEW m \in Msgs, ClearDeferred(m) \/ UpdatePayload(m) \/ UpdateMark(m)
  PROVE  O!Next \/ UNCHANGED Shown
  <1>1. /\ TypeOK /\ TaskFine(m, task[m]) /\ TaskMark(m)
        /\ task[m] \in Task /\ task[m].copy \in Row /\ task[m].pc # "off"
    <2>1. task[m] \in Task
      BY Typed
    <2> QED
      BY <2>1 DEF IInv, Marks, Task, ClearDeferred, UpdatePayload, UpdateMark
  <1>2. PICK r \in Row : /\ rows' = UpdateRow(m, r) /\ r.pk = task[m].copy.pk
                         /\ r.processed /\ r.pk # 0 => HasOutcome(r.pk)
    <2>1. CASE ClearDeferred(m)
      <3>1. [task[m].copy EXCEPT !.deferred = "null"] \in Row
        BY <1>1 DEF Row, Deferrals
      <3> QED
        BY <3>1, <2>1, <1>1 DEF Row, ClearDeferred, TaskFine
    <2>2. CASE UpdatePayload(m)
      <3>1. [task[m].copy EXCEPT !.kind = "wrapped"] \in Row
        BY <1>1 DEF Row, PayloadKinds
      <3> QED
        BY <3>1, <2>2, <1>1 DEF Row, UpdatePayload, TaskFine
    <2>3. CASE UpdateMark(m)
      <3>1. /\ Marked(task[m].copy, task[m].verdict) \in Row
            /\ Marked(task[m].copy, task[m].verdict).pk = task[m].copy.pk
            /\ Marked(task[m].copy, task[m].verdict).processed <=> task[m].verdict # "deferred"
        BY <1>1 DEF Row, Marked, Deferrals
      <3>2. task[m].copy.pk # 0 /\ task[m].verdict # "deferred" => HasOutcome(task[m].copy.pk)
        <4>1. task[m].pc = "settle" /\ task[m].verdict \in Verdicts
          BY <1>1, <2>3 DEF UpdateMark, Task
        <4>2. task[m].verdict # "deferred" => task[m].verdict \in {"sent", "error"}
          BY <1>1, <4>1 DEF TaskFine, Verdicts
        <4> QED
          BY <1>1, <4>1, <4>2 DEF TaskFine
      <3> QED
        BY <3>1, <3>2, <2>3 DEF UpdateMark
    <2> QED
      BY <2>1, <2>2, <2>3
  <1>3. /\ nextPk' = nextPk /\ events' = events /\ delivered' = delivered
        /\ excused' = excused
    BY DEF ClearDeferred, UpdatePayload, UpdateMark
  <1>4. r.pk # 0 /\ r.pk = rows[m].pk /\ rows[m].processed => r.pk \in excused
    BY <1>1, <1>2 DEF TaskFine, TaskMark
  <1>5. excused' = IF r.pk # 0 /\ r.pk = rows[m].pk /\ rows[m].processed /\ ~r.processed
                   THEN excused \cup {r.pk} ELSE excused
    BY <1>3, <1>4
  <1> QED
    BY <1>2, <1>3, <1>5, WriteSimulates

\* The UPDATE of a re-submission.
LEMMA CallWriteSimulates ==
  ASSUME IInv, NEW c \in Clients, UpdatePending(c)
  PROVE  O!Next \/ UNCHANGED Shown
  <1> DEFINE m   == api[c].msg
             row == [api[c].copy EXCEPT !.deferred = api[c].new.deferred,
                                        !.kind = api[c].new.kind, !.prio = api[c].new.prio]
  <1>1. m \in Msgs /\ api[c] \in Call /\ CallFine(api[c])
    BY Typed DEF IInv
  <1>2. /\ row \in Row /\ row.pk = api[c].copy.pk /\ row.processed = api[c].copy.processed
    BY <1>1 DEF Row, Call
  <1>3. row.processed => HasOutcome(row.pk)
    BY <1>1, <1>2 DEF CallFine
  <1>4. /\ rows' = UpdateRow(m, row) /\ nextPk' = nextPk
        /\ events' = events /\ delivered' = delivered
        /\ excused' = IF row.pk # 0 /\ row.pk = rows[m].pk /\ rows[m].processed /\ ~row.processed
                      THEN excused \cup {row.pk} ELSE excused
    BY DEF UpdatePending
  <1> HIDE DEF m, row
  <1> QED
    BY <1>1, <1>2, <1>3, <1>4, WriteSimulates

\* A row is inserted.
LEMMA InsertSimulates ==
  ASSUME IInv, NEW c \in Clients, InsertNew(c)
  PROVE  O!Next \/ UNCHANGED Shown
  <1> DEFINE m == api[c].msg
  <1>1. /\ m \in Msgs /\ api[c].new \in Row /\ ~api[c].new.processed
        /\ rows \in [Msgs -> Row] /\ nextPk \in Nat /\ 0 < nextPk
        /\ \A x \in Msgs : rows[x].pk \in Nat /\ rows[x].pk < nextPk
    <2>1. CallFine(api[c])
      BY DEF IInv
    <2> QED
      BY <2>1, Typed DEF Call, CallFine
  <1>2. delivered' = delivered /\ excused' = excused /\ Told' = Told
    BY DEF InsertNew, Told
  <1>3. CASE rows[m].pk # 0
    <2>1. \A x \in Msgs : Kept(rows'[x], rows[x])
      BY <1>3 DEF InsertNew, Kept
    <2>2. nextPk' = nextPk
      BY <1>3 DEF InsertNew
    <2> QED
      BY <1>2, <2>1, <2>2, SameStates DEF Shown
  <1>4. CASE rows[m].pk = 0
    <2>1. /\ nextPk \in Pks /\ nextPk' = nextPk + 1
          /\ \A x \in Msgs : x # m => rows'[x] = rows[x]
          /\ rows'[m].pk = nextPk /\ ~rows'[m].processed
      BY <1>1, <1>4, ConstantsAssumption DEF InsertNew, Row, Pks
    <2>2. PICK p \in Pks : p = nextPk
      BY <2>1
    <2>3. StateOf(p) = "none"
      BY <1>1, <2>2 DEF StateOf
    <2>4. StateOf(p)' = "pending"
      <3>1. ~(p >= nextPk') /\ \A x \in Msgs : rows'[x].pk = p => x = m
        BY <1>1, <2>1, <2>2
      <3> QED
        BY <1>1, <2>1, <2>2, <3>1 DEF StateOf
    <2>5. ASSUME NEW q \in Pks, q # p PROVE StateOf(q)' = StateOf(q)
      <3>1. q \in Nat /\ q # 0 /\ (q >= nextPk' <=> q >= nextPk)
        BY <1>1, <2>1, <2>2, <2>5, ConstantsAssumption DEF Pks
      <3>2. ASSUME NEW x \in Msgs
            PROVE  /\ rows'[x].pk = q <=> rows[x].pk = q
                   /\ rows[x].pk = q => rows'[x] = rows[x]
        BY <1>4, <2>1, <2>2, <2>5, <3>1
      <3> QED
        BY <3>1, <3>2 DEF StateOf
    <2>6. O!Accept(p)
      <3>1. States' = [States EXCEPT ![p] = "pending"]
        BY <2>4, <2>5, OneState
      <3> QED
        BY <1>2, <2>3, <3>1 DEF O!Accept, States, Told
    <2> QED
      BY <2>6 DEF O!Next, O!Step
  <1> QED
    BY <1>3, <1>4

\* remove_by_pk.
LEMMA RemoveSimulates ==
  ASSUME IInv, NEW m \in Msgs, RemoveByPk(m)
  PROVE  O!Next \/ UNCHANGED Shown
  <1>1. PICK p : p = rows[m].pk
    OBVIOUS
  <1>2. /\ p \in Pks /\ p # 0 /\ p < nextPk /\ nextPk \in Nat /\ p \in Nat
        /\ \A x \in Msgs : x # m => rows[x].pk # p
    <2>1. rows[m] \in Row /\ p < nextPk /\ nextPk \in Nat
      BY <1>1, Typed
    <2>2. KeysApart
      BY DEF IInv
    <2> QED
      BY <1>1, <2>1, <2>2, ConstantsAssumption DEF Row, Pks, KeysApart, RemoveByPk
  <1>3. /\ nextPk' = nextPk /\ delivered' = delivered /\ excused' = excused
        /\ rows'[m].pk = 0
        /\ \A x \in Msgs : x # m => rows'[x] = rows[x]
    BY Typed DEF RemoveByPk, NoRow
  <1>4. Told' = Told
    BY DEF RemoveByPk, Told
  <1>5. StateOf(p) \in {"pending", "processed"}
    BY <1>1, <1>2 DEF StateOf
  <1>6. StateOf(p)' = "removed"
    <2>1. ~(p >= nextPk') /\ \A x \in Msgs : rows'[x].pk # p
      BY <1>2, <1>3
    <2> QED
      BY <2>1 DEF StateOf
  <1>7. ASSUME NEW q \in Pks, q # p PROVE StateOf(q)' = StateOf(q)
    <2>1. \A x \in Msgs : /\ rows'[x].pk = q <=> rows[x].pk = q
                          /\ rows[x].pk = q => rows'[x] = rows[x]
      <3>1. q # 0
        BY DEF Pks
      <3> QED
        BY <1>1, <1>3, <1>7, <3>1
    <2> QED
      BY <1>3, <2>1 DEF StateOf
  <1>8. O!Remove({p})
    <2>1. States' = [q \in Pks |-> IF q \in {p} THEN "removed" ELSE States[q]]
      BY <1>2, <1>6, <1>7 DEF States
    <2> QED
      BY <1>2, <1>3, <1>4, <1>5, <2>1 DEF O!Remove, States, Told
  <1> QED
    BY <1>2, <1>8 DEF O!Next, O!Step

\* Steps that change no row, no event and no delivery.
LEMMA HiddenSimulates ==
  ASSUME rows' = rows, nextPk' = nextPk, events' = events,
         delivered' = delivered, excused' = excused
  PROVE  UNCHANGED Shown
  <1>1. States' = States
    BY SameStates DEF Kept
  <1> QED
    BY <1>1 DEF Shown, Told

\* The clock moves no row to another state a client sees.
LEMMA TimeSimulates ==
  ASSUME IInv, NEW m \in Msgs, TimePasses(m)
  PROVE  UNCHANGED Shown
  <1>1. \A x \in Msgs : Kept(rows'[x], rows[x])
    <2>1. rows \in [Msgs -> Row]
      BY Typed
    <2> QED
      BY <2>1, DueFacts DEF TimePasses, Kept
  <1>2. States' = States
    BY <1>1, SameStates DEF TimePasses
  <1> QED
    BY <1>2 DEF TimePasses, Shown, Told

\* A failure forgets only what was delivered.
LEMMA FaultSimulates ==
  ASSUME IInv, (\E m \in Msgs : TaskFails(m)) \/ Crash
  PROVE  O!Next \/ UNCHANGED Shown
  <1>1. ASSUME NEW x \in Msgs, Unrecorded(x)
        PROVE  task[x].entry.pk \in Pks /\ delivered[task[x].entry.pk] > 0
    BY <1>1 DEF IInv, TaskFine, Unrecorded
  <1>2. /\ rows' = rows /\ nextPk' = nextPk /\ events' = events /\ delivered' = delivered
    BY DEF TaskFails, Crash
  <1>3. States' = States /\ Told' = Told
    BY <1>2, SameStates DEF Kept, Told
  <1>4. \/ excused' = excused
        \/ \E P \in SUBSET {p \in Pks : delivered[p] > 0} : excused' = excused \cup P
    <2>1. ASSUME NEW m \in Msgs, TaskFails(m), Unrecorded(m)
          PROVE  \E P \in SUBSET {p \in Pks : delivered[p] > 0} : excused' = excused \cup P
      <3>1. {task[m].entry.pk} \in SUBSET {p \in Pks : delivered[p] > 0}
        BY <1>1, <2>1
      <3>2. excused' = excused \cup {task[m].entry.pk}
        BY <2>1 DEF TaskFails
      <3> QED
        BY <3>1, <3>2
    <2>2. ASSUME NEW m \in Msgs, TaskFails(m), ~Unrecorded(m)
          PROVE  excused' = excused
      BY <2>2 DEF TaskFails
    <2>3. CASE Crash
      <3> DEFINE P == {task[m].entry.pk : m \in {x \in Msgs : Unrecorded(x)}}
      <3>1. P \in SUBSET {p \in Pks : delivered[p] > 0}
        BY <1>1
      <3>2. excused' = excused \cup P
        BY <2>3 DEF Crash
      <3> HIDE DEF P
      <3> QED
        BY <3>1, <3>2
    <2> QED
      BY <2>1, <2>2, <2>3
  <1>5. CASE excused' = excused
    BY <1>2, <1>3, <1>5 DEF Shown
  <1>6. CASE \E P \in SUBSET {p \in Pks : delivered[p] > 0} : excused' = excused \cup P
    <2>1. O!Forget
      BY <1>2, <1>3, <1>6 DEF O!Forget, States, Told
    <2> QED
      BY <2>1 DEF O!Next, O!Step
  <1> QED
    BY <1>4, <1>5, <1>6

\* The SMTP server takes the message.
LEMMA DeliverSimulates ==
  ASSUME IInv, NEW m \in Msgs, task[m].pc = "send",
         rows' = rows, nextPk' = nextPk, events' = events, Accept(m),
         excused' \in {excused, excused \cup {task[m].entry.pk}}
  PROVE  O!Next
  <1>1. PICK p : p = task[m].entry.pk
    OBVIOUS
  <1>2. TypeOK /\ TaskFine(m, task[m]) /\ Once
    BY DEF IInv
  <1>3. p \in Pks /\ p < nextPk /\ nextPk \in Nat /\ p \in Nat
    BY <1>1, <1>2, Typed, ConstantsAssumption DEF TaskFine, Pks
  <1>4. States[p] # "none"
    BY <1>3 DEF States, StateOf
  <1>5. delivered[p] > 0 => p \in excused
    <2> SUFFICES ASSUME delivered[p] > 0, p \notin excused PROVE FALSE
      OBVIOUS
    <2>1. DeliveredOnce(p)
      BY <1>2, <1>3 DEF Once, TypeOK
    <2>2. task[m].verdict = "sent"
      BY <1>1, <2>1 DEF DeliveredOnce
    <2> QED
      BY <1>2, <2>2 DEF TaskFine
  <1>6. States' = States /\ Told' = Told
    BY SameStates DEF Kept, Told
  <1>7. delivered' = [delivered EXCEPT ![p] = @ + 1]
    BY <1>1 DEF Accept
  <1>8. O!Deliver(p)
    BY <1>1, <1>4, <1>5, <1>6, <1>7 DEF O!Deliver, States, Told
  <1> QED
    BY <1>3, <1>8 DEF O!Next, O!Step

\* The outcome is recorded.
LEMMA TellSimulates ==
  ASSUME IInv, NEW m \in Msgs, InsertEvent(m)
  PROVE  O!Next
  <1>1. PICK p, type : p = task[m].entry.pk /\ type = task[m].verdict
    OBVIOUS
  <1>2. TypeOK /\ TaskFine(m, task[m]) /\ task[m] \in Task /\ task[m].pc = "event"
    BY Typed DEF IInv, InsertEvent
  <1>3. /\ p \in Pks /\ p < nextPk /\ nextPk \in Nat /\ p \in Nat
        /\ type \in {"sent", "error", "deferred"}
        /\ type = "sent" => delivered[p] > 0
    BY <1>1, <1>2, Typed, ConstantsAssumption DEF TaskFine, Pks, Task, Verdicts
  <1>4. States[p] # "none"
    BY <1>3 DEF States, StateOf
  <1>5. States' = States /\ delivered' = delivered /\ excused' = excused
    BY SameStates DEF Kept, InsertEvent
  <1>6. Told' = Append(Told, <<p, type>>)
    <2> DEFINE e == [pk |-> p, type |-> type, why |-> task[m].why]
    <2>1. e \in Event /\ events \in Seq(Event)
      BY <1>2, <1>3 DEF Event, Verdicts, Task, TypeOK
    <2>2. events' = Append(events, e)
      BY <1>1 DEF InsertEvent
    <2>3. e.pk = p /\ e.type = type
      OBVIOUS
    <2> HIDE DEF e
    <2>4. /\ DOMAIN events' = DOMAIN events \cup {Len(events) + 1}
          /\ events'[Len(events) + 1] = e
          /\ \A i \in DOMAIN events : events'[i] = events[i]
      BY <2>1, <2>2
    <2>5. ASSUME NEW i \in DOMAIN events
          PROVE  events[i].pk \in Pks /\ events[i].type \in Verdicts
      <3>1. events[i] \in Event
        BY ONLY <2>1, i \in DOMAIN events
      <3> QED
        BY <3>1 DEF Event
    <2>6. Told \in Seq(Pks \X Verdicts) /\ Len(Told) = Len(events)
      BY <2>1, <2>5 DEF Told
    <2>7. /\ DOMAIN Told' = DOMAIN Told \cup {Len(Told) + 1}
          /\ Told'[Len(Told) + 1] = <<p, type>>
          /\ \A i \in DOMAIN Told : Told'[i] = Told[i]
      BY <2>1, <2>3, <2>4 DEF Told
    <2>8. PICK T, U : T = Told /\ U = Told'
      OBVIOUS
    <2>9. U = [i \in DOMAIN U |-> U[i]]
      BY <2>8 DEF Told
    <2>10. T \in Seq(Pks \X Verdicts) /\ <<p, type>> \in Pks \X Verdicts
      BY <1>3, <2>6, <2>8 DEF Verdicts
    <2>11. /\ DOMAIN U = DOMAIN T \cup {Len(T) + 1}
           /\ U[Len(T) + 1] = <<p, type>>
           /\ \A i \in DOMAIN T : U[i] = T[i]
      BY <2>7, <2>8
    <2>12. U = Append(T, <<p, type>>)
      BY ONLY <2>9, <2>10, <2>11
    <2> QED
      BY <2>8, <2>12
  <1>7. O!Tell(p, type)
    BY <1>3, <1>4, <1>5, <1>6 DEF O!Tell, States, Told
  <1> QED
    BY <1>3, <1>7 DEF O!Next, O!Step, O!Outcomes

LEMMA TaskSimulates ==
  ASSUME IInv, Marks, NEW m \in Msgs, TaskStep(m)
  PROVE  O!Next \/ UNCHANGED Shown
  <1>1. CASE ClearDeferred(m) \/ UpdatePayload(m) \/ UpdateMark(m)
    BY <1>1, TaskWriteSimulates
  <1>2. CASE InsertEvent(m)
    BY <1>2, TellSimulates
  <1>3. CASE SendMessage(m)
    <2>1. CASE Accept(m)
      BY <1>3, <2>1, DeliverSimulates DEF SendMessage
    <2>2. CASE delivered' = delivered /\ excused' = excused
      BY <1>3, <2>2, HiddenSimulates DEF SendMessage
    <2> QED
      BY <1>3, <2>1, <2>2 DEF SendMessage
  <1>4. CASE \/ Start(m) \/ SelectForPayload(m) \/ SelectForMark(m)
             \/ BuildEmail(m) \/ NoAccount(m) \/ RateLimited(m) \/ Admitted(m)
    <2>1. /\ rows' = rows /\ nextPk' = nextPk /\ events' = events
          /\ delivered' = delivered /\ excused' = excused
      BY <1>4 DEF Start, SelectForPayload, SelectForMark, BuildEmail, NoAccount,
                  RateLimited, Admitted
    <2> QED
      BY <2>1, HiddenSimulates
  <1> QED
    BY <1>1, <1>2, <1>3, <1>4 DEF TaskStep

LEMMA NextSimulates ==
  ASSUME IInv, Marks, [Next]_vars
  PROVE  O!Next \/ UNCHANGED Shown
  <1>1. ASSUME NEW m \in Msgs, TaskStep(m) PROVE O!Next \/ UNCHANGED Shown
    BY <1>1, TaskSimulates
  <1>2. CASE \E c \in Clients : InsertNew(c) \/ UpdatePending(c)
    BY <1>2, InsertSimulates, CallWriteSimulates
  <1>3. CASE \E m \in Msgs : RemoveByPk(m)
    BY <1>3, RemoveSimulates
  <1>4. CASE \E m \in Msgs : TimePasses(m)
    BY <1>4, TimeSimulates
  <1>5. CASE (\E m \in Msgs : TaskFails(m)) \/ Crash
    BY <1>5, FaultSimulates
  <1>6. CASE \/ ProcessCycle
             \/ \E c \in Clients, m \in Msgs, p \in Priorities, k \in Kinds, s \in Schedules :
                   LookupExisting(c, m, p, k, s)
             \/ \E c \in Clients : SelectPending(c)
             \/ \E b \in Suspendable : SuspendBatch(b) \/ ActivateBatch(b)
             \/ UNCHANGED vars
    <2>1. /\ rows' = rows /\ nextPk' = nextPk /\ events' = events
          /\ delivered' = delivered /\ excused' = excused
      BY <1>6 DEF ProcessCycle, LookupExisting, SelectPending, SuspendBatch,
                  ActivateBatch, vars
    <2> QED
      BY <2>1, HiddenSimulates
  <1> QED
    BY <1>1, <1>2, <1>3, <1>4, <1>5, <1>6 DEF Next, CallStep

LEMMA InitSimulates == Init => O!Init
  <1> SUFFICES ASSUME Init PROVE O!Init
    OBVIOUS
  <1>1. /\ \A m \in Msgs : rows[m].pk = 0
        /\ nextPk = 1 /\ events = <<>> /\ excused = {} /\ delivered = [p \in Pks |-> 0]
    BY DEF Init, NoRow
  <1>2. \A p \in Pks : StateOf(p) = "none"
    BY <1>1, ConstantsAssumption DEF StateOf, Pks
  <1>3. Told = <<>>
    BY <1>1 DEF Told
  <1> QED
    BY <1>1, <1>2, <1>3 DEF O!Init, Told

\* However the statements of tasks, calls and failures interleave, each row goes
\* through the life that Outbox describes: MailQueue implements Outbox.
THEOREM QueueImplementsOutbox == Spec => ImplementsOutbox
  <1>1. Init => IInv /\ Marks
    BY InitIInv, InitMarks
  <1>2. IInv /\ Marks /\ [Next]_vars => (IInv /\ Marks)'
    BY NextIInv, NextMarks
  <1>3. IInv /\ Marks /\ [Next]_vars => [O!Next]_(O!vars)
    BY NextSimulates DEF O!vars, Shown, States, Told
  <1> QED
    BY <1>1, <1>2, <1>3, InitSimulates, PTL DEF Spec, O!Spec, ImplementsOutbox
=============================================================================
