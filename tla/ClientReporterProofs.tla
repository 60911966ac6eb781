------------------------ MODULE ClientReporterProofs ------------------------
(***************************************************************************)
(* Proofs about ClientReporter, for any tenants, messages, batch size and  *)
(* bounds.                                                                 *)
(*                                                                         *)
(* What a tenant has received is remembered in acked until the end of the  *)
(* cycle and in the table afterwards; a failure in between is excused.     *)
(* That the payload of a call holds nothing of this kind, and leaves out   *)
(* no earlier event, needs to be known of the batch from the moment it is  *)
(* fetched: BatchFine.                                                     *)
(*                                                                         *)
(* A run-now request is a single variable that a cycle takes at its start. *)
(* Requests says where it is, from the command to the call: in runNow,     *)
(* with the event set, or with the cycle, whose two loops between them     *)
(* cannot pass its tenant by.                                              *)
(***************************************************************************)
EXTENDS ClientReporter, FiniteSetTheorems, SequenceTheorems, TLAPS

\* The batch of a cycle and the acknowledgements in it.
BatchFine ==
    /\ pc \in {"wait", "fetch"} => batch = {} /\ acked = {}
    /\ pc \in {"call", "beat"} => \A i \in batch : events[i].reported = "no"
    /\ pc = "retain" => \A i \in acked : events[i].reported # "no"
    /\ pc = "call" => \A i \in acked : TenantOfEvent(i) \notin todo
    /\ pc = "call" /\ post # Nobody => post \in todo
    /\ pc \notin {"call", "beat"} => post = Nobody
    /\ acked \subseteq received

\* An event of the batch has no predecessor, recorded earlier and not said to be
\* later, that is neither reported nor in it.
BatchInOrder ==
    \A i \in batch : \A j \in 1..(i - 1) :
        events[j].msg = events[i].msg /\ events[j].ts <= events[i].ts
            => j \in batch \/ events[j].reported # "no"

\* What was received and is not marked will be, or something failed.
ReceiptsKept ==
    \A i \in received : events[i].reported = "no" => i \in acked \/ i \in excused

IInv ==
    /\ TypeOK
    /\ BatchFine /\ BatchInOrder /\ ReceiptsKept
    /\ ReportedWasReceived /\ ReceivedTwiceOnlyIfExcused /\ ReceivedInOrder

-----------------------------------------------------------------------------
(* The event table. *)

LEMMA EventsDomain ==
  ASSUME TypeOK
  PROVE  /\ Len(events) \in Nat /\ DOMAIN events = 1..Len(events)
         /\ \A i \in DOMAIN events : events[i] \in Event
         /\ IsFiniteSet(DOMAIN events)
  <1>1. Len(events) \in Nat /\ DOMAIN events = 1..Len(events)
    BY LenProperties DEF TypeOK
  <1>2. \A i \in 1..Len(events) : events[i] \in Event
    BY ElementOfSeq DEF TypeOK
  <1>3. IsFiniteSet(1..Len(events))
    BY <1>1, FS_Interval
  <1> QED
    BY <1>1, <1>2, <1>3

\* A new event comes after all others and is not reported.
LEMMA Inserted ==
  ASSUME TypeOK, NEW m \in Msgs, NEW final \in BOOLEAN, NEW ts \in Stamps, InsertEvent(m, final, ts)
  PROVE  /\ events' \in Seq(Event) /\ Len(events') <= MaxEvents
         /\ DOMAIN events' = DOMAIN events \cup {Len(events) + 1}
         /\ Len(events) + 1 \notin DOMAIN events
         /\ \A i \in DOMAIN events : events'[i] = events[i]
         /\ events'[Len(events) + 1].reported = "no"
  <1> DEFINE e == [msg |-> m, final |-> final, ts |-> ts, reported |-> "no"]
  <1>1. e \in Event /\ events \in Seq(Event) /\ events' = Append(events, e)
    BY DEF Event, InsertEvent, TypeOK
  <1>2. /\ events' \in Seq(Event) /\ Len(events') = Len(events) + 1
        /\ \A i \in 1..Len(events) : events'[i] = events[i]
        /\ events'[Len(events) + 1] = e
    BY <1>1, AppendProperties
  <1>3. Len(events) < MaxEvents
    BY DEF InsertEvent
  <1> QED
    BY <1>2, <1>3, EventsDomain, LenProperties, ReporterAssumption

\* Marking events and letting reports age change reported_ts only.
LEMMA Remarked ==
  ASSUME TypeOK, NEW f,
         events' = [i \in DOMAIN events |-> [events[i] EXCEPT !.reported = f[i]]],
         \A i \in DOMAIN events : f[i] \in {"no", "recent", "old"}
  PROVE  /\ events' \in Seq(Event) /\ Len(events') = Len(events)
         /\ DOMAIN events' = DOMAIN events
         /\ \A i \in DOMAIN events : /\ events'[i].msg = events[i].msg
                                     /\ events'[i].ts = events[i].ts
                                     /\ events'[i].reported = f[i]
  <1>1. \A i \in DOMAIN events : /\ events'[i] \in Event
                                 /\ events'[i].msg = events[i].msg
                                 /\ events'[i].ts = events[i].ts
                                 /\ events'[i].reported = f[i]
    BY EventsDomain DEF Event
  <1>2. events' \in [1..Len(events) -> Event] /\ Len(events) \in Nat
    BY <1>1, EventsDomain
  <1> QED
    BY <1>1, <1>2, EventsDomain

\* LIMIT keeps the oldest: with an event it keeps every older one.
LEMMA OldestIsPrefix ==
  ASSUME TypeOK, NEW ids \in SUBSET DOMAIN events,
         NEW i \in Oldest(ids), NEW j \in ids, Before(j, i)
  PROVE  j \in Oldest(ids)
  <1> DEFINE before(k) == {x \in ids : Before(x, k)}
  <1>1. IsFiniteSet(ids) /\ i \in ids
    BY EventsDomain, FS_Subset DEF Oldest
  <1>2. ASSUME NEW x \in ids PROVE x \in Int /\ events[x].ts \in Nat
    <2>1. x \in 1..Len(events) /\ Len(events) \in Nat
      BY EventsDomain
    <2>2. events[x] \in Event
      BY EventsDomain
    <2>3. events[x].ts \in Stamps
      BY <2>2 DEF Event
    <2>4. x \in Int
      BY ONLY <2>1
    <2>5. Stamps \subseteq Nat
      BY ReporterAssumption
    <2> QED
      BY <2>3, <2>4, <2>5
  <1>3. ASSUME NEW x \in ids, Before(x, j) PROVE Before(x, i)
    <2>1. /\ x \in Int /\ j \in Int /\ i \in Int
          /\ events[x].ts \in Nat /\ events[j].ts \in Nat /\ events[i].ts \in Nat
      <3>1. x \in ids /\ j \in ids /\ i \in ids
        BY <1>1, <1>3
      <3> QED
        BY <1>2, <3>1
    <2>2. \/ events[x].ts < events[i].ts
          \/ events[x].ts = events[i].ts /\ x < i
      BY <1>3, <2>1 DEF Before
    <2> QED
      BY <2>2 DEF Before
  <1>4. IsFiniteSet(before(i)) /\ before(j) \subseteq before(i)
    BY <1>1, <1>3, FS_Subset
  <1>5. /\ Cardinality(before(i)) \in Nat /\ Cardinality(before(j)) \in Nat
        /\ Cardinality(before(j)) <= Cardinality(before(i))
    BY <1>4, FS_Subset, FS_CardinalityType
  <1>6. Cardinality(before(i)) < BatchSize
    BY DEF Oldest
  <1> QED
    BY <1>5, <1>6, ReporterAssumption DEF Oldest

-----------------------------------------------------------------------------
(* Types. *)

LEMMA InitIInv == Init => IInv
  <1> SUFFICES ASSUME Init PROVE IInv
    OBVIOUS
  <1> USE DEF Init
  <1>1. TypeOK
    <2>1. events \in Seq(Event) /\ Len(events) = 0
      BY EmptySeq
    <2>2. state \in [Msgs -> {"waiting", "processed", "gone"}] /\ mode \in [Tenants -> Modes]
      BY ReporterAssumption
    <2>3. 0 <= MaxEvents /\ faults \in 0..MaxFaults
      BY ReporterAssumption
    <2> QED
      BY <2>1, <2>2, <2>3 DEF TypeOK
  <1> QED
    BY <1>1 DEF IInv, BatchFine, BatchInOrder, ReceiptsKept, ReportedWasReceived,
       ReceivedTwiceOnlyIfExcused, ReceivedInOrder

\* The ids of a payload are of the batch.
LEMMA PayloadFine == Payload \subseteq batch
  BY DEF Payload

LEMMA TypeStep == TypeOK /\ [Next]_vars => TypeOK'
  <1> SUFFICES ASSUME TypeOK, [Next]_vars PROVE TypeOK'
    OBVIOUS
  <1> USE DEF cycle, tables, history
  <1>1. ASSUME NEW m \in Msgs, RecordEvent(m) PROVE TypeOK'
    <2>1. PICK final \in BOOLEAN, ts \in Stamps : InsertEvent(m, final, ts)
      BY <1>1 DEF RecordEvent
    <2> QED
      BY <1>1, <2>1, Inserted DEF RecordEvent, TypeOK
  <1>2. ASSUME NEW m \in Msgs, MarkProcessed(m) \/ Reopen(m) \/ DeleteMessage(m) PROVE TypeOK'
    BY <1>2 DEF MarkProcessed, Reopen, DeleteMessage, TypeOK
  <1>3. ASSUME NEW t \in Tenants, NEW new \in NewModes, SetMode(t, new) PROVE TypeOK'
    BY <1>3, ReporterAssumption DEF SetMode, TypeOK
  <1>4. ASSUME NEW t \in Tenants, RunNow(t) \/ IntervalElapses(t) PROVE TypeOK'
    BY <1>4 DEF RunNow, Owe, IntervalElapses, TypeOK
  <1>5. CASE WakeAll
    BY <1>5 DEF WakeAll, TypeOK
  <1>6. ASSUME NEW i \in Ids, ReportAges(i) PROVE TypeOK'
    <2> DEFINE f == [j \in DOMAIN events |-> IF j = i THEN "old" ELSE events[j].reported]
    <2>1. events' = [j \in DOMAIN events |-> [events[j] EXCEPT !.reported = f[j]]]
      BY <1>6, EventsDomain DEF ReportAges, Event
    <2>2. \A j \in DOMAIN events : f[j] \in {"no", "recent", "old"}
      BY EventsDomain DEF Event
    <2>3. events' \in Seq(Event) /\ Len(events') = Len(events) /\ DOMAIN events' = DOMAIN events
      <3> HIDE DEF f
      <3> QED
        BY <2>1, <2>2, Remarked
    <2> QED
      BY <1>6, <2>3 DEF ReportAges, TypeOK
  <1>7. CASE WaitForWakeup
    BY <1>7 DEF WaitForWakeup, BeginCycle, TypeOK
  <1>8. CASE FetchUnreported
    <2>1. batch' \subseteq DOMAIN events
      BY <1>8 DEF FetchUnreported, Oldest, Unreported
    <2>2. \A i \in DOMAIN events : TenantOfEvent(i) \in Tenants
      BY EventsDomain, ReporterAssumption DEF TenantOfEvent, Event
    <2> QED
      BY <1>8, <2>1, <2>2 DEF FetchUnreported, TypeOK
  <1>9. ASSUME NEW t \in Tenants, CallTenant(t) \/ CallIdleTenant(t) PROVE TypeOK'
    BY <1>9 DEF CallTenant, CallIdleTenant, TypeOK
  <1>10. CASE ListTenants
    BY <1>10 DEF ListTenants, TypeOK
  <1>11. ASSUME NEW t \in Tenants, Accepted(t) PROVE TypeOK'
    BY <1>11, PayloadFine DEF Accepted, Receive, TypeOK
  <1>12. ASSUME NEW t \in Tenants, Refused(t) PROVE TypeOK'
    BY <1>12, PayloadFine, ReporterAssumption DEF Refused, Receive, TypeOK
  <1>13. CASE MarkReported
    <2> DEFINE f == [i \in DOMAIN events |-> IF i \in acked THEN "recent" ELSE events[i].reported]
    <2>1. events' = [i \in DOMAIN events |-> [events[i] EXCEPT !.reported = f[i]]]
      BY <1>13, EventsDomain DEF MarkReported, Event
    <2>2. \A i \in DOMAIN events : f[i] \in {"no", "recent", "old"}
      BY EventsDomain DEF Event
    <2>3. events' \in Seq(Event) /\ Len(events') = Len(events) /\ DOMAIN events' = DOMAIN events
      <3> HIDE DEF f
      <3> QED
        BY <2>1, <2>2, Remarked
    <2> QED
      BY <1>13, <2>3 DEF MarkReported, TypeOK
  <1>14. CASE ApplyRetention
    BY <1>14 DEF ApplyRetention, BeginCycle, TypeOK
  <1>15. CASE CycleFails \/ Restart
    <2>1. /\ Abandon /\ UNCHANGED <<events, state, mode>>
          /\ due' \subseteq Tenants /\ runNow' \in Tenants \cup {Nobody}
          /\ wake' \in BOOLEAN /\ owed' = {}
      BY <1>15 DEF CycleFails, Restart, TypeOK
    <2>2. faults' \in 0..MaxFaults
      BY <2>1, ReporterAssumption DEF Abandon, TypeOK
    <2>3. again' \subseteq received' /\ received' \cup excused' \subseteq DOMAIN events
      BY <2>1, PayloadFine DEF Abandon, Receive, TypeOK
    <2> QED
      BY <2>1, <2>2, <2>3 DEF Abandon, TypeOK
  <1>16. CASE UNCHANGED vars
    BY <1>16 DEF vars, TypeOK
  <1> QED
    BY <1>1, <1>2, <1>3, <1>4, <1>5, <1>6, <1>7, <1>8, <1>9, <1>10, <1>11, <1>12, <1>13,
       <1>14, <1>15, <1>16, ReporterAssumption DEF Next, ReporterStep, TableStep, LoopStep, Answered

-----------------------------------------------------------------------------
(* The invariant. *)

\* Steps that touch neither events nor the cycle, or end a call without an answer.
LEMMA Frame ==
  ASSUME IInv, TypeOK', UNCHANGED <<events, batch, acked, history>>,
         pc' = pc, todo' \subseteq todo, pc' = "call" /\ post' # Nobody => post' \in todo',
         pc' \notin {"call", "beat"} => post' = Nobody
  PROVE  IInv'
  <1>1. BatchFine'
    BY DEF IInv, BatchFine, TenantOfEvent, history
  <1> QED
    BY <1>1 DEF IInv, BatchInOrder, ReceiptsKept, ReportedWasReceived,
       ReceivedTwiceOnlyIfExcused, ReceivedInOrder, history

\* A new event is in no batch, not received and not reported.
LEMMA InsertStep ==
  ASSUME IInv, TypeOK', NEW m \in Msgs, NEW final \in BOOLEAN, NEW ts \in Stamps,
         InsertEvent(m, final, ts), UNCHANGED <<pc, cycle, history>>
  PROVE  IInv'
  <1>0. TypeOK /\ UNCHANGED <<pc, batch, acked, todo, post, received, again, excused>>
    BY DEF IInv, cycle, history
  <1>1. /\ DOMAIN events' = DOMAIN events \cup {Len(events) + 1}
        /\ \A i \in DOMAIN events : events'[i] = events[i]
        /\ events'[Len(events) + 1].reported = "no"
    BY <1>0, Inserted
  <1>2. /\ acked \subseteq DOMAIN events /\ batch \subseteq DOMAIN events
        /\ received \subseteq DOMAIN events
    BY <1>0 DEF TypeOK
  <1>3. \A i \in DOMAIN events : \A j \in 1..(i - 1) : j \in DOMAIN events
    BY <1>0, EventsDomain
  <1>4. BatchFine'
    BY <1>0, <1>1, <1>2 DEF IInv, BatchFine, TenantOfEvent
  <1>5. BatchInOrder' /\ ReceivedInOrder'
    BY <1>0, <1>1, <1>2, <1>3 DEF IInv, BatchInOrder, ReceivedInOrder
  <1>6. ReceiptsKept' /\ ReportedWasReceived' /\ ReceivedTwiceOnlyIfExcused'
    BY <1>0, <1>1, <1>2 DEF IInv, ReceiptsKept, ReportedWasReceived, ReceivedTwiceOnlyIfExcused
  <1> QED
    BY <1>4, <1>5, <1>6 DEF IInv

\* A report that gets old stays a report.
LEMMA AgeStep ==
  ASSUME IInv, TypeOK', NEW i \in Ids, ReportAges(i)
  PROVE  IInv'
  <1>0. TypeOK /\ UNCHANGED <<pc, batch, acked, todo, post, received, again, excused>>
    BY DEF IInv, ReportAges, cycle, history
  <1>1. /\ DOMAIN events' = DOMAIN events
        /\ \A j \in DOMAIN events : /\ events'[j].msg = events[j].msg
                                    /\ events'[j].ts = events[j].ts
                                    /\ events'[j].reported = "no" <=> events[j].reported = "no"
    BY <1>0, EventsDomain DEF ReportAges, Event
  <1>2. /\ acked \subseteq DOMAIN events /\ batch \subseteq DOMAIN events
        /\ received \subseteq DOMAIN events
    BY <1>0 DEF TypeOK
  <1>3. \A k \in DOMAIN events : \A j \in 1..(k - 1) : j \in DOMAIN events
    BY <1>0, EventsDomain
  <1>4. BatchFine'
    BY <1>0, <1>1, <1>2 DEF IInv, BatchFine, TenantOfEvent
  <1>5. BatchInOrder' /\ ReceivedInOrder'
    BY <1>0, <1>1, <1>2, <1>3 DEF IInv, BatchInOrder, ReceivedInOrder
  <1>6. ReceiptsKept' /\ ReportedWasReceived' /\ ReceivedTwiceOnlyIfExcused'
    BY <1>0, <1>1, <1>2 DEF IInv, ReceiptsKept, ReportedWasReceived, ReceivedTwiceOnlyIfExcused
  <1> QED
    BY <1>4, <1>5, <1>6 DEF IInv

\* The batch is fetched with all that comes before it.
LEMMA FetchStep ==
  ASSUME IInv, TypeOK', FetchUnreported
  PROVE  IInv'
  <1>0. /\ TypeOK /\ pc = "fetch" /\ acked = {} /\ acked' = {}
        /\ batch' = Oldest(Unreported) /\ pc' = "call"
        /\ UNCHANGED <<events, state, post, received, again, excused>>
    BY DEF IInv, BatchFine, FetchUnreported, history, tables
  <1>1. /\ Unreported \in SUBSET DOMAIN events
        /\ \A i \in batch' : i \in Unreported /\ events[i].reported = "no"
    BY <1>0 DEF Unreported, Oldest
  <1>2. BatchInOrder'
    <2> SUFFICES ASSUME NEW i \in batch', NEW j \in 1..(i - 1), events[j].msg = events[i].msg,
                        events[j].ts <= events[i].ts, events[j].reported = "no"
                 PROVE  j \in batch'
      BY <1>0 DEF BatchInOrder
    <2>1. j \in Unreported /\ j < i /\ i \in DOMAIN events /\ j \in DOMAIN events
      BY <1>0, <1>1, EventsDomain DEF Unreported
    <2>2. events[j].ts \in Nat /\ events[i].ts \in Nat
      BY <1>0, <2>1, EventsDomain, ReporterAssumption DEF Event
    <2>3. Before(j, i)
      BY <2>1, <2>2 DEF Before
    <2> QED
      BY <1>0, <1>1, <2>1, <2>3, OldestIsPrefix
  <1>3. post = Nobody
    BY <1>0 DEF IInv, BatchFine
  <1> QED
    BY <1>0, <1>1, <1>2, <1>3 DEF IInv, BatchFine, ReceiptsKept, ReportedWasReceived,
       ReceivedTwiceOnlyIfExcused, ReceivedInOrder

\* A payload has nothing its tenant has received, unless something failed
\* before, and it leaves out nothing that comes before.
LEMMA PayloadIsNew ==
  ASSUME IInv, Receive(Payload)
  PROVE  /\ received' = received \cup Payload /\ again' \subseteq excused
         /\ \A i \in received' : \A j \in 1..(i - 1) :
               events[j].msg = events[i].msg /\ events[j].ts <= events[i].ts => j \in received'
  <1>1. received' = received \cup Payload /\ again' = again \cup (received \cap Payload)
    BY DEF Receive
  <1>2. ASSUME NEW i \in Payload
        PROVE  /\ pc = "call" /\ i \in batch /\ TenantOfEvent(i) = post
               /\ events[i].reported = "no" /\ post \in todo /\ i \notin acked
    BY <1>2 DEF Payload, IInv, BatchFine
  <1>3. received \cap Payload \subseteq excused
    BY <1>2 DEF IInv, ReceiptsKept
  <1>4. ASSUME NEW i \in Payload, NEW j \in 1..(i - 1), events[j].msg = events[i].msg,
               events[j].ts <= events[i].ts
        PROVE  j \in received \cup Payload
    <2>1. i \in DOMAIN events /\ j \in DOMAIN events
      BY <1>2, EventsDomain DEF IInv, TypeOK
    <2>2. CASE j \in batch
      BY <1>2, <1>4, <2>2 DEF Payload, TenantOfEvent
    <2>3. CASE events[j].reported # "no"
      BY <2>1, <2>3 DEF IInv, ReportedWasReceived
    <2> QED
      BY <1>2, <1>4, <2>2, <2>3 DEF IInv, BatchInOrder
  <1> QED
    BY <1>1, <1>3, <1>4 DEF IInv, ReceivedTwiceOnlyIfExcused, ReceivedInOrder

LEMMA AcceptedStep ==
  ASSUME IInv, TypeOK', NEW t \in Tenants, Accepted(t)
  PROVE  IInv'
  <1>1. /\ post = t /\ post' = Nobody /\ todo' = todo \ {t} /\ Receive(Payload)
        /\ acked' = acked \cup Payload /\ UNCHANGED <<events, pc, batch, excused>>
    BY DEF Accepted, tables
  <1>2. /\ received' = received \cup Payload /\ again' \subseteq excused
        /\ \A i \in received' : \A j \in 1..(i - 1) :
              events[j].msg = events[i].msg /\ events[j].ts <= events[i].ts => j \in received'
    BY <1>1, PayloadIsNew
  <1>3. \A i \in Payload : pc = "call" /\ TenantOfEvent(i) = t
    BY <1>1 DEF Payload
  <1>4. BatchFine'
    BY <1>1, <1>2, <1>3 DEF IInv, BatchFine, TenantOfEvent
  <1>5. ReceiptsKept' /\ ReportedWasReceived' /\ BatchInOrder'
    BY <1>1, <1>2 DEF IInv, ReceiptsKept, ReportedWasReceived, BatchInOrder
  <1>6. ReceivedTwiceOnlyIfExcused' /\ ReceivedInOrder'
    BY <1>1, <1>2 DEF ReceivedTwiceOnlyIfExcused, ReceivedInOrder
  <1> QED
    BY <1>4, <1>5, <1>6 DEF IInv

LEMMA RefusedStep ==
  ASSUME IInv, TypeOK', NEW t \in Tenants, Refused(t)
  PROVE  IInv'
  <1>1. /\ post' = Nobody /\ todo' = todo \ {t}
        /\ UNCHANGED <<events, pc, batch, acked>>
    BY DEF Refused, tables
  <1>2. CASE UNCHANGED history
    BY <1>1, <1>2, Frame
  <1>3. CASE Receive(Payload) /\ excused' = excused \cup Payload
    <2>1. /\ received' = received \cup Payload /\ again' \subseteq excused
          /\ \A i \in received' : \A j \in 1..(i - 1) :
                events[j].msg = events[i].msg /\ events[j].ts <= events[i].ts => j \in received'
      BY <1>3, PayloadIsNew
    <2>2. BatchFine'
      BY <1>1, <2>1 DEF IInv, BatchFine, TenantOfEvent
    <2>3. ReceiptsKept' /\ ReportedWasReceived' /\ BatchInOrder'
      BY <1>1, <1>3, <2>1 DEF IInv, ReceiptsKept, ReportedWasReceived, BatchInOrder
    <2>4. ReceivedTwiceOnlyIfExcused' /\ ReceivedInOrder'
      BY <1>1, <1>3, <2>1 DEF ReceivedTwiceOnlyIfExcused, ReceivedInOrder
    <2> QED
      BY <2>2, <2>3, <2>4 DEF IInv
  <1> QED
    BY <1>2, <1>3 DEF Refused

\* What was acknowledged and not written is excused.
LEMMA AbandonStep ==
  ASSUME IInv, TypeOK', Abandon, UNCHANGED events
  PROVE  IInv'
  <1>1. /\ pc' = "wait" /\ post' = Nobody /\ batch' = {} /\ acked' = {}
        /\ excused \cup acked \subseteq excused' /\ excused' \subseteq excused \cup Payload \cup acked
        /\ \A i \in received' : i \in received \/ i \in excused'
    BY DEF Abandon, Receive
  <1>2. /\ received' \subseteq received \cup Payload /\ received \subseteq received'
        /\ again' \subseteq excused
        /\ \A i \in received' : \A j \in 1..(i - 1) :
              events[j].msg = events[i].msg /\ events[j].ts <= events[i].ts => j \in received'
    <2>1. CASE Receive(Payload)
      BY <2>1, PayloadIsNew
    <2>2. CASE UNCHANGED <<received, again>>
      BY <2>2 DEF IInv, ReceivedTwiceOnlyIfExcused, ReceivedInOrder
    <2> QED
      BY <2>1, <2>2 DEF Abandon
  <1>3. BatchFine' /\ BatchInOrder'
    BY <1>1, <1>2 DEF BatchFine, BatchInOrder
  <1>4. ReceiptsKept' /\ ReportedWasReceived'
    BY <1>1, <1>2 DEF IInv, ReceiptsKept, ReportedWasReceived
  <1>5. ReceivedTwiceOnlyIfExcused' /\ ReceivedInOrder'
    BY <1>1, <1>2 DEF ReceivedTwiceOnlyIfExcused, ReceivedInOrder
  <1> QED
    BY <1>3, <1>4, <1>5 DEF IInv

\* What is marked was acknowledged, and what was acknowledged is marked.
LEMMA MarkStep ==
  ASSUME IInv, TypeOK', MarkReported
  PROVE  IInv'
  <1>0. /\ TypeOK /\ pc = "beat" /\ pc' = "retain" /\ post = Nobody
        /\ UNCHANGED <<batch, acked, todo, post, received, again, excused>>
    BY DEF IInv, MarkReported, cycle, history
  <1>1. /\ DOMAIN events' = DOMAIN events
        /\ \A i \in DOMAIN events :
              /\ events'[i].msg = events[i].msg /\ events'[i].ts = events[i].ts
              /\ events'[i].reported = IF i \in acked THEN "recent" ELSE events[i].reported
    BY <1>0, EventsDomain DEF MarkReported, Event
  <1>2. /\ acked \subseteq DOMAIN events /\ batch \subseteq DOMAIN events
        /\ received \subseteq DOMAIN events /\ acked \subseteq received
    BY <1>0 DEF TypeOK, IInv, BatchFine
  <1>3. \A k \in DOMAIN events : \A j \in 1..(k - 1) : j \in DOMAIN events
    BY <1>0, EventsDomain
  <1>4. BatchFine'
    BY <1>0, <1>1, <1>2 DEF BatchFine
  <1>5. BatchInOrder' /\ ReceivedInOrder'
    BY <1>0, <1>1, <1>2, <1>3 DEF IInv, BatchInOrder, ReceivedInOrder
  <1>6. ReceiptsKept' /\ ReportedWasReceived' /\ ReceivedTwiceOnlyIfExcused'
    BY <1>0, <1>1, <1>2 DEF IInv, ReceiptsKept, ReportedWasReceived, ReceivedTwiceOnlyIfExcused
  <1> QED
    BY <1>4, <1>5, <1>6 DEF IInv

\* The end of a cycle forgets acknowledgements that are written.
LEMMA RetainStep ==
  ASSUME IInv, TypeOK', ApplyRetention
  PROVE  IInv'
  <1>1. /\ pc = "retain" /\ pc' \in {"wait", "fetch"} /\ batch' = {} /\ acked' = {}
        /\ UNCHANGED <<events, post, received, again, excused>>
    BY DEF ApplyRetention, BeginCycle, history
  <1>2. BatchFine' /\ BatchInOrder'
    BY <1>1 DEF IInv, BatchFine, BatchInOrder
  <1>3. ReceiptsKept' /\ ReportedWasReceived'
    BY <1>1 DEF IInv, BatchFine, ReceiptsKept, ReportedWasReceived
  <1>4. ReceivedTwiceOnlyIfExcused' /\ ReceivedInOrder'
    BY <1>1 DEF IInv, ReceivedTwiceOnlyIfExcused, ReceivedInOrder
  <1> QED
    BY <1>2, <1>3, <1>4 DEF IInv

\* Waking up and listing the tenants change neither the batch nor the table.
LEMMA LoopStepFine ==
  ASSUME IInv, TypeOK', WaitForWakeup \/ ListTenants
  PROVE  IInv'
  <1>1. /\ UNCHANGED <<events, batch, acked, post, received, again, excused>>
        /\ \/ pc = "wait" /\ pc' \in {"wait", "fetch"}
           \/ pc = "call" /\ pc' = "beat"
    BY DEF WaitForWakeup, BeginCycle, ListTenants, tables, history
  <1> QED
    BY <1>1 DEF IInv, BatchFine, BatchInOrder, ReceiptsKept, ReportedWasReceived,
       ReceivedTwiceOnlyIfExcused, ReceivedInOrder

LEMMA Step == IInv /\ [Next]_vars => IInv'
  <1> SUFFICES ASSUME IInv, [Next]_vars PROVE IInv'
    OBVIOUS
  <1>0. TypeOK /\ TypeOK' /\ BatchFine
    BY TypeStep DEF IInv
  <1>1. ASSUME UNCHANGED <<events, pc, cycle, history>> PROVE IInv'
    BY <1>0, <1>1, Frame DEF cycle, BatchFine
  <1>2. ASSUME NEW m \in Msgs, RecordEvent(m) PROVE IInv'
    BY <1>0, <1>2, InsertStep DEF RecordEvent
  <1>3. ASSUME NEW t \in Tenants, CallTenant(t) \/ CallIdleTenant(t) PROVE IInv'
    BY <1>0, <1>3, Frame DEF CallTenant, CallIdleTenant, tables
  <1> QED
    BY <1>0, <1>1, <1>2, <1>3, AgeStep, FetchStep, AcceptedStep, RefusedStep, AbandonStep,
       MarkStep, RetainStep, LoopStepFine, ReporterAssumption
       DEF Next, ReporterStep, TableStep, LoopStep, Answered, CycleFails, Restart, tables, MarkProcessed,
           Reopen, DeleteMessage, SetMode, RunNow, IntervalElapses, WakeAll, vars, cycle, history

LEMMA InvariantHolds == Spec => []IInv
  BY InitIInv, Step, PTL DEF Spec

-----------------------------------------------------------------------------
\* Every reachable state has the types of TypeOK.
THEOREM TypeCorrect == Spec => []TypeOK
  <1>1. IInv => TypeOK
    BY DEF IInv
  <1> QED
    BY <1>1, InvariantHolds, PTL

\* mark_reported() never marks an event its tenant has not accepted, however
\* the calls of a cycle end.
THEOREM ReportsAreTrue == Spec => []ReportedWasReceived
  <1>1. IInv => ReportedWasReceived
    BY DEF IInv
  <1> QED
    BY <1>1, InvariantHolds, PTL

\* Without a lost answer, a failed cycle or a restart a tenant receives every
\* event once.
THEOREM ReportedOnce == Spec => []ReceivedTwiceOnlyIfExcused
  <1>1. IInv => ReceivedTwiceOnlyIfExcused
    BY DEF IInv
  <1> QED
    BY <1>1, InvariantHolds, PTL

\* Whatever stamps the events carry, and whatever the batch size, the failures
\* and the restarts, a tenant hears no event of a message before another one of
\* that message that was recorded earlier and is not said to be later.
THEOREM ReportedInOrder == Spec => []ReceivedInOrder
  <1>1. IInv => ReceivedInOrder
    BY DEF IInv
  <1> QED
    BY <1>1, InvariantHolds, PTL

\* Retention removes a message only after its tenant received all its events.
THEOREM RetentionIsSafe == Spec => RetentionLosesNothing
  <1>1. ASSUME IInv, [Next]_vars, pc = "retain", pc' # pc, NEW m \in Msgs,
               state[m] # "gone", state'[m] = "gone"
        PROVE  EventsOf(m) \subseteq received
    <2>1. ApplyRetention
      BY <1>1 DEF Next, ReporterStep, TableStep, LoopStep, Answered, WaitForWakeup, BeginCycle, FetchUnreported,
         ListTenants, MarkReported, CallTenant, CallIdleTenant, Accepted, Refused, CycleFails,
         Restart, Abandon, RecordEvent, MarkProcessed, Reopen, DeleteMessage, RunNow,
         IntervalElapses, SetMode, WakeAll, ReportAges, tables, vars
    <2>2. Removable(m)
      BY <1>1, <2>1 DEF ApplyRetention
    <2> QED
      BY <1>1, <2>2 DEF Removable, EventsOf, IInv, ReportedWasReceived
  <1>2. ASSUME IInv, [Next]_vars
        PROVE  [pc = "retain" /\ pc' # pc =>
                  \A m \in Msgs : state[m] # "gone" /\ state'[m] = "gone"
                     => EventsOf(m) \subseteq received]_vars
    BY <1>1, <1>2
  <1> QED
    BY <1>2, InvariantHolds, PTL DEF Spec, RetentionLosesNothing
-----------------------------------------------------------------------------
(* Run-now requests. *)

\* The cycle that took the request of t has t still before it.
Ahead(t) ==
    /\ target = t
    /\ \/ pc = "fetch"
       \/ pc = "call" /\ (t \in todo \/ t \notin {TenantOfEvent(i) : i \in batch})
       \/ pc = "beat" /\ t \in todo

\* A request keeps the loop awake until a cycle takes it, and a tenant to which
\* a call is owed is due, can be called, and is asked for or ahead.
Requests ==
    /\ runNow # Nobody => wake
    /\ \A t \in owed : /\ mode[t] = "url" /\ t \in due /\ t # post
                       /\ runNow = t \/ Ahead(t)

\* Steps that leave the cycle alone and take nothing from those that wait.
LEMMA RequestsKept ==
  ASSUME TypeOK, Requests, owed' \subseteq owed, due \subseteq due', wake => wake',
         UNCHANGED <<mode, runNow, pc, target, batch, todo, post>>,
         \A i \in batch : TenantOfEvent(i)' = TenantOfEvent(i)
  PROVE  Requests'
  <1>1. {TenantOfEvent(i) : i \in batch}' = {TenantOfEvent(i) : i \in batch}
    OBVIOUS
  <1>2. \A t \in owed : Ahead(t) => Ahead(t)'
    BY <1>1 DEF Ahead
  <1> QED
    BY <1>2 DEF Requests

\* Steps at which nobody is ahead: only a request that no cycle has taken counts.
LEMMA RequestsWait ==
  ASSUME Requests, owed' \subseteq owed, UNCHANGED <<mode, due, runNow, wake, post>>,
         \A t \in owed : ~Ahead(t)
  PROVE  Requests'
  BY DEF Requests

\* A cycle begins and takes the request with it.
LEMMA RequestsTaken ==
  ASSUME Requests, BeginCycle, UNCHANGED <<mode, due, owed, post>>, \A t \in owed : ~Ahead(t)
  PROVE  Requests'
  BY DEF Requests, BeginCycle, Ahead

\* A tenant is called or passed by; the one that is passed by is not owed a call.
LEMMA RequestsCall ==
  ASSUME TypeOK, Requests, NEW t \in Tenants, t \in todo, post = Nobody,
         \/ post' = t /\ owed' = owed \ {t} /\ UNCHANGED todo
         \/ t \notin owed /\ todo' = todo \ {t} /\ UNCHANGED <<post, owed>>,
         UNCHANGED <<events, mode, due, runNow, wake, pc, target, batch>>
  PROVE  Requests'
  <1>1. {TenantOfEvent(i) : i \in batch}' = {TenantOfEvent(i) : i \in batch}
    BY DEF TenantOfEvent
  <1>2. \A u \in owed' : u # t /\ u \in owed /\ u # post'
    BY DEF Requests
  <1>3. \A u \in owed' : Ahead(u) => Ahead(u)'
    BY <1>1, <1>2 DEF Ahead
  <1> QED
    BY <1>2, <1>3 DEF Requests

\* The tenant whose call ends is not owed one.
LEMMA RequestsAnswered ==
  ASSUME TypeOK, Requests, NEW t \in Tenants, post = t, post' = Nobody, todo' = todo \ {t},
         due' = due \/ due' = due \ {t},
         UNCHANGED <<events, mode, runNow, wake, pc, target, batch, owed>>
  PROVE  Requests'
  <1>1. {TenantOfEvent(i) : i \in batch}' = {TenantOfEvent(i) : i \in batch}
    BY DEF TenantOfEvent
  <1>2. \A u \in owed : u # t /\ u \in Tenants /\ u # Nobody
    BY ReporterAssumption DEF Requests, TypeOK
  <1>3. \A u \in owed : Ahead(u) => Ahead(u)'
    BY <1>1, <1>2 DEF Ahead
  <1> QED
    BY <1>2, <1>3 DEF Requests

\* Those without events come in the second loop: ListTenants has t if t asked.
LEMMA RequestsListed ==
  ASSUME TypeOK, Requests, ListTenants
  PROVE  Requests'
  <1>1. /\ pc = "call" /\ todo = {} /\ pc' = "beat"
        /\ UNCHANGED <<mode, due, runNow, wake, target, post, owed>>
    BY DEF ListTenants, tables
  <1>2. ASSUME NEW t \in owed, Ahead(t)
        PROVE  Ahead(t)'
    <2>1. t \in Tenants /\ mode[t] = "url" /\ target = t
      BY <1>2 DEF Requests, Ahead, TypeOK
    <2>2. t \notin {TenantOfEvent(i) : i \in batch}
      BY <1>1, <1>2 DEF Ahead
    <2>3. t \in todo'
      BY <2>1, <2>2 DEF ListTenants
    <2> QED
      BY <1>1, <2>1, <2>3 DEF Ahead
  <1> QED
    BY <1>1, <1>2 DEF Requests

\* A new request comes on top of those taken, and replaces the one not taken.
LEMMA RequestsAsked ==
  ASSUME TypeOK, Requests, NEW t \in Tenants, RunNow(t)
  PROVE  Requests'
  <1>1. /\ due' = due \cup {t} /\ runNow' = t /\ wake' = TRUE
        /\ owed' = (owed \ {runNow}) \cup (IF mode[t] = "url" /\ post # t THEN {t} ELSE {})
        /\ UNCHANGED <<events, mode, pc, target, batch, todo, post>>
    BY DEF RunNow, Owe, tables, cycle
  <1>2. {TenantOfEvent(i) : i \in batch}' = {TenantOfEvent(i) : i \in batch}
    BY <1>1 DEF TenantOfEvent
  <1>3. \A u \in owed \ {runNow} : Ahead(u)'
    BY <1>1, <1>2 DEF Requests, Ahead
  <1>4. \A u \in owed' : \/ u \in owed \ {runNow}
                         \/ u = t /\ mode[t] = "url" /\ post # t
    BY <1>1
  <1> QED
    BY <1>1, <1>3, <1>4 DEF Requests

\* The batch has been fetched: t is in it, and thus in the first loop, or not.
LEMMA RequestsFetched ==
  ASSUME Requests, FetchUnreported
  PROVE  Requests'
  <1>1. /\ pc = "fetch" /\ pc' = "call" /\ todo' = {TenantOfEvent(i) : i \in batch'}
        /\ UNCHANGED <<events, mode, due, runNow, wake, target, post, owed>>
    BY DEF FetchUnreported, tables
  <1>2. {TenantOfEvent(i) : i \in batch}' = {TenantOfEvent(i) : i \in batch'}
    BY <1>1 DEF TenantOfEvent
  <1>3. \A t \in owed : Ahead(t) => Ahead(t)'
    BY <1>1, <1>2 DEF Ahead
  <1> QED
    BY <1>1, <1>3 DEF Requests

\* A tenant that can no longer be called is owed nothing.
LEMMA RequestsOfMode ==
  ASSUME TypeOK, Requests, NEW t \in Tenants, NEW new, SetMode(t, new)
  PROVE  Requests'
  <1>1. /\ mode' = [mode EXCEPT ![t] = new] /\ owed' = IF new = "url" THEN owed ELSE owed \ {t}
        /\ UNCHANGED <<events, due, runNow, wake, pc, target, batch, todo, post>>
    BY DEF SetMode, cycle
  <1>2. {TenantOfEvent(i) : i \in batch}' = {TenantOfEvent(i) : i \in batch}
    BY <1>1 DEF TenantOfEvent
  <1>3. \A u \in owed : Ahead(u) => Ahead(u)'
    BY <1>1, <1>2 DEF Ahead
  <1>4. \A u \in owed' : u \in owed /\ mode'[u] = "url"
    BY <1>1 DEF TypeOK, Requests
  <1> QED
    BY <1>1, <1>3, <1>4 DEF Requests

LEMMA RequestsInit == Init => Requests
  BY DEF Init, Requests

LEMMA RequestsStep ==
  ASSUME StartActive, IInv, Requests, [Next]_vars
  PROVE  Requests'
  <1>0. TypeOK /\ batch \subseteq DOMAIN events
    BY DEF IInv, TypeOK
  <1>1. ASSUME NEW m \in Msgs, NEW final \in BOOLEAN, NEW ts \in Stamps, InsertEvent(m, final, ts),
               UNCHANGED <<mode, due, runNow, wake, pc, cycle, owed>>
        PROVE  Requests'
    <2>1. \A i \in batch : TenantOfEvent(i)' = TenantOfEvent(i)
      BY <1>0, <1>1, Inserted DEF TenantOfEvent
    <2> QED
      BY <1>0, <1>1, <2>1, RequestsKept DEF cycle
  <1>2. ASSUME NEW i \in Ids, ReportAges(i)
        PROVE  Requests'
    <2>1. \A j \in batch : TenantOfEvent(j)' = TenantOfEvent(j)
      BY <1>0, <1>2, EventsDomain DEF ReportAges, TenantOfEvent, Event
    <2> QED
      BY <1>0, <1>2, <2>1, RequestsKept DEF ReportAges, cycle
  <1>3. ASSUME UNCHANGED <<events, mode, runNow, pc, cycle, owed>>, due \subseteq due',
               wake => wake'
        PROVE  Requests'
    <2>1. \A i \in batch : TenantOfEvent(i)' = TenantOfEvent(i)
      BY <1>3 DEF TenantOfEvent
    <2> QED
      BY <1>0, <1>3, <2>1, RequestsKept DEF cycle
  <1>4. ASSUME NEW t \in Tenants, CallTenant(t) \/ CallIdleTenant(t)
        PROVE  Requests'
    <2>1. Reachable(t) \/ t \notin owed
      BY DEF Reachable, Requests
    <2>2. t \in due \/ t \notin owed
      BY DEF Requests
    <2>3. /\ t \in todo /\ post = Nobody
          /\ \/ post' = t /\ owed' = owed \ {t} /\ UNCHANGED todo
             \/ t \notin owed /\ todo' = todo \ {t} /\ UNCHANGED <<post, owed>>
          /\ UNCHANGED <<events, mode, due, runNow, wake, pc, target, batch>>
      BY <1>4, <2>1, <2>2 DEF CallTenant, CallIdleTenant, tables
    <2> QED
      BY <1>0, <2>3, RequestsCall
  <1>5. ASSUME NEW t \in Tenants, Answered(t)
        PROVE  Requests'
    <2>1. /\ post = t /\ post' = Nobody /\ todo' = todo \ {t} /\ (due' = due \/ due' = due \ {t})
          /\ UNCHANGED <<events, mode, runNow, wake, pc, target, batch, owed>>
      BY <1>5 DEF Answered, Accepted, Refused, tables
    <2> QED
      BY <1>0, <2>1, RequestsAnswered
  <1>6. CASE WaitForWakeup
    <2>1. \A t \in owed : ~Ahead(t)
      BY <1>6 DEF WaitForWakeup, Ahead
    <2> QED
      BY <1>6, <2>1, RequestsTaken DEF WaitForWakeup, tables
  <1>7. CASE MarkReported
    <2>1. \A t \in owed : ~Ahead(t)
      BY <1>7 DEF MarkReported, Ahead
    <2> QED
      BY <1>7, <2>1, RequestsWait DEF MarkReported, cycle
  <1>8. CASE ApplyRetention
    <2>1. \A t \in owed : ~Ahead(t)
      BY <1>8 DEF ApplyRetention, Ahead
    <2>2. CASE queued
      BY <1>8, <2>1, <2>2, RequestsTaken DEF ApplyRetention
    <2>3. CASE ~queued
      BY <1>8, <2>1, <2>3, RequestsWait DEF ApplyRetention
    <2> QED
      BY <2>2, <2>3
  <1>9. CASE CycleFails \/ Restart
    BY <1>9 DEF CycleFails, Restart, Requests
  <1>10. ASSUME NEW m \in Msgs, RecordEvent(m)
         PROVE  Requests'
    <2>1. PICK final \in BOOLEAN, ts \in Stamps : InsertEvent(m, final, ts)
      BY <1>10 DEF RecordEvent
    <2> QED
      BY <1>1, <1>10, <2>1 DEF RecordEvent
  <1>11. ASSUME NEW m \in Msgs, MarkProcessed(m) \/ Reopen(m) \/ DeleteMessage(m)
         PROVE  Requests'
    BY <1>3, <1>11 DEF MarkProcessed, Reopen, DeleteMessage
  <1>12. ASSUME NEW t \in Tenants, IntervalElapses(t)
         PROVE  Requests'
    BY <1>3, <1>12 DEF IntervalElapses, tables
  <1>13. CASE WakeAll \/ UNCHANGED vars
    BY <1>3, <1>13 DEF WakeAll, vars, tables, cycle
  <1>14. ASSUME NEW t \in Tenants, RunNow(t) \/ \E new \in NewModes : SetMode(t, new)
         PROVE  Requests'
    BY <1>0, <1>14, RequestsAsked, RequestsOfMode
  <1>15. CASE FetchUnreported \/ ListTenants
    BY <1>0, <1>15, RequestsFetched, RequestsListed
  <1> QED
    BY <1>2, <1>4, <1>5, <1>6, <1>7, <1>8, <1>9, <1>10, <1>11, <1>12, <1>13, <1>14, <1>15,
       ReporterAssumption DEF Next, ReporterStep, TableStep, LoopStep

\* Of all requests that wake() takes, by any number of tenants and at any point
\* of a cycle, none is forgotten by _report_loop before its tenant is called,
\* but for those that the answer of a call overwrites or another one replaces.
THEOREM RunNowIsServed == Spec => []RunNowIsHonoured
  <1> DEFINE Served == StartActive => Requests
  <1>1. TypeOK /\ Served => RunNowIsHonoured
    <2> SUFFICES ASSUME TypeOK, Requests, pc = "wait", ~wake, NEW t \in owed
                 PROVE  FALSE
      BY DEF RunNowIsHonoured
    <2>1. runNow = t /\ t \in Tenants
      BY DEF Requests, Ahead, TypeOK
    <2> QED
      BY <2>1, ReporterAssumption DEF Requests
  <1>2. IInv /\ Served /\ [Next]_vars => Served'
    BY RequestsStep
  <1>3. IInv => TypeOK
    BY DEF IInv
  <1>4. Init => Served
    BY RequestsInit
  <1> HIDE DEF Served
  <1> QED
    BY <1>1, <1>2, <1>3, <1>4, InvariantHolds, PTL DEF Spec

-----------------------------------------------------------------------------
(* The refinement of Reports. *)

Told == [i \in DOMAIN events |-> <<events[i].msg, events[i].final, events[i].ts>>]

\* What Reports is about.
Shown == <<state, Told, received, Reported, excused, faults>>

LEMMA ToldProperties ==
  ASSUME TypeOK
  PROVE  /\ DOMAIN Told = DOMAIN events
         /\ \A i \in DOMAIN events : /\ Told[i][1] = events[i].msg
                                     /\ Told[i][2] = events[i].final
                                     /\ Told[i][3] = events[i].ts
         /\ \A m : R!EventsOf(m) = EventsOf(m)
  <1>1. DOMAIN Told = DOMAIN events
    BY DEF Told
  <1>2. \A i \in DOMAIN events : /\ Told[i][1] = events[i].msg
                                 /\ Told[i][2] = events[i].final
                                 /\ Told[i][3] = events[i].ts
    BY DEF Told
  <1> QED
    BY <1>1, <1>2 DEF R!EventsOf, EventsOf, Told

\* Events whose message and kind stay are told as they were.
LEMMA ToldKept ==
  ASSUME DOMAIN events' = DOMAIN events,
         \A i \in DOMAIN events : /\ events'[i].msg = events[i].msg
                                  /\ events'[i].final = events[i].final
                                  /\ events'[i].ts = events[i].ts
  PROVE  Told' = Told
  BY DEF Told

LEMMA InitReports == Init => R!Init
  <1> SUFFICES ASSUME Init PROVE R!Init
    OBVIOUS
  <1>1. events = <<>> /\ Told = <<>> /\ Reported = {}
    BY DEF Init, Told, Reported
  <1> QED
    BY <1>1 DEF Init, R!Init, Told

\* add_event appends one event that nobody has heard of.
LEMMA RecordReports ==
  ASSUME TypeOK, NEW m \in Msgs, RecordEvent(m)
  PROVE  \E final \in BOOLEAN, ts \in Stamps : R!Tell(m, final, ts)
  <1>1. PICK final \in BOOLEAN, ts \in Stamps : InsertEvent(m, final, ts)
    BY DEF RecordEvent
  <1>2. /\ DOMAIN events = 1..Len(events) /\ Len(events) \in Nat
        /\ DOMAIN events' = DOMAIN events \cup {Len(events) + 1}
        /\ Len(events) + 1 \notin DOMAIN events
        /\ \A i \in DOMAIN events : events'[i] = events[i]
        /\ events'[Len(events) + 1] = [msg |-> m, final |-> final, ts |-> ts, reported |-> "no"]
    <2> DEFINE e == [msg |-> m, final |-> final, ts |-> ts, reported |-> "no"]
    <2>1. events \in Seq(Event) /\ e \in Event /\ events' = Append(events, e)
      BY <1>1 DEF Event, TypeOK, InsertEvent
    <2> HIDE DEF e
    <2>2. events'[Len(events) + 1] = e
      BY <2>1, AppendProperties
    <2>3. events'[Len(events) + 1] = [msg |-> m, final |-> final, ts |-> ts, reported |-> "no"]
      BY <2>2 DEF e
    <2>4. Len(events) \in Nat /\ DOMAIN events = 1..Len(events)
      BY EventsDomain
    <2>5. /\ DOMAIN events' = DOMAIN events \cup {Len(events) + 1}
          /\ Len(events) + 1 \notin DOMAIN events
          /\ \A i \in DOMAIN events : events'[i] = events[i]
      BY <1>1, Inserted
    <2> QED
      BY <2>3, <2>4, <2>5
  <1>3. Reported' = Reported
    BY <1>2 DEF Reported
  <1>4. Told' = Append(Told, <<m, final, ts>>)
    <2>1. PICK T, U : T = Told /\ U = Told'
      OBVIOUS
    <2>2. /\ DOMAIN T = DOMAIN events /\ DOMAIN U = DOMAIN events'
          /\ T = [i \in DOMAIN T |-> T[i]] /\ U = [i \in DOMAIN U |-> U[i]]
          /\ \A i \in DOMAIN events : T[i] = <<events[i].msg, events[i].final, events[i].ts>>
          /\ \A i \in DOMAIN events' : U[i] = <<events'[i].msg, events'[i].final, events'[i].ts>>
      BY <2>1 DEF Told
    <2>3. /\ DOMAIN T = 1..Len(events) /\ Len(events) \in Nat
          /\ DOMAIN U = 1..(Len(events) + 1)
      BY <1>2, <2>2
    <2>4. \A i \in 1..Len(events) : U[i] = T[i]
      BY <1>2, <2>2
    <2>5. U[Len(events) + 1] = <<m, final, ts>>
      BY <1>2, <2>2
    <2>6. U = Append(T, <<m, final, ts>>)
      BY ONLY <2>2, <2>3, <2>4, <2>5
    <2> QED
      BY <2>1, <2>6
  <1>5. UNCHANGED <<state, received, excused, faults>>
    BY DEF RecordEvent, history
  <1> QED
    BY <1>3, <1>4, <1>5 DEF R!Tell, Told

\* The statements that others execute on a row of messages.
LEMMA RowReports ==
  ASSUME TypeOK, NEW m \in Msgs, MarkProcessed(m) \/ Reopen(m) \/ DeleteMessage(m)
  PROVE  R!Settle(m) \/ R!Reopen(m) \/ R!Delete(m)
  <1>1. UNCHANGED <<Told, received, Reported, excused, faults>>
    BY DEF MarkProcessed, Reopen, DeleteMessage, Told, Reported, history
  <1>2. HasFinal(m) => \E i \in R!EventsOf(m) : Told[i][2]
    BY ToldProperties DEF HasFinal, EventsOf
  <1> QED
    BY <1>1, <1>2 DEF MarkProcessed, Reopen, DeleteMessage, R!Settle, R!Reopen, R!Delete, Told

\* A payload is what the tenant of the call may hear.
LEMMA PayloadReports ==
  ASSUME IInv, NEW t \in Tenants, post = t, Receive(Payload), UNCHANGED <<events, state>>
  PROVE  R!Hear(t, Payload)
  <1>1. /\ received' = received \cup Payload /\ received \cap Payload \subseteq excused
        /\ \A i \in received' : \A j \in 1..(i - 1) :
              events[j].msg = events[i].msg /\ events[j].ts <= events[i].ts => j \in received'
    BY PayloadIsNew DEF Receive
  <1>2. ASSUME NEW i \in Payload
        PROVE  i \in DOMAIN events /\ TenantOfEvent(i) = t /\ events[i].reported = "no"
    BY <1>2 DEF Payload, IInv, BatchFine, TypeOK
  <1>3. TypeOK /\ UNCHANGED <<Told, Reported>>
    BY DEF IInv, Told, Reported
  <1>4. \A i \in Payload : TenantOf[Told[i][1]] = t
    BY <1>2, <1>3, ToldProperties DEF TenantOfEvent
  <1>5. Payload \cap Reported = {}
    BY <1>2 DEF Reported
  <1>6. \A i \in Payload : \A j \in 1..(i - 1) :
           Told[j][1] = Told[i][1] /\ Told[j][3] <= Told[i][3] => j \in received \cup Payload
    <2>1. \A i \in Payload : \A j \in 1..(i - 1) : j \in DOMAIN events
      BY <1>2, <1>3, EventsDomain
    <2> QED
      BY <1>1, <1>2, <1>3, <2>1, ToldProperties
  <1> QED
    BY <1>1, <1>3, <1>4, <1>5, <1>6 DEF R!Hear, Told

\* A call that ends, whatever its tenant has heard and the reporter knows.
LEMMA AnswerReports ==
  ASSUME IInv, NEW t \in Tenants, Answered(t)
  PROVE  R!Next \/ UNCHANGED Shown
  <1>1. post = t /\ UNCHANGED <<events, state>>
    BY DEF Answered, Accepted, Refused, tables
  <1>2. Payload \in SUBSET DOMAIN Told
    BY PayloadFine, ToldProperties DEF IInv, TypeOK
  <1>3. CASE Receive(Payload) /\ UNCHANGED <<excused, faults>>
    <2>1. R!Hear(t, Payload)
      BY <1>1, <1>3, PayloadReports
    <2> QED
      BY <1>2, <1>3, <2>1 DEF R!Next, Told
  <1>4. CASE Receive(Payload) /\ faults' = faults + 1 /\ excused' = excused \cup Payload
    <2>1. R!Hear(t, Payload)
      BY <1>1, <1>4, PayloadReports
    <2>2. R!Fail
      BY <1>4 DEF R!Fail, Receive
    <2> QED
      BY <1>2, <2>1, <2>2 DEF R!Next, Told
  <1>5. CASE UNCHANGED <<faults, history>>
    BY <1>1, <1>5 DEF Shown, Told, Reported, history
  <1> QED
    BY <1>3, <1>4, <1>5 DEF Answered, Accepted, Refused

\* A cycle that ends early.
LEMMA AbandonReports ==
  ASSUME IInv, Abandon, UNCHANGED <<events, state>>
  PROVE  R!Next
  <1>1. UNCHANGED <<Told, Reported>> /\ acked \subseteq received
    BY DEF Told, Reported, IInv, BatchFine
  <1>2. R!Fail
    <2>1. CASE Receive(Payload) /\ excused' = excused \cup Payload \cup acked
      <3>1. excused' = excused \cup (Payload \cup acked) /\ Payload \cup acked \subseteq received'
        BY <1>1, <2>1 DEF Receive
      <3> QED
        BY <3>1 DEF R!Fail, Abandon
    <2>2. CASE UNCHANGED <<received, again>> /\ excused' = excused \cup acked
      BY <1>1, <2>2 DEF R!Fail, Abandon
    <2> QED
      BY <2>1, <2>2 DEF Abandon
  <1>3. CASE received' = received
    BY <1>1, <1>2, <1>3 DEF R!Next, Told
  <1>4. CASE Receive(Payload) /\ received' # received
    <2>1. post \in Tenants /\ Payload \in SUBSET DOMAIN Told
      BY <1>4, PayloadFine, ToldProperties DEF IInv, TypeOK, Payload, Receive
    <2>2. R!Hear(post, Payload)
      BY <1>4, <2>1, PayloadReports
    <2> QED
      BY <1>2, <2>1, <2>2 DEF R!Next, Told
  <1> QED
    BY <1>3, <1>4 DEF Abandon

\* mark_reported() marks what was heard.
LEMMA MarkReports ==
  ASSUME IInv, MarkReported
  PROVE  R!Mark
  <1>1. /\ TypeOK /\ acked \subseteq DOMAIN events /\ acked \subseteq received
        /\ UNCHANGED <<state, received, excused, faults>>
    BY DEF MarkReported, history, IInv, TypeOK, BatchFine
  <1>2. /\ DOMAIN events' = DOMAIN events
        /\ \A i \in DOMAIN events :
              /\ events'[i].msg = events[i].msg /\ events'[i].final = events[i].final
              /\ events'[i].ts = events[i].ts
              /\ events'[i].reported = IF i \in acked THEN "recent" ELSE events[i].reported
    BY <1>1, EventsDomain DEF MarkReported, Event
  <1>3. Told' = Told
    BY <1>2, ToldKept
  <1>4. Reported' = Reported \cup acked
    BY <1>1, <1>2 DEF Reported
  <1> QED
    BY <1>1, <1>3, <1>4 DEF R!Mark, Told

\* remove_fully_reported_before() retires what is marked.
LEMMA RetainReports ==
  ASSUME IInv, ApplyRetention
  PROVE  R!Retire
  <1> DEFINE M == {m \in Msgs : Removable(m)}
  <1>1. /\ TypeOK /\ UNCHANGED <<events, received, excused, faults>>
        /\ state' = [m \in Msgs |-> IF m \in M THEN "gone" ELSE state[m]]
    BY DEF ApplyRetention, history, IInv
  <1>2. UNCHANGED <<Told, Reported>>
    BY <1>1 DEF Told, Reported
  <1>3. \A m \in M : state[m] = "processed" /\ R!EventsOf(m) \subseteq Reported
    BY <1>1, ToldProperties DEF Removable, EventsOf, Reported
  <1> HIDE DEF M
  <1>4. M \in SUBSET {m \in Msgs : state[m] = "processed" /\ R!EventsOf(m) \subseteq Reported}
    BY <1>3 DEF M
  <1> QED
    BY <1>1, <1>2, <1>4 DEF R!Retire, Told

\* Every step of the reporter and its environment is one of Reports, or none.
LEMMA NextReports ==
  ASSUME IInv, [Next]_vars
  PROVE  R!Next \/ UNCHANGED Shown
  <1>0. TypeOK
    BY DEF IInv
  <1>1. ASSUME NEW m \in Msgs, RecordEvent(m) \/ MarkProcessed(m) \/ Reopen(m) \/ DeleteMessage(m)
        PROVE  R!Next
    BY <1>0, <1>1, RecordReports, RowReports DEF R!Next
  <1>2. ASSUME NEW t \in Tenants, Answered(t) PROVE R!Next \/ UNCHANGED Shown
    BY <1>2, AnswerReports
  <1>3. CASE CycleFails \/ Restart
    BY <1>3, AbandonReports DEF CycleFails, Restart, tables
  <1>4. CASE MarkReported
    BY <1>4, MarkReports DEF R!Next
  <1>5. CASE ApplyRetention
    BY <1>5, RetainReports DEF R!Next
  <1>6. ASSUME NEW i \in Ids, ReportAges(i) PROVE UNCHANGED Shown
    <2>1. /\ DOMAIN events' = DOMAIN events /\ UNCHANGED <<state, received, excused, faults>>
          /\ \A j \in DOMAIN events :
                /\ events'[j].msg = events[j].msg /\ events'[j].final = events[j].final
                /\ events'[j].ts = events[j].ts
                /\ events'[j].reported # "no" <=> events[j].reported # "no"
      BY <1>0, <1>6, EventsDomain DEF ReportAges, Event, history
    <2>2. Reported' = Reported
      BY <2>1 DEF Reported
    <2> QED
      BY <2>1, <2>2, ToldKept DEF Shown
  <1>7. ASSUME UNCHANGED <<events, state, received, excused, faults>> PROVE UNCHANGED Shown
    BY <1>7 DEF Shown, Told, Reported
  <1>8. CASE \/ WaitForWakeup \/ FetchUnreported \/ ListTenants \/ WakeAll \/ UNCHANGED vars
             \/ \E t \in Tenants : \/ CallTenant(t) \/ CallIdleTenant(t) \/ IntervalElapses(t)
                                   \/ \E new \in NewModes : SetMode(t, new)
             \/ \E t \in Askers : RunNow(t)
    BY <1>7, <1>8 DEF WaitForWakeup, FetchUnreported, ListTenants, WakeAll, vars, CallTenant,
       CallIdleTenant, IntervalElapses, SetMode, RunNow, tables, history
  <1> QED
    BY <1>1, <1>2, <1>3, <1>4, <1>5, <1>6, <1>8 DEF Next, ReporterStep, TableStep, LoopStep

\* However calls, lost answers, failures, restarts and the statements of others
\* interleave, the reporter keeps to Reports.
THEOREM ReporterImplementsReports == Spec => ImplementsReports
  <1>1. IInv /\ [Next]_vars => [R!Next]_(R!vars)
    BY NextReports DEF R!vars, Shown, Told
  <1> QED
    BY <1>1, InitReports, InvariantHolds, PTL DEF Spec, R!Spec, ImplementsReports
=============================================================================
