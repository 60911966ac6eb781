--------------------------- MODULE DeliveryProofs ---------------------------
(***************************************************************************)
(* Proofs about Delivery, for any tenants, messages, batch size, number of *)
(* deliveries and bounds.                                                  *)
(*                                                                         *)
(* Each of the two components is shown to behave, beside the other, as its *)
(* own module says.  For that each has to give what the other relies on:   *)
(* the reporter expects of the queue that it marks a message only after a  *)
(* final event, the queue of the reporter that it deletes only rows that   *)
(* are there.  What was proved of each alone holds of both together, and   *)
(* from it what a tenant hears in the end.                                 *)
(***************************************************************************)
EXTENDS Delivery, ClientReporterProofs

QueueTypeOK ==
    /\ life \in [Msgs -> {"none", "pending", "processed", "removed"}]
    /\ delivered \in [Msgs -> Nat]
    /\ told \in Seq(Msgs \X {"sent", "error", "deferred", "receipt"})

\* What Outbox implies: "sent" is true, what is settled was told, and a second
\* delivery needs a forgotten first.
QueueSound ==
    /\ \A i \in DOMAIN told : told[i][2] = "sent" => delivered[told[i][1]] > 0
    /\ \A m \in Msgs : life[m] = "processed" => Queue!HasFinal(m)
    /\ TakenTwiceOnlyIfForgotten

DInv == IInv /\ QueueTypeOK /\ SameTables /\ QueueSound

-----------------------------------------------------------------------------
(* The queue, as Outbox has it.                                            *)

LEMMA ToldElements ==
  ASSUME QueueTypeOK
  PROVE  /\ Len(told) \in Nat /\ DOMAIN told = 1..Len(told)
         /\ \A i \in DOMAIN told :
               told[i][1] \in Msgs /\ told[i][2] \in {"sent", "error", "deferred", "receipt"}
  <1>1. Len(told) \in Nat /\ DOMAIN told = 1..Len(told)
    BY DEF QueueTypeOK
  <1>2. \A i \in DOMAIN told : told[i] \in Msgs \X {"sent", "error", "deferred", "receipt"}
    BY DEF QueueTypeOK
  <1> QED
    BY <1>1, <1>2

\* An event is recorded after all others.
LEMMA Recorded ==
  ASSUME QueueTypeOK, NEW m \in Msgs, NEW type \in {"sent", "error", "deferred", "receipt"},
         told' = Append(told, <<m, type>>)
  PROVE  /\ told' \in Seq(Msgs \X {"sent", "error", "deferred", "receipt"})
         /\ Len(told') = Len(told) + 1
         /\ DOMAIN told' = DOMAIN told \cup {Len(told) + 1}
         /\ Len(told) + 1 \notin DOMAIN told
         /\ \A i \in DOMAIN told : told'[i] = told[i]
         /\ told'[Len(told) + 1] = <<m, type>>
  <1>1. told \in Seq(Msgs \X {"sent", "error", "deferred", "receipt"})
        /\ <<m, type>> \in Msgs \X {"sent", "error", "deferred", "receipt"}
    BY DEF QueueTypeOK
  <1>2. Len(told) \in Nat /\ DOMAIN told = 1..Len(told)
    BY ToldElements
  <1> QED
    BY <1>1, <1>2, AppendProperties

\* A step of the queue appends to what was told, or leaves it.
LEMMA QueueRecords ==
  ASSUME QueueTypeOK, [Queue!Next]_(queueVars)
  PROVE  \/ told' = told
         \/ \E m \in Msgs, type \in {"sent", "error", "deferred", "receipt"} :
               /\ told' = Append(told, <<m, type>>)
               /\ type = "sent" => delivered[m] > 0
               /\ UNCHANGED <<life, delivered, forgotten>>
  BY DEF Queue!Next, Queue!Step, Queue!Accept, Queue!Deliver, Queue!Tell, Queue!Receipt,
     Queue!Settle, Queue!Reopen, Queue!Remove, Queue!Forget, Queue!Outcomes, queueVars

LEMMA QueueTypeStep ==
  ASSUME QueueTypeOK, [Queue!Next]_(queueVars)
  PROVE  QueueTypeOK'
  <1>1. life' \in [Msgs -> {"none", "pending", "processed", "removed"}]
    BY DEF QueueTypeOK, Queue!Next, Queue!Step, Queue!Accept, Queue!Deliver, Queue!Tell,
       Queue!Receipt, Queue!Settle, Queue!Reopen, Queue!Remove, Queue!Forget, queueVars
  <1>2. delivered' \in [Msgs -> Nat]
    BY DEF QueueTypeOK, Queue!Next, Queue!Step, Queue!Accept, Queue!Deliver, Queue!Tell,
       Queue!Receipt, Queue!Settle, Queue!Reopen, Queue!Remove, Queue!Forget, queueVars
  <1>3. told' \in Seq(Msgs \X {"sent", "error", "deferred", "receipt"})
    BY QueueRecords, Recorded DEF QueueTypeOK
  <1> QED
    BY <1>1, <1>2, <1>3 DEF QueueTypeOK

LEMMA QueueSoundStep ==
  ASSUME QueueTypeOK, QueueSound, [Queue!Next]_(queueVars)
  PROVE  QueueSound'
  <1>1. \A m \in Msgs : delivered'[m] \in Nat /\ delivered[m] \in Nat /\ delivered'[m] >= delivered[m]
    BY DEF QueueTypeOK, Queue!Next, Queue!Step, Queue!Accept, Queue!Deliver, Queue!Tell,
       Queue!Receipt, Queue!Settle, Queue!Reopen, Queue!Remove, Queue!Forget, queueVars
  <1>2. /\ \A i \in DOMAIN told : i \in DOMAIN told' /\ told'[i] = told[i]
        /\ \A i \in DOMAIN told' \ DOMAIN told :
              told'[i][1] \in Msgs /\ (told'[i][2] = "sent" => delivered[told'[i][1]] > 0)
    <2>1. CASE told' = told
      BY <2>1
    <2>2. CASE \E m \in Msgs, type \in {"sent", "error", "deferred", "receipt"} :
                  told' = Append(told, <<m, type>>) /\ (type = "sent" => delivered[m] > 0)
      BY <2>2, Recorded
    <2> QED
      BY <2>1, <2>2, QueueRecords
  <1>3. \A i \in DOMAIN told' : told'[i][2] = "sent" => delivered'[told'[i][1]] > 0
    BY <1>1, <1>2, ToldElements DEF QueueSound
  <1>4. ASSUME NEW m \in Msgs, life'[m] = "processed"
        PROVE  Queue!HasFinal(m)'
    <2>1. life[m] = "processed" \/ Queue!Settle(m)
      BY <1>4 DEF QueueTypeOK, Queue!Next, Queue!Step, Queue!Accept, Queue!Deliver, Queue!Tell,
         Queue!Receipt, Queue!Settle, Queue!Reopen, Queue!Remove, Queue!Forget, queueVars
    <2>2. Queue!HasFinal(m)
      BY <2>1 DEF QueueSound, Queue!Settle
    <2> QED
      BY <1>2, <2>2 DEF Queue!HasFinal
  <1>5. TakenTwiceOnlyIfForgotten'
    <2> SUFFICES ASSUME NEW m \in Msgs, delivered'[m] > 1
                 PROVE  m \in forgotten'
      BY DEF TakenTwiceOnlyIfForgotten
    <2>1. forgotten \subseteq forgotten'
      BY DEF Queue!Next, Queue!Step, Queue!Accept, Queue!Deliver, Queue!Tell, Queue!Receipt,
         Queue!Settle, Queue!Reopen, Queue!Remove, Queue!Forget, queueVars
    <2>2. CASE delivered'[m] = delivered[m]
      BY <2>1, <2>2 DEF QueueSound, TakenTwiceOnlyIfForgotten
    <2>3. CASE delivered'[m] # delivered[m]
      <3>1. Queue!Deliver(m)
        BY <2>3 DEF QueueTypeOK, Queue!Next, Queue!Step, Queue!Accept, Queue!Deliver,
           Queue!Tell, Queue!Receipt, Queue!Settle, Queue!Reopen, Queue!Remove, Queue!Forget,
           queueVars
      <3>2. delivered[m] \in Nat /\ delivered'[m] = delivered[m] + 1
        BY <3>1 DEF Queue!Deliver, QueueTypeOK
      <3> QED
        BY <2>1, <3>1, <3>2 DEF Queue!Deliver
    <2> QED
      BY <2>2, <2>3
  <1> QED
    BY <1>3, <1>4, <1>5 DEF QueueSound

-----------------------------------------------------------------------------
(* The queue beside the reporter.                                          *)

\* A row that the queue changes is another row to the reporter, or the same.
LEMMA RowsSeen ==
  ASSUME QueueTypeOK, SameTables, NEW m \in Msgs, NEW l,
         life' = [life EXCEPT ![m] = l], state' = [x \in Msgs |-> StateIn(life'[x])]
  PROVE  /\ state[m] = StateIn(life[m])
         /\ state' = [state EXCEPT ![m] = StateIn(l)]
  <1>1. \A x \in Msgs : life'[x] = IF x = m THEN l ELSE life[x]
    BY DEF QueueTypeOK
  <1>2. state = [x \in Msgs |-> StateIn(life[x])]
    BY DEF SameTables
  <1> HIDE DEF SameTables
  <1>3. \A x \in Msgs : state'[x] = IF x = m THEN StateIn(l) ELSE state[x]
    BY <1>1, <1>2
  <1>4. state' = [x \in Msgs |-> IF x = m THEN StateIn(l) ELSE state[x]]
    BY <1>1, <1>2
  <1> QED
    BY <1>2, <1>4

\* Nothing was recorded: the events are as they were.
LEMMA NothingRecorded ==
  ASSUME TypeOK, SameTables, QueueStep, told' = told
  PROVE  events' = events
  <1>1. /\ DOMAIN events = DOMAIN told
        /\ events' = [i \in DOMAIN events |-> events[i]]
    BY DEF SameTables, QueueStep
  <1>2. events = [i \in DOMAIN events |-> events[i]]
    BY DEF TypeOK
  <1> QED
    BY <1>1, <1>2

\* What the queue does to a row, the reporter expects of others.
LEMMA QueueChangesRow ==
  ASSUME TypeOK, QueueTypeOK, SameTables, QueueStep, told' = told
  PROVE  Next \/ UNCHANGED vars
  <1>1. /\ UNCHANGED <<mode, due, runNow, wake, pc, cycle, faults, history, owed>>
        /\ events' = events /\ state' = [m \in Msgs |-> StateIn(life'[m])]
    BY NothingRecorded DEF QueueStep, reporterVars
  <1>2. CASE life' = life
    <2>1. state' = state
      BY <1>1, <1>2 DEF SameTables
    <2> QED
      BY <1>1, <2>1 DEF vars, cycle, history
  <1>3. ASSUME NEW m \in Msgs, Queue!Accept(m)
        PROVE  UNCHANGED vars
    <2>1. state[m] = "waiting" /\ state' = [state EXCEPT ![m] = "waiting"]
      <3>1. life[m] = "none" /\ life' = [life EXCEPT ![m] = "pending"]
        BY <1>3 DEF Queue!Accept
      <3>2. StateIn("none") = "waiting" /\ StateIn("pending") = "waiting"
        BY DEF StateIn
      <3>3. state[m] = StateIn(life[m]) /\ state' = [state EXCEPT ![m] = StateIn("pending")]
        BY <1>1, <3>1, RowsSeen
      <3> QED
        BY <3>1, <3>2, <3>3
    <2>2. state' = state
      BY <2>1 DEF TypeOK
    <2> QED
      BY <1>1, <2>2 DEF vars, cycle, history
  <1>4. ASSUME NEW m \in Msgs, Queue!Settle(m)
        PROVE  MarkProcessed(m)
    <2>1. state[m] = "waiting" /\ state' = [state EXCEPT ![m] = "processed"]
      <3>1. life[m] = "pending" /\ life' = [life EXCEPT ![m] = "processed"]
        BY <1>4 DEF Queue!Settle
      <3>2. StateIn("processed") = "processed" /\ StateIn("pending") = "waiting"
        BY DEF StateIn
      <3>3. state[m] = StateIn(life[m]) /\ state' = [state EXCEPT ![m] = StateIn("processed")]
        BY <1>1, <3>1, RowsSeen
      <3> QED
        BY <3>1, <3>2, <3>3
    <2>2. HasFinal(m)
      BY <1>4 DEF Queue!Settle, Queue!HasFinal, HasFinal, SameTables
    <2> QED
      BY <1>1, <2>1, <2>2 DEF MarkProcessed
  <1>5. ASSUME NEW m \in Msgs, Queue!Reopen(m)
        PROVE  Reopen(m)
    <2>1. state[m] = "processed" /\ state' = [state EXCEPT ![m] = "waiting"]
      <3>1. life[m] = "processed" /\ life' = [life EXCEPT ![m] = "pending"]
        BY <1>5 DEF Queue!Reopen
      <3>2. StateIn("processed") = "processed" /\ StateIn("pending") = "waiting"
        BY DEF StateIn
      <3>3. state[m] = StateIn(life[m]) /\ state' = [state EXCEPT ![m] = StateIn("pending")]
        BY <1>1, <3>1, RowsSeen
      <3> QED
        BY <3>1, <3>2, <3>3
    <2> QED
      BY <1>1, <2>1 DEF Reopen
  <1>6. ASSUME NEW m \in Msgs, Queue!Remove({m})
        PROVE  DeleteMessage(m)
    <2>1. life' = [life EXCEPT ![m] = "removed"] /\ life[m] \in {"pending", "processed"}
      BY <1>6 DEF Queue!Remove, QueueTypeOK
    <2>2. state[m] # "gone" /\ state' = [state EXCEPT ![m] = "gone"]
      BY <1>1, <2>1, RowsSeen DEF StateIn
    <2> QED
      BY <1>1, <2>2 DEF DeleteMessage
  <1>7. \/ life' = life
        \/ \E m \in Msgs : Queue!Accept(m) \/ Queue!Settle(m) \/ Queue!Reopen(m) \/ Queue!Remove({m})
    BY DEF QueueStep, Queue!Step, Queue!Forget, Queue!Deliver, Queue!Tell, Queue!Receipt
  <1> QED
    BY <1>2, <1>3, <1>4, <1>5, <1>6, <1>7 DEF Next, TableStep

\* What the queue records, the reporter finds in message_events.
LEMMA QueueRecordsEvent ==
  ASSUME TypeOK, QueueTypeOK, SameTables, QueueStep, NEW m \in Msgs,
         NEW type \in {"sent", "error", "deferred", "receipt"},
         told' = Append(told, <<m, type>>), life' = life
  PROVE  RecordEvent(m)
  <1>0. PICK ts \in Stamps :
           events' = [i \in DOMAIN told' |-> IF i \in DOMAIN events THEN events[i]
                                             ELSE Unseen(told'[i], ts)]
    BY DEF QueueStep
  <1> DEFINE e == [msg |-> m, final |-> type \in Queue!Final, ts |-> ts, reported |-> "no"]
  <1>1. /\ UNCHANGED <<mode, due, runNow, wake, pc, cycle, faults, history, owed>>
        /\ state' = [x \in Msgs |-> StateIn(life'[x])] /\ Len(told') <= MaxEvents
    BY DEF QueueStep, reporterVars
  <1>2. state' = state
    BY <1>1 DEF SameTables
  <1>3. /\ DOMAIN events = 1..Len(events) /\ Len(events) \in Nat /\ Len(told) \in Nat
        /\ DOMAIN told = DOMAIN events /\ Len(told) = Len(events)
    <2>1. /\ DOMAIN events = 1..Len(events) /\ Len(events) \in Nat
          /\ DOMAIN told = 1..Len(told) /\ Len(told) \in Nat /\ DOMAIN told = DOMAIN events
      BY EventsDomain, ToldElements DEF SameTables
    <2>2. ASSUME NEW a \in Nat, NEW b \in Nat, 1..a = 1..b
          PROVE  a = b
      <3>1. a \in 1..b \/ a = 0
        BY <2>2
      <3>2. b \in 1..a \/ b = 0
        BY <2>2
      <3> QED
        BY <2>2, <3>1, <3>2
    <2> QED
      BY <2>1, <2>2
  <1>4. Len(events) < MaxEvents
    BY <1>1, <1>3, Recorded, ReporterAssumption
  <1>5. /\ DOMAIN events' = 1..(Len(events) + 1)
        /\ \A i \in 1..Len(events) : events'[i] = events[i]
        /\ events'[Len(events) + 1] = e
    <2>1. DOMAIN told' = 1..(Len(events) + 1) /\ told'[Len(events) + 1] = <<m, type>>
      BY <1>3, Recorded
    <2>2. Unseen(<<m, type>>, ts) = e
      BY DEF Unseen
    <2> HIDE DEF e
    <2> QED
      BY <1>0, <1>3, <2>1, <2>2
  <1>6. events' = Append(events, e)
    <2> HIDE DEF e
    <2>1. PICK E, F : E = events /\ F = events'
      OBVIOUS
    <2>2. /\ F = [i \in DOMAIN F |-> F[i]] /\ E = [i \in DOMAIN E |-> E[i]]
      BY <1>0, <2>1 DEF TypeOK
    <2>3. /\ DOMAIN E = 1..Len(E) /\ Len(E) \in Nat /\ DOMAIN F = 1..(Len(E) + 1)
          /\ \A i \in 1..Len(E) : F[i] = E[i]
          /\ F[Len(E) + 1] = e
      BY <1>3, <1>5, <2>1
    <2>4. F = Append(E, e)
      BY ONLY <2>2, <2>3
    <2> QED
      BY <2>1, <2>4
  <1>7. (type \in Queue!Final) \in BOOLEAN
    OBVIOUS
  <1> QED
    BY <1>1, <1>2, <1>4, <1>6, <1>7 DEF RecordEvent, InsertEvent

\* The environment of the reporter allows all that the queue does.
LEMMA QueueIsExpected ==
  ASSUME TypeOK, QueueTypeOK, SameTables, QueueStep
  PROVE  Next \/ UNCHANGED vars
  <1>1. [Queue!Next]_(queueVars)
    BY DEF QueueStep, Queue!Next
  <1>2. CASE told' = told
    BY <1>2, QueueChangesRow
  <1>3. ASSUME NEW m \in Msgs, NEW type \in {"sent", "error", "deferred", "receipt"},
               told' = Append(told, <<m, type>>), life' = life
        PROVE  Next
    BY <1>3, QueueRecordsEvent DEF Next, TableStep
  <1> QED
    BY <1>1, <1>2, <1>3, QueueRecords

-----------------------------------------------------------------------------
(* The reporter beside the queue.                                          *)

\* The reporter changes of an event only whether it is reported, and of the rows
\* only those that retention deletes.
LEMMA ReporterWrites ==
  ASSUME TypeOK, ReporterStep
  PROVE  /\ DOMAIN events' = DOMAIN events
         /\ \A i \in DOMAIN events :
               events'[i].msg = events[i].msg /\ events'[i].final = events[i].final
         /\ state' = state \/ ApplyRetention
  <1>1. CASE MarkReported
    BY <1>1, EventsDomain DEF MarkReported, Event
  <1>2. CASE \E i \in Ids : ReportAges(i)
    BY <1>2, EventsDomain DEF ReportAges, Event
  <1>3. CASE ApplyRetention
    BY <1>3 DEF ApplyRetention
  <1>4. CASE UNCHANGED <<events, state>>
    BY <1>4
  <1>5. \/ MarkReported \/ (\E i \in Ids : ReportAges(i)) \/ ApplyRetention
        \/ UNCHANGED <<events, state>>
    BY DEF ReporterStep, LoopStep, Answered, WaitForWakeup, FetchUnreported, ListTenants,
       CallTenant, CallIdleTenant, Accepted, Refused, CycleFails, Restart, RunNow,
       IntervalElapses, SetMode, WakeAll, tables
  <1> QED
    BY <1>1, <1>2, <1>3, <1>4, <1>5

\* Retention deletes processed rows, which Outbox allows; no other step of the
\* reporter changes what is the queue's.
LEMMA ReporterIsAllowed ==
  ASSUME TypeOK, QueueTypeOK, SameTables, ReportStep
  PROVE  /\ Queue!Next \/ UNCHANGED queueVars
         /\ told' = told
         /\ state' = [m \in Msgs |-> StateIn(life'[m])]
  <1>1. /\ life' = [m \in Msgs |-> IF state'[m] = "gone" THEN "removed" ELSE life[m]]
        /\ UNCHANGED <<delivered, told, forgotten>> /\ ReporterStep
    BY DEF ReportStep
  <1>2. /\ life = [m \in Msgs |-> life[m]]
        /\ state = [m \in Msgs |-> StateIn(life[m])]
        /\ \A m \in Msgs : state[m] = StateIn(life[m])
    BY DEF QueueTypeOK, SameTables
  <1>3. \A m \in Msgs : /\ state[m] = "gone" <=> life[m] = "removed"
                        /\ state[m] = "processed" <=> life[m] = "processed"
    BY <1>2 DEF StateIn
  <1>4. CASE state' = state
    <2>1. life' = life
      BY <1>1, <1>2, <1>3, <1>4
    <2> QED
      BY <1>1, <1>2, <1>4, <2>1 DEF queueVars
  <1>5. CASE ApplyRetention
    <2> DEFINE P == {m \in Msgs : Removable(m)}
    <2>1. state' = [m \in Msgs |-> IF m \in P THEN "gone" ELSE state[m]]
      BY <1>5 DEF ApplyRetention
    <2>2. P \in SUBSET Msgs /\ \A m \in P : life[m] = "processed"
      BY <1>3 DEF Removable
    <2> HIDE DEF P
    <2>3. life' = [m \in Msgs |-> IF m \in P THEN "removed" ELSE life[m]]
      BY <1>1, <1>3, <2>1
    <2>4. Queue!Remove(P)
      BY <1>1, <2>2, <2>3 DEF Queue!Remove
    <2>5. \A m \in Msgs : state'[m] = StateIn(life'[m])
      <3>1. StateIn("removed") = "gone"
        BY DEF StateIn
      <3> QED
        BY <1>2, <2>1, <2>3, <3>1
    <2>6. state' = [m \in Msgs |-> StateIn(life'[m])]
      BY <2>1, <2>5
    <2> QED
      BY <1>1, <2>2, <2>4, <2>6 DEF Queue!Next
  <1> QED
    BY <1>1, <1>4, <1>5, ReporterWrites

-----------------------------------------------------------------------------
(* Both.                                                                   *)

LEMMA DeliveryInitial == DeliveryInit => DInv
  <1> SUFFICES ASSUME DeliveryInit PROVE DInv
    OBVIOUS
  <1>1. IInv
    BY InitIInv DEF DeliveryInit
  <1>2. /\ told = <<>> /\ events = <<>> /\ forgotten = {}
        /\ life = [m \in Msgs |-> "none"] /\ delivered = [m \in Msgs |-> 0]
        /\ state = [m \in Msgs |-> "waiting"]
    BY DEF DeliveryInit, Init, Queue!Init
  <1>3. QueueTypeOK
    BY <1>2, EmptySeq DEF QueueTypeOK
  <1>4. SameTables
    BY <1>2 DEF SameTables, StateIn
  <1>5. QueueSound
    BY <1>2 DEF QueueSound, TakenTwiceOnlyIfForgotten
  <1> QED
    BY <1>1, <1>3, <1>4, <1>5 DEF DInv

\* The tables stay the same for both, whoever writes.
LEMMA TablesStep ==
  ASSUME TypeOK, QueueTypeOK, SameTables, DeliveryNext
  PROVE  SameTables'
  <1>1. CASE ReportStep
    <2>1. /\ told' = told /\ state' = [m \in Msgs |-> StateIn(life'[m])] /\ ReporterStep
      BY <1>1, ReporterIsAllowed DEF ReportStep
    <2>2. /\ DOMAIN events' = DOMAIN events
          /\ \A i \in DOMAIN events :
                events'[i].msg = events[i].msg /\ events'[i].final = events[i].final
      BY <2>1, ReporterWrites
    <2> QED
      BY <2>1, <2>2 DEF SameTables
  <1>2. CASE QueueStep
    <2>0. PICK ts \in Stamps :
             events' = [i \in DOMAIN told' |-> IF i \in DOMAIN events THEN events[i]
                                               ELSE Unseen(told'[i], ts)]
      BY <1>2 DEF QueueStep
    <2>1. /\ state' = [m \in Msgs |-> StateIn(life'[m])]
          /\ [Queue!Next]_(queueVars)
      BY <1>2 DEF QueueStep, Queue!Next
    <2>2. \A i \in DOMAIN told : told'[i] = told[i]
      BY <2>1, QueueRecords, Recorded
    <2>3. /\ DOMAIN events' = DOMAIN told' /\ DOMAIN events = DOMAIN told
          /\ \A i \in DOMAIN events :
                events[i].msg = told[i][1] /\ events[i].final = (told[i][2] \in Queue!Final)
      BY <2>0 DEF SameTables
    <2>4. ASSUME NEW i \in DOMAIN events'
          PROVE  /\ events'[i].msg = told'[i][1]
                 /\ events'[i].final = (told'[i][2] \in Queue!Final)
      <3>1. CASE i \in DOMAIN events
        <4>1. events'[i] = events[i] /\ told'[i] = told[i]
          BY <2>0, <2>2, <2>3, <3>1
        <4> QED
          BY <2>3, <3>1, <4>1
      <3>2. CASE i \notin DOMAIN events
        <4>1. events'[i] = Unseen(told'[i], ts)
          BY <2>0, <2>3, <2>4, <3>2
        <4> QED
          BY <4>1 DEF Unseen
      <3> QED
        BY <3>1, <3>2
    <2> QED
      BY <2>1, <2>3, <2>4 DEF SameTables
  <1> QED
    BY <1>1, <1>2 DEF DeliveryNext

\* Each component takes a step of its own module, or none.
LEMMA EachStep ==
  ASSUME DInv, [DeliveryNext]_deliveryVars
  PROVE  [Next]_vars /\ [Queue!Next]_(queueVars)
  <1>1. TypeOK /\ QueueTypeOK /\ SameTables
    BY DEF DInv, IInv
  <1>2. CASE QueueStep
    BY <1>1, <1>2, QueueIsExpected DEF QueueStep, Queue!Next
  <1>3. CASE ReportStep
    BY <1>1, <1>3, ReporterIsAllowed DEF ReportStep, Next
  <1>4. CASE UNCHANGED deliveryVars
    BY <1>4 DEF deliveryVars
  <1> QED
    BY <1>2, <1>3, <1>4 DEF DeliveryNext

LEMMA DeliveryStep == DInv /\ [DeliveryNext]_deliveryVars => DInv'
  <1> SUFFICES ASSUME DInv, [DeliveryNext]_deliveryVars PROVE DInv'
    OBVIOUS
  <1>1. IInv /\ TypeOK /\ QueueTypeOK /\ SameTables /\ QueueSound
    BY DEF DInv, IInv
  <1>2. IInv'
    BY <1>1, EachStep, Step
  <1>3. QueueTypeOK' /\ QueueSound'
    BY <1>1, EachStep, QueueTypeStep, QueueSoundStep
  <1>4. CASE DeliveryNext
    BY <1>1, <1>2, <1>3, <1>4, TablesStep DEF DInv
  <1>5. CASE UNCHANGED deliveryVars
    <2>1. SameTables'
      BY <1>1, <1>5 DEF SameTables, deliveryVars, vars, queueVars
    <2> QED
      BY <1>2, <1>3, <2>1 DEF DInv
  <1> QED
    BY <1>4, <1>5

LEMMA DeliveryInvariant == DeliverySpec => []DInv
  BY DeliveryInitial, DeliveryStep, PTL DEF DeliverySpec

-----------------------------------------------------------------------------
\* The rows and events that the queue writes and those that the reporter reads
\* are the same, whatever either has done.
THEOREM TablesAreShared == DeliverySpec => []SameTables
  <1>1. DInv => SameTables
    BY DEF DInv
  <1> QED
    BY <1>1, DeliveryInvariant, PTL

\* Beside the reporter, whose retention deletes its rows, the queue keeps to
\* Outbox.
THEOREM QueueInCompany == DeliverySpec => QueueKeepsToOutbox
  <1>1. DInv /\ [DeliveryNext]_deliveryVars => [Queue!Next]_(Queue!vars)
    BY EachStep DEF queueVars, Queue!vars
  <1>2. DeliveryInit => Queue!Init
    BY DEF DeliveryInit
  <1> QED
    BY <1>1, <1>2, DeliveryInvariant, PTL DEF DeliverySpec, Queue!Spec, QueueKeepsToOutbox

\* Beside the queue, which writes its tables at any time, the reporter behaves
\* as alone: what was proved of it holds of both together.
THEOREM ReporterInCompany == DeliverySpec => ReporterKeepsToSpec
  <1>1. DInv /\ [DeliveryNext]_deliveryVars => [Next]_vars
    BY EachStep
  <1>2. DeliveryInit => Init
    BY DEF DeliveryInit
  <1> QED
    BY <1>1, <1>2, DeliveryInvariant, PTL DEF DeliverySpec, Spec, ReporterKeepsToSpec

\* What is delivered and reported in the end keeps to Reports: its tenant, and
\* nobody else, hears of a message, in order, and once if nothing fails.
THEOREM DeliveryImplementsReports == DeliverySpec => ImplementsReports
  BY ReporterInCompany, ReporterImplementsReports, PTL DEF ReporterKeepsToSpec

\* No tenant ever hears "sent" of a message that the SMTP server did not take.
THEOREM SentIsTrueToTheEnd == DeliverySpec => []HeardSentIsTrue
  <1>1. DInv => HeardSentIsTrue
    BY DEF DInv, IInv, TypeOK, SameTables, QueueSound, HeardSentIsTrue
  <1> QED
    BY <1>1, DeliveryInvariant, PTL

\* The SMTP server takes a message twice only after the queue was made to forget
\* the first time, whatever the reporter does meanwhile.
THEOREM TakenOnce == DeliverySpec => []TakenTwiceOnlyIfForgotten
  <1>1. DInv => TakenTwiceOnlyIfForgotten
    BY DEF DInv, QueueSound
  <1> QED
    BY <1>1, DeliveryInvariant, PTL

\* Between the mark of the queue and the retention of the reporter no outcome
\* gets lost: its tenant heard it, or will find it in the next fetch.
THEOREM NoOutcomeIsLost == DeliverySpec => []OutcomeIsOnItsWay
  <1>1. ASSUME DInv, NEW m \in Msgs, life[m] = "processed"
        PROVE  \E i \in DOMAIN told : /\ told[i][1] = m /\ told[i][2] \in Queue!Final
                                      /\ i \in received \cup Unreported
    <2>1. PICK i \in DOMAIN told : told[i][1] = m /\ told[i][2] \in Queue!Final
      BY <1>1 DEF DInv, QueueSound, Queue!HasFinal
    <2>2. i \in DOMAIN events /\ events[i].msg = m /\ state[m] = "processed"
      BY <1>1, <2>1 DEF DInv, SameTables, StateIn
    <2>3. i \in received \cup Unreported
      BY <1>1, <2>2 DEF DInv, IInv, ReportedWasReceived, Unreported
    <2> QED
      BY <2>1, <2>3
  <1>2. DInv => OutcomeIsOnItsWay
    BY <1>1 DEF OutcomeIsOnItsWay
  <1> QED
    BY <1>2, DeliveryInvariant, PTL

\* Retention deletes a message only when its tenant has heard its outcome, and
\* everything else that was recorded of it.
THEOREM RetiredIsKnownToTenant == DeliverySpec => RetiredIsKnown
  <1>1. ASSUME DInv, [DeliveryNext]_deliveryVars, pc = "retain", pc' # pc, NEW m \in Msgs,
               life[m] # "removed", life'[m] = "removed"
        PROVE  /\ \E i \in received : told[i][1] = m /\ told[i][2] \in Queue!Final
               /\ \A i \in DOMAIN told : told[i][1] = m => i \in received
    <2>1. ReportStep
      BY <1>1 DEF DeliveryNext, QueueStep, reporterVars, deliveryVars, vars
    <2>2. /\ state[m] # "gone" /\ state'[m] = "gone"
      <3>1. state[m] = StateIn(life[m])
        BY <1>1 DEF DInv, SameTables
      <3>2. life[m] \in {"none", "pending", "processed"}
        BY <1>1 DEF DInv, QueueTypeOK
      <3> QED
        BY <1>1, <2>1, <3>1, <3>2 DEF StateIn, ReportStep
    <2>3. ApplyRetention /\ Removable(m)
      BY <1>1, <2>1, <2>2, ReporterWrites DEF ReportStep, ApplyRetention, DInv, IInv
    <2>4. EventsOf(m) \subseteq received /\ state[m] = "processed"
      BY <1>1, <2>3 DEF Removable, EventsOf, DInv, IInv, ReportedWasReceived
    <2>5. \A i \in DOMAIN told : told[i][1] = m => i \in received
      BY <1>1, <2>4 DEF DInv, SameTables, EventsOf
    <2>6. life[m] = "processed"
      BY <1>1, <2>4 DEF DInv, SameTables, StateIn
    <2> QED
      BY <1>1, <2>5, <2>6 DEF DInv, QueueSound, Queue!HasFinal
  <1>2. ASSUME DInv, [DeliveryNext]_deliveryVars
        PROVE  [pc = "retain" /\ pc' # pc =>
                  \A m \in Msgs : life[m] # "removed" /\ life'[m] = "removed" =>
                     /\ \E i \in received : told[i][1] = m /\ told[i][2] \in Queue!Final
                     /\ \A i \in DOMAIN told : told[i][1] = m => i \in received]_deliveryVars
    BY <1>1, <1>2
  <1> QED
    BY <1>2, DeliveryInvariant, PTL DEF DeliverySpec, RetiredIsKnown
=============================================================================
