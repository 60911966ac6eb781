------------------------------ MODULE Delivery ------------------------------
(***************************************************************************)
(* A message from its submission to the report its tenant hears: the queue *)
(* and the reporter, which meet in the tables messages and message_events. *)
(*                                                                         *)
(* The queue is what Outbox promises of it, the reporter is the loop of    *)
(* ClientReporter.  Each step is one of the queue, of which the reporter   *)
(* sees the rows and events it writes, or one of the reporter, of which    *)
(* the queue sees the rows that retention deletes.                         *)
(***************************************************************************)
EXTENDS ClientReporter

VARIABLES
    life,        \* the state of each row, as Outbox knows it
    delivered,   \* how often the SMTP server took each message
    told,        \* the events as they were recorded: <<message, type>>
    forgotten    \* messages the queue may no longer know to be delivered

Queue == INSTANCE Outbox WITH Pks <- Msgs, state <- life

queueVars == <<life, delivered, told, forgotten>>
reporterVars == <<mode, due, runNow, wake, pc, cycle, faults, history, owed>>
deliveryVars == <<vars, queueVars>>

\* What a row is to the reporter: smtp_ts is NULL, it is set, the row is gone;
\* what is not yet inserted it does not know.
StateIn(l) == CASE l = "processed" -> "processed"
                [] l = "removed" -> "gone"
                [] OTHER -> "waiting"

\* A recorded event, with its stamp, before it is reported.
Unseen(e, ts) == [msg |-> e[1], final |-> e[2] \in Queue!Final, ts |-> ts, reported |-> "no"]

\* The queue writes a row or an event, or changes what only it knows.
QueueStep ==
    /\ (\E m \in Msgs : Queue!Step(m)) \/ Queue!Forget
    /\ Len(told') <= MaxEvents
    /\ state' = [m \in Msgs |-> StateIn(life'[m])]
    /\ \E ts \in Stamps :
          events' = [i \in DOMAIN told' |-> IF i \in DOMAIN events THEN events[i]
                                            ELSE Unseen(told'[i], ts)]
    /\ UNCHANGED reporterVars

\* The reporter does what it does; retention deletes rows of the queue.
ReportStep ==
    /\ ReporterStep
    /\ life' = [m \in Msgs |-> IF state'[m] = "gone" THEN "removed" ELSE life[m]]
    /\ UNCHANGED <<delivered, told, forgotten>>

DeliveryInit == Init /\ Queue!Init

DeliveryNext == QueueStep \/ ReportStep

DeliverySpec == DeliveryInit /\ [][DeliveryNext]_deliveryVars

-----------------------------------------------------------------------------
\* The queue and the reporter see the same tables.
SameTables ==
    /\ state = [m \in Msgs |-> StateIn(life[m])]
    /\ DOMAIN events = DOMAIN told
    /\ \A i \in DOMAIN events :
          events[i].msg = told[i][1] /\ events[i].final = (told[i][2] \in Queue!Final)

\* In company the queue keeps to Outbox: what the reporter deletes, it may.
QueueKeepsToOutbox == Queue!Spec

\* In company the reporter does what it does alone: the queue writes nothing
\* that was not expected of others.
ReporterKeepsToSpec == Spec

\* A tenant that hears "sent" hears the truth, after whatever retries, lost
\* answers, failed cycles and restarts: the SMTP server took the message.
HeardSentIsTrue ==
    \A i \in received : told[i][2] = "sent" => delivered[told[i][1]] > 0

\* The outcome of a message that is marked processed is not lost before its
\* tenant knows it: an event that tells it was heard or is still to be reported.
OutcomeIsOnItsWay ==
    \A m \in Msgs : life[m] = "processed" =>
        \E i \in DOMAIN told : /\ told[i][1] = m /\ told[i][2] \in Queue!Final
                               /\ i \in received \cup Unreported

\* When retention deletes a message its tenant has heard how it ended, and all
\* else that was recorded of it.
RetiredIsKnown ==
    [][pc = "retain" /\ pc' # pc =>
          \A m \in Msgs : life[m] # "removed" /\ life'[m] = "removed" =>
             /\ \E i \in received : told[i][1] = m /\ told[i][2] \in Queue!Final
             /\ \A i \in DOMAIN told : told[i][1] = m => i \in received]_deliveryVars

\* The server takes a message twice only if the queue forgot the first time.
TakenTwiceOnlyIfForgotten == \A m \in Msgs : delivered[m] > 1 => m \in forgotten
=============================================================================
