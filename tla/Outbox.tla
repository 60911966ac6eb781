------------------------------- MODULE Outbox -------------------------------
(***************************************************************************)
(* What the message queue promises to a client, one message row at a time: *)
(* a message is accepted, handed to the SMTP server, its outcome is told,  *)
(* and only then is it settled.  The statements, tasks and calls that do   *)
(* this are in MailQueue, which implements this module.                    *)
(***************************************************************************)
EXTENDS Naturals, Sequences

CONSTANT Pks    \* primary keys of rows

VARIABLES
    state,      \* state[p]: "none", "pending", "processed" or "removed"
    delivered,  \* delivered[p]: how often the SMTP server took the message
    told,       \* the events recorded for the client, in order: <<pk, type>>
    forgotten   \* messages the queue may no longer know to be delivered

vars == <<state, delivered, told, forgotten>>

Outcomes == {"sent", "error", "deferred"}

Init ==
    /\ state = [p \in Pks |-> "none"]
    /\ delivered = [p \in Pks |-> 0]
    /\ told = <<>>
    /\ forgotten = {}

\* A row is inserted under a fresh key.
Accept(p) ==
    /\ state[p] = "none"
    /\ state' = [state EXCEPT ![p] = "pending"]
    /\ UNCHANGED <<delivered, told, forgotten>>

\* The server takes the message; a second time only if the first was forgotten.
\* Its answer may be lost, which forgets the delivery at once.
Deliver(p) ==
    /\ state[p] # "none"
    /\ delivered[p] > 0 => p \in forgotten
    /\ delivered' = [delivered EXCEPT ![p] = @ + 1]
    /\ forgotten' \in {forgotten, forgotten \cup {p}}
    /\ UNCHANGED <<state, told>>

\* An outcome is recorded; "sent" only of what the server took.
Tell(p, type) ==
    /\ state[p] # "none"
    /\ type = "sent" => delivered[p] > 0
    /\ told' = Append(told, <<p, type>>)
    /\ UNCHANGED <<state, delivered, forgotten>>

\* The receivers record what comes back later, which is no outcome of the queue.
Receipt(p) ==
    /\ state[p] # "none"
    /\ told' = Append(told, <<p, "receipt">>)
    /\ UNCHANGED <<state, delivered, forgotten>>

\* A message is settled after its outcome was recorded.
Final == {"sent", "error"}
HasFinal(p) == \E i \in DOMAIN told : told[i][1] = p /\ told[i][2] \in Final

Settle(p) ==
    /\ state[p] = "pending"
    /\ HasFinal(p)
    /\ state' = [state EXCEPT ![p] = "processed"]
    /\ UNCHANGED <<delivered, told, forgotten>>

\* A client's write of the row as it was before undoes the settlement.
Reopen(p) ==
    /\ state[p] = "processed"
    /\ state' = [state EXCEPT ![p] = "pending"]
    /\ forgotten' = forgotten \cup {p}
    /\ UNCHANGED <<delivered, told>>

\* A failure loses what was delivered and not yet recorded or settled.
Forget ==
    /\ \E P \in SUBSET {p \in Pks : delivered[p] > 0} : forgotten' = forgotten \cup P
    /\ UNCHANGED <<state, delivered, told>>

\* Removed messages never come back.
Remove(P) ==
    /\ \A p \in P : state[p] \in {"pending", "processed"}
    /\ state' = [p \in Pks |-> IF p \in P THEN "removed" ELSE state[p]]
    /\ UNCHANGED <<delivered, told, forgotten>>

\* What happens to one message; a client's DELETE of several is several steps.
Step(p) ==
    \/ Accept(p) \/ Deliver(p) \/ Settle(p) \/ Reopen(p) \/ Remove({p})
    \/ \E type \in Outcomes : Tell(p, type)
    \/ Receipt(p)

Next ==
    \/ \E p \in Pks : Step(p)
    \/ \E P \in SUBSET Pks : Remove(P)
    \/ Forget

Spec == Init /\ [][Next]_vars
=============================================================================
