------------------------------ MODULE Reports ------------------------------
(***************************************************************************)
(* What the reporter promises to the tenants: of the events of a message   *)
(* its tenant, and no other, hears, of one that was recorded after another *)
(* and is not said to be older not before that one, and of each once       *)
(* unless a failure made the reporter forget that it was heard; only what  *)
(* was heard is marked as reported, and a message is retired only when all *)
(* its events are.  The cycles, calls and statements that do this are in   *)
(* ClientReporter, which implements this module.                           *)
(***************************************************************************)
EXTENDS Naturals, Sequences

CONSTANTS
    Tenants,
    Msgs,
    TenantOf,    \* [Msgs -> Tenants]
    Stamps       \* the seconds events are said to be of

VARIABLES
    state,       \* state[m]: "waiting", "processed" or "gone"
    told,        \* the events as recorded: <<message, final, stamp>>
    heard,       \* places in told of what its tenant has heard
    marked,      \* those the tables show as reported
    forgotten,   \* those that may be reported though they were heard
    failures     \* how often a cycle, an answer or the process was lost

vars == <<state, told, heard, marked, forgotten, failures>>

Init ==
    /\ state = [m \in Msgs |-> "waiting"]
    /\ told = <<>>
    /\ heard = {} /\ marked = {} /\ forgotten = {}
    /\ failures = 0

EventsOf(m) == {i \in DOMAIN told : told[i][1] = m}

-----------------------------------------------------------------------------
(* What others do to the tables.                                           *)

Tell(m, final, ts) ==
    /\ told' = Append(told, <<m, final, ts>>)
    /\ UNCHANGED <<state, heard, marked, forgotten, failures>>

Settle(m) ==
    /\ state[m] = "waiting"
    /\ \E i \in EventsOf(m) : told[i][2]
    /\ state' = [state EXCEPT ![m] = "processed"]
    /\ UNCHANGED <<told, heard, marked, forgotten, failures>>

Reopen(m) ==
    /\ state[m] = "processed"
    /\ state' = [state EXCEPT ![m] = "waiting"]
    /\ UNCHANGED <<told, heard, marked, forgotten, failures>>

Delete(m) ==
    /\ state[m] # "gone"
    /\ state' = [state EXCEPT ![m] = "gone"]
    /\ UNCHANGED <<told, heard, marked, forgotten, failures>>

-----------------------------------------------------------------------------
(* What the reporter does.                                                 *)

\* Tenant t hears of ids: of its own messages, not marked, not heard before
\* unless forgotten, and nothing before an event of its message that was
\* recorded earlier and is not said to be later.
Hear(t, ids) ==
    /\ UNCHANGED <<state, marked, told>>
    /\ heard' = heard \cup ids
    /\ \A i \in ids : TenantOf[told[i][1]] = t
    /\ ids \cap marked = {}
    /\ ids \cap heard \subseteq forgotten
    /\ \A i \in ids : \A j \in 1..(i - 1) :
          told[j][1] = told[i][1] /\ told[j][3] <= told[i][3] => j \in heard \cup ids

\* An answer, a cycle or the process is lost, and what was heard with it.
Fail ==
    /\ failures' = failures + 1
    /\ \E ids \in SUBSET heard' : forgotten' = forgotten \cup ids

\* UPDATE message_events SET reported_ts.
Mark ==
    /\ UNCHANGED <<state, heard, forgotten, failures, told>>
    /\ \E ids \in SUBSET heard : marked' = marked \cup ids

\* Retention retires messages of which everything is marked.
Retire ==
    /\ UNCHANGED <<heard, marked, forgotten, failures, told>>
    /\ \E M \in SUBSET {m \in Msgs : /\ state[m] = "processed"
                                     /\ EventsOf(m) \subseteq marked} :
          state' = [m \in Msgs |-> IF m \in M THEN "gone" ELSE state[m]]

Next ==
    \/ Mark \/ Retire
    \/ UNCHANGED <<state, heard, marked, told>> /\ Fail
    \/ \E t \in Tenants, ids \in SUBSET DOMAIN told :
          Hear(t, ids) /\ (UNCHANGED <<forgotten, failures>> \/ Fail)
    \/ \E m \in Msgs : \/ Settle(m) \/ Reopen(m) \/ Delete(m)
                       \/ \E final \in BOOLEAN, ts \in Stamps : Tell(m, final, ts)

Spec == Init /\ [][Next]_vars
=============================================================================
