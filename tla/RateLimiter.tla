---------------------------- MODULE RateLimiter ----------------------------
(***************************************************************************)
(* The in-memory rate limiter's counters under one account id, and the     *)
(* sends that ask it for permission.                                       *)
(*                                                                         *)
(* The counters are kept by account id alone, and an account id is unique  *)
(* within its tenant only: accounts of several tenants, each with limits   *)
(* of its own or none, may use the same counters.                          *)
(*                                                                         *)
(* No critical section of the limiter's lock awaits anything, so each      *)
(* method is one step.  Between check_and_plan() and log_send() or         *)
(* release_slot() the SMTP conversation takes place, and its end as the    *)
(* server sees it need not be the one the client learns of.                *)
(***************************************************************************)
EXTENDS Integers, Sequences, FiniteSets

CONSTANTS
    Senders,      \* coroutines sending for an account with this id
    Accounts,     \* the accounts with this id, each of another tenant
    AccountOf,    \* the account a sender sends for
    Windows,      \* window lengths, shortest first: minute, hour, day
    Settings,     \* limits of the accounts at the start, 0 for none
    NewLimits,    \* limits an operator may give an account later
    MaxClock,     \* bound: the clock stops here
    MaxSends,     \* bound: messages the server took since the start
    MaxStolen     \* bound: slots that sends without one give back, or yet may

ASSUME LimiterAssumption ==
    /\ IsFiniteSet(Senders)
    /\ AccountOf \in [Senders -> Accounts]
    /\ Windows \in Seq(Nat \ {0})
    /\ Windows # <<>>
    /\ \A j, k \in DOMAIN Windows : j <= k => Windows[j] <= Windows[k]
    /\ NewLimits \subseteq [DOMAIN Windows -> Nat]
    /\ Settings \subseteq [Accounts -> [DOMAIN Windows -> Nat]]
    /\ MaxClock \in Nat
    /\ MaxSends \in Nat
    /\ MaxStolen \in Nat

VARIABLES
    limits,     \* limit_per_minute, limit_per_hour, limit_per_day of each account
    history,    \* _send_history[account_id]
    in_flight,  \* _in_flight[account_id]
    pc,         \* where each sender is
    until,      \* the deferral a message of an account was last given, 0 for none
    clock,
    reconfigured,  \* history: accounts whose limits have been changed
    reserved,   \* history: senders check_and_plan() made a reservation for
    leaked,     \* history: reservations of sends that were never logged
    stolen,     \* history: slots given back by sends that had reserved none
    sent        \* history: the messages the server took, since the start

vars == <<limits, history, in_flight, pc, until, clock, reconfigured,
          reserved, leaked, stolen, sent>>

Pcs == {"idle", "sending", "accepted", "unanswered"}

Taken == [account : Accounts, at : 0..MaxClock, answered : BOOLEAN]

\* Which windows have a limit (lim() maps 0 and NULL to None).
Limited(l) == {k \in DOMAIN Windows : l[k] > 0}

\* The windows in which the sender's own account has a limit.
LimitedFor(s) == Limited(limits[AccountOf[s]])

\* The positions of the times after since.
After(times, since) == {i \in DOMAIN times : times[i] > since}

\* _count_since
CountSince(since) == Cardinality(After(history, since))

\* Mutant: only logged sends count.
ReachedByLogged(s, k) == CountSince(clock - Windows[k]) >= limits[AccountOf[s]][k]

\* The sender's limit of window k is reached, counting the sends in flight;
\* the counts are those of all accounts with the id.
Reached(s, k) == CountSince(clock - Windows[k]) + in_flight >= limits[AccountOf[s]][k]

\* Mutant: the start of the current window.
LastBoundary(k) == (clock \div Windows[k]) * Windows[k]

\* The next boundary of the calendar window, not of the sliding one.
NextBoundary(k) == (clock \div Windows[k] + 1) * Windows[k]

-----------------------------------------------------------------------------
\* _cleanup_old_entries drops what has left the longest window.  The list is
\* sorted, so that is a prefix.
Cleaned ==
    LET cutoff == clock - Windows[Len(Windows)]
        old    == DOMAIN history \ After(history, cutoff)
    IN  SubSeq(history, Cardinality(old) + 1, Len(history))

\* The sends under way that have reserved nothing.
Unreserved == {s \in Senders \ reserved : pc[s] # "idle"}

\* No limit configured: the send goes ahead and nothing is reserved.
CheckUnlimited(s) ==
    /\ pc[s] = "idle"
    /\ LimitedFor(s) = {}
    /\ stolen + Cardinality(Unreserved) < MaxStolen
    /\ pc' = [pc EXCEPT ![s] = "sending"]
    /\ UNCHANGED <<limits, history, in_flight, until, clock, reconfigured,
                   reserved, leaked, stolen, sent>>

\* Some limit is reached: the first one in the order minute, hour, day gives
\* the time until which the message is put off (or it is rejected).
CheckRefused(s) ==
    /\ pc[s] = "idle"
    /\ LimitedFor(s) # {}
    /\ history' = Cleaned
    /\ \E k \in LimitedFor(s) :
          /\ Reached(s, k)
          /\ \A j \in LimitedFor(s) : j < k => ~Reached(s, j)
          /\ until' = [until EXCEPT ![AccountOf[s]] = NextBoundary(k)]
    /\ UNCHANGED <<limits, in_flight, pc, clock, reconfigured,
                   reserved, leaked, stolen, sent>>

\* No limit is reached: a slot is reserved.
CheckAdmitted(s) ==
    /\ pc[s] = "idle"
    /\ LimitedFor(s) # {}
    /\ \A k \in LimitedFor(s) : ~Reached(s, k)
    /\ history' = Cleaned
    /\ in_flight' = in_flight + 1
    /\ pc' = [pc EXCEPT ![s] = "sending"]
    /\ reserved' = reserved \cup {s}
    /\ UNCHANGED <<limits, until, clock, reconfigured, leaked, stolen, sent>>

\* The SMTP server takes the message.  Its answer arrives, and the sent event
\* is recorded next; or it is lost, or later than the 30 seconds it is given.
ServerTakes(s, answered) ==
    /\ pc[s] = "sending"
    /\ Len(sent) < MaxSends
    /\ sent' = Append(sent, [account |-> AccountOf[s], at |-> clock, answered |-> answered])
    /\ pc' = [pc EXCEPT ![s] = IF answered THEN "accepted" ELSE "unanswered"]
    /\ UNCHANGED <<limits, history, in_flight, until, clock, reconfigured,
                   reserved, leaked, stolen>>

\* Mutant: the counter may go below zero.
DecrementedAlways == in_flight - 1

\* Both log_send() and release_slot() give back a slot if one is counted.
Decremented == IF in_flight > 0 THEN in_flight - 1 ELSE in_flight

\* They do so whether or not check_and_plan() reserved one for this send: the
\* slot may then be one that another sender holds.
GiveBack(s) ==
    /\ in_flight' = Decremented
    /\ stolen' = IF s \notin reserved /\ in_flight > 0 THEN stolen + 1 ELSE stolen
    /\ reserved' = reserved \ {s}
    /\ pc' = [pc EXCEPT ![s] = "idle"]

\* Mutant: the slot is not given back.
LogSendKeepingSlot(s) ==
    /\ pc[s] = "accepted"
    /\ history' = Append(history, clock)
    /\ pc' = [pc EXCEPT ![s] = "idle"]
    /\ reserved' = reserved \ {s}
    /\ UNCHANGED <<limits, in_flight, until, clock, reconfigured, leaked, stolen, sent>>

LogSend(s) ==
    /\ pc[s] = "accepted"
    /\ GiveBack(s)
    /\ history' = Append(history, clock)
    /\ UNCHANGED <<limits, until, clock, reconfigured, leaked, sent>>

\* The SMTP conversation failed for the client: the server refused, could not
\* be reached, or took the message and the answer did not arrive in time.
ReleaseSlot(s) ==
    /\ pc[s] \in {"sending", "unanswered"}
    /\ GiveBack(s)
    /\ UNCHANGED <<limits, history, until, clock, reconfigured, leaked, sent>>

\* add_event raises after the server accepted the message: log_send() is not
\* reached and the slot, if one was reserved, stays taken.
NeverLogged(s) ==
    /\ pc[s] = "accepted"
    /\ pc' = [pc EXCEPT ![s] = "idle"]
    /\ leaked' = IF s \in reserved THEN leaked + 1 ELSE leaked
    /\ reserved' = reserved \ {s}
    /\ UNCHANGED <<limits, history, in_flight, until, clock, reconfigured, stolen, sent>>

\* The process is restarted: nothing of the limiter is persistent.
Restart ==
    /\ history' = <<>>
    /\ in_flight' = 0
    /\ pc' = [s \in Senders |-> "idle"]
    /\ until' = [a \in Accounts |-> 0]
    /\ reserved' = {}
    /\ leaked' = 0
    /\ stolen' = 0
    /\ sent' = <<>>
    /\ UNCHANGED <<limits, clock, reconfigured>>

\* An operator changes the limits of one account.
Reconfigure(a, l) ==
    /\ l # limits[a]
    /\ limits' = [limits EXCEPT ![a] = l]
    /\ reconfigured' = reconfigured \cup {a}
    /\ UNCHANGED <<history, in_flight, pc, until, clock, reserved, leaked, stolen, sent>>

Tick ==
    /\ clock < MaxClock
    /\ clock' = clock + 1
    /\ UNCHANGED <<limits, history, in_flight, pc, until, reconfigured,
                   reserved, leaked, stolen, sent>>

-----------------------------------------------------------------------------
Init ==
    /\ limits \in Settings
    /\ history = <<>>
    /\ in_flight = 0
    /\ pc = [s \in Senders |-> "idle"]
    /\ until = [a \in Accounts |-> 0]
    /\ clock = 0
    /\ reconfigured = {}
    /\ reserved = {}
    /\ leaked = 0
    /\ stolen = 0
    /\ sent = <<>>

SenderStep(s) ==
    \/ CheckUnlimited(s) \/ CheckRefused(s) \/ CheckAdmitted(s)
    \/ \E answered \in BOOLEAN : ServerTakes(s, answered)
    \/ LogSend(s) \/ ReleaseSlot(s) \/ NeverLogged(s)

Next ==
    \/ \E s \in Senders : SenderStep(s)
    \/ Restart
    \/ \E a \in Accounts, l \in NewLimits : Reconfigure(a, l)
    \/ Tick

Spec == Init /\ [][Next]_vars

-----------------------------------------------------------------------------
TypeOK ==
    /\ limits \in [Accounts -> [DOMAIN Windows -> Nat]]
    /\ history \in Seq(0..MaxClock)
    /\ in_flight \in Nat
    /\ pc \in [Senders -> Pcs]
    /\ until \in [Accounts -> Nat]
    /\ clock \in 0..MaxClock
    /\ reconfigured \subseteq Accounts
    /\ reserved \subseteq Senders
    /\ leaked \in Nat
    /\ stolen \in Nat
    /\ sent \in Seq(Taken)

\* The messages of account a the server took after a time and said so: the
\* only ones the program can know of.
Answered(a, since) ==
    {i \in DOMAIN sent : sent[i].account = a /\ sent[i].answered /\ sent[i].at > since}

\* In no window does the server take more messages of an account than its
\* limit allows, for any number of sends in parallel and whoever else uses the
\* counters, although a send is logged only after the server accepted it,
\* perhaps never, and old entries are dropped from the history.  What is not
\* promised is counted: a message whose answer did not arrive in time is not
\* logged and gives back its slot, so it comes on top of the limit, and every
\* slot stolen by an account without limits lets one more message through.
WithinLimits ==
    \A a \in Accounts \ reconfigured :
        \A k \in Limited(limits[a]) :
            Cardinality(Answered(a, clock - Windows[k])) <= limits[a][k] + stolen

\* The in-flight counter, which any number of sends raise and lower without
\* knowing of each other, is the number of reservations still held and of those
\* never given back, less at most the slots that were stolen: through
\* restarts and changes of the limits it loses nothing and gains nothing else.
SlotsMatchReservations ==
    LET held == Cardinality(reserved) + leaked
    IN  held - stolen <= in_flight /\ in_flight <= held

\* A refused message is put off to a time that comes, and at the latest to the
\* end of the longest limited window: it is neither ready again at once, so that
\* the dispatch loop would spin on it, nor put off beyond its window.
PutOffWithinWindow ==
    [][\A a \in Accounts : until'[a] # until[a] /\ until'[a] # 0 =>
          /\ until'[a] > clock
          /\ \E k \in Limited(limits[a]) : until'[a] - clock <= Windows[k]]_vars
=============================================================================
