------------------------------ MODULE SMTPPool ------------------------------
(***************************************************************************)
(* The SMTP connection pool for one account key (host:port:user).          *)
(*                                                                         *)
(* Every critical section of the pool's lock is one step: the lock is held *)
(* across the NOOP and QUIT awaits inside it, so no other coroutine sees   *)
(* the middle.  Connecting happens outside the lock.  The check that finds *)
(* the pool full and the wait on the condition are one step too: asyncio   *)
(* does not switch coroutines between them.                                *)
(***************************************************************************)
EXTENDS Integers, Sequences, FiniteSets

CONSTANTS
    Workers,        \* coroutines that use the pool
    MaxPerAccount,  \* max_per_account
    TTL,            \* ttl
    MaxClock,       \* bound: the clock stops here
    MaxUses         \* bound: acquisitions by each worker

ASSUME PoolAssumption ==
    /\ IsFiniteSet(Workers)
    /\ MaxPerAccount \in Nat \ {0}
    /\ TTL \in Nat
    /\ MaxClock \in Nat
    /\ MaxUses \in Nat

VARIABLES
    idle,    \* _idle[key] as the created_at of each wrapper, the last released at the end
    active,  \* _active_count[key]
    pc,      \* where each worker is
    late,    \* workers whose acquire() deadline has passed
    uses,    \* acquisitions each worker has begun
    clock

vars == <<idle, active, pc, late, uses, clock>>

\* A PooledConnection: the created_at of the wrapper, which is the time of the
\* last release() and not that at which the SMTP connection was opened.
Conn == 0..MaxClock

Pcs == {"out", "try", "connecting", "waiting", "holding"}

Front(s) == SubSeq(s, 1, Len(s) - 1)

Last(s) == s[Len(s)]

\* conn.age() > ttl
Expired(conn) == clock - conn > TTL

-----------------------------------------------------------------------------
(* acquire()                                                               *)

Acquire(w) ==
    /\ pc[w] = "out"
    /\ uses[w] < MaxUses
    /\ uses' = [uses EXCEPT ![w] = @ + 1]
    /\ pc' = [pc EXCEPT ![w] = "try"]
    /\ late' = late \ {w}
    /\ UNCHANGED <<idle, active, clock>>

\* Mutant: a discarded connection is taken off the count of those in use.
DiscardAndUncount(w) ==
    /\ pc[w] = "try"
    /\ idle # <<>>
    /\ idle' = Front(idle)
    /\ active' = active - 1
    /\ UNCHANGED <<pc, late, uses, clock>>

\* The last idle connection is too old or does not answer NOOP: close it, go
\* round the loop.
DiscardIdle(w) ==
    /\ pc[w] = "try"
    /\ idle # <<>>
    /\ idle' = Front(idle)
    /\ UNCHANGED <<active, pc, late, uses, clock>>

\* The last idle connection is young enough and alive.
ReuseIdle(w) ==
    /\ pc[w] = "try"
    /\ idle # <<>>
    /\ ~Expired(Last(idle))
    /\ idle' = Front(idle)
    /\ active' = active + 1
    /\ pc' = [pc EXCEPT ![w] = "holding"]
    /\ UNCHANGED <<late, uses, clock>>

\* Mutant: off by one in the limit.
ReserveOneMore(w) ==
    /\ pc[w] = "try"
    /\ idle = <<>>
    /\ active <= MaxPerAccount
    /\ active' = active + 1
    /\ pc' = [pc EXCEPT ![w] = "connecting"]
    /\ UNCHANGED <<idle, late, uses, clock>>

\* Nothing idle and the limit not reached: count the connection, then open it.
Reserve(w) ==
    /\ pc[w] = "try"
    /\ idle = <<>>
    /\ active < MaxPerAccount
    /\ active' = active + 1
    /\ pc' = [pc EXCEPT ![w] = "connecting"]
    /\ UNCHANGED <<idle, late, uses, clock>>

ConnectSucceeds(w) ==
    /\ pc[w] = "connecting"
    /\ pc' = [pc EXCEPT ![w] = "holding"]
    /\ UNCHANGED <<idle, active, late, uses, clock>>

\* Mutant: the count is not given back.
ConnectFailsCounted(w) ==
    /\ pc[w] = "connecting"
    /\ pc' = [pc EXCEPT ![w] = "out"]
    /\ UNCHANGED <<idle, active, late, uses, clock>>

\* The count is given back and the exception raised; no waiter is notified.
ConnectFails(w) ==
    /\ pc[w] = "connecting"
    /\ active' = active - 1
    /\ pc' = [pc EXCEPT ![w] = "out"]
    /\ UNCHANGED <<idle, late, uses, clock>>

\* The pool is full: wait on the condition, or raise if the deadline is past.
PoolFull(w) ==
    /\ pc[w] = "try"
    /\ idle = <<>>
    /\ active >= MaxPerAccount
    /\ pc' = [pc EXCEPT ![w] = IF w \in late THEN "out" ELSE "waiting"]
    /\ UNCHANGED <<idle, active, late, uses, clock>>

\* Mutant: condition.wait() without a timeout.
WaitForever(w) == FALSE /\ UNCHANGED vars

\* wait_for(condition.wait()) times out and acquire() raises.
WaitTimesOut(w) ==
    /\ pc[w] = "waiting"
    /\ w \in late
    /\ pc' = [pc EXCEPT ![w] = "out"]
    /\ UNCHANGED <<idle, active, late, uses, clock>>

-----------------------------------------------------------------------------
(* release(), cleanup() and the passage of time.                           *)

Waiting == {w \in Workers : pc[w] = "waiting"}

\* condition.notify(): one waiter, if there is any, goes back to the loop.
Notified(pcs) ==
    IF Waiting = {} THEN {pcs}
    ELSE {[pcs EXCEPT ![x] = "try"] : x \in Waiting}

\* The connection goes back to the idle list in a new wrapper, or is closed
\* if it does not answer; either way one waiter is told.
Release(w) ==
    /\ pc[w] = "holding"
    /\ active' = IF active > 0 THEN active - 1 ELSE 0
    /\ \/ idle' = Append(idle, clock)
       \/ UNCHANGED idle
    /\ pc' \in Notified([pc EXCEPT ![w] = "out"])
    /\ UNCHANGED <<late, uses, clock>>

\* cleanup(): what stays is a subsequence of the idle list without the expired
\* connections and without those that fail their NOOP, whichever they are.
Cleanup ==
    /\ idle # <<>>
    /\ \E n \in 0..Len(idle) : \E at \in [1..n -> 1..Len(idle)] :
          /\ \A i, j \in 1..n : i < j => at[i] < at[j]
          /\ \A i \in 1..n : ~Expired(idle[at[i]])
          /\ idle' = [i \in 1..n |-> idle[at[i]]]
    /\ UNCHANGED <<active, pc, late, uses, clock>>

Tick ==
    /\ clock < MaxClock
    /\ clock' = clock + 1
    /\ UNCHANGED <<idle, active, pc, late, uses>>

\* The 30 s given to acquire() are over.
DeadlinePasses(w) ==
    /\ pc[w] \in {"try", "waiting"}
    /\ w \notin late
    /\ late' = late \cup {w}
    /\ UNCHANGED <<idle, active, pc, uses, clock>>

-----------------------------------------------------------------------------
Init ==
    /\ idle = <<>>
    /\ active = 0
    /\ pc = [w \in Workers |-> "out"]
    /\ late = {}
    /\ uses = [w \in Workers |-> 0]
    /\ clock = 0

\* A step of acquire() once it has been called.
AcquireStep(w) ==
    \/ DiscardIdle(w) \/ ReuseIdle(w) \/ Reserve(w)
    \/ ConnectSucceeds(w) \/ ConnectFails(w)
    \/ PoolFull(w) \/ WaitTimesOut(w)

Next ==
    \/ \E w \in Workers : \/ Acquire(w) \/ AcquireStep(w)
                          \/ Release(w) \/ DeadlinePasses(w)
    \/ Cleanup
    \/ Tick

Spec == Init /\ [][Next]_vars

\* Coroutines keep running, connecting ends by its 15 s timeout, deadlines
\* pass, and connection() releases what it acquired.
FairSpec ==
    /\ Spec
    /\ \A w \in Workers : /\ WF_vars(AcquireStep(w))
                          /\ WF_vars(Release(w))
                          /\ WF_vars(DeadlinePasses(w))

-----------------------------------------------------------------------------
(* Properties.                                                             *)

\* Workers that have been counted: they are opening a connection or have one.
Busy == {w \in Workers : pc[w] \in {"connecting", "holding"}}

TypeOK ==
    /\ idle \in Seq(Conn)
    /\ active \in Nat
    /\ pc \in [Workers -> Pcs]
    /\ late \subseteq Workers
    /\ uses \in [Workers -> 0..MaxUses]
    /\ clock \in 0..MaxClock

\* The counter kept across two lock sections and an unlocked connect is
\* exactly the number of workers connecting or holding a connection.
ActiveIsAccurate == active = Cardinality(Busy)

\* Idle connections and connections in use together never exceed
\* max_per_account: what is released does not add to what may be opened.
WithinMaxPerAccount == Len(idle) + active <= MaxPerAccount

\* Every acquire() returns a connection or raises, whatever the others do.
EveryAcquireEnds ==
    \A w \in Workers : pc[w] = "try" ~> pc[w] \in {"holding", "out"}
=============================================================================
