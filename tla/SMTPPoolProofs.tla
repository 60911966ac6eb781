--------------------------- MODULE SMTPPoolProofs ---------------------------
(***************************************************************************)
(* Proofs about SMTPPool, for any number of workers, any limit and any     *)
(* number of uses.                                                         *)
(*                                                                         *)
(* That active is a natural number and that the limit holds both rest on   *)
(* the counter being exact: a failed connect subtracts without a check,    *)
(* and a release adds to the idle list what it takes off the count.  So    *)
(* the three invariants are proved together.                               *)
(***************************************************************************)
EXTENDS SMTPPool, FiniteSetTheorems, SequenceTheorems, TLAPS

IInv == TypeOK /\ ActiveIsAccurate /\ WithinMaxPerAccount

\* Before anybody asks for a connection nothing is idle and nothing counted.
LEMMA InitIInv == Init => IInv
  <1> SUFFICES ASSUME Init PROVE IInv
    OBVIOUS
  <1> USE PoolAssumption DEF Init
  <1>1. TypeOK
    BY DEF TypeOK, Pcs
  <1>2. Busy = {}
    BY DEF Busy
  <1>3. ActiveIsAccurate
    BY <1>2, FS_EmptySet DEF ActiveIsAccurate
  <1>4. WithinMaxPerAccount
    BY DEF WithinMaxPerAccount
  <1> QED
    BY <1>1, <1>3, <1>4 DEF IInv

\* The workers that are counted are finitely many.
LEMMA BusyFinite == IsFiniteSet(Busy) /\ Cardinality(Busy) \in Nat
  BY PoolAssumption, FS_Subset, FS_CardinalityType DEF Busy

\* One more worker is counted than before.
LEMMA BusyGrows ==
  ASSUME NEW w \in Workers, ActiveIsAccurate, w \notin Busy,
         Busy' = Busy \cup {w}, active' = active + 1
  PROVE  ActiveIsAccurate'
  BY BusyFinite, FS_AddElement DEF ActiveIsAccurate

\* One worker fewer is counted than before, and there was one to count.
LEMMA BusyShrinks ==
  ASSUME NEW w \in Busy, ActiveIsAccurate, Busy' = Busy \ {w}
  PROVE  /\ active > 0
         /\ active' = active - 1 => ActiveIsAccurate'
  <1>1. /\ IsFiniteSet(Busy)
        /\ Cardinality(Busy) \in Nat
        /\ Cardinality(Busy \ {w}) = Cardinality(Busy) - 1
    BY BusyFinite, FS_RemoveElement
  <1>2. Cardinality(Busy \ {w}) \in Nat
    BY <1>1, FS_RemoveElement, FS_CardinalityType
  <1> QED
    BY <1>1, <1>2 DEF ActiveIsAccurate

\* A worker that goes from one counted, or one uncounted, place to another
\* leaves the counted ones as they are.
LEMMA BusyStays ==
  ASSUME ActiveIsAccurate, Busy' = Busy, active' = active
  PROVE  ActiveIsAccurate'
  BY DEF ActiveIsAccurate

\* What pop() returns and leaves of a list that is not empty.
LEMMA PopLast ==
  ASSUME NEW S, NEW s \in Seq(S), s # <<>>
  PROVE  /\ Front(s) \in Seq(S)
         /\ Len(Front(s)) = Len(s) - 1
         /\ Len(s) \in Nat \ {0}
         /\ Last(s) \in S
  <1>1. Len(s) \in Nat \ {0}
    OBVIOUS
  <1>2. Last(s) \in S
    BY <1>1 DEF Last
  <1>3. Len(s) - 1 \in Int /\ \A i \in 1..(Len(s) - 1) : s[i] \in S
    BY <1>1
  <1>4. \A n \in Int : (\A i \in 1..n : s[i] \in S) /\ 0 <= n
           => SubSeq(s, 1, n) \in Seq(S) /\ Len(SubSeq(s, 1, n)) = n
    <2> SUFFICES ASSUME NEW n \in Int, \A i \in 1..n : s[i] \in S, 0 <= n
                 PROVE  SubSeq(s, 1, n) \in Seq(S) /\ Len(SubSeq(s, 1, n)) = n
      OBVIOUS
    <2>1. /\ SubSeq(s, 1, n) \in Seq(S)
          /\ Len(SubSeq(s, 1, n)) = IF 1 <= n THEN n - 1 + 1 ELSE 0
      BY SubSeqProperties
    <2> QED
      BY <2>1
  <1>5. 0 <= Len(s) - 1
    BY <1>1
  <1>6. Front(s) \in Seq(S) /\ Len(Front(s)) = Len(s) - 1
    BY <1>3, <1>4, <1>5, Zenon DEF Front
  <1> QED
    BY <1>1, <1>2, <1>6

\* acquire(), up to the decision where the connection comes from.
LEMMA AcquireIInv ==
  ASSUME IInv, NEW w \in Workers, Acquire(w) \/ DiscardIdle(w)
  PROVE  IInv'
  <1> USE PoolAssumption DEF IInv, TypeOK, Pcs
  <1>1. CASE Acquire(w)
    <2>1. TypeOK' /\ WithinMaxPerAccount'
      BY <1>1 DEF Acquire, WithinMaxPerAccount
    <2>2. Busy' = Busy /\ active' = active
      BY <1>1 DEF Acquire, Busy
    <2> QED
      BY <2>1, <2>2, BusyStays
  <1>2. CASE DiscardIdle(w)
    <2>0. idle' \in Seq(Conn) /\ Len(idle') = Len(idle) - 1 /\ Len(idle) \in Nat
      BY <1>2, PopLast DEF DiscardIdle
    <2>1. TypeOK' /\ WithinMaxPerAccount'
      BY <1>2, <2>0 DEF DiscardIdle, WithinMaxPerAccount
    <2>2. Busy' = Busy /\ active' = active
      BY <1>2 DEF DiscardIdle, Busy
    <2> QED
      BY <2>1, <2>2, BusyStays
  <1> QED
    BY <1>1, <1>2

\* A connection is taken from the idle list, or a new one is counted.
LEMMA TakeIInv ==
  ASSUME IInv, NEW w \in Workers, ReuseIdle(w) \/ Reserve(w)
  PROVE  IInv'
  <1> USE PoolAssumption DEF IInv, TypeOK, Pcs
  <1>1. CASE ReuseIdle(w)
    <2>0. idle' \in Seq(Conn) /\ Len(idle') = Len(idle) - 1 /\ Len(idle) \in Nat
      <3>1. idle # <<>> /\ idle' = Front(idle)
        BY <1>1 DEF ReuseIdle
      <3> QED
        BY <3>1, PopLast
    <2>1. TypeOK'
      BY <1>1, <2>0 DEF ReuseIdle
    <2>2. WithinMaxPerAccount'
      BY <1>1, <2>0 DEF ReuseIdle, WithinMaxPerAccount
    <2>3. w \notin Busy /\ Busy' = Busy \cup {w} /\ active' = active + 1
      BY <1>1 DEF ReuseIdle, Busy
    <2> QED
      BY <2>1, <2>2, <2>3, BusyGrows
  <1>2. CASE Reserve(w)
    <2>1. TypeOK'
      BY <1>2 DEF Reserve
    <2>2. WithinMaxPerAccount'
      BY <1>2 DEF Reserve, WithinMaxPerAccount
    <2>3. w \notin Busy /\ Busy' = Busy \cup {w} /\ active' = active + 1
      BY <1>2 DEF Reserve, Busy
    <2> QED
      BY <2>1, <2>2, <2>3, BusyGrows
  <1> QED
    BY <1>1, <1>2

\* The connect outside the lock ends, or the worker waits or gives up.
LEMMA EndIInv ==
  ASSUME IInv, NEW w \in Workers,
         ConnectSucceeds(w) \/ ConnectFails(w) \/ PoolFull(w) \/ WaitTimesOut(w)
  PROVE  IInv'
  <1> USE PoolAssumption DEF IInv, TypeOK, Pcs
  <1>1. CASE ConnectSucceeds(w)
    <2>1. TypeOK' /\ WithinMaxPerAccount'
      BY <1>1 DEF ConnectSucceeds, WithinMaxPerAccount
    <2>2. Busy' = Busy /\ active' = active
      BY <1>1 DEF ConnectSucceeds, Busy
    <2> QED
      BY <2>1, <2>2, BusyStays
  <1>2. CASE ConnectFails(w)
    <2>1. w \in Busy /\ Busy' = Busy \ {w} /\ active' = active - 1
      BY <1>2 DEF ConnectFails, Busy
    <2>2. active > 0 /\ ActiveIsAccurate'
      BY <2>1, BusyShrinks
    <2>3. TypeOK' /\ WithinMaxPerAccount'
      BY <1>2, <2>2 DEF ConnectFails, WithinMaxPerAccount
    <2> QED
      BY <2>2, <2>3
  <1>3. CASE PoolFull(w) \/ WaitTimesOut(w)
    <2>1. TypeOK' /\ WithinMaxPerAccount'
      BY <1>3 DEF PoolFull, WaitTimesOut, WithinMaxPerAccount
    <2>2. Busy' = Busy /\ active' = active
      BY <1>3 DEF PoolFull, WaitTimesOut, Busy
    <2> QED
      BY <2>1, <2>2, BusyStays
  <1> QED
    BY <1>1, <1>2, <1>3

\* release(): the connection goes off the count and at most one onto the idle
\* list; a notified worker was waiting, so it is not counted.
LEMMA ReleaseIInv ==
  ASSUME IInv, NEW w \in Workers, Release(w)
  PROVE  IInv'
  <1> USE PoolAssumption DEF IInv, TypeOK
  <1>1. /\ pc' \in [Workers -> Pcs]
        /\ Busy' = Busy \ {w}
        /\ w \in Busy
    <2>1. CASE Waiting = {}
      BY <2>1 DEF Release, Notified, Busy, Pcs
    <2>2. CASE Waiting # {}
      <3>1. PICK x \in Waiting : pc' = [[pc EXCEPT ![w] = "out"] EXCEPT ![x] = "try"]
        BY <2>2 DEF Release, Notified
      <3> QED
        BY <3>1 DEF Release, Waiting, Busy, Pcs
    <2> QED
      BY <2>1, <2>2
  <1>2. active > 0 /\ (active' = active - 1 => ActiveIsAccurate')
    BY <1>1, BusyShrinks
  <1>3. active' = active - 1
    BY <1>2 DEF Release
  <1>4. /\ idle' \in Seq(Conn)
        /\ Len(idle') \in {Len(idle), Len(idle) + 1}
    <2>1. clock \in Conn
      BY DEF Conn
    <2>2. \/ idle' = Append(idle, clock)
          \/ idle' = idle
      BY DEF Release
    <2>3. CASE idle' = idle
      BY <2>3
    <2>4. CASE idle' = Append(idle, clock)
      BY <2>1, <2>4, AppendProperties
    <2> QED
      BY <2>2, <2>3, <2>4
  <1>5. TypeOK'
    BY <1>1, <1>2, <1>3, <1>4 DEF Release
  <1>6. WithinMaxPerAccount'
    BY <1>2, <1>3, <1>4 DEF WithinMaxPerAccount
  <1> QED
    BY <1>2, <1>3, <1>5, <1>6

\* cleanup() only takes connections out of the idle list.
LEMMA CleanupIInv ==
  ASSUME IInv, Cleanup
  PROVE  IInv'
  <1> USE PoolAssumption DEF IInv, TypeOK
  <1>1. PICK n \in 0..Len(idle) : \E at \in [1..n -> 1..Len(idle)] :
                                     idle' = [i \in 1..n |-> idle[at[i]]]
    BY DEF Cleanup
  <1>2. PICK at \in [1..n -> 1..Len(idle)] : idle' = [i \in 1..n |-> idle[at[i]]]
    BY <1>1
  <1>3. idle' \in Seq(Conn) /\ Len(idle') = n
    BY <1>2
  <1>4. TypeOK' /\ WithinMaxPerAccount'
    BY <1>3 DEF Cleanup, WithinMaxPerAccount
  <1>5. Busy' = Busy /\ active' = active
    BY DEF Cleanup, Busy
  <1> QED
    BY <1>4, <1>5, BusyStays

\* Time passes, or nothing happens.
LEMMA TimeIInv ==
  ASSUME IInv, Tick \/ (\E w \in Workers : DeadlinePasses(w)) \/ UNCHANGED vars
  PROVE  IInv'
  <1> USE PoolAssumption DEF IInv, TypeOK
  <1>1. TypeOK' /\ WithinMaxPerAccount'
    BY DEF Tick, DeadlinePasses, vars, Conn, WithinMaxPerAccount
  <1>2. Busy' = Busy /\ active' = active
    BY DEF Tick, DeadlinePasses, vars, Busy
  <1> QED
    BY <1>1, <1>2, BusyStays

\* Every step of the pool keeps the three invariants.
LEMMA NextIInv == IInv /\ [Next]_vars => IInv'
  <1> SUFFICES ASSUME IInv, [Next]_vars PROVE IInv'
    OBVIOUS
  <1>1. ASSUME NEW w \in Workers, AcquireStep(w) PROVE IInv'
    BY <1>1, AcquireIInv, TakeIInv, EndIInv DEF AcquireStep
  <1> QED
    BY <1>1, AcquireIInv, ReleaseIInv, CleanupIInv, TimeIInv DEF Next

\* The variables of the pool keep their types; in particular the count of
\* connections in use never becomes negative.
THEOREM TypeCorrect == Spec => []TypeOK
  <1>1. IInv => TypeOK
    BY DEF IInv
  <1> QED
    BY <1>1, InitIInv, NextIInv, PTL DEF Spec

\* _active_count is the number of workers that open or hold a connection.
THEOREM CounterIsAccurate == Spec => []ActiveIsAccurate
  <1>1. IInv => ActiveIsAccurate
    BY DEF IInv
  <1> QED
    BY <1>1, InitIInv, NextIInv, PTL DEF Spec

\* Idle connections and connections in use never exceed max_per_account.
THEOREM LimitHolds == Spec => []WithinMaxPerAccount
  <1>1. IInv => WithinMaxPerAccount
    BY DEF IInv
  <1> QED
    BY <1>1, InitIInv, NextIInv, PTL DEF Spec
=============================================================================
