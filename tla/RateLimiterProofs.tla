------------------------- MODULE RateLimiterProofs -------------------------
(***************************************************************************)
(* Proofs about RateLimiter, for any senders, accounts, windows, limits    *)
(* and bounds.                                                             *)
(*                                                                         *)
(* That the server takes no more than the limit allows is not inductive:   *)
(* it rests on what the limiter knows, the history and the in-flight       *)
(* counter, which every account with the id raises and lowers.  Covered    *)
(* says that the two, and the slots stolen, always cover what was and what *)
(* may yet be answered; Admitted, that what is sent and under way for one  *)
(* account stays within its limits.                                        *)
(***************************************************************************)
EXTENDS RateLimiter, FiniteSetTheorems, SequenceTheorems, TLAPS

Longest == Windows[Len(Windows)]

\* The accounts that have a limit, the same since the start.
Steady == {a \in Accounts \ reconfigured : Limited(limits[a]) # {}}

\* The slots reserved for messages whose answer has not arrived.
Waiting == {s \in reserved : pc[s] # "accepted"}
WaitingOf(a) == {s \in Waiting : AccountOf[s] = a}

\* The entries of q, records of Taken, that are of the accounts in A, were
\* answered, and are later than c.
Select(q, A, c) ==
    {i \in DOMAIN q : q[i].account \in A /\ q[i].answered /\ q[i].at > c}

\* Times are those of the past, and the history is in order.
TimesFine ==
    /\ \A i \in DOMAIN history : history[i] <= clock
    /\ \A i \in DOMAIN sent : sent[i].at <= clock
    /\ \A i, j \in DOMAIN history : i <= j => history[i] <= history[j]

\* Only senders under way hold a slot, and all of a steady account do.
ReservedFine ==
    /\ \A s \in reserved : pc[s] # "idle"
    /\ \A s \in Senders : AccountOf[s] \in Steady /\ pc[s] # "idle" => s \in reserved

\* What was answered since c, and what may be, is logged, counted or stolen.
Covered ==
    \A c \in clock - Longest .. clock - 1 :
        Cardinality(Select(sent, Steady, c)) + Cardinality(Waiting)
            <= CountSince(c) + in_flight + stolen

Admitted ==
    \A a \in Steady : \A k \in Limited(limits[a]) :
        Cardinality(Select(sent, {a}, clock - Windows[k])) + Cardinality(WaitingOf(a))
            <= limits[a][k] + stolen

IInv ==
    TypeOK /\ TimesFine /\ ReservedFine /\ SlotsMatchReservations /\ Covered /\ Admitted

-----------------------------------------------------------------------------
(* Counting times. *)

LEMMA IntervalSize == \A n \in Nat : IsFiniteSet(1..n) /\ Cardinality(1..n) = n
  BY FS_Interval

LEMMA AfterFinite ==
  ASSUME NEW q \in Seq(Nat), NEW c
  PROVE  IsFiniteSet(After(q, c)) /\ Cardinality(After(q, c)) \in Nat
  <1>1. IsFiniteSet(DOMAIN q)
    BY FS_Interval
  <1> QED
    BY <1>1, FS_Subset, FS_CardinalityType DEF After

LEMMA AfterEmpty == \A c : Cardinality(After(<<>>, c)) = 0
  BY FS_EmptySet DEF After

LEMMA AfterLater ==
  ASSUME NEW q \in Seq(Nat), NEW c \in Int, NEW d \in Int, c <= d
  PROVE  Cardinality(After(q, d)) <= Cardinality(After(q, c))
  <1>1. After(q, d) \subseteq After(q, c)
    BY DEF After
  <1> QED
    BY <1>1, AfterFinite, FS_Subset

LEMMA AfterLast ==
  ASSUME NEW q \in Seq(Nat), NEW c \in Int, \A i \in DOMAIN q : q[i] <= c
  PROVE  Cardinality(After(q, c)) = 0
  <1>1. After(q, c) = {}
    BY DEF After
  <1> QED
    BY <1>1, FS_EmptySet

LEMMA AfterAppend ==
  ASSUME NEW q \in Seq(Nat), NEW t \in Nat, NEW c \in Int
  PROVE  Cardinality(After(Append(q, t), c)) =
           Cardinality(After(q, c)) + IF t > c THEN 1 ELSE 0
  <1> DEFINE n == Len(q) + 1
  <1>1. n \notin After(q, c)
    BY DEF After
  <1>2. After(Append(q, t), c) = IF t > c THEN After(q, c) \cup {n} ELSE After(q, c)
    BY DEF After
  <1>3. Cardinality(After(q, c) \cup {n}) = Cardinality(After(q, c)) + 1
    BY <1>1, AfterFinite, FS_AddElement
  <1> QED
    BY <1>2, <1>3, AfterFinite

\* In an ordered sequence the times up to c are a prefix.
LEMMA OldIsPrefix ==
  ASSUME NEW q \in Seq(Nat), NEW c \in Int,
         \A i, j \in DOMAIN q : i <= j => q[i] <= q[j]
  PROVE  /\ Cardinality(DOMAIN q \ After(q, c)) \in 0..Len(q)
         /\ DOMAIN q \ After(q, c) = 1..Cardinality(DOMAIN q \ After(q, c))
  <1> DEFINE old == DOMAIN q \ After(q, c)
             n   == Cardinality(old)
  <1>1. DOMAIN q = 1..Len(q) /\ Len(q) \in Nat /\ old \subseteq DOMAIN q
    BY LenProperties
  <1>2. IsFiniteSet(1..Len(q)) /\ Cardinality(1..Len(q)) = Len(q)
    BY <1>1, IntervalSize
  <1>3. IsFiniteSet(old) /\ n \in Nat /\ n <= Len(q)
    BY <1>1, <1>2, FS_Subset, FS_CardinalityType
  <1>4. ASSUME NEW i \in old PROVE i \in 1..n
    <2>1. i \in 1..Len(q) /\ 1..i \subseteq old
      BY <1>1 DEF After
    <2>2. Cardinality(1..i) = i
      BY <1>1, <2>1, IntervalSize
    <2> QED
      BY <1>3, <2>1, <2>2, FS_Subset
  <1>5. IsFiniteSet(1..n) /\ Cardinality(1..n) = n
    BY <1>3, IntervalSize
  <1>6. old = 1..n
    <2>1. old \subseteq 1..n
      BY <1>4
    <2> QED
      BY <1>5, <2>1, FS_Subset
  <1>7. n \in 0..Len(q)
    BY <1>1, <1>3
  <1> HIDE DEF n
  <1> QED
    BY <1>6, <1>7 DEF n

\* What _cleanup_old_entries drops does not count for any window.
LEMMA CleanedFine ==
  ASSUME TypeOK, TimesFine
  PROVE  /\ Cleaned \in Seq(0..MaxClock)
         /\ \A i \in DOMAIN Cleaned : Cleaned[i] <= clock
         /\ \A i, j \in DOMAIN Cleaned : i <= j => Cleaned[i] <= Cleaned[j]
         /\ \A c \in Int : c >= clock - Longest =>
               Cardinality(After(Cleaned, c)) = Cardinality(After(history, c))
  <1> DEFINE cut == clock - Longest
             old == DOMAIN history \ After(history, cut)
             n   == Cardinality(old)
  <1>1. history \in Seq(Nat) /\ cut \in Int /\ DOMAIN history = 1..Len(history)
    BY LimiterAssumption DEF TypeOK, Longest
  <1>2. n \in 0..Len(history) /\ old = 1..n
    BY <1>1, OldIsPrefix DEF TimesFine
  <1> HIDE DEF n
  <1>3. Cleaned = SubSeq(history, n + 1, Len(history))
    BY DEF Cleaned, Longest, n
  <1>4. /\ Cleaned \in Seq(0..MaxClock)
        /\ Len(Cleaned) = Len(history) - n
        /\ \A i \in 1..Len(Cleaned) : Cleaned[i] = history[i + n]
    <2> DEFINE a == n + 1
               b == Len(history)
    <2>1. a \in Int /\ b \in Int /\ a - 1 <= b
      BY <1>1, <1>2
    <2>2. \A i \in a..b : history[i] \in 0..MaxClock
      <3>1. \A i \in DOMAIN history : history[i] \in 0..MaxClock
        BY <1>1, ElementOfSeq DEF TypeOK
      <3>2. a..b \subseteq DOMAIN history
        BY <1>1, <1>2
      <3> QED
        BY <3>1, <3>2
    <2>3. /\ SubSeq(history, a, b) \in Seq(0..MaxClock)
          /\ Len(SubSeq(history, a, b)) = IF a <= b THEN b - a + 1 ELSE 0
          /\ \A i \in 1 .. b - a + 1 : SubSeq(history, a, b)[i] = history[a + i - 1]
      <3> HIDE DEF a, b
      <3> QED
        BY <2>1, <2>2, SubSeqProperties
    <2>4. /\ Cleaned \in Seq(0..MaxClock)
          /\ Len(Cleaned) = b - n
      <3>1. b - n = IF a <= b THEN b - a + 1 ELSE 0
        BY <1>2, <2>1
      <3> QED
        BY <1>3, <2>3, <3>1
    <2>5. ASSUME NEW i \in 1 .. Len(Cleaned) PROVE Cleaned[i] = history[i + n]
      <3>1. i \in 1 .. b - a + 1 /\ a + i - 1 = i + n
        BY <1>1, <1>2, <2>4
      <3> QED
        BY <1>3, <2>3, <3>1
    <2> QED
      BY <2>4, <2>5
  <1>5. DOMAIN Cleaned = 1..Len(Cleaned)
    BY <1>4
  <1>6. \A i \in DOMAIN Cleaned : i + n \in DOMAIN history /\ Cleaned[i] = history[i + n]
    BY <1>1, <1>2, <1>4, <1>5
  <1>7. ASSUME NEW c \in Int, c >= cut
        PROVE  Cardinality(After(Cleaned, c)) = Cardinality(After(history, c))
    <2> DEFINE f == [i \in After(Cleaned, c) |-> i + n]
    <2>1. f \in [After(Cleaned, c) -> After(history, c)]
      BY <1>6 DEF After
    <2>2. ASSUME NEW j \in After(history, c) PROVE \E i \in After(Cleaned, c) : f[i] = j
      <3>1. j \in DOMAIN history /\ history[j] > c /\ j \notin old
        BY <1>1, <1>7 DEF After, TypeOK
      <3>2. j - n \in 1..Len(Cleaned)
        BY <1>1, <1>2, <1>4, <3>1
      <3>3. j - n \in After(Cleaned, c)
        BY <1>1, <1>2, <1>4, <1>5, <3>1, <3>2 DEF After
      <3>4. f[j - n] = j
        BY <1>1, <1>2, <3>1, <3>3
      <3> QED
        BY <3>3, <3>4
    <2>3. \A i, j \in After(Cleaned, c) : f[i] = f[j] => i = j
      BY <1>2, <1>5 DEF After
    <2>4. f \in Bijection(After(Cleaned, c), After(history, c))
      <3> HIDE DEF f
      <3> QED
        BY <2>1, <2>2, <2>3 DEF Bijection, Injection, Surjection, IsInjective
    <2>5. Cleaned \in Seq(Nat)
      BY <1>4, LimiterAssumption
    <2> QED
      BY <2>4, <2>5, AfterFinite, FS_Bijection DEF ExistsBijection
  <1>8. \A i \in DOMAIN Cleaned : Cleaned[i] <= clock
    BY <1>6 DEF TimesFine
  <1>9. ASSUME NEW i \in DOMAIN Cleaned, NEW j \in DOMAIN Cleaned, i <= j
        PROVE  Cleaned[i] <= Cleaned[j]
    <2>1. i + n <= j + n
      BY <1>2, <1>4, <1>5, <1>9
    <2> QED
      BY <1>6, <2>1 DEF TimesFine
  <1> QED
    BY <1>4, <1>7, <1>8, <1>9

(* Counting what was answered: the same for records. *)

LEMMA SelectFinite ==
  ASSUME NEW q \in Seq(Taken), NEW A, NEW c
  PROVE  IsFiniteSet(Select(q, A, c)) /\ Cardinality(Select(q, A, c)) \in Nat
  <1>1. IsFiniteSet(DOMAIN q)
    BY FS_Interval
  <1> QED
    BY <1>1, FS_Subset, FS_CardinalityType DEF Select

LEMMA SelectEmpty == \A A, c : Cardinality(Select(<<>>, A, c)) = 0
  BY FS_EmptySet DEF Select

LEMMA EntryFine ==
  ASSUME NEW q \in Seq(Taken), NEW i \in DOMAIN q
  PROVE  q[i] \in Taken /\ q[i].at \in Nat
  <1>1. q[i] \in Taken
    BY ElementOfSeq, LenProperties
  <1> QED
    BY <1>1, LimiterAssumption DEF Taken

\* Fewer accounts, or a later time, leave no more.
LEMMA SelectFewer ==
  ASSUME NEW q \in Seq(Taken), NEW A, NEW B, A \subseteq B,
         NEW c \in Int, NEW d \in Int, c <= d
  PROVE  Cardinality(Select(q, A, d)) <= Cardinality(Select(q, B, c))
  <1>1. \A i \in DOMAIN q : q[i].at \in Int
    BY EntryFine
  <1>2. Select(q, A, d) \subseteq Select(q, B, c)
    BY <1>1 DEF Select
  <1> QED
    BY <1>2, SelectFinite, FS_Subset

LEMMA SelectLast ==
  ASSUME NEW q \in Seq(Taken), NEW A, NEW c \in Int, \A i \in DOMAIN q : q[i].at <= c
  PROVE  Cardinality(Select(q, A, c)) = 0
  <1>1. \A i \in DOMAIN q : q[i].at \in Int
    BY EntryFine
  <1>2. Select(q, A, c) = {}
    BY <1>1 DEF Select
  <1> QED
    BY <1>2, FS_EmptySet

LEMMA SelectAppend ==
  ASSUME NEW q \in Seq(Taken), NEW r \in Taken, NEW A, NEW c \in Int
  PROVE  Cardinality(Select(Append(q, r), A, c)) =
           Cardinality(Select(q, A, c)) +
             IF r.account \in A /\ r.answered /\ r.at > c THEN 1 ELSE 0
  <1> DEFINE n == Len(q) + 1
             new == r.account \in A /\ r.answered /\ r.at > c
  <1>1. n \notin Select(q, A, c)
    BY LenProperties DEF Select
  <1>2. Select(Append(q, r), A, c) = IF new THEN Select(q, A, c) \cup {n} ELSE Select(q, A, c)
    <2>1. DOMAIN Append(q, r) = DOMAIN q \cup {n}
      BY AppendProperties, LenProperties
    <2>2. \A i \in DOMAIN q : Append(q, r)[i] = q[i]
      BY AppendProperties, LenProperties
    <2>3. Append(q, r)[n] = r
      BY AppendProperties
    <2> HIDE DEF n
    <2> QED
      BY <2>1, <2>2, <2>3 DEF Select
  <1>3. Cardinality(Select(q, A, c) \cup {n}) = Cardinality(Select(q, A, c)) + 1
    BY <1>1, SelectFinite, FS_AddElement
  <1>4. Cardinality(Select(q, A, c)) \in Nat
    BY SelectFinite
  <1> HIDE DEF n, new
  <1>5. CASE new
    BY <1>2, <1>3, <1>4, <1>5 DEF new
  <1>6. CASE ~new
    BY <1>2, <1>4, <1>6 DEF new
  <1> QED
    BY <1>5, <1>6

-----------------------------------------------------------------------------
(* Senders. *)

LEMMA WaitingFinite ==
  ASSUME TypeOK
  PROVE  /\ IsFiniteSet(reserved) /\ Cardinality(reserved) \in Nat
         /\ IsFiniteSet(Waiting) /\ Cardinality(Waiting) \in Nat
         /\ Cardinality(Waiting) <= Cardinality(reserved)
         /\ \A a : /\ IsFiniteSet(WaitingOf(a)) /\ Cardinality(WaitingOf(a)) \in Nat
                   /\ Cardinality(WaitingOf(a)) <= Cardinality(Waiting)
  <1>1. IsFiniteSet(reserved) /\ Cardinality(reserved) \in Nat
    BY LimiterAssumption, FS_Subset, FS_CardinalityType DEF TypeOK
  <1>2. /\ IsFiniteSet(Waiting) /\ Cardinality(Waiting) \in Nat
        /\ Cardinality(Waiting) <= Cardinality(reserved)
    <2>1. Waiting \subseteq reserved
      BY DEF Waiting
    <2> QED
      BY <1>1, <2>1, FS_Subset, FS_CardinalityType
  <1>3. ASSUME NEW a
        PROVE  /\ IsFiniteSet(WaitingOf(a)) /\ Cardinality(WaitingOf(a)) \in Nat
               /\ Cardinality(WaitingOf(a)) <= Cardinality(Waiting)
    <2>1. WaitingOf(a) \subseteq Waiting
      BY DEF WaitingOf
    <2> QED
      BY <1>2, <2>1, FS_Subset, FS_CardinalityType
  <1> QED
    BY <1>1, <1>2, <1>3

\* The windows are no longer than the longest, and are natural numbers.
LEMMA WindowsFine ==
  /\ Longest \in Nat \ {0}
  /\ \A k \in DOMAIN Windows : Windows[k] \in Nat \ {0} /\ Windows[k] <= Longest
  <1>1. DOMAIN Windows = 1..Len(Windows) /\ Len(Windows) \in Nat \ {0}
    BY LimiterAssumption, LenProperties, EmptySeq
  <1>2. \A k \in 1..Len(Windows) : Windows[k] \in Nat \ {0}
    BY LimiterAssumption, ElementOfSeq
  <1>3. \A k \in DOMAIN Windows : Windows[k] <= Windows[Len(Windows)]
    BY <1>1, LimiterAssumption
  <1> QED
    BY <1>1, <1>2, <1>3 DEF Longest

\* The end of a window is after now and at most a window away.
LEMMA BoundaryFine ==
  ASSUME NEW now \in Nat, NEW w \in Nat \ {0}
  PROVE  /\ (now \div w + 1) * w \in Nat
         /\ (now \div w + 1) * w > now
         /\ (now \div w + 1) * w <= now + w
  <1>1. now \div w \in Nat
    BY Z3
  <1>2. now < (now \div w + 1) * w
    BY Z3
  <1>3. (now \div w) * w <= now
    BY Z3
  <1>4. (now \div w + 1) * w = (now \div w) * w + w /\ (now \div w) * w \in Nat
    BY <1>1
  <1> QED
    BY <1>2, <1>3, <1>4

\* A slot is reserved.
LEMMA OneMore ==
  ASSUME TypeOK, ReservedFine, NEW s \in Senders, CheckAdmitted(s)
  PROVE  /\ Cardinality(reserved') = Cardinality(reserved) + 1
         /\ Cardinality(Waiting') = Cardinality(Waiting) + 1
         /\ \A a : Cardinality(WaitingOf(a)') =
              Cardinality(WaitingOf(a)) + IF AccountOf[s] = a THEN 1 ELSE 0
  <1>1. /\ s \notin reserved /\ reserved' = reserved \cup {s}
        /\ pc' = [pc EXCEPT ![s] = "sending"]
    BY DEF CheckAdmitted, ReservedFine
  <1>2. Waiting' = Waiting \cup {s} /\ s \notin Waiting
    BY <1>1 DEF Waiting, TypeOK
  <1>3. ASSUME NEW a
        PROVE  Cardinality(WaitingOf(a)') =
                 Cardinality(WaitingOf(a)) + IF AccountOf[s] = a THEN 1 ELSE 0
    <2>1. CASE AccountOf[s] = a
      <3>1. WaitingOf(a)' = WaitingOf(a) \cup {s} /\ s \notin WaitingOf(a)
        BY <1>2, <2>1 DEF WaitingOf
      <3> QED
        BY <2>1, <3>1, WaitingFinite, FS_AddElement
    <2>2. CASE AccountOf[s] # a
      <3>1. WaitingOf(a)' = WaitingOf(a)
        BY <1>2, <2>2 DEF WaitingOf
      <3> QED
        BY <2>2, <3>1, WaitingFinite
    <2> QED
      BY <2>1, <2>2
  <1> QED
    BY <1>1, <1>2, <1>3, WaitingFinite, FS_AddElement

\* One slot less is waited for: the answer arrives, or the sender is done.
LEMMA OneLess ==
  ASSUME TypeOK, NEW s \in Senders, NEW p \in {"accepted", "unanswered", "idle"},
         pc' = [pc EXCEPT ![s] = p],
         reserved' = IF p = "idle" THEN reserved \ {s} ELSE reserved,
         p # "idle" => pc[s] = "sending"
  PROVE  /\ Cardinality(reserved') =
              Cardinality(reserved) - IF p = "idle" /\ s \in reserved THEN 1 ELSE 0
         /\ Cardinality(Waiting') =
              Cardinality(Waiting) - IF p # "unanswered" /\ s \in Waiting THEN 1 ELSE 0
         /\ \A a : Cardinality(WaitingOf(a)') =
              Cardinality(WaitingOf(a)) - IF p # "unanswered" /\ s \in WaitingOf(a) THEN 1 ELSE 0
  <1>1. reserved \subseteq Senders /\ pc \in [Senders -> Pcs]
    BY DEF TypeOK
  <1>2. Waiting' = IF p # "unanswered" THEN Waiting \ {s} ELSE Waiting
    <2>1. CASE p = "idle"
      BY <1>1, <2>1 DEF Waiting
    <2>2. CASE p = "accepted"
      BY <1>1, <2>2 DEF Waiting
    <2>3. CASE p = "unanswered"
      BY <1>1, <2>3 DEF Waiting
    <2> QED
      BY <2>1, <2>2, <2>3
  <1>3. \A a : WaitingOf(a)' = IF p # "unanswered" THEN WaitingOf(a) \ {s} ELSE WaitingOf(a)
    BY <1>2 DEF WaitingOf
  <1>4. \A S : IsFiniteSet(S) =>
           Cardinality(S \ {s}) = Cardinality(S) - IF s \in S THEN 1 ELSE 0
    BY FS_RemoveElement, FS_CardinalityType
  <1>5. Cardinality(reserved \ {s}) = Cardinality(reserved) - IF s \in reserved THEN 1 ELSE 0
    BY <1>4, WaitingFinite
  <1>6. Cardinality(Waiting \ {s}) = Cardinality(Waiting) - IF s \in Waiting THEN 1 ELSE 0
    BY <1>4, WaitingFinite
  <1>7. \A a : Cardinality(WaitingOf(a) \ {s}) =
                 Cardinality(WaitingOf(a)) - IF s \in WaitingOf(a) THEN 1 ELSE 0
    BY <1>4, WaitingFinite
  <1>8. Cardinality(reserved) \in Nat /\ Cardinality(Waiting) \in Nat
    BY WaitingFinite
  <1>9. \A a : Cardinality(WaitingOf(a)) \in Nat
    BY WaitingFinite
  <1>10. Cardinality(reserved') =
           Cardinality(reserved) - IF p = "idle" /\ s \in reserved THEN 1 ELSE 0
    BY <1>5, <1>8
  <1>11. Cardinality(Waiting') =
           Cardinality(Waiting) - IF p # "unanswered" /\ s \in Waiting THEN 1 ELSE 0
    BY <1>2, <1>6, <1>8
  <1>12. \A a : Cardinality(WaitingOf(a)') =
           Cardinality(WaitingOf(a)) - IF p # "unanswered" /\ s \in WaitingOf(a) THEN 1 ELSE 0
    BY <1>3, <1>7, <1>9
  <1> QED
    BY <1>10, <1>11, <1>12

\* What log_send() and release_slot() do to the slots, whoever held them.
LEMMA GivesBack ==
  ASSUME TypeOK, NEW s \in Senders, GiveBack(s)
  PROVE  /\ in_flight' \in Nat /\ stolen' \in Nat /\ stolen <= stolen'
         /\ in_flight' <= in_flight
         /\ in_flight' + 1 >= in_flight
         /\ in_flight' = in_flight => in_flight = 0
         /\ s \notin reserved => in_flight' + stolen' = in_flight + stolen
         /\ s \in reserved => stolen' = stolen
  BY DEF GiveBack, Decremented, TypeOK

-----------------------------------------------------------------------------
(* Sums: what a step does to both sides of the bounds below. *)

\* A slot held is given back: h the slots held, l those leaked, t those stolen.
LEMMA SlotReturned ==
  ASSUME NEW h \in Nat, NEW h2 \in Nat, NEW l \in Nat, NEW t \in Nat,
         NEW f \in Nat, NEW f2 \in Nat,
         h = h2 + 1, (h + l) - t <= f, f <= h + l,
         f2 <= f, f <= f2 + 1, f2 = f => f = 0
  PROVE  (h2 + l) - t <= f2 /\ f2 <= h2 + l
  OBVIOUS

\* A slot is stolen, or there was none to steal.
LEMMA SlotStolen ==
  ASSUME NEW h \in Nat, NEW l \in Nat, NEW t \in Nat, NEW t2 \in Nat,
         NEW f \in Nat, NEW f2 \in Nat,
         (h + l) - t <= f, f <= h + l, f2 <= f, f2 + t2 = f + t
  PROVE  (h + l) - t2 <= f2 /\ f2 <= h + l
  OBVIOUS

\* A send is logged, whoever held the slot it gives back.
LEMMA SumsLogged ==
  ASSUME NEW S \in Nat, NEW S2 \in Nat, NEW W \in Nat, NEW H \in Nat,
         NEW f \in Nat, NEW t \in Nat, NEW f2 \in Nat, NEW t2 \in Nat,
         S2 <= S, f <= f2 + 1, t <= t2, S + W <= H + f + t
  PROVE  S2 + W <= (H + 1) + f2 + t2
  OBVIOUS

\* A sender that waited gives its slot back.
LEMMA SumsReleased ==
  ASSUME NEW S \in Nat, NEW S2 \in Nat, NEW W \in Nat, NEW W2 \in Nat, NEW H \in Nat,
         NEW f \in Nat, NEW t \in Nat, NEW f2 \in Nat,
         S2 <= S, W = W2 + 1, f <= f2 + 1, S + W <= H + f + t
  PROVE  S2 + W2 <= H + f2 + t
  OBVIOUS

\* A sender without a slot gives one back.
LEMMA SumsStolen ==
  ASSUME NEW S \in Nat, NEW S2 \in Nat, NEW W \in Nat, NEW H \in Nat,
         NEW f \in Nat, NEW t \in Nat, NEW f2 \in Nat, NEW t2 \in Nat,
         S2 <= S, f2 + t2 = f + t, S + W <= H + f + t
  PROVE  S2 + W <= H + f2 + t2
  OBVIOUS

-----------------------------------------------------------------------------
(* The invariant. *)

LEMMA InitIInv == Init => IInv
  <1> SUFFICES ASSUME Init PROVE IInv
    OBVIOUS
  <1> USE DEF Init
  <1>1. TypeOK
    <2>1. history \in Seq(0..MaxClock) /\ sent \in Seq(Taken)
      BY EmptySeq
    <2>2. pc \in [Senders -> Pcs] /\ until \in [Accounts -> Nat]
      BY DEF Pcs
    <2>3. clock \in 0..MaxClock /\ limits \in [Accounts -> [DOMAIN Windows -> Nat]]
      BY LimiterAssumption
    <2> QED
      BY <2>1, <2>2, <2>3 DEF TypeOK
  <1>2. TimesFine
    BY DEF TimesFine
  <1>3. ReservedFine
    BY DEF ReservedFine
  <1>4. Waiting = {} /\ (\A a : WaitingOf(a) = {})
    BY DEF Waiting, WaitingOf
  <1>5. SlotsMatchReservations
    BY FS_EmptySet DEF SlotsMatchReservations
  <1>6. Covered
    <2>1. \A c : Cardinality(Select(sent, Steady, c)) = 0 /\ CountSince(c) = 0
      BY SelectEmpty, AfterEmpty DEF CountSince
    <2> QED
      BY <1>4, <2>1, FS_EmptySet DEF Covered
  <1>7. Admitted
    <2>1. \A a \in Steady : \A k \in Limited(limits[a]) : limits[a][k] \in Nat
      BY <1>1 DEF Limited, Steady, TypeOK
    <2>2. \A A, c : Cardinality(Select(sent, A, c)) = 0
      BY SelectEmpty
    <2>3. ASSUME NEW a \in Steady, NEW k \in Limited(limits[a])
          PROVE  Cardinality(Select(sent, {a}, clock - Windows[k]))
                   + Cardinality(WaitingOf(a)) <= limits[a][k] + stolen
      <3>1. Cardinality(WaitingOf(a)) = 0 /\ limits[a][k] \in Nat
        BY <1>4, <2>1, FS_EmptySet
      <3>2. Cardinality(Select(sent, {a}, clock - Windows[k])) = 0
        BY <2>2
      <3> QED
        BY <3>1, <3>2
    <2> QED
      BY <2>3 DEF Admitted
  <1> QED
    BY <1>1, <1>2, <1>3, <1>5, <1>6, <1>7 DEF IInv

LEMMA TypeStep == IInv /\ [Next]_vars => TypeOK'
  <1> SUFFICES ASSUME TypeOK, TimesFine, [Next]_vars PROVE TypeOK'
    BY DEF IInv
  <1>0. clock \in Nat
    BY LimiterAssumption DEF TypeOK
  <1>1. ASSUME NEW s \in Senders, CheckUnlimited(s) PROVE TypeOK'
    BY <1>1 DEF CheckUnlimited, TypeOK, Pcs
  <1>2. ASSUME NEW s \in Senders, CheckRefused(s) PROVE TypeOK'
    <2>1. \A k \in DOMAIN Windows : NextBoundary(k) \in Nat
      BY <1>0, WindowsFine, BoundaryFine DEF NextBoundary
    <2>2. until' \in [Accounts -> Nat]
      BY <1>2, <2>1 DEF CheckRefused, LimitedFor, Limited, TypeOK
    <2> QED
      BY <1>2, <2>2, CleanedFine DEF CheckRefused, TypeOK
  <1>3. ASSUME NEW s \in Senders, CheckAdmitted(s) PROVE TypeOK'
    BY <1>3, CleanedFine DEF CheckAdmitted, TypeOK, Pcs
  <1>4. ASSUME NEW s \in Senders, NEW answered \in BOOLEAN, ServerTakes(s, answered)
        PROVE  TypeOK'
    <2>1. [account |-> AccountOf[s], at |-> clock, answered |-> answered] \in Taken
      BY LimiterAssumption DEF Taken, TypeOK
    <2>2. sent' \in Seq(Taken)
      BY <1>4, <2>1, AppendProperties DEF ServerTakes, TypeOK
    <2> QED
      BY <1>4, <2>2 DEF ServerTakes, TypeOK, Pcs
  <1>5. ASSUME NEW s \in Senders, LogSend(s) PROVE TypeOK'
    <2>1. history' \in Seq(0..MaxClock)
      BY <1>5, AppendProperties DEF LogSend, TypeOK
    <2> QED
      BY <1>5, <2>1, GivesBack DEF LogSend, GiveBack, TypeOK, Pcs
  <1>6. ASSUME NEW s \in Senders, ReleaseSlot(s) PROVE TypeOK'
    BY <1>6, GivesBack DEF ReleaseSlot, GiveBack, TypeOK, Pcs
  <1>7. ASSUME NEW s \in Senders, NeverLogged(s) PROVE TypeOK'
    BY <1>7 DEF NeverLogged, TypeOK, Pcs
  <1>8. CASE Restart
    <2>1. history' \in Seq(0..MaxClock) /\ sent' \in Seq(Taken)
      BY <1>8, EmptySeq DEF Restart
    <2> QED
      BY <1>8, <2>1 DEF Restart, TypeOK, Pcs
  <1>9. ASSUME NEW a \in Accounts, NEW l \in NewLimits, Reconfigure(a, l) PROVE TypeOK'
    BY <1>9, LimiterAssumption DEF Reconfigure, TypeOK
  <1>10. CASE Tick
    BY <1>10, LimiterAssumption DEF Tick, TypeOK
  <1>11. CASE UNCHANGED vars
    BY <1>11 DEF vars, TypeOK
  <1> QED
    BY <1>1, <1>2, <1>3, <1>4, <1>5, <1>6, <1>7, <1>8, <1>9, <1>10, <1>11 DEF Next, SenderStep

LEMMA TimesStep == IInv /\ [Next]_vars => TimesFine'
  <1> SUFFICES ASSUME TypeOK, TimesFine, [Next]_vars PROVE TimesFine'
    BY DEF IInv
  <1>0. clock \in Nat
    BY LimiterAssumption DEF TypeOK
  <1>1. ASSUME history' \in {history, Cleaned}, UNCHANGED <<sent, clock>> PROVE TimesFine'
    BY <1>1, CleanedFine DEF TimesFine
  <1>2. ASSUME NEW s \in Senders, NEW answered \in BOOLEAN, ServerTakes(s, answered)
        PROVE  TimesFine'
    <2> DEFINE r == [account |-> AccountOf[s], at |-> clock, answered |-> answered]
    <2>1. r \in Taken /\ r.at = clock
      BY LimiterAssumption DEF Taken, TypeOK
    <2>2. /\ DOMAIN sent' = DOMAIN sent \cup {Len(sent) + 1}
          /\ \A i \in DOMAIN sent : sent'[i] = sent[i]
          /\ sent'[Len(sent) + 1] = r
      <3> HIDE DEF r
      <3>1. sent \in Seq(Taken)
        BY DEF TypeOK
      <3>2. sent' = Append(sent, r)
        BY <1>2 DEF ServerTakes, r
      <3> QED
        BY <2>1, <3>1, <3>2, AppendProperties, LenProperties
    <2>3. \A i \in DOMAIN sent' : sent'[i].at <= clock
      BY <1>0, <2>1, <2>2 DEF TimesFine
    <2> QED
      BY <1>2, <2>3 DEF ServerTakes, TimesFine
  <1>3. ASSUME NEW s \in Senders, LogSend(s) PROVE TimesFine'
    <2>1. /\ Len(history') = Len(history) + 1 /\ DOMAIN history' = 1..Len(history')
          /\ Len(history) \in Nat /\ DOMAIN history = 1..Len(history)
          /\ \A i \in DOMAIN history : history'[i] = history[i]
          /\ history'[Len(history) + 1] = clock
      BY <1>3, AppendProperties, LenProperties DEF LogSend, TypeOK
    <2>2. \A i \in DOMAIN history' : i \in DOMAIN history \/ i = Len(history) + 1
      BY <2>1
    <2>3. \A i \in DOMAIN history' : history'[i] <= clock
      BY <1>0, <2>1, <2>2 DEF TimesFine
    <2>4. \A i, j \in DOMAIN history' : i <= j => history'[i] <= history'[j]
      BY <2>1, <2>2, <2>3 DEF TimesFine
    <2> QED
      BY <1>3, <2>3, <2>4 DEF LogSend, TimesFine
  <1>4. CASE Restart
    BY <1>4 DEF Restart, TimesFine
  <1>5. CASE Tick
    <2>1. \A i \in DOMAIN history : history[i] \in Nat
      BY LimiterAssumption, ElementOfSeq, LenProperties DEF TypeOK
    <2>2. \A i \in DOMAIN sent : sent[i].at \in Nat
      BY EntryFine DEF TypeOK
    <2> QED
      BY <1>0, <1>5, <2>1, <2>2 DEF Tick, TimesFine
  <1> QED
    BY <1>1, <1>2, <1>3, <1>4, <1>5 DEF Next, SenderStep, CheckUnlimited, CheckRefused,
       CheckAdmitted, ReleaseSlot, NeverLogged, Reconfigure, vars

\* Only a change of limits changes which accounts are steady.
LEMMA SteadyKept ==
  ASSUME IInv, [Next]_vars
  PROVE  /\ Steady' \subseteq Steady
         /\ \A a \in Steady' : limits'[a] = limits[a]
  <1>1. limits \in [Accounts -> [DOMAIN Windows -> Nat]]
    BY DEF IInv, TypeOK
  <1>2. ASSUME UNCHANGED <<limits, reconfigured>> PROVE Steady' = Steady
    BY <1>2 DEF Steady
  <1>3. ASSUME NEW b \in Accounts, NEW l \in NewLimits, Reconfigure(b, l)
        PROVE  /\ Steady' \subseteq Steady
               /\ \A a \in Steady' : limits'[a] = limits[a]
    BY <1>1, <1>3 DEF Reconfigure, Steady
  <1> QED
    BY <1>2, <1>3 DEF Next, SenderStep, CheckUnlimited, CheckRefused, CheckAdmitted,
       ServerTakes, LogSend, ReleaseSlot, NeverLogged, Restart, Tick, vars

LEMMA ReservedStep == IInv /\ [Next]_vars => ReservedFine'
  <1> SUFFICES ASSUME IInv, [Next]_vars PROVE ReservedFine'
    OBVIOUS
  <1>0. TypeOK /\ ReservedFine /\ Steady' \subseteq Steady
    BY SteadyKept DEF IInv
  <1>1. ASSUME UNCHANGED <<pc, reserved>> PROVE ReservedFine'
    BY <1>0, <1>1 DEF ReservedFine
  <1>2. ASSUME NEW s \in Senders, CheckUnlimited(s) PROVE ReservedFine'
    <2>1. AccountOf[s] \notin Steady
      BY <1>2 DEF CheckUnlimited, LimitedFor, Steady
    <2> QED
      BY <1>0, <1>2, <2>1 DEF CheckUnlimited, ReservedFine, TypeOK
  <1>3. ASSUME NEW s \in Senders, CheckAdmitted(s) PROVE ReservedFine'
    BY <1>0, <1>3 DEF CheckAdmitted, ReservedFine, TypeOK
  <1>4. ASSUME NEW s \in Senders, NEW answered \in BOOLEAN, ServerTakes(s, answered)
        PROVE  ReservedFine'
    BY <1>0, <1>4 DEF ServerTakes, ReservedFine, TypeOK
  <1>5. ASSUME NEW s \in Senders, LogSend(s) \/ ReleaseSlot(s) \/ NeverLogged(s)
        PROVE  ReservedFine'
    BY <1>0, <1>5 DEF LogSend, ReleaseSlot, NeverLogged, GiveBack, ReservedFine, TypeOK
  <1>6. CASE Restart
    BY <1>6 DEF Restart, ReservedFine
  <1> QED
    BY <1>1, <1>2, <1>3, <1>4, <1>5, <1>6 DEF Next, SenderStep, CheckRefused, Reconfigure,
       Tick, vars

LEMMA SlotsStep == IInv /\ [Next]_vars => SlotsMatchReservations'
  <1> SUFFICES ASSUME IInv, [Next]_vars PROVE SlotsMatchReservations'
    OBVIOUS
  <1> DEFINE R == Cardinality(reserved)
  <1>0. /\ TypeOK /\ ReservedFine
        /\ R \in Nat /\ in_flight \in Nat /\ leaked \in Nat /\ stolen \in Nat
        /\ R + leaked - stolen <= in_flight /\ in_flight <= R + leaked
    BY WaitingFinite DEF IInv, TypeOK, SlotsMatchReservations
  <1>1. ASSUME UNCHANGED <<in_flight, reserved, leaked, stolen>> PROVE SlotsMatchReservations'
    BY <1>0, <1>1 DEF SlotsMatchReservations
  <1>2. ASSUME NEW s \in Senders, CheckAdmitted(s) PROVE SlotsMatchReservations'
    <2>1. Cardinality(reserved') = R + 1
      BY <1>0, <1>2, OneMore
    <2>2. in_flight' = in_flight + 1 /\ UNCHANGED <<leaked, stolen>>
      BY <1>2 DEF CheckAdmitted
    <2> HIDE DEF R
    <2> QED
      BY <1>0, <2>1, <2>2 DEF SlotsMatchReservations
  <1>3. ASSUME NEW s \in Senders, LogSend(s) \/ ReleaseSlot(s) PROVE SlotsMatchReservations'
    <2>1. GiveBack(s) /\ UNCHANGED leaked
      BY <1>3 DEF LogSend, ReleaseSlot
    <2>2. Cardinality(reserved') = R - IF s \in reserved THEN 1 ELSE 0
      BY <1>0, <2>1, OneLess DEF GiveBack
    <2>3. Cardinality(reserved') \in Nat
      <3>1. IsFiniteSet(reserved')
        BY <2>1, WaitingFinite, FS_Subset, <1>0 DEF GiveBack
      <3> QED
        BY <3>1, FS_CardinalityType
    <2>4. /\ in_flight' \in Nat /\ stolen' \in Nat
          /\ in_flight' <= in_flight
          /\ in_flight' + 1 >= in_flight
          /\ in_flight' = in_flight => in_flight = 0
          /\ s \notin reserved => in_flight' + stolen' = in_flight + stolen
          /\ s \in reserved => stolen' = stolen
      BY <1>0, <2>1, GivesBack
    <2> HIDE DEF R
    <2>5. CASE s \in reserved
      <3> DEFINE R2 == Cardinality(reserved')
      <3>1. R = R2 + 1 /\ R2 \in Nat /\ stolen' = stolen
        BY <1>0, <2>2, <2>3, <2>4, <2>5
      <3> HIDE DEF R2
      <3>2. in_flight <= in_flight' + 1
        BY <1>0, <2>4
      <3>3. (R2 + leaked) - stolen <= in_flight' /\ in_flight' <= R2 + leaked
        <4>1. /\ R \in Nat /\ leaked \in Nat /\ stolen \in Nat
              /\ in_flight \in Nat /\ in_flight' \in Nat
          BY <1>0, <2>4
        <4>2. (R + leaked) - stolen <= in_flight /\ in_flight <= R + leaked
          BY <1>0
        <4>3. in_flight' <= in_flight /\ (in_flight' = in_flight => in_flight = 0)
          BY <2>4
        <4> QED
          BY ONLY <3>1, <3>2, <4>1, <4>2, <4>3, SlotReturned
      <3> QED
        BY <2>1, <3>1, <3>3 DEF SlotsMatchReservations, R2
    <2>6. CASE s \notin reserved
      <3>1. Cardinality(reserved') = R
        BY <1>0, <2>2, <2>6
      <3>2. in_flight' + stolen' = in_flight + stolen
        BY <2>4, <2>6
      <3>3. (R + leaked) - stolen' <= in_flight' /\ in_flight' <= R + leaked
        <4>1. /\ R \in Nat /\ leaked \in Nat /\ stolen \in Nat /\ stolen' \in Nat
              /\ in_flight \in Nat /\ in_flight' \in Nat
          BY <1>0, <2>4
        <4>2. (R + leaked) - stolen <= in_flight /\ in_flight <= R + leaked
          BY <1>0
        <4>3. in_flight' <= in_flight
          BY <2>4
        <4> QED
          BY ONLY <3>2, <4>1, <4>2, <4>3, SlotStolen
      <3> QED
        BY <2>1, <3>1, <3>3 DEF SlotsMatchReservations
    <2> QED
      BY <2>5, <2>6
  <1>4. ASSUME NEW s \in Senders, NeverLogged(s) PROVE SlotsMatchReservations'
    <2>1. Cardinality(reserved') = R - IF s \in reserved THEN 1 ELSE 0
      BY <1>0, <1>4, OneLess DEF NeverLogged
    <2>2. /\ leaked' = leaked + IF s \in reserved THEN 1 ELSE 0
          /\ UNCHANGED <<in_flight, stolen>>
      BY <1>0, <1>4 DEF NeverLogged
    <2> HIDE DEF R
    <2>3. Cardinality(reserved') + leaked' = R + leaked
      BY <1>0, <2>1, <2>2
    <2> QED
      BY <1>0, <2>2, <2>3 DEF SlotsMatchReservations
  <1>5. CASE Restart
    BY <1>5, FS_EmptySet DEF Restart, SlotsMatchReservations
  <1> QED
    BY <1>1, <1>2, <1>3, <1>4, <1>5 DEF Next, SenderStep, CheckUnlimited, CheckRefused,
       ServerTakes, Reconfigure, Tick, vars

\* A send that starts is covered by its slot, one that ends by the history, one
\* whose slot was stolen by the theft, and the moment that passes saw nothing but
\* what is under way.
LEMMA CoveredStep == IInv /\ [Next]_vars => Covered'
  <1> SUFFICES ASSUME IInv, [Next]_vars, NEW c \in (clock - Longest .. clock - 1)'
               PROVE  Cardinality(Select(sent', Steady', c)) + Cardinality(Waiting')
                        <= Cardinality(After(history', c)) + in_flight' + stolen'
    BY DEF Covered, CountSince
  <1> DEFINE S == Cardinality(Select(sent, Steady, c))
             H == Cardinality(After(history, c))
             W == Cardinality(Waiting)
             range == clock - Longest .. clock - 1
             Goal == Cardinality(Select(sent', Steady', c)) + Cardinality(Waiting')
                       <= Cardinality(After(history', c)) + in_flight' + stolen'
  <1>0. /\ TypeOK /\ TimesFine /\ ReservedFine /\ Covered
        /\ sent \in Seq(Taken) /\ history \in Seq(Nat) /\ Longest \in Nat
        /\ clock \in Nat /\ in_flight \in Nat /\ stolen \in Nat
    BY LimiterAssumption, WindowsFine DEF IInv, TypeOK
  <1>1. S \in Nat /\ H \in Nat /\ W \in Nat /\ c \in Int
    <2>1. clock' \in Nat
      BY TypeStep, LimiterAssumption DEF TypeOK
    <2> QED
      BY <1>0, <2>1, AfterFinite, SelectFinite, WaitingFinite
  <1>2. c \in range => S + W <= H + in_flight + stolen
    BY <1>0 DEF Covered, CountSince
  <1>3. Steady' \subseteq Steady
    BY SteadyKept
  <1>4. ASSUME UNCHANGED clock PROVE c \in range
    BY <1>4
  <1>5. ASSUME UNCHANGED sent
        PROVE  Cardinality(Select(sent', Steady', c)) <= S
               /\ Cardinality(Select(sent', Steady', c)) \in Nat
    BY <1>0, <1>1, <1>3, <1>5, SelectFewer, SelectFinite
  <1>6. ASSUME history' \in {history, Cleaned}, UNCHANGED clock
        PROVE  Cardinality(After(history', c)) = H
    BY <1>0, <1>1, <1>4, <1>6, CleanedFine
  <1>7. ASSUME history' \in {history, Cleaned},
               UNCHANGED <<clock, sent, pc, reserved, in_flight, stolen>>
        PROVE  Goal
    <2>1. Cardinality(Waiting') = W
      BY <1>7 DEF Waiting
    <2>2. c \in range
      BY <1>4, <1>7
    <2>3. /\ Cardinality(Select(sent', Steady', c)) <= S
          /\ Cardinality(Select(sent', Steady', c)) \in Nat
      BY <1>5, <1>7
    <2>4. Cardinality(After(history', c)) = H
      BY <1>6, <1>7
    <2> HIDE DEF S, H, W
    <2> QED
      BY <1>0, <1>1, <1>2, <1>7, <2>1, <2>2, <2>3, <2>4
  <1>8. ASSUME NEW s \in Senders, CheckUnlimited(s) PROVE Goal
    <2>1. Waiting' = Waiting
      BY <1>0, <1>8 DEF CheckUnlimited, Waiting, ReservedFine, TypeOK
    <2>2. UNCHANGED <<clock, sent, history, in_flight, stolen>>
      BY <1>8 DEF CheckUnlimited
    <2>3. c \in range /\ Cardinality(Select(sent', Steady', c)) <= S
          /\ Cardinality(Select(sent', Steady', c)) \in Nat
      BY <1>4, <1>5, <2>2
    <2>4. Cardinality(Waiting') = W /\ Cardinality(After(history', c)) = H
      BY <2>1, <2>2
    <2> HIDE DEF S, H, W
    <2> QED
      BY <1>0, <1>1, <1>2, <2>2, <2>3, <2>4
  <1>9. ASSUME NEW s \in Senders, CheckAdmitted(s) PROVE Goal
    <2>1. Cardinality(Waiting') = W + 1
      BY <1>0, <1>9, OneMore
    <2>2. /\ UNCHANGED <<clock, sent, stolen>> /\ in_flight' = in_flight + 1
          /\ history' = Cleaned
      BY <1>9 DEF CheckAdmitted
    <2>3. c \in range /\ Cardinality(Select(sent', Steady', c)) <= S
          /\ Cardinality(Select(sent', Steady', c)) \in Nat
      BY <1>4, <1>5, <2>2
    <2>4. Cardinality(After(history', c)) = H
      BY <1>6, <2>2
    <2> HIDE DEF S, H, W
    <2> QED
      BY <1>0, <1>1, <1>2, <2>1, <2>2, <2>3, <2>4
  <1>10. ASSUME NEW s \in Senders, NEW answered \in BOOLEAN, ServerTakes(s, answered)
         PROVE  Goal
    <2> DEFINE r == [account |-> AccountOf[s], at |-> clock, answered |-> answered]
    <2>1. /\ pc[s] = "sending" /\ sent' = Append(sent, r)
          /\ pc' = [pc EXCEPT ![s] = IF answered THEN "accepted" ELSE "unanswered"]
          /\ UNCHANGED <<clock, history, in_flight, stolen, reserved, limits, reconfigured>>
      BY <1>10 DEF ServerTakes
    <2>2. Steady' = Steady /\ c \in range
      BY <1>4, <2>1 DEF Steady
    <2>3. r \in Taken /\ r.account = AccountOf[s] /\ r.answered = answered /\ r.at = clock
      BY LimiterAssumption, <1>0 DEF Taken, TypeOK
    <2>4. /\ Cardinality(Select(sent', Steady', c)) <=
               S + IF AccountOf[s] \in Steady /\ answered THEN 1 ELSE 0
          /\ Cardinality(Select(sent', Steady', c)) \in Nat
      <3> HIDE DEF r
      <3>1. Cardinality(Select(Append(sent, r), Steady, c)) =
              S + IF r.account \in Steady /\ r.answered /\ r.at > c THEN 1 ELSE 0
        BY <1>0, <1>1, <2>3, SelectAppend
      <3> HIDE DEF S
      <3> QED
        BY <1>1, <2>1, <2>2, <2>3, <3>1
    <2>5. Cardinality(Waiting') = W - IF answered /\ s \in Waiting THEN 1 ELSE 0
      <3>1. CASE answered
        BY <1>0, <2>1, <3>1, OneLess
      <3>2. CASE ~answered
        BY <1>0, <2>1, <3>2, OneLess
      <3> QED
        BY <3>1, <3>2
    <2>6. AccountOf[s] \in Steady => s \in Waiting
      BY <1>0, <2>1 DEF ReservedFine, Waiting
    <2>7. Cardinality(After(history', c)) = H
      BY <2>1
    <2> HIDE DEF S, H, W, r
    <2> QED
      BY <1>0, <1>1, <1>2, <2>1, <2>2, <2>4, <2>5, <2>6, <2>7
  <1>11. ASSUME NEW s \in Senders, LogSend(s) PROVE Goal
    <2>1. /\ pc[s] = "accepted" /\ GiveBack(s) /\ history' = Append(history, clock)
          /\ UNCHANGED <<clock, sent>>
      BY <1>11 DEF LogSend
    <2>2. Cardinality(Waiting') = W
      <3>1. s \notin Waiting
        BY <2>1 DEF Waiting
      <3>2. Cardinality(Waiting') = W - IF s \in Waiting THEN 1 ELSE 0
        BY <1>0, <2>1, OneLess DEF GiveBack
      <3> HIDE DEF W
      <3> QED
        BY <1>1, <3>1, <3>2
    <2>3. c \in range /\ Cardinality(Select(sent', Steady', c)) <= S
          /\ Cardinality(Select(sent', Steady', c)) \in Nat
      BY <1>4, <1>5, <2>1
    <2>4. Cardinality(After(history', c)) = H + 1
      BY <1>0, <1>1, <2>1, <2>3, AfterAppend
    <2>5. /\ in_flight' \in Nat /\ stolen' \in Nat /\ stolen <= stolen'
          /\ in_flight' + 1 >= in_flight
      BY <1>0, <2>1, GivesBack
    <2>6. S + W <= H + in_flight + stolen
      BY <1>2, <2>3
    <2> DEFINE S2 == Cardinality(Select(sent', Steady', c))
    <2> HIDE DEF S, S2, H, W
    <2>7. S2 <= S /\ S2 \in Nat
      BY <2>3 DEF S2
    <2>8. S2 + W <= (H + 1) + in_flight' + stolen'
      BY <1>0, <1>1, <2>5, <2>6, <2>7, SumsLogged
    <2> QED
      BY <2>2, <2>4, <2>8 DEF S2
  <1>12. ASSUME NEW s \in Senders, ReleaseSlot(s) PROVE Goal
    <2>1. /\ pc[s] \in {"sending", "unanswered"} /\ GiveBack(s)
          /\ UNCHANGED <<clock, sent, history>>
      BY <1>12 DEF ReleaseSlot
    <2>2. Cardinality(Waiting') = W - IF s \in reserved THEN 1 ELSE 0
      <3>1. s \in Waiting <=> s \in reserved
        BY <2>1 DEF Waiting
      <3> QED
        BY <1>0, <1>1, <2>1, <3>1, OneLess DEF GiveBack
    <2>3. c \in range /\ Cardinality(Select(sent', Steady', c)) <= S
          /\ Cardinality(Select(sent', Steady', c)) \in Nat
      BY <1>4, <1>5, <2>1
    <2>4. Cardinality(After(history', c)) = H
      BY <2>1
    <2>5. /\ in_flight' \in Nat /\ stolen' \in Nat /\ stolen <= stolen'
          /\ in_flight' + 1 >= in_flight
          /\ s \notin reserved => in_flight' + stolen' = in_flight + stolen
          /\ s \in reserved => stolen' = stolen
      BY <1>0, <2>1, GivesBack
    <2>6. S + W <= H + in_flight + stolen
      BY <1>2, <2>3
    <2> DEFINE S2 == Cardinality(Select(sent', Steady', c))
               W2 == Cardinality(Waiting')
    <2>7. W2 \in Nat
      <3>1. TypeOK'
        BY TypeStep
      <3>2. Waiting' \subseteq reserved' /\ reserved' \subseteq Senders
        BY <3>1 DEF Waiting, TypeOK
      <3>3. IsFiniteSet(Waiting')
        BY <3>2, LimiterAssumption, FS_Subset
      <3> QED
        BY <3>3, FS_CardinalityType
    <2> HIDE DEF S, S2, H, W, W2
    <2>8. S2 <= S /\ S2 \in Nat
      BY <2>3 DEF S2
    <2>9. S2 + W2 <= H + in_flight' + stolen'
      <3>1. CASE s \in reserved
        <4>1. W = W2 + 1 /\ stolen' = stolen
          BY <1>1, <2>2, <2>5, <2>7, <3>1 DEF W2
        <4>2. in_flight <= in_flight' + 1
          BY <1>0, <2>5
        <4>3. /\ in_flight \in Nat /\ in_flight' \in Nat /\ stolen \in Nat
              /\ S \in Nat /\ W \in Nat /\ H \in Nat
          BY <1>0, <1>1, <2>5
        <4>4. S2 + W2 <= H + in_flight' + stolen
          BY ONLY <2>6, <2>7, <2>8, <4>1, <4>2, <4>3, SumsReleased
        <4> QED
          BY <4>1, <4>4
      <3>2. CASE s \notin reserved
        <4>1. W2 = W
          BY <1>1, <2>2, <3>2 DEF W2
        <4> QED
          BY <1>0, <1>1, <2>5, <2>6, <2>8, <3>2, <4>1, SumsStolen
      <3> QED
        BY <3>1, <3>2
    <2> QED
      BY <2>4, <2>9 DEF S2, W2
  <1>13. ASSUME NEW s \in Senders, NeverLogged(s) PROVE Goal
    <2>1. /\ pc[s] = "accepted" /\ pc' = [pc EXCEPT ![s] = "idle"]
          /\ reserved' = reserved \ {s}
          /\ UNCHANGED <<clock, sent, history, in_flight, stolen>>
      BY <1>13 DEF NeverLogged
    <2>2. Cardinality(Waiting') = W
      <3>1. s \notin Waiting
        BY <2>1 DEF Waiting
      <3>2. Cardinality(Waiting') = W - IF s \in Waiting THEN 1 ELSE 0
        BY <1>0, <2>1, OneLess
      <3> HIDE DEF W
      <3> QED
        BY <1>1, <3>1, <3>2
    <2>3. c \in range /\ Cardinality(Select(sent', Steady', c)) <= S
          /\ Cardinality(Select(sent', Steady', c)) \in Nat
      BY <1>4, <1>5, <2>1
    <2>4. Cardinality(After(history', c)) = H
      BY <2>1
    <2> HIDE DEF S, H, W
    <2> QED
      BY <1>0, <1>1, <1>2, <2>1, <2>2, <2>3, <2>4
  <1>14. CASE Restart
    <2>1. /\ Waiting' = {} /\ in_flight' = 0 /\ stolen' = 0
          /\ sent' = <<>> /\ history' = <<>>
      BY <1>14 DEF Restart, Waiting
    <2> QED
      BY <2>1, AfterEmpty, SelectEmpty, FS_EmptySet
  <1>15. CASE Tick
    <2>1. /\ Waiting' = Waiting /\ Steady' = Steady /\ clock' = clock + 1
          /\ UNCHANGED <<history, sent, in_flight, stolen>>
      BY <1>15 DEF Tick, Waiting, Steady
    <2>2. CASE c \in range
      BY <1>2, <2>1, <2>2
    <2>3. CASE c = clock
      <3>1. S = 0
        BY <1>0, <2>3, SelectLast DEF TimesFine
      <3>2. W <= in_flight + stolen
        <4>1. W <= Cardinality(reserved) /\ Cardinality(reserved) \in Nat
          BY <1>0, WaitingFinite
        <4>2. (Cardinality(reserved) + leaked) - stolen <= in_flight /\ leaked \in Nat
          <5>1. TypeOK /\ SlotsMatchReservations
            BY DEF IInv
          <5> QED
            BY <5>1 DEF SlotsMatchReservations, TypeOK
        <4> HIDE DEF W
        <4> QED
          BY <1>0, <1>1, <4>1, <4>2
      <3>3. /\ Cardinality(Select(sent', Steady', c)) = S /\ Cardinality(Waiting') = W
            /\ Cardinality(After(history', c)) = H
        BY <2>1
      <3> HIDE DEF S, W, H
      <3> QED
        BY <1>0, <1>1, <2>1, <3>1, <3>2, <3>3
    <2> QED
      BY <1>0, <2>1, <2>2, <2>3
  <1>16. CASE UNCHANGED vars
    BY <1>7, <1>16 DEF vars
  <1>17. ASSUME NEW s \in Senders, CheckRefused(s) PROVE Goal
    BY <1>7, <1>17 DEF CheckRefused
  <1>18. ASSUME NEW a \in Accounts, NEW l \in NewLimits, Reconfigure(a, l) PROVE Goal
    BY <1>7, <1>18 DEF Reconfigure
  <1> QED
    BY <1>8, <1>9, <1>10, <1>11, <1>12, <1>13, <1>14, <1>15, <1>16, <1>17, <1>18
       DEF Next, SenderStep

\* What was answered and is under way for one account stays within each of its
\* limits: a slot becomes an answer, and answers only get older.
LEMMA AdmittedStep == IInv /\ [Next]_vars => Admitted'
  <1> SUFFICES ASSUME IInv, [Next]_vars, NEW a \in Steady', NEW k \in Limited(limits'[a])
               PROVE  Cardinality(Select(sent', {a}, clock' - Windows[k]))
                        + Cardinality(WaitingOf(a)') <= limits'[a][k] + stolen'
    BY DEF Admitted
  <1> DEFINE since == clock - Windows[k]
             S == Cardinality(Select(sent, {a}, since))
             W == Cardinality(WaitingOf(a))
             Goal == Cardinality(Select(sent', {a}, clock' - Windows[k]))
                       + Cardinality(WaitingOf(a)') <= limits'[a][k] + stolen'
  <1>0. /\ TypeOK /\ TimesFine /\ ReservedFine /\ Admitted /\ Covered
        /\ sent \in Seq(Taken) /\ history \in Seq(Nat) /\ clock \in Nat
        /\ in_flight \in Nat /\ stolen \in Nat /\ k \in DOMAIN Windows
    BY LimiterAssumption DEF IInv, TypeOK, Limited
  <1>1. Windows[k] \in Nat \ {0} /\ Windows[k] <= Longest /\ Longest \in Nat
    BY <1>0, WindowsFine
  <1>2. since \in Int /\ since \in clock - Longest .. clock - 1
    BY <1>0, <1>1
  <1>3. S \in Nat /\ W \in Nat
    BY <1>0, SelectFinite, WaitingFinite
  <1>4. /\ a \in Steady /\ limits'[a] = limits[a] /\ k \in Limited(limits[a])
        /\ limits[a][k] \in Nat
    <2>1. a \in Steady /\ limits'[a] = limits[a]
      BY SteadyKept
    <2>2. a \in Accounts
      BY <2>1 DEF Steady
    <2> QED
      BY <1>0, <2>1, <2>2 DEF TypeOK
  <1>5. S + W <= limits[a][k] + stolen
    BY <1>0, <1>4 DEF Admitted
  <1>6. ASSUME UNCHANGED <<clock, sent, stolen>>, Cardinality(WaitingOf(a)') <= W,
               Cardinality(WaitingOf(a)') \in Int
        PROVE  Goal
    <2>1. Cardinality(Select(sent', {a}, clock' - Windows[k])) = S
      BY <1>6
    <2> HIDE DEF S, W
    <2> QED
      BY <1>0, <1>3, <1>4, <1>5, <1>6, <2>1
  <1>7. ASSUME UNCHANGED <<clock, sent, stolen, pc, reserved>> PROVE Goal
    <2>1. WaitingOf(a)' = WaitingOf(a)
      BY <1>7 DEF WaitingOf, Waiting
    <2> QED
      BY <1>3, <1>6, <1>7, <2>1
  <1>8. ASSUME NEW s \in Senders, CheckUnlimited(s) PROVE Goal
    <2>1. WaitingOf(a)' = WaitingOf(a)
      BY <1>0, <1>8 DEF CheckUnlimited, WaitingOf, Waiting, ReservedFine, TypeOK
    <2> QED
      BY <1>3, <1>6, <1>8, <2>1 DEF CheckUnlimited
  <1>9. ASSUME NEW s \in Senders, CheckAdmitted(s) PROVE Goal
    <2>1. UNCHANGED <<clock, sent, stolen>>
      BY <1>9 DEF CheckAdmitted
    <2>2. Cardinality(WaitingOf(a)') = W + IF AccountOf[s] = a THEN 1 ELSE 0
      BY <1>0, <1>9, OneMore
    <2>3. CASE AccountOf[s] # a
      <3>1. Cardinality(WaitingOf(a)') = W
        BY <1>3, <2>2, <2>3
      <3> QED
        BY <1>3, <1>6, <2>1, <3>1
    <2>4. CASE AccountOf[s] = a
      <3> DEFINE SA == Cardinality(Select(sent, Steady, since))
                 WA == Cardinality(Waiting)
                 H  == Cardinality(After(history, since))
      <3>1. H + in_flight < limits[a][k]
        <4>1. ~Reached(s, k)
          BY <1>4, <1>9, <2>4 DEF CheckAdmitted, LimitedFor
        <4>2. H \in Nat
          BY <1>0, AfterFinite
        <4> QED
          BY <1>0, <1>4, <2>4, <4>1, <4>2 DEF Reached, CountSince
      <3>2. SA + WA <= H + in_flight + stolen
        BY <1>0, <1>2 DEF Covered, CountSince
      <3>3. S <= SA /\ SA \in Nat
        BY <1>0, <1>2, <1>4, SelectFewer, SelectFinite
      <3>4. W <= WA /\ WA \in Nat /\ H \in Nat
        BY <1>0, WaitingFinite, AfterFinite
      <3>5. Cardinality(Select(sent', {a}, clock' - Windows[k])) = S
        BY <2>1
      <3>6. Cardinality(WaitingOf(a)') = W + 1
        BY <1>3, <2>2, <2>4
      <3> HIDE DEF S, W, SA, WA, H
      <3>7. S + (W + 1) <= limits[a][k] + stolen
        BY <1>0, <1>3, <1>4, <3>1, <3>2, <3>3, <3>4
      <3> QED
        BY <1>4, <2>1, <3>5, <3>6, <3>7
    <2> QED
      BY <2>3, <2>4
  <1>10. ASSUME NEW s \in Senders, NEW answered \in BOOLEAN, ServerTakes(s, answered)
         PROVE  Goal
    <2> DEFINE r == [account |-> AccountOf[s], at |-> clock, answered |-> answered]
    <2>1. /\ pc[s] = "sending" /\ sent' = Append(sent, r)
          /\ pc' = [pc EXCEPT ![s] = IF answered THEN "accepted" ELSE "unanswered"]
          /\ UNCHANGED <<clock, stolen, reserved>>
      BY <1>10 DEF ServerTakes
    <2>2. r \in Taken /\ r.account = AccountOf[s] /\ r.answered = answered /\ r.at = clock
      BY LimiterAssumption, <1>0 DEF Taken, TypeOK
    <2>3. Cardinality(Select(sent', {a}, clock' - Windows[k])) =
            S + IF AccountOf[s] = a /\ answered THEN 1 ELSE 0
      <3> HIDE DEF r
      <3>1. Cardinality(Select(Append(sent, r), {a}, since)) =
              S + IF r.account \in {a} /\ r.answered /\ r.at > since THEN 1 ELSE 0
        BY <1>0, <1>2, <2>2, SelectAppend
      <3>2. clock > since
        BY <1>0, <1>1
      <3> HIDE DEF S
      <3> QED
        BY <1>3, <2>1, <2>2, <3>1, <3>2
    <2>4. Cardinality(WaitingOf(a)') = W - IF answered /\ s \in WaitingOf(a) THEN 1 ELSE 0
      <3>1. CASE answered
        BY <1>0, <2>1, <3>1, OneLess
      <3>2. CASE ~answered
        BY <1>0, <2>1, <3>2, OneLess
      <3> QED
        BY <3>1, <3>2
    <2>5. AccountOf[s] = a => s \in WaitingOf(a)
      BY <1>0, <1>4, <2>1 DEF ReservedFine, WaitingOf, Waiting
    <2> HIDE DEF S, W, r
    <2> QED
      BY <1>0, <1>3, <1>4, <1>5, <2>1, <2>3, <2>4, <2>5
  <1>11. ASSUME NEW s \in Senders, LogSend(s) \/ ReleaseSlot(s) PROVE Goal
    <2>1. GiveBack(s) /\ UNCHANGED <<clock, sent>>
      BY <1>11 DEF LogSend, ReleaseSlot
    <2>2. Cardinality(WaitingOf(a)') = W - IF s \in WaitingOf(a) THEN 1 ELSE 0
      BY <1>0, <2>1, OneLess DEF GiveBack
    <2>3. stolen' \in Nat /\ stolen <= stolen'
      BY <1>0, <2>1, GivesBack
    <2>4. Cardinality(Select(sent', {a}, clock' - Windows[k])) = S
      BY <2>1
    <2> HIDE DEF S, W
    <2> QED
      BY <1>0, <1>3, <1>4, <1>5, <2>2, <2>3, <2>4
  <1>12. ASSUME NEW s \in Senders, NeverLogged(s) PROVE Goal
    <2>1. Cardinality(WaitingOf(a)') = W - IF s \in WaitingOf(a) THEN 1 ELSE 0
      BY <1>0, <1>12, OneLess DEF NeverLogged
    <2>2. UNCHANGED <<clock, sent, stolen>>
      BY <1>12 DEF NeverLogged
    <2>3. Cardinality(WaitingOf(a)') <= W /\ Cardinality(WaitingOf(a)') \in Int
      BY <1>3, <2>1
    <2> QED
      BY <1>6, <2>2, <2>3
  <1>13. CASE Restart
    <2>1. WaitingOf(a)' = {} /\ stolen' = 0 /\ sent' = <<>>
      BY <1>13 DEF Restart, WaitingOf, Waiting
    <2> QED
      BY <1>4, <2>1, SelectEmpty, FS_EmptySet
  <1>14. ASSUME NEW b \in Accounts, NEW l \in NewLimits, Reconfigure(b, l) PROVE Goal
    BY <1>7, <1>14 DEF Reconfigure
  <1>15. CASE Tick
    <2>1. clock' = clock + 1 /\ WaitingOf(a)' = WaitingOf(a) /\ UNCHANGED <<sent, stolen>>
      BY <1>15 DEF Tick, WaitingOf, Waiting
    <2>2. clock' - Windows[k] \in Int /\ since <= clock' - Windows[k]
      BY <1>0, <1>1, <2>1
    <2>3. Cardinality(Select(sent, {a}, clock' - Windows[k])) <= S
      BY <1>0, <1>2, <2>2, SelectFewer
    <2>4. Cardinality(Select(sent, {a}, clock' - Windows[k])) \in Nat
      BY <1>0, SelectFinite
    <2>5. Cardinality(WaitingOf(a)') = W
      BY <2>1
    <2> HIDE DEF S, W
    <2> QED
      BY <1>0, <1>3, <1>4, <1>5, <2>1, <2>3, <2>4, <2>5
  <1> QED
    BY <1>7, <1>8, <1>9, <1>10, <1>11, <1>12, <1>13, <1>14, <1>15
       DEF Next, SenderStep, CheckRefused, vars

LEMMA InvariantHolds == Spec => []IInv
  <1>1. IInv /\ [Next]_vars => IInv'
    BY TypeStep, TimesStep, ReservedStep, SlotsStep, CoveredStep, AdmittedStep DEF IInv
  <1> QED
    BY InitIInv, <1>1, PTL DEF Spec

-----------------------------------------------------------------------------
\* Every reachable state has the types of TypeOK; in particular _in_flight is
\* never negative, whatever log_send() and release_slot() give back.
THEOREM TypeCorrect == Spec => []TypeOK
  <1>1. IInv => TypeOK
    BY DEF IInv
  <1> QED
    BY <1>1, InvariantHolds, PTL

\* In no sliding window, short or long, does a server answer for more messages
\* of an account than check_and_plan() has a limit for, plus the slots stolen,
\* whatever number of senders overlap and of whatever accounts with the id.
THEOREM LimitsHold == Spec => []WithinLimits
  <1>1. ASSUME IInv PROVE WithinLimits
    <2> SUFFICES ASSUME NEW a \in Accounts \ reconfigured, NEW k \in Limited(limits[a])
                 PROVE  Cardinality(Answered(a, clock - Windows[k])) <= limits[a][k] + stolen
      BY DEF WithinLimits
    <2> DEFINE S == Cardinality(Select(sent, {a}, clock - Windows[k]))
               W == Cardinality(WaitingOf(a))
    <2>1. a \in Steady
      BY DEF Steady
    <2>2. S + W <= limits[a][k] + stolen
      BY <1>1, <2>1 DEF IInv, Admitted
    <2>3. S \in Nat /\ W \in Nat /\ limits[a][k] \in Nat /\ stolen \in Nat
      BY <1>1, SelectFinite, WaitingFinite DEF IInv, TypeOK, Limited
    <2>4. Answered(a, clock - Windows[k]) = Select(sent, {a}, clock - Windows[k])
      BY DEF Answered, Select
    <2> HIDE DEF S, W
    <2> QED
      BY <2>2, <2>3, <2>4 DEF S
  <1> QED
    BY <1>1, InvariantHolds, PTL

\* The in-flight counter is the number of slots held and leaked, less at most
\* those stolen, through every fault and every change of the limits.
THEOREM SlotsAreExact == Spec => []SlotsMatchReservations
  <1>1. IInv => SlotsMatchReservations
    BY DEF IInv
  <1> QED
    BY <1>1, InvariantHolds, PTL

\* Whatever check_and_plan() puts a message off to is to come, and no further
\* away than the window whose limit was reached.
THEOREM PutOffIsBounded == Spec => PutOffWithinWindow
  <1> DEFINE Bounded == \A a \in Accounts : until'[a] # until[a] /\ until'[a] # 0 =>
                 /\ until'[a] > clock
                 /\ \E k \in Limited(limits[a]) : until'[a] - clock <= Windows[k]
  <1>1. ASSUME IInv, [Next]_vars PROVE [Bounded]_vars
    <2> SUFFICES ASSUME NEW a \in Accounts, until'[a] # until[a], until'[a] # 0
                 PROVE  /\ until'[a] > clock
                        /\ \E k \in Limited(limits[a]) : until'[a] - clock <= Windows[k]
      OBVIOUS
    <2>1. clock \in Nat /\ until \in [Accounts -> Nat]
      BY <1>1, LimiterAssumption DEF IInv, TypeOK
    <2>2. PICK r \in Senders : CheckRefused(r)
      BY <1>1 DEF Next, SenderStep, CheckUnlimited, CheckAdmitted, ServerTakes, LogSend,
         ReleaseSlot, GiveBack, NeverLogged, Restart, Reconfigure, Tick, vars
    <2>3. PICK k \in Limited(limits[a]) : until'[a] = NextBoundary(k)
      <3>1. PICK k \in LimitedFor(r) : until' = [until EXCEPT ![AccountOf[r]] = NextBoundary(k)]
        BY <2>2 DEF CheckRefused
      <3>2. AccountOf[r] = a /\ until'[a] = NextBoundary(k)
        BY <2>1, <3>1
      <3> QED
        BY <3>1, <3>2 DEF LimitedFor
    <2>4. Windows[k] \in Nat \ {0}
      BY WindowsFine DEF Limited
    <2> QED
      <3>1. /\ NextBoundary(k) \in Nat /\ NextBoundary(k) > clock
            /\ NextBoundary(k) <= clock + Windows[k]
        BY <2>1, <2>4, BoundaryFine DEF NextBoundary
      <3> QED
        BY <2>1, <2>3, <2>4, <3>1
  <1> QED
    BY <1>1, InvariantHolds, PTL DEF Spec, PutOffWithinWindow

=============================================================================
