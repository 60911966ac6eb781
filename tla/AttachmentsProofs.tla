------------------------- MODULE AttachmentsProofs -------------------------
EXTENDS Attachments, SequenceTheorems, WellFoundedInduction, TLAPS

----------------------------------------------------------------------------
(* Induction over an initial part of the naturals, by a least counterexample. *)

\* Every set of naturals that is not empty has a least element.
LEMMA Least ==
  ASSUME NEW T \in SUBSET Nat, T # {}
  PROVE  \E n \in T : \A u \in T : n <= u
  <1> DEFINE Below == OpToRel(<, Nat)
  <1>1. Below = {p \in Nat \X Nat : p[1] < p[2]}
    BY Zenon DEF OpToRel
  <1>2. IsWellFoundedOn(Below, Nat)
    BY NatLessThanWellFounded
  <1>3. \A u, n \in Nat : u < n => <<u, n>> \in Below
    BY <1>1
  <1> HIDE DEF Below
  <1>4. PICK n \in T : \A u \in T : ~(<<u, n>> \in Below)
    BY <1>2, WFMin
  <1>5. n \in Nat /\ \A u \in T : u \in Nat
    OBVIOUS
  <1>6. \A u \in T : ~(u < n)
    BY <1>3, <1>4, <1>5, Zenon
  <1> QED  BY <1>5, <1>6

\* A set that holds 0, and n + 1 with every n below L, holds all of 0..L.
LEMMA Induction ==
  ASSUME NEW L \in Nat, NEW S \in SUBSET Nat, 0 \in S, \A n \in S : n < L => n + 1 \in S
  PROVE  0..L \subseteq S
  <1> DEFINE T == 0..L \ S
  <1>1. ASSUME T # {}
        PROVE  FALSE
    <2>1. T \in SUBSET Nat
      OBVIOUS
    <2>2. PICK n \in T : \A u \in T : n <= u
      BY <1>1, <2>1, Least
    <2>3. n \in Nat /\ n # 0 /\ n <= L /\ n \notin S
      BY <2>2
    <2>4. n - 1 \in Nat /\ n - 1 < n /\ n - 1 \in 0..L /\ ~(n <= n - 1)
      BY <2>3
    <2>5. n - 1 \in S
      BY <2>2, <2>4
    <2>6. n - 1 + 1 \in S
      BY <2>3, <2>4, <2>5
    <2> QED  BY <2>3, <2>6
  <1> QED  BY <1>1

----------------------------------------------------------------------------
(* Sums. *)

\* f adds up the lengths of entries, one after the other.
Sums(entries, f) ==
  /\ f \in [0..Len(entries) -> Int]
  /\ f[0] = 0
  /\ \A n \in 1..Len(entries) : f[n] = f[n - 1] + entries[n].content.len

\* FoldLeft goes over the indices, from the greatest downwards.
LEMMA TotalAddsUp ==
  ASSUME NEW entries \in Seq(Entry)
  PROVE  \E f : Sums(entries, f) /\ Total(entries) = f[Len(entries)]
  <1> DEFINE L == Len(entries)
             w(i) == entries[i].content.len
             Top(s) == CHOOSE x \in s : \A y \in s : x >= y
             Step(g, s) == IF s = {} THEN 0
                           ELSE LET x == Top(s) IN g[s \ {x}] + w(x)
             G == CHOOSE g : g = [s \in SUBSET DOMAIN entries |-> Step(g, s)]
  <1>1. Total(entries) = G[DOMAIN entries]
    BY DEF Total, FoldLeft, MapThenFoldSet, Max
  <1>2. L \in Nat /\ DOMAIN entries = 1..L /\ \A i \in 1..L : w(i) \in Int
    <2>1. L \in Nat /\ DOMAIN entries = 1..L
      OBVIOUS
    <2>2. ASSUME NEW i \in 1..L
          PROVE  w(i) \in Int
      <3>1. entries[i] \in Entry
        BY <2>2
      <3> QED  BY <3>1 DEF Entry, Content
    <2> QED  BY <2>1, <2>2
  <1>3. ASSUME NEW n \in Nat, NEW s \in SUBSET (1..n), n \in s
        PROVE  Top(s) = n
    <2>1. \A y \in s : y \in Nat /\ n >= y
      OBVIOUS
    <2>2. \A x \in s : (\A y \in s : x >= y) => x = n
      BY <1>3, <2>1
    <2> QED  BY <1>3, <2>1, <2>2
  <1> HIDE DEF L, w, Top
  <1>4. \E g : g = [s \in SUBSET (1..L) |-> Step(g, s)]
    <2> DEFINE P(n) == \E g : g = [s \in SUBSET (1..n) |-> Step(g, s)]
               S == {n \in Nat : P(n)}
    <2>1. 0 \in S
      <3>1. [s \in SUBSET (1..0) |-> 0] = [s \in SUBSET (1..0) |-> Step([t \in SUBSET (1..0) |-> 0], s)]
        BY DEF Step
      <3> QED  BY <3>1
    <2>2. ASSUME NEW n \in S
          PROVE  n + 1 \in S
      <3>1. n \in Nat /\ n + 1 \in Nat
        OBVIOUS
      <3>2. PICK g : g = [s \in SUBSET (1..n) |-> Step(g, s)]
        OBVIOUS
      <3> DEFINE h == [s \in SUBSET (1..(n + 1)) |->
                         IF n + 1 \in s THEN g[s \ {n + 1}] + w(n + 1) ELSE g[s]]
      <3>3. ASSUME NEW s \in SUBSET (1..(n + 1))
            PROVE  h[s] = Step(h, s)
        <4>1. CASE n + 1 \in s
          <5>1. s \ {n + 1} \in SUBSET (1..n) /\ s \ {n + 1} \in SUBSET (1..(n + 1))
            BY <3>1
          <5>2. h[s \ {n + 1}] = g[s \ {n + 1}]
            BY <5>1
          <5>3. Step(h, s) = h[s \ {n + 1}] + w(n + 1)
            BY <1>3, <3>1, <4>1
          <5> QED  BY <4>1, <5>2, <5>3
        <4>2. CASE n + 1 \notin s
          <5>1. s \in SUBSET (1..n) /\ h[s] = g[s]
            BY <3>1, <4>2
          <5>2. g[s] = Step(g, s)
            BY <3>2, <5>1
          <5>3. s \ {Top(s)} \in SUBSET (1..n) /\ s \ {Top(s)} \in SUBSET (1..(n + 1))
                /\ n + 1 \notin s \ {Top(s)}
            BY <4>2, <5>1
          <5>4. h[s \ {Top(s)}] = g[s \ {Top(s)}]
            BY <5>3
          <5> QED  BY <5>1, <5>2, <5>4
        <4> QED  BY <4>1, <4>2
      <3>4. h = [s \in SUBSET (1..(n + 1)) |-> Step(h, s)]
        <4>1. h = [s \in SUBSET (1..(n + 1)) |-> h[s]]
          OBVIOUS
        <4> HIDE DEF h
        <4> QED  BY <3>3, <4>1
      <3> QED  BY <3>1, <3>4
    <2> HIDE DEF S
    <2>3. 0..L \subseteq S
      <3>1. S \in SUBSET Nat
        BY DEF S
      <3> QED  BY <1>2, <2>1, <2>2, <3>1, Induction
    <2>4. L \in S
      BY <1>2, <2>3
    <2> QED  BY <2>4 DEF S
  <1>5. G = [s \in SUBSET (1..L) |-> Step(G, s)]
    <2>1. \E g : g = [s \in SUBSET DOMAIN entries |-> Step(g, s)]
      BY <1>2, <1>4
    <2> QED  BY <1>2, <2>1
  <1> HIDE DEF G
  <1> DEFINE f == [n \in 0..L |-> G[1..n]]
  <1>6. f[0] = 0
    BY <1>2, <1>5
  <1>7. ASSUME NEW n \in 1..L
        PROVE  f[n] = f[n - 1] + w(n)
    <2>1. n \in Nat /\ n \in 1..n /\ 1..n \in SUBSET (1..L) /\ n - 1 \in 0..L /\ n \in 0..L
      BY <1>2
    <2>2. (1..n) \ {n} = 1..(n - 1)
      BY <1>2
    <2>3. Top(1..n) = n
      BY <1>3, <2>1
    <2>4. G[1..n] = Step(G, 1..n)
      BY <1>5, <2>1
    <2>5. G[1..n] = G[1..(n - 1)] + w(n)
      BY <2>1, <2>2, <2>3, <2>4
    <2> QED  BY <2>1, <2>5
  <1> HIDE DEF f
  <1>8. \A n \in 0..L : f[n] \in Int
    <2> DEFINE S == {n \in Nat : n \in 0..L => f[n] \in Int}
    <2>1. 0 \in S /\ S \in SUBSET Nat
      BY <1>6
    <2>2. \A n \in S : n < L => n + 1 \in S
      <3>1. ASSUME NEW n \in S, n < L
            PROVE  f[n + 1] \in Int /\ n + 1 \in Nat
        <4>1. n \in 0..L /\ n + 1 \in 1..L /\ n + 1 - 1 = n
          BY <1>2, <3>1
        <4> QED  BY <1>2, <1>7, <4>1
      <3> QED  BY <3>1
    <2> HIDE DEF S
    <2>3. 0..L \subseteq S
      BY <1>2, <2>1, <2>2, Induction
    <2> QED  BY <2>3 DEF S
  <1>9. f \in [0..L -> Int]
    BY <1>8 DEF f
  <1>10. Total(entries) = f[L]
    BY <1>1, <1>2 DEF f
  <1>11. Sums(entries, f)
    BY <1>6, <1>7, <1>9 DEF Sums, L, w
  <1> QED  BY <1>10, <1>11 DEF L

\* There is only one way to add up.
LEMMA TotalIs ==
  ASSUME NEW entries \in Seq(Entry), NEW g, Sums(entries, g)
  PROVE  Total(entries) = g[Len(entries)]
  <1> DEFINE L == Len(entries)
  <1>1. PICK f : Sums(entries, f) /\ Total(entries) = f[L]
    BY TotalAddsUp
  <1> DEFINE S == {n \in Nat : n \in 0..L => f[n] = g[n]}
  <1>2. L \in Nat /\ 0 \in S /\ S \in SUBSET Nat
    BY <1>1 DEF Sums
  <1>3. ASSUME NEW n \in S, n < L
        PROVE  n + 1 \in S
    <2>1. n + 1 \in 1..L /\ n + 1 - 1 = n /\ n \in 0..L
      BY <1>2, <1>3
    <2> QED  BY <1>1, <2>1 DEF Sums
  <1> HIDE DEF S
  <1>4. 0..L \subseteq S
    BY <1>2, <1>3, Induction
  <1>5. L \in S
    BY <1>2, <1>4
  <1> QED  BY <1>1, <1>2, <1>5 DEF S

\* A tier adds up to a natural number.
LEMMA TotalType ==
  ASSUME NEW entries \in Seq(Entry)
  PROVE  Total(entries) \in Int
  <1>1. PICK f : Sums(entries, f) /\ Total(entries) = f[Len(entries)]
    BY TotalAddsUp
  <1> QED  BY <1>1 DEF Sums

LEMMA EntryHasLength ==
  ASSUME NEW e \in Entry
  PROVE  e.key \in Files /\ e.content \in Content /\ e.content.len \in Nat /\ e.old \in BOOLEAN
  BY DEF Entry, Content

LEMMA TotalEmpty ==
  Total(<<>>) = 0
  <1>1. Sums(<<>>, [n \in {0} |-> 0])
    BY DEF Sums
  <1> QED  BY <1>1, TotalIs

\* An entry put at the end adds its length.
LEMMA TotalAppend ==
  ASSUME NEW entries \in Seq(Entry), NEW e \in Entry
  PROVE  Total(Append(entries, e)) = Total(entries) + e.content.len
  <1> DEFINE L == Len(entries)
             t == Append(entries, e)
  <1>1. PICK f : Sums(entries, f) /\ Total(entries) = f[L]
    BY TotalAddsUp
  <1>2. L \in Nat /\ t \in Seq(Entry) /\ Len(t) = L + 1 /\ t[L + 1] = e
        /\ \A i \in 1..L : t[i] = entries[i]
    OBVIOUS
  <1>3. e.content.len \in Int
    BY EntryHasLength
  <1> DEFINE g == [n \in 0..(L + 1) |-> IF n = L + 1 THEN f[L] + e.content.len ELSE f[n]]
  <1>4. Sums(t, g)
    <2>1. g \in [0..Len(t) -> Int] /\ g[0] = 0
      BY <1>1, <1>2, <1>3 DEF Sums
    <2>2. ASSUME NEW n \in 1..Len(t)
          PROVE  g[n] = g[n - 1] + t[n].content.len
      <3>1. CASE n = L + 1
        BY <1>2, <3>1
      <3>2. CASE n # L + 1
        <4>1. n \in 1..L /\ n \in 0..(L + 1) /\ n - 1 \in 0..(L + 1) /\ n - 1 # L + 1
          BY <1>2, <3>2
        <4> QED  BY <1>1, <1>2, <4>1, <3>2 DEF Sums
      <3> QED  BY <3>1, <3>2
    <2> QED  BY <2>1, <2>2 DEF Sums
  <1>5. Total(t) = g[L + 1]
    BY <1>2, <1>4, TotalIs
  <1> QED  BY <1>1, <1>2, <1>5

\* What is cut off at the front is what is missing behind.
LEMMA TotalSplit ==
  ASSUME NEW entries \in Seq(Entry), NEW k \in 0..Len(entries)
  PROVE  Total(SubSeq(entries, k + 1, Len(entries))) = Total(entries) - Total(SubSeq(entries, 1, k))
  <1> DEFINE L == Len(entries)
             a == SubSeq(entries, 1, k)
             b == SubSeq(entries, k + 1, L)
  <1>1. PICK f : Sums(entries, f) /\ Total(entries) = f[L]
    BY TotalAddsUp
  <1>2. L \in Nat /\ k \in Nat /\ k <= L
    OBVIOUS
  <1>3. a \in Seq(Entry) /\ Len(a) = k /\ \A i \in 1..k : a[i] = entries[i]
    BY <1>2
  <1>4. b \in Seq(Entry) /\ Len(b) = L - k /\ \A i \in 1..(L - k) : b[i] = entries[k + i]
    BY <1>2
  <1>5. Sums(a, [n \in 0..k |-> f[n]])
    <2>1. \A n \in 0..k : n \in 0..L
      BY <1>2
    <2>2. \A n \in 1..k : n \in 1..L /\ n \in 0..k /\ n - 1 \in 0..k
      BY <1>2
    <2>3. [n \in 0..k |-> f[n]] \in [0..k -> Int]
      BY <1>1, <2>1 DEF Sums
    <2>4. \A n \in 1..k : f[n] = f[n - 1] + a[n].content.len
      BY <1>1, <1>3, <2>2 DEF Sums
    <2> HIDE DEF a
    <2> QED  BY <1>1, <1>2, <1>3, <2>2, <2>3, <2>4 DEF Sums
  <1> DEFINE g == [n \in 0..(L - k) |-> f[k + n] - f[k]]
  <1>6. Sums(b, g)
    <2>1. g \in [0..Len(b) -> Int] /\ g[0] = 0
      BY SMTT(30), <1>1, <1>2, <1>4 DEF Sums
    <2>2. ASSUME NEW n \in 1..Len(b)
          PROVE  g[n] = g[n - 1] + b[n].content.len
      <3>1. k + n \in 1..L /\ k + n - 1 = k + (n - 1) /\ n \in 0..(L - k) /\ n - 1 \in 0..(L - k)
        BY <1>2, <1>4
      <3>2. f[k + n] = f[k + (n - 1)] + b[n].content.len
        BY <1>1, <1>4, <3>1 DEF Sums
      <3>3. f[k] \in Int /\ f[k + n] \in Int /\ f[k + (n - 1)] \in Int
        <4>1. k \in 0..L /\ k + n \in 0..L /\ k + (n - 1) \in 0..L
          BY <1>2, <3>1
        <4> QED  BY <1>1, <4>1 DEF Sums
      <3>4. b[n].content.len \in Int
        BY <1>4, EntryHasLength
      <3>5. g[n] = f[k + n] - f[k] /\ g[n - 1] = f[k + (n - 1)] - f[k]
        BY <3>1
      <3> QED  BY SMTT(30), <3>2, <3>3, <3>4, <3>5
    <2> QED  BY <2>1, <2>2 DEF Sums
  <1>7. Total(a) = f[k]
    BY <1>2, <1>3, <1>5, TotalIs
  <1>8. Total(b) = g[L - k]
    BY <1>4, <1>6, TotalIs
  <1>9. g[L - k] = f[L] - f[k]
    BY <1>2
  <1> QED  BY <1>1, <1>7, <1>8, <1>9

LEMMA RemoveAtIs ==
  ASSUME NEW entries \in Seq(Entry), NEW i \in 1..Len(entries)
  PROVE  /\ RemoveAt(entries, i) \in Seq(Entry)
         /\ Len(RemoveAt(entries, i)) = Len(entries) - 1
         /\ \A j \in 1..(Len(entries) - 1) :
               RemoveAt(entries, i)[j] = IF j < i THEN entries[j] ELSE entries[j + 1]
  <1> DEFINE L == Len(entries)
             a == SubSeq(entries, 1, i - 1)
             b == SubSeq(entries, i + 1, L)
  <1>1. L \in Nat /\ i \in Nat /\ i >= 1 /\ i <= L
    OBVIOUS
  <1>2. a \in Seq(Entry) /\ Len(a) = i - 1 /\ \A j \in 1..(i - 1) : a[j] = entries[j]
    BY <1>1
  <1>3. b \in Seq(Entry) /\ Len(b) = L - i /\ \A j \in 1..(L - i) : b[j] = entries[i + j]
    BY <1>1
  <1> HIDE DEF a, b
  <1>4. /\ a \o b \in Seq(Entry) /\ Len(a \o b) = L - 1
        /\ \A j \in 1..(L - 1) : (a \o b)[j] = IF j < i THEN a[j] ELSE b[j - (i - 1)]
    <2>1. Len(a) + Len(b) = L - 1
      BY <1>1, <1>2, <1>3
    <2>2. a \o b \in Seq(Entry) /\ Len(a \o b) = Len(a) + Len(b)
      BY <1>2, <1>3, ConcatProperties
    <2>3. \A j \in 1..(Len(a) + Len(b)) : (a \o b)[j] = IF j <= Len(a) THEN a[j] ELSE b[j - Len(a)]
      BY <1>2, <1>3, ConcatProperties
    <2>4. \A j \in 1..(L - 1) : (j <= i - 1) = (j < i)
      BY <1>1
    <2> QED  BY <1>2, <2>1, <2>2, <2>3, <2>4
  <1>5. ASSUME NEW j \in 1..(L - 1)
        PROVE  (a \o b)[j] = IF j < i THEN entries[j] ELSE entries[j + 1]
    <2>1. CASE j < i
      BY <1>1, <1>2, <1>4, <2>1
    <2>2. CASE ~(j < i)
      <3>1. j - (i - 1) \in 1..(L - i) /\ i + (j - (i - 1)) = j + 1
        BY <1>1, <2>2
      <3> QED  BY <1>3, <1>4, <2>2, <3>1
    <2> QED  BY <2>1, <2>2
  <1> QED  BY <1>4, <1>5 DEF RemoveAt, a, b

\* An entry taken out subtracts its length, wherever it was.
LEMMA TotalRemoveAt ==
  ASSUME NEW entries \in Seq(Entry), NEW i \in 1..Len(entries)
  PROVE  Total(RemoveAt(entries, i)) = Total(entries) - entries[i].content.len
  <1> DEFINE L == Len(entries)
             t == RemoveAt(entries, i)
             d == entries[i].content.len
  <1>1. PICK f : Sums(entries, f) /\ Total(entries) = f[L]
    BY TotalAddsUp
  <1>2. L \in Nat /\ i \in Nat /\ i >= 1 /\ i <= L /\ L - 1 \in Nat
    OBVIOUS
  <1>3. /\ t \in Seq(Entry) /\ Len(t) = L - 1
        /\ \A j \in 1..(L - 1) : t[j] = IF j < i THEN entries[j] ELSE entries[j + 1]
    BY RemoveAtIs
  <1>4. \A j \in 1..L : entries[j].content.len \in Int
    BY EntryHasLength
  <1>5. /\ f \in [0..L -> Int] /\ f[0] = 0
        /\ \A n \in 1..L : f[n] = f[n - 1] + entries[n].content.len
    BY <1>1 DEF Sums
  <1>6. f[i] = f[i - 1] + d /\ d \in Int /\ f[i] \in Int /\ f[i - 1] \in Int
    BY SMTT(30), <1>2, <1>4, <1>5
  <1> DEFINE g == [n \in 0..(L - 1) |-> IF n < i THEN f[n] ELSE f[n + 1] - d]
  <1> HIDE DEF t, d
  <1>7. Sums(t, g)
    <2>1. g \in [0..Len(t) -> Int] /\ g[0] = 0
      BY SMTT(30), <1>2, <1>3, <1>5, <1>6
    <2>2. ASSUME NEW n \in 1..Len(t)
          PROVE  g[n] = g[n - 1] + t[n].content.len
      <3>1. n \in 1..(L - 1) /\ n - 1 \in 0..(L - 1) /\ n + 1 \in 1..L /\ n + 1 - 1 = n
            /\ n - 1 + 1 = n /\ n \in 1..L
        BY <1>2, <1>3
      <3>2. CASE n < i
        BY SMTT(30), <1>2, <1>3, <1>5, <3>1, <3>2
      <3>3. CASE n = i
        <4>1. g[n] = f[i + 1] - d /\ g[n - 1] = f[i - 1] /\ t[n] = entries[i + 1]
          BY <1>2, <1>3, <3>1, <3>3
        <4>2. f[i + 1] = f[i] + entries[i + 1].content.len /\ entries[i + 1].content.len \in Int
          BY <1>4, <1>5, <3>1, <3>3
        <4> QED  BY SMTT(30), <1>6, <4>1, <4>2
      <3>4. CASE n > i
        <4>1. g[n] = f[n + 1] - d /\ g[n - 1] = f[n] - d /\ t[n] = entries[n + 1]
          BY SMTT(30), <1>2, <1>3, <3>1, <3>4
        <4>2. f[n + 1] = f[n] + entries[n + 1].content.len /\ entries[n + 1].content.len \in Int
              /\ f[n] \in Int
          BY <1>2, <1>4, <1>5, <3>1
        <4> QED  BY SMTT(30), <1>6, <4>1, <4>2
      <3> QED  BY <1>2, <3>1, <3>2, <3>3, <3>4
    <2> QED  BY <2>1, <2>2 DEF Sums
  <1>8. Total(t) = g[L - 1]
    BY <1>3, <1>7, TotalIs
  <1>9. g[L - 1] = f[L] - d
    <2>1. CASE i = L
      BY <1>2, <1>6, <2>1
    <2>2. CASE i < L
      BY <1>2, <2>2
    <2> QED  BY <1>2, <2>1, <2>2
  <1> QED  BY <1>1, <1>8, <1>9 DEF t, d

\* One entry changes its content.
LEMMA TotalReplaced ==
  ASSUME NEW entries \in Seq(Entry), NEW t \in Seq(Entry), NEW i \in 1..Len(entries),
         Len(t) = Len(entries),
         \A j \in 1..Len(entries) : j # i => t[j].content.len = entries[j].content.len
  PROVE  Total(t) = Total(entries) - entries[i].content.len + t[i].content.len
  <1> DEFINE L == Len(entries)
             d == t[i].content.len - entries[i].content.len
             g(f) == [n \in 0..L |-> IF n < i THEN f[n] ELSE f[n] + d]
  <1>1. PICK f : Sums(entries, f) /\ Total(entries) = f[L]
    BY TotalAddsUp
  <1>2. L \in Nat /\ i \in Nat /\ i >= 1 /\ i <= L
    OBVIOUS
  <1>3. \A j \in 1..L : entries[j].content.len \in Int /\ t[j].content.len \in Int
    BY EntryHasLength
  <1>4. /\ f \in [0..L -> Int] /\ f[0] = 0
        /\ \A n \in 1..L : f[n] = f[n - 1] + entries[n].content.len
    BY <1>1 DEF Sums
  <1>5. d \in Int /\ t[i].content.len = entries[i].content.len + d
    BY <1>2, <1>3
  <1> HIDE DEF d
  <1>6. Sums(t, g(f))
    <2>1. g(f) \in [0..Len(t) -> Int] /\ g(f)[0] = 0
      BY <1>2, <1>4, <1>5
    <2>2. ASSUME NEW n \in 1..Len(t)
          PROVE  g(f)[n] = g(f)[n - 1] + t[n].content.len
      <3>1. n \in 1..L /\ n - 1 \in 0..L /\ f[n] \in Int /\ f[n - 1] \in Int
        BY <1>2, <1>4
      <3>2. CASE n = i
        BY <1>2, <1>3, <1>4, <1>5, <3>1, <3>2
      <3>3. CASE n # i
        <4>1. t[n].content.len = entries[n].content.len /\ entries[n].content.len \in Int
              /\ f[n] = f[n - 1] + entries[n].content.len
          BY <1>3, <1>4, <3>1, <3>3
        <4>2. CASE n < i
          BY <1>2, <3>1, <4>1, <4>2
        <4>3. CASE n > i
          <5>1. ~(n < i) /\ ~(n - 1 < i)
            BY <1>2, <4>3
          <5>2. n \in 0..L
            BY <3>1
          <5>3. g(f)[n] = f[n] + d /\ g(f)[n - 1] = f[n - 1] + d
            BY <3>1, <5>1, <5>2
          <5> QED  BY <1>5, <3>1, <4>1, <5>3
        <4> QED  BY <1>2, <3>1, <3>3, <4>2, <4>3
      <3> QED  BY <3>2, <3>3
    <2> QED  BY <2>1, <2>2 DEF Sums
  <1>7. Total(t) = g(f)[L]
    BY <1>6, TotalIs
  <1>8. g(f)[L] = f[L] + d /\ f[L] \in Int
    BY <1>2, <1>4
  <1>9. entries[i].content.len \in Int /\ t[i].content.len \in Int
    BY <1>3
  <1> QED  BY <1>1, <1>7, <1>8, <1>9 DEF d

\* What a tier adds up to depends on the lengths of its entries only.
LEMMA TotalUnchanged ==
  ASSUME NEW entries \in Seq(Entry), NEW t \in Seq(Entry), Len(t) = Len(entries),
         \A j \in 1..Len(entries) : t[j].content.len = entries[j].content.len
  PROVE  Total(t) = Total(entries)
  <1>1. PICK f : Sums(entries, f) /\ Total(entries) = f[Len(entries)]
    BY TotalAddsUp
  <1>2. Sums(t, f)
    BY <1>1 DEF Sums
  <1> QED  BY <1>1, <1>2, TotalIs

----------------------------------------------------------------------------
(* The tiers. *)

\* No key is twice in a tier.
OnePerKey(entries) == \A i, j \in DOMAIN entries : entries[i].key = entries[j].key => i = j
Tier == {entries \in Seq(Entry) : OnePerKey(entries)}

\* Every entry of a tier is one of S.
Among(entries, S) == \A i \in DOMAIN entries : entries[i] \in S
Items(entries) == {entries[i] : i \in DOMAIN entries}

LEMMA EntryAt ==
  ASSUME NEW entries \in Seq(Entry)
  PROVE  /\ Len(entries) \in Nat /\ DOMAIN entries = 1..Len(entries)
         /\ \A i \in DOMAIN entries : entries[i] \in Entry
  OBVIOUS

\* The entry of a key is an entry of the tier, with that key.
LEMMA TheIs ==
  ASSUME NEW entries \in Seq(Entry), NEW k, Has(entries, k)
  PROVE  The(entries, k) \in Items(entries) /\ The(entries, k) \in Entry /\ The(entries, k).key = k
  BY EntryAt DEF Has, The, Items

\* Without takes out one entry, and only that of the key.
LEMMA WithoutIs ==
  ASSUME NEW entries \in Tier, NEW k
  PROVE  /\ Without(entries, k) \in Tier
         /\ ~Has(Without(entries, k), k)
         /\ Among(Without(entries, k), Items(entries))
         /\ Total(Without(entries, k)) =
              Total(entries) - (IF Has(entries, k) THEN The(entries, k).content.len ELSE 0)
  <1> DEFINE L == Len(entries)
             t == Without(entries, k)
  <1>1. entries \in Seq(Entry) /\ OnePerKey(entries) /\ L \in Nat /\ DOMAIN entries = 1..L
    BY EntryAt DEF Tier
  <1>2. CASE ~Has(entries, k)
    <2>1. t = entries
      BY <1>2 DEF Without
    <2>2. Total(entries) \in Int
      BY <1>1, TotalType
    <2> QED  BY <1>1, <1>2, <2>1, <2>2 DEF Among, Items
  <1>3. CASE Has(entries, k)
    <2> DEFINE i == CHOOSE i \in DOMAIN entries : entries[i].key = k
    <2>1. i \in 1..L /\ entries[i].key = k /\ t = RemoveAt(entries, i) /\ The(entries, k) = entries[i]
      BY <1>1, <1>3 DEF Has, Without, The
    <2> HIDE DEF i
    <2>2. /\ t \in Seq(Entry) /\ Len(t) = L - 1
          /\ \A j \in 1..(L - 1) : t[j] = IF j < i THEN entries[j] ELSE entries[j + 1]
      BY <1>1, <2>1, RemoveAtIs
    <2>3. DOMAIN t = 1..(L - 1)
      BY <2>2
    <2> HIDE DEF t
    <2>4. ASSUME NEW j \in DOMAIN t
          PROVE  \E n \in 1..L : n # i /\ t[j] = entries[n] /\ n = IF j < i THEN j ELSE j + 1
      <3>1. CASE j < i
        <4>1. j \in 1..L /\ j # i
          BY <1>1, <2>3, <2>1, <3>1
        <4> QED  BY <2>2, <2>3, <3>1, <4>1
      <3>2. CASE ~(j < i)
        <4>1. j + 1 \in 1..L /\ j + 1 # i
          BY <1>1, <2>1, <2>3, <3>2
        <4> QED  BY <2>2, <2>3, <3>2, <4>1
      <3> QED  BY <3>1, <3>2
    <2>5. Among(t, Items(entries))
      BY <1>1, <2>4 DEF Among, Items
    <2>6. ~Has(t, k)
      BY <1>1, <2>1, <2>4 DEF Has, OnePerKey
    <2>7. ASSUME NEW a \in DOMAIN t, NEW b \in DOMAIN t, t[a].key = t[b].key
          PROVE  a = b
      <3>1. PICK m \in 1..L : t[a] = entries[m] /\ m = IF a < i THEN a ELSE a + 1
        BY <2>4
      <3>2. PICK n \in 1..L : t[b] = entries[n] /\ n = IF b < i THEN b ELSE b + 1
        BY <2>4
      <3>3. m = n
        BY <1>1, <2>7, <3>1, <3>2 DEF OnePerKey
      <3>4. a \in Int /\ b \in Int /\ i \in Int
        BY <1>1, <2>1, <2>3
      <3> QED  BY <3>1, <3>2, <3>3, <3>4
    <2>8. OnePerKey(t)
      BY <2>7 DEF OnePerKey
    <2>9. Total(t) = Total(entries) - entries[i].content.len
      BY <1>1, <2>1, TotalRemoveAt
    <2> QED  BY <1>3, <2>1, <2>2, <2>5, <2>6, <2>8, <2>9 DEF Tier, t
  <1> QED  BY <1>2, <1>3

LEMMA AppendIs ==
  ASSUME NEW entries \in Tier, NEW e \in Entry, ~Has(entries, e.key)
  PROVE  /\ Append(entries, e) \in Tier
         /\ Among(Append(entries, e), Items(entries) \cup {e})
         /\ Total(Append(entries, e)) = Total(entries) + e.content.len
  <1> DEFINE L == Len(entries)
             t == Append(entries, e)
  <1>1. entries \in Seq(Entry) /\ OnePerKey(entries) /\ L \in Nat /\ DOMAIN entries = 1..L
    BY EntryAt DEF Tier
  <1>2. /\ t \in Seq(Entry) /\ DOMAIN t = 1..(L + 1) /\ t[L + 1] = e
        /\ \A i \in 1..L : t[i] = entries[i]
    BY <1>1
  <1> HIDE DEF t
  <1>3. \A i \in DOMAIN t : i = L + 1 \/ i \in 1..L
    BY <1>1, <1>2
  <1>4. OnePerKey(t)
    BY <1>1, <1>2, <1>3 DEF OnePerKey, Has
  <1>5. Among(t, Items(entries) \cup {e})
    BY <1>1, <1>2, <1>3 DEF Among, Items
  <1>6. Total(t) = Total(entries) + e.content.len
    BY <1>1, TotalAppend DEF t
  <1> QED  BY <1>2, <1>4, <1>5, <1>6 DEF Tier, t

\* The newest entries of a tier.
LEMMA RestIs ==
  ASSUME NEW entries \in Tier, NEW n \in 0..Len(entries)
  PROVE  /\ SubSeq(entries, n + 1, Len(entries)) \in Tier
         /\ Among(SubSeq(entries, n + 1, Len(entries)), Items(entries))
  <1> DEFINE L == Len(entries)
             t == SubSeq(entries, n + 1, L)
  <1>1. entries \in Seq(Entry) /\ OnePerKey(entries) /\ L \in Nat /\ DOMAIN entries = 1..L
        /\ n \in Nat /\ n <= L
    BY EntryAt DEF Tier
  <1>2. t \in Seq(Entry) /\ DOMAIN t = 1..(L - n) /\ \A i \in 1..(L - n) : t[i] = entries[n + i]
    BY <1>1
  <1> HIDE DEF t
  <1>3. \A i \in DOMAIN t : n + i \in 1..L /\ t[i] = entries[n + i]
    BY <1>1, <1>2
  <1>4. Among(t, Items(entries))
    BY <1>1, <1>3 DEF Among, Items
  <1>5. ASSUME NEW i \in DOMAIN t, NEW j \in DOMAIN t, t[i].key = t[j].key
        PROVE  i = j
    <2>1. n + i = n + j
      BY <1>1, <1>3, <1>5 DEF OnePerKey
    <2>2. i \in Int /\ j \in Int
      BY <1>2
    <2> QED  BY <1>1, <2>1, <2>2
  <1> QED  BY <1>2, <1>4, <1>5 DEF OnePerKey, Tier, t

\* Expiry changes no key and no content.
LEMMA AgedIs ==
  ASSUME NEW entries \in Tier
  PROVE  /\ Aged(entries) \in Tier
         /\ DOMAIN Aged(entries) = DOMAIN entries
         /\ \A i \in DOMAIN entries : /\ Aged(entries)[i].key = entries[i].key
                                      /\ Aged(entries)[i].content = entries[i].content
         /\ Total(Aged(entries)) = Total(entries)
  <1> DEFINE L == Len(entries)
             t == Aged(entries)
  <1>1. entries \in Seq(Entry) /\ OnePerKey(entries) /\ L \in Nat /\ DOMAIN entries = 1..L
    BY EntryAt DEF Tier
  <1>2. ASSUME NEW i \in 1..L
        PROVE  /\ [entries[i] EXCEPT !.old = TRUE] \in Entry
               /\ [entries[i] EXCEPT !.old = TRUE].key = entries[i].key
               /\ [entries[i] EXCEPT !.old = TRUE].content = entries[i].content
    <2>1. entries[i] \in Entry
      BY <1>1
    <2> QED  BY <2>1 DEF Entry
  <1>3. t = [i \in 1..L |-> [entries[i] EXCEPT !.old = TRUE]]
    BY <1>1 DEF Aged
  <1>4. t \in Seq(Entry) /\ Len(t) = L /\ DOMAIN t = 1..L
    BY <1>1, <1>2, <1>3
  <1>5. \A i \in 1..L : t[i].key = entries[i].key /\ t[i].content = entries[i].content
    BY <1>2, <1>3
  <1> HIDE DEF t
  <1>6. OnePerKey(t)
    BY <1>1, <1>4, <1>5 DEF OnePerKey
  <1>7. Total(t) = Total(entries)
    BY <1>1, <1>4, <1>5, TotalUnchanged
  <1> QED  BY <1>1, <1>4, <1>5, <1>6, <1>7 DEF Tier, t


----------------------------------------------------------------------------
(* The memory cache counts what it holds. *)

\* What the memory cache is, however far it is filled.
Counted == {M \in [entries : Tier, bytes : Int] : M.bytes = Total(M.entries)}
Accounted(M) == M \in Counted /\ M.bytes <= MemoryMax

LEMMA CountedIs ==
  ASSUME NEW M \in Counted
  PROVE  /\ M.entries \in Tier /\ M.entries \in Seq(Entry) /\ OnePerKey(M.entries)
         /\ M.bytes \in Int /\ M.bytes = Total(M.entries)
         /\ M = [entries |-> M.entries, bytes |-> M.bytes]
  BY DEF Counted, Tier

LEMMA CountedMake ==
  ASSUME NEW entries \in Tier, NEW bytes, bytes = Total(entries)
  PROVE  [entries |-> entries, bytes |-> bytes] \in Counted
  <1>1. bytes \in Int
    BY TotalType DEF Tier
  <1> QED  BY <1>1 DEF Counted

LEMMA AssumedBounds ==
  /\ MemoryMax \in Nat /\ DiskMax \in Nat /\ MaxParts \in Nat
  /\ \A f \in Files : Whole(f) \in Content /\ Whole(f).file = f /\ Whole(f).len = Size[f]
  /\ NoKey \notin Files
  BY AttachmentsAssumption DEF AttachmentsAssumption, Whole, Content

LEMMA NewIsEntry ==
  ASSUME NEW k \in Files, NEW c \in Content
  PROVE  /\ New(k, c) \in Entry /\ New(k, c).key = k /\ New(k, c).content = c
         /\ New(k, c).old = FALSE
  BY DEF New, Entry

LEMMA NoneAmong ==
  ASSUME NEW s, NEW t, NEW k, ~Has(t, k), Among(s, Items(t))
  PROVE  ~Has(s, k)
  BY DEF Has, Among, Items

LEMMA AmongTransitive ==
  ASSUME NEW s, NEW t, NEW u, NEW A, Among(s, Items(t) \cup A), Among(t, Items(u))
  PROVE  Among(s, Items(u) \cup A)
  BY DEF Among, Items

\* MemoryCache._remove keeps memory_bytes the sum of the entries.
LEMMA MemoryRemoveIs ==
  ASSUME NEW M \in Counted, NEW k
  PROVE  /\ MemoryRemove(M, k) \in Counted
         /\ MemoryRemove(M, k).bytes <= M.bytes
         /\ ~Has(MemoryRemove(M, k).entries, k)
         /\ Among(MemoryRemove(M, k).entries, Items(M.entries))
  <1>1. M.entries \in Tier /\ M.entries \in Seq(Entry) /\ M.bytes \in Int /\ M.bytes = Total(M.entries)
    BY CountedIs
  <1> DEFINE E == Without(M.entries, k)
  <1>2. /\ E \in Tier /\ ~Has(E, k) /\ Among(E, Items(M.entries))
        /\ Total(E) = Total(M.entries) - (IF Has(M.entries, k) THEN The(M.entries, k).content.len ELSE 0)
    BY <1>1, WithoutIs
  <1>3. CASE Has(M.entries, k)
    <2> DEFINE b == M.bytes - The(M.entries, k).content.len
    <2>1. MemoryRemove(M, k) = [entries |-> E, bytes |-> b]
      BY <1>3 DEF MemoryRemove
    <2>2. The(M.entries, k).content.len \in Nat
      BY <1>1, <1>3, TheIs, EntryHasLength
    <2>3. b = Total(E) /\ b <= M.bytes
      BY <1>1, <1>2, <1>3, <2>2
    <2> HIDE DEF E, b
    <2>4. [entries |-> E, bytes |-> b] \in Counted
      BY <1>2, <2>3, CountedMake
    <2> QED  BY <1>2, <2>1, <2>3, <2>4
  <1>4. CASE ~Has(M.entries, k)
    <2>1. MemoryRemove(M, k) = M
      BY <1>4 DEF MemoryRemove
    <2> QED  BY <1>1, <1>4, <2>1 DEF Among, Items
  <1> QED  BY <1>3, <1>4

\* MemoryCache.set keeps memory_bytes the sum of the entries, and within the limit.
LEMMA MemorySetIs ==
  ASSUME NEW M, Accounted(M), NEW k \in Files, NEW c \in Content
  PROVE  /\ Accounted(MemorySet(M, k, c))
         /\ Among(MemorySet(M, k, c).entries, Items(M.entries) \cup {New(k, c)})
  <1> DEFINE R == MemoryRemove(M, k)
             L == Len(R.entries)
             Freed(i) == Total(SubSeq(R.entries, 1, i))
             Stops(i) == R.bytes - Freed(i) + c.len <= MemoryMax \/ i = L
             n == CHOOSE i \in 0..L :
                    /\ R.bytes - Freed(i) + c.len <= MemoryMax \/ i = L
                    /\ \A j \in 0..(i - 1) : R.bytes - Freed(j) + c.len > MemoryMax
             E == SubSeq(R.entries, n + 1, L)
             b == R.bytes - Freed(n) + c.len
  <1>1. M \in Counted /\ M.bytes <= MemoryMax
    BY DEF Accounted
  <1>2. R \in Counted /\ ~Has(R.entries, k) /\ Among(R.entries, Items(M.entries))
    BY <1>1, MemoryRemoveIs
  <1> HIDE DEF R
  <1>3. R.entries \in Tier /\ R.entries \in Seq(Entry) /\ R.bytes \in Int /\ R.bytes = Total(R.entries)
        /\ L \in Nat
    BY <1>2, CountedIs
  <1>4. c.len \in Nat /\ MemoryMax \in Nat
    BY AssumedBounds DEF Content
  <1>5. \A i \in 0..L : Freed(i) \in Int
    <2>1. \A i \in 0..L : SubSeq(R.entries, 1, i) \in Seq(Entry)
      BY <1>3
    <2> QED  BY <2>1, TotalType
  <1>6. Freed(L) = R.bytes
    <2>1. SubSeq(R.entries, 1, L) = R.entries
      BY <1>3
    <2> QED  BY <1>3, <2>1
  <1> HIDE DEF Freed
  <1>7. n \in 0..L /\ Stops(n)
    <2> DEFINE T == {i \in 0..L : Stops(i)}
    <2>1. T \in SUBSET Nat /\ L \in T
      BY <1>3
    <2>2. PICK i \in T : \A u \in T : i <= u
      BY <2>1, Least
    <2>3. i \in 0..L /\ Stops(i)
      OBVIOUS
    <2>4. \A j \in 0..(i - 1) : j \in 0..L /\ ~(i <= j)
      BY <1>3, <2>3
    <2>5. \A j \in 0..(i - 1) : ~(R.bytes - Freed(j) + c.len <= MemoryMax)
      BY <2>2, <2>4
    <2>6. \A j \in 0..(i - 1) : R.bytes - Freed(j) + c.len > MemoryMax
      BY <1>3, <1>4, <1>5, <2>4, <2>5
    <2> HIDE DEF T
    <2> QED  BY <2>3, <2>6
  <1> HIDE DEF n
  <1>8. CASE c.len > MemoryMax
    <2>1. MemorySet(M, k, c) = M
      BY <1>8 DEF MemorySet
    <2> QED  BY <2>1 DEF Among, Items
  <1>9. CASE ~(c.len > MemoryMax)
    <2>1. MemorySet(M, k, c) = [entries |-> Append(E, New(k, c)), bytes |-> b]
      BY <1>9 DEF MemorySet, R, Freed, n
    <2>2. E \in Tier /\ Among(E, Items(R.entries))
      BY <1>3, <1>7, RestIs
    <2>3. Total(E) = R.bytes - Freed(n)
      BY <1>3, <1>7, TotalSplit DEF Freed
    <2>4. b <= MemoryMax
      BY <1>3, <1>4, <1>5, <1>6, <1>7, <1>9
    <2> HIDE DEF E
    <2>5. ~Has(E, k) /\ Among(E, Items(M.entries))
      BY <1>2, <2>2, NoneAmong, AmongTransitive DEF Among, Items
    <2>6. New(k, c) \in Entry /\ New(k, c).key = k /\ New(k, c).content = c
      BY NewIsEntry
    <2>7. /\ Append(E, New(k, c)) \in Tier
          /\ Among(Append(E, New(k, c)), Items(E) \cup {New(k, c)})
          /\ Total(Append(E, New(k, c))) = Total(E) + c.len
      BY <2>2, <2>5, <2>6, AppendIs
    <2>8. Total(Append(E, New(k, c))) = b
      BY <2>3, <2>7
    <2> HIDE DEF b
    <2>9. [entries |-> Append(E, New(k, c)), bytes |-> b] \in Counted
      BY <2>7, <2>8, CountedMake
    <2>10. Among(Append(E, New(k, c)), Items(M.entries) \cup {New(k, c)})
      BY <2>5, <2>7, AmongTransitive
    <2> QED  BY <2>1, <2>4, <2>9, <2>10 DEF Accounted
  <1> QED  BY <1>8, <1>9

\* MemoryCache.get moves an entry to the end and changes no sum.
LEMMA TouchedIs ==
  ASSUME NEW M, Accounted(M), NEW k, Has(M.entries, k)
  PROVE  /\ Accounted(Touched(M, k))
         /\ Among(Touched(M, k).entries, Items(M.entries))
  <1> DEFINE E == Without(M.entries, k)
             e == The(M.entries, k)
             t == Append(E, e)
  <1>1. /\ M \in Counted /\ M.bytes <= MemoryMax /\ M.entries \in Tier /\ M.entries \in Seq(Entry)
        /\ M.bytes \in Int /\ M.bytes = Total(M.entries)
        /\ M = [entries |-> M.entries, bytes |-> M.bytes]
    BY CountedIs DEF Accounted
  <1>2. Touched(M, k) = [entries |-> t, bytes |-> M.bytes]
    <2>1. Touched(M, k) = [M EXCEPT !.entries = t]
      BY DEF Touched
    <2> HIDE DEF t
    <2>2. \A u : [[entries |-> M.entries, bytes |-> M.bytes] EXCEPT !.entries = u]
                = [entries |-> u, bytes |-> M.bytes]
      OBVIOUS
    <2> QED  BY <1>1, <2>1, <2>2
  <1>3. e \in Items(M.entries) /\ e \in Entry /\ e.key = k /\ e.content.len \in Nat
    BY <1>1, TheIs, EntryHasLength
  <1>4. E \in Tier /\ ~Has(E, k) /\ Among(E, Items(M.entries))
        /\ Total(E) = Total(M.entries) - e.content.len
    BY <1>1, WithoutIs
  <1> HIDE DEF E, e
  <1>5. t \in Tier /\ Among(t, Items(E) \cup {e}) /\ Total(t) = Total(E) + e.content.len
    BY <1>3, <1>4, AppendIs
  <1>6. Total(t) = M.bytes
    BY <1>1, <1>3, <1>4, <1>5
  <1> HIDE DEF t
  <1>7. Among(t, Items(M.entries))
    BY <1>3, <1>4, <1>5 DEF Among, Items
  <1>8. [entries |-> t, bytes |-> M.bytes] \in Counted
    BY <1>5, <1>6, CountedMake
  <1> QED  BY <1>1, <1>2, <1>7, <1>8 DEF Accounted

----------------------------------------------------------------------------
(* The inductive invariant. *)

Writing == {"evict", "open", "write"}
Carries == [content : Content, how : {"attached", "linked"}]

Types ==
  /\ spec \in Mails
  /\ status \in [Msgs -> {"new", "fetching", "built", "error"}]
  /\ parts \in [Msgs -> Seq(Carries)]
  /\ task \in [Ids -> Task]
  /\ fs \in Tenants \cup {NoTenant} /\ torn \subseteq Files /\ mixed \subseteq Msgs
  /\ troubles \in Nat /\ aged \in BOOLEAN

\* The memory cache counts right, and what it holds is whole or was read torn.
Sound(e, T) == e.content = Whole(e.key) \/ e.key \in T
MemoryFine == Accounted(memory) /\ \A e \in Items(memory.entries) : Sound(e, torn)

\* A file on disk is whole unless it is being written, or has been read or left so.
BeingWritten(k) == \E q \in Ids : task[q].job = "write" /\ task[q].key = k
DiskFine ==
  /\ disk \in Tier
  /\ \A e \in Items(disk) : (Sound(e, torn) \/ BeingWritten(e.key)) /\ Subdir[e.key] \in dirs

\* What the content of an attachment may be.
Right(p, c) ==
  \/ c = Whole(Spec_(p).file)
  \/ Spec_(p).key # NoKey /\ c = Whole(Spec_(p).key)
  \/ Spec_(p).key \in torn
  \/ Spec_(p).kind = "mount" /\ p[1] \in mixed

\* A fetch: where it is goes with what its thread does, and what it carries to the disk is whole.
TaskFine(p) ==
  /\ task[p].pc # "idle" => p \in Parts(p[1])
  /\ task[p].pc \in {"idle", "served", "unlinked", "backend", "lock"} => task[p].job = "none"
  /\ task[p].pc = "wait" => task[p].job # "none"
  /\ task[p].job \in Writing \/ task[p].pc = "lock" =>
       /\ task[p].key \in Files /\ task[p].content = Whole(task[p].key)
       /\ task[p].content.len <= DiskMax
       /\ task[p].pc # "failed" => Right(p, task[p].content)
  /\ task[p].job = "evict" => task[p].plan # <<>>
  /\ task[p].pc = "served" => task[p].content \in Content /\ Right(p, task[p].content)

\* The cache lets a fetch fail because of others only once it has its content.
Blamed == \A p \in Ids : task[p].err = "cache" => task[p].content \in Content
TasksFine == Blamed /\ \A p \in Ids : TaskFine(p)

\* The lock is held by a fetch that writes.
LockFine == lock = {} \/ \E p \in Ids : lock = {p} /\ Awaited(p) /\ task[p].job \in Writing

\* Before anything is cancelled a writer holds the lock.
Holding == troubles = 0 => \A p \in Ids : task[p].job \in Writing => Awaited(p) /\ lock = {p}

\* Directories vanish only if something has expired.
Calm(p) ==
  /\ task[p].job \notin {"unlink", "rmdir"} /\ task[p].pc # "unlinked"
  /\ task[p].job = "open" => Subdir[task[p].key] \in dirs
  /\ task[p].err # "cache"
Quiet ==
  /\ ~aged => \A e \in Items(disk) : ~e.old
  /\ ~aged /\ troubles = 0 => \A p \in Ids : Calm(p)

\* Until a file is written there is room for it, if nothing was cancelled and no eviction refused.
Planned(e, plan) == \E j \in DOMAIN plan : e.key = plan[j].key /\ e.content = plan[j].content
Room(p) ==
  /\ task[p].job = "evict" =>
       /\ OnePerKey(task[p].plan) /\ Total(disk) <= task[p].room
       /\ \A e \in Items(disk) : Planned(e, task[p].plan)
  /\ task[p].job \in {"open", "write"} => Total(disk) + task[p].content.len <= DiskMax
  /\ task[p].job = "write" => \A e \in Items(disk) : e.key = task[p].key => e.content.len = 0
Fit == troubles = 0 /\ \A p \in Ids : <<p, "evict">> \notin refused
Space == Fit => Total(disk) <= DiskMax /\ \A p \in Ids : Room(p)

IInv == Types /\ MemoryFine /\ DiskFine /\ TasksFine /\ LockFine /\ Holding /\ Quiet /\ Space
        /\ BuiltMailIsRight

----------------------------------------------------------------------------
(* What the steps of a fetch have in common. *)

\* Fetch p moves and no other; nothing of what was seen is forgotten.
Blames(p) ==
  task'[p].err = "cache" =>
    task'[p].content \in Content \/ (task[p].err = "cache" /\ task'[p].content = task[p].content)
Moves(p) ==
  task' \in [Ids -> Task] /\ (\A q \in Ids : q # p => task'[q] = task[q]) /\ Blames(p)
Grows ==
  /\ spec' = spec /\ torn \subseteq torn' /\ mixed \subseteq mixed' /\ refused \subseteq refused'

LEMMA PartIs ==
  ASSUME spec \in Mails, NEW p \in Ids, p \in Parts(p[1])
  PROVE  /\ p[1] \in Msgs /\ p[2] \in DOMAIN spec[p[1]] /\ p = <<p[1], p[2]>>
         /\ Spec_(p) \in Attachment /\ Spec_(p).file \in Files /\ Spec_(p).key \in Files \cup {NoKey}
  <1>1. p[1] \in Msgs /\ p = <<p[1], p[2]>>
    BY DEF Ids
  <1>2. spec[p[1]] \in Seq(Attachment)
    BY <1>1, AttachmentsAssumption DEF AttachmentsAssumption
  <1>3. p[2] \in 1..Len(spec[p[1]])
    BY <1>1 DEF Parts
  <1>4. Spec_(p) \in Attachment /\ p[2] \in DOMAIN spec[p[1]]
    BY <1>2, <1>3 DEF Spec_
  <1> QED  BY <1>1, <1>4 DEF Attachment

\* The fields of a fetch.
Pcs == {"idle", "wait", "unlinked", "backend", "lock", "served", "failed"}
Jobs == {"none", "unlink", "rmdir", "read", "evict", "open", "write"}
Contents == Content \cup {Nothing}
Keys == Files \cup {NoKey}
Plans == Seq(Entry)
Rooms == Int
Errors == {"", "backend", "timeout", "cache", "disk"}

\* A task, field by field.
LEMMA TaskIs ==
  Task = [pc : Pcs, job : Jobs, content : Contents, key : Keys, plan : Plans, room : Rooms,
          err : Errors]
  BY DEF Task, Pcs, Jobs, Contents, Keys, Plans, Rooms, Errors

LEMMA TaskAt ==
  ASSUME NEW t \in Task
  PROVE  /\ t.pc \in Pcs /\ t.job \in Jobs /\ t.content \in Contents /\ t.key \in Keys
         /\ t.plan \in Plans /\ t.room \in Rooms /\ t.err \in Errors
  BY TaskIs

\* Where fetch p is and what it does, everything else about it as before.
Turned(p, pc, job, c, err) ==
  /\ task'[p].pc = pc /\ task'[p].job = job /\ task'[p].content = c /\ task'[p].err = err
  /\ task'[p].key = task[p].key /\ task'[p].plan = task[p].plan /\ task'[p].room = task[p].room

LEMMA GoToIs ==
  ASSUME task \in [Ids -> Task], NEW p \in Ids,
         NEW pc \in Pcs, GoTo(p, pc)
  PROVE  Moves(p) /\ Turned(p, pc, "none", task[p].content, task[p].err)
  <1>1. "none" \in Jobs
    BY DEF Pcs, Jobs, Errors, Contents
  <1>2. Turned(p, pc, "none", task[p].content, task[p].err)
    BY TaskIs, <1>1 DEF GoTo, Turned
  <1>3. task' \in [Ids -> Task] /\ \A q \in Ids : q # p => task'[q] = task[q]
    BY TaskIs, <1>1 DEF GoTo
  <1>4. Blames(p)
    BY <1>2 DEF Blames, Turned
  <1> QED  BY <1>2, <1>3, <1>4 DEF Moves

LEMMA SubmitIs ==
  ASSUME task \in [Ids -> Task], NEW p \in Ids,
         NEW job \in Jobs, Submit(p, job)
  PROVE  Moves(p) /\ Turned(p, "wait", job, task[p].content, task[p].err)
  <1>1. "wait" \in Pcs
    BY DEF Pcs, Jobs, Errors, Contents
  <1>2. Turned(p, "wait", job, task[p].content, task[p].err)
    BY TaskIs, <1>1 DEF Submit, Turned
  <1>3. task' \in [Ids -> Task] /\ \A q \in Ids : q # p => task'[q] = task[q]
    BY TaskIs, <1>1 DEF Submit
  <1>4. Blames(p)
    BY <1>2 DEF Blames, Turned
  <1> QED  BY <1>2, <1>3, <1>4 DEF Moves

LEMMA ServedIs ==
  ASSUME task \in [Ids -> Task], NEW p \in Ids,
         NEW c \in Content, Served(p, c)
  PROVE  Moves(p) /\ Turned(p, "served", "none", c, task[p].err)
  <1>1. "served" \in Pcs /\ "none" \in Jobs /\ c \in Contents
    BY DEF Pcs, Jobs, Errors, Contents
  <1>2. Turned(p, "served", "none", c, task[p].err)
    BY TaskIs, <1>1 DEF Served, Turned
  <1>3. task' \in [Ids -> Task] /\ \A q \in Ids : q # p => task'[q] = task[q]
    BY TaskIs, <1>1 DEF Served
  <1>4. Blames(p)
    BY <1>2 DEF Blames, Turned
  <1> QED  BY <1>2, <1>3, <1>4 DEF Moves

LEMMA RaisedIs ==
  ASSUME task \in [Ids -> Task], NEW p \in Ids,
         NEW why \in Errors, Raised(p, why),
         why = "cache" => task[p].content \in Content
  PROVE  Moves(p) /\ Turned(p, "failed", "none", task[p].content, why)
  <1>1. "failed" \in Pcs /\ "none" \in Jobs
    BY DEF Pcs, Jobs, Errors, Contents
  <1>2. Turned(p, "failed", "none", task[p].content, why)
    BY TaskIs, <1>1 DEF Raised, Turned
  <1>3. task' \in [Ids -> Task] /\ \A q \in Ids : q # p => task'[q] = task[q]
    BY TaskIs, <1>1 DEF Raised
  <1>4. Blames(p)
    BY <1>2 DEF Blames, Turned
  <1> QED  BY <1>2, <1>3, <1>4 DEF Moves

\* What a mail was right to carry stays right.
LEMMA RightStays ==
  ASSUME Grows, NEW p, NEW c, Right(p, c)
  PROVE  Right(p, c)'
  BY DEF Grows, Right, Spec_

LEMMA RightCarried ==
  ASSUME Grows, NEW p, NEW c, Right(p, c), task'[p].content = c
  PROVE  Right(p, task[p].content)'
  BY DEF Grows, Right, Spec_

LEMMA TaskStays ==
  ASSUME Grows, NEW p \in Ids, task'[p] = task[p], TaskFine(p)
  PROVE  TaskFine(p)'
  <1>1. \A c : Right(p, c) => Right(p, c)'
    BY RightStays
  <1>2. Parts(p[1])' = Parts(p[1])
    BY DEF Grows, Parts
  <1>3. Right(p, task[p].content) => Right(p, task[p].content)'
    BY <1>1 DEF Grows, Right, Spec_
  <1> QED  BY <1>2, <1>3 DEF TaskFine

\* A step of one task keeps the types of all.
LEMMA TasksMove ==
  ASSUME Grows, NEW p \in Ids, Moves(p), TasksFine, TaskFine(p)'
  PROVE  TasksFine'
  <1>1. ASSUME NEW q \in Ids
        PROVE  TaskFine(q)'
    <2>1. q # p => TaskFine(q)'
      BY TaskStays DEF Moves, TasksFine
    <2> QED  BY <2>1
  <1>2. Blamed'
    BY DEF TasksFine, Blamed, Moves, Blames
  <1> QED  BY <1>1, <1>2 DEF TasksFine

\* A step that builds no mail keeps BuiltMailIsRight.
LEMMA BuiltStays ==
  ASSUME Grows, UNCHANGED parts, BuiltMailIsRight,
         \A m \in Msgs : status'[m] = "built" => status[m] = "built"
  PROVE  BuiltMailIsRight'
  BY DEF Grows, BuiltMailIsRight

\* A step that leaves memory alone keeps what is said of it.
LEMMA MemoryStays ==
  ASSUME Grows, UNCHANGED memory, MemoryFine
  PROVE  MemoryFine'
  BY DEF Grows, MemoryFine, Sound

LEMMA MemoryAmong ==
  ASSUME Grows, MemoryFine, Accounted(memory)',
         \A e \in Items(memory'.entries) : e \in Items(memory.entries) \/ Sound(e, torn')
  PROVE  MemoryFine'
  <1>1. \A e : Sound(e, torn) => Sound(e, torn')
    BY DEF Grows, Sound
  <1> QED  BY <1>1 DEF MemoryFine

\* TieredCache.set keeps what is said of memory: it takes contents that are whole, or torn.
LEMMA MemoryKept ==
  ASSUME Grows, MemoryFine, NEW k \in Files, NEW c \in Content, memory' = Kept(k, c),
         c = Whole(k) \/ k \in torn'
  PROVE  MemoryFine'
  <1>1. CASE Small(c)
    <2>1. memory' = MemorySet(memory, k, c)
      BY <1>1 DEF Kept
    <2>2. Accounted(memory)
      BY DEF MemoryFine
    <2>3. /\ Accounted(memory)'
          /\ Among(memory'.entries, Items(memory.entries) \cup {New(k, c)})
      BY <2>1, <2>2, MemorySetIs
    <2>4. Sound(New(k, c), torn')
      BY NewIsEntry DEF Sound
    <2>5. \A e \in Items(memory'.entries) : e \in Items(memory.entries) \/ Sound(e, torn')
      BY <2>3, <2>4 DEF Among, Items
    <2> QED  BY <2>3, <2>5, MemoryAmong
  <1>2. CASE ~Small(c)
    BY <1>2, MemoryStays DEF Kept
  <1> QED  BY <1>1, <1>2

\* No write ends.
WritesOn == \A q \in Ids : task[q].job = "write" =>
              task'[q].job = "write" /\ task'[q].key = task[q].key

\* The disk stays fine if each of its files was there, is whole or torn, or is being written.
LEMMA DiskAmong ==
  ASSUME Grows, WritesOn, DiskFine, disk' \in Tier,
         \A e \in Items(disk') : e \in Items(disk) \/ Sound(e, torn)' \/ BeingWritten(e.key)',
         \A e \in Items(disk') : Subdir[e.key] \in dirs'
  PROVE  DiskFine'
  <1>1. ASSUME NEW e \in Items(disk')
        PROVE  Sound(e, torn)' \/ BeingWritten(e.key)'
    <2>1. CASE e \in Items(disk)
      <3>1. Sound(e, torn) \/ BeingWritten(e.key)
        BY <2>1 DEF DiskFine
      <3>2. Sound(e, torn) => Sound(e, torn)'
        BY DEF Grows, Sound
      <3>3. BeingWritten(e.key) => BeingWritten(e.key)'
        BY DEF WritesOn, BeingWritten
      <3> QED  BY <3>1, <3>2, <3>3
    <2> QED  BY <2>1
  <1> QED  BY <1>1 DEF DiskFine

LEMMA DiskStays ==
  ASSUME Grows, WritesOn, DiskFine, UNCHANGED disk,
         \A e \in Items(disk) : Subdir[e.key] \in dirs => Subdir[e.key] \in dirs'
  PROVE  DiskFine'
  <1>1. disk' \in Tier /\ \A e \in Items(disk') : e \in Items(disk) /\ Subdir[e.key] \in dirs'
    BY DEF DiskFine
  <1> QED  BY <1>1, DiskAmong

\* Unlinking a file keeps what is said of the disk.
LEMMA DiskLoses ==
  ASSUME Grows, WritesOn, DiskFine, NEW k, disk' = Without(disk, k) \/ disk' = disk, dirs \subseteq dirs'
  PROVE  DiskFine'
  <1>1. disk \in Tier
    BY DEF DiskFine
  <1>2. Among(disk', Items(disk)) /\ disk' \in Tier
    <2>1. Among(disk, Items(disk))
      BY DEF Among, Items
    <2> QED  BY <1>1, <2>1, WithoutIs
  <1>3. \A e \in Items(disk') : e \in Items(disk)
    BY <1>2 DEF Among, Items
  <1>4. \A e \in Items(disk') : Subdir[e.key] \in dirs'
    BY <1>3 DEF DiskFine
  <1> QED  BY <1>2, <1>3, <1>4, DiskAmong

\* A step of a task that is not writing ends no write.
LEMMA KeepsWriting ==
  ASSUME NEW p \in Ids, Moves(p), task[p].job # "write"
  PROVE  WritesOn
  BY DEF Moves, WritesOn

\* Who holds the lock changes only with the lock.
LEMMA LockStays ==
  ASSUME NEW p \in Ids, Moves(p), LockFine, UNCHANGED lock,
         lock = {p} => task'[p].pc = "wait" /\ task'[p].job \in Writing
  PROVE  LockFine'
  BY DEF LockFine, Moves, Awaited

\* Letting the lock go leaves no holder to speak of.
LEMMA LockFreed ==
  ASSUME NEW p \in Ids, Moves(p), LockFine, lock' = Unlocked(p)
  PROVE  LockFine'
  BY DEF LockFine, Moves, Awaited, Unlocked

\* The task that takes the lock is awaited by its mail.
LEMMA LockTaken ==
  ASSUME NEW p \in Ids, Moves(p), lock' = {p}, task'[p].pc = "wait", task'[p].job \in Writing
  PROVE  LockFine'
  BY DEF LockFine, Moves, Awaited

LEMMA HoldingMoves ==
  ASSUME NEW p \in Ids, Moves(p), Holding, troubles' = troubles,
         lock' = lock \/ lock = {} \/ lock = {p},
         task'[p].job \in Writing => troubles # 0 \/ (task'[p].pc = "wait" /\ lock' = {p})
  PROVE  Holding'
  <1>1. ASSUME troubles' = 0, NEW q \in Ids, task'[q].job \in Writing
        PROVE  task'[q].pc = "wait" /\ lock' = {q}
    <2>1. CASE q = p
      BY <1>1, <2>1
    <2>2. CASE q # p
      <3>1. task'[q] = task[q]
        BY <2>2 DEF Moves
      <3>2. task[q].pc = "wait" /\ lock = {q}
        BY <1>1, <3>1 DEF Holding, Awaited
      <3> QED  BY <2>2, <3>1, <3>2
    <2> QED  BY <2>1, <2>2
  <1> QED  BY <1>1 DEF Holding, Awaited

\* Who else might be writing.
LEMMA WriterAlone ==
  ASSUME Holding, troubles = 0, NEW p \in Ids, task[p].job \in Writing
  PROVE  /\ lock = {p} /\ Awaited(p)
         /\ \A q \in Ids : q # p => task[q].job \notin Writing
  BY DEF Holding

LEMMA QuietMoves ==
  ASSUME NEW p \in Ids, Moves(p), Quiet, troubles' = troubles, aged' = aged,
         dirs \subseteq dirs' \/ aged = TRUE \/ troubles # 0,
         \A e \in Items(disk') : e.old => \E x \in Items(disk) : x.old,
         aged \in BOOLEAN,
         aged = FALSE /\ troubles = 0 => Calm(p)'
  PROVE  Quiet'
  <1>1. aged' = FALSE => \A e \in Items(disk') : ~e.old
    BY DEF Quiet
  <1>2. ASSUME aged' = FALSE, troubles' = 0, NEW q \in Ids
        PROVE  Calm(q)'
    <2>1. CASE q = p
      BY <1>2, <2>1
    <2>2. CASE q # p
      BY <1>2, <2>2 DEF Moves, Quiet, Calm
    <2> QED  BY <2>1, <2>2
  <1> QED  BY <1>1, <1>2 DEF Quiet

LEMMA QuietStays ==
  ASSUME NEW p \in Ids, Moves(p), Quiet, troubles' = troubles, aged' = aged, disk' = disk,
         dirs \subseteq dirs', aged \in BOOLEAN,
         aged = FALSE /\ troubles = 0 => Calm(p)'
  PROVE  Quiet'
  BY QuietMoves

\* A writer keeps its room while no file is added.
LEMMA RoomStays ==
  ASSUME NEW q \in Ids, task'[q] = task[q], disk' = disk, Room(q)
  PROVE  Room(q)'
  BY DEF Room

\* A task that neither frees space nor writes needs no room.
LEMMA RoomIdle ==
  ASSUME NEW q \in Ids, task'[q].job \notin Writing
  PROVE  Room(q)'
  BY DEF Room, Writing

LEMMA FitBefore ==
  ASSUME Grows, troubles' = troubles, Fit'
  PROVE  Fit /\ troubles = 0
  BY DEF Grows, Fit

\* A step that leaves the disk alone keeps it within its limit.
LEMMA SpaceStays ==
  ASSUME NEW p \in Ids, Moves(p), Grows, Space, troubles' = troubles, disk' = disk,
         Fit' => Room(p)'
  PROVE  Space'
  <1>1. ASSUME Fit', NEW q \in Ids
        PROVE  Room(q)' /\ Total(disk') <= DiskMax
    <2>1. Fit
      BY <1>1, FitBefore
    <2>2. CASE q # p
      BY <2>1, <2>2, RoomStays DEF Moves, Space
    <2> QED  BY <1>1, <2>1, <2>2 DEF Space
  <1> QED  BY <1>1 DEF Space

\* Before any timeout only the holder of the lock changes files, so its own room is enough.
LEMMA SpaceAlone ==
  ASSUME NEW p \in Ids, Moves(p), Grows, Holding, troubles' = troubles, task[p].job \in Writing,
         Fit' => Total(disk') <= DiskMax /\ Room(p)'
  PROVE  Space'
  <1>1. ASSUME Fit', NEW q \in Ids
        PROVE  Room(q)'
    <2>1. CASE q # p
      <3>1. troubles = 0
        BY <1>1, FitBefore
      <3>2. task'[q].job \notin Writing
        BY <2>1, <3>1, WriterAlone DEF Moves
      <3> QED  BY <3>2, RoomIdle
    <2> QED  BY <1>1, <2>1
  <1> QED  BY <1>1 DEF Space

\* A file less on disk is more room.
LEMMA LessOnDisk ==
  ASSUME DiskFine, NEW k, disk' = Without(disk, k) \/ disk' = disk
  PROVE  /\ Total(disk') \in Int /\ Total(disk) \in Int /\ Total(disk') <= Total(disk)
         /\ \A b \in Int : Total(disk) <= b => Total(disk') <= b
         /\ \A e \in Items(disk') : e \in Items(disk)
  <1>1. disk \in Tier /\ disk \in Seq(Entry)
    BY DEF DiskFine, Tier
  <1>2. Total(disk) \in Int
    BY <1>1, TotalType
  <1>3. ASSUME disk' = Without(disk, k)
        PROVE  Total(disk') \in Int /\ Total(disk') <= Total(disk) /\ \A e \in Items(disk') : e \in Items(disk)
    <2>1. /\ Among(disk', Items(disk))
          /\ Total(disk') = Total(disk) - (IF Has(disk, k) THEN The(disk, k).content.len ELSE 0)
      BY <1>1, <1>3, WithoutIs
    <2>2. Has(disk, k) => The(disk, k).content.len \in Nat
      BY <1>1, TheIs, EntryHasLength
    <2>3. Total(disk') \in Int /\ Total(disk') <= Total(disk)
      BY <1>2, <2>1, <2>2
    <2> QED  BY <2>1, <2>3 DEF Among, Items
  <1>4. Total(disk') \in Int /\ Total(disk') <= Total(disk) /\ \A e \in Items(disk') : e \in Items(disk)
    BY <1>2, <1>3
  <1> QED  BY <1>2, <1>4

\* A task keeps its room when another one takes a file away.
LEMMA RoomGrows ==
  ASSUME DiskFine, NEW k, disk' = Without(disk, k) \/ disk' = disk, NEW q \in Ids, task'[q] = task[q],
         task[q] \in Task, Room(q), DiskMax \in Nat
  PROVE  Room(q)'
  <1>1. /\ Total(disk') \in Int /\ Total(disk) \in Int /\ Total(disk') <= Total(disk)
        /\ \A b \in Int : Total(disk) <= b => Total(disk') <= b
        /\ \A e \in Items(disk') : e \in Items(disk)
    BY LessOnDisk
  <1>2. CASE task[q].job = "evict"
    <2>1. task[q].room \in Int
      BY TaskAt DEF Rooms
    <2>2. Total(disk') <= task[q].room
      BY <1>1, <1>2, <2>1 DEF Room
    <2> QED  BY <1>1, <1>2, <2>2 DEF Room
  <1>3. CASE task[q].job \in {"open", "write"}
    <2>1. task[q].content.len \in Int
      BY TaskAt DEF Contents, Content, Nothing
    <2>2. Total(disk) + task[q].content.len <= DiskMax
      BY <1>3 DEF Room
    <2>3. Total(disk') + task[q].content.len <= DiskMax
      BY <1>1, <2>1, <2>2
    <2> QED  BY <1>1, <1>3, <2>3 DEF Room
  <1>4. CASE task[q].job \notin Writing
    BY <1>4, RoomIdle
  <1> QED  BY <1>2, <1>3, <1>4 DEF Writing

LEMMA InvIs ==
  ASSUME IInv
  PROVE  /\ Types /\ MemoryFine /\ DiskFine /\ TasksFine /\ LockFine /\ Holding /\ Quiet /\ Space
         /\ BuiltMailIsRight
         /\ spec \in Mails /\ task \in [Ids -> Task] /\ aged \in BOOLEAN /\ troubles \in Nat
         /\ torn \subseteq Files /\ mixed \subseteq Msgs
         /\ fs \in Tenants \cup {NoTenant}
  BY DEF IInv, Types

\* A step of a fetch that does not hold the lock and leaves the disk alone.
LEMMA OffDisk ==
  ASSUME IInv, NEW p \in Ids, Moves(p), Grows,
         task[p].job # "write", task'[p].job \notin Writing, lock # {p},
         TaskFine(p)', MemoryFine',
         UNCHANGED <<status, parts, disk, dirs, lock, troubles, aged>>,
         fs' \in Tenants \cup {NoTenant}, torn' \subseteq Files, mixed' \subseteq Msgs,
         aged = FALSE /\ troubles = 0 => Calm(p)'
  PROVE  IInv'
  <1>1. Types'
    BY DEF IInv, Types, Moves, Grows
  <1>2. DiskFine'
    BY InvIs, KeepsWriting, DiskStays
  <1>3. TasksFine'
    BY InvIs, TasksMove
  <1>4. LockFine'
    BY InvIs, LockStays
  <1>5. Holding'
    BY InvIs, HoldingMoves
  <1>6. Quiet'
    BY InvIs, QuietStays
  <1>7. Space'
    BY InvIs, SpaceStays, RoomIdle
  <1>8. BuiltMailIsRight'
    BY InvIs, BuiltStays
  <1> QED  BY <1>1, <1>2, <1>3, <1>4, <1>5, <1>6, <1>7, <1>8 DEF IInv

\* The lock is free of a fetch that does not write.
LEMMA NotHolder ==
  ASSUME IInv, NEW p \in Ids, task[p].pc # "wait" \/ task[p].job \notin Writing
  PROVE  lock # {p}
  BY InvIs DEF LockFine, Awaited

\* A step that excuses nothing leaves a calm system calm.
LEMMA CalmBefore ==
  ASSUME IInv, NEW p \in Ids, aged = FALSE, troubles = 0
  PROVE  Calm(p) /\ \A e \in Items(disk) : ~e.old
  BY InvIs DEF Quiet

\* One lemma per action: TieredCache.get keeps the invariant.
LEMMA LookKeeps ==
  ASSUME IInv, NEW p \in Ids, Look(p)
  PROVE  IInv'
  <1> DEFINE k == Spec_(p).key
             M == IF Has(memory.entries, k) /\ ~Fresh(memory.entries, k)
                    THEN MemoryRemove(memory, k) ELSE memory
  <1>1. /\ task[p].pc = "idle" /\ p \in Parts(p[1])
        /\ UNCHANGED <<spec, status, parts, disk, dirs, lock, fs, troubles, aged, torn, mixed>>
        /\ refused \subseteq refused'
    BY DEF Look, Refuse
  <1>2. Grows /\ task[p].job = "none" /\ lock # {p}
    <2>1. task[p].job = "none"
      BY <1>1, InvIs DEF TasksFine, TaskFine
    <2> QED  BY <1>1, <2>1, NotHolder DEF Grows
  <1>3. Spec_(p) \in Attachment /\ Parts(p[1])' = Parts(p[1])
    BY <1>1, InvIs, PartIs DEF Parts
  <1>4. memory.entries \in Tier /\ memory.entries \in Seq(Entry) /\ Accounted(memory) /\ disk \in Seq(Entry)
    BY InvIs, CountedIs DEF MemoryFine, Accounted, DiskFine, Tier
  <1>5. aged = FALSE /\ troubles = 0 => task[p].err # "cache"
    BY CalmBefore DEF Calm
  <1>6. CASE /\ Fresh(memory.entries, k)
             /\ memory' = Touched(memory, k)
             /\ Served(p, The(memory.entries, k).content)
    <2> DEFINE e == The(memory.entries, k)
    <2>1. Has(memory.entries, k)
      BY <1>6 DEF Fresh
    <2>2. e \in Items(memory.entries) /\ e \in Entry /\ e.key = k /\ e.content \in Content /\ k \in Files
      BY <1>4, <2>1, TheIs, EntryHasLength
    <2>3. Right(p, e.content)
      <3>1. Sound(e, torn)
        BY <2>2, InvIs DEF MemoryFine
      <3> QED  BY <2>2, <3>1, AssumedBounds DEF Sound, Right
    <2>4. PICK c \in Content : c = e.content
      BY <2>2
    <2> HIDE DEF e
    <2>5. Moves(p) /\ Turned(p, "served", "none", c, task[p].err)
      BY <1>6, <2>2, <2>4, InvIs, ServedIs DEF e
    <2>6. TaskFine(p)'
      <3>1. task'[p].content = c
        BY <2>5 DEF Turned
      <3>2. Right(p, task[p].content)'
        BY <1>2, <2>3, <2>4, <3>1, RightCarried
      <3> QED  BY <1>1, <1>3, <2>5, <3>1, <3>2 DEF TaskFine, Turned, Writing
    <2>7. MemoryFine'
      <3>1. Accounted(memory)' /\ Among(memory'.entries, Items(memory.entries))
        BY <1>4, <1>6, <2>1, TouchedIs
      <3>2. \A x \in Items(memory'.entries) : x \in Items(memory.entries)
        BY <3>1 DEF Among, Items
      <3> QED  BY <1>2, <3>1, <3>2, InvIs, MemoryAmong
    <2>8. aged = FALSE /\ troubles = 0 => Calm(p)'
      BY <1>5, <2>5 DEF Calm, Turned
    <2>9. task'[p].job \notin Writing /\ task[p].job # "write"
      BY <1>2, <2>5 DEF Turned, Writing
    <2> QED  BY <1>1, <1>2, <2>5, <2>6, <2>7, <2>8, <2>9, InvIs, OffDisk
  <1>7. ASSUME memory' = M
        PROVE  MemoryFine'
    <2>1. Accounted(memory)' /\ Among(memory'.entries, Items(memory.entries))
      <3>1. CASE memory' = MemoryRemove(memory, k)
        <4>1. memory \in Counted /\ memory.bytes \in Int /\ memory.bytes <= MemoryMax
          BY <1>4, CountedIs DEF Accounted
        <4>2. /\ MemoryRemove(memory, k) \in Counted
              /\ MemoryRemove(memory, k).bytes <= memory.bytes
              /\ Among(MemoryRemove(memory, k).entries, Items(memory.entries))
          BY <4>1, MemoryRemoveIs
        <4>3. MemoryRemove(memory, k).bytes <= MemoryMax
          BY <4>1, <4>2, CountedIs, AssumedBounds
        <4> QED  BY <3>1, <4>2, <4>3 DEF Accounted
      <3>2. CASE memory' = memory
        BY <1>4, <3>2 DEF Among, Items, Accounted
      <3> QED  BY <1>7, <3>1, <3>2
    <2>2. \A x \in Items(memory'.entries) : x \in Items(memory.entries)
      BY <2>1 DEF Among, Items
    <2> QED  BY <1>2, <2>1, <2>2, InvIs, MemoryAmong
  <1>8. CASE memory' = M /\ GoTo(p, "backend")
    <2>1. Moves(p) /\ Turned(p, "backend", "none", task[p].content, task[p].err)
      BY <1>8, InvIs, GoToIs DEF Pcs
    <2>2. TaskFine(p)'
      BY <1>1, <1>3, <2>1 DEF TaskFine, Turned, Writing
    <2>3. aged = FALSE /\ troubles = 0 => Calm(p)'
      BY <1>5, <2>1 DEF Calm, Turned
    <2>4. task'[p].job \notin Writing /\ task[p].job # "write"
      BY <1>2, <2>1 DEF Turned, Writing
    <2> QED  BY <1>1, <1>2, <1>7, <1>8, <2>1, <2>2, <2>3, <2>4, InvIs, OffDisk
  <1>9. CASE /\ memory' = M /\ Has(disk, k)
             /\ Submit(p, IF The(disk, k).old THEN "unlink" ELSE "read")
    <2>1. PICK job \in {"unlink", "read"} :
            job = IF The(disk, k).old THEN "unlink" ELSE "read"
      OBVIOUS
    <2>2. Moves(p) /\ Turned(p, "wait", job, task[p].content, task[p].err)
      BY <1>9, <2>1, InvIs, SubmitIs DEF Jobs
    <2>3. TaskFine(p)'
      BY <1>1, <1>3, <2>2 DEF TaskFine, Turned, Writing
    <2>4. aged = FALSE /\ troubles = 0 => ~The(disk, k).old
      BY <1>4, <1>9, CalmBefore, TheIs
    <2>5. aged = FALSE /\ troubles = 0 => Calm(p)'
      BY <1>5, <2>1, <2>2, <2>4 DEF Calm, Turned
    <2>6. task'[p].job \notin Writing /\ task[p].job # "write"
      BY <1>2, <2>2 DEF Turned, Writing
    <2> QED  BY <1>1, <1>2, <1>7, <1>9, <2>2, <2>3, <2>5, <2>6, InvIs, OffDisk
  <1>10. CASE memory' = M /\ Raised(p, "disk")
    <2>1. Moves(p) /\ Turned(p, "failed", "none", task[p].content, "disk")
      BY <1>10, InvIs, RaisedIs DEF Errors
    <2>2. TaskFine(p)'
      BY <1>1, <1>3, <2>1 DEF TaskFine, Turned, Writing
    <2>3. Calm(p)'
      BY <2>1 DEF Calm, Turned
    <2>4. task'[p].job \notin Writing /\ task[p].job # "write"
      BY <1>2, <2>1 DEF Turned, Writing
    <2> QED  BY <1>1, <1>2, <1>7, <1>10, <2>1, <2>2, <2>3, <2>4, InvIs, OffDisk
  <1> QED  BY <1>6, <1>8, <1>9, <1>10 DEF Look

\* DiskCache._remove unlinks a file.
LEMMA UnlinkKeeps ==
  ASSUME IInv, NEW p \in Ids, Unlink(p)
  PROVE  IInv'
  <1>1. /\ task[p].job = "unlink"
        /\ disk' = Without(disk, Spec_(p).key) \/ disk' = disk
        /\ refused \subseteq refused'
        /\ UNCHANGED <<spec, status, parts, memory, dirs, lock, fs, troubles, aged, torn, mixed>>
    BY DEF Unlink, Refuse
  <1>2. Grows /\ lock # {p} /\ (aged = TRUE \/ troubles # 0)
    <2>1. lock # {p}
      BY <1>1, NotHolder DEF Writing
    <2>2. aged = TRUE \/ troubles # 0
      BY <1>1, InvIs, CalmBefore DEF Calm
    <2> QED  BY <1>1, <2>1, <2>2 DEF Grows
  <1>3. task[p].pc \in {"wait", "failed"} /\ p \in Parts(p[1])
    BY <1>1, InvIs, TaskAt DEF TasksFine, TaskFine, Pcs
  <1>4. PICK pc \in {"unlinked", "backend", "failed"} : GoTo(p, pc)
    BY <1>3 DEF Unlink, Awaited
  <1>5. Moves(p) /\ Turned(p, pc, "none", task[p].content, task[p].err)
    BY <1>4, InvIs, GoToIs DEF Pcs
  <1>6. TaskFine(p)'
    BY <1>1, <1>3, <1>5 DEF TaskFine, Turned, Writing, Parts
  <1>7. disk \in Tier /\ \A e \in Items(disk') : e \in Items(disk)
    <2>1. disk \in Tier
      BY InvIs DEF DiskFine
    <2> QED  BY <1>1, <2>1, WithoutIs DEF Among, Items
  <1>8. Types'
    BY <1>1, <1>5 DEF IInv, Types, Moves
  <1>9. MemoryFine' /\ BuiltMailIsRight'
    BY <1>1, <1>2, InvIs, MemoryStays, BuiltStays
  <1>10. DiskFine'
    BY <1>1, <1>2, <1>5, InvIs, KeepsWriting, DiskLoses
  <1>11. TasksFine'
    BY <1>2, <1>5, <1>6, InvIs, TasksMove
  <1>12. LockFine'
    BY <1>1, <1>2, <1>5, InvIs, LockStays
  <1>13. task'[p].job \notin Writing
    BY <1>5 DEF Turned, Writing
  <1>14. Holding'
    BY <1>1, <1>5, <1>13, InvIs, HoldingMoves
  <1>15. Quiet'
    BY <1>1, <1>2, <1>5, <1>7, InvIs, QuietMoves
  <1>16. Space'
    <2>1. ASSUME Fit, NEW q \in Ids
          PROVE  Room(q)'
      <3>1. CASE q = p
        BY <1>13, <3>1, RoomIdle
      <3>2. CASE q # p
        <4>1. task'[q] = task[q] /\ task[q] \in Task /\ Room(q)
          BY <1>5, <2>1, <3>2, InvIs DEF Moves, Space
        <4> QED  BY <1>1, <4>1, InvIs, AssumedBounds, RoomGrows
      <3> QED  BY <3>1, <3>2
    <2>2. ASSUME Fit
          PROVE  Total(disk') <= DiskMax
      <3>1. Total(disk) <= DiskMax
        BY <2>2, InvIs DEF Space
      <3> QED  BY <1>1, <3>1, InvIs, AssumedBounds, LessOnDisk
    <2> QED  BY <1>1, <1>2, <2>1, <2>2, FitBefore DEF Space
  <1> QED  BY <1>8, <1>9, <1>10, <1>11, <1>12, <1>14, <1>15, <1>16 DEF IInv

\* DiskCache._remove looks whether the directory is empty.
LEMMA CheckDirKeeps ==
  ASSUME IInv, NEW p \in Ids, CheckDir(p)
  PROVE  IInv'
  <1>1. /\ task[p].pc = "unlinked"
        /\ UNCHANGED <<spec, status, parts, memory, disk, dirs, lock, fs, troubles, aged, torn, refused, mixed>>
    BY DEF CheckDir, caches, ghosts
  <1>2. task[p].job = "none" /\ p \in Parts(p[1])
    BY <1>1, InvIs DEF TasksFine, TaskFine
  <1>3. Grows /\ lock # {p} /\ ~(aged = FALSE /\ troubles = 0)
    <2>1. lock # {p}
      BY <1>1, NotHolder
    <2>2. ~(aged = FALSE /\ troubles = 0)
      BY <1>1, CalmBefore DEF Calm
    <2> QED  BY <1>1, <2>1, <2>2 DEF Grows
  <1>4. MemoryFine'
    BY <1>1, <1>3, InvIs, MemoryStays
  <1>5. ASSUME NEW pc \in {"backend", "wait"}, NEW job \in {"none", "rmdir"}, pc = "wait" => job = "rmdir",
               pc = "backend" => job = "none",
               Moves(p), Turned(p, pc, job, task[p].content, task[p].err)
        PROVE  IInv'
    <2>1. TaskFine(p)'
      BY <1>1, <1>2, <1>5 DEF TaskFine, Turned, Writing, Parts
    <2>2. task'[p].job \notin Writing /\ task[p].job # "write"
      BY <1>2, <1>5 DEF Turned, Writing
    <2> QED  BY <1>1, <1>3, <1>4, <1>5, <2>1, <2>2, InvIs, OffDisk
  <1>6. CASE Submit(p, "rmdir")
    BY <1>5, <1>6, InvIs, SubmitIs DEF Jobs
  <1>7. CASE GoTo(p, "backend")
    BY <1>5, <1>7, InvIs, GoToIs DEF Pcs
  <1> QED  BY <1>6, <1>7 DEF CheckDir

\* DiskCache._remove removes the directory.
LEMMA RmdirKeeps ==
  ASSUME IInv, NEW p \in Ids, Rmdir(p)
  PROVE  IInv'
  <1> DEFINE d == Subdir[Spec_(p).key]
  <1>1. /\ task[p].job = "rmdir" /\ (dirs' = dirs \/ (EmptyDir(d) /\ dirs' = dirs \ {d}))
        /\ refused \subseteq refused'
        /\ UNCHANGED <<spec, status, parts, memory, disk, lock, fs, troubles, aged, torn, mixed>>
    BY DEF Rmdir, Refuse
  <1>2. Grows /\ lock # {p} /\ (aged = TRUE \/ troubles # 0)
    <2>1. lock # {p}
      BY <1>1, NotHolder DEF Writing
    <2>2. aged = TRUE \/ troubles # 0
      BY <1>1, InvIs, CalmBefore DEF Calm
    <2> QED  BY <1>1, <2>1, <2>2 DEF Grows
  <1>3. task[p].pc \in {"wait", "failed"} /\ p \in Parts(p[1])
    BY <1>1, InvIs, TaskAt DEF TasksFine, TaskFine, Pcs
  <1>4. PICK pc \in {"backend", "failed"} : GoTo(p, pc)
    BY <1>3 DEF Rmdir, Awaited
  <1>5. Moves(p) /\ Turned(p, pc, "none", task[p].content, task[p].err)
    BY <1>4, InvIs, GoToIs DEF Pcs
  <1>6. TaskFine(p)'
    BY <1>1, <1>3, <1>5 DEF TaskFine, Turned, Writing, Parts
  <1>7. \A e \in Items(disk) : Subdir[e.key] \in dirs => Subdir[e.key] \in dirs'
    BY <1>1 DEF EmptyDir, Items
  <1>8. Types'
    BY <1>1, <1>5 DEF IInv, Types, Moves
  <1>9. MemoryFine' /\ BuiltMailIsRight'
    BY <1>1, <1>2, InvIs, MemoryStays, BuiltStays
  <1>10. DiskFine'
    <2>1. WritesOn
      BY <1>1, <1>5, KeepsWriting
    <2> QED  BY <1>1, <1>2, <1>7, <2>1, InvIs, DiskStays
  <1>11. TasksFine'
    BY <1>2, <1>5, <1>6, InvIs, TasksMove
  <1>12. LockFine'
    BY <1>1, <1>2, <1>5, InvIs, LockStays
  <1>13. task'[p].job \notin Writing
    BY <1>5 DEF Turned, Writing
  <1>14. Holding'
    BY <1>1, <1>5, <1>13, InvIs, HoldingMoves
  <1>15. Quiet'
    BY <1>1, <1>2, <1>5, InvIs, QuietMoves
  <1>16. Space'
    BY <1>1, <1>2, <1>5, <1>13, InvIs, RoomIdle, SpaceStays
  <1> QED  BY <1>8, <1>9, <1>10, <1>11, <1>12, <1>14, <1>15, <1>16 DEF IInv

\* DiskCache.get reads a file, or misses one that is gone.
LEMMA ReadKeeps ==
  ASSUME IInv, NEW p \in Ids, Read(p)
  PROVE  IInv'
  <1>1. /\ task[p].job = "read"
        /\ UNCHANGED <<spec, status, parts, disk, dirs, lock, fs, troubles, aged, mixed>>
        /\ refused \subseteq refused'
    BY DEF Read, Refuse
  <1>2. lock # {p} /\ task[p].job # "write"
    BY <1>1, NotHolder DEF Writing
  <1>3. task[p].pc \in {"wait", "failed"} /\ p \in Parts(p[1])
    BY <1>1, InvIs, TaskAt DEF TasksFine, TaskFine, Pcs
  <1>4. aged = FALSE /\ troubles = 0 => task[p].err # "cache"
    BY CalmBefore DEF Calm
  <1>5. CASE GoTo(p, "backend") /\ UNCHANGED <<memory, torn>>
    <2>1. Moves(p) /\ Turned(p, "backend", "none", task[p].content, task[p].err)
      BY <1>5, InvIs, GoToIs DEF Pcs
    <2>2. TaskFine(p)'
      BY <1>1, <1>3, <2>1 DEF TaskFine, Turned, Writing, Parts
    <2>3. aged = FALSE /\ troubles = 0 => Calm(p)'
      BY <1>4, <2>1 DEF Calm, Turned
    <2>4. task'[p].job \notin Writing
      BY <2>1 DEF Turned, Writing
    <2>5. Grows
      BY <1>1, <1>5 DEF Grows
    <2>6. MemoryFine'
      BY <1>5, <2>5, InvIs, MemoryStays
    <2> QED  BY <1>1, <1>2, <1>5, <2>1, <2>2, <2>3, <2>4, <2>5, <2>6, InvIs, OffDisk
  <1>6. ASSUME NEW k, NEW c, k = Spec_(p).key, c = The(disk, k).content, Has(disk, k),
               Served(p, c), memory' = Kept(k, c),
               torn' = IF \E q \in Ids : task[q].job = "write" /\ task[q].key = k
                         THEN torn \cup {k} ELSE torn
        PROVE  IInv'
    <2>1. k \in Files /\ c \in Content /\ k # NoKey
      <3>1. disk \in Seq(Entry)
        BY InvIs DEF DiskFine, Tier
      <3>2. The(disk, k) \in Entry /\ The(disk, k).key = k
        BY <1>6, <3>1, TheIs
      <3> QED  BY <1>6, <3>2, EntryHasLength, AssumedBounds
    <2>2. Grows /\ torn' \subseteq Files
      BY <1>1, <1>6, <2>1, InvIs DEF Grows
    <2>3. c = Whole(k) \/ k \in torn'
      <3>1. disk \in Seq(Entry)
        BY InvIs DEF DiskFine, Tier
      <3>2. The(disk, k) \in Items(disk) /\ The(disk, k).key = k
        BY <1>6, <3>1, TheIs
      <3>3. Sound(The(disk, k), torn) \/ BeingWritten(k)
        BY <3>2, InvIs DEF DiskFine
      <3> QED  BY <1>6, <3>2, <3>3 DEF Sound, BeingWritten
    <2>4. MemoryFine'
      BY <1>6, <2>1, <2>2, <2>3, InvIs, MemoryKept
    <2>5. Moves(p) /\ Turned(p, "served", "none", c, task[p].err)
      BY <1>6, <2>1, InvIs, ServedIs
    <2>6. Right(p, task[p].content)'
      <3>1. task'[p].content = c /\ spec' = spec
        BY <1>1, <2>5 DEF Turned
      <3> QED  BY <1>6, <2>1, <2>3, <3>1 DEF Right, Spec_
    <2>7. TaskFine(p)'
      BY <1>1, <1>3, <2>1, <2>5, <2>6 DEF TaskFine, Turned, Writing, Parts
    <2>8. aged = FALSE /\ troubles = 0 => Calm(p)'
      BY <1>4, <2>5 DEF Calm, Turned
    <2>9. task'[p].job \notin Writing
      BY <2>5 DEF Turned, Writing
    <2> QED  BY <1>1, <1>2, <2>2, <2>4, <2>5, <2>7, <2>8, <2>9, InvIs, OffDisk
  <1> QED  BY <1>5, <1>6 DEF Read, ReadMissing, MissOnError

\* A content that goes to the disk, under its digest.
LEMMA LockingIs ==
  ASSUME task \in [Ids -> Task], NEW p \in Ids, NEW c \in Content, NEW f \in Files,
         task' = [task EXCEPT ![p].pc = "lock", ![p].content = c, ![p].key = f]
  PROVE  /\ Moves(p)
         /\ task'[p].pc = "lock" /\ task'[p].job = task[p].job /\ task'[p].content = c
         /\ task'[p].key = f /\ task'[p].err = task[p].err
  <1>1. "lock" \in Pcs /\ f \in Keys /\ c \in Contents
    BY DEF Pcs, Keys, Contents
  <1>2. /\ task'[p].pc = "lock" /\ task'[p].job = task[p].job /\ task'[p].content = c
        /\ task'[p].key = f /\ task'[p].err = task[p].err
    BY TaskIs, <1>1
  <1>3. task' \in [Ids -> Task] /\ \A q \in Ids : q # p => task'[q] = task[q]
    BY TaskIs, <1>1
  <1>4. Blames(p)
    BY <1>2 DEF Blames
  <1> QED  BY <1>2, <1>3, <1>4 DEF Moves

\* The backend of a fetch answers or fails.
LEMMA BackendKeeps ==
  ASSUME IInv, NEW p \in Ids, Backend(p)
  PROVE  IInv'
  <1>1. /\ task[p].pc = "backend" /\ fs' = FsFor(p)
        /\ UNCHANGED <<spec, status, parts, disk, dirs, lock, troubles, aged, torn, refused>>
    BY DEF Backend
  <1>2. task[p].job = "none" /\ task[p].job # "write" /\ p \in Parts(p[1])
    BY <1>1, InvIs DEF TasksFine, TaskFine
  <1>3. lock # {p}
    BY <1>1, NotHolder
  <1>4. Spec_(p) \in Attachment /\ Spec_(p).file \in Files /\ p[1] \in Msgs
    BY <1>2, InvIs, PartIs
  <1>5. fs' \in Tenants \cup {NoTenant}
    BY <1>1, <1>4, InvIs, AttachmentsAssumption DEF FsFor, AttachmentsAssumption
  <1>6. aged = FALSE /\ troubles = 0 => task[p].err # "cache"
    BY CalmBefore DEF Calm
  <1>7. CASE Raised(p, "backend") /\ UNCHANGED <<memory, mixed>>
    <2>1. Moves(p) /\ Turned(p, "failed", "none", task[p].content, "backend")
      BY <1>7, InvIs, RaisedIs DEF Errors
    <2>2. TaskFine(p)'
      BY <1>1, <1>2, <2>1 DEF TaskFine, Turned, Writing, Parts
    <2>3. Calm(p)'
      BY <2>1 DEF Calm, Turned
    <2>4. task'[p].job \notin Writing
      BY <2>1 DEF Turned, Writing
    <2>5. Grows
      BY <1>1, <1>7 DEF Grows
    <2>6. MemoryFine'
      BY <1>7, <2>5, InvIs, MemoryStays
    <2> QED  BY <1>1, <1>2, <1>3, <1>5, <1>7, <2>1, <2>2, <2>3, <2>4, <2>5, <2>6, InvIs, OffDisk
  <1>8. ASSUME NEW f \in IF Foreign(p) THEN Files ELSE {Spec_(p).file}, NEW c, c = Whole(f),
               mixed' = IF Foreign(p) THEN mixed \cup {p[1]} ELSE mixed,
               memory' = Kept(Digest(p, c), c),
               IF Small(c) \/ c.len > DiskMax
                 THEN Served(p, c)
                 ELSE task' = [task EXCEPT ![p].pc = "lock", ![p].content = c,
                                           ![p].key = Digest(p, c)]
        PROVE  IInv'
    <2>1. f \in Files /\ c \in Content /\ c.file = f
      BY <1>4, <1>8, AssumedBounds
    <2>2. Digest(p, c) = f
      BY <2>1 DEF Digest, OwnDigest
    <2>3. Grows /\ mixed' \subseteq Msgs
      BY <1>1, <1>4, <1>8, InvIs DEF Grows
    <2>4. MemoryFine'
      BY <1>8, <2>1, <2>2, <2>3, InvIs, MemoryKept
    <2>5. ASSUME task'[p].content = c
          PROVE  Right(p, task[p].content)'
      <3>1. CASE Foreign(p)
        <4>1. Spec_(p).kind = "mount" /\ p[1] \in mixed'
          BY <1>8, <3>1 DEF Foreign, UsesFs
        <4> QED  BY <1>1, <4>1 DEF Right, Spec_
      <3>2. CASE ~Foreign(p)
        <4>1. c = Whole(Spec_(p).file)
          BY <1>8, <3>2
        <4> QED  BY <1>1, <2>5, <4>1 DEF Right, Spec_
      <3> QED  BY <3>1, <3>2
    <2>6. CASE Served(p, c)
      <3>1. Moves(p) /\ Turned(p, "served", "none", c, task[p].err)
        BY <2>1, <2>6, InvIs, ServedIs
      <3>2. TaskFine(p)'
        BY <1>1, <1>2, <2>1, <2>5, <3>1 DEF TaskFine, Turned, Writing, Parts
      <3>3. aged = FALSE /\ troubles = 0 => Calm(p)'
        BY <1>6, <3>1 DEF Calm, Turned
      <3>4. task'[p].job \notin Writing
        BY <3>1 DEF Turned, Writing
      <3> QED  BY <1>1, <1>2, <1>3, <1>5, <2>3, <2>4, <3>1, <3>2, <3>3, <3>4, InvIs, OffDisk
    <2>7. CASE /\ ~(c.len > DiskMax)
               /\ task' = [task EXCEPT ![p].pc = "lock", ![p].content = c, ![p].key = f]
      <3>1. /\ Moves(p)
            /\ task'[p].pc = "lock" /\ task'[p].job = "none" /\ task'[p].content = c
            /\ task'[p].key = f /\ task'[p].err = task[p].err
        <4>1. task \in [Ids -> Task]
          BY InvIs
        <4>2. f \in Files /\ c \in Content
          BY <2>1
        <4>3. /\ Moves(p)
              /\ task'[p].pc = "lock" /\ task'[p].job = task[p].job /\ task'[p].content = c
              /\ task'[p].key = f /\ task'[p].err = task[p].err
          BY <2>7, <4>1, <4>2, LockingIs, Zenon
        <4> QED  BY <1>2, <4>3
      <3>2. TaskFine(p)'
        <4>1. c.len <= DiskMax
          BY <2>1, <2>7, AssumedBounds DEF Content
        <4> QED  BY <1>1, <1>2, <1>8, <2>1, <2>5, <3>1, <4>1 DEF TaskFine, Writing, Parts
      <3>3. aged = FALSE /\ troubles = 0 => Calm(p)'
        BY <1>6, <3>1 DEF Calm
      <3>4. task'[p].job \notin Writing
        BY <3>1 DEF Writing
      <3> QED  BY <1>1, <1>2, <1>3, <1>5, <2>3, <2>4, <3>1, <3>2, <3>3, <3>4, InvIs, OffDisk
    <2> QED  BY <1>8, <2>2, <2>6, <2>7
  <1> QED  BY <1>7, <1>8 DEF Backend

Planning(p, plan, room) ==
  task' = [task EXCEPT ![p].pc = "wait", ![p].job = "evict", ![p].plan = plan, ![p].room = room]

LEMMA PlanningIs ==
  ASSUME task \in [Ids -> Task], NEW p \in Ids, NEW plan \in Seq(Entry), NEW room \in Int,
         Planning(p, plan, room)
  PROVE  /\ Moves(p)
         /\ task'[p].pc = "wait" /\ task'[p].job = "evict" /\ task'[p].content = task[p].content
         /\ task'[p].key = task[p].key /\ task'[p].err = task[p].err
         /\ task'[p].plan = plan /\ task'[p].room = room
  <1>1. "wait" \in Pcs /\ "evict" \in Jobs /\ plan \in Plans /\ room \in Rooms
    BY DEF Pcs, Jobs, Plans, Rooms
  <1>2. /\ task'[p].pc = "wait" /\ task'[p].job = "evict" /\ task'[p].content = task[p].content
        /\ task'[p].key = task[p].key /\ task'[p].err = task[p].err
        /\ task'[p].plan = plan /\ task'[p].room = room
    BY TaskIs, <1>1 DEF Planning
  <1>3. task' \in [Ids -> Task] /\ \A q \in Ids : q # p => task'[q] = task[q]
    BY ZenonT(60), TaskIs, <1>1 DEF Planning
  <1>4. Blames(p)
    BY <1>2 DEF Blames
  <1> QED  BY <1>2, <1>3, <1>4 DEF Moves

\* What a fetch that writes carries.
LEMMA WriterIs ==
  ASSUME IInv, NEW p \in Ids, task[p].job \in Writing \/ task[p].pc = "lock"
  PROVE  /\ p \in Parts(p[1]) /\ task[p].pc \in {"wait", "failed", "lock"}
         /\ task[p].key \in Files /\ task[p].content = Whole(task[p].key)
         /\ task[p].content \in Content /\ task[p].content.len \in Nat
         /\ task[p].content.len <= DiskMax
         /\ task[p].pc # "failed" => Right(p, task[p].content)
         /\ task[p].plan \in Seq(Entry) /\ task[p].room \in Int
         /\ task[p].job = "evict" => task[p].plan # <<>>
  <1>1. task[p] \in Task /\ TaskFine(p)
    BY InvIs DEF TasksFine
  <1>2. task[p].pc \in Pcs /\ task[p].plan \in Seq(Entry) /\ task[p].room \in Int
    BY <1>1, TaskAt DEF Plans, Rooms
  <1>3. task[p].pc \in {"wait", "failed", "lock"}
    BY <1>1, <1>2 DEF TaskFine, Writing, Pcs
  <1>4. task[p].key \in Files /\ task[p].content = Whole(task[p].key)
        /\ task[p].content.len <= DiskMax
        /\ (task[p].pc # "failed" => Right(p, task[p].content))
    BY <1>1 DEF TaskFine
  <1>5. task[p].content \in Content
    BY <1>4, AssumedBounds
  <1> QED  BY <1>1, <1>2, <1>3, <1>4, <1>5 DEF TaskFine, Content

\* DiskCache._ensure_space plans whom to evict; its plan frees enough.
LEMMA EnsureSpaceKeeps ==
  ASSUME IInv, NEW p \in Ids, EnsureSpace(p)
  PROVE  IInv'
  <1>1. /\ task[p].pc = "lock" /\ lock = {}
        /\ UNCHANGED <<spec, status, parts, memory, disk, fs, troubles, aged, torn, mixed>>
        /\ refused \subseteq refused'
    BY DEF EnsureSpace, Refuse
  <1>2. task[p].job = "none" /\ p \in Parts(p[1])
    BY <1>1, InvIs DEF TasksFine, TaskFine
  <1>3. /\ task[p].key \in Files /\ task[p].content = Whole(task[p].key)
        /\ task[p].content \in Content /\ task[p].content.len \in Nat
        /\ task[p].content.len <= DiskMax /\ Right(p, task[p].content)
    BY <1>1, WriterIs
  <1>4. Grows /\ lock # {p}
    BY <1>1 DEF Grows
  <1>5. MemoryFine' /\ BuiltMailIsRight'
    BY <1>1, <1>4, InvIs, MemoryStays, BuiltStays
  <1>6. disk \in Tier /\ disk \in Seq(Entry) /\ OnePerKey(disk) /\ Total(disk) \in Int
    <2>1. disk \in Tier
      BY InvIs DEF DiskFine
    <2> QED  BY <2>1, TotalType DEF Tier
  <1>7. ASSUME NEW why \in {"cache", "disk"}, why = "cache" => Removing,
               Raised(p, why), UNCHANGED <<dirs, lock>>
        PROVE  IInv'
    <2>1. Moves(p) /\ Turned(p, "failed", "none", task[p].content, why)
      BY <1>3, <1>7, InvIs, RaisedIs DEF Errors
    <2>2. TaskFine(p)'
      BY <1>1, <1>2, <2>1 DEF TaskFine, Turned, Writing, Parts
    <2>3. aged = FALSE /\ troubles = 0 => Calm(p)'
      <3>1. ASSUME aged = FALSE, troubles = 0, why = "cache"
            PROVE  FALSE
        <4>1. PICK q \in Ids : task[q].job \in {"unlink", "rmdir", "evict"}
          BY <1>7, <3>1 DEF Removing
        <4>2. task[q].job = "evict"
          BY <3>1, <4>1, CalmBefore DEF Calm
        <4>3. lock = {q}
          BY <3>1, <4>2, InvIs DEF Holding, Writing
        <4> QED  BY <1>1, <4>3
      <3> QED  BY <2>1, <3>1 DEF Calm, Turned
    <2>4. task'[p].job \notin Writing /\ task[p].job # "write"
      BY <1>2, <2>1 DEF Turned, Writing
    <2> QED  BY <1>1, <1>4, <1>5, <1>7, <2>1, <2>2, <2>3, <2>4, InvIs, OffDisk
  <1>8. ASSUME NEW job \in {"evict", "open"}, Moves(p), lock' = {p}, dirs \subseteq dirs',
               task'[p].pc = "wait", task'[p].job = job, task'[p].content = task[p].content,
               task'[p].key = task[p].key, task'[p].err = task[p].err,
               job = "open" => Subdir[task[p].key] \in dirs' /\ Total(disk) + task[p].content.len <= DiskMax,
               job = "evict" => task'[p].plan = disk /\ task'[p].room = Total(disk) /\ disk # <<>>
        PROVE  IInv'
    <2>1. Types'
      BY <1>1, <1>8 DEF IInv, Types, Moves
    <2>2. DiskFine'
      BY <1>1, <1>2, <1>4, <1>8, InvIs, KeepsWriting, DiskStays
    <2>3. TaskFine(p)'
      <3>1. Right(p, task[p].content)'
        BY <1>3, <1>4, <1>8, RightCarried
      <3> QED  BY <1>1, <1>2, <1>3, <1>8, <3>1 DEF TaskFine, Parts
    <2>4. TasksFine'
      BY <1>4, <1>8, <2>3, InvIs, TasksMove
    <2>5. task'[p].job \in Writing
      BY <1>8 DEF Writing
    <2>6. LockFine'
      BY <1>8, <2>5, LockTaken
    <2>7. Holding'
      BY <1>1, <1>8, InvIs, HoldingMoves
    <2>8. Quiet'
      <3>1. aged = FALSE /\ troubles = 0 => Calm(p)'
        BY <1>8, CalmBefore DEF Calm
      <3> QED  BY <1>1, <1>8, <3>1, InvIs, QuietStays
    <2>9. Room(p)'
      <3>1. CASE job = "open"
        <4>1. Total(disk') + task'[p].content.len <= DiskMax
          BY <1>1, <1>8, <3>1
        <4> QED  BY <1>8, <3>1, <4>1 DEF Room
      <3>2. CASE job = "evict"
        <4>1. OnePerKey(task'[p].plan) /\ Total(disk') <= task'[p].room
          BY <1>1, <1>6, <1>8, <3>2
        <4>2. \A e \in Items(disk') : Planned(e, task'[p].plan)
          BY <1>1, <1>8, <3>2 DEF Planned, Items
        <4> QED  BY <1>8, <3>2, <4>1, <4>2 DEF Room
      <3> QED  BY <3>1, <3>2
    <2>10. Space'
      BY <1>1, <1>4, <1>8, <2>9, InvIs, SpaceStays
    <2> QED  BY <1>5, <2>1, <2>2, <2>4, <2>6, <2>7, <2>8, <2>10 DEF IInv
  <1>9. CASE /\ Total(disk) + Needed(p) <= DiskMax
             /\ MakeDir(p) /\ Submit(p, "open") /\ lock' = {p}
    <2>1. Moves(p) /\ Turned(p, "wait", "open", task[p].content, task[p].err)
      BY <1>9, InvIs, SubmitIs DEF Jobs
    <2>2. dirs \subseteq dirs' /\ Subdir[task[p].key] \in dirs'
          /\ Total(disk) + task[p].content.len <= DiskMax
      BY <1>9 DEF MakeDir, Needed
    <2> QED  BY <1>8, <1>9, <2>1, <2>2 DEF Turned
  <1>10. CASE /\ disk # <<>> /\ lock' = {p} /\ UNCHANGED dirs
              /\ task' = [task EXCEPT ![p].pc = "wait", ![p].job = "evict",
                                      ![p].plan = disk, ![p].room = Total(disk)]
    <2>1. PICK plan \in Seq(Entry), room \in Int : plan = disk /\ room = Total(disk)
      BY <1>6
    <2>2. Planning(p, plan, room)
      BY <1>10, <2>1, Zenon DEF Planning
    <2>3. task \in [Ids -> Task]
      BY InvIs
    <2>4. /\ Moves(p)
          /\ task'[p].pc = "wait" /\ task'[p].job = "evict" /\ task'[p].content = task[p].content
          /\ task'[p].key = task[p].key /\ task'[p].err = task[p].err
          /\ task'[p].plan = plan /\ task'[p].room = room
      BY <2>2, <2>3, PlanningIs
    <2>5. dirs \subseteq dirs' /\ lock' = {p} /\ disk # <<>>
      BY <1>10
    <2> QED  BY <1>8, <2>1, <2>4, <2>5
  <1> QED  BY <1>7, <1>9, <1>10 DEF EnsureSpace

\* One unlink of a plan that covers the files on disk: the plan covers what is left.
LEMMA EvictFrees ==
  ASSUME NEW D \in Tier, NEW plan \in Seq(Entry), plan # <<>>, OnePerKey(plan), NEW room \in Int,
         Total(D) <= room, \A x \in Items(D) : Planned(x, plan)
  PROVE  /\ Total(Without(D, Head(plan).key)) <=
              room - (IF Has(D, Head(plan).key) THEN Head(plan).content.len ELSE 0)
         /\ OnePerKey(Tail(plan))
         /\ \A x \in Items(Without(D, Head(plan).key)) : Planned(x, Tail(plan))
         /\ Len(plan) = 1 => Total(Without(D, Head(plan).key)) = 0
  <1> DEFINE L == Len(plan)
             e == Head(plan)
             k == e.key
             W == Without(D, k)
  <1>1. /\ L \in Nat /\ L >= 1 /\ DOMAIN plan = 1..L /\ 1 \in 1..L /\ e = plan[1] /\ e \in Entry
        /\ Tail(plan) \in Seq(Entry) /\ DOMAIN Tail(plan) = 1..(L - 1)
        /\ \A j \in 1..(L - 1) : Tail(plan)[j] = plan[j + 1]
    OBVIOUS
  <1>2. D \in Seq(Entry) /\ Total(D) \in Int
    BY TotalType DEF Tier
  <1>3. /\ W \in Tier /\ ~Has(W, k) /\ Among(W, Items(D))
        /\ Total(W) = Total(D) - (IF Has(D, k) THEN The(D, k).content.len ELSE 0)
    BY WithoutIs
  <1>4. W \in Seq(Entry)
    BY <1>3 DEF Tier
  <1> HIDE DEF e, W
  <1>5. ASSUME Has(D, k)
        PROVE  The(D, k).content = e.content /\ e.content.len \in Nat
    <2>1. The(D, k) \in Items(D) /\ The(D, k).key = k
      BY <1>2, <1>5, TheIs
    <2>2. PICK j \in DOMAIN plan : The(D, k).key = plan[j].key /\ The(D, k).content = plan[j].content
      BY <2>1 DEF Planned
    <2>3. j = 1
      BY <1>1, <2>1, <2>2 DEF OnePerKey
    <2> QED  BY <1>1, <2>2, <2>3, EntryHasLength
  <1>6. Total(W) <= room - (IF Has(D, k) THEN e.content.len ELSE 0)
    <2>1. CASE Has(D, k)
      <3>1. Total(W) = Total(D) - e.content.len /\ e.content.len \in Nat
        BY <1>3, <1>5, <2>1
      <3> QED  BY <1>2, <2>1, <3>1
    <2>2. CASE ~Has(D, k)
      BY <1>2, <1>3, <2>2
    <2> QED  BY <2>1, <2>2
  <1>7. OnePerKey(Tail(plan))
    <2>1. ASSUME NEW i \in 1..(L - 1), NEW j \in 1..(L - 1), Tail(plan)[i].key = Tail(plan)[j].key
          PROVE  i = j
      <3>1. i + 1 \in 1..L /\ j + 1 \in 1..L /\ plan[i + 1].key = plan[j + 1].key
        BY <1>1, <2>1
      <3>2. i + 1 = j + 1
        BY <1>1, <3>1 DEF OnePerKey
      <3> QED  BY <3>2
    <2> QED  BY <1>1, <2>1 DEF OnePerKey
  <1>8. ASSUME NEW x \in Items(W)
        PROVE  \E j \in 1..(L - 1) : x.key = Tail(plan)[j].key /\ x.content = Tail(plan)[j].content
    <2>1. x \in Items(D) /\ x.key # k
      BY <1>3 DEF Among, Items, Has
    <2>2. PICK j \in 1..L : x.key = plan[j].key /\ x.content = plan[j].content
      BY <1>1, <2>1 DEF Planned
    <2>3. j # 1
      BY <1>1, <2>1, <2>2
    <2>4. j - 1 \in 1..(L - 1) /\ j - 1 + 1 = j
      BY <1>1, <2>3
    <2> QED  BY <1>1, <2>2, <2>4
  <1>9. \A x \in Items(W) : Planned(x, Tail(plan))
    BY <1>1, <1>8 DEF Planned
  <1>10. ASSUME L = 1
         PROVE  Total(W) = 0
    <2>1. Items(W) = {}
      BY <1>8, <1>10
    <2>2. Len(W) = 0
      <3>1. DOMAIN W = 1..Len(W) /\ Len(W) \in Nat
        BY <1>4
      <3>2. DOMAIN W = {}
        BY <2>1 DEF Items
      <3> QED  BY <3>1, <3>2
    <2>3. W = <<>>
      BY <1>4, <2>2
    <2> QED  BY <2>3, TotalEmpty
  <1> QED  BY <1>6, <1>7, <1>9, <1>10 DEF e, W

NextUnlink(p, plan, room) == task' = [task EXCEPT ![p].plan = plan, ![p].room = room]
StartWrite(p, plan, room) == task' = [task EXCEPT ![p].job = "open", ![p].plan = plan, ![p].room = room]

LEMMA NextUnlinkIs ==
  ASSUME task \in [Ids -> Task], NEW p \in Ids, NEW plan \in Seq(Entry), NEW room \in Int,
         NextUnlink(p, plan, room)
  PROVE  /\ Moves(p)
         /\ task'[p].pc = task[p].pc /\ task'[p].content = task[p].content
         /\ task'[p].key = task[p].key /\ task'[p].err = task[p].err
         /\ task'[p].plan = plan /\ task'[p].room = room /\ task'[p].job = task[p].job
  <1>1. plan \in Plans /\ room \in Rooms
    BY DEF Jobs, Plans, Rooms
  <1>2. /\ task'[p].pc = task[p].pc /\ task'[p].content = task[p].content
        /\ task'[p].key = task[p].key /\ task'[p].err = task[p].err
        /\ task'[p].plan = plan /\ task'[p].room = room /\ task'[p].job = task[p].job
    BY <1>1, TaskIs DEF NextUnlink
  <1>3. task' \in [Ids -> Task] /\ \A q \in Ids : q # p => task'[q] = task[q]
    BY <1>1, TaskIs DEF NextUnlink
  <1>4. Blames(p)
    BY <1>2 DEF Blames
  <1> QED  BY <1>2, <1>3, <1>4 DEF Moves

LEMMA StartWriteIs ==
  ASSUME task \in [Ids -> Task], NEW p \in Ids, NEW plan \in Seq(Entry), NEW room \in Int,
         StartWrite(p, plan, room)
  PROVE  /\ Moves(p)
         /\ task'[p].pc = task[p].pc /\ task'[p].content = task[p].content
         /\ task'[p].key = task[p].key /\ task'[p].err = task[p].err
         /\ task'[p].plan = plan /\ task'[p].room = room /\ task'[p].job = "open"
  <1>1. "open" \in Jobs /\ plan \in Plans /\ room \in Rooms
    BY DEF Jobs, Plans, Rooms
  <1>2. /\ task'[p].pc = task[p].pc /\ task'[p].content = task[p].content
        /\ task'[p].key = task[p].key /\ task'[p].err = task[p].err
        /\ task'[p].plan = plan /\ task'[p].room = room /\ task'[p].job = "open"
    BY <1>1, TaskIs DEF StartWrite
  <1>3. task' \in [Ids -> Task] /\ \A q \in Ids : q # p => task'[q] = task[q]
    BY <1>1, TaskIs DEF StartWrite
  <1>4. Blames(p)
    BY <1>2 DEF Blames
  <1> QED  BY <1>2, <1>3, <1>4 DEF Moves

\* A plan of several entries is not used up by its first one.
LEMMA TailLeft ==
  ASSUME NEW plan \in Seq(Entry), plan # <<>>, Len(plan) # 1
  PROVE  Tail(plan) # <<>>
  <1>1. PICK n \in Nat : n = Len(plan)
    OBVIOUS
  <1>2. n >= 2
    BY <1>1
  <1>3. 1 \in DOMAIN Tail(plan)
    BY <1>1, <1>2
  <1>4. DOMAIN <<>> = {}
    OBVIOUS
  <1> QED  BY <1>3, <1>4, Zenon

\* DiskCache._ensure_space unlinks the next key of its plan.
LEMMA EvictKeeps ==
  ASSUME IInv, NEW p \in Ids, Evict(p)
  PROVE  IInv'
  <1> DEFINE e == Head(task[p].plan)
             less == task[p].room - (IF Has(disk, e.key) THEN e.content.len ELSE 0)
  <1>1. /\ task[p].job = "evict" /\ (disk' = Without(disk, e.key) \/ disk' = disk)
        /\ refused \subseteq refused'
        /\ UNCHANGED <<spec, status, parts, memory, lock, fs, troubles, aged, torn, mixed>>
    BY DEF Evict, Refuse
  <1>2. Grows /\ task[p].job \in Writing
    BY <1>1 DEF Grows, Writing
  <1>3. /\ p \in Parts(p[1]) /\ task[p].pc \in {"wait", "failed"}
        /\ task[p].key \in Files /\ task[p].content = Whole(task[p].key)
        /\ task[p].content.len \in Nat /\ task[p].content.len <= DiskMax
        /\ task[p].pc # "failed" => Right(p, task[p].content)
        /\ task[p].plan \in Seq(Entry) /\ task[p].room \in Int /\ task[p].plan # <<>>
    <2>1. task[p].pc # "lock"
      BY <1>1, InvIs DEF TasksFine, TaskFine
    <2> QED  BY <1>1, <1>2, <2>1, WriterIs
  <1>4. /\ less \in Int /\ Tail(task[p].plan) \in Seq(Entry) /\ Len(task[p].plan) \in Nat
    <2>1. e \in Entry /\ Tail(task[p].plan) \in Seq(Entry) /\ Len(task[p].plan) \in Nat
      BY <1>3
    <2> QED  BY <1>3, <2>1, EntryHasLength
  <1>5. /\ troubles = 0 => lock = {p} /\ task[p].pc = "wait"
        /\ Fit => Room(p)
    BY <1>2, InvIs DEF Holding, Awaited, Space
  <1>15. PICK freed \in Int : /\ GoOn(p, freed)
                              /\ Fit' => disk' = Without(disk, e.key) /\ freed = less
    <2>1. CASE disk' = Without(disk, e.key) /\ GoOn(p, less)
      BY <1>4, <2>1
    <2>2. CASE Refuse(p, "evict") /\ GoOn(p, task[p].room)
      <3>1. ~Fit'
        BY <2>2 DEF Refuse, Fit
      <3> QED  BY <1>3, <2>2, <3>1
    <2> QED  BY <2>1, <2>2, Zenon DEF Evict
  <1> DEFINE enough == freed + Needed(p) <= DiskMax \/ Len(task[p].plan) = 1
  <1>6. MemoryFine' /\ BuiltMailIsRight'
    BY <1>1, <1>2, InvIs, MemoryStays, BuiltStays
  <1>7. DiskMax \in Nat /\ disk \in Tier
    BY InvIs, AssumedBounds DEF DiskFine
  <1>8. /\ Total(disk') \in Int /\ Total(disk) \in Int
        /\ \A b \in Int : Total(disk) <= b => Total(disk') <= b
        /\ \A x \in Items(disk') : x \in Items(disk)
    BY <1>1, InvIs, LessOnDisk
  <1>9. ASSUME Fit'
        PROVE  /\ Total(disk') <= freed
               /\ OnePerKey(Tail(task[p].plan))
               /\ \A x \in Items(disk') : Planned(x, Tail(task[p].plan))
               /\ Len(task[p].plan) = 1 => Total(disk') = 0
    <2>1. Fit
      BY <1>1, <1>2, <1>9, FitBefore
    <2>2. /\ OnePerKey(task[p].plan) /\ Total(disk) <= task[p].room
          /\ \A x \in Items(disk) : Planned(x, task[p].plan)
      BY <1>1, <1>5, <2>1 DEF Room
    <2>3. disk' = Without(disk, e.key) /\ freed = less
      BY <1>9, <1>15
    <2>4. /\ Total(Without(disk, e.key)) <= less
          /\ OnePerKey(Tail(task[p].plan))
          /\ \A x \in Items(Without(disk, e.key)) : Planned(x, Tail(task[p].plan))
          /\ Len(task[p].plan) = 1 => Total(Without(disk, e.key)) = 0
      BY <1>3, <1>7, <2>2, EvictFrees
    <2> QED  BY <2>3, <2>4
  <1> HIDE DEF e, less
  <1>10. ASSUME Moves(p), dirs \subseteq dirs', task'[p].content = task[p].content,
                task'[p].key = task[p].key, task'[p].err = task[p].err, task'[p].pc = task[p].pc,
                task'[p].job \in {"none", "evict", "open"},
                task'[p].job = "none" => task[p].pc = "failed",
                task'[p].job \in Writing => task[p].pc = "wait",
                task'[p].job = "evict" => task'[p].plan = Tail(task[p].plan) /\ task'[p].room = freed
                                          /\ ~enough,
                task'[p].job = "open" => Subdir[task[p].key] \in dirs' /\ enough
         PROVE  IInv'
    <2>1. Types'
      BY <1>1, <1>10 DEF IInv, Types, Moves
    <2>2. DiskFine'
      BY <1>1, <1>2, <1>10, InvIs, KeepsWriting, DiskLoses
    <2>3. TaskFine(p)'
      <3>1. task'[p].pc # "failed" => Right(p, task[p].content)'
        BY <1>2, <1>3, <1>10, RightCarried
      <3>2. task'[p].job = "evict" => task'[p].plan # <<>>
        <4>1. ASSUME task'[p].job = "evict"
              PROVE  Len(task[p].plan) # 1
          BY <1>10, <4>1
        <4>2. Len(task[p].plan) # 1 => Tail(task[p].plan) # <<>>
          BY <1>3, TailLeft
        <4> QED  BY <1>10, <4>1, <4>2
      <3>3. task'[p].pc \in {"wait", "failed"} /\ spec' = spec
        BY <1>1, <1>3, <1>10
      <3> QED  BY <1>3, <1>10, <3>1, <3>2, <3>3 DEF TaskFine, Parts
    <2>4. TasksFine'
      BY <1>2, <1>10, <2>3, InvIs, TasksMove
    <2>5. LockFine'
      <3>1. lock = {p} => task[p].pc = "wait"
        BY NotHolder, <1>3, InvIs DEF LockFine, Awaited
      <3>2. lock = {p} => task'[p].pc = "wait" /\ task'[p].job \in Writing
        BY <1>10, <3>1 DEF Writing
      <3> QED  BY <1>1, <1>10, <3>2, InvIs, LockStays
    <2>6. Holding'
      BY <1>1, <1>5, <1>10, InvIs, HoldingMoves
    <2>7. Quiet'
      <3>1. aged = FALSE /\ troubles = 0 => Calm(p)'
        BY <1>3, <1>10, CalmBefore DEF Calm
      <3> QED  BY <1>1, <1>8, <1>10, <3>1, InvIs, QuietMoves
    <2>8. ASSUME Fit'
          PROVE  Total(disk') <= DiskMax /\ Room(p)'
      <3>1. Total(disk) <= DiskMax
        BY <1>1, <1>2, <2>8, InvIs, FitBefore DEF Space
      <3>2. Total(disk') <= DiskMax
        BY <1>7, <1>8, <3>1
      <3>3. CASE task'[p].job = "open"
        <4>1. CASE freed + task[p].content.len <= DiskMax
          <5>1. Total(disk') + task[p].content.len <= DiskMax
            BY <1>3, <1>4, <1>7, <1>8, <1>9, <2>8, <4>1
          <5>2. Total(disk') + task'[p].content.len <= DiskMax
            BY <1>10, <5>1
          <5> QED  BY <3>2, <3>3, <5>2 DEF Room
        <4>2. CASE Len(task[p].plan) = 1
          <5>1. Total(disk') + task[p].content.len <= DiskMax
            BY <1>3, <1>7, <1>9, <2>8, <4>2
          <5>2. Total(disk') + task'[p].content.len <= DiskMax
            BY <1>10, <5>1
          <5> QED  BY <3>2, <3>3, <5>2 DEF Room
        <4> QED  BY <1>10, <3>3, <4>1, <4>2 DEF Needed
      <3>4. CASE task'[p].job = "evict"
        <4>1. /\ OnePerKey(task'[p].plan) /\ Total(disk') <= task'[p].room
              /\ \A x \in Items(disk') : Planned(x, task'[p].plan)
          BY <1>9, <1>10, <2>8, <3>4
        <4> QED  BY <3>2, <3>4, <4>1 DEF Room
      <3>5. CASE task'[p].job = "none"
        <4>1. task'[p].job \notin Writing
          BY <3>5 DEF Writing
        <4> QED  BY <3>2, <4>1, RoomIdle
      <3> QED  BY <1>10, <3>2, <3>3, <3>4, <3>5
    <2>9. Space'
      BY <1>1, <1>2, <1>10, <2>8, InvIs, SpaceAlone
    <2> QED  BY <1>6, <2>1, <2>2, <2>4, <2>5, <2>6, <2>7, <2>9 DEF IInv
  <1>11. CASE ~Awaited(p) /\ GoTo(p, task[p].pc) /\ UNCHANGED dirs
    <2>1. task[p].pc = "failed" /\ GoTo(p, "failed")
      BY <1>3, <1>11 DEF Awaited
    <2>2. Moves(p) /\ Turned(p, "failed", "none", task[p].content, task[p].err)
      BY <2>1, InvIs, GoToIs DEF Pcs
    <2> QED  BY <1>10, <1>11, <2>1, <2>2 DEF Turned, Writing
  <1>12. CASE /\ Awaited(p) /\ enough /\ MakeDir(p)
              /\ task' = [task EXCEPT ![p].job = "open", ![p].plan = <<>>, ![p].room = 0]
    <2>1. PICK plan \in Seq(Entry), room \in Int : plan = <<>> /\ room = 0
      <3>1. <<>> \in Seq(Entry) /\ 0 \in Int
        OBVIOUS
      <3> QED  BY <3>1, Zenon
    <2>2. StartWrite(p, plan, room)
      BY <1>12, <2>1, Zenon DEF StartWrite
    <2>3. task \in [Ids -> Task]
      BY InvIs
    <2>4. /\ Moves(p)
          /\ task'[p].pc = task[p].pc /\ task'[p].content = task[p].content
          /\ task'[p].key = task[p].key /\ task'[p].err = task[p].err
          /\ task'[p].job = "open"
      BY <2>2, <2>3, StartWriteIs
    <2>5. dirs \subseteq dirs' /\ Subdir[task[p].key] \in dirs' /\ task[p].pc = "wait" /\ enough
      BY <1>12 DEF MakeDir, Awaited
    <2> HIDE DEF enough
    <2> QED  BY <1>10, <2>4, <2>5
  <1>13. CASE /\ Awaited(p) /\ ~enough /\ UNCHANGED dirs
              /\ NextUnlink(p, Tail(task[p].plan), freed)
    <2>1. PICK plan \in Seq(Entry), room \in Int : plan = Tail(task[p].plan) /\ room = freed
      BY <1>4, <1>15
    <2>2. NextUnlink(p, plan, room)
      BY <1>13, <2>1
    <2>3. /\ Moves(p)
          /\ task'[p].pc = task[p].pc /\ task'[p].content = task[p].content
          /\ task'[p].key = task[p].key /\ task'[p].err = task[p].err
          /\ task'[p].job = "evict" /\ task'[p].plan = plan /\ task'[p].room = room
      <3>1. task \in [Ids -> Task]
        BY InvIs
      <3> QED  BY <1>1, <2>2, <3>1, NextUnlinkIs
    <2>4. dirs \subseteq dirs' /\ task[p].pc = "wait" /\ ~enough
      BY <1>13 DEF Awaited
    <2> HIDE DEF enough
    <2> QED  BY <1>10, <2>1, <2>3, <2>4
  <1>14. \/ ~Awaited(p) /\ GoTo(p, task[p].pc) /\ UNCHANGED dirs
         \/ /\ Awaited(p) /\ enough /\ MakeDir(p)
            /\ task' = [task EXCEPT ![p].job = "open", ![p].plan = <<>>, ![p].room = 0]
         \/ /\ Awaited(p) /\ ~enough /\ UNCHANGED dirs
            /\ NextUnlink(p, Tail(task[p].plan), freed)
    BY <1>15, Zenon DEF GoOn, NextUnlink
  <1> QED  BY <1>11, <1>12, <1>13, <1>14

Opened(p) == task' = [task EXCEPT ![p].job = "write"]

LEMMA OpenedIs ==
  ASSUME task \in [Ids -> Task], NEW p \in Ids, Opened(p)
  PROVE  Moves(p) /\ Turned(p, task[p].pc, "write", task[p].content, task[p].err)
  <1>1. "write" \in Jobs
    BY DEF Jobs
  <1>2. Turned(p, task[p].pc, "write", task[p].content, task[p].err)
    BY <1>1, TaskIs DEF Opened, Turned
  <1>3. task' \in [Ids -> Task] /\ \A q \in Ids : q # p => task'[q] = task[q]
    BY <1>1, TaskIs DEF Opened
  <1>4. Blames(p)
    BY <1>2 DEF Blames, Turned
  <1> QED  BY <1>2, <1>3, <1>4 DEF Moves

LEMMA EmptyContent ==
  ASSUME NEW c \in Content
  PROVE  [c EXCEPT !.len = 0] \in Content /\ [c EXCEPT !.len = 0].len = 0
  BY DEF Content

\* An operation of set that raises lets the lock go.
LEMMA SetFailsIs ==
  ASSUME IInv, NEW p \in Ids, task[p].job \in {"open", "write"}, NEW why \in {"cache", "disk"},
         SetFails(p, why)
  PROVE  /\ Moves(p) /\ task'[p].pc = "failed" /\ task'[p].job = "none"
         /\ task'[p].err \in {task[p].err, why}
         /\ (lock' = lock /\ lock # {p}) \/ (lock' = {} /\ lock = {p})
  <1>1. task[p].content \in Content /\ task[p].pc \in {"wait", "failed"}
    <2>1. task[p].pc # "lock"
      BY InvIs DEF TasksFine, TaskFine
    <2> QED  BY <2>1, WriterIs DEF Writing
  <1>2. CASE Awaited(p) /\ Raised(p, why) /\ lock' = Unlocked(p)
    <2>1. Moves(p) /\ Turned(p, "failed", "none", task[p].content, why)
      BY <1>1, <1>2, InvIs, RaisedIs DEF Errors
    <2> QED  BY <1>2, <2>1 DEF Turned, Unlocked
  <1>3. CASE ~Awaited(p) /\ GoTo(p, task[p].pc) /\ UNCHANGED lock
    <2>1. task[p].pc = "failed" /\ GoTo(p, "failed")
      BY <1>1, <1>3 DEF Awaited
    <2>2. Moves(p) /\ Turned(p, "failed", "none", task[p].content, task[p].err)
      BY <2>1, InvIs, GoToIs DEF Pcs
    <2>3. lock # {p}
      BY <2>1, NotHolder
    <2> QED  BY <1>3, <2>2, <2>3 DEF Turned
  <1> QED  BY <1>2, <1>3 DEF SetFails, AfterFailure

\* A file that cannot be opened stays as it is; one that cannot be written stays empty.
LEMMA FailureKeeps ==
  ASSUME IInv, NEW p \in Ids, task[p].job \in {"open", "write"}, NEW why \in {"cache", "disk"},
         SetFails(p, why), why = "cache" => Subdir[task[p].key] \notin dirs /\ task[p].job = "open",
         UNCHANGED <<spec, status, parts, memory, disk, dirs, fs, troubles, aged, mixed>>,
         refused \subseteq refused',
         torn' = IF task[p].job = "write" THEN torn \cup {task[p].key} ELSE torn
  PROVE  IInv'
  <1>1. /\ Moves(p) /\ task'[p].pc = "failed" /\ task'[p].job = "none"
        /\ task'[p].err \in {task[p].err, why}
        /\ (lock' = lock /\ lock # {p}) \/ (lock' = {} /\ lock = {p})
    BY SetFailsIs
  <1>2. p \in Parts(p[1]) /\ task[p].key \in Files
    BY WriterIs DEF Writing
  <1>3. Grows /\ torn' \subseteq Files
    BY <1>2, InvIs DEF Grows
  <1>4. Types'
    BY <1>1, <1>3 DEF IInv, Types, Moves
  <1>5. MemoryFine' /\ BuiltMailIsRight'
    BY <1>3, InvIs, MemoryStays, BuiltStays
  <1>6. DiskFine'
    <2>1. ASSUME NEW x \in Items(disk)
          PROVE  Sound(x, torn)' \/ BeingWritten(x.key)'
      <3>1. Sound(x, torn) \/ BeingWritten(x.key)
        BY InvIs DEF DiskFine
      <3>2. Sound(x, torn) => Sound(x, torn)'
        BY <1>3 DEF Grows, Sound
      <3>3. ASSUME NEW q \in Ids, task[q].job = "write", task[q].key = x.key
            PROVE  Sound(x, torn)' \/ BeingWritten(x.key)'
        <4>1. CASE q = p
          BY <3>3, <4>1 DEF Sound
        <4>2. CASE q # p
          BY <1>1, <3>3, <4>2 DEF Moves, BeingWritten
        <4> QED  BY <4>1, <4>2
      <3> QED  BY <3>1, <3>2, <3>3 DEF BeingWritten
    <2> QED  BY <2>1, InvIs DEF DiskFine
  <1>7. TaskFine(p)'
    BY <1>1, <1>2 DEF TaskFine, Writing, Parts
  <1>8. TasksFine'
    BY <1>1, <1>3, <1>7, InvIs, TasksMove
  <1>9. LockFine'
    BY <1>1, InvIs, LockStays DEF LockFine
  <1>10. task'[p].job \notin Writing
    BY <1>1 DEF Writing
  <1>11. Holding'
    BY <1>1, <1>10, InvIs, HoldingMoves
  <1>12. Quiet'
    <2>1. aged = FALSE /\ troubles = 0 => Calm(p)'
      BY <1>1, CalmBefore DEF Calm
    <2> QED  BY <1>1, <2>1, InvIs, QuietStays
  <1>13. Space'
    BY <1>1, <1>3, <1>10, InvIs, RoomIdle, SpaceStays
  <1> QED  BY <1>4, <1>5, <1>6, <1>8, <1>9, <1>11, <1>12, <1>13 DEF IInv

\* DiskCache.set opens its file: it is there, and empty.
LEMMA OpenKeeps ==
  ASSUME IInv, NEW p \in Ids, Open(p)
  PROVE  IInv'
  <1> DEFINE k == task[p].key
             fresh == New(k, [task[p].content EXCEPT !.len = 0])
  <1>1. /\ task[p].job = "open"
        /\ UNCHANGED <<spec, status, parts, memory, dirs, fs, troubles, aged, torn, mixed>>
        /\ refused \subseteq refused'
    BY DEF Open, Refuse
  <1>2. Grows /\ task[p].job \in Writing /\ task[p].job # "write"
    BY <1>1 DEF Grows, Writing
  <1>3. /\ p \in Parts(p[1]) /\ task[p].pc \in {"wait", "failed"}
        /\ task[p].key \in Files /\ task[p].content = Whole(task[p].key)
        /\ task[p].content \in Content /\ task[p].content.len \in Nat
        /\ task[p].content.len <= DiskMax
        /\ task[p].pc # "failed" => Right(p, task[p].content)
    <2>1. task[p].pc # "lock"
      BY <1>1, InvIs DEF TasksFine, TaskFine
    <2> QED  BY <1>1, <1>2, <2>1, WriterIs
  <1>4. /\ troubles = 0 => lock = {p} /\ task[p].pc = "wait"
        /\ Fit => Room(p)
    BY <1>2, InvIs DEF Holding, Awaited, Space
  <1>5. MemoryFine' /\ BuiltMailIsRight'
    BY <1>1, <1>2, InvIs, MemoryStays, BuiltStays
  <1>6. disk \in Tier /\ disk \in Seq(Entry) /\ Total(disk) \in Int /\ DiskMax \in Nat
    <2>1. disk \in Tier
      BY InvIs DEF DiskFine
    <2> QED  BY <2>1, TotalType, AssumedBounds DEF Tier
  <1>7. ASSUME Subdir[k] \in dirs, disk' = Append(Without(disk, k), fresh), Opened(p), lock' = lock
        PROVE  IInv'
    <2>1. Moves(p) /\ Turned(p, task[p].pc, "write", task[p].content, task[p].err)
      BY <1>7, InvIs, OpenedIs
    <2>2. PICK n \in Entry : n = fresh /\ n.key = k /\ n.content.len = 0 /\ n.old = FALSE
      <3>1. /\ [task[p].content EXCEPT !.len = 0] \in Content
            /\ [task[p].content EXCEPT !.len = 0].len = 0
        BY <1>3, EmptyContent
      <3>2. fresh \in Entry /\ fresh.key = k /\ fresh.old = FALSE
            /\ fresh.content = [task[p].content EXCEPT !.len = 0]
        BY ZenonT(60), <1>3, <3>1, NewIsEntry
      <3> HIDE DEF fresh
      <3> QED  BY <3>1, <3>2
    <2> HIDE DEF fresh
    <2>3. /\ Without(disk, k) \in Tier /\ ~Has(Without(disk, k), k)
          /\ Among(Without(disk, k), Items(disk))
          /\ Total(Without(disk, k)) =
               Total(disk) - (IF Has(disk, k) THEN The(disk, k).content.len ELSE 0)
      BY <1>6, WithoutIs
    <2>4. /\ disk' \in Tier /\ Among(disk', Items(Without(disk, k)) \cup {n})
          /\ Total(disk') = Total(Without(disk, k)) + 0
      BY <1>7, <2>2, <2>3, AppendIs
    <2>5. Total(disk') \in Int /\ Total(disk') <= Total(disk)
      <3>1. Has(disk, k) => The(disk, k).content.len \in Nat
        BY <1>6, TheIs, EntryHasLength
      <3> QED  BY <1>6, <2>3, <2>4, <3>1
    <2>6. \A x \in Items(disk') : x = n \/ (x \in Items(disk) /\ x.key # k)
      BY <2>3, <2>4 DEF Among, Items, Has
    <2>7. Types'
      BY <1>1, <2>1 DEF IInv, Types, Moves
    <2>8. DiskFine'
      <3>1. WritesOn
        BY <1>2, <2>1, KeepsWriting
      <3>2. BeingWritten(n.key)'
        <4>1. task'[p].job = "write" /\ task'[p].key = n.key
          BY <2>1, <2>2 DEF Turned
        <4> QED  BY <4>1 DEF BeingWritten
      <3>3. \A x \in Items(disk') : x \in Items(disk) \/ BeingWritten(x.key)'
        BY <2>6, <3>2
      <3>4. \A x \in Items(disk') : Subdir[x.key] \in dirs'
        BY <1>1, <1>7, <2>2, <2>6, InvIs DEF DiskFine
      <3> QED  BY <1>2, <2>4, <3>1, <3>3, <3>4, InvIs, DiskAmong
    <2>9. TaskFine(p)'
      <3>1. task'[p].pc # "failed" => Right(p, task[p].content)'
        BY <1>2, <1>3, <2>1, RightCarried DEF Turned
      <3>2. task'[p].pc \in {"wait", "failed"} /\ spec' = spec
        BY <1>1, <1>3, <2>1 DEF Turned
      <3> QED  BY <1>3, <2>1, <3>1, <3>2 DEF TaskFine, Parts, Turned
    <2>10. TasksFine'
      BY <1>2, <2>1, <2>9, InvIs, TasksMove
    <2>11. LockFine'
      <3>1. lock = {p} => task[p].pc = "wait"
        BY NotHolder, <1>3
      <3>2. lock = {p} => task'[p].pc = "wait" /\ task'[p].job \in Writing
        BY <2>1, <3>1 DEF Writing, Turned
      <3> QED  BY <1>7, <2>1, <3>2, InvIs, LockStays
    <2>12. Holding'
      BY <1>1, <1>4, <1>7, <2>1, InvIs, HoldingMoves DEF Turned
    <2>13. Quiet'
      <3>1. aged = FALSE /\ troubles = 0 => Calm(p)'
        BY <1>3, <2>1, CalmBefore DEF Calm, Turned
      <3>2. \A x \in Items(disk') : x.old => \E y \in Items(disk) : y.old
        BY <2>2, <2>6
      <3> QED  BY <1>1, <2>1, <3>1, <3>2, InvIs, QuietMoves
    <2>14. ASSUME Fit'
           PROVE  Total(disk') <= DiskMax /\ Room(p)'
      <3>7. Fit
        BY <1>1, <1>2, <2>14, FitBefore
      <3>1. Total(disk) <= DiskMax
        BY <3>7, InvIs DEF Space
      <3>2. Total(disk) + task[p].content.len <= DiskMax
        BY <1>1, <1>4, <3>7 DEF Room
      <3>3. Total(disk') + task'[p].content.len <= DiskMax
        <4>1. task'[p].content = task[p].content
          BY <2>1 DEF Turned
        <4> QED  BY <1>3, <1>6, <2>5, <3>2, <4>1
      <3>4. \A x \in Items(disk') : x.key = task'[p].key => x.content.len = 0
        BY <2>1, <2>2, <2>6 DEF Turned
      <3>5. Total(disk') <= DiskMax
        BY <1>6, <2>5, <3>1
      <3>6. task'[p].job = "write"
        BY <2>1 DEF Turned
      <3> QED  BY <3>3, <3>4, <3>5, <3>6 DEF Room
    <2>15. Space'
      BY <1>1, <1>2, <2>1, <2>14, InvIs, SpaceAlone
    <2> QED  BY <1>5, <2>7, <2>8, <2>10, <2>11, <2>12, <2>13, <2>15 DEF IInv
  <1>8. ASSUME NEW why \in {"cache", "disk"}, why = "cache" => Subdir[k] \notin dirs,
               SetFails(p, why), disk' = disk
        PROVE  IInv'
    BY <1>1, <1>8, FailureKeeps
  <1>9. \/ /\ Subdir[k] \in dirs /\ disk' = Append(Without(disk, k), fresh) /\ Opened(p) /\ lock' = lock
        \/ Subdir[k] \notin dirs /\ SetFails(p, "cache") /\ disk' = disk
        \/ SetFails(p, "disk") /\ disk' = disk
    BY Zenon DEF Open, Opened
  <1> QED  BY <1>7, <1>8, <1>9

\* A file is written whole.
Written(D, k, c) == [i \in DOMAIN D |-> IF D[i].key = k THEN [D[i] EXCEPT !.content = c] ELSE D[i]]

LEMMA WrittenIs ==
  ASSUME NEW D \in Tier, NEW k, NEW c \in Content
  PROVE  /\ Written(D, k, c) \in Tier
         /\ \A x \in Items(Written(D, k, c)) :
              \/ x \in Items(D) /\ x.key # k
              \/ /\ x.key = k /\ x.content = c
                 /\ \E y \in Items(D) : y.key = k /\ y.old = x.old
         /\ (\A y \in Items(D) : y.key = k => y.content.len = 0) =>
              Total(Written(D, k, c)) <= Total(D) + c.len
  <1> DEFINE L == Len(D)
             W == Written(D, k, c)
  <1>1. D \in Seq(Entry) /\ OnePerKey(D) /\ L \in Nat /\ DOMAIN D = 1..L /\ Total(D) \in Int
        /\ c.len \in Nat
    BY EntryAt, TotalType DEF Tier, Content
  <1>2. ASSUME NEW i \in 1..L
        PROVE  /\ [D[i] EXCEPT !.content = c] \in Entry
               /\ [D[i] EXCEPT !.content = c].key = D[i].key
               /\ [D[i] EXCEPT !.content = c].content = c
               /\ [D[i] EXCEPT !.content = c].old = D[i].old
    <2>1. D[i] \in Entry
      BY <1>1
    <2> QED  BY <2>1 DEF Entry
  <1>3. W = [i \in 1..L |-> IF D[i].key = k THEN [D[i] EXCEPT !.content = c] ELSE D[i]]
    BY <1>1 DEF Written
  <1>4. \A i \in 1..L : W[i] \in Entry /\ W[i].key = D[i].key
    BY <1>1, <1>2, <1>3
  <1>5. W \in Seq(Entry) /\ Len(W) = L /\ DOMAIN W = 1..L
    BY <1>1, <1>3, <1>4
  <1>6. \A i \in 1..L : \/ D[i].key # k /\ W[i] = D[i]
                        \/ D[i].key = k /\ W[i].content = c /\ W[i].old = D[i].old
    BY <1>1, <1>2, <1>3
  <1> HIDE DEF W
  <1>7. OnePerKey(W)
    BY <1>1, <1>4, <1>5 DEF OnePerKey
  <1>8. ASSUME NEW x \in Items(W)
        PROVE  \/ x \in Items(D) /\ x.key # k
               \/ /\ x.key = k /\ x.content = c
                  /\ \E y \in Items(D) : y.key = k /\ y.old = x.old
    <2>1. PICK i \in 1..L : x = W[i]
      BY <1>5 DEF Items
    <2>2. D[i] \in Items(D) /\ x.key = D[i].key
      BY <1>1, <1>4, <2>1 DEF Items
    <2> QED  BY <1>6, <2>1, <2>2
  <1>9. ASSUME \A y \in Items(D) : y.key = k => y.content.len = 0
        PROVE  Total(W) <= Total(D) + c.len
    <2>1. CASE \E i \in 1..L : D[i].key = k
      <3>1. PICK i \in 1..L : D[i].key = k
        BY <2>1
      <3>2. \A j \in 1..L : j # i => W[j].content.len = D[j].content.len
        BY <1>1, <1>6, <3>1 DEF OnePerKey
      <3>3. Total(W) = Total(D) - D[i].content.len + W[i].content.len
        BY <1>1, <1>5, <3>2, TotalReplaced
      <3>4. D[i].content.len = 0 /\ W[i].content.len = c.len
        BY <1>1, <1>6, <1>9, <3>1 DEF Items
      <3> QED  BY <1>1, <3>3, <3>4
    <2>2. CASE ~\E i \in 1..L : D[i].key = k
      <3>1. \A j \in 1..L : W[j].content.len = D[j].content.len
        BY <1>6, <2>2
      <3>2. Total(W) = Total(D)
        BY <1>1, <1>5, <3>1, TotalUnchanged
      <3> QED  BY <1>1, <3>2
    <2> QED  BY <2>1, <2>2
  <1> QED  BY <1>5, <1>7, <1>8, <1>9 DEF Tier, W

\* DiskCache.set writes the content and lets the lock go.
LEMMA WholeKeeps ==
  ASSUME IInv, NEW p \in Ids, task[p].job = "write", lock' = Unlocked(p),
         disk' = Written(disk, task[p].key, task[p].content),
         IF Awaited(p) THEN Served(p, task[p].content) ELSE GoTo(p, task[p].pc),
         UNCHANGED <<spec, status, parts, memory, dirs, fs, troubles, aged, torn, mixed>>,
         refused \subseteq refused'
  PROVE  IInv'
  <1>1. /\ task[p].job = "write" /\ lock' = Unlocked(p)
        /\ disk' = Written(disk, task[p].key, task[p].content)
        /\ UNCHANGED <<spec, status, parts, memory, dirs, fs, troubles, aged, torn, mixed>>
        /\ refused \subseteq refused'
    OBVIOUS
  <1>2. Grows /\ task[p].job \in Writing
    BY <1>1 DEF Grows, Writing
  <1>3. /\ p \in Parts(p[1]) /\ task[p].pc \in {"wait", "failed"}
        /\ task[p].key \in Files /\ task[p].content = Whole(task[p].key)
        /\ task[p].content \in Content /\ task[p].content.len \in Nat
        /\ task[p].content.len <= DiskMax
        /\ task[p].pc # "failed" => Right(p, task[p].content)
    <2>1. task[p].pc # "lock"
      BY <1>1, InvIs DEF TasksFine, TaskFine
    <2> QED  BY <1>1, <1>2, <2>1, WriterIs
  <1>4. /\ troubles = 0 => lock = {p} /\ task[p].pc = "wait"
        /\ Fit => Room(p)
    BY <1>2, InvIs DEF Holding, Awaited, Space
  <1>5. MemoryFine' /\ BuiltMailIsRight'
    BY <1>1, <1>2, InvIs, MemoryStays, BuiltStays
  <1>6. disk \in Tier
    BY InvIs DEF DiskFine
  <1>7. PICK k \in Files, c \in Content : k = task[p].key /\ c = task[p].content /\ c = Whole(k)
    BY <1>3
  <1>8. /\ disk' \in Tier
        /\ \A x \in Items(disk') :
             \/ x \in Items(disk) /\ x.key # k
             \/ /\ x.key = k /\ x.content = c
                /\ \E y \in Items(disk) : y.key = k /\ y.old = x.old
        /\ (\A y \in Items(disk) : y.key = k => y.content.len = 0) =>
             Total(disk') <= Total(disk) + c.len
    BY <1>1, <1>6, <1>7, WrittenIs
  <1>9. ASSUME Moves(p), task'[p].job = "none", task'[p].err = task[p].err,
               \/ task'[p].pc = "served" /\ task'[p].content = c /\ task[p].pc = "wait"
               \/ task'[p].pc = "failed"
        PROVE  IInv'
    <2>1. Types'
      BY <1>1, <1>9 DEF IInv, Types, Moves
    <2>2. DiskFine'
      <3>1. ASSUME NEW x \in Items(disk')
            PROVE  (Sound(x, torn)' \/ BeingWritten(x.key)') /\ Subdir[x.key] \in dirs'
        <4>1. CASE x \in Items(disk) /\ x.key # k
          <5>1. (Sound(x, torn) \/ BeingWritten(x.key)) /\ Subdir[x.key] \in dirs
            BY <4>1, InvIs DEF DiskFine
          <5>2. BeingWritten(x.key) => BeingWritten(x.key)'
            BY <1>7, <1>9, <4>1 DEF BeingWritten, Moves
          <5> QED  BY <1>1, <5>1, <5>2 DEF Sound
        <4>2. CASE x.key = k /\ x.content = c /\ \E y \in Items(disk) : y.key = k
          BY <1>1, <1>7, <4>2, InvIs DEF DiskFine, Sound
        <4> QED  BY <1>8, <4>1, <4>2
      <3> QED  BY <1>8, <3>1 DEF DiskFine
    <2>3. TaskFine(p)'
      <3>1. task'[p].pc = "served" => Right(p, task[p].content)'
        BY <1>2, <1>3, <1>7, <1>9, RightCarried
      <3> QED  BY <1>1, <1>3, <1>9, <3>1 DEF TaskFine, Writing, Parts
    <2>4. TasksFine'
      BY <1>2, <1>9, <2>3, InvIs, TasksMove
    <2>5. LockFine'
      BY <1>1, <1>9, InvIs, LockFreed
    <2>6. task'[p].job \notin Writing
      BY <1>9 DEF Writing
    <2>7. Holding'
      <3>1. lock' = lock \/ lock = {p}
        BY <1>1 DEF Unlocked
      <3> QED  BY <1>1, <1>9, <2>6, <3>1, InvIs, HoldingMoves
    <2>8. Quiet'
      <3>1. aged = FALSE /\ troubles = 0 => Calm(p)'
        BY <1>9, CalmBefore DEF Calm
      <3>2. \A x \in Items(disk') : x.old => \E y \in Items(disk) : y.old
        BY <1>8
      <3> QED  BY <1>1, <1>9, <3>1, <3>2, InvIs, QuietMoves
    <2>9. Space'
      <3>1. ASSUME Fit'
            PROVE  Total(disk') <= DiskMax
        <4>3. Fit
          BY <1>1, <1>2, <3>1, FitBefore
        <4>1. /\ Total(disk) + c.len <= DiskMax
              /\ \A y \in Items(disk) : y.key = k => y.content.len = 0
          BY <1>1, <1>4, <1>7, <4>3 DEF Room
        <4>2. Total(disk) \in Int /\ Total(disk') \in Int /\ DiskMax \in Nat /\ c.len \in Nat
          BY <1>6, <1>8, TotalType, AssumedBounds DEF Tier, Content
        <4> QED  BY <1>8, <4>1, <4>2
      <3>2. Room(p)'
        BY <2>6, RoomIdle
      <3> QED  BY <1>1, <1>2, <1>9, <3>1, <3>2, InvIs, SpaceAlone
    <2> QED  BY <1>5, <2>1, <2>2, <2>4, <2>5, <2>7, <2>8, <2>9 DEF IInv
  <1>10. CASE Awaited(p) /\ Served(p, task[p].content)
    <2>1. Moves(p) /\ Turned(p, "served", "none", c, task[p].err)
      BY <1>7, <1>10, InvIs, ServedIs
    <2> QED  BY <1>9, <1>10, <2>1 DEF Turned, Awaited
  <1>11. CASE ~Awaited(p) /\ GoTo(p, task[p].pc)
    <2>1. GoTo(p, "failed")
      BY <1>3, <1>11 DEF Awaited
    <2>2. Moves(p) /\ Turned(p, "failed", "none", task[p].content, task[p].err)
      BY <2>1, InvIs, GoToIs DEF Pcs
    <2> QED  BY <1>9, <2>2 DEF Turned
  <1> QED  BY <1>10, <1>11

\* A write ends, or fails and leaves an empty file.
LEMMA WriteKeeps ==
  ASSUME IInv, NEW p \in Ids, Write(p)
  PROVE  IInv'
  <1>1. /\ task[p].job = "write" /\ refused \subseteq refused'
        /\ UNCHANGED <<spec, status, parts, memory, dirs, fs, troubles, aged, mixed>>
    BY DEF Write, Refuse
  <1>2. CASE /\ disk' = Written(disk, task[p].key, task[p].content)
             /\ IF Awaited(p) THEN Served(p, task[p].content) ELSE GoTo(p, task[p].pc)
             /\ lock' = Unlocked(p) /\ UNCHANGED torn
    BY <1>1, <1>2, WholeKeeps
  <1>3. CASE SetFails(p, "disk") /\ torn' = torn \cup {task[p].key} /\ UNCHANGED disk
    BY <1>1, <1>3, FailureKeeps
  <1> QED  BY <1>2, <1>3, Zenon DEF Write, Written

TimedOut(p, job) == task' = [task EXCEPT ![p].pc = "failed", ![p].err = "timeout", ![p].job = job]

LEMMA TimedOutIs ==
  ASSUME task \in [Ids -> Task], NEW p \in Ids, NEW job \in Jobs, TimedOut(p, job)
  PROVE  Moves(p) /\ Turned(p, "failed", job, task[p].content, "timeout")
  <1>1. "failed" \in Pcs /\ "timeout" \in Errors
    BY DEF Pcs, Errors
  <1>2. Turned(p, "failed", job, task[p].content, "timeout")
    BY <1>1, TaskIs DEF TimedOut, Turned
  <1>3. task' \in [Ids -> Task] /\ \A q \in Ids : q # p => task'[q] = task[q]
    BY <1>1, TaskIs DEF TimedOut
  <1>4. Blames(p)
    BY <1>2 DEF Blames, Turned
  <1> QED  BY <1>2, <1>3, <1>4 DEF Moves

\* A fetch is cancelled wherever it is; its thread goes on.
LEMMA TimeoutKeeps ==
  ASSUME IInv, NEW p \in Ids, Timeout(p)
  PROVE  IInv'
  <1>1. /\ task[p].pc # "idle" /\ lock' = Unlocked(p) /\ troubles' = troubles + 1
        /\ UNCHANGED <<spec, status, parts, memory, disk, dirs, fs, aged, torn, refused, mixed>>
    BY DEF Timeout, Active, caches, ghosts
  <1>2. Grows
    BY <1>1 DEF Grows
  <1>3. /\ task[p].job \in Jobs /\ p \in Parts(p[1])
        /\ task[p].job \in Writing =>
             /\ task[p].key \in Files /\ task[p].content = Whole(task[p].key)
             /\ task[p].content.len <= DiskMax
        /\ task[p].job = "evict" => task[p].plan # <<>>
    BY <1>1, InvIs, TaskAt DEF TasksFine, TaskFine
  <1>4. PICK job \in Jobs : /\ TimedOut(p, job)
                            /\ job \in {task[p].job, "none"} /\ (task[p].job = "write" => job = "write")
    <2>1. PICK j \in {task[p].job} \cup (IF task[p].job = "write" THEN {} ELSE {"none"}) :
            task' = [task EXCEPT ![p].pc = "failed", ![p].err = "timeout",
                                 ![p].job = IF j = "read" THEN "none" ELSE j]
      BY Zenon DEF Timeout
    <2>2. PICK job \in Jobs : job = IF j = "read" THEN "none" ELSE j
      BY <1>3, <2>1 DEF Jobs
    <2>3. TimedOut(p, job)
      BY <2>1, <2>2, Zenon DEF TimedOut
    <2>4. job \in {task[p].job, "none"} /\ (task[p].job = "write" => job = "write")
      BY <2>1, <2>2
    <2> QED  BY <2>3, <2>4
  <1>5. Moves(p) /\ Turned(p, "failed", job, task[p].content, "timeout")
    BY <1>4, InvIs, TimedOutIs
  <1>6. TaskFine(p)'
    <2>1. task'[p].job \in Writing => task[p].job \in Writing /\ task'[p].job = task[p].job
      BY <1>4, <1>5 DEF Turned, Writing
    <2>2. task'[p].job = "evict" => task[p].job = "evict"
      BY <1>4, <1>5 DEF Turned
    <2> QED  BY <1>1, <1>3, <1>5, <2>1, <2>2 DEF TaskFine, Turned, Parts
  <1>7. troubles' \in Nat /\ troubles' # 0
    BY <1>1, InvIs
  <1>8. Types'
    BY <1>1, <1>5, <1>7 DEF IInv, Types, Moves
  <1>9. MemoryFine' /\ BuiltMailIsRight'
    BY <1>1, <1>2, InvIs, MemoryStays, BuiltStays
  <1>10. DiskFine'
    <2>1. WritesOn
      BY <1>4, <1>5 DEF Moves, Turned, WritesOn
    <2> QED  BY <1>1, <1>2, <2>1, InvIs, DiskStays
  <1>11. TasksFine'
    BY <1>2, <1>5, <1>6, InvIs, TasksMove
  <1>12. LockFine'
    BY <1>1, <1>5, InvIs, LockFreed
  <1>13. Holding' /\ Space'
    BY <1>7 DEF Holding, Space, Fit
  <1>14. Quiet'
    BY <1>1, <1>7, InvIs DEF Quiet
  <1> QED  BY <1>8, <1>9, <1>10, <1>11, <1>12, <1>13, <1>14 DEF IInv

----------------------------------------------------------------------------
(* The mails, the environment, and the theorems. *)

\* Fetches go on where they are.
LEMMA TasksRest ==
  ASSUME IInv, UNCHANGED <<spec, task, torn, refused, mixed>>
  PROVE  TasksFine' /\ Grows /\ WritesOn
  <1>1. Grows /\ WritesOn
    BY DEF Grows, WritesOn
  <1>2. Blamed'
    BY InvIs DEF TasksFine, Blamed
  <1> QED  BY <1>1, <1>2, InvIs, TaskStays DEF TasksFine

LEMMA OnlyMail ==
  ASSUME IInv, UNCHANGED <<spec, memory, disk, dirs, lock, fs, task, troubles, aged, torn, refused, mixed>>,
         Types', BuiltMailIsRight'
  PROVE  IInv'
  <1>1. Grows
    BY DEF Grows
  <1>2. WritesOn
    BY DEF WritesOn
  <1>3. MemoryFine' /\ DiskFine'
    BY <1>1, <1>2, InvIs, MemoryStays, DiskStays
  <1>4. TasksFine'
    BY TasksRest
  <1>5. LockFine' /\ Holding'
    BY InvIs DEF LockFine, Holding, Awaited
  <1>6. Quiet'
    BY InvIs DEF Quiet, Calm
  <1>7. Space'
    BY InvIs, RoomStays DEF Space, Fit
  <1> QED  BY <1>3, <1>4, <1>5, <1>6, <1>7 DEF IInv

\* A mail starts the fetches of its attachments.
LEMMA BeginKeeps ==
  ASSUME IInv, NEW m \in Msgs, Begin(m)
  PROVE  IInv'
  <1>1. /\ status' = [status EXCEPT ![m] = "fetching"]
        /\ UNCHANGED <<spec, parts, memory, disk, dirs, lock, fs, task, troubles, aged, torn, refused, mixed>>
    BY DEF Begin, caches, ghosts
  <1>2. Types'
    BY <1>1 DEF IInv, Types
  <1>3. BuiltMailIsRight'
    <2>1. Grows
      BY <1>1 DEF Grows
    <2>2. \A n \in Msgs : status'[n] = "built" => status[n] = "built"
      BY <1>1 DEF IInv, Types
    <2> QED  BY <1>1, <2>1, <2>2, InvIs, BuiltStays
  <1> QED  BY <1>1, <1>2, <1>3, OnlyMail

\* A mail is put together once all its fetches ended.
LEMMA AssembleKeeps ==
  ASSUME IInv, NEW m \in Msgs, Assemble(m)
  PROVE  IInv'
  <1> DEFINE L == Len(spec[m])
             got == [i \in 1..L |-> task[<<m, i>>].content]
  <1>1. /\ status[m] = "fetching" /\ \A p \in Parts(m) : task[p].pc \in {"served", "failed"}
        /\ UNCHANGED <<spec, memory, disk, dirs, lock, fs, task, troubles, aged, torn, refused, mixed>>
    BY DEF Assemble, caches, ghosts
  <1>2. Grows
    BY <1>1 DEF Grows
  <1>3. CASE status' = [status EXCEPT ![m] = "error"] /\ UNCHANGED parts
    <2>1. Types'
      BY <1>1, <1>3 DEF IInv, Types
    <2>2. \A n \in Msgs : status'[n] = "built" => status[n] = "built"
      BY <1>3 DEF IInv, Types
    <2>3. BuiltMailIsRight'
      BY <1>2, <1>3, <2>2, InvIs, BuiltStays
    <2> QED  BY <1>1, <2>1, <2>3, OnlyMail
  <1>4. ASSUME \A p \in Parts(m) : task[p].pc # "failed",
               status' = [status EXCEPT ![m] = "built"],
               NEW how \in [1..L -> {"attached", "linked"}],
               parts' = [parts EXCEPT ![m] = [i \in 1..L |-> [content |-> got[i], how |-> how[i]]]]
        PROVE  IInv'
    <2> DEFINE mail == [i \in 1..L |-> [content |-> got[i], how |-> how[i]]]
    <2>1. L \in Nat /\ L <= MaxParts /\ DOMAIN spec[m] = 1..L
      <3>1. spec[m] \in Seq(Attachment) /\ Len(spec[m]) <= MaxParts
        BY InvIs, AttachmentsAssumption DEF AttachmentsAssumption
      <3> QED  BY <3>1
    <2>2. ASSUME NEW i \in 1..L
          PROVE  got[i] \in Content /\ Right(<<m, i>>, got[i])
      <3>1. <<m, i>> \in Ids /\ <<m, i>> \in Parts(m)
        BY <2>1, AssumedBounds DEF Ids, Parts
      <3>2. task[<<m, i>>].pc = "served"
        BY <1>1, <1>4, <3>1
      <3>3. TaskFine(<<m, i>>)
        BY <3>1, InvIs DEF TasksFine
      <3> QED  BY <3>2, <3>3 DEF TaskFine
    <2> HIDE DEF got
    <2>3. mail \in Seq(Carries) /\ Len(mail) = L /\ \A i \in 1..L : mail[i].content = got[i]
      <3>1. \A i \in 1..L : [content |-> got[i], how |-> how[i]] \in Carries
        BY <2>2 DEF Carries
      <3> QED  BY <2>1, <3>1
    <2> HIDE DEF mail
    <2>4. parts' = [parts EXCEPT ![m] = mail]
      BY <1>4 DEF mail
    <2>5. Types'
      BY <1>1, <1>4, <2>3, <2>4 DEF IInv, Types
    <2>6. ASSUME NEW n \in Msgs, status'[n] = "built"
          PROVE  /\ Len(parts'[n]) = Len(spec'[n])
                 /\ \A i \in DOMAIN spec'[n] :
                      LET s == spec'[n][i] IN
                      \/ parts'[n][i].content = Whole(s.file)
                      \/ s.key # NoKey /\ parts'[n][i].content = Whole(s.key)
                      \/ s.key \in torn'
                      \/ s.kind = "mount" /\ n \in mixed'
      <3>1. spec' = spec /\ torn' = torn /\ mixed' = mixed
        BY <1>1
      <3>2. CASE n = m
        <4>1. parts'[n] = mail
          BY <2>4, <3>2 DEF IInv, Types
        <4>2. Len(parts'[n]) = Len(spec'[n])
          BY <2>3, <3>1, <3>2, <4>1
        <4>3. ASSUME NEW i \in DOMAIN spec[m]
              PROVE  LET s == spec[m][i] IN
                     \/ got[i] = Whole(s.file)
                     \/ s.key # NoKey /\ got[i] = Whole(s.key)
                     \/ s.key \in torn
                     \/ s.kind = "mount" /\ m \in mixed
          BY <2>1, <2>2 DEF Right, Spec_
        <4>4. \A i \in DOMAIN spec[m] : parts'[n][i].content = got[i]
          BY <2>1, <2>3, <4>1
        <4> QED  BY <3>1, <3>2, <4>2, <4>3, <4>4
      <3>3. CASE n # m
        <4>1. parts'[n] = parts[n] /\ status[n] = "built"
          BY <1>4, <2>4, <2>6, <3>3 DEF IInv, Types
        <4>2. BuiltMailIsRight
          BY InvIs
        <4> QED  BY <3>1, <4>1, <4>2 DEF BuiltMailIsRight
      <3> QED  BY <3>2, <3>3
    <2>7. BuiltMailIsRight'
      BY <2>6 DEF BuiltMailIsRight
    <2> QED  BY <1>1, <2>5, <2>7, OnlyMail
  <1>5. \/ status' = [status EXCEPT ![m] = "error"] /\ UNCHANGED parts
        \/ /\ \A p \in Parts(m) : task[p].pc # "failed"
           /\ status' = [status EXCEPT ![m] = "built"]
           /\ \E how \in [1..L -> {"attached", "linked"}] :
                parts' = [parts EXCEPT ![m] = [i \in 1..L |-> [content |-> got[i], how |-> how[i]]]]
    BY DEF Assemble
  <1> QED  BY <1>3, <1>4, <1>5

\* A memory entry gets too old.
LEMMA MemoryExpiresKeeps ==
  ASSUME IInv, MemoryExpires
  PROVE  IInv'
  <1>1. /\ memory' = [memory EXCEPT !.entries = Aged(memory.entries)]
        /\ UNCHANGED <<spec, status, parts, disk, dirs, lock, fs, task, troubles, aged, torn, refused, mixed>>
    BY DEF MemoryExpires, ghosts
  <1>2. TasksFine' /\ Grows /\ WritesOn
    BY <1>1, TasksRest
  <1>3. Types'
    BY <1>1 DEF IInv, Types
  <1>4. MemoryFine'
    <2> DEFINE E == Aged(memory.entries)
    <2>1. /\ memory \in Counted /\ memory.entries \in Tier /\ memory.bytes = Total(memory.entries)
          /\ memory = [entries |-> memory.entries, bytes |-> memory.bytes]
          /\ memory.bytes <= MemoryMax
      BY InvIs, CountedIs DEF MemoryFine, Accounted
    <2>2. /\ E \in Tier /\ DOMAIN E = DOMAIN memory.entries /\ Total(E) = Total(memory.entries)
          /\ \A i \in DOMAIN memory.entries : /\ E[i].key = memory.entries[i].key
                                              /\ E[i].content = memory.entries[i].content
      BY <2>1, AgedIs
    <2> HIDE DEF E
    <2>3. memory' = [entries |-> E, bytes |-> memory.bytes]
      <3>1. \A u : [[entries |-> memory.entries, bytes |-> memory.bytes] EXCEPT !.entries = u]
                   = [entries |-> u, bytes |-> memory.bytes]
        OBVIOUS
      <3>2. memory' = [memory EXCEPT !.entries = E]
        BY <1>1 DEF E
      <3> QED  BY <2>1, <3>1, <3>2
    <2>4. Accounted(memory)'
      <3>1. [entries |-> E, bytes |-> memory.bytes] \in Counted
        BY <2>1, <2>2, CountedMake
      <3> QED  BY <2>1, <2>3, <3>1 DEF Accounted
    <2>5. ASSUME NEW x \in Items(memory'.entries)
          PROVE  Sound(x, torn')
      <3>1. memory'.entries = E
        BY <2>3
      <3>2. PICK i \in DOMAIN memory.entries : x = E[i]
        BY <2>2, <3>1 DEF Items
      <3>3. Sound(memory.entries[i], torn)
        BY InvIs DEF MemoryFine, Items
      <3> QED  BY <1>1, <2>2, <3>2, <3>3 DEF Sound
    <2> QED  BY <1>2, <2>4, <2>5, InvIs, MemoryAmong
  <1>5. DiskFine' /\ BuiltMailIsRight'
    BY <1>1, <1>2, InvIs, DiskStays, BuiltStays
  <1>6. LockFine' /\ Holding'
    BY <1>1, InvIs DEF LockFine, Holding, Awaited
  <1>7. Quiet'
    BY <1>1, InvIs DEF Quiet, Calm
  <1>8. Space'
    BY <1>1, InvIs, RoomStays DEF Space, Fit
  <1> QED  BY <1>2, <1>3, <1>4, <1>5, <1>6, <1>7, <1>8 DEF IInv

\* A file gets too old.
LEMMA DiskExpiresKeeps ==
  ASSUME IInv, DiskExpires
  PROVE  IInv'
  <1>1. /\ disk' = Aged(disk) /\ aged' = TRUE /\ \A q \in Ids : task[q].job # "write"
        /\ UNCHANGED <<spec, status, parts, memory, dirs, lock, fs, task, troubles, torn, refused, mixed>>
    BY DEF DiskExpires
  <1>2. TasksFine' /\ Grows /\ WritesOn
    BY <1>1, TasksRest
  <1>3. Types'
    BY <1>1 DEF IInv, Types
  <1>4. MemoryFine' /\ BuiltMailIsRight'
    BY <1>1, <1>2, InvIs, MemoryStays, BuiltStays
  <1>5. disk \in Tier /\ disk' \in Tier /\ Total(disk') = Total(disk)
    BY <1>1, InvIs, AgedIs DEF DiskFine
  <1>6. ASSUME NEW x \in Items(disk')
        PROVE  \E y \in Items(disk) : x.key = y.key /\ x.content = y.content
    <2>1. PICK i \in DOMAIN disk' : x = disk'[i]
      BY DEF Items
    <2>2. i \in DOMAIN disk /\ x.key = disk[i].key /\ x.content = disk[i].content
      BY <1>1, <1>5, <2>1, AgedIs
    <2> QED  BY <2>2 DEF Items
  <1>7. DiskFine'
    <2>1. ASSUME NEW x \in Items(disk')
          PROVE  (Sound(x, torn)' \/ BeingWritten(x.key)') /\ Subdir[x.key] \in dirs'
      <3>1. PICK y \in Items(disk) : x.key = y.key /\ x.content = y.content
        BY <1>6
      <3>2. (Sound(y, torn) \/ BeingWritten(y.key)) /\ Subdir[y.key] \in dirs
        BY InvIs DEF DiskFine
      <3>3. BeingWritten(x.key) => BeingWritten(x.key)'
        BY <1>1 DEF BeingWritten
      <3> QED  BY <1>1, <3>1, <3>2, <3>3 DEF Sound
    <2> QED  BY <1>5, <2>1 DEF DiskFine
  <1>8. LockFine' /\ Holding'
    BY <1>1, InvIs DEF LockFine, Holding, Awaited
  <1>9. Quiet'
    BY <1>1 DEF Quiet
  <1>10. Space'
    <2>1. ASSUME Fit, NEW q \in Ids
          PROVE  Room(q)'
      <3>1. Room(q) /\ task'[q] = task[q] /\ task[q].job # "write"
        BY <1>1, <2>1, InvIs DEF Space
      <3>2. \A plan : (\A y \in Items(disk) : Planned(y, plan)) => \A x \in Items(disk') : Planned(x, plan)
        BY <1>6 DEF Planned
      <3> QED  BY <1>5, <3>1, <3>2 DEF Room
    <2>2. Fit => Total(disk') <= DiskMax
      BY <1>5, InvIs DEF Space
    <2> QED  BY <1>1, <2>1, <2>2 DEF Space, Fit
  <1> QED  BY <1>2, <1>3, <1>4, <1>7, <1>8, <1>9, <1>10 DEF IInv

LEMMA EmptyTier ==
  /\ <<>> \in Tier /\ Items(<<>>) = {}
  /\ Accounted([entries |-> <<>>, bytes |-> 0])
  <1>1. <<>> \in Seq(Entry) /\ DOMAIN <<>> = {}
    OBVIOUS
  <1>2. <<>> \in Tier /\ Items(<<>>) = {}
    BY <1>1 DEF Tier, OnePerKey, Items
  <1>3. [entries |-> <<>>, bytes |-> 0] \in Counted
    BY <1>2, TotalEmpty, CountedMake
  <1> QED  BY <1>2, <1>3, AssumedBounds DEF Accounted

LEMMA IdleIs ==
  ASSUME NEW t, t = [p \in Ids |-> IdleTask]
  PROVE  /\ t \in [Ids -> Task]
         /\ \A p \in Ids : t[p].pc = "idle" /\ t[p].job = "none" /\ t[p].err = ""
  <1>1. IdleTask \in Task
    <2>1. "idle" \in Pcs /\ "none" \in Jobs /\ "" \in Errors
      BY DEF Pcs, Jobs, Errors
    <2>2. <<>> \in Plans
      BY DEF Plans
    <2>3. Nothing \in Contents /\ NoKey \in Keys /\ 0 \in Rooms
      BY DEF Contents, Keys, Rooms
    <2> QED  BY <2>1, <2>2, <2>3, TaskIs DEF IdleTask
  <1> QED  BY <1>1 DEF IdleTask

\* The process dies: files stay as they are, all else is gone.
LEMMA CrashKeeps ==
  ASSUME IInv, Crash
  PROVE  IInv'
  <1>1. /\ troubles' = troubles + 1 /\ task' = [p \in Ids |-> IdleTask]
        /\ status' = [m \in Msgs |-> IF status[m] = "fetching" THEN "new" ELSE status[m]]
        /\ memory' = [entries |-> <<>>, bytes |-> 0] /\ lock' = {} /\ fs' = NoTenant
        /\ torn' = torn \cup {task[q].key : q \in {q \in Ids : task[q].job = "write"}}
        /\ UNCHANGED <<spec, parts, disk, dirs, aged, refused, mixed>>
    BY DEF Crash
  <1>2. /\ task' \in [Ids -> Task]
        /\ \A p \in Ids : task'[p].pc = "idle" /\ task'[p].job = "none" /\ task'[p].err = ""
    BY <1>1, IdleIs
  <1>3. torn' \subseteq Files /\ torn \subseteq torn'
    <2>1. \A q \in Ids : task[q].job = "write" => task[q].key \in Files
      BY WriterIs DEF Writing
    <2> QED  BY <1>1, <2>1, InvIs
  <1>4. Grows
    BY <1>1, <1>3 DEF Grows
  <1>5. troubles' \in Nat /\ troubles' # 0
    BY <1>1, InvIs
  <1>6. Types'
    <2>1. status' \in [Msgs -> {"new", "fetching", "built", "error"}]
      BY <1>1 DEF IInv, Types
    <2>2. parts' \in [Msgs -> Seq(Carries)] /\ spec' \in Mails /\ mixed' \subseteq Msgs
          /\ aged' \in BOOLEAN /\ fs' \in Tenants \cup {NoTenant}
      BY <1>1 DEF IInv, Types
    <2> QED  BY <1>2, <1>3, <1>5, <2>1, <2>2 DEF Types
  <1>7. MemoryFine'
    BY <1>1, EmptyTier DEF MemoryFine
  <1>8. DiskFine'
    <2>1. ASSUME NEW x \in Items(disk)
          PROVE  Sound(x, torn') /\ Subdir[x.key] \in dirs
      <3>1. (Sound(x, torn) \/ BeingWritten(x.key)) /\ Subdir[x.key] \in dirs
        BY InvIs DEF DiskFine
      <3>2. BeingWritten(x.key) => x.key \in torn'
        BY <1>1 DEF BeingWritten
      <3> QED  BY <1>3, <3>1, <3>2 DEF Sound
    <2>2. disk \in Tier
      BY InvIs DEF DiskFine
    <2> QED  BY <1>1, <2>1, <2>2 DEF DiskFine
  <1>9. TasksFine'
    BY <1>2 DEF TasksFine, Blamed, TaskFine, Writing
  <1>10. LockFine' /\ Holding' /\ Space'
    BY <1>1, <1>5 DEF LockFine, Holding, Space, Fit
  <1>11. Quiet'
    BY <1>1, <1>5, InvIs DEF Quiet
  <1>12. BuiltMailIsRight'
    <2>1. \A m \in Msgs : status'[m] = "built" => status[m] = "built"
      BY <1>1
    <2> QED  BY <1>1, <1>4, <2>1, InvIs, BuiltStays
  <1> QED  BY <1>6, <1>7, <1>8, <1>9, <1>10, <1>11, <1>12 DEF IInv

\* The invariant holds at the start.
LEMMA InitInv ==
  ASSUME Init
  PROVE  IInv
  <1>1. /\ spec \in Mails /\ status = [m \in Msgs |-> "new"] /\ parts = [m \in Msgs |-> <<>>]
        /\ memory = [entries |-> <<>>, bytes |-> 0]
        /\ disk = <<>> /\ dirs = {} /\ lock = {} /\ fs = NoTenant
        /\ task = [p \in Ids |-> IdleTask]
        /\ troubles = 0 /\ aged = FALSE /\ torn = {} /\ mixed = {}
    BY DEF Init
  <1>2. /\ task \in [Ids -> Task]
        /\ \A p \in Ids : task[p].pc = "idle" /\ task[p].job = "none" /\ task[p].err = ""
    BY <1>1, IdleIs
  <1>3. Types
    <2>1. <<>> \in Seq(Carries)
      OBVIOUS
    <2> QED  BY <1>1, <1>2, <2>1 DEF Types
  <1>4. MemoryFine /\ DiskFine
    BY <1>1, EmptyTier DEF MemoryFine, DiskFine
  <1>5. TasksFine
    BY <1>2 DEF TasksFine, Blamed, TaskFine, Writing
  <1>6. LockFine /\ Holding
    BY <1>1, <1>2 DEF LockFine, Holding, Writing
  <1>7. Quiet
    BY <1>1, <1>2, EmptyTier DEF Quiet, Calm
  <1>8. Space
    <2>1. Total(disk) <= DiskMax
      BY <1>1, TotalEmpty, AssumedBounds
    <2>2. \A p \in Ids : Room(p)
      BY <1>2 DEF Room
    <2> QED  BY <2>1, <2>2 DEF Space
  <1>9. BuiltMailIsRight
    BY <1>1 DEF BuiltMailIsRight
  <1> QED  BY <1>3, <1>4, <1>5, <1>6, <1>7, <1>8, <1>9 DEF IInv

LEMMA StutterInv ==
  ASSUME IInv, UNCHANGED vars
  PROVE  IInv'
  <1>1. /\ UNCHANGED <<spec, memory, disk, dirs, lock, fs, task, troubles, aged, torn, refused, mixed>>
        /\ UNCHANGED <<status, parts>>
    BY DEF vars
  <1>2. Types' /\ BuiltMailIsRight'
    BY <1>1 DEF IInv, Types, BuiltMailIsRight
  <1> QED  BY <1>1, <1>2, OnlyMail

\* Every step keeps the invariant.
LEMMA NextInv ==
  ASSUME IInv, Next
  PROVE  IInv'
  <1>1. ASSUME NEW p \in Ids, TaskStep(p)
        PROVE  IInv'
    BY <1>1, LookKeeps, UnlinkKeeps, CheckDirKeeps, RmdirKeeps, ReadKeeps, BackendKeeps,
       EnsureSpaceKeeps, EvictKeeps, OpenKeeps, WriteKeeps DEF TaskStep
  <1>2. ASSUME NEW p \in Ids, Timeout(p)
        PROVE  IInv'
    BY <1>2, TimeoutKeeps
  <1>3. ASSUME NEW m \in Msgs, Begin(m) \/ Assemble(m)
        PROVE  IInv'
    BY <1>3, BeginKeeps, AssembleKeeps
  <1> QED  BY <1>1, <1>2, <1>3, MemoryExpiresKeeps, DiskExpiresKeeps, CrashKeeps DEF Next

\* The inductive invariant holds in every reachable state of the caches, the fetches of
\* smtp/attachments.py and the mails of smtp/sender.py.
THEOREM Inductive == Spec => []IInv
  <1>1. Init => IInv
    BY InitInv
  <1>2. IInv /\ [Next]_vars => IInv'
    BY NextInv, StutterInv
  <1> QED  BY <1>1, <1>2, PTL DEF Spec

\* Types of the state, and the lock: it is free or held by a fetch that is still awaited, so no
\* cancelled or finished fetch of smtp/cache.py keeps the disk cache locked.
THEOREM TypesHold == Spec => []TypeOK
  <1>1. IInv => TypeOK
    <2> SUFFICES ASSUME IInv
                 PROVE  TypeOK
      OBVIOUS
    <2>1. \A i \in DOMAIN disk : disk[i] \in Entry /\ Subdir[disk[i].key] \in dirs
      <3>1. disk \in Seq(Entry) /\ \A e \in Items(disk) : Subdir[e.key] \in dirs
        BY InvIs DEF DiskFine, Tier
      <3> QED  BY <3>1, EntryAt DEF Items
    <2>2. \A i \in DOMAIN memory.entries : memory.entries[i] \in Entry
      <3>1. memory.entries \in Seq(Entry)
        BY InvIs, CountedIs DEF MemoryFine, Accounted
      <3> QED  BY <3>1, EntryAt
    <2>3. lock = {} \/ \E p \in Ids : lock = {p} /\ Awaited(p)
      BY InvIs DEF LockFine
    <2> QED  BY <2>1, <2>2, <2>3 DEF TypeOK, IInv, Types
  <1> QED  BY <1>1, Inductive, PTL

\* MemoryCache._current_size is the sum of what the memory cache holds, after any sequence of
\* look-ups, replacements, evictions and expiries, and never above max_memory_mb.
THEOREM MemoryCacheIsAccounted == Spec => []MemoryIsAccounted
  <1>1. IInv => MemoryIsAccounted
    BY InvIs, CountedIs DEF MemoryFine, Accounted, MemoryIsAccounted
  <1> QED  BY <1>1, Inductive, PTL

\* DiskCache makes room under its lock before it writes: unless a fetch is cancelled, the
\* process dies or the file system refuses an eviction, the files of the disk cache never add
\* up to more than max_disk_mb.  Writes that fail and leave files behind do not change that.
THEOREM DiskCacheFits == Spec => []DiskWithinLimit
  <1>1. IInv => DiskWithinLimit
    BY InvIs DEF Space, Fit, DiskWithinLimit
  <1> QED  BY <1>1, Inductive, PTL

\* _process_attachments never mixes up what its concurrent fetches return: a built mail carries,
\* in order, the whole content each attachment names or announces, the stated exceptions apart.
THEOREM BuiltMailsAreRight == Spec => []BuiltMailIsRight
  <1>1. IInv => BuiltMailIsRight
    BY InvIs
  <1> QED  BY <1>1, Inductive, PTL

\* Whatever file system operation of smtp/cache.py is refused to a fetch, no other fetch fails
\* for it: a fetch fails by what others did only in set, with its content at hand, and only
\* after a file has expired or something was cancelled.
THEOREM FetchesFailAlone == Spec => []OthersFailNoFetch
  <1>1. IInv => OthersFailNoFetch
    <2> SUFFICES ASSUME IInv, NEW p \in Ids, task[p].err = "cache"
                 PROVE  (aged \/ troubles > 0) /\ task[p].content # Nothing
      BY DEF OthersFailNoFetch
    <2>1. ~(aged = FALSE /\ troubles = 0)
      BY CalmBefore DEF Calm
    <2>2. aged \in BOOLEAN /\ troubles \in Nat
      BY InvIs
    <2>3. aged = TRUE \/ troubles # 0
      BY <2>1, <2>2
    <2>4. task[p].content.file \in Files
      BY InvIs DEF TasksFine, Blamed, Content
    <2>5. Nothing.file \notin Files
      BY AttachmentsAssumption DEF AttachmentsAssumption, Nothing
    <2> QED  BY <2>2, <2>3, <2>4, <2>5
  <1> QED  BY <1>1, Inductive, PTL
=============================================================================
