-------------------------- MODULE TimerTask_proofs --------------------------
(***************************************************************************)
(* Proofs about TimerTask, for any timers, period, timeouts, numbers of    *)
(* repetitions and length of time.                                         *)
(***************************************************************************)
EXTENDS TimerTask, FiniteSetTheorems, SequenceTheorems, TLAPS

\* No timer twice, and each before those that end later.
Ordered(list, ends) ==
  \A i, j \in 1..Len(list) : i < j => /\ list[i] # list[j]
                                     /\ ends[list[i]] <= ends[list[j]]

Has(list, t) == \E i \in 1..Len(list) : list[i] = t
-----------------------------------------------------------------------------
(* The list of active timers *)

\* AddActiveTimerToTask finds the place: as the list is ordered, the timers that
\* end earlier are as many as come first.
LEMMA InsertPosition ==
  ASSUME NEW list \in Seq(Timers), NEW t \in Timers, NEW ends \in [Timers -> Nat],
         Ordered(list, ends)
  PROVE  \E k \in 0..Len(list) :
           /\ Insert(list, t, ends) =
                SubSeq(list, 1, k) \o <<t>> \o SubSeq(list, k + 1, Len(list))
           /\ \A i \in 1..k : ends[list[i]] < ends[t]
           /\ \A i \in k + 1..Len(list) : ends[t] <= ends[list[i]]
<1> DEFINE n == Len(list)
           earlier == {i \in 1..n : ends[list[i]] < ends[t]}
           later == {i \in 1..n : ends[t] <= ends[list[i]]}
           k == Cardinality(earlier)
<1>1. /\ n \in Nat /\ ends[t] \in Nat
      /\ \A i \in 1..n : list[i] \in Timers /\ ends[list[i]] \in Nat
  BY LenProperties, ElementOfSeq
<1>o. \A i, j \in 1..n : i < j => ends[list[i]] <= ends[list[j]]  BY DEF Ordered
<1>n. n \in Nat  BY <1>1
<1> HIDE DEF n
<1>2. IsFiniteSet(1..n) /\ Cardinality(1..n) = n
  <2>1. /\ IsFiniteSet(1..n)
        /\ Cardinality(1..n) = IF 1 > n THEN 0 ELSE n - 1 + 1
    <3>1. 1 \in Int /\ n \in Int  BY <1>n
    <3> HIDE DEF earlier, later, k
    <3> QED  BY ONLY <3>1, FS_Interval
  <2> QED  BY ONLY <1>n, <2>1
<1>3. IsFiniteSet(earlier) /\ k <= n
  <2>1. earlier \in SUBSET (1..n)  OBVIOUS
  <2> QED  BY ONLY <1>2, <2>1, FS_Subset
<1>4. k \in Nat  BY <1>3, FS_CardinalityType
<1>5. earlier = 1..k
  <2>1. ASSUME NEW i \in earlier PROVE i \in 1..k
    <3>1. i \in 1..n /\ ends[list[i]] < ends[t]  OBVIOUS
    <3>2. 1..i \in SUBSET earlier
      <4>1. ASSUME NEW j \in 1..i PROVE j \in earlier
        <5>1. j \in 1..n  BY <1>1, <3>1
        <5>2. ends[list[j]] <= ends[list[i]]
          <6>1. CASE j = i  BY <6>1, <1>1, <3>1
          <6>2. CASE j # i  BY <6>2, <1>o, <3>1, <5>1
          <6> QED  BY <6>1, <6>2
        <5> QED  BY <1>1, <3>1, <5>1, <5>2
      <4> QED  BY <4>1
    <3>3. Cardinality(1..i) = i  BY ONLY <3>1, <1>1, FS_Interval
    <3>4. Cardinality(1..i) <= k  BY ONLY <3>2, <1>3, FS_Subset
    <3> HIDE DEF k
    <3> QED  BY <3>1, <3>3, <3>4, <1>4
  <2>2. IsFiniteSet(1..k) /\ Cardinality(1..k) = k  BY ONLY <1>4, FS_Interval
  <2>3. earlier \in SUBSET (1..k)  BY <2>1
  <2> QED  BY ONLY <2>2, <2>3, FS_Subset
<1> HIDE DEF k
<1>9. \A i \in 1..k : ends[list[i]] < ends[t]  BY <1>5
<1>6. later = k + 1..n
  <2>1. \A i \in 1..n : i \in later <=> i \notin earlier  BY <1>1
  <2>2. \A i \in 1..n : i \in later <=> i \notin 1..k  BY <2>1, <1>5
  <2>3. later \subseteq 1..n  OBVIOUS
  <2> HIDE DEF later, earlier
  <2>4. k \in 0..n  BY ONLY <1>n, <1>3, <1>4
  <2>5. ASSUME NEW i \in 1..n PROVE i \notin 1..k <=> i \in k + 1..n
    BY ONLY <2>4, <2>5, <1>n
  <2>6. k + 1..n \subseteq 1..n  BY ONLY <2>4, <1>n
  <2> QED  BY ONLY <2>2, <2>3, <2>5, <2>6
<1>10. \A i \in k + 1..n : ends[t] <= ends[list[i]]  BY <1>6
<1> DEFINE pos == IF later = {} THEN n + 1
                  ELSE CHOOSE i \in later : \A j \in later : i <= j
<1>7. pos = k + 1
  <2> HIDE DEF later
  <2>1. CASE k = n
    BY ONLY <2>1, <1>1, <1>6 DEF pos
  <2>2. CASE k # n
    <3>1. k + 1 \in later /\ \A j \in later : k + 1 <= j
      BY ONLY <2>2, <1>1, <1>3, <1>4, <1>6
    <3>2. \A i \in later : (\A j \in later : i <= j) => i = k + 1
      BY ONLY <3>1, <1>1, <1>4, <1>6
    <3> QED  BY ONLY <3>1, <3>2 DEF pos
  <2> QED  BY <2>1, <2>2
<1>8. Insert(list, t, ends) = SubSeq(list, 1, k) \o <<t>> \o SubSeq(list, k + 1, n)
  <2>1. Insert(list, t, ends) = SubSeq(list, 1, pos - 1) \o <<t>> \o SubSeq(list, pos, n)
    BY DEF Insert, n
  <2> HIDE DEF pos
  <2>2. pos - 1 = k  BY ONLY <1>7, <1>4
  <2> QED  BY ONLY <2>1, <2>2, <1>7
<1>11. k \in 0..n  BY ONLY <1>1, <1>3, <1>4
<1> QED  BY ONLY <1>8, <1>9, <1>10, <1>11 DEF n

\* What AddActiveTimerToTask does to an ordered list without the timer.
LEMMA InsertFacts ==
  ASSUME NEW list \in Seq(Timers), NEW t \in Timers, NEW ends \in [Timers -> Nat],
         Ordered(list, ends), ~Has(list, t)
  PROVE  /\ Insert(list, t, ends) \in Seq(Timers)
         /\ Insert(list, t, ends) # << >>
         /\ Ordered(Insert(list, t, ends), ends)
         /\ \A x \in Timers : Has(Insert(list, t, ends), x) <=> x = t \/ Has(list, x)
         /\ \/ Head(Insert(list, t, ends)) = t
            \/ (list # << >> /\ Head(Insert(list, t, ends)) = Head(list))
<1>0. PICK k \in 0..Len(list) :
      /\ Insert(list, t, ends) =
           SubSeq(list, 1, k) \o <<t>> \o SubSeq(list, k + 1, Len(list))
      /\ \A i \in 1..k : ends[list[i]] < ends[t]
      /\ \A i \in k + 1..Len(list) : ends[t] <= ends[list[i]]
  BY InsertPosition
<1> DEFINE new == SubSeq(list, 1, k) \o <<t>> \o SubSeq(list, k + 1, Len(list))
           n == Len(list)
<1>1. n \in Nat /\ \A i \in 1..n : list[i] \in Timers  BY LenProperties, ElementOfSeq
<1>k. k \in 0..n  OBVIOUS
<1>a. /\ SubSeq(list, 1, k) \in Seq(Timers) /\ Len(SubSeq(list, 1, k)) = k
      /\ \A i \in 1..k : SubSeq(list, 1, k)[i] = list[i]
  BY <1>1, <1>k, SubSeqProperties
<1>b. /\ SubSeq(list, k + 1, n) \in Seq(Timers) /\ Len(SubSeq(list, k + 1, n)) = n - k
      /\ \A i \in 1..n - k : SubSeq(list, k + 1, n)[i] = list[k + i]
  <2>1. k + 1 \in Int /\ n \in Int /\ \A i \in k + 1..n : list[i] \in Timers
    BY ONLY <1>1, <1>k
  <2>2. /\ SubSeq(list, k + 1, n) \in Seq(Timers)
        /\ Len(SubSeq(list, k + 1, n)) = IF k + 1 <= n THEN n - (k + 1) + 1 ELSE 0
        /\ \A i \in 1..n - (k + 1) + 1 : SubSeq(list, k + 1, n)[i] = list[(k + 1) + i - 1]
    BY ONLY <2>1, SubSeqProperties
  <2> HIDE DEF n
  <2> DEFINE rest == SubSeq(list, k + 1, n)
  <2>3. /\ rest \in Seq(Timers)
        /\ Len(rest) = IF k + 1 <= n THEN n - (k + 1) + 1 ELSE 0
        /\ \A i \in 1..n - (k + 1) + 1 : rest[i] = list[(k + 1) + i - 1]
    BY ONLY <2>2
  <2>4. n \in Nat /\ k \in 0..n  BY ONLY <1>1, <1>k
  <2> HIDE DEF rest
  <2>5. Len(rest) = n - k  BY ONLY <2>3, <2>4
  <2>6. ASSUME NEW i \in 1..n - k PROVE rest[i] = list[k + i]
    <3>1. i \in 1..n - (k + 1) + 1 /\ (k + 1) + i - 1 = k + i  BY ONLY <2>4, <2>6
    <3> QED  BY ONLY <3>1, <2>3
  <2>7. /\ rest \in Seq(Timers) /\ Len(rest) = n - k
        /\ \A i \in 1..n - k : rest[i] = list[k + i]
    BY ONLY <2>3, <2>5, <2>6
  <2> QED  BY ONLY <2>7 DEF rest
<1>c. /\ SubSeq(list, 1, k) \o <<t>> \in Seq(Timers)
      /\ Len(SubSeq(list, 1, k) \o <<t>>) = k + 1
      /\ \A i \in 1..k + 1 : (SubSeq(list, 1, k) \o <<t>>)[i] = IF i <= k THEN list[i] ELSE t
  BY <1>a, <1>k, ConcatProperties
<1>d. /\ new \in Seq(Timers) /\ Len(new) = n + 1
      /\ \A i \in 1..n + 1 :
           new[i] = IF i <= k THEN list[i] ELSE IF i = k + 1 THEN t ELSE list[i - 1]
  <2> DEFINE u == SubSeq(list, 1, k) \o <<t>>
             v == SubSeq(list, k + 1, n)
  <2>1. /\ new \in Seq(Timers) /\ Len(new) = Len(u) + Len(v)
        /\ \A i \in 1..Len(u) + Len(v) :
             new[i] = IF i <= Len(u) THEN u[i] ELSE v[i - Len(u)]
    BY <1>b, <1>c, ConcatProperties
  <2>2. /\ Len(u) = k + 1 /\ Len(v) = n - k /\ n \in Nat
        /\ \A i \in 1..k + 1 : u[i] = IF i <= k THEN list[i] ELSE t
        /\ \A i \in 1..n - k : v[i] = list[k + i]
    BY <1>1, <1>b, <1>c
  <2> HIDE DEF u, v, new, n
  <2>3. new \in Seq(Timers) /\ Len(new) = n + 1  BY ONLY <2>1, <2>2, <1>k
  <2>4. ASSUME NEW i \in 1..n + 1
        PROVE  new[i] = IF i <= k THEN list[i] ELSE IF i = k + 1 THEN t ELSE list[i - 1]
    <3>1. new[i] = IF i <= k + 1 THEN u[i] ELSE v[i - (k + 1)]  BY ONLY <2>1, <2>2, <2>4, <1>k
    <3>2. CASE i <= k + 1  BY ONLY <3>1, <3>2, <2>2, <2>4, <1>k
    <3>3. CASE i > k + 1
      <4>1. i - (k + 1) \in 1..n - k  BY ONLY <3>3, <2>2, <2>4, <1>k
      <4>2. k + (i - (k + 1)) = i - 1  BY ONLY <2>4, <1>k
      <4> QED  BY ONLY <3>1, <3>3, <4>1, <4>2, <2>2, <2>4, <1>k
    <3> QED  BY ONLY <3>2, <3>3, <2>4, <1>k
  <2> QED  BY ONLY <2>3, <2>4
<1>2. new \in Seq(Timers) /\ Len(new) = n + 1  BY <1>d
<1>3. \A i \in 1..n + 1 :
        new[i] = IF i <= k THEN list[i] ELSE IF i = k + 1 THEN t ELSE list[i - 1]
  BY <1>d
<1>e. /\ \A i \in 1..n : ends[list[i]] \in Nat /\ list[i] # t
      /\ \A i, j \in 1..n : i < j => list[i] # list[j] /\ ends[list[i]] <= ends[list[j]]
      /\ \A x : Has(list, x) <=> \E i \in 1..n : list[i] = x
      /\ ends[t] \in Nat
  BY <1>1 DEF Has, Ordered
<1>f. /\ \A i \in 1..k : ends[list[i]] < ends[t]
      /\ \A i \in k + 1..n : ends[t] <= ends[list[i]]
      /\ Insert(list, t, ends) = new
  BY <1>0
<1>g. list # << >> => 1 \in 1..n /\ Head(list) = list[1]  BY EmptySeq
<1>h. n > 0 => list # << >>  OBVIOUS
<1>n. n \in Nat  BY <1>1
<1> HIDE DEF n, new
<1>4. \A x \in Timers : Has(new, x) <=> x = t \/ Has(list, x)
  <2>1. ASSUME NEW x \in Timers, NEW i \in 1..n + 1, new[i] = x, x # t
        PROVE  \E j \in 1..n : list[j] = x
    <3>1. CASE i <= k
      <4>1. i \in 1..n /\ list[i] = x  BY ONLY <2>1, <3>1, <1>3, <1>n, <1>k
      <4> QED  BY <4>1
    <3>2. CASE i > k
      <4>1. i - 1 \in 1..n /\ list[i - 1] = x  BY ONLY <2>1, <3>2, <1>3, <1>n, <1>k
      <4> QED  BY <4>1
    <3> QED  BY ONLY <2>1, <3>1, <3>2, <1>k, <1>n
  <2>2. k + 1 \in 1..n + 1 /\ new[k + 1] = t  BY ONLY <1>3, <1>n, <1>k
  <2>3. ASSUME NEW i \in 1..n PROVE \E j \in 1..n + 1 : new[j] = list[i]
    <3>1. CASE i <= k
      <4>1. i \in 1..n + 1 /\ new[i] = list[i]  BY ONLY <2>3, <3>1, <1>3, <1>n, <1>k
      <4> QED  BY <4>1
    <3>2. CASE i > k
      <4>1. i + 1 \in 1..n + 1 /\ (i + 1) - 1 = i /\ ~(i + 1 <= k) /\ i + 1 # k + 1
        BY ONLY <2>3, <3>2, <1>n, <1>k
      <4>2. new[i + 1] = list[i]  BY ONLY <4>1, <1>3
      <4> QED  BY <4>1, <4>2
    <3> QED  BY ONLY <2>3, <3>1, <3>2, <1>k, <1>n
  <2>4. \A x : Has(new, x) <=> \E i \in 1..n + 1 : new[i] = x  BY <1>2 DEF Has
  <2> QED  BY ONLY <2>1, <2>2, <2>3, <2>4, <1>e
<1>5. Ordered(new, ends)
  <2> SUFFICES ASSUME NEW i \in 1..n + 1, NEW j \in 1..n + 1, i < j
               PROVE  new[i] # new[j] /\ ends[new[i]] <= ends[new[j]]
    BY <1>2 DEF Ordered
  <2>1. CASE j <= k
    <3>1. i \in 1..n /\ j \in 1..n /\ new[i] = list[i] /\ new[j] = list[j]
      BY ONLY <2>1, <1>3, <1>n, <1>k, i \in 1..n + 1, j \in 1..n + 1, i < j
    <3> QED  BY ONLY <3>1, <1>e, i < j
  <2>2. CASE j = k + 1
    <3>1. new[i] = list[i] /\ new[j] = t /\ i \in 1..k /\ i \in 1..n
      BY ONLY <2>2, <1>3, <1>n, <1>k, i \in 1..n + 1, j \in 1..n + 1, i < j
    <3> QED  BY ONLY <3>1, <1>e, <1>f
  <2>3. CASE j > k + 1 /\ i = k + 1
    <3>1. new[i] = t /\ new[j] = list[j - 1] /\ j - 1 \in k + 1..n /\ j - 1 \in 1..n
      BY ONLY <2>3, <1>3, <1>n, <1>k, i \in 1..n + 1, j \in 1..n + 1
    <3> QED  BY ONLY <3>1, <1>e, <1>f
  <2>4. CASE j > k + 1 /\ i <= k
    <3>1. /\ new[i] = list[i] /\ new[j] = list[j - 1]
          /\ i \in 1..n /\ j - 1 \in 1..n /\ i < j - 1
      BY ONLY <2>4, <1>3, <1>n, <1>k, i \in 1..n + 1, j \in 1..n + 1
    <3> QED  BY ONLY <3>1, <1>e
  <2>5. CASE j > k + 1 /\ i > k + 1
    <3>1. /\ new[i] = list[i - 1] /\ new[j] = list[j - 1]
          /\ i - 1 \in 1..n /\ j - 1 \in 1..n /\ i - 1 < j - 1
      BY ONLY <2>5, <1>3, <1>n, <1>k, i \in 1..n + 1, j \in 1..n + 1, i < j
    <3> QED  BY ONLY <3>1, <1>e
  <2> QED  BY ONLY <2>1, <2>2, <2>3, <2>4, <2>5, <1>n, <1>k, i \in 1..n + 1, j \in 1..n + 1
<1>6. new # << >> /\ Head(new) = new[1]
  <2>1. new # << >>  BY ONLY <1>n, <1>2
  <2> QED  BY ONLY <2>1, <1>2
<1>7. Head(new) = t \/ (list # << >> /\ Head(new) = Head(list))
  <2>1. CASE k = 0  BY ONLY <2>1, <1>6, <1>3, <1>n
  <2>2. CASE k > 0
    <3>1. new[1] = list[1] /\ n > 0  BY ONLY <2>2, <1>3, <1>n, <1>k
    <3> QED  BY ONLY <3>1, <1>6, <1>g, <1>h
  <2> QED  BY ONLY <2>1, <2>2, <1>k
<1> HIDE DEF new
<1> QED  BY ONLY <1>2, <1>4, <1>5, <1>6, <1>7, <1>f

\* What StopTimer does to an ordered list.
LEMMA WithoutFacts ==
  ASSUME NEW list \in Seq(Timers), NEW t \in Timers, NEW ends, Ordered(list, ends)
  PROVE  /\ Without(list, t) \in Seq(Timers)
         /\ Ordered(Without(list, t), ends)
         /\ \A x \in Timers : Has(Without(list, t), x) <=> x # t /\ Has(list, x)
         /\ Without(list, t) # << >> => /\ list # << >>
                                        /\ \/ Head(list) = t
                                           \/ Head(Without(list, t)) = Head(list)
<1>1. CASE ~Has(list, t)  BY <1>1 DEF Without, Has
<1>2. CASE Has(list, t)
  <2> DEFINE k == CHOOSE j \in 1..Len(list) : list[j] = t
             new == SubSeq(list, 1, k - 1) \o SubSeq(list, k + 1, Len(list))
             n == Len(list)
  <2>1. k \in 1..n /\ list[k] = t  BY <1>2 DEF Has
  <2>2. Without(list, t) = new  BY <1>2 DEF Without, Has
  <2> HIDE DEF k
  <2>3. n \in Nat /\ \A i \in 1..n : list[i] \in Timers  BY LenProperties, ElementOfSeq
  <2>n. n \in Nat  BY <2>3
  <2> HIDE DEF n
  <2>a. /\ SubSeq(list, 1, k - 1) \in Seq(Timers) /\ Len(SubSeq(list, 1, k - 1)) = k - 1
        /\ \A i \in 1..k - 1 : SubSeq(list, 1, k - 1)[i] = list[i]
    <3>1. 1 \in Int /\ k - 1 \in Int /\ \A i \in 1..k - 1 : list[i] \in Timers
      BY ONLY <2>1, <2>3
    <3>2. /\ SubSeq(list, 1, k - 1) \in Seq(Timers)
          /\ Len(SubSeq(list, 1, k - 1)) = IF 1 <= k - 1 THEN (k - 1) - 1 + 1 ELSE 0
          /\ \A i \in 1..(k - 1) - 1 + 1 : SubSeq(list, 1, k - 1)[i] = list[1 + i - 1]
      BY ONLY <3>1, SubSeqProperties
    <3> QED  BY ONLY <3>2, <2>1, <2>n
  <2>b. /\ SubSeq(list, k + 1, n) \in Seq(Timers) /\ Len(SubSeq(list, k + 1, n)) = n - k
        /\ \A i \in 1..n - k : SubSeq(list, k + 1, n)[i] = list[k + i]
    <3>1. k + 1 \in Int /\ n \in Int /\ \A i \in k + 1..n : list[i] \in Timers
      BY ONLY <2>1, <2>3
    <3>2. /\ SubSeq(list, k + 1, n) \in Seq(Timers)
          /\ Len(SubSeq(list, k + 1, n)) = IF k + 1 <= n THEN n - (k + 1) + 1 ELSE 0
          /\ \A i \in 1..n - (k + 1) + 1 : SubSeq(list, k + 1, n)[i] = list[(k + 1) + i - 1]
      BY ONLY <3>1, SubSeqProperties
    <3> QED  BY ONLY <3>2, <2>1, <2>n
  <2>c. /\ new \in Seq(Timers) /\ Len(new) = n - 1
        /\ \A i \in 1..n - 1 : new[i] = IF i < k THEN list[i] ELSE list[i + 1]
    <3> DEFINE u == SubSeq(list, 1, k - 1)
               v == SubSeq(list, k + 1, n)
    <3>1. /\ new \in Seq(Timers) /\ Len(new) = Len(u) + Len(v)
          /\ \A i \in 1..Len(u) + Len(v) :
               new[i] = IF i <= Len(u) THEN u[i] ELSE v[i - Len(u)]
      BY <2>a, <2>b, ConcatProperties DEF n
    <3>2. /\ Len(u) = k - 1 /\ Len(v) = n - k
          /\ \A i \in 1..k - 1 : u[i] = list[i]
          /\ \A i \in 1..n - k : v[i] = list[k + i]
      BY ONLY <2>a, <2>b
    <3> HIDE DEF u, v, new
    <3>3. new \in Seq(Timers) /\ Len(new) = n - 1  BY ONLY <3>1, <3>2, <2>1, <2>n
    <3>4. ASSUME NEW i \in 1..n - 1
          PROVE  new[i] = IF i < k THEN list[i] ELSE list[i + 1]
      <4>1. new[i] = IF i <= k - 1 THEN u[i] ELSE v[i - (k - 1)]
        BY ONLY <3>1, <3>2, <3>4, <2>1, <2>n
      <4>2. CASE i < k  BY ONLY <4>1, <4>2, <3>2, <3>4, <2>1, <2>n
      <4>3. CASE i >= k
        <5>1. i - (k - 1) \in 1..n - k /\ k + (i - (k - 1)) = i + 1
          BY ONLY <4>3, <3>4, <2>1, <2>n
        <5> QED  BY ONLY <4>1, <4>3, <5>1, <3>2, <3>4, <2>1, <2>n
      <4> QED  BY ONLY <4>2, <4>3, <3>4, <2>1, <2>n
    <3> QED  BY ONLY <3>3, <3>4
  <2>4. new \in Seq(Timers) /\ Len(new) = n - 1  BY <2>c
  <2>5. \A i \in 1..n - 1 : new[i] = IF i < k THEN list[i] ELSE list[i + 1]  BY <2>c
  <2>g. list # << >> /\ Head(list) = list[1]  BY <2>1 DEF n
  <2> HIDE DEF new
  <2>o. /\ \A i, j \in 1..n : i < j => list[i] # list[j] /\ ends[list[i]] <= ends[list[j]]
        /\ \A x : Has(list, x) <=> \E i \in 1..n : list[i] = x
        /\ \A x : Has(new, x) <=> \E i \in 1..n - 1 : new[i] = x
    BY <2>4 DEF Ordered, Has, n
  <2>6. \A i \in 1..n : list[i] = t => i = k
    <3> TAKE i \in 1..n
    <3>1. i < k => list[i] # list[k]  BY <2>o, <2>1
    <3>2. k < i => list[k] # list[i]  BY <2>o, <2>1
    <3> QED  BY ONLY <3>1, <3>2, <2>1, <2>n
  <2>7. \A x \in Timers : Has(new, x) <=> x # t /\ Has(list, x)
    <3> TAKE x \in Timers
    <3>1. ASSUME Has(new, x) PROVE x # t /\ Has(list, x)
      <4>1. PICK i \in 1..n - 1 : new[i] = x  BY <3>1, <2>4 DEF Has
      <4>2. CASE i < k
        <5>1. i \in 1..n /\ i # k /\ list[i] = x  BY <4>1, <4>2, <2>1, <2>3, <2>5
        <5> QED  BY ONLY <5>1, <2>6, <2>o
      <4>3. CASE i >= k
        <5>1. i + 1 \in 1..n /\ i + 1 # k /\ list[i + 1] = x
          BY <4>1, <4>3, <2>1, <2>3, <2>5
        <5> QED  BY ONLY <5>1, <2>6, <2>o
      <4> QED  BY <4>2, <4>3, <2>1
    <3>2. ASSUME x # t, Has(list, x) PROVE Has(new, x)
      <4>1. PICK i \in 1..n : list[i] = x  BY <3>2, <2>o
      <4>2. i # k  BY <4>1, <3>2, <2>1
      <4>3. CASE i < k
        <5>1. i \in 1..n - 1 /\ new[i] = x  BY <4>1, <4>3, <2>1, <2>3, <2>5
        <5> QED  BY <5>1, <2>4 DEF Has
      <4>4. CASE i > k
        <5>1. i - 1 \in 1..n - 1 /\ new[i - 1] = x  BY <4>1, <4>4, <2>1, <2>3, <2>5
        <5> QED  BY <5>1, <2>4 DEF Has
      <4> QED  BY <4>2, <4>3, <4>4, <2>1
    <3> QED  BY <3>1, <3>2
  <2>8. Ordered(new, ends)
    <3> SUFFICES ASSUME NEW i \in 1..n - 1, NEW j \in 1..n - 1, i < j
                 PROVE  new[i] # new[j] /\ ends[new[i]] <= ends[new[j]]
      BY <2>4 DEF Ordered
    <3>1. PICK a \in 1..n, b \in 1..n : a < b /\ new[i] = list[a] /\ new[j] = list[b]
      <4>1. CASE j < k
        <5>1. i \in 1..n /\ j \in 1..n /\ new[i] = list[i] /\ new[j] = list[j]
          BY <4>1, <2>1, <2>3, <2>5
        <5> QED  BY <5>1
      <4>2. CASE i < k /\ j >= k
        <5>1. /\ i \in 1..n /\ j + 1 \in 1..n /\ i < j + 1
              /\ new[i] = list[i] /\ new[j] = list[j + 1]
          BY <4>2, <2>1, <2>3, <2>5
        <5> QED  BY <5>1
      <4>3. CASE i >= k
        <5>1. /\ i + 1 \in 1..n /\ j + 1 \in 1..n /\ i + 1 < j + 1
              /\ new[i] = list[i + 1] /\ new[j] = list[j + 1]
          BY <4>3, <2>1, <2>3, <2>5
        <5> QED  BY <5>1
      <4> QED  BY <4>1, <4>2, <4>3, <2>1
    <3> QED  BY ONLY <3>1, <2>o
  <2>9. new # << >> => list # << >> /\ (Head(list) = t \/ Head(new) = Head(list))
    <3> SUFFICES ASSUME new # << >>
                 PROVE  list # << >> /\ (Head(list) = t \/ Head(new) = Head(list))
      OBVIOUS
    <3>1. 1 \in 1..n - 1 /\ Head(new) = new[1] /\ Head(list) = list[1]
      BY <2>1, <2>3, <2>4
    <3> QED  BY ONLY <3>1, <2>1, <2>5, <2>g, <2>n
  <2> QED  BY <2>2, <2>4, <2>7, <2>8, <2>9
<1> QED  BY <1>1, <1>2

\* The list less its first timer.
LEMMA TailFacts ==
  ASSUME NEW list \in Seq(Timers), list # << >>, NEW ends, Ordered(list, ends)
  PROVE  /\ Head(list) \in Timers /\ Has(list, Head(list))
         /\ Tail(list) \in Seq(Timers)
         /\ Ordered(Tail(list), ends)
         /\ \A x \in Timers : Has(Tail(list), x) <=> x # Head(list) /\ Has(list, x)
<1> DEFINE n == Len(list)
           new == Tail(list)
<1>1. n \in Nat \ {0} /\ Head(list) = list[1] /\ \A i \in 1..n : list[i] \in Timers
  OBVIOUS
<1>2. new \in Seq(Timers) /\ Len(new) = n - 1
      /\ \A i \in 1..n - 1 : new[i] = list[i + 1]
  OBVIOUS
<1> HIDE DEF new
<1>3. Ordered(new, ends)
  <2> SUFFICES ASSUME NEW i \in 1..n - 1, NEW j \in 1..n - 1, i < j
               PROVE  new[i] # new[j] /\ ends[new[i]] <= ends[new[j]]
    BY <1>2 DEF Ordered
  <2>1. i + 1 \in 1..n /\ j + 1 \in 1..n /\ i + 1 < j + 1  BY <1>1
  <2> QED  BY <2>1, <1>2 DEF Ordered
<1>4. \A x \in Timers : Has(new, x) <=> x # Head(list) /\ Has(list, x)
  <2> TAKE x \in Timers
  <2>1. ASSUME Has(new, x) PROVE x # Head(list) /\ Has(list, x)
    <3>1. PICK i \in 1..n - 1 : new[i] = x  BY <2>1, <1>2 DEF Has
    <3>2. i + 1 \in 1..n /\ 1 \in 1..n /\ 1 < i + 1 /\ list[i + 1] = x
      BY <3>1, <1>1, <1>2
    <3> QED  BY <3>2, <1>1 DEF Has, Ordered
  <2>2. ASSUME x # Head(list), Has(list, x) PROVE Has(new, x)
    <3>1. PICK i \in 1..n : list[i] = x  BY <2>2 DEF Has
    <3>2. i - 1 \in 1..n - 1 /\ new[i - 1] = x  BY <3>1, <2>2, <1>1, <1>2
    <3> QED  BY <3>2, <1>2 DEF Has
  <2> QED  BY <2>1, <2>2
<1>5. 1 \in 1..n /\ list[1] = Head(list)  BY <1>1
<1> QED  BY <1>1, <1>2, <1>3, <1>4, <1>5 DEF new, Has
-----------------------------------------------------------------------------
(* The inductive invariant.  It is about a task in use: fmDeleteTimerTask    *)
(* is final.                                                                 *)

Labels == {"idle", "restart", "ready", "waitSem", "insert", "stop", "stopDelete",
           "unlink", "free"}

Typed ==
  /\ now \in Nat /\ active \in Seq(Timers) /\ exists \subseteq Timers
  /\ running \in [Timers -> BOOLEAN]
  /\ end \in [Timers -> Nat] /\ began \in [Timers -> Nat]
  /\ duration \in [Timers -> Nat]
  /\ nrRepetitions \in [Timers -> Int] /\ soFar \in [Timers -> Nat]
  /\ cpc \in [Timers -> Labels]

\* A call that has found its timer not running, or has stopped it, is right
\* about it until it is over: the timer is the caller's alone.
CallsAreRight ==
  \A t \in Timers :
    /\ cpc[t] \in {"ready", "waitSem", "insert", "unlink", "free"} => ~running[t]
    /\ cpc[t] # "idle" => t \in exists

Members == \A t \in Timers : running[t] <=> Has(active, t)

HasRepetitionsLeft(t) == nrRepetitions[t] = Forever \/ soFar[t] < nrRepetitions[t]
Alive == \A t \in Timers : running[t] => t \in exists /\ HasRepetitionsLeft(t)

WakesInTime ==
  mode = EventDriven /\ lpc = "wait" /\ active # << >> /\ ~signalled =>
    timeout # NoTimer /\ wakeAt <= end[Head(active)]

OnSchedule ==
  \A t \in Timers : running[t] => end[t] = began[t] + (soFar[t] + 1) * duration[t]

Sound == /\ Typed /\ CallsAreRight /\ Ordered(active, end) /\ Members /\ Alive
         /\ WakesInTime /\ OnSchedule
TimerInv == InUse => Sound

LEMMA SoundInit == Init => TimerInv
BY DEF Init, TimerInv, Labels, Sound, Typed, CallsAreRight, Ordered, Has, Members, Alive,
       WakesInTime, OnSchedule

LEMMA NextRepetition ==
  \A b, n, d \in Nat : b + (n + 1) * d + d = b + (n + 1 + 1) * d
OBVIOUS

\* What the properties need of the parts of a state that a step leaves alone.
LEMMA SoundUnchanged ==
  ASSUME Sound,
         UNCHANGED <<active, running, end, began, duration, nrRepetitions, soFar>>,
         now' \in Nat, exists' \subseteq Timers, exists \subseteq exists',
         cpc' \in [Timers -> Labels], CallsAreRight', WakesInTime'
  PROVE  Sound'
BY DEF Sound, Typed, Ordered, Members, Has, Alive, HasRepetitionsLeft, OnSchedule
-----------------------------------------------------------------------------
(* The clients *)

LEMMA TickSound == Sound /\ Tick => Sound'
<1> SUFFICES ASSUME Sound, Tick PROVE Sound'  OBVIOUS
<1>1. CallsAreRight' /\ WakesInTime'
  BY DEF Sound, Tick, taskVars, threadVars, fieldVars, CallsAreRight, WakesInTime
<1>2. now' \in Nat /\ cpc' \in [Timers -> Labels]  BY DEF Tick, Sound, Typed
<1> QED  BY <1>1, <1>2, SoundUnchanged DEF Tick, taskVars, fieldVars, Sound, Typed

LEMMA CreateSound == ASSUME Sound, NEW t \in Timers, CreateTimer(t) PROVE Sound'
<1>1. CallsAreRight'  BY DEF Sound, CreateTimer, Client, fieldVars, CallsAreRight
<1>2. WakesInTime'
  BY DEF Sound, CreateTimer, taskVars, threadVars, fieldVars, WakesInTime
<1>3. cpc' \in [Timers -> Labels]  BY DEF Sound, Typed, Labels, CreateTimer, Client
<1> QED
  BY <1>1, <1>2, <1>3, SoundUnchanged DEF CreateTimer, taskVars, fieldVars, Sound, Typed

LEMMA CallSound ==
  ASSUME Sound, NEW t \in Timers, NEW a \in Labels, NEW b \in Labels, Call(t, a, b),
         a \notin {"ready", "waitSem", "insert", "unlink", "free"}
  PROVE  Sound'
<1>1. CallsAreRight'  BY DEF Sound, Typed, Call, Client, fieldVars, CallsAreRight
<1>2. WakesInTime'  BY DEF Sound, Call, taskVars, threadVars, fieldVars, WakesInTime
<1>3. cpc' \in [Timers -> Labels]  BY DEF Sound, Typed, Call, Client
<1> QED  BY <1>1, <1>2, <1>3, SoundUnchanged DEF Call, taskVars, fieldVars, Sound, Typed

LEMMA StopSound == ASSUME Sound, NEW t \in Timers, StopTimer(t) PROVE Sound'
<1>1. /\ Typed /\ CallsAreRight /\ Members /\ Alive /\ WakesInTime /\ OnSchedule
      /\ Ordered(active, end)
  BY DEF Sound
<1>2. /\ active' = Without(active, t) /\ running' = [running EXCEPT ![t] = FALSE]
      /\ UNCHANGED <<mode, now, threadVars, exists, end, duration, nrRepetitions,
                     soFar, began>>
  BY DEF StopTimer
<1>3. /\ active' \in Seq(Timers) /\ Ordered(active', end)
      /\ \A x \in Timers : Has(active', x) <=> x # t /\ Has(active, x)
      /\ active' # << >> => /\ active # << >>
                            /\ Head(active) = t \/ Head(active') = Head(active)
  BY <1>1, <1>2, WithoutFacts DEF Typed
<1>4. Typed'
  <2>1. cpc' \in [Timers -> Labels]  BY <1>1 DEF Typed, Labels, StopTimer, Client
  <2> QED  BY <1>1, <1>2, <1>3, <2>1 DEF Typed
<1>5. CallsAreRight'
  BY <1>1, <1>2 DEF CallsAreRight, StopTimer, Client, Typed
<1>6. Ordered(active, end)'  BY <1>2, <1>3 DEF Ordered
<1>7. Members'  BY <1>1, <1>2, <1>3 DEF Members, Has, Typed
<1>8. Alive'  BY <1>1, <1>2 DEF Alive, HasRepetitionsLeft, Typed
<1>9. OnSchedule'  BY <1>1, <1>2 DEF OnSchedule, Typed
<1>10. WakesInTime'
  <2> SUFFICES ASSUME mode' = EventDriven, lpc' = "wait", active' # << >>, ~signalled'
               PROVE  timeout' # NoTimer /\ wakeAt' <= end'[Head(active')]
    BY DEF WakesInTime
  <2>1. mode = EventDriven /\ lpc = "wait"  BY <1>2 DEF threadVars
  <2>2. First(active) # t /\ ~signalled
    BY <2>1 DEF StopTimer, WakeupIf, Wakeup
  <2>3. active # << >> /\ Head(active') = Head(active)  BY <1>3, <2>2 DEF First
  <2> QED  BY <1>1, <1>2, <2>1, <2>2, <2>3 DEF WakesInTime, threadVars
<1> QED  BY <1>4, <1>5, <1>6, <1>7, <1>8, <1>9, <1>10 DEF Sound

LEMMA WaitSound ==
  ASSUME Sound, NEW t \in Timers, CheckInitialized(t) \/ WaitSem(t) \/ UnlinkTimer(t)
  PROVE  Sound'
<1> USE DEF CheckInitialized, WaitSem, UnlinkTimer, taskVars, threadVars, fieldVars
<1>1. CallsAreRight'  BY DEF Sound, Typed, Client, CallsAreRight
<1>2. WakesInTime'  BY DEF Sound, WakesInTime
<1>3. cpc' \in [Timers -> Labels]  BY DEF Sound, Typed, Labels, Client
<1> QED  BY <1>1, <1>2, <1>3, SoundUnchanged DEF Sound, Typed

LEMMA StartSound == ASSUME Sound, NEW t \in Timers, StartTimer(t) PROVE Sound'
<1>1. /\ Typed /\ CallsAreRight /\ Members /\ Alive /\ WakesInTime /\ OnSchedule
      /\ Ordered(active, end)
  BY DEF Sound
<1>2. PICK d \in Timeouts, n \in Repetitions :
        /\ running' = [running EXCEPT ![t] = TRUE]
        /\ soFar' = [soFar EXCEPT ![t] = 0]
        /\ nrRepetitions' = [nrRepetitions EXCEPT ![t] = n]
        /\ duration' = [duration EXCEPT ![t] = d]
        /\ began' = [began EXCEPT ![t] = now]
        /\ end' = [end EXCEPT ![t] = now + d]
  BY DEF StartTimer
<1>3. /\ active' = Insert(active, t, end')
      /\ UNCHANGED <<mode, now, threadVars, exists>>
  BY DEF StartTimer
<1>4. d \in Nat /\ n \in Int /\ (n = Forever \/ 0 < n)
  BY TimesAssumption, RepetitionsAssumption DEF Forever
<1>5. cpc[t] = "insert" /\ ~running[t] /\ t \in exists
  BY <1>1 DEF StartTimer, Client, CallsAreRight
<1>6. ~Has(active, t)  BY <1>1, <1>5 DEF Members
<1>7. end' \in [Timers -> Nat] /\ \A x \in Timers : x # t => end'[x] = end[x]
  BY <1>1, <1>2, <1>4 DEF Typed
<1>8. active \in Seq(Timers) /\ \A i \in 1..Len(active) : active[i] \in Timers /\ active[i] # t
  BY <1>1, <1>6, ElementOfSeq DEF Typed, Has
<1>9. Ordered(active, end')  BY <1>1, <1>7, <1>8 DEF Ordered
<1>10. /\ active' \in Seq(Timers) /\ active' # << >> /\ Ordered(active', end')
       /\ \A x \in Timers : Has(active', x) <=> x = t \/ Has(active, x)
       /\ Head(active') = t \/ (active # << >> /\ Head(active') = Head(active))
  BY <1>3, <1>6, <1>7, <1>8, <1>9, InsertFacts
<1>11. Typed'
  <2>1. cpc' \in [Timers -> Labels]  BY <1>1 DEF Typed, Labels, StartTimer, Client
  <2> QED  BY <1>1, <1>2, <1>3, <1>4, <1>7, <1>10, <2>1 DEF Typed
<1>12. CallsAreRight'
  BY <1>1, <1>2, <1>3 DEF CallsAreRight, StartTimer, Client, Typed
<1>13. Ordered(active, end)'  BY <1>10 DEF Ordered
<1>14. Members'  BY <1>1, <1>2, <1>10 DEF Members, Has, Typed
<1>15. Alive'
  BY <1>1, <1>2, <1>3, <1>4, <1>5 DEF Alive, HasRepetitionsLeft, Typed
<1>16. OnSchedule'
  <2> SUFFICES ASSUME NEW x \in Timers, running'[x]
               PROVE  end'[x] = began'[x] + (soFar'[x] + 1) * duration'[x]
    BY DEF OnSchedule
  <2>1. CASE x = t
    <3>1. /\ end'[x] = now + d /\ began'[x] = now /\ soFar'[x] = 0 /\ duration'[x] = d
      BY <1>1, <1>2, <2>1 DEF Typed
    <3> QED  BY <1>1, <1>4, <3>1 DEF Typed
  <2>2. CASE x # t
    <3>1. /\ running[x] /\ end'[x] = end[x] /\ began'[x] = began[x]
          /\ soFar'[x] = soFar[x] /\ duration'[x] = duration[x]
      BY <1>1, <1>2, <2>2 DEF Typed
    <3> QED  BY <1>1, <3>1 DEF OnSchedule
  <2> QED  BY <2>1, <2>2
<1>17. WakesInTime'
  <2> SUFFICES ASSUME mode' = EventDriven, lpc' = "wait", ~signalled'
               PROVE  timeout' # NoTimer /\ wakeAt' <= end'[Head(active')]
    BY DEF WakesInTime
  <2>1. mode = EventDriven /\ lpc = "wait"  BY <1>3 DEF threadVars
  <2>2. First(active') # t /\ ~signalled
    BY <2>1 DEF StartTimer, WakeupIf, Wakeup
  <2>3. active # << >> /\ Head(active') = Head(active)  BY <1>10, <2>2 DEF First
  <2>4. Head(active) \in Timers /\ Head(active) # t
    BY <1>8, <1>10, <2>2, <2>3, HeadTailProperties DEF First
  <2>5. end'[Head(active')] = end[Head(active)]  BY <1>7, <2>3, <2>4
  <2> QED  BY <1>1, <1>3, <2>1, <2>2, <2>3, <2>5 DEF WakesInTime, threadVars
<1> QED  BY <1>11, <1>12, <1>13, <1>14, <1>15, <1>16, <1>17 DEF Sound

LEMMA FreeSound == ASSUME Sound, NEW t \in Timers, FreeTimer(t) PROVE Sound'
<1>1. /\ Typed /\ CallsAreRight /\ Members /\ Alive /\ WakesInTime /\ OnSchedule
      /\ Ordered(active, end)
  BY DEF Sound
<1>2. /\ exists' = exists \ {t}
      /\ end' = [end EXCEPT ![t] = 0] /\ began' = [began EXCEPT ![t] = 0]
      /\ duration' = [duration EXCEPT ![t] = 0]
      /\ nrRepetitions' = [nrRepetitions EXCEPT ![t] = 0]
      /\ soFar' = [soFar EXCEPT ![t] = 0]
      /\ UNCHANGED <<mode, now, active, threadVars, signalled, running>>
      /\ cpc[t] = "free" /\ cpc' = [cpc EXCEPT ![t] = "idle"]
  BY DEF FreeTimer, Client, taskVars
<1>3. ~running[t] /\ ~Has(active, t)  BY <1>1, <1>2 DEF CallsAreRight, Members
<1>4. /\ end' \in [Timers -> Nat]
      /\ \A x \in Timers : x # t => /\ end'[x] = end[x] /\ began'[x] = began[x]
                                   /\ duration'[x] = duration[x]
                                   /\ nrRepetitions'[x] = nrRepetitions[x]
                                   /\ soFar'[x] = soFar[x]
  BY <1>1, <1>2 DEF Typed
<1>5. active \in Seq(Timers) /\ \A i \in 1..Len(active) : active[i] \in Timers /\ active[i] # t
  BY <1>1, <1>3, ElementOfSeq DEF Typed, Has
<1>6. Typed'  BY <1>1, <1>2, <1>4 DEF Typed, Labels
<1>7. CallsAreRight'  BY <1>1, <1>2 DEF CallsAreRight, Typed
<1>8. Ordered(active, end)'
  <2>1. Ordered(active, end')  BY <1>1, <1>4, <1>5 DEF Ordered
  <2> QED  BY <1>2, <2>1 DEF Ordered
<1>9. Members'  BY <1>1, <1>2 DEF Members, Has
<1>10. Alive'  BY <1>1, <1>2, <1>3, <1>4 DEF Alive, HasRepetitionsLeft
<1>11. OnSchedule'  BY <1>1, <1>2, <1>3, <1>4 DEF OnSchedule
<1>12. WakesInTime'
  <2>1. active # << >> => Head(active) \in Timers /\ Head(active) # t
    <3> HAVE active # << >>
    <3>1. Head(active) = active[1] /\ 1 \in 1..Len(active)  BY <1>5, EmptySeq
    <3> QED  BY <1>5, <3>1
  <2>2. active # << >> => end'[Head(active)] = end[Head(active)]  BY <1>4, <2>1
  <2> QED  BY <1>1, <1>2, <2>2 DEF WakesInTime, threadVars
<1> QED  BY <1>6, <1>7, <1>8, <1>9, <1>10, <1>11, <1>12 DEF Sound
-----------------------------------------------------------------------------
(* The timer thread *)

LEMMA ServeSound ==
  ASSUME Sound, active # << >>, Serve,
         UNCHANGED <<mode, now, exists, duration, nrRepetitions, cpc>>
  PROVE  Sound'
<1> DEFINE t == Head(active)
<1>1. /\ Typed /\ CallsAreRight /\ Members /\ Alive /\ OnSchedule
      /\ Ordered(active, end)
  BY DEF Sound
<1>2. /\ t \in Timers /\ Has(active, t)
      /\ Tail(active) \in Seq(Timers)
      /\ Ordered(Tail(active), end)
      /\ \A x \in Timers : Has(Tail(active), x) <=> x # t /\ Has(active, x)
  BY <1>1, TailFacts DEF Typed
<1>3. running[t] /\ t \in exists /\ HasRepetitionsLeft(t)
  BY <1>1, <1>2 DEF Members, Alive
<1>4. soFar' = [soFar EXCEPT ![t] = @ + 1] /\ lpc' = "callback" /\ began' = began
  BY DEF Serve
<1> DEFINE last == nrRepetitions[t] # Forever /\ soFar[t] + 1 >= nrRepetitions[t]
<1>5. WakesInTime'  BY <1>4 DEF WakesInTime
<1>6. CASE last
  <2>1. running' = [running EXCEPT ![t] = FALSE] /\ active' = Tail(active) /\ end' = end
    BY <1>6 DEF Serve
  <2> HIDE DEF last, t
  <2>2. Typed'
    <3>1. soFar' \in [Timers -> Nat]  BY <1>1, <1>2, <1>4 DEF Typed
    <3> QED  BY <1>1, <1>2, <1>4, <2>1, <3>1 DEF Typed
  <2>3. CallsAreRight'  BY <1>1, <1>2, <2>1 DEF CallsAreRight, Typed
  <2>4. Ordered(active, end)'  BY <1>2, <2>1 DEF Ordered
  <2>5. Members'  BY <1>1, <1>2, <2>1 DEF Members, Has, Typed
  <2>6. Alive'  BY <1>1, <1>2, <1>4, <2>1 DEF Alive, HasRepetitionsLeft, Typed
  <2>7. OnSchedule'
    <3> SUFFICES ASSUME NEW x \in Timers, running'[x]
                 PROVE  end'[x] = began'[x] + (soFar'[x] + 1) * duration'[x]
      BY DEF OnSchedule
    <3>1. x # t /\ running[x] /\ soFar'[x] = soFar[x]  BY <1>1, <1>2, <1>4, <2>1 DEF Typed
    <3> QED  BY <1>1, <1>4, <2>1, <3>1 DEF OnSchedule
  <2> QED  BY <1>5, <2>2, <2>3, <2>4, <2>5, <2>6, <2>7 DEF Sound
<1>7. CASE ~last
  <2>1. /\ running' = running
        /\ end' = [end EXCEPT ![t] = end[t] + duration[t]]
        /\ active' = Insert(Tail(active), t, end')
    BY <1>7 DEF Serve
  <2>2. nrRepetitions[t] = Forever \/ soFar[t] + 1 < nrRepetitions[t]
    BY <1>1, <1>2, <1>7 DEF Typed
  <2> HIDE DEF last, t
  <2>3. end' \in [Timers -> Nat] /\ \A x \in Timers : x # t => end'[x] = end[x]
    BY <1>1, <1>2, <2>1 DEF Typed
  <2>4. ~Has(Tail(active), t)  BY <1>2
  <2>5. \A i \in 1..Len(Tail(active)) : Tail(active)[i] \in Timers /\ Tail(active)[i] # t
    BY <1>2, <2>4, ElementOfSeq DEF Has
  <2>6. Ordered(Tail(active), end')  BY <1>2, <2>3, <2>5 DEF Ordered
  <2>7. /\ active' \in Seq(Timers) /\ Ordered(active', end')
        /\ \A x \in Timers : Has(active', x) <=> x = t \/ Has(Tail(active), x)
    <3> DEFINE rest == Tail(active)
               new == Insert(rest, t, end')
    <3>1. rest \in Seq(Timers) /\ Ordered(rest, end') /\ ~Has(rest, t)
      BY <1>2, <2>4, <2>6
    <3> HIDE DEF rest
    <3>2. /\ new \in Seq(Timers) /\ Ordered(new, end')
          /\ \A x \in Timers : Has(new, x) <=> x = t \/ Has(rest, x)
      BY ONLY <1>2, <2>3, <3>1, InsertFacts
    <3> QED  BY <2>1, <3>2 DEF rest
  <2>8. Typed'
    <3>1. soFar' \in [Timers -> Nat]  BY <1>1, <1>2, <1>4 DEF Typed
    <3> QED  BY <1>1, <1>2, <1>4, <2>1, <2>3, <2>7, <3>1 DEF Typed
  <2>9. CallsAreRight'  BY <1>1, <2>1 DEF CallsAreRight
  <2>10. Ordered(active, end)'  BY <2>7 DEF Ordered
  <2>11. Members'
    <3>1. \A x \in Timers : Has(active', x) <=> Has(active, x)  BY <1>2, <2>7
    <3> QED  BY <1>1, <2>1, <3>1 DEF Members, Has
  <2>12. Alive'  BY <1>1, <1>2, <1>4, <2>1, <2>2 DEF Alive, HasRepetitionsLeft, Typed
  <2>13. OnSchedule'
    <3> SUFFICES ASSUME NEW x \in Timers, running'[x]
                 PROVE  end'[x] = began'[x] + (soFar'[x] + 1) * duration'[x]
      BY DEF OnSchedule
    <3>1. end[x] = began[x] + (soFar[x] + 1) * duration[x]
      BY <1>1, <2>1 DEF OnSchedule
    <3>2. CASE x # t
      <4>1. end'[x] = end[x] /\ soFar'[x] = soFar[x]  BY <1>1, <1>4, <2>3, <3>2 DEF Typed
      <4> QED  BY <1>4, <3>1, <4>1
    <3>3. CASE x = t
      <4>1. end'[x] = end[x] + duration[x] /\ soFar'[x] = soFar[x] + 1
        BY <1>1, <1>2, <1>4, <2>1, <3>3 DEF Typed
      <4>2. began[x] \in Nat /\ soFar[x] \in Nat /\ duration[x] \in Nat
        BY <1>1 DEF Typed
      <4>3. began[x] + (soFar[x] + 1) * duration[x] + duration[x]
              = began[x] + (soFar[x] + 1 + 1) * duration[x]
        BY <4>2, NextRepetition
      <4>4. end'[x] = began[x] + (soFar[x] + 1 + 1) * duration[x]
        BY ONLY <3>1, <4>1, <4>3
      <4>5. began'[x] = began[x] /\ duration'[x] = duration[x]  BY <1>4
      <4> QED  BY ONLY <4>1, <4>4, <4>5
    <3> QED  BY <3>2, <3>3
  <2> QED  BY <1>5, <2>8, <2>9, <2>10, <2>11, <2>12, <2>13 DEF Sound
<1> QED  BY <1>6, <1>7

LEMMA SuspendSound ==
  ASSUME Sound, NEW i, NEW next, Suspend(i, next),
         UNCHANGED <<mode, now, exists, duration, nrRepetitions, cpc>>
  PROVE  Sound'
<1>1. UNCHANGED <<active, running, end, soFar, began>>  BY DEF Suspend
<1>2. CallsAreRight'  BY <1>1 DEF Sound, CallsAreRight
<1>3. WakesInTime'
  <2> SUFFICES ASSUME mode' = EventDriven, lpc' = "wait", active' # << >>
               PROVE  timeout' # NoTimer /\ wakeAt' <= end'[Head(active')]
    BY DEF WakesInTime
  <2>1. timeout' = Head(active) /\ wakeAt' = end[Head(active)]
    BY <1>1 DEF Suspend, First
  <2>2. active \in Seq(Timers) /\ end \in [Timers -> Nat]  BY DEF Sound, Typed
  <2>3. Head(active) \in Timers  BY <1>1, <2>2, HeadTailProperties
  <2>4. end[Head(active)] \in Nat  BY <2>2, <2>3
  <2> QED  BY <1>1, <2>1, <2>3, <2>4, NoTimerIsNoTimer
<1> QED  BY <1>1, <1>2, <1>3, SoundUnchanged DEF Sound, Typed

LEMMA ProcessSound ==
  ASSUME Sound, NEW time, Process(time),
         UNCHANGED <<mode, now, exists, duration, nrRepetitions, cpc>>
  PROVE  Sound'
BY ServeSound, SuspendSound DEF Process

LEMMA ThreadSound == Sound /\ (ThreadStep \/ WakeUnsignalled) => Sound'
<1> SUFFICES ASSUME Sound, ThreadStep \/ WakeUnsignalled PROVE Sound'  OBVIOUS
<1>1. CASE SignalInit
  <2>1. UNCHANGED <<mode, now, active, exists, cpc, fieldVars>> /\ lpc' = "init"
    BY <1>1 DEF SignalInit
  <2>2. CallsAreRight' /\ WakesInTime'
    BY <2>1 DEF Sound, fieldVars, CallsAreRight, WakesInTime
  <2> QED  BY <2>1, <2>2, SoundUnchanged DEF fieldVars, Sound, Typed
<1>2. CASE Initialize  BY <1>2, SuspendSound DEF Initialize
<1>3. ASSUME NEW may, Awake(may) PROVE Sound'
  BY <1>3, ProcessSound, SuspendSound DEF Awake
<1>4. CASE WakeUp \/ WakeUnsignalled  BY <1>3, <1>4 DEF WakeUp, WakeUnsignalled
<1>5. CASE PeriodElapsed  BY <1>5, ProcessSound DEF PeriodElapsed
<1>6. CASE Callback
  <2>1. UNCHANGED <<mode, now, active, exists, cpc, fieldVars>> /\ lpc' = "relock"
    BY <1>6 DEF Callback, taskVars
  <2>2. CallsAreRight' /\ WakesInTime'
    BY <2>1 DEF Sound, fieldVars, CallsAreRight, WakesInTime
  <2> QED  BY <2>1, <2>2, SoundUnchanged DEF fieldVars, Sound, Typed
<1>7. CASE Continue  BY <1>7, ProcessSound DEF Continue
<1> QED  BY <1>1, <1>2, <1>4, <1>5, <1>6, <1>7 DEF ThreadStep
-----------------------------------------------------------------------------
LEMMA InvStep == TimerInv /\ [Next]_vars => TimerInv'
<1> SUFFICES ASSUME TimerInv, [Next]_vars, InUse' PROVE Sound'
  BY DEF TimerInv
<1>1. CASE UNCHANGED vars
  <2>1. Sound  BY <1>1 DEF vars, InUse, TimerInv
  <2>2. UNCHANGED <<mode, now, active, lpc, timeout, wakeAt, signalled, exists,
                    running, end, duration, nrRepetitions, soFar, began, cpc>>
    BY <1>1 DEF vars, taskVars, threadVars, fieldVars
  <2>3. CallsAreRight' /\ WakesInTime'  BY <2>1, <2>2 DEF Sound, CallsAreRight, WakesInTime
  <2> QED  BY <2>1, <2>2, <2>3, SoundUnchanged DEF Sound, Typed
<1>2. CASE Tick
  <2>1. Sound  BY <1>2 DEF Tick, InUse, TimerInv
  <2> QED  BY <1>2, <2>1, TickSound
<1>3. ASSUME NEW t \in Timers,
             CreateTimer(t) \/ CallStart(t) \/ CallStop(t) \/ CallDelete(t)
      PROVE  Sound'
  <2>1. Sound  BY <1>3 DEF CreateTimer, CallStart, CallStop, CallDelete, Call, InUse, TimerInv
  <2> QED  BY <1>3, <2>1, CreateSound, CallSound DEF CallStart, CallStop, CallDelete, Labels
<1>4. ASSUME NEW t \in Timers, ClientStep(t) PROVE Sound'
  <2>1. Sound
    BY <1>4 DEF ClientStep, StopTimer, CheckInitialized, WaitSem, StartTimer,
                UnlinkTimer, FreeTimer, InUse, TimerInv
  <2> QED  BY <1>4, <2>1, StopSound, WaitSound, StartSound, FreeSound DEF ClientStep
<1>5. CASE ThreadStep \/ WakeUnsignalled
  <2>1. Sound
    BY <1>5 DEF ThreadStep, WakeUnsignalled, SignalInit, Initialize, WakeUp, Awake,
                PeriodElapsed, Callback, Continue, InUse, TimerInv
  <2> QED  BY <1>5, <2>1, ThreadSound
<1>6. CASE Cleanup \/ DeleteTaskStep
  BY <1>6 DEF Cleanup, DeleteTaskStep, WakeToExit, Join, InUse
<1> QED  BY <1>1, <1>2, <1>3, <1>4, <1>5, <1>6 DEF Next

LEMMA InvAlways == Spec => []TimerInv
<1> QED  BY SoundInit, InvStep, PTL DEF Spec

\* The list of active timers holds exactly the running timers, once each, in the
\* order they end (AddActiveTimerToTask, StopTimer and both loops keep it so).
THEOREM ActiveListAlwaysCoherent == Spec => []ActiveListCoherent
<1>1. TimerInv => ActiveListCoherent
  BY DEF TimerInv, Sound, Ordered, Members, Has, Alive, HasRepetitionsLeft,
         ActiveListCoherent
<1> QED  BY <1>1, InvAlways, PTL

\* An event-driven task does not sleep past the end of its first timer: the calls
\* that change the head of the list signal the condition.
THEOREM NeverOversleeps == Spec => []NoOversleep
<1>1. TimerInv => NoOversleep  BY DEF TimerInv, Sound, WakesInTime, NoOversleep
<1> QED  BY <1>1, InvAlways, PTL

\* A periodic timer does not drift, however late its thread is (both loops add
\* the duration to the end of the repetition, not to the time it was served).
THEOREM NeverDrifts == Spec => []NoDrift
<1>1. TimerInv => NoDrift  BY DEF TimerInv, Sound, OnSchedule, NoDrift
<1> QED  BY <1>1, InvAlways, PTL
-----------------------------------------------------------------------------
(* The types.  Once fmDeleteTimerTask has cleaned up, no timer is active and  *)
(* no client is in a call, so the timer thread has nothing left but to exit.  *)

Rest ==
  /\ mode \in Modes /\ now \in 0..MaxTime
  /\ initialized \in BOOLEAN /\ sem \in 0..1 /\ signalled \in BOOLEAN
  /\ lpc \in {"start", "init", "wait", "callback", "relock", "exited"}
  /\ timeout \in Timers \cup {NoTimer} /\ wakeAt \in Nat /\ curTime \in Nat
  /\ firing \in Timers \cup {NoTimer}
  /\ since \in {"nothing", "stopped", "restarted", "freed"}
  /\ duration \in [Timers -> Timeouts \cup {0}]
  /\ nrRepetitions \in [Timers -> Repetitions \cup {0}]
  /\ dpc \in {"none", "wake", "join", "deleted"}

CleanedUp == ~InUse => Typed /\ active = << >> /\ \A t \in Timers : cpc[t] = "idle"

TypeInv == TimerInv /\ Rest /\ CleanedUp

LEMMA TypeInit == Init => Rest /\ CleanedUp
<1> SUFFICES ASSUME Init PROVE Rest /\ CleanedUp  OBVIOUS
<1>1. CleanedUp  BY DEF Init, CleanedUp, InUse
<1>2. now \in 0..MaxTime  BY TimesAssumption DEF Init
<1>3. /\ duration \in [Timers -> Timeouts \cup {0}]
      /\ nrRepetitions \in [Timers -> Repetitions \cup {0}]
  BY DEF Init
<1>4. initialized \in BOOLEAN /\ signalled \in BOOLEAN  BY DEF Init
<1>5. /\ mode \in Modes /\ timeout \in Timers \cup {NoTimer}
      /\ firing \in Timers \cup {NoTimer}
      /\ lpc \in {"start", "init", "wait", "callback", "relock", "exited"}
      /\ since \in {"nothing", "stopped", "restarted", "freed"}
      /\ dpc \in {"none", "wake", "join", "deleted"}
  BY DEF Init
<1>6. sem \in 0..1 /\ wakeAt \in Nat /\ curTime \in Nat  BY DEF Init
<1> QED  BY <1>1, <1>2, <1>3, <1>4, <1>5, <1>6 DEF Rest

LEMMA AlwaysTyped == TypeInv => Typed
BY DEF TypeInv, TimerInv, CleanedUp, Sound

LEMMA AlwaysTypedPrimed == TypeInv' => Typed'
BY DEF TypeInv, TimerInv, CleanedUp, Sound

LEMMA TypesTogether == TypeInv => TypeOK
BY AlwaysTyped DEF TypeInv, Typed, Labels, Rest, TypeOK

LEMMA ClientRest ==
  ASSUME TypeInv, NEW t \in Timers,
         \/ CreateTimer(t) \/ CallStart(t) \/ CallStop(t) \/ CallDelete(t) \/ ClientStep(t)
  PROVE  Rest'
<1>1. Rest  BY DEF TypeInv
<1>2. CASE CreateTimer(t) \/ CallStart(t) \/ CallStop(t) \/ CallDelete(t)
  <2>1. UNCHANGED <<mode, now, initialized, sem, threadVars, signalled, since, duration,
                    nrRepetitions, dpc>>
    BY <1>2 DEF CreateTimer, CallStart, CallStop, CallDelete, Call, taskVars, fieldVars
  <2> QED  BY <1>1, <2>1 DEF Rest, threadVars
<1>3. CASE StopTimer(t)
  BY <1>1, <1>3 DEF StopTimer, WakeupIf, Wakeup, FiringTimer, Rest, threadVars
<1>4. CASE CheckInitialized(t) \/ WaitSem(t) \/ UnlinkTimer(t)
  BY <1>1, <1>4 DEF CheckInitialized, WaitSem, UnlinkTimer, Rest, taskVars, threadVars,
                    fieldVars
<1>5. CASE StartTimer(t)
  <2>1. PICK d \in Timeouts, n \in Repetitions :
          /\ nrRepetitions' = [nrRepetitions EXCEPT ![t] = n]
          /\ duration' = [duration EXCEPT ![t] = d]
    BY <1>5 DEF StartTimer
  <2>2. /\ duration' \in [Timers -> Timeouts \cup {0}]
        /\ nrRepetitions' \in [Timers -> Repetitions \cup {0}]
    BY <1>1, <2>1 DEF Rest
  <2>3. signalled' \in BOOLEAN /\ since' \in {"nothing", "stopped", "restarted", "freed"}
    BY <1>1, <1>5 DEF StartTimer, WakeupIf, Wakeup, FiringTimer, Rest
  <2> QED  BY <1>1, <1>5, <2>2, <2>3 DEF StartTimer, Rest, threadVars
<1>6. CASE FreeTimer(t)
  BY <1>1, <1>6 DEF FreeTimer, FiringTimer, Rest, taskVars, threadVars
<1> QED  BY <1>2, <1>3, <1>4, <1>5, <1>6 DEF ClientStep

LEMMA SuspendRest ==
  ASSUME Typed, Rest, NEW i, NEW next \in Nat, Suspend(i, next),
         UNCHANGED <<mode, now, sem, duration, nrRepetitions, dpc>>, initialized' \in BOOLEAN
  PROVE  Rest'
<1>1. active # << >> => Head(active) \in Timers /\ end[Head(active)] \in Nat
  BY HeadTailProperties DEF Typed
<1>2. timeout' \in Timers \cup {NoTimer} /\ wakeAt' \in Nat
  BY <1>1 DEF Suspend, First, Rest
<1> QED  BY <1>2 DEF Suspend, Rest

LEMMA ProcessRest ==
  ASSUME Typed, Rest, NEW time \in Nat, Process(time),
         UNCHANGED <<mode, now, initialized, sem, duration, nrRepetitions, dpc>>
  PROVE  Rest'
<1>1. CASE active # << >> /\ time >= end[Head(active)]
  <2>1. Serve /\ curTime' = time  BY <1>1 DEF Process
  <2>2. Head(active) \in Timers  BY <1>1, HeadTailProperties DEF Typed
  <2> QED  BY <2>1, <2>2 DEF Serve, Rest
<1>2. CASE ~(active # << >> /\ time >= end[Head(active)])
  <2>1. Suspend(initialized, time + Period) /\ time + Period \in Nat
    BY <1>2, TimesAssumption DEF Process
  <2> QED  BY <2>1, SuspendRest DEF Rest
<1> QED  BY <1>1, <1>2

LEMMA ThreadRest == TypeInv /\ (ThreadStep \/ WakeUnsignalled) => Rest'
<1> SUFFICES ASSUME TypeInv, ThreadStep \/ WakeUnsignalled PROVE Rest'  OBVIOUS
<1>1. Typed /\ Rest  BY AlwaysTyped DEF TypeInv
<1>2. CASE SignalInit
  <2>1. wakeAt' \in Nat  BY <1>1, <1>2, TimesAssumption DEF SignalInit, Rest
  <2> QED  BY <1>1, <1>2, <2>1 DEF SignalInit, Rest, fieldVars
<1>3. CASE Initialize  BY <1>1, <1>3, SuspendRest DEF Initialize, Rest
<1>4. ASSUME NEW may, Awake(may) PROVE Rest'
  <2>1. now \in Nat /\ 0 \in Nat  BY <1>1 DEF Typed
  <2>2. initialized' \in BOOLEAN  BY <1>1, <1>4 DEF Awake, Rest
  <2>3. CASE Process(now)  BY <1>1, <1>4, <2>1, <2>3, ProcessRest DEF Awake
  <2>4. CASE Suspend(initialized, 0)
    BY <1>1, <1>4, <2>1, <2>2, <2>4, SuspendRest DEF Awake
  <2> QED  BY <1>4, <2>3, <2>4 DEF Awake
<1>5. CASE WakeUp \/ WakeUnsignalled  BY <1>4, <1>5 DEF WakeUp, WakeUnsignalled
<1>6. CASE PeriodElapsed  BY <1>1, <1>6, ProcessRest DEF PeriodElapsed, Rest
<1>7. CASE Callback  BY <1>1, <1>7 DEF Callback, Rest, taskVars, fieldVars
<1>8. CASE Continue  BY <1>1, <1>8, ProcessRest DEF Continue, Rest
<1> QED  BY <1>2, <1>3, <1>5, <1>6, <1>7, <1>8 DEF ThreadStep

LEMMA RestStep == TypeInv /\ [Next]_vars => Rest'
<1> SUFFICES ASSUME TypeInv, [Next]_vars PROVE Rest'  OBVIOUS
<1>1. Rest  BY DEF TypeInv
<1>2. CASE UNCHANGED vars
  BY <1>1, <1>2 DEF vars, Rest, taskVars, threadVars, fieldVars
<1>3. CASE Tick
  BY <1>1, <1>3, TimesAssumption DEF Tick, Rest, taskVars, threadVars, fieldVars
<1>4. CASE Cleanup  BY <1>1, <1>4 DEF Cleanup, Rest, threadVars, fieldVars
<1>5. CASE DeleteTaskStep
  BY <1>1, <1>5 DEF DeleteTaskStep, WakeToExit, Join, WakeupIf, Wakeup, Rest, taskVars,
                    threadVars, fieldVars
<1> QED  BY <1>2, <1>3, <1>4, <1>5, ClientRest, ThreadRest DEF Next

\* fmDeleteTimerTask takes every timer off the list: those there exist and run.
LEMMA CleanupEmpties == TimerInv /\ Cleanup => active' = << >>
<1> SUFFICES ASSUME TimerInv, Cleanup PROVE active' = << >>  OBVIOUS
<1>1. Typed /\ Members /\ Alive  BY DEF Cleanup, TimerInv, InUse, Sound
<1> DEFINE kept == {i \in 1..Len(active) :
                      active[i] \notin exists \/ ~running[active[i]]}
<1>2. ASSUME NEW i \in 1..Len(active)
      PROVE  active[i] \in exists /\ running[active[i]]
  <2>1. active[i] \in Timers  BY <1>1, ElementOfSeq DEF Typed
  <2> QED  BY <1>1, <2>1 DEF Members, Has, Alive
<1>3. kept = {}  BY <1>2
<1>4. active' = Sublist(active, kept)  BY DEF Cleanup
<1> HIDE DEF kept
<1>5. Cardinality(kept) = 0  BY <1>3, FS_EmptySet
<1>6. active' = [k \in 1..0 |-> active[CHOOSE i \in kept : Rank(kept, i) = k]]
  BY <1>4, <1>5 DEF Sublist
<1>7. 1..0 = {}  OBVIOUS
<1> QED  BY <1>6, <1>7

LEMMA CleanedUpStep == TypeInv /\ [Next]_vars => CleanedUp'
<1> SUFFICES ASSUME TypeInv, [Next]_vars, ~InUse'
             PROVE  Typed' /\ active' = << >> /\ \A t \in Timers : cpc'[t] = "idle"
  BY DEF CleanedUp
<1>1. Typed  BY AlwaysTyped
<1>2. CASE Cleanup
  <2>1. active' = << >>  BY <1>2, CleanupEmpties DEF TypeInv
  <2>2. Typed'  BY <1>1, <1>2, <2>1 DEF Cleanup, Typed, fieldVars
  <2> QED  BY <1>2, <2>1, <2>2 DEF Cleanup
<1>3. CASE ~Cleanup
  <2>1. ~InUse
    BY <1>3 DEF Next, vars, InUse, Tick, CreateTimer, CallStart, CallStop, CallDelete,
                Call, ClientStep, StopTimer, CheckInitialized, WaitSem, StartTimer,
                UnlinkTimer, FreeTimer, ThreadStep, WakeUnsignalled, SignalInit,
                Initialize, WakeUp, Awake, PeriodElapsed, Callback, Continue,
                DeleteTaskStep, WakeToExit, Join
  <2>2. active = << >> /\ \A t \in Timers : cpc[t] = "idle"
    BY <2>1 DEF TypeInv, CleanedUp
  <2>3. CASE UNCHANGED vars \/ Tick
    <3>1. UNCHANGED <<active, exists, fieldVars, cpc>> /\ now' \in Nat
      BY <1>1, <2>3 DEF vars, Tick, Typed, taskVars
    <3> QED  BY <1>1, <2>2, <3>1 DEF Typed, fieldVars
  <2>4. CASE DeleteTaskStep
    BY <1>1, <2>2, <2>4 DEF DeleteTaskStep, WakeToExit, Join, Typed, taskVars, fieldVars
  <2>5. ASSUME NEW time, Process(time),
               UNCHANGED <<now, exists, duration, nrRepetitions, cpc>>
        PROVE  Typed' /\ active' = << >>
    BY <1>1, <2>2, <2>5 DEF Process, Suspend, Typed
  <2>6. ASSUME NEW i, NEW next, Suspend(i, next),
               UNCHANGED <<now, exists, duration, nrRepetitions, cpc>>
        PROVE  Typed' /\ active' = << >>
    BY <1>1, <2>2, <2>6 DEF Suspend, Typed
  <2>7. CASE ThreadStep \/ WakeUnsignalled
    <3>1. CASE SignalInit \/ Callback
      BY <1>1, <2>2, <3>1 DEF SignalInit, Callback, Typed, taskVars, fieldVars
    <3>2. CASE Initialize  BY <2>2, <2>6, <3>2 DEF Initialize
    <3>3. ASSUME NEW may, Awake(may) PROVE Typed' /\ active' = << >> /\ cpc' = cpc
      BY <2>5, <2>6, <3>3 DEF Awake
    <3>4. CASE WakeUp \/ WakeUnsignalled
      BY <2>2, <3>3, <3>4 DEF WakeUp, WakeUnsignalled
    <3>5. CASE PeriodElapsed  BY <2>2, <2>5, <3>5 DEF PeriodElapsed
    <3>6. CASE Continue  BY <2>2, <2>5, <3>6 DEF Continue
    <3> QED  BY <2>7, <3>1, <3>2, <3>4, <3>5, <3>6 DEF ThreadStep
  <2>8. ASSUME NEW t \in Timers,
               \/ CreateTimer(t) \/ CallStart(t) \/ CallStop(t) \/ CallDelete(t)
               \/ ClientStep(t)
        PROVE  FALSE
    BY <2>1, <2>2, <2>8 DEF InUse, CreateTimer, CallStart, CallStop, CallDelete, Call,
         ClientStep, StopTimer, CheckInitialized, WaitSem, StartTimer, UnlinkTimer,
         FreeTimer, Client
  <2> QED  BY <1>3, <2>3, <2>4, <2>7, <2>8 DEF Next
<1> QED  BY <1>2, <1>3

\* Every state has its type, also while the task is deleted under a thread that
\* has not noticed yet: the count of the semaphore never exceeds the one post of
\* the loops, and the thread waits for, or calls back, no timer but an actual one.
THEOREM TypeCorrect == Spec => []TypeOK
<1>1. TypeInv /\ [Next]_vars => TypeInv'
  BY InvStep, RestStep, CleanedUpStep DEF TypeInv
<1>2. Init => TypeInv  BY SoundInit, TypeInit DEF TypeInv
<1> QED  BY <1>1, <1>2, TypesTogether, PTL DEF Spec
-----------------------------------------------------------------------------
(* The refinement of AlarmClock                                              *)

\* The time that a loop goes by while it serves timers is one that has been.
TimeHasBeen == lpc \in {"callback", "relock"} => curTime <= now

ClockInv == TypeInv /\ TimeHasBeen

LEMMA TimeStep == TypeInv /\ TimeHasBeen /\ [Next]_vars => TimeHasBeen'
<1> SUFFICES ASSUME TypeInv, TimeHasBeen, [Next]_vars PROVE TimeHasBeen'  OBVIOUS
<1>1. /\ now \in Nat /\ curTime \in Nat /\ wakeAt \in Nat
  BY AlwaysTyped DEF TypeInv, Typed, Rest
<1>2. CASE UNCHANGED <<lpc, curTime>> /\ (now' = now \/ now' = now + 1)
  BY <1>1, <1>2 DEF TimeHasBeen
<1>3. ASSUME NEW i, NEW next, Suspend(i, next) PROVE TimeHasBeen'
  BY <1>3 DEF Suspend, TimeHasBeen
<1>4. ASSUME NEW time \in Nat, time <= now, Process(time), now' = now PROVE TimeHasBeen'
  BY <1>3, <1>4 DEF Process, TimeHasBeen
<1>5. CASE ThreadStep \/ WakeUnsignalled
  <2>1. CASE SignalInit  BY <2>1 DEF SignalInit, TimeHasBeen
  <2>2. CASE Initialize  BY <1>3, <2>2 DEF Initialize
  <2>3. ASSUME NEW may, Awake(may) PROVE TimeHasBeen'
    BY <1>1, <1>3, <1>4, <2>3 DEF Awake
  <2>4. CASE WakeUp \/ WakeUnsignalled  BY <2>3, <2>4 DEF WakeUp, WakeUnsignalled
  <2>5. CASE PeriodElapsed  BY <1>1, <1>4, <2>5 DEF PeriodElapsed
  <2>6. CASE Callback  BY <2>6 DEF Callback, TimeHasBeen
  <2>7. CASE Continue  BY <1>1, <1>4, <2>7 DEF Continue, TimeHasBeen
  <2> QED  BY <1>5, <2>1, <2>2, <2>4, <2>5, <2>6, <2>7 DEF ThreadStep
<1>6. CASE ~(ThreadStep \/ WakeUnsignalled)
  <2>1. UNCHANGED <<lpc, curTime>> /\ (now' = now \/ now' = now + 1)
    BY <1>6 DEF Next, vars, Tick, CreateTimer, CallStart, CallStop, CallDelete, Call,
         ClientStep, StopTimer, CheckInitialized, WaitSem, StartTimer, UnlinkTimer,
         FreeTimer, Cleanup, DeleteTaskStep, WakeToExit, Join, threadVars
  <2> QED  BY <1>2, <2>1
<1> QED  BY <1>5, <1>6

LEMMA ClockAlways == Spec => []ClockInv
<1>1. TypeInv /\ [Next]_vars => TypeInv'
  BY InvStep, RestStep, CleanedUpStep DEF TypeInv
<1>2. Init => ClockInv  BY SoundInit, TypeInit DEF Init, TypeInv, ClockInv, TimeHasBeen
<1> QED  BY <1>1, <1>2, TimeStep, PTL DEF Spec, ClockInv

\* What a timer that runs is, and one that does not.
LEMMA AlarmFacts ==
  ASSUME TypeInv, NEW t \in Timers
  PROVE  /\ Alarm(t).left # 0 <=> InUse /\ running[t]
         /\ InUse /\ running[t] => /\ Alarm(t).due = end[t] /\ end[t] \in Nat
                                   /\ Alarm(t).every = duration[t]
                                   /\ Alarm(t).left = Left(t)
                                   /\ Left(t) = Forever \/ Left(t) \in Nat \ {0}
<1>1. Typed  BY AlwaysTyped
<1>2. ASSUME InUse, running[t] PROVE Left(t) = Forever \/ Left(t) \in Nat \ {0}
  <2>1. HasRepetitionsLeft(t)  BY <1>2 DEF TypeInv, TimerInv, Sound, Alive
  <2>2. nrRepetitions[t] \in Int /\ soFar[t] \in Nat  BY <1>1 DEF Typed
  <2> QED  BY <2>1, <2>2 DEF HasRepetitionsLeft, Left
<1>3. Left(t) = Forever \/ Left(t) \in Nat \ {0} => Left(t) # 0  BY DEF Forever
<1> QED  BY <1>1, <1>2, <1>3 DEF Alarm, Typed

LEMMA AlarmsKept ==
  ASSUME UNCHANGED <<dpc, running, end, duration, nrRepetitions, soFar>>
  PROVE  alarms' = alarms
BY DEF alarms, Alarm, Left, InUse

\* A change of one timer is a change of its alarm alone.
LEMMA OneAlarm ==
  ASSUME Typed, Typed', NEW t \in Timers, dpc' = dpc,
         \A x \in Timers \ {t} : /\ running'[x] = running[x] /\ end'[x] = end[x]
                                 /\ duration'[x] = duration[x] /\ soFar'[x] = soFar[x]
                                 /\ nrRepetitions'[x] = nrRepetitions[x]
  PROVE  alarms' = [alarms EXCEPT ![t] = Alarm(t)']
<1>1. \A x \in Timers \ {t} : Alarm(x)' = Alarm(x)  BY DEF Alarm, Left, InUse
<1> HIDE DEF Alarm
<1> QED  BY <1>1 DEF alarms

LEMMA StartSets ==
  ASSUME TypeInv, TypeInv', NEW t \in Timers, StartTimer(t) PROVE Clock!Set(t)
<1>1. Typed /\ Typed' /\ CleanedUp /\ TimerInv
  BY AlwaysTyped, AlwaysTypedPrimed DEF TypeInv
<1>2. InUse /\ InUse'
  BY <1>1 DEF CleanedUp, StartTimer, Client, InUse
<1>3. ~running[t]  BY <1>1, <1>2 DEF TimerInv, Sound, CallsAreRight, StartTimer, Client
<1>4. alarms[t].left = 0  BY <1>3 DEF alarms, Alarm
<1>5. PICK d \in Timeouts, n \in Repetitions :
        /\ running' = [running EXCEPT ![t] = TRUE]
        /\ soFar' = [soFar EXCEPT ![t] = 0]
        /\ nrRepetitions' = [nrRepetitions EXCEPT ![t] = n]
        /\ duration' = [duration EXCEPT ![t] = d]
        /\ end' = [end EXCEPT ![t] = now + d]
  BY DEF StartTimer
<1>6. UNCHANGED <<dpc, now, lpc, firing>>  BY DEF StartTimer, threadVars
<1>7. alarms' = [alarms EXCEPT ![t] = Alarm(t)']
  BY <1>1, <1>5, <1>6, OneAlarm DEF Typed
<1>8. /\ running'[t] /\ end'[t] = now + d /\ duration'[t] = d
      /\ nrRepetitions'[t] = n /\ soFar'[t] = 0
  BY <1>1, <1>5 DEF Typed
<1>9. Left(t)' = n
  <2>1. n \in Int  BY RepetitionsAssumption DEF Forever
  <2> QED  BY <1>8, <2>1 DEF Left
<1>10. Alarm(t)' = [due |-> now + d, every |-> d, left |-> n]
  BY <1>2, <1>8, <1>9 DEF Alarm
<1>11. ringing' = ringing  BY <1>6 DEF ringing
<1>12. alarms'[t].left # 0
  <2>1. n # 0 /\ alarms'[t] = Alarm(t)'  BY RepetitionsAssumption DEF Forever, alarms
  <2> QED  BY <1>10, <2>1
<1> QED  BY <1>4, <1>6, <1>7, <1>10, <1>11, <1>12 DEF Clock!Set, Clock!IsSet

\* Stopping a timer takes its alarm away, if it has one.
LEMMA StopUnsets ==
  ASSUME TypeInv, TypeInv', NEW t \in Timers, StopTimer(t)
  PROVE  Clock!Unset(t) \/ UNCHANGED <<now, alarms, ringing>>
<1>1. Typed /\ Typed'  BY AlwaysTyped, AlwaysTypedPrimed
<1>2. /\ running' = [running EXCEPT ![t] = FALSE]
      /\ UNCHANGED <<dpc, now, lpc, firing, end, duration, nrRepetitions, soFar>>
  BY DEF StopTimer, threadVars
<1>3. ringing' = ringing  BY <1>2 DEF ringing
<1>4. CASE ~running[t]
  <2>1. running' = running  BY <1>1, <1>2, <1>4 DEF Typed
  <2> QED  BY <1>2, <1>3, <2>1, AlarmsKept
<1>5. CASE ~InUse
  <2>1. alarms' = alarms  BY <1>2, <1>5 DEF alarms, Alarm, InUse
  <2> QED  BY <1>2, <1>3, <2>1
<1>6. CASE InUse /\ running[t]
  <2>1. alarms' = [alarms EXCEPT ![t] = Alarm(t)']
    BY <1>1, <1>2, OneAlarm DEF Typed
  <2>2. Alarm(t)' = Clock!Off
    BY <1>1, <1>2 DEF Alarm, Typed, Clock!Off
  <2>3. alarms[t].left # 0  BY <1>6, AlarmFacts DEF alarms
  <2>4. alarms'[t].left = 0  BY <2>2 DEF alarms, Clock!Off
  <2> QED  BY <1>2, <1>3, <2>1, <2>2, <2>3, <2>4 DEF Clock!Unset, Clock!IsSet
<1> QED  BY <1>4, <1>5, <1>6

LEMMA FreeIsSilent ==
  ASSUME TypeInv, NEW t \in Timers, FreeTimer(t) PROVE UNCHANGED <<now, alarms, ringing>>
<1>1. Typed /\ CleanedUp /\ TimerInv  BY AlwaysTyped DEF TypeInv
<1>2. InUse  BY <1>1 DEF CleanedUp, FreeTimer, Client
<1>3. ~running[t]  BY <1>1, <1>2 DEF TimerInv, Sound, CallsAreRight, FreeTimer, Client
<1>4. /\ UNCHANGED <<dpc, now, lpc, firing, running>>
      /\ end' = [end EXCEPT ![t] = 0] /\ duration' = [duration EXCEPT ![t] = 0]
      /\ nrRepetitions' = [nrRepetitions EXCEPT ![t] = 0]
      /\ soFar' = [soFar EXCEPT ![t] = 0]
  BY DEF FreeTimer, threadVars
<1>5. ASSUME NEW x \in Timers PROVE Alarm(x)' = Alarm(x)
  <2>1. CASE x = t  BY <1>3, <1>4, <2>1 DEF Alarm, InUse
  <2>2. CASE x # t  BY <1>1, <1>4, <2>2 DEF Alarm, Left, InUse, Typed
  <2> QED  BY <2>1, <2>2
<1>6. alarms' = alarms  BY <1>5 DEF alarms
<1> QED  BY <1>4, <1>6 DEF ringing

\* A loop rings the head of its list, which is the earliest of those that run.
LEMMA ServeRings ==
  ASSUME TypeInv, TypeInv', Serve, active # << >>, NEW t \in Timers, t = Head(active),
         end[t] <= now, UNCHANGED <<now, exists, duration, nrRepetitions, dpc>>,
         lpc # "callback"
  PROVE  Clock!Ring(t)
<1>1. Typed /\ Typed' /\ CleanedUp /\ TimerInv
  BY AlwaysTyped, AlwaysTypedPrimed DEF TypeInv
<1>2. InUse  BY <1>1 DEF CleanedUp
<1>3. Members /\ Ordered(active, end) /\ Alive  BY <1>1, <1>2 DEF TimerInv, Sound
<1>4. t = active[1] /\ 1 \in 1..Len(active) /\ end[t] \in Nat
  BY <1>1, EmptySeq DEF Typed
<1>5. running[t]  BY <1>3, <1>4 DEF Members, Has
<1>6. ringing = NoTimer /\ ringing' = t  BY DEF Serve, ringing
<1>7. alarms[t].left # 0 /\ alarms[t].due <= now
  BY <1>2, <1>4, <1>5, AlarmFacts DEF alarms
<1>8. ASSUME NEW u \in Timers, alarms[u].left # 0 PROVE alarms[t].due <= alarms[u].due
  <2>1. running[u] /\ alarms[u].due = end[u] /\ alarms[t].due = end[t]
    BY <1>2, <1>4, <1>5, <1>8, AlarmFacts DEF alarms
  <2>2. PICK i \in 1..Len(active) : active[i] = u  BY <1>3, <2>1 DEF Members, Has
  <2>3. i = 1 \/ 1 < i  OBVIOUS
  <2>4. end[t] <= end[u]
    <3>1. CASE i = 1
      <4>1. u = t  BY ONLY <1>4, <2>2, <3>1
      <4> QED  BY <1>4, <4>1
    <3>2. CASE 1 < i  BY <1>3, <1>4, <2>2, <3>2 DEF Ordered
    <3> QED  BY <2>3, <3>1, <3>2
  <2> QED  BY <2>1, <2>4
<1> DEFINE last == nrRepetitions[t] # Forever /\ soFar[t] + 1 >= nrRepetitions[t]
<1>9. /\ soFar' = [soFar EXCEPT ![t] = @ + 1]
      /\ IF last THEN running' = [running EXCEPT ![t] = FALSE] /\ end' = end
         ELSE running' = running /\ end' = [end EXCEPT ![t] = end[t] + duration[t]]
  BY DEF Serve
<1>10. alarms' = [alarms EXCEPT ![t] = Alarm(t)']
  <2>1. ASSUME NEW x \in Timers \ {t}
        PROVE  running'[x] = running[x] /\ end'[x] = end[x] /\ soFar'[x] = soFar[x]
    BY <1>1, <1>9 DEF Typed
  <2> QED  BY <1>1, <2>1, OneAlarm
<1>11. Alarm(t)' = Clock!Again(alarms[t])
  <2>1. /\ alarms[t] = [due |-> end[t], every |-> duration[t], left |-> Left(t)]
        /\ InUse' /\ nrRepetitions[t] \in Int /\ soFar[t] \in Nat
        /\ nrRepetitions[t] = Forever \/ soFar[t] < nrRepetitions[t]
    BY <1>1, <1>2, <1>3, <1>4, <1>5
       DEF alarms, Alarm, InUse, Typed, Alive, HasRepetitionsLeft
  <2>2. last <=> Left(t) = 1  BY <2>1 DEF Left, Forever
  <2>3. soFar'[t] = soFar[t] + 1 /\ nrRepetitions'[t] = nrRepetitions[t]
        /\ duration'[t] = duration[t]
    BY <1>1, <1>4, <1>9 DEF Typed
  <2>4. CASE last
    <3>1. ~running'[t]  BY <1>1, <1>4, <1>9, <2>4 DEF Typed
    <3>2. Alarm(t)' = Clock!Off  BY <3>1 DEF Alarm, Clock!Off
    <3> QED  BY <2>1, <2>2, <2>4, <3>2 DEF Clock!Again
  <2>5. CASE ~last
    <3>1. running'[t] /\ end'[t] = end[t] + duration[t]
      <4>1. running' = running /\ end' = [end EXCEPT ![t] = end[t] + duration[t]]
        BY <1>9, <2>5
      <4> QED  BY <1>1, <1>5, <4>1 DEF Typed
    <3>2. Left(t)' = IF Left(t) = Forever THEN Forever ELSE Left(t) - 1
      BY <2>1, <2>3 DEF Left, Forever
    <3>3. Alarm(t)' = [due |-> end[t] + duration[t], every |-> duration[t],
                       left |-> Left(t)']
      BY <2>1, <2>3, <3>1 DEF Alarm
    <3> QED  BY <2>1, <2>2, <2>5, <3>2, <3>3 DEF Clock!Again
  <2> QED  BY <2>4, <2>5
<1> QED  BY <1>6, <1>7, <1>8, <1>10, <1>11 DEF Clock!Ring, Clock!IsSet

AlarmStep == [Clock!ACNext]_<<now, alarms, ringing>>

\* Where the thread sleeps again or exits, no callback is pending any more.
LEMMA SuspendIsSilent ==
  ASSUME NEW i, NEW next, Suspend(i, next), lpc # "callback",
         UNCHANGED <<now, dpc, duration, nrRepetitions>>
  PROVE  UNCHANGED <<now, alarms, ringing>>
<1>1. UNCHANGED <<running, end, soFar>> /\ lpc' # "callback"  BY DEF Suspend
<1> QED  BY <1>1, AlarmsKept DEF ringing

LEMMA ProcessRings ==
  ASSUME TypeInv, TypeInv', NEW time \in Nat, time <= now, Process(time),
         lpc # "callback", UNCHANGED <<now, dpc, exists, duration, nrRepetitions>>
  PROVE  AlarmStep
<1>1. CASE active # << >> /\ time >= end[Head(active)]
  <2>1. Serve  BY <1>1 DEF Process
  <2>2. PICK t \in Timers : t = Head(active)
    BY <1>1, AlwaysTyped, HeadTailProperties DEF Typed
  <2>3. end[t] \in Nat /\ now \in Nat  BY <2>2, AlwaysTyped DEF Typed
  <2>4. end[t] <= now  BY <1>1, <2>2, <2>3
  <2>5. Clock!Ring(t)  BY <1>1, <2>1, <2>2, <2>4, ServeRings
  <2> QED  BY <2>5 DEF AlarmStep, Clock!ACNext
<1>2. CASE ~(active # << >> /\ time >= end[Head(active)])
  <2>1. Suspend(initialized, time + Period)  BY <1>2 DEF Process
  <2> QED  BY <2>1, SuspendIsSilent DEF AlarmStep
<1> QED  BY <1>1, <1>2

LEMMA ThreadRings ==
  ASSUME ClockInv, TypeInv', ThreadStep \/ WakeUnsignalled PROVE AlarmStep
<1>1. /\ TypeInv /\ TimeHasBeen /\ now \in Nat /\ wakeAt \in Nat /\ curTime \in Nat
  BY AlwaysTyped DEF ClockInv, TypeInv, Typed, Rest
<1>2. CASE SignalInit
  <2>1. /\ UNCHANGED <<dpc, running, end, duration, nrRepetitions, soFar, now>>
        /\ lpc # "callback" /\ lpc' # "callback"
    BY <1>2 DEF SignalInit, fieldVars
  <2> QED  BY <2>1, AlarmsKept DEF ringing, AlarmStep
<1>3. CASE Initialize  BY <1>3, SuspendIsSilent DEF Initialize, AlarmStep
<1>4. ASSUME NEW may, Awake(may) PROVE AlarmStep
  <2>1. lpc # "callback" /\ UNCHANGED <<now, dpc, exists, duration, nrRepetitions>>
    BY <1>4 DEF Awake
  <2>2. CASE Process(now)  BY <1>1, <2>1, <2>2, ProcessRings
  <2>3. CASE Suspend(initialized, 0)  BY <2>1, <2>3, SuspendIsSilent DEF AlarmStep
  <2> QED  BY <1>4, <2>2, <2>3 DEF Awake
<1>5. CASE WakeUp \/ WakeUnsignalled  BY <1>4, <1>5 DEF WakeUp, WakeUnsignalled
<1>6. CASE PeriodElapsed
  <2>1. /\ lpc # "callback" /\ UNCHANGED <<now, dpc, exists, duration, nrRepetitions>>
        /\ Process(wakeAt) /\ wakeAt <= now
    BY <1>1, <1>6 DEF PeriodElapsed
  <2> QED  BY <1>1, <2>1, ProcessRings
<1>7. CASE Callback
  <2>1. /\ UNCHANGED <<dpc, running, end, duration, nrRepetitions, soFar, now>>
        /\ lpc' # "callback"
    BY <1>7 DEF Callback, fieldVars
  <2>2. alarms' = alarms /\ ringing' = NoTimer  BY <2>1, AlarmsKept DEF ringing
  <2>3. ringing # NoTimer => Clock!Silence  BY <2>1, <2>2 DEF Clock!Silence
  <2> QED  BY <2>1, <2>2, <2>3 DEF AlarmStep, Clock!ACNext
<1>8. CASE Continue
  <2>1. /\ lpc # "callback" /\ UNCHANGED <<now, dpc, exists, duration, nrRepetitions>>
        /\ Process(curTime) /\ curTime <= now
    BY <1>1, <1>8 DEF Continue, TimeHasBeen
  <2> QED  BY <1>1, <2>1, ProcessRings
<1> QED  BY <1>2, <1>3, <1>5, <1>6, <1>7, <1>8 DEF ThreadStep

LEMMA ClientRings ==
  ASSUME TypeInv, TypeInv', NEW t \in Timers,
         \/ CreateTimer(t) \/ CallStart(t) \/ CallStop(t) \/ CallDelete(t) \/ ClientStep(t)
  PROVE  AlarmStep
<1>1. CASE \/ CreateTimer(t) \/ CallStart(t) \/ CallStop(t) \/ CallDelete(t)
           \/ CheckInitialized(t) \/ WaitSem(t) \/ UnlinkTimer(t)
  <2>1. UNCHANGED <<dpc, running, end, duration, nrRepetitions, soFar, now, lpc, firing>>
    BY <1>1 DEF CreateTimer, CallStart, CallStop, CallDelete, Call, CheckInitialized,
                WaitSem, UnlinkTimer, threadVars, fieldVars
  <2> QED  BY <2>1, AlarmsKept DEF ringing, AlarmStep
<1>2. CASE StopTimer(t)  BY <1>2, StopUnsets DEF AlarmStep, Clock!ACNext
<1>3. CASE StartTimer(t)  BY <1>3, StartSets DEF AlarmStep, Clock!ACNext
<1>4. CASE FreeTimer(t)  BY <1>4, FreeIsSilent DEF AlarmStep
<1> QED  BY <1>1, <1>2, <1>3, <1>4 DEF ClientStep

LEMMA StepRings == ClockInv /\ TypeInv' /\ [Next]_vars => AlarmStep
<1> SUFFICES ASSUME ClockInv, TypeInv', [Next]_vars PROVE AlarmStep  OBVIOUS
<1>1. CASE UNCHANGED vars \/ Tick
  <2>1. /\ UNCHANGED <<dpc, running, end, duration, nrRepetitions, soFar, lpc, firing>>
        /\ now' = now \/ now' = now + 1
    BY <1>1 DEF vars, Tick, threadVars, fieldVars
  <2>2. alarms' = alarms /\ ringing' = ringing  BY <2>1, AlarmsKept DEF ringing
  <2> QED  BY <2>1, <2>2 DEF AlarmStep, Clock!ACNext, Clock!Pass
<1>2. CASE Cleanup
  <2>1. ~InUse' /\ UNCHANGED <<now, lpc, firing>>
    BY <1>2 DEF Cleanup, InUse, threadVars
  <2>2. \A t \in Timers : Alarm(t)' = Clock!Off  BY <2>1 DEF Alarm, Clock!Off
  <2>3. alarms' = [t \in Timers |-> Clock!Off]  BY <2>2 DEF alarms
  <2>4. ringing' = ringing  BY <2>1 DEF ringing
  <2> QED  BY <2>1, <2>3, <2>4 DEF AlarmStep, Clock!ACNext, Clock!UnsetAll
<1>3. CASE DeleteTaskStep
  <2>1. ~InUse /\ ~InUse' /\ UNCHANGED <<now, lpc, firing>>
    BY <1>3 DEF DeleteTaskStep, WakeToExit, Join, InUse, threadVars
  <2>2. alarms' = alarms  BY <2>1 DEF alarms, Alarm
  <2> QED  BY <2>1, <2>2 DEF AlarmStep, ringing
<1>4. ASSUME NEW t \in Timers,
             \/ CreateTimer(t) \/ CallStart(t) \/ CallStop(t) \/ CallDelete(t)
             \/ ClientStep(t)
      PROVE  AlarmStep
  BY <1>4, ClientRings DEF ClockInv
<1>5. CASE ThreadStep \/ WakeUnsignalled  BY <1>5, ThreadRings
<1> QED  BY <1>1, <1>2, <1>3, <1>4, <1>5 DEF Next

\* The two loops and the calls of the clients implement the alarm clock: whatever
\* clients start, stop and delete while a callback runs, each ring is of a timer
\* that is due, the earliest of all, and as often as it was asked for.
THEOREM AlarmClockImplemented == Spec => ImplementsAlarmClock
<1>1. Init => Clock!ACInit
  <2> SUFFICES ASSUME Init PROVE Clock!ACInit  OBVIOUS
  <2>1. \A t \in Timers : Alarm(t) = Clock!Off  BY DEF Init, Alarm, Clock!Off
  <2>2. alarms = [t \in Timers |-> Clock!Off]  BY <2>1 DEF alarms
  <2> QED  BY <2>2 DEF Init, ringing, Clock!ACInit
<1>2. TypeInv /\ [Next]_vars => TypeInv'
  BY InvStep, RestStep, CleanedUpStep DEF TypeInv
<1>3. ClockInv /\ [Next]_vars => [Clock!ACNext]_<<now, alarms, ringing>>
  BY <1>2, StepRings DEF AlarmStep, ClockInv
<1> QED  BY <1>1, <1>3, ClockAlways, PTL DEF Spec, ImplementsAlarmClock, Clock!ACSpec
=============================================================================
