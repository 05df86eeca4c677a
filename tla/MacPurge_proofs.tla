--------------------------- MODULE MacPurge_proofs --------------------------
(***************************************************************************)
(* Proofs about MacPurge, for any LAGs, VLANs, table and number of         *)
(* requests.                                                               *)
(***************************************************************************)
EXTENDS MacPurge, FiniteSetTheorems, SequenceTheorems, TLAPS

(* The wakeups of the maintenance thread *)

\* The thread is called for every purge it owes: the semaphore is there for work
\* that is flagged, unless the thread is between its wait and taking the work,
\* and the flag goes only where the purge is looked for.
Coming == flag \/ work \/ pc = "next"
WakeInv ==
  /\ active \in BOOLEAN /\ (active <=> pc = "purge")
  /\ IsAnotherPurgePending(list) => Coming \/ active \/ unannounced
  /\ flushExpired => Coming
  /\ flag => semaphore \/ pc = "take"
  /\ work => pc = "fifo"

LEMMA WakeInit == Init => WakeInv
<1> SUFFICES ASSUME Init PROVE WakeInv  OBVIOUS
<1>1. DOMAIN list = {1} /\ list[1] = Entry(All)  BY DEF Init
<1>2. ~Pending(Entry(All))  BY DEF Pending, Entry
<1>3. ~IsAnotherPurgePending(list)  BY <1>1, <1>2 DEF IsAnotherPurgePending
<1> QED  BY <1>3 DEF Init, WakeInv, Coming

\* fmTriggerMAPurge answers for whatever was entered.
LEMMA Triggered ==
  ASSUME WakeInv, Trigger, UNCHANGED threadVars
  PROVE  WakeInv'
BY DEF WakeInv, Coming, Trigger, threadVars

\* A request that ran out of memory leaves its purge for another to announce.
LEMMA Untriggered ==
  ASSUME WakeInv, NoTrigger, UNCHANGED <<flushExpired, threadVars>>
  PROVE  WakeInv'
BY DEF WakeInv, Coming, NoTrigger, threadVars

\* A step that enters no purge and does not touch the thread.
LEMMA Elsewhere ==
  ASSUME WakeInv, UNCHANGED <<purgeVars, threadVars, wakeVars>>
  PROVE  WakeInv'
BY DEF WakeInv, Coming, IsAnotherPurgePending, purgeVars, threadVars, wakeVars

LEMMA RequestsWake == WakeInv /\ Requests => WakeInv'
<1> SUFFICES ASSUME WakeInv, Requests PROVE WakeInv'  OBVIOUS
<1>1. ASSUME NEW p, NEW v, NEW s, Flush(p, v, s) PROVE WakeInv'
  BY <1>1, Triggered DEF Flush, EnqueueFlush
<1>2. ASSUME NEW p, NEW s, FlushAborts(p, s) PROVE WakeInv'
  BY <1>2, Untriggered DEF FlushAborts, EnterAborts
<1>3. ASSUME NEW p, DeleteLag(p) PROVE WakeInv'
  BY <1>3, Triggered DEF DeleteLag, EnqueueFlush
<1>4. ASSUME NEW p, DeleteLagAborts(p) PROVE WakeInv'
  BY <1>4, Untriggered DEF DeleteLagAborts, EnterAborts
<1>5. ASSUME NEW p, DeleteLagRefused(p) PROVE WakeInv'
  BY <1>5, Untriggered DEF DeleteLagRefused, Enter
<1>6. ASSUME NEW p, CreateLag(p) PROVE WakeInv'
  BY <1>6, Elsewhere DEF CreateLag
<1>7. ASSUME NEW c, AddAddress(c) \/ DeleteAddress(c) PROVE WakeInv'
  BY <1>7, Elsewhere DEF AddAddress, Store, DeleteAddress
<1> QED  BY <1>1, <1>2, <1>3, <1>4, <1>5, <1>6, <1>7 DEF Requests

LEMMA SweeperWakes == WakeInv /\ Sweeper => WakeInv'
<1> SUFFICES ASSUME WakeInv, Sweeper PROVE WakeInv'  OBVIOUS
<1>1. CASE SweepEnd  BY <1>1, Triggered DEF SweepEnd, EnqueueExpired
<1>2. ASSUME NEW c, SweepCell(c) PROVE WakeInv'
  BY <1>2, Elsewhere DEF SweepCell
<1>3. CASE SweepEndFails  BY <1>3, Elsewhere DEF SweepEndFails
<1> QED  BY <1>1, <1>2, <1>3 DEF Sweeper

\* The thread looks for a purge and takes one, or there is none.
LEMMA HandleWakes == WakeInv /\ HandlePurgeRequest => WakeInv'
<1> SUFFICES ASSUME WakeInv, HandlePurgeRequest PROVE WakeInv'  OBVIOUS
<1>1. pc = "next" /\ ~active /\ ~work /\ UNCHANGED <<work, flag, semaphore>>
  BY DEF WakeInv, HandlePurgeRequest
<1>2. /\ GetNextPurgeRequest
      /\ flushExpired' = FALSE
      /\ active' = (IsAnotherPurgePending(list) \/ flushExpired)
      /\ pc' = IF active' THEN "purge" ELSE "wait"
  BY <1>1 DEF HandlePurgeRequest
<1>3. (active' <=> pc' = "purge") /\ active' \in BOOLEAN  BY <1>2
<1>4. flag' => semaphore'  BY <1>1 DEF WakeInv
<1>5. IsAnotherPurgePending(list') => active'
  <2>1. CASE IsAnotherPurgePending(list)  BY <1>2, <2>1
  <2>2. CASE ~IsAnotherPurgePending(list)
    <3>1. list' = list  BY <1>2, <2>2 DEF GetNextPurgeRequest
    <3> QED  BY <2>2, <3>1
  <2> QED  BY <2>1, <2>2
<1>6. IsAnotherPurgePending(list)' => active'  BY <1>5 DEF IsAnotherPurgePending
<1> QED  BY <1>1, <1>2, <1>3, <1>4, <1>6 DEF WakeInv, Coming

\* The end of a purge looks again: what was entered meanwhile was flagged, and the
\* work may have been taken and dropped by a wait that found the purge active.
LEMMA FinishWakes == WakeInv /\ FinishPurge => WakeInv'
<1> SUFFICES ASSUME WakeInv, FinishPurge PROVE WakeInv'  OBVIOUS
<1>1. /\ pc = "purge" /\ pc' = "wait" /\ active' = FALSE
      /\ UNCHANGED <<flushExpired, work>>
      /\ IF IsAnotherPurgePending(list') THEN Trigger ELSE UNCHANGED wakeVars
  BY DEF FinishPurge
<1>2. CASE IsAnotherPurgePending(list')  BY <1>1, <1>2 DEF WakeInv, Coming, Trigger
<1>3. CASE ~IsAnotherPurgePending(list')
  <2>1. UNCHANGED <<flag, semaphore, unannounced>>  BY <1>1, <1>3 DEF wakeVars
  <2>2. ~IsAnotherPurgePending(list)'  BY <1>3 DEF IsAnotherPurgePending
  <2> QED  BY <1>1, <2>1, <2>2 DEF WakeInv, Coming
<1> QED  BY <1>2, <1>3

LEMMA MaintenanceWakes == WakeInv /\ (Maintenance \/ WaitTimeout) => WakeInv'
<1> SUFFICES ASSUME WakeInv, Maintenance \/ WaitTimeout PROVE WakeInv'  OBVIOUS
<1> USE DEF purgeVars, wakeVars
<1>1. CASE Wait \/ WaitTimeout \/ TakeWork \/ FifoDone
  <2>1. IsAnotherPurgePending(list)' <=> IsAnotherPurgePending(list)
    BY <1>1 DEF Wait, WaitTimeout, TakeWork, FifoDone, IsAnotherPurgePending
  <2> QED  BY <1>1, <2>1 DEF Wait, WaitTimeout, TakeWork, FifoDone, WakeInv, Coming
<1>2. CASE HandlePurgeRequest  BY <1>2, HandleWakes
<1>3. CASE PurgeCell
  <2>1. IsAnotherPurgePending(list)' <=> IsAnotherPurgePending(list)
    BY <1>3 DEF PurgeCell, IsAnotherPurgePending
  <2> QED  BY <1>3, <2>1 DEF PurgeCell, WakeInv, Coming
<1>4. CASE FinishPurge  BY <1>4, FinishWakes
<1> QED  BY <1>1, <1>2, <1>3, <1>4 DEF Maintenance

LEMMA WakeStep == WakeInv /\ [Next]_vars => WakeInv'
<1> SUFFICES ASSUME WakeInv, [Next]_vars PROVE WakeInv'  OBVIOUS
<1>1. CASE UNCHANGED vars  BY <1>1, Elsewhere DEF vars
<1>2. ASSUME NEW c, Learn(c) PROVE WakeInv'
  BY <1>2, Elsewhere DEF Learn, Store
<1> QED  BY <1>1, <1>2, RequestsWake, SweeperWakes, MaintenanceWakes DEF Next

\* A purge that is pending is not forgotten: the maintenance thread is in a purge, has
\* the work, or is woken for it, however requests, sweeps, timeouts of its wait and
\* ends of purges are interleaved (fmTriggerMAPurge, FinishPurge); only a request that
\* runs out of memory leaves one unannounced (ABORT in fmEnqueueMAPurge), until any
\* request or purge comes after it.
THEOREM PurgeAlwaysTriggered == Spec => []PurgeIsTriggered
<1>1. WakeInv => PurgeIsTriggered
  BY DEF WakeInv, Coming, IsAnotherPurgePending, PurgeIsTriggered
<1> QED  BY <1>1, WakeInit, WakeStep, PTL DEF Spec
-----------------------------------------------------------------------------
(* Lists that nodes are removed from *)

\* The ranks of the positions that are kept are 1 and so on, in their order.
LEMMA Ranking ==
  ASSUME NEW n \in Nat, NEW kept \in SUBSET (1..n)
  PROVE  /\ Cardinality(kept) \in 0..n
         /\ \A i \in kept : Rank(kept, i) \in 1..Cardinality(kept)
         /\ \A i, j \in kept : i < j => Rank(kept, i) < Rank(kept, j)
         /\ \A k \in 1..Cardinality(kept) : \E i \in kept : Rank(kept, i) = k
<1> DEFINE upTo(i) == {j \in kept : j <= i}
           m == Cardinality(kept)
<1>1. IsFiniteSet(1..n) /\ Cardinality(1..n) = n  BY FS_Interval
<1>2. IsFiniteSet(kept) /\ m <= n /\ m \in Nat
  BY <1>1, FS_Subset, FS_CardinalityType
<1>3. ASSUME NEW i \in kept
      PROVE  /\ IsFiniteSet(upTo(i)) /\ Rank(kept, i) = Cardinality(upTo(i))
             /\ Rank(kept, i) \in 1..m
  <2>1. upTo(i) \in SUBSET kept /\ i \in upTo(i)  BY i \in 1..n
  <2>2. IsFiniteSet(upTo(i)) /\ Cardinality(upTo(i)) <= m
    BY <1>2, <2>1, FS_Subset
  <2>3. Cardinality(upTo(i)) \in Nat /\ Cardinality(upTo(i)) # 0
    BY <2>1, <2>2, FS_CardinalityType, FS_EmptySet
  <2>4. Rank(kept, i) = Cardinality(upTo(i))  BY DEF Rank
  <2> HIDE DEF upTo, m
  <2> QED  BY <1>2, <2>2, <2>3, <2>4
<1>4. ASSUME NEW i \in kept, NEW j \in kept, i < j
      PROVE  Rank(kept, i) < Rank(kept, j)
  <2>0. i \in 1..n /\ j \in 1..n  OBVIOUS
  <2>a. \A x \in upTo(i) : x \in 1..n /\ x \in kept /\ x <= i  OBVIOUS
  <2>b. \A x \in upTo(i) : x <= j  BY ONLY <2>0, <2>a, <1>4, n \in Nat
  <2>c. upTo(i) \in SUBSET upTo(j)  BY <2>a, <2>b
  <2>d. j <= j /\ ~(j <= i)  BY ONLY <2>0, <1>4, n \in Nat
  <2>1. upTo(i) \in SUBSET upTo(j) /\ j \in upTo(j) /\ j \notin upTo(i)
    BY <2>c, <2>d
  <2>2. /\ IsFiniteSet(upTo(j)) /\ Rank(kept, i) = Cardinality(upTo(i))
        /\ Rank(kept, j) = Cardinality(upTo(j))
        /\ Rank(kept, i) \in 1..m /\ Rank(kept, j) \in 1..m
    BY <1>3
  <2> HIDE DEF upTo
  <2>3. /\ Cardinality(upTo(i)) <= Cardinality(upTo(j))
        /\ Cardinality(upTo(j)) = Cardinality(upTo(i)) => upTo(j) = upTo(i)
    BY ONLY <2>1, <2>2, FS_Subset
  <2>4. Cardinality(upTo(i)) # Cardinality(upTo(j))  BY <2>1, <2>3
  <2> HIDE DEF m
  <2> QED  BY <1>2, <2>2, <2>3, <2>4
<1>5. \A k \in 1..m : \E i \in kept : Rank(kept, i) = k
  <2> DEFINE f == [i \in kept |-> Rank(kept, i)]
  <2>0. Cardinality(kept) = m  OBVIOUS
  <2>1. f \in [kept -> 1..m]  BY <1>3
  <2>2. \A i, j \in kept : f[i] = f[j] => i = j
    <3> SUFFICES ASSUME NEW i \in kept, NEW j \in kept, f[i] = f[j], i # j PROVE FALSE
      OBVIOUS
    <3>1. i \in 1..n /\ j \in 1..n  OBVIOUS
    <3>2. i < j \/ j < i  BY <3>1
    <3>3. Rank(kept, i) \in 1..m /\ Rank(kept, j) \in 1..m  BY <1>3
    <3>4. Rank(kept, i) # Rank(kept, j)
      <4> HIDE DEF m
      <4> QED  BY <3>2, <3>3, <1>4, <1>2
    <3> QED  BY <3>4
  <2> HIDE DEF f
  <2>3. f \in Injection(kept, 1..m)  BY <2>1, <2>2 DEF Injection, IsInjective
  <2>4. IsFiniteSet(1..m) /\ Cardinality(1..m) = m
    <3> HIDE DEF m
    <3> QED  BY <1>2, FS_Interval
  <2> HIDE DEF f, m
  <2>5. f \in Surjection(kept, 1..m)  BY ONLY <2>0, <2>3, <2>4, FS_Injection
  <2>6. \A k \in 1..m : \E i \in kept : f[i] = k  BY <2>5 DEF Surjection
  <2> QED  BY <2>6 DEF f
<1> HIDE DEF m
<1>6. m \in 0..n  BY <1>2
<1> QED  BY <1>3, <1>4, <1>5, <1>6 DEF m

\* Where the elements of what is left were in the list.
Places(kept) == [k \in 1..Cardinality(kept) |-> CHOOSE i \in kept : Rank(kept, i) = k]

\* Each element that is kept, and no other, has a place in the list that is left,
\* the first that of the first.
LEMMA SublistFacts ==
  ASSUME NEW S, NEW s \in Seq(S), NEW kept \in SUBSET DOMAIN s
  PROVE  /\ Sublist(s, kept) \in Seq(S) /\ Len(Sublist(s, kept)) = Cardinality(kept)
         /\ Cardinality(kept) \in Nat /\ DOMAIN Sublist(s, kept) = 1..Cardinality(kept)
         /\ \A k \in 1..Cardinality(kept) :
              Places(kept)[k] \in kept /\ Sublist(s, kept)[k] = s[Places(kept)[k]]
         /\ \A k, h \in 1..Cardinality(kept) : Places(kept)[k] = Places(kept)[h] => k = h
         /\ \A i \in kept : \E k \in 1..Cardinality(kept) : Places(kept)[k] = i
         /\ 1 \in kept => 1 \in 1..Cardinality(kept) /\ Places(kept)[1] = 1
<1> DEFINE m == Cardinality(kept)
           place == Places(kept)
<1>1. Len(s) \in Nat /\ DOMAIN s = 1..Len(s) /\ \A i \in 1..Len(s) : s[i] \in S
  BY LenProperties, ElementOfSeq
<1>2. /\ m \in Nat
      /\ \A i \in kept : Rank(kept, i) \in 1..m
      /\ \A i, j \in kept : i < j => Rank(kept, i) < Rank(kept, j)
      /\ \A k \in 1..m : \E i \in kept : Rank(kept, i) = k
  BY <1>1, Ranking
<1>0. place = [k \in 1..m |-> CHOOSE i \in kept : Rank(kept, i) = k]  BY DEF Places
<1>5. Sublist(s, kept) = [k \in 1..m |-> s[CHOOSE i \in kept : Rank(kept, i) = k]]
  BY DEF Sublist
<1> HIDE DEF m, place
<1>3. \A k \in 1..m : place[k] \in kept /\ Rank(kept, place[k]) = k
  BY <1>0, <1>2
<1>4. \A k \in 1..m : Sublist(s, kept)[k] = s[place[k]]  BY <1>0, <1>5
<1>6. \A i, j \in kept : Rank(kept, i) = Rank(kept, j) => i = j
  <2> SUFFICES ASSUME NEW i \in kept, NEW j \in kept, Rank(kept, i) = Rank(kept, j), i # j
               PROVE  FALSE
    OBVIOUS
  <2>1. i \in 1..Len(s) /\ j \in 1..Len(s)  BY <1>1
  <2>2. i < j \/ j < i  BY <2>1
  <2> QED  BY <1>2, <2>2
<1>7. \A i \in kept : \E k \in 1..m : place[k] = i  BY <1>2, <1>3, <1>6
<1>8. \A k \in 1..m : s[place[k]] \in S  BY <1>1, <1>3
<1>9. Sublist(s, kept) \in Seq(S) /\ Len(Sublist(s, kept)) = m /\ DOMAIN Sublist(s, kept) = 1..m
  <2>1. Sublist(s, kept) \in [1..m -> S]  BY <1>4, <1>5, <1>8
  <2> QED  BY <1>2, <2>1
<1>10. ASSUME 1 \in kept PROVE 1 \in 1..m /\ place[1] = 1
  <2>1. PICK k \in 1..m : place[k] = 1  BY <1>7, <1>10
  <2>2. CASE k = 1  BY <2>1, <2>2
  <2>3. CASE k # 1
    <3>1. 1 \in 1..m  BY <1>2, <2>1, <2>3
    <3>2. place[1] \in kept /\ Rank(kept, place[1]) = 1  BY <3>1, <1>3
    <3>3. place[1] \in 1..Len(s) /\ place[1] # 1  BY <3>2, <1>1, <2>1, <2>3, <1>3
    <3>4. 1 < place[1]  BY <3>3
    <3>5. Rank(kept, 1) < 1 /\ Rank(kept, 1) \in 1..m  BY <3>2, <3>4, <1>2, <1>10
    <3> QED  BY <3>5
  <2> QED  BY <2>2, <2>3
<1>11. \A k, h \in 1..m : place[k] = place[h] => k = h  BY <1>3
<1> QED  BY <1>2, <1>3, <1>4, <1>7, <1>9, <1>10, <1>11 DEF m, place
-----------------------------------------------------------------------------
(* The list of pending purges *)

EntryType == [port : Ports \cup {All}, exists : BOOLEAN, all : BOOLEAN,
              vlans : SUBSET Vlans, statics : BOOLEAN]

\* The global entry is the first, and a port has one live entry at most.
ListOK(l) ==
  /\ l \in Seq(EntryType) /\ l # <<>>
  /\ l[1].port = All /\ l[1].exists
  /\ \A i, j \in DOMAIN l :
       l[i].exists /\ l[j].exists /\ l[i].port = l[j].port => i = j

NoIdle(l) == \A i \in DOMAIN l : Orphan(l[i]) => Pending(l[i])
HasLive(l, p) == \E i \in DOMAIN l : l[i].port = p /\ l[i].exists

LEMMA ListFacts ==
  ASSUME NEW l, ListOK(l)
  PROVE  /\ l \in Seq(EntryType) /\ Len(l) \in Nat /\ DOMAIN l = 1..Len(l)
         /\ 1 \in DOMAIN l /\ \A i \in DOMAIN l : l[i] \in EntryType
<1>1. l \in Seq(EntryType) /\ l # <<>>  BY DEF ListOK
<1>2. Len(l) \in Nat /\ DOMAIN l = 1..Len(l) /\ \A i \in 1..Len(l) : l[i] \in EntryType
  BY <1>1, LenProperties, ElementOfSeq
<1>3. Len(l) # 0  BY <1>1, EmptySeq
<1> QED  BY <1>1, <1>2, <1>3

\* Entries are edited in place; none is brought to life.
LEMMA Edited ==
  ASSUME NEW l, ListOK(l), NEW m \in [DOMAIN l -> EntryType], m[1].exists,
         \A i \in DOMAIN l : m[i].port = l[i].port /\ (m[i].exists => l[i].exists)
  PROVE  ListOK(m) /\ Len(m) = Len(l) /\ DOMAIN m = DOMAIN l
<1>1. /\ Len(l) \in Nat /\ DOMAIN l = 1..Len(l) /\ 1 \in DOMAIN l
  BY ListFacts
<1>2. m \in [1..Len(l) -> EntryType]  BY <1>1
<1>3. m \in Seq(EntryType) /\ Len(m) = Len(l)  BY <1>1, <1>2
<1>4. m # <<>>  BY <1>1, <1>3, EmptySeq
<1> QED  BY <1>1, <1>3, <1>4 DEF ListOK

\* What fmMaybeDestroyMAPurgeListEntry leaves of the list: all that live, all that
\* have a purge pending.
LEMMA Destroyed ==
  ASSUME NEW l, ListOK(l), NEW visited
  PROVE  LET r == MaybeDestroy(l, visited) IN
         /\ ListOK(r)
         /\ \A k \in DOMAIN r : \E i \in DOMAIN l :
              r[k] = l[i] /\ (i \in visited /\ Orphan(l[i]) => Pending(l[i]))
         /\ \A i \in DOMAIN l : Pending(l[i]) \/ ~Orphan(l[i]) =>
              \E k \in DOMAIN r : r[k] = l[i]
<1> DEFINE kept == {i \in DOMAIN l : i \in visited /\ Orphan(l[i]) => Pending(l[i])}
           r == MaybeDestroy(l, visited)
           n == Cardinality(kept)
           place == Places(kept)
<1>1. /\ l \in Seq(EntryType) /\ 1 \in DOMAIN l
      /\ l[1].port = All /\ l[1].exists
      /\ \A i, j \in DOMAIN l :
           l[i].exists /\ l[j].exists /\ l[i].port = l[j].port => i = j
  BY ListFacts DEF ListOK
<1>2. 1 \in kept  BY <1>1 DEF Orphan
<1>3. kept \in SUBSET DOMAIN l  OBVIOUS
<1>4. r = Sublist(l, kept)  BY DEF MaybeDestroy
<1>5. \A i \in kept : i \in visited /\ Orphan(l[i]) => Pending(l[i])  OBVIOUS
<1>6. \A i \in DOMAIN l : Pending(l[i]) \/ ~Orphan(l[i]) => i \in kept  OBVIOUS
<1> HIDE DEF kept, r, n, place
<1>7. /\ r \in Seq(EntryType) /\ Len(r) = n /\ DOMAIN r = 1..n
      /\ \A k \in 1..n : place[k] \in kept /\ r[k] = l[place[k]]
      /\ \A k, h \in 1..n : place[k] = place[h] => k = h
      /\ \A i \in kept : \E k \in 1..n : place[k] = i
      /\ 1 \in 1..n /\ place[1] = 1
  BY <1>1, <1>2, <1>3, <1>4, SublistFacts DEF n, place
<1>8. \A k \in 1..n : place[k] \in kept /\ place[k] \in DOMAIN l /\ r[k] = l[place[k]]
  BY <1>3, <1>4, <1>7
<1>9. r # <<>> /\ r[1].port = All /\ r[1].exists
  <2>1. r # <<>>  BY <1>7, EmptySeq
  <2> QED  BY <2>1, <1>1, <1>7
<1>10. ListOK(r)
  <2>1. ASSUME NEW k \in 1..n, NEW h \in 1..n, r[k].exists, r[h].exists, r[k].port = r[h].port
        PROVE  k = h
    <3>1. place[k] = place[h]  BY <1>1, <1>8, <2>1
    <3> QED  BY <1>7, <3>1
  <2> QED  BY <1>7, <1>9, <2>1 DEF ListOK
<1>11. \A k \in DOMAIN r : \E i \in DOMAIN l :
         r[k] = l[i] /\ (i \in visited /\ Orphan(l[i]) => Pending(l[i]))
  BY <1>5, <1>7, <1>8
<1>12. \A i \in DOMAIN l : Pending(l[i]) \/ ~Orphan(l[i]) => \E k \in DOMAIN r : r[k] = l[i]
  BY <1>6, <1>7, <1>8
<1> QED  BY <1>10, <1>11, <1>12 DEF r
\* The entry of a port that is looked for, and made when there is none.
LEMMA Found ==
  ASSUME ListOK(list), NEW p \in Ports \cup {All}
  PROVE  LET l == GetPurgeEntry(p) IN
         /\ ListOK(l) /\ HasLive(l, p) /\ Len(list) <= Len(l)
         /\ \A i \in DOMAIN list : i \in DOMAIN l /\ l[i] = list[i]
         /\ NoIdle(list) => NoIdle(l)
<1>1. /\ Len(list) \in Nat /\ DOMAIN list = 1..Len(list) /\ 1 \in DOMAIN list
      /\ list \in Seq(EntryType) /\ \A i \in DOMAIN list : list[i] \in EntryType
  BY ListFacts
<1>2. CASE HasLive(list, p)  BY <1>1, <1>2 DEF HasLive, GetPurgeEntry
<1>3. CASE ~HasLive(list, p)
  <2> DEFINE l == Append(list, Entry(p))
  <2>1. Entry(p) \in EntryType /\ Entry(p).port = p /\ Entry(p).exists
        /\ ~Orphan(Entry(p))
    BY DEF Entry, EntryType, Orphan
  <2>2. /\ l \in Seq(EntryType) /\ Len(l) = Len(list) + 1 /\ l[Len(list) + 1] = Entry(p)
        /\ \A i \in 1..Len(list) : l[i] = list[i]
    BY <1>1, <2>1, AppendProperties
  <2>3. DOMAIN l = 1..Len(list) + 1 /\ l # <<>>  BY <1>1, <2>2, EmptySeq
  <2>4. GetPurgeEntry(p) = l  BY <1>3 DEF GetPurgeEntry, HasLive
  <2> HIDE DEF l
  <2>5. \A i \in DOMAIN l : i # Len(list) + 1 => i \in DOMAIN list /\ l[i] = list[i]
    BY <1>1, <2>2, <2>3
  <2>6. ASSUME NEW i \in DOMAIN l, NEW j \in DOMAIN l,
               l[i].exists, l[j].exists, l[i].port = l[j].port
        PROVE  i = j
    <3>1. CASE i = Len(list) + 1 /\ j # Len(list) + 1
      BY <1>3, <2>1, <2>2, <2>5, <2>6, <3>1 DEF HasLive
    <3>2. CASE j = Len(list) + 1 /\ i # Len(list) + 1
      BY <1>3, <2>1, <2>2, <2>5, <2>6, <3>2 DEF HasLive
    <3>3. CASE i # Len(list) + 1 /\ j # Len(list) + 1
      BY <2>5, <2>6, <3>3 DEF ListOK
    <3> QED  BY <3>1, <3>2, <3>3
  <2>7. ListOK(l)
    <3>1. l[1] = list[1]  BY <1>1, <2>2
    <3> QED  BY <2>2, <2>3, <2>6, <3>1 DEF ListOK
  <2>8. HasLive(l, p)
    <3>1. Len(list) + 1 \in DOMAIN l  BY <1>1, <2>3
    <3> QED  BY <2>1, <2>2, <3>1 DEF HasLive
  <2>9. NoIdle(list) => NoIdle(l)  BY <2>1, <2>2, <2>5 DEF NoIdle
  <2>10. Len(list) <= Len(l)  BY <1>1, <2>2
  <2>11. \A i \in DOMAIN list : i \in DOMAIN l /\ l[i] = list[i]  BY <1>1, <2>2, <2>3
  <2> QED  BY <2>4, <2>7, <2>8, <2>9, <2>10, <2>11
<1> QED  BY <1>2, <1>3

LEMMA AtFacts ==
  ASSUME NEW l, ListOK(l), NEW p, HasLive(l, p)
  PROVE  /\ At(l, p) \in DOMAIN l /\ l[At(l, p)].port = p /\ l[At(l, p)].exists
         /\ p = All => At(l, p) = 1
<1>1. At(l, p) \in DOMAIN l /\ l[At(l, p)].port = p /\ l[At(l, p)].exists
  BY DEF At, HasLive
<1>2. 1 \in DOMAIN l /\ l[1].port = All /\ l[1].exists  BY ListFacts DEF ListOK
<1> QED  BY <1>1, <1>2 DEF ListOK

\* A purge reaches the address, which is not a locked one.
Reaches(p, v, c) ==
  /\ table[c] # "invalid"
  /\ \/ table[c] = "expired"
     \/ p \in {All, Home[c].port} /\ v \in {All, Home[c].vlan}
Hits(e, c) ==
  /\ table[c] # "invalid"
  /\ \/ table[c] = "expired" /\ Pending(e)
     \/ e.port \in {All, Home[c].port} /\ (e.all \/ Home[c].vlan \in e.vlans)
Reached(l, c) == \E i \in DOMAIN l : Hits(l[i], c)

LEMMA HitsPending == ASSUME NEW e, NEW c, Hits(e, c) PROVE Pending(e)
BY DEF Hits, Pending

\* No purge goes with the entries that are destroyed.
LEMMA DestroyedWhole ==
  ASSUME NEW l, ListOK(l), NEW visited, NEW q, AsksWhole(l, q)
  PROVE  AsksWhole(MaybeDestroy(l, visited), q)
<1>1. PICK i \in DOMAIN l : l[i].all /\ l[i].port \in {All, q}  BY DEF AsksWhole
<1>2. Pending(l[i])  BY <1>1 DEF Pending
<1> HIDE DEF Pending
<1> DEFINE r == MaybeDestroy(l, visited)
<1>3. \A j \in DOMAIN l : Pending(l[j]) \/ ~Orphan(l[j]) => \E k \in DOMAIN r : r[k] = l[j]
  BY Destroyed
<1>4. PICK k \in DOMAIN r : r[k] = l[i]  BY <1>2, <1>3
<1> QED  BY <1>1, <1>4 DEF AsksWhole

\* No address goes out of reach with the entries that are destroyed.
LEMMA DestroyedReach ==
  ASSUME NEW l, ListOK(l), NEW visited, NEW c, Reached(l, c)
  PROVE  Reached(MaybeDestroy(l, visited), c)
<1>1. PICK i \in DOMAIN l : Hits(l[i], c)  BY DEF Reached
<1>2. Pending(l[i])  BY <1>1, HitsPending
<1> HIDE DEF Pending
<1> DEFINE r == MaybeDestroy(l, visited)
<1>3. \A j \in DOMAIN l : Pending(l[j]) \/ ~Orphan(l[j]) => \E k \in DOMAIN r : r[k] = l[j]
  BY Destroyed
<1>4. PICK k \in DOMAIN r : r[k] = l[i]  BY <1>2, <1>3
<1> QED  BY <1>1, <1>4 DEF Reached

LEMMA DestroyedIdle ==
  ASSUME NEW l, ListOK(l), NEW visited,
         \A i \in DOMAIN l : i \notin visited /\ Orphan(l[i]) => Pending(l[i])
  PROVE  NoIdle(MaybeDestroy(l, visited))
<1> DEFINE r == MaybeDestroy(l, visited)
<1>1. \A k \in DOMAIN r : \E i \in DOMAIN l :
        r[k] = l[i] /\ (i \in visited /\ Orphan(l[i]) => Pending(l[i]))
  BY Destroyed
<1> HIDE DEF r
<1>2. NoIdle(r)  BY <1>1 DEF NoIdle
<1> QED  BY <1>2 DEF r
-----------------------------------------------------------------------------
(* The merging of a request with those that are pending *)

LEMMA CellFacts ==
  ASSUME NEW c \in Cells
  PROVE  /\ Home[c].port \in Ports /\ Home[c].vlan \in Vlans /\ Home[c].vlan # All
         /\ Home[c].port # All /\ Cells = 1..Len(Home) /\ Len(Home) \in Nat
<1>1. Len(Home) \in Nat /\ Cells = 1..Len(Home)
  BY HomeAssumption, LenProperties DEF Cells
<1>2. Home[c] \in [port : Lags \cup {0}, vlan : Vlans]
  BY <1>1, HomeAssumption, ElementOfSeq
<1> QED  BY <1>1, <1>2, LagsAssumption, VlansAssumption DEF Ports, All

\* What holds of a merge: the list is in order, and the address stays in reach, or
\* comes in reach, of what the list asks for; so does a port as a whole.
Good(l, m, p, v) ==
  /\ ListOK(m) /\ NoIdle(m)
  /\ \A c \in Cells : Reached(l, c) \/ Reaches(p, v, c) => Reached(m, c)
  /\ \A q : AsksWhole(l, q) \/ (v = All /\ p \in {All, q}) => AsksWhole(m, q)

LEMMA MergedGood ==
  ASSUME NEW l, ListOK(l), NoIdle(l), NEW p \in Ports \cup {All},
         NEW v \in Vlans \cup {All}, HasLive(l, p), IsMerged(l, p, v)
  PROVE  Good(l, l, p, v)
<1> DEFINE i == At(l, p)
<1>1. i \in DOMAIN l /\ l[i].port = p /\ 1 \in DOMAIN l /\ l[1].port = All
  BY AtFacts, ListFacts DEF ListOK
<1>2. \/ l[i].all \/ v \in l[i].vlans
      \/ p # All /\ (l[1].all \/ v \in l[1].vlans)
  BY DEF IsMerged
<1> HIDE DEF i
<1>3. ASSUME NEW c \in Cells, Reaches(p, v, c) PROVE Reached(l, c)
  <2>1. v \notin Vlans => v = All  OBVIOUS
  <2>2. All \notin Vlans  BY VlansAssumption DEF All
  <2>3. l[i] \in EntryType /\ l[1] \in EntryType  BY <1>1, ListFacts
  <2>4. v = All => v \notin l[i].vlans /\ v \notin l[1].vlans  BY <2>2, <2>3 DEF EntryType
  <2>5. Hits(l[i], c) \/ Hits(l[1], c)
    BY <1>1, <1>2, <1>3, <2>4, CellFacts DEF Hits, Reaches, Pending
  <2> QED  BY <1>1, <2>5 DEF Reached
<1>4. ASSUME NEW q, v = All, p \in {All, q} PROVE AsksWhole(l, q)
  <2>1. All \notin Vlans  BY VlansAssumption DEF All
  <2>2. l[i] \in EntryType /\ l[1] \in EntryType  BY <1>1, ListFacts
  <2>3. l[i].all \/ l[1].all  BY <1>2, <1>4, <2>1, <2>2 DEF EntryType
  <2> QED  BY <1>1, <1>4, <2>3 DEF AsksWhole
<1> QED  BY <1>3, <1>4 DEF Good

\* A purge of every VLAN of a port.
LEMMA PortGood ==
  ASSUME NEW l, ListOK(l), NoIdle(l), NEW p \in Ports, HasLive(l, p)
  PROVE  Good(l, [l EXCEPT ![At(l, p)].all = TRUE, ![At(l, p)].vlans = {}], p, All)
<1> DEFINE i == At(l, p)
           m == [l EXCEPT ![i].all = TRUE, ![i].vlans = {}]
<1>1. i \in DOMAIN l /\ l[i].port = p /\ l[i].exists  BY AtFacts
<1> HIDE DEF i
<1>2. \A j \in DOMAIN l : l[j] \in EntryType  BY ListFacts
<1>3. /\ DOMAIN m = DOMAIN l
      /\ m[i] = [[l[i] EXCEPT !.all = TRUE] EXCEPT !.vlans = {}]
      /\ \A j \in DOMAIN l : j # i => m[j] = l[j]
  BY <1>1
<1>4. /\ m[i].port = l[i].port /\ m[i].exists = l[i].exists /\ m[i].all
      /\ m[i].vlans = {} /\ m[i] \in EntryType
  BY <1>1, <1>2, <1>3 DEF EntryType
<1>5. m \in [DOMAIN l -> EntryType]  BY <1>1, <1>2, <1>4
<1> HIDE DEF m
<1>6. \A j \in DOMAIN l : m[j].port = l[j].port /\ m[j].exists = l[j].exists
  BY <1>3, <1>4
<1>7. 1 \in DOMAIN l /\ l[1].exists  BY ListFacts DEF ListOK
<1>8. ListOK(m)  BY <1>5, <1>6, <1>7, Edited
<1>9. NoIdle(m)  BY <1>3, <1>4 DEF NoIdle, Orphan, Pending
<1>10. ASSUME NEW c \in Cells, Reached(l, c) \/ Reaches(p, All, c) PROVE Reached(m, c)
  <2>1. CASE Reaches(p, All, c)
    <3>1. Hits(m[i], c)  BY <1>1, <1>4, <2>1 DEF Hits, Reaches, Pending
    <3> QED  BY <1>1, <1>3, <3>1 DEF Reached
  <2>2. ASSUME NEW j \in DOMAIN l, Hits(l[j], c) PROVE Reached(m, c)
    <3>1. CASE j = i
      <4>1. Hits(m[i], c)  BY <1>4, <2>2, <3>1 DEF Hits, Pending
      <4> QED  BY <1>1, <1>3, <4>1 DEF Reached
    <3>2. CASE j # i  BY <1>3, <2>2, <3>2 DEF Reached
    <3> QED  BY <3>1, <3>2
  <2> QED  BY <1>10, <2>1, <2>2 DEF Reached
<1>11. ASSUME NEW q, AsksWhole(l, q) \/ p \in {All, q} PROVE AsksWhole(m, q)
  <2>1. CASE p \in {All, q}  BY <1>1, <1>3, <1>4, <2>1 DEF AsksWhole
  <2>2. CASE AsksWhole(l, q)
    <3>1. PICK j \in DOMAIN l : l[j].all /\ l[j].port \in {All, q}
      BY <2>2 DEF AsksWhole
    <3>2. m[j].all /\ m[j].port = l[j].port  BY <1>3, <1>4, <3>1
    <3> QED  BY <1>3, <3>1, <3>2 DEF AsksWhole
  <2> QED  BY <1>11, <2>1, <2>2
<1> QED  BY <1>8, <1>9, <1>10, <1>11 DEF Good, m, i

\* A purge of every VLAN that cancels nothing.
LEMMA WholeGood ==
  ASSUME NEW l, ListOK(l), NoIdle(l), NEW p \in Ports \cup {All}, HasLive(l, p)
  PROVE  LET m == [l EXCEPT ![At(l, p)].all = TRUE] IN
         Good(l, m, p, All) /\ Len(m) = Len(l)
<1> DEFINE i == At(l, p)
           m == [l EXCEPT ![i].all = TRUE]
<1>1. i \in DOMAIN l /\ l[i].port = p /\ l[i].exists  BY AtFacts
<1> HIDE DEF i
<1>2. \A j \in DOMAIN l : l[j] \in EntryType  BY ListFacts
<1>3. /\ DOMAIN m = DOMAIN l /\ m[i] = [l[i] EXCEPT !.all = TRUE]
      /\ \A j \in DOMAIN l : j # i => m[j] = l[j]
  BY <1>1
<1>4. /\ m[i].port = l[i].port /\ m[i].exists = l[i].exists /\ m[i].all
      /\ m[i].vlans = l[i].vlans /\ m[i] \in EntryType
  BY <1>1, <1>2, <1>3 DEF EntryType
<1>5. m \in [DOMAIN l -> EntryType]  BY <1>1, <1>2, <1>4
<1> HIDE DEF m
<1>6. \A j \in DOMAIN l : m[j].port = l[j].port /\ m[j].exists = l[j].exists
  BY <1>3, <1>4
<1>7. 1 \in DOMAIN l /\ l[1].exists  BY ListFacts DEF ListOK
<1>8. ListOK(m) /\ Len(m) = Len(l)  BY <1>5, <1>6, <1>7, Edited
<1>9. NoIdle(m)  BY <1>3, <1>4 DEF NoIdle, Orphan, Pending
<1>10. ASSUME NEW c \in Cells, Reached(l, c) \/ Reaches(p, All, c) PROVE Reached(m, c)
  <2>1. CASE Reaches(p, All, c)
    <3>1. Hits(m[i], c)  BY <1>1, <1>4, <2>1 DEF Hits, Reaches, Pending
    <3> QED  BY <1>1, <1>3, <3>1 DEF Reached
  <2>2. ASSUME NEW j \in DOMAIN l, Hits(l[j], c) PROVE Reached(m, c)
    <3>1. Hits(m[j], c)  BY <1>3, <1>4, <2>2 DEF Hits, Pending
    <3> QED  BY <1>3, <3>1 DEF Reached
  <2> QED  BY <1>10, <2>1, <2>2 DEF Reached
<1>11. ASSUME NEW q, AsksWhole(l, q) \/ p \in {All, q} PROVE AsksWhole(m, q)
  <2>1. CASE p \in {All, q}  BY <1>1, <1>3, <1>4, <2>1 DEF AsksWhole
  <2>2. CASE AsksWhole(l, q)  BY <1>3, <1>4, <2>2 DEF AsksWhole
  <2> QED  BY <1>11, <2>1, <2>2
<1> QED  BY <1>8, <1>9, <1>10, <1>11 DEF Good, m, i

\* A VLAN more for an entry.
LEMMA VlanAdded ==
  ASSUME NEW l, ListOK(l), NoIdle(l), NEW p \in Ports \cup {All},
         NEW v \in Vlans, HasLive(l, p)
  PROVE  LET m == [l EXCEPT ![At(l, p)].vlans = @ \cup {v}] IN
         /\ Good(l, m, p, v)
         /\ DOMAIN m = DOMAIN l /\ m[At(l, p)].port = p /\ v \in m[At(l, p)].vlans
<1> DEFINE i == At(l, p)
           m == [l EXCEPT ![i].vlans = @ \cup {v}]
<1>1. i \in DOMAIN l /\ l[i].port = p /\ l[i].exists  BY AtFacts
<1> HIDE DEF i
<1>2. \A j \in DOMAIN l : l[j] \in EntryType  BY ListFacts
<1>3. /\ DOMAIN m = DOMAIN l
      /\ m[i] = [l[i] EXCEPT !.vlans = @ \cup {v}]
      /\ \A j \in DOMAIN l : j # i => m[j] = l[j]
  BY <1>1
<1>4. /\ m[i].port = l[i].port /\ m[i].exists = l[i].exists /\ m[i].all = l[i].all
      /\ m[i].vlans = l[i].vlans \cup {v} /\ m[i] \in EntryType
  BY <1>1, <1>2, <1>3 DEF EntryType
<1>5. m \in [DOMAIN l -> EntryType]  BY <1>1, <1>2, <1>4
<1> HIDE DEF m
<1>6. \A j \in DOMAIN l : m[j].port = l[j].port /\ m[j].exists = l[j].exists
  BY <1>3, <1>4
<1>7. 1 \in DOMAIN l /\ l[1].exists  BY ListFacts DEF ListOK
<1>8. ListOK(m)  BY <1>5, <1>6, <1>7, Edited
<1>9. NoIdle(m)  BY <1>3, <1>4 DEF NoIdle, Orphan, Pending
<1>10. ASSUME NEW c \in Cells, Reached(l, c) \/ Reaches(p, v, c) PROVE Reached(m, c)
  <2>1. CASE Reaches(p, v, c)
    <3>1. v # All  BY VlansAssumption DEF All
    <3>2. Hits(m[i], c)  BY <1>1, <1>4, <2>1, <3>1 DEF Hits, Reaches, Pending
    <3> QED  BY <1>1, <1>3, <3>2 DEF Reached
  <2>2. ASSUME NEW j \in DOMAIN l, Hits(l[j], c) PROVE Reached(m, c)
    <3>1. CASE j = i
      <4>1. Hits(m[i], c)  BY <1>4, <2>2, <3>1 DEF Hits, Pending
      <4> QED  BY <1>1, <1>3, <4>1 DEF Reached
    <3>2. CASE j # i  BY <1>3, <2>2, <3>2 DEF Reached
    <3> QED  BY <3>1, <3>2
  <2> QED  BY <1>10, <2>1, <2>2 DEF Reached
<1>11. m[i].port = p /\ v \in m[i].vlans  BY <1>1, <1>4
<1>12. ASSUME NEW q, AsksWhole(l, q) PROVE AsksWhole(m, q)
  BY <1>3, <1>4, <1>12 DEF AsksWhole
<1>13. v # All  BY VlansAssumption DEF All
<1> QED  BY <1>3, <1>8, <1>9, <1>10, <1>11, <1>12, <1>13 DEF Good, m, i

\* A purge of every VLAN of the switch cancels all that are pending.
LEMMA AllGood ==
  ASSUME NEW l, ListOK(l), NoIdle(l)
  PROVE  Good(l, CancelAllPurgeEntries([l EXCEPT ![1].all = TRUE]), All, All)
<1> DEFINE g == [l EXCEPT ![1].all = TRUE]
           Cancelled(e) == IF e.port # All /\ e.all THEN [e EXCEPT !.all = FALSE]
                                                    ELSE [e EXCEPT !.vlans = {}]
           m == [j \in DOMAIN g |-> Cancelled(g[j])]
           r == MaybeDestroy(m, DOMAIN g)
<1>1. /\ 1 \in DOMAIN l /\ l[1].port = All /\ l[1].exists
      /\ \A j \in DOMAIN l : l[j] \in EntryType
  BY ListFacts DEF ListOK
<1>2. /\ DOMAIN g = DOMAIN l /\ g[1] = [l[1] EXCEPT !.all = TRUE]
      /\ \A j \in DOMAIN l : j # 1 => g[j] = l[j]
  BY <1>1
<1>3. /\ g[1].port = All /\ g[1].exists /\ g[1].all
      /\ \A j \in DOMAIN l : /\ g[j] \in EntryType /\ g[j].port = l[j].port
                            /\ g[j].exists = l[j].exists
  BY <1>1, <1>2 DEF EntryType
<1>r. CancelAllPurgeEntries([l EXCEPT ![1].all = TRUE]) = r
  BY DEF CancelAllPurgeEntries
<1> HIDE DEF g
<1>4. ASSUME NEW e \in EntryType
      PROVE  /\ Cancelled(e) \in EntryType /\ Cancelled(e).port = e.port
             /\ Cancelled(e).exists = e.exists
             /\ e.port = All => Cancelled(e).all = e.all
  BY DEF EntryType
<1> HIDE DEF Cancelled
<1>5. /\ m \in [DOMAIN l -> EntryType] /\ m[1].exists
      /\ \A j \in DOMAIN l : m[j].port = l[j].port /\ m[j].exists = l[j].exists
      /\ m[1].port = All /\ m[1].all
  <2>1. m = [j \in DOMAIN l |-> Cancelled(g[j])]  BY <1>2
  <2>2. ASSUME NEW j \in DOMAIN l
        PROVE  /\ Cancelled(g[j]) \in EntryType /\ Cancelled(g[j]).port = l[j].port
               /\ Cancelled(g[j]).exists = l[j].exists
    BY <1>3, <1>4
  <2>3. g[1] \in EntryType /\ Cancelled(g[1]).all = g[1].all  BY <1>1, <1>3, <1>4
  <2> HIDE DEF m
  <2> QED  BY ONLY <1>1, <1>3, <2>1, <2>2, <2>3
<1> HIDE DEF m
<1>6. ListOK(m) /\ DOMAIN m = DOMAIN l  BY <1>5, Edited
<1>7. ListOK(r)  BY <1>6, Destroyed
<1>8. NoIdle(r)  BY <1>2, <1>6, DestroyedIdle
<1>9. ASSUME NEW c \in Cells, table[c] # "invalid" PROVE Reached(r, c)
  <2>1. Hits(m[1], c)  BY <1>5, <1>9 DEF Hits, Pending
  <2>2. Reached(m, c)  BY <1>1, <1>6, <2>1 DEF Reached
  <2> QED  BY <1>6, <2>2, DestroyedReach
<1>11. ASSUME NEW q PROVE AsksWhole(r, q)
  <2>1. AsksWhole(m, q)  BY <1>1, <1>5, <1>6 DEF AsksWhole
  <2> QED  BY <1>6, <2>1, DestroyedWhole
<1> HIDE DEF r
<1>10. \A c \in Cells : Reached(l, c) \/ Reaches(All, All, c) => table[c] # "invalid"
  BY DEF Reached, Hits, Reaches
<1> QED  BY <1>7, <1>8, <1>9, <1>10, <1>11, <1>r DEF Good

\* A purge of one VLAN of the switch cancels those of its ports.
LEMMA CancelGood ==
  ASSUME NEW l, ListOK(l), NEW v \in Vlans, v \in l[1].vlans
  PROVE  LET r == CancelVlan(l, v) IN
         /\ ListOK(r) /\ NoIdle(r)
         /\ \A c \in Cells : Reached(l, c) => Reached(r, c)
         /\ \A q : AsksWhole(l, q) => AsksWhole(r, q)
<1> DEFINE Cancelled(e) == IF e.port = All THEN e ELSE [e EXCEPT !.vlans = @ \ {v}]
           m == [j \in DOMAIN l |-> Cancelled(l[j])]
           r == MaybeDestroy(m, DOMAIN l)
<1>1. /\ 1 \in DOMAIN l /\ l[1].port = All /\ l[1].exists
      /\ \A j \in DOMAIN l : l[j] \in EntryType
  BY ListFacts DEF ListOK
<1>r. CancelVlan(l, v) = r  BY DEF CancelVlan
<1>2. ASSUME NEW e \in EntryType
      PROVE  /\ Cancelled(e) \in EntryType /\ Cancelled(e).port = e.port
             /\ Cancelled(e).exists = e.exists /\ Cancelled(e).all = e.all
             /\ e.vlans \ {v} \subseteq Cancelled(e).vlans
             /\ e.port = All => Cancelled(e) = e
  BY DEF EntryType
<1> HIDE DEF Cancelled
<1>3. /\ m \in [DOMAIN l -> EntryType] /\ m[1] = l[1]
      /\ \A j \in DOMAIN l : /\ m[j].port = l[j].port /\ m[j].exists = l[j].exists
                            /\ m[j].all = l[j].all /\ l[j].vlans \ {v} \subseteq m[j].vlans
  BY <1>1, <1>2
<1> HIDE DEF m
<1>4. ListOK(m) /\ DOMAIN m = DOMAIN l  BY <1>1, <1>3, Edited
<1>5. ListOK(r)  BY <1>4, Destroyed
<1>6. NoIdle(r)  BY <1>4, DestroyedIdle
<1>7. ASSUME NEW c \in Cells, NEW j \in DOMAIN l, Hits(l[j], c) PROVE Reached(m, c)
  <2>1. Pending(m[1])  BY <1>3 DEF Pending
  <2>2. CASE table[c] = "expired"
    <3>1. Hits(m[1], c)  BY <2>1, <2>2 DEF Hits
    <3> QED  BY <1>1, <1>4, <3>1 DEF Reached
  <2>3. CASE table[c] # "expired" /\ ~l[j].all /\ Home[c].vlan = v
    <3>1. Hits(m[1], c)  BY <1>1, <1>3, <1>7, <2>3 DEF Hits
    <3> QED  BY <1>1, <1>4, <3>1 DEF Reached
  <2>4. CASE table[c] # "expired" /\ (l[j].all \/ Home[c].vlan # v)
    <3>1. Hits(m[j], c)  BY <1>3, <1>7, <2>4 DEF Hits
    <3> QED  BY <1>4, <3>1 DEF Reached
  <2> QED  BY <2>2, <2>3, <2>4
<1>8. \A c \in Cells : Reached(l, c) => Reached(r, c)
  <2>1. \A c \in Cells : Reached(l, c) => Reached(m, c)  BY <1>7 DEF Reached
  <2> QED  BY <1>4, <2>1, DestroyedReach
<1>9. ASSUME NEW q, AsksWhole(l, q) PROVE AsksWhole(r, q)
  <2>1. AsksWhole(m, q)  BY <1>3, <1>4, <1>9 DEF AsksWhole
  <2> QED  BY <1>4, <2>1, DestroyedWhole
<1> QED  BY <1>5, <1>6, <1>8, <1>9, <1>r

\* However a request is merged, the list that comes of it asks for all that it and the
\* list before asked for.
LEMMA MergeGood ==
  ASSUME NEW l, ListOK(l), NoIdle(l), NEW p \in Ports \cup {All},
         NEW v \in Vlans \cup {All}, HasLive(l, p)
  PROVE  Good(l, Merge(l, p, v), p, v)
<1>0. p = All => At(l, p) = 1  BY AtFacts
<1>n. All \notin Vlans /\ All \notin Ports
  BY VlansAssumption, LagsAssumption DEF All, Ports
<1>1. CASE IsMerged(l, p, v)  BY <1>1, MergedGood DEF Merge
<1>2. CASE ~IsMerged(l, p, v) /\ v = All /\ p = All
  BY <1>0, <1>2, AllGood DEF Merge
<1>3. CASE ~IsMerged(l, p, v) /\ v = All /\ p # All
  <2>1. p \in Ports  BY <1>3
  <2>2. Merge(l, p, v) = [l EXCEPT ![At(l, p)].all = TRUE, ![At(l, p)].vlans = {}]
    BY <1>3 DEF Merge
  <2> QED  BY <1>3, <2>1, <2>2, PortGood
<1>4. CASE ~IsMerged(l, p, v) /\ v # All
  <2> DEFINE m == [l EXCEPT ![At(l, p)].vlans = @ \cup {v}]
  <2>1. v \in Vlans  BY <1>4
  <2>2. Good(l, m, p, v) /\ v \in m[At(l, p)].vlans  BY <2>1, VlanAdded
  <2>3. CASE p = All
    <3>1. Merge(l, p, v) = CancelVlan(m, v)  BY <1>4, <2>3 DEF Merge
    <3> HIDE DEF m
    <3>2. ListOK(m) /\ v \in m[1].vlans  BY <1>0, <2>2, <2>3 DEF Good
    <3>3. /\ ListOK(CancelVlan(m, v)) /\ NoIdle(CancelVlan(m, v))
          /\ \A c \in Cells : Reached(m, c) => Reached(CancelVlan(m, v), c)
          /\ \A q : AsksWhole(m, q) => AsksWhole(CancelVlan(m, v), q)
      BY <2>1, <3>2, CancelGood
    <3> QED  BY <2>2, <3>1, <3>3 DEF Good
  <2>4. CASE p # All
    <3>1. Merge(l, p, v) = m  BY <1>4, <2>4 DEF Merge
    <3> QED  BY <2>2, <3>1
  <2> QED  BY <2>3, <2>4
<1> QED  BY <1>1, <1>2, <1>3, <1>4
-----------------------------------------------------------------------------
(* The purge that is taken from the list *)

LEMMA Least == ASSUME NEW T \in SUBSET Nat, T # {} PROVE \E x \in T : \A y \in T : x <= y
<1> DEFINE R == OpToRel(<, Nat)
<1>1. IsWellFoundedOn(R, Nat)  BY Zenon, NatLessThanWellFounded
<1>2. \A x, y \in Nat : x < y => <<x, y>> \in R  BY DEF OpToRel
<1> HIDE DEF R
<1>3. PICK x \in T : \A y \in T : ~(<<y, x>> \in R)
  BY ONLY <1>1, T \in SUBSET Nat, T # {}, WFMin
<1>4. \A y \in T : ~(y < x)  BY <1>2, <1>3
<1> QED  BY <1>3, <1>4

\* fmGetNextPurgeRequest finds an entry whenever one has a purge, and takes one of its
\* purges.
Vid1(e) == IF e.all THEN All ELSE CHOOSE w \in e.vlans : \A x \in e.vlans : w <= x

LEMMA NextFacts ==
  ASSUME ListOK(list), scan \in DOMAIN list, IsAnotherPurgePending(list)
  PROVE  NextEntry \in DOMAIN list /\ Pending(list[NextEntry])
<1>1. Len(list) \in Nat /\ Len(list) # 0 /\ DOMAIN list = 1..Len(list)  BY ListFacts
<1> DEFINE T == {ScanDistance(i) : i \in {j \in DOMAIN list : Pending(list[j])}}
<1>2. T # {}  BY DEF IsAnotherPurgePending
<1>3. \A i \in DOMAIN list : ScanDistance(i) \in Nat  BY <1>1 DEF ScanDistance
<1>4. T \in SUBSET Nat  BY <1>3
<1>5. \A i \in DOMAIN list : Pending(list[i]) => ScanDistance(i) \in T  OBVIOUS
<1>6. \A x \in T : \E i \in DOMAIN list : Pending(list[i]) /\ x = ScanDistance(i)  OBVIOUS
<1> HIDE DEF T
<1>7. PICK x \in T : \A y \in T : x <= y  BY <1>2, <1>4, Least
<1>8. PICK i \in DOMAIN list : Pending(list[i]) /\ x = ScanDistance(i)  BY <1>6
<1>9. \A j \in DOMAIN list : Pending(list[j]) => ScanDistance(i) <= ScanDistance(j)
  BY <1>5, <1>7, <1>8
<1> QED  BY <1>8, <1>9 DEF NextEntry

LEMMA Vid1Facts ==
  ASSUME NEW e \in EntryType, Pending(e)
  PROVE  (e.all /\ Vid1(e) = All) \/ (~e.all /\ Vid1(e) \in e.vlans /\ Vid1(e) \in Vlans)
<1>1. CASE e.all  BY <1>1 DEF Vid1
<1>2. CASE ~e.all
  <2>1. e.vlans # {} /\ e.vlans \in SUBSET Vlans  BY <1>2 DEF Pending, EntryType
  <2>2. e.vlans \in SUBSET Nat  BY <2>1, VlansAssumption
  <2>3. \E w \in e.vlans : \A x \in e.vlans : w <= x  BY <2>1, <2>2, Least
  <2>4. Vid1(e) \in e.vlans  BY <1>2, <2>3 DEF Vid1
  <2> QED  BY <1>2, <2>1, <2>4
<1> QED  BY <1>1, <1>2

\* What remains asks for the rest: an address that the entry reached is reached by the
\* purge taken or by what the entry keeps.
LEMMA TakenGood ==
  ASSUME NEW l, ListOK(l), NoIdle(l), NEW i \in DOMAIN l, Pending(l[i])
  PROVE  LET v    == Vid1(l[i])
             left == [l EXCEPT ![i] = RemovePending(l[i], v)]
             r    == MaybeDestroy(left, {i}) IN
         /\ Len(left) = Len(l) /\ ListOK(r) /\ NoIdle(r)
         /\ \A c \in Cells : Reached(l, c) => Reached(r, c) \/ Reaches(l[i].port, v, c)
         /\ \A q : AsksWhole(l, q) =>
              AsksWhole(r, q) \/ (v = All /\ l[i].port \in {All, q})
<1> DEFINE v == Vid1(l[i])
           left == [l EXCEPT ![i] = RemovePending(l[i], v)]
           r == MaybeDestroy(left, {i})
<1>1. /\ \A j \in DOMAIN l : l[j] \in EntryType
      /\ 1 \in DOMAIN l /\ l[1].exists
  BY ListFacts DEF ListOK
<1>2. (l[i].all /\ v = All) \/ (~l[i].all /\ v \in l[i].vlans /\ v \in Vlans)
  BY <1>1, Vid1Facts
<1> HIDE DEF v
<1>n. All \notin Vlans  BY VlansAssumption DEF All
<1>3. /\ RemovePending(l[i], v) \in EntryType
      /\ RemovePending(l[i], v).port = l[i].port
      /\ RemovePending(l[i], v).exists = l[i].exists
      /\ v # All => RemovePending(l[i], v).all = l[i].all
      /\ v # All => RemovePending(l[i], v).vlans = l[i].vlans \ {v}
  <2>1. CASE v = All  BY <1>1, <2>1 DEF RemovePending, EntryType
  <2>2. CASE v # All  BY <1>1, <2>2 DEF RemovePending, EntryType
  <2> QED  BY <2>1, <2>2
<1>4. /\ DOMAIN left = DOMAIN l /\ left[i] = RemovePending(l[i], v)
      /\ \A j \in DOMAIN l : j # i => left[j] = l[j]
  OBVIOUS
<1>5. /\ left \in [DOMAIN l -> EntryType] /\ left[1].exists
      /\ \A j \in DOMAIN l : left[j].port = l[j].port /\ left[j].exists = l[j].exists
  BY <1>1, <1>3, <1>4
<1> HIDE DEF left
<1>6. ListOK(left) /\ Len(left) = Len(l)  BY <1>5, Edited
<1>7. ListOK(r)  BY <1>6, Destroyed
<1>8. NoIdle(r)
  <2>1. \A j \in DOMAIN left : j \notin {i} /\ Orphan(left[j]) => Pending(left[j])
    BY <1>4 DEF NoIdle
  <2> QED  BY <1>6, <2>1, DestroyedIdle
<1>9. ASSUME NEW c \in Cells, NEW j \in DOMAIN l, Hits(l[j], c)
      PROVE  Reached(left, c) \/ Reaches(l[i].port, v, c)
  <2>1. CASE j # i
    <3>1. Hits(left[j], c)  BY <1>4, <1>9, <2>1
    <3> QED  BY <1>4, <3>1 DEF Reached
  <2>2. CASE j = i /\ v # All /\ table[c] # "expired" /\ Home[c].vlan # v
    <3>1. Hits(left[i], c)  BY <1>3, <1>4, <1>9, <2>2 DEF Hits
    <3> QED  BY <1>4, <3>1 DEF Reached
  <2>3. CASE j = i /\ (v = All \/ table[c] = "expired" \/ Home[c].vlan = v)
    BY <1>9, <2>3 DEF Hits, Reaches
  <2> QED  BY <2>1, <2>2, <2>3
<1>10. ASSUME NEW c \in Cells, Reached(l, c)
       PROVE  Reached(r, c) \/ Reaches(l[i].port, v, c)
  <2>1. Reached(left, c) \/ Reaches(l[i].port, v, c)  BY <1>9, <1>10 DEF Reached
  <2> QED  BY <1>6, <2>1, DestroyedReach
<1>11. ASSUME NEW q, AsksWhole(l, q), ~(v = All /\ l[i].port \in {All, q})
       PROVE  AsksWhole(r, q)
  <2>1. PICK j \in DOMAIN l : l[j].all /\ l[j].port \in {All, q}
    BY <1>11 DEF AsksWhole
  <2>2. left[j].all /\ left[j].port \in {All, q}  BY <1>2, <1>4, <1>11, <2>1
  <2>3. AsksWhole(left, q)  BY <1>4, <2>2 DEF AsksWhole
  <2> QED  BY <1>6, <2>3, DestroyedWhole
<1> HIDE DEF r
<1> QED  BY <1>6, <1>7, <1>8, <1>10, <1>11 DEF r, left, v

\* The entries of ports that are freed keep their purges.
LEMMA DisownGood ==
  ASSUME NEW l, ListOK(l), NoIdle(l), NEW freed \in SUBSET Lags
  PROVE  LET r == Disown(l, freed) IN
         /\ ListOK(r) /\ NoIdle(r)
         /\ \A c \in Cells : Reached(l, c) => Reached(r, c)
         /\ \A q : AsksWhole(l, q) => AsksWhole(r, q)
<1> DEFINE gone == {i \in DOMAIN l : l[i].port \in freed /\ l[i].exists}
           m == [i \in DOMAIN l |->
                   IF i \in gone THEN [l[i] EXCEPT !.exists = FALSE] ELSE l[i]]
           r == MaybeDestroy(m, gone)
<1>1. /\ \A j \in DOMAIN l : l[j] \in EntryType
      /\ 1 \in DOMAIN l /\ l[1].exists /\ l[1].port = All
  BY ListFacts DEF ListOK
<1>2. All \notin freed  BY LagsAssumption DEF All
<1>3. 1 \notin gone  BY <1>1, <1>2
<1>r. Disown(l, freed) = r  BY DEF Disown
<1> HIDE DEF gone
<1>4. \A j \in DOMAIN l : /\ m[j] \in EntryType /\ m[j].port = l[j].port
                          /\ m[j].all = l[j].all /\ m[j].vlans = l[j].vlans
                          /\ m[j].exists => l[j].exists
                          /\ j \notin gone => m[j] = l[j]
  BY <1>1 DEF EntryType
<1>5. m \in [DOMAIN l -> EntryType] /\ m[1].exists  BY <1>1, <1>3, <1>4
<1> HIDE DEF m
<1>6. ListOK(m) /\ DOMAIN m = DOMAIN l  BY <1>4, <1>5, Edited
<1>7. ListOK(r)  BY <1>6, Destroyed
<1>8. NoIdle(r)
  <2>1. \A j \in DOMAIN m : j \notin gone /\ Orphan(m[j]) => Pending(m[j])
    BY <1>4, <1>6 DEF NoIdle
  <2> QED  BY <1>6, <2>1, DestroyedIdle
<1>9. ASSUME NEW c \in Cells, Reached(l, c) PROVE Reached(r, c)
  <2>1. PICK j \in DOMAIN l : Hits(l[j], c)  BY <1>9 DEF Reached
  <2>2. Hits(m[j], c)  BY <1>4, <2>1 DEF Hits, Pending
  <2>3. Reached(m, c)  BY <1>6, <2>2 DEF Reached
  <2> QED  BY <1>6, <2>3, DestroyedReach
<1>10. ASSUME NEW q, AsksWhole(l, q) PROVE AsksWhole(r, q)
  <2>1. AsksWhole(m, q)  BY <1>4, <1>6, <1>10 DEF AsksWhole
  <2> QED  BY <1>6, <2>1, DestroyedWhole
<1> QED  BY <1>7, <1>8, <1>9, <1>10, <1>r
-----------------------------------------------------------------------------
(* The list, through every step *)

ListInv == ListOK(list) /\ NoIdle(list) /\ scan \in DOMAIN list

LEMMA ListInvPrimed ==
  ASSUME ListOK(list'), NoIdle(list'), scan' \in DOMAIN list'
  PROVE  ListInv'
<1>1. ListOK(list)'  BY DEF ListOK
<1>2. NoIdle(list)'  BY DEF NoIdle
<1> QED  BY <1>1, <1>2 DEF ListInv

LEMMA ListInit == Init => ListInv
<1> SUFFICES ASSUME Init PROVE ListInv  OBVIOUS
<1>1. Entry(All) \in EntryType /\ Entry(All).port = All /\ Entry(All).exists
  BY DEF Entry, EntryType
<1>2. list = <<Entry(All)>> /\ scan = 1  BY DEF Init
<1>3. list \in Seq(EntryType) /\ DOMAIN list = {1} /\ list[1] = Entry(All) /\ list # <<>>
  BY <1>1, <1>2
<1>4. ListOK(list)  BY <1>1, <1>3 DEF ListOK
<1>5. NoIdle(list)  BY <1>1, <1>3 DEF NoIdle, Orphan
<1> QED  BY <1>2, <1>3, <1>4, <1>5 DEF ListInv

\* The flag for static addresses is set whatever becomes of the request.
LEMMA StaticsMarked ==
  ASSUME NEW l, ListOK(l), NoIdle(l), NEW p, HasLive(l, p), NEW s \in BOOLEAN
  PROVE  LET m == [l EXCEPT ![At(l, p)].statics = s] IN
         /\ ListOK(m) /\ NoIdle(m) /\ HasLive(m, p) /\ Len(m) = Len(l)
         /\ DOMAIN m = DOMAIN l
         /\ \A c \in Cells : Reached(l, c) => Reached(m, c)
         /\ \A q : AsksWhole(l, q) => AsksWhole(m, q)
<1> DEFINE i == At(l, p)
           m == [l EXCEPT ![i].statics = s]
<1>1. i \in DOMAIN l /\ l[i].port = p /\ l[i].exists  BY AtFacts
<1> HIDE DEF i
<1>2. \A j \in DOMAIN l : l[j] \in EntryType  BY ListFacts
<1>3. /\ DOMAIN m = DOMAIN l /\ m[i] = [l[i] EXCEPT !.statics = s]
      /\ \A j \in DOMAIN l : j # i => m[j] = l[j]
  BY <1>1
<1>4. /\ m[i] \in EntryType /\ m[i].port = l[i].port /\ m[i].exists = l[i].exists
      /\ m[i].all = l[i].all /\ m[i].vlans = l[i].vlans
  BY <1>1, <1>2, <1>3 DEF EntryType
<1>5. m \in [DOMAIN l -> EntryType]  BY <1>1, <1>2, <1>4
<1> HIDE DEF m
<1>6. \A j \in DOMAIN l : /\ m[j].port = l[j].port /\ m[j].exists = l[j].exists
                          /\ m[j].all = l[j].all /\ m[j].vlans = l[j].vlans
  BY <1>3, <1>4
<1>7. 1 \in DOMAIN l /\ l[1].exists  BY ListFacts DEF ListOK
<1>8. ListOK(m) /\ Len(m) = Len(l)  BY <1>5, <1>6, <1>7, Edited
<1>9. NoIdle(m)  BY <1>3, <1>6 DEF NoIdle, Orphan, Pending
<1>10. HasLive(m, p)  BY <1>1, <1>3, <1>6 DEF HasLive
<1>11. \A c \in Cells : Reached(l, c) => Reached(m, c)
  BY <1>3, <1>6 DEF Reached, Hits, Pending
<1>12. \A q : AsksWhole(l, q) => AsksWhole(m, q)  BY <1>3, <1>6 DEF AsksWhole
<1> QED  BY <1>3, <1>8, <1>9, <1>10, <1>11, <1>12 DEF m, i

LEMMA EnterGood ==
  ASSUME ListInv, NEW p \in Ports \cup {All}, NEW v \in Vlans \cup {All},
         NEW s \in BOOLEAN, Enter(p, v, s)
  PROVE  /\ ListInv'
         /\ \A c \in Cells : Reached(list, c) \/ Reaches(p, v, c) => Reached(list', c)
         /\ \A q : AsksWhole(list, q) \/ (v = All /\ p \in {All, q}) => AsksWhole(list', q)
<1> DEFINE found == GetPurgeEntry(p)
           marked == [found EXCEPT ![At(found, p)].statics = s]
           merged == Merge(marked, p, v)
<1>1. ListOK(list) /\ NoIdle(list) /\ scan \in 1..Len(list) /\ Len(list) \in Nat
  BY ListFacts DEF ListInv
<1>2. /\ ListOK(found) /\ NoIdle(found) /\ HasLive(found, p) /\ Len(list) <= Len(found)
      /\ \A i \in DOMAIN list : i \in DOMAIN found /\ found[i] = list[i]
  BY <1>1, Found
<1>3. list' = merged /\ scan' = Rescan(marked, merged)  BY DEF Enter, Marked
<1> HIDE DEF found
<1>4. /\ ListOK(marked) /\ NoIdle(marked) /\ HasLive(marked, p)
      /\ Len(marked) = Len(found)
      /\ \A c \in Cells : Reached(found, c) => Reached(marked, c)
      /\ \A q : AsksWhole(found, q) => AsksWhole(marked, q)
  BY <1>2, StaticsMarked
<1> HIDE DEF marked
<1>5. Good(marked, merged, p, v)  BY <1>4, MergeGood
<1> HIDE DEF merged
<1>6. /\ ListOK(merged) /\ NoIdle(merged)
      /\ \A c \in Cells : Reached(marked, c) \/ Reaches(p, v, c) => Reached(merged, c)
      /\ \A q : AsksWhole(marked, q) \/ (v = All /\ p \in {All, q}) => AsksWhole(merged, q)
  BY <1>5 DEF Good
<1>7. Len(marked) \in Nat /\ Len(merged) \in Nat /\ DOMAIN merged = 1..Len(merged)
      /\ 1 \in DOMAIN merged
  BY <1>4, <1>6, ListFacts
<1>8. scan' \in DOMAIN list'  BY <1>1, <1>2, <1>3, <1>4, <1>7 DEF Rescan
<1>9. \A c : Reached(list, c) => Reached(found, c)  BY <1>2 DEF Reached
<1>10. \A c \in Cells : Reached(list, c) \/ Reaches(p, v, c) => Reached(merged, c)
  BY <1>4, <1>6, <1>9
<1>11. ListInv'  BY <1>3, <1>6, <1>8, ListInvPrimed
<1>12. \A q : AsksWhole(list, q) => AsksWhole(found, q)  BY <1>2 DEF AsksWhole
<1>13. \A q : AsksWhole(list, q) \/ (v = All /\ p \in {All, q}) => AsksWhole(merged, q)
  BY <1>4, <1>6, <1>12
<1> QED  BY <1>3, <1>10, <1>11, <1>13

\* A request of every VLAN that runs out of memory asks for what it would have asked
\* for.
LEMMA AbortGood ==
  ASSUME ListInv, NEW p \in Ports \cup {All}, NEW s \in BOOLEAN, EnterAborts(p, s)
  PROVE  /\ ListInv'
         /\ \A c \in Cells : Reached(list, c) \/ Reaches(p, All, c) => Reached(list', c)
         /\ \A q : AsksWhole(list, q) \/ p \in {All, q} => AsksWhole(list', q)
<1> DEFINE found == GetPurgeEntry(p)
           marked == [found EXCEPT ![At(found, p)].statics = s]
           whole == [marked EXCEPT ![At(marked, p)].all = TRUE]
<1>1. ListOK(list) /\ NoIdle(list) /\ scan \in 1..Len(list) /\ Len(list) \in Nat
  BY ListFacts DEF ListInv
<1>2. /\ ListOK(found) /\ NoIdle(found) /\ HasLive(found, p) /\ Len(list) <= Len(found)
      /\ \A i \in DOMAIN list : i \in DOMAIN found /\ found[i] = list[i]
  BY <1>1, Found
<1>3. list' = whole /\ scan' = scan  BY DEF EnterAborts, Marked
<1> HIDE DEF found
<1>4. /\ ListOK(marked) /\ NoIdle(marked) /\ HasLive(marked, p)
      /\ Len(marked) = Len(found)
      /\ \A c \in Cells : Reached(found, c) => Reached(marked, c)
      /\ \A q : AsksWhole(found, q) => AsksWhole(marked, q)
  BY <1>2, StaticsMarked
<1> HIDE DEF marked
<1>5. Good(marked, whole, p, All) /\ Len(whole) = Len(marked)  BY <1>4, WholeGood
<1> HIDE DEF whole
<1>6. /\ ListOK(whole) /\ NoIdle(whole)
      /\ \A c \in Cells : Reached(marked, c) \/ Reaches(p, All, c) => Reached(whole, c)
      /\ \A q : AsksWhole(marked, q) \/ p \in {All, q} => AsksWhole(whole, q)
  BY <1>5 DEF Good
<1>7. Len(whole) \in Nat /\ DOMAIN whole = 1..Len(whole)  BY <1>6, ListFacts
<1>8. scan' \in DOMAIN list'  BY <1>1, <1>2, <1>3, <1>4, <1>5, <1>7
<1>9. ListInv'  BY <1>3, <1>6, <1>8, ListInvPrimed
<1>10. \A c : Reached(list, c) => Reached(found, c)  BY <1>2 DEF Reached
<1>11. \A q : AsksWhole(list, q) => AsksWhole(found, q)  BY <1>2 DEF AsksWhole
<1> QED  BY <1>3, <1>4, <1>6, <1>9, <1>10, <1>11

LEMMA ExpiredGood ==
  ASSUME ListInv, EnqueueExpired
  PROVE  /\ ListInv'
         /\ \A c \in Cells : Reached(list, c) => Reached(list', c)
         /\ \A q : AsksWhole(list, q) => AsksWhole(list', q)
<1> DEFINE found == GetPurgeEntry(0)
           marked == [found EXCEPT ![At(found, 0)].statics = FALSE]
<1>1. ListOK(list) /\ NoIdle(list) /\ scan \in 1..Len(list) /\ Len(list) \in Nat
  BY ListFacts DEF ListInv
<1>2. /\ ListOK(found) /\ NoIdle(found) /\ HasLive(found, 0) /\ Len(list) <= Len(found)
      /\ \A i \in DOMAIN list : i \in DOMAIN found /\ found[i] = list[i]
  BY <1>1, Found DEF Ports
<1>3. list' = marked /\ scan' = scan  BY DEF EnqueueExpired, Marked
<1> HIDE DEF found
<1>4. /\ ListOK(marked) /\ NoIdle(marked) /\ Len(marked) = Len(found)
      /\ \A c \in Cells : Reached(found, c) => Reached(marked, c)
      /\ \A q : AsksWhole(found, q) => AsksWhole(marked, q)
  BY <1>2, StaticsMarked
<1> HIDE DEF marked
<1>5. DOMAIN marked = 1..Len(marked) /\ Len(marked) \in Nat  BY <1>4, ListFacts
<1>6. scan' \in DOMAIN list'  BY <1>1, <1>2, <1>3, <1>4, <1>5
<1>7. \A c : Reached(list, c) => Reached(found, c)  BY <1>2 DEF Reached
<1>8. ListInv'  BY <1>3, <1>4, <1>6, ListInvPrimed
<1>9. \A q : AsksWhole(list, q) => AsksWhole(found, q)  BY <1>2 DEF AsksWhole
<1> QED  BY <1>3, <1>4, <1>7, <1>8, <1>9

\* The thread takes a purge, or there is none and the list stays.
LEMMA TakeGood ==
  ASSUME ListInv, GetNextPurgeRequest
  PROVE  /\ ListInv'
         /\ IF IsAnotherPurgePending(list)
              THEN /\ request' \in [port : Ports \cup {All}, vid1 : Vlans \cup {All},
                                    statics : BOOLEAN, expired : {FALSE}, seq : {nextSeq}]
                   /\ nextSeq' = nextSeq + 1
                   /\ \A c \in Cells : Reached(list, c) =>
                        Reached(list', c) \/ Reaches(request'.port, request'.vid1, c)
                   /\ \A q : AsksWhole(list, q) =>
                        \/ AsksWhole(list', q)
                        \/ request'.vid1 = All /\ request'.port \in {All, q}
              ELSE /\ list' = list /\ nextSeq' = nextSeq
                   /\ request' = IF flushExpired THEN [NoRequest EXCEPT !.expired = TRUE]
                                                 ELSE request
<1>1. ListOK(list) /\ NoIdle(list) /\ scan \in DOMAIN list  BY DEF ListInv
<1>2. CASE ~IsAnotherPurgePending(list)
  <2>1. /\ list' = list /\ scan' = scan /\ nextSeq' = nextSeq
        /\ request' = IF flushExpired THEN [NoRequest EXCEPT !.expired = TRUE]
                                      ELSE request
    BY <1>2 DEF GetNextPurgeRequest
  <2>2. ListInv'  BY <1>1, <2>1, ListInvPrimed
  <2> QED  BY <1>2, <2>1, <2>2
<1>3. CASE IsAnotherPurgePending(list)
  <2> DEFINE i == NextEntry
             v == Vid1(list[i])
             left == [list EXCEPT ![i] = RemovePending(list[i], v)]
             r == MaybeDestroy(left, {i})
  <2>1. i \in DOMAIN list /\ Pending(list[i])  BY <1>1, <1>3, NextFacts
  <2>2. /\ request' = [port |-> list[i].port, vid1 |-> v, statics |-> list[i].statics,
                       expired |-> FALSE, seq |-> nextSeq]
        /\ nextSeq' = nextSeq + 1
        /\ list' = r /\ scan' = IF Len(r) < Len(left) THEN 1 ELSE i
    BY <1>3 DEF GetNextPurgeRequest, Vid1
  <2>3. list[i] \in EntryType  BY <1>1, <2>1, ListFacts
  <2>4. v \in Vlans \cup {All}  BY <2>1, <2>3, Vid1Facts
  <2> HIDE DEF i
  <2>5. /\ Len(left) = Len(list) /\ ListOK(r) /\ NoIdle(r)
        /\ \A c \in Cells : Reached(list, c) => Reached(r, c) \/ Reaches(list[i].port, v, c)
        /\ \A q : AsksWhole(list, q) =>
             AsksWhole(r, q) \/ (v = All /\ list[i].port \in {All, q})
    BY <1>1, <2>1, TakenGood
  <2> HIDE DEF v, r, left
  <2>6. /\ Len(list) \in Nat /\ DOMAIN list = 1..Len(list)
        /\ Len(r) \in Nat /\ DOMAIN r = 1..Len(r) /\ 1 \in DOMAIN r
    BY <1>1, <2>5, ListFacts
  <2>7. scan' \in DOMAIN list'  BY <2>1, <2>2, <2>5, <2>6
  <2>8. ListInv'  BY <2>2, <2>5, <2>7, ListInvPrimed
  <2>9. request' \in [port : Ports \cup {All}, vid1 : Vlans \cup {All},
                      statics : BOOLEAN, expired : {FALSE}, seq : {nextSeq}]
    BY <2>2, <2>3, <2>4 DEF EntryType
  <2>10. request'.port = list[i].port /\ request'.vid1 = v  BY <2>2
  <2>11. \A c \in Cells : Reached(list, c) =>
           Reached(list', c) \/ Reaches(request'.port, request'.vid1, c)
    BY <2>2, <2>5, <2>10
  <2>12. \A q : AsksWhole(list, q) =>
           AsksWhole(list', q) \/ (request'.vid1 = All /\ request'.port \in {All, q})
    BY <2>2, <2>5, <2>10
  <2> QED  BY <1>3, <2>2, <2>8, <2>9, <2>11, <2>12
<1> QED  BY <1>2, <1>3

Freed == {callbacks[i].port : i \in {j \in DOMAIN callbacks : Answers(callbacks[j])}}

LEMMA FinishGood ==
  ASSUME ListInv, FinishPurge, Freed \in SUBSET Lags
  PROVE  /\ ListInv'
         /\ \A c \in Cells : Reached(list, c) => Reached(list', c)
         /\ \A q : AsksWhole(list, q) => AsksWhole(list', q)
<1>1. ListOK(list) /\ NoIdle(list) /\ scan \in 1..Len(list) /\ Len(list) \in Nat
  BY ListFacts DEF ListInv
<1> DEFINE r == Disown(list, Freed)
<1>2. list' = r /\ scan' = Rescan(list, r)  BY DEF FinishPurge, Freed
<1>3. /\ ListOK(r) /\ NoIdle(r)
      /\ \A c \in Cells : Reached(list, c) => Reached(r, c)
      /\ \A q : AsksWhole(list, q) => AsksWhole(r, q)
  BY <1>1, DisownGood
<1> HIDE DEF r
<1>4. Len(r) \in Nat /\ DOMAIN r = 1..Len(r) /\ 1 \in DOMAIN r  BY <1>3, ListFacts
<1>5. scan' \in DOMAIN list'  BY <1>1, <1>2, <1>4 DEF Rescan
<1>6. ListInv'  BY <1>2, <1>3, <1>5, ListInvPrimed
<1> QED  BY <1>2, <1>3, <1>6
-----------------------------------------------------------------------------
(* Types, and the callbacks that wait for their purges *)

RequestType == [port : Ports \cup {All}, vid1 : Vlans \cup {All, 0},
                statics : BOOLEAN, expired : BOOLEAN, seq : Nat]
CallbackType == [port : Lags, vlan : {0}, seq : Nat]

Typed ==
  /\ table \in [Cells -> {"invalid", "young", "expired", "locked"}]
  /\ port \in [Lags -> {"alive", "deleting", "freed"}]
  /\ index \in 1..Len(Home) + 1
  /\ pc \in {"wait", "take", "fifo", "next", "purge"}
  /\ owed \in SUBSET Cells
  /\ request \in RequestType
  /\ request.seq > 0 => ~request.expired

\* A callback is of one LAG that is being deleted, and of a purge that comes after the
\* one in progress.
CallbacksOK ==
  /\ callbacks \in Seq(CallbackType)
  /\ nextSeq \in Nat \ {0}
  /\ active => request.seq < nextSeq
  /\ \A i \in DOMAIN callbacks :
       /\ port[callbacks[i].port] = "deleting"
       /\ callbacks[i].seq \in 1..nextSeq
       /\ \A j \in DOMAIN callbacks : callbacks[i].port = callbacks[j].port => i = j

LEMMA CallbackFacts ==
  ASSUME CallbacksOK
  PROVE  /\ Len(callbacks) \in Nat /\ DOMAIN callbacks = 1..Len(callbacks)
         /\ \A i \in DOMAIN callbacks : callbacks[i] \in CallbackType
         /\ Freed \in SUBSET Lags
<1>1. callbacks \in Seq(CallbackType)  BY DEF CallbacksOK
<1>2. /\ Len(callbacks) \in Nat /\ DOMAIN callbacks = 1..Len(callbacks)
      /\ \A i \in 1..Len(callbacks) : callbacks[i] \in CallbackType
  BY <1>1, LenProperties, ElementOfSeq
<1>3. \A i \in DOMAIN callbacks : callbacks[i].port \in Lags  BY <1>2 DEF CallbackType
<1> QED  BY <1>2, <1>3 DEF Freed

BaseInv == WakeInv /\ ListInv /\ Typed /\ CallbacksOK

LEMMA BaseInit == Init => BaseInv
<1> SUFFICES ASSUME Init PROVE BaseInv  OBVIOUS
<1>1. Len(Home) \in Nat  BY HomeAssumption, LenProperties
<1>2. NoRequest \in RequestType /\ NoRequest.seq = 0
  BY DEF NoRequest, RequestType, Ports
<1>3. Typed  BY <1>1, <1>2 DEF Init, Typed
<1>4. CallbacksOK  BY <1>2 DEF Init, CallbacksOK
<1> QED  BY <1>3, <1>4, WakeInit, ListInit DEF BaseInv

\* A step of the callers or of the sweeper.
LEMMA CallerTyped == Typed /\ (Requests \/ Sweeper) => Typed'
<1> SUFFICES ASSUME Typed, Requests \/ Sweeper PROVE Typed'  OBVIOUS
<1> USE DEF threadVars, lagVars, cellVars
<1>1. ASSUME NEW p, NEW v, NEW s, Flush(p, v, s) PROVE Typed'
  BY <1>1 DEF Flush, Typed, Asked
<1>2. ASSUME NEW p, NEW s, FlushAborts(p, s) PROVE Typed'
  BY <1>2 DEF FlushAborts, Typed, Asked
<1>3. ASSUME NEW p \in Lags, DeleteLag(p) \/ DeleteLagAborts(p) PROVE Typed'
  BY <1>3 DEF DeleteLag, DeleteLagAborts, Typed, Asked
<1>4. ASSUME NEW p \in Lags, DeleteLagRefused(p) PROVE Typed'
  BY <1>4 DEF DeleteLagRefused, Typed
<1>5. ASSUME NEW p \in Lags, CreateLag(p) PROVE Typed'
  BY <1>5 DEF CreateLag, Typed
<1>6. ASSUME NEW c \in Cells, AddAddress(c) PROVE Typed'
  BY <1>6 DEF AddAddress, Store, Typed
<1>7. ASSUME NEW c \in Cells, DeleteAddress(c) PROVE Typed'
  BY <1>7 DEF DeleteAddress, Remove, Typed
<1>8. CASE SweepEnd  BY <1>8 DEF SweepEnd, Typed
<1>9. CASE SweepEndFails  BY <1>9 DEF SweepEndFails, Typed
<1>10. ASSUME NEW c \in Cells, SweepCell(c) PROVE Typed'
  BY <1>10 DEF SweepCell, Typed
<1> QED  BY <1>1, <1>2, <1>3, <1>4, <1>5, <1>6, <1>7, <1>8, <1>9, <1>10
         DEF Requests, Sweeper

LEMMA HandleTyped ==
  ASSUME BaseInv, HandlePurgeRequest
  PROVE  Typed' /\ ListInv' /\ CallbacksOK'
<1>1. WakeInv /\ ListInv /\ Typed /\ CallbacksOK  BY DEF BaseInv
<1>2. /\ pc = "next" /\ ~active /\ GetNextPurgeRequest /\ index' = 1
      /\ pc' \in {"purge", "wait"}
      /\ active' = (IsAnotherPurgePending(list) \/ flushExpired)
      /\ UNCHANGED <<table, port, callbacks, owed>>
  BY <1>1 DEF HandlePurgeRequest, WakeInv, lagVars, cellVars
<1>3. ListInv'  BY <1>1, <1>2, TakeGood
<1>4. Len(Home) \in Nat  BY HomeAssumption, LenProperties
<1>6. nextSeq \in Nat \ {0}  BY <1>1 DEF CallbacksOK
<1>7. CASE IsAnotherPurgePending(list)
  <2>1. /\ request' \in [port : Ports \cup {All}, vid1 : Vlans \cup {All},
                         statics : BOOLEAN, expired : {FALSE}, seq : {nextSeq}]
        /\ nextSeq' = nextSeq + 1
    BY <1>1, <1>2, <1>7, TakeGood
  <2>2. /\ request' \in RequestType /\ ~request'.expired /\ request'.seq = nextSeq
    BY <1>6, <2>1 DEF RequestType
  <2>3. Typed'  BY <1>1, <1>2, <1>4, <2>2 DEF Typed
  <2>4. CallbacksOK'  BY <1>1, <1>2, <1>6, <2>1, <2>2, CallbackFacts DEF CallbacksOK
  <2> QED  BY <1>3, <2>3, <2>4
<1>8. CASE ~IsAnotherPurgePending(list)
  <2>1. /\ nextSeq' = nextSeq
        /\ request' = IF flushExpired THEN [NoRequest EXCEPT !.expired = TRUE]
                                      ELSE request
    BY <1>1, <1>2, <1>8, TakeGood
  <2>2. /\ [NoRequest EXCEPT !.expired = TRUE] \in RequestType
        /\ [NoRequest EXCEPT !.expired = TRUE].seq = 0
    BY DEF NoRequest, RequestType, Ports
  <2>3. Typed'  BY <1>1, <1>2, <1>4, <2>1, <2>2 DEF Typed
  <2>4. active' => request'.seq < nextSeq'
    <3> SUFFICES ASSUME active' PROVE request'.seq < nextSeq'  OBVIOUS
    <3>1. flushExpired  BY <1>2, <1>8
    <3> QED  BY <1>6, <2>1, <2>2, <3>1
  <2>5. CallbacksOK'  BY <1>1, <1>2, <1>6, <2>1, <2>4 DEF CallbacksOK
  <2> QED  BY <1>3, <2>3, <2>5
<1> QED  BY <1>7, <1>8

LEMMA FinishTyped ==
  ASSUME BaseInv, FinishPurge
  PROVE  Typed' /\ ListInv' /\ CallbacksOK'
<1>1. WakeInv /\ ListInv /\ Typed /\ CallbacksOK  BY DEF BaseInv
<1> DEFINE kept == {i \in DOMAIN callbacks : ~Answers(callbacks[i])}
           left == Sublist(callbacks, kept)
           n == Cardinality(kept)
           place == Places(kept)
<1>2. /\ pc' = "wait" /\ active' = FALSE /\ request' = NoRequest /\ index' = 1
      /\ port' = [l \in Lags |-> IF l \in Freed THEN "freed" ELSE port[l]]
      /\ callbacks' = left /\ nextSeq' = IF left = <<>> THEN 1 ELSE nextSeq
      /\ UNCHANGED <<table, owed>>
  BY DEF FinishPurge, Freed
<1>3. /\ Freed \in SUBSET Lags
      /\ \A i \in DOMAIN callbacks : callbacks[i] \in CallbackType
      /\ callbacks \in Seq(CallbackType) /\ nextSeq \in Nat \ {0}
  BY <1>1, CallbackFacts DEF CallbacksOK
<1>4. ListInv'  BY <1>1, <1>3, FinishGood
<1>5. Typed'
  <2>1. NoRequest \in RequestType /\ NoRequest.seq = 0
    BY DEF NoRequest, RequestType, Ports
  <2>2. Len(Home) \in Nat  BY HomeAssumption, LenProperties
  <2> QED  BY <1>1, <1>2, <2>1, <2>2 DEF Typed
<1>6. \A i \in kept : i \in DOMAIN callbacks /\ callbacks[i].port \notin Freed
  BY <1>1 DEF CallbacksOK, Freed
<1> HIDE DEF kept
<1>7. /\ left \in Seq(CallbackType) /\ DOMAIN left = 1..n /\ Len(left) = n
      /\ \A k \in 1..n : place[k] \in kept /\ left[k] = callbacks[place[k]]
      /\ \A k, h \in 1..n : place[k] = place[h] => k = h
  BY <1>3, <1>6, SublistFacts
<1> HIDE DEF left, n, place
<1>8. ASSUME NEW k \in DOMAIN left
      PROVE  /\ port'[left[k].port] = "deleting"
             /\ left[k].seq \in 1..nextSeq'
             /\ \A h \in DOMAIN left : left[k].port = left[h].port => k = h
  <2>1. /\ place[k] \in DOMAIN callbacks /\ left[k] = callbacks[place[k]]
        /\ left[k].port \notin Freed /\ left[k].port \in Lags
    BY <1>3, <1>6, <1>7 DEF CallbackType
  <2>2. port[left[k].port] = "deleting" /\ left[k].seq \in 1..nextSeq
    BY <1>1, <2>1 DEF CallbacksOK
  <2>3. nextSeq' = nextSeq  BY <1>2, <1>7, EmptySeq
  <2>4. \A h \in DOMAIN left : left[k].port = left[h].port => place[k] = place[h]
    BY <1>1, <1>6, <1>7, <2>1 DEF CallbacksOK
  <2> QED  BY <1>2, <1>7, <2>1, <2>2, <2>3, <2>4
<1>9. CallbacksOK'
  <2>1. nextSeq' \in Nat \ {0}  BY <1>2, <1>3
  <2> QED  BY <1>2, <1>7, <1>8, <2>1 DEF CallbacksOK
<1> QED  BY <1>4, <1>5, <1>9

\* The callback that is registered takes the place of the LAG's own, if it has one.
LEMMA Registered ==
  ASSUME CallbacksOK, NEW p \in Lags
  PROVE  LET r  == Register(p)
             cb == [port |-> p, vlan |-> 0, seq |-> nextSeq] IN
         /\ r \in Seq(CallbackType) /\ \E i \in DOMAIN r : r[i] = cb
         /\ \A i \in DOMAIN r :
              \/ r[i] = cb
              \/ \E j \in DOMAIN callbacks : r[i] = callbacks[j] /\ r[i].port # p
         /\ \A i, j \in DOMAIN r : r[i].port = r[j].port => i = j
         /\ \A j \in DOMAIN callbacks : callbacks[j].port # p =>
              \E i \in DOMAIN r : r[i] = callbacks[j]
<1> DEFINE cb == [port |-> p, vlan |-> 0, seq |-> nextSeq]
           n == Len(callbacks)
           r == Register(p)
<1>1. /\ n \in Nat /\ DOMAIN callbacks = 1..n /\ callbacks \in Seq(CallbackType)
      /\ \A i \in 1..n : callbacks[i] \in CallbackType
      /\ \A i, j \in 1..n : callbacks[i].port = callbacks[j].port => i = j
  BY CallbackFacts DEF CallbacksOK
<1>2. cb \in CallbackType /\ cb.port = p  BY DEF CallbacksOK, CallbackType
<1>3. r = IF HasCallback(p)
            THEN [i \in 1..n |-> IF callbacks[i].port = p THEN cb ELSE callbacks[i]]
            ELSE Append(callbacks, cb)
  BY <1>1 DEF Register
<1> HIDE DEF cb, n, r
<1>4. CASE HasCallback(p)
  <2>1. /\ DOMAIN r = 1..n
        /\ \A i \in 1..n : r[i] = IF callbacks[i].port = p THEN cb ELSE callbacks[i]
    BY <1>3, <1>4
  <2>2. r \in [1..n -> CallbackType]  BY <1>1, <1>2, <1>3, <1>4
  <2>3. r \in Seq(CallbackType)  BY <1>1, <2>2
  <2>4. \A i \in 1..n : r[i].port = callbacks[i].port  BY <1>2, <2>1
  <2>5. \A i, j \in 1..n : r[i].port = r[j].port => i = j  BY <1>1, <2>4
  <2>6. \E i \in 1..n : callbacks[i].port = p  BY <1>1, <1>4 DEF HasCallback
  <2> QED  BY <1>1, <2>1, <2>3, <2>5, <2>6 DEF cb, r
<1>5. CASE ~HasCallback(p)
  <2>1. /\ r \in Seq(CallbackType) /\ Len(r) = n + 1
        /\ r[n + 1] = cb /\ \A i \in 1..n : r[i] = callbacks[i]
    BY <1>1, <1>2, <1>3, <1>5, AppendProperties DEF n
  <2>2. DOMAIN r = 1..n + 1 /\ \A i \in 1..n + 1 : i = n + 1 \/ i \in 1..n
    BY <1>1, <2>1
  <2>3. \A i \in 1..n : callbacks[i].port # p  BY <1>1, <1>5 DEF HasCallback
  <2>4. n + 1 \in 1..n + 1 /\ \A i \in 1..n : i \in 1..n + 1  BY <1>1
  <2>5. ASSUME NEW i \in DOMAIN r, NEW j \in DOMAIN r, r[i].port = r[j].port
        PROVE  i = j
    <3>1. CASE i = n + 1 /\ j # n + 1  BY <1>2, <2>1, <2>2, <2>3, <2>5, <3>1
    <3>2. CASE j = n + 1 /\ i # n + 1  BY <1>2, <2>1, <2>2, <2>3, <2>5, <3>2
    <3>3. CASE i # n + 1 /\ j # n + 1  BY <1>1, <2>1, <2>2, <2>5, <3>3
    <3> QED  BY <3>1, <3>2, <3>3
  <2>6. \A i \in DOMAIN r :
          \/ r[i] = cb
          \/ \E j \in DOMAIN callbacks : r[i] = callbacks[j] /\ r[i].port # p
    BY <1>1, <2>1, <2>2, <2>3
  <2>7. \A j \in DOMAIN callbacks : \E i \in DOMAIN r : r[i] = callbacks[j]
    BY <1>1, <2>1, <2>2, <2>4
  <2>8. \E i \in DOMAIN r : r[i] = cb  BY <2>1, <2>2, <2>4
  <2> QED  BY <2>1, <2>5, <2>6, <2>7, <2>8 DEF cb, r
<1> QED  BY <1>4, <1>5

LEMMA DeleteLagCallbacks ==
  ASSUME BaseInv, NEW p \in Lags, DeleteLag(p)
  PROVE  CallbacksOK'
<1>1. Typed /\ CallbacksOK  BY DEF BaseInv
<1> DEFINE cb == [port |-> p, vlan |-> 0, seq |-> nextSeq]
           r == Register(p)
<1>2. /\ port' = [port EXCEPT ![p] = "deleting"] /\ callbacks' = r
      /\ UNCHANGED <<nextSeq, request, active>>
  BY DEF DeleteLag, EnqueueFlush, Enter, threadVars
<1>3. /\ r \in Seq(CallbackType)
      /\ \A i \in DOMAIN r :
           \/ r[i] = cb
           \/ \E j \in DOMAIN callbacks : r[i] = callbacks[j] /\ r[i].port # p
      /\ \A i, j \in DOMAIN r : r[i].port = r[j].port => i = j
  BY <1>1, Registered
<1>4. cb.port = p /\ cb.seq = nextSeq  OBVIOUS
<1> HIDE DEF cb, r
<1>5. nextSeq \in Nat \ {0} /\ (active => request.seq < nextSeq)  BY <1>1 DEF CallbacksOK
<1>6. \A j \in DOMAIN callbacks :
        /\ port[callbacks[j].port] = "deleting" /\ callbacks[j].port \in Lags
        /\ callbacks[j].seq \in 1..nextSeq
  BY <1>1, CallbackFacts DEF CallbacksOK, CallbackType
<1>7. ASSUME NEW i \in DOMAIN r
      PROVE  port'[r[i].port] = "deleting" /\ r[i].seq \in 1..nextSeq
  <2>1. CASE r[i] = cb  BY <1>1, <1>2, <1>4, <1>5, <2>1 DEF Typed
  <2>2. CASE r[i] # cb
    <3>1. PICK j \in DOMAIN callbacks : r[i] = callbacks[j] /\ r[i].port # p
      BY <1>3, <2>2
    <3> QED  BY <1>1, <1>2, <1>6, <3>1 DEF Typed
  <2> QED  BY <2>1, <2>2
<1> QED  BY <1>2, <1>3, <1>5, <1>7 DEF CallbacksOK

\* A step that touches neither the list nor the callbacks.
LEMMA NotListed ==
  ASSUME ListInv, CallbacksOK, UNCHANGED <<list, scan, callbacks, nextSeq, request>>,
         active' => active,
         \A i \in DOMAIN callbacks :
           port'[callbacks[i].port] = port[callbacks[i].port]
  PROVE  ListInv' /\ CallbacksOK'
<1>1. ListInv'  BY ListInvPrimed DEF ListInv
<1>2. CallbacksOK'  BY DEF CallbacksOK
<1> QED  BY <1>1, <1>2

LEMMA TargetType == ASSUME NEW p \in Targets PROVE p \in Ports \cup {All}
BY TargetsAssumption DEF Ports, All

LEMMA CallerListed == BaseInv /\ (Requests \/ Sweeper) => ListInv' /\ CallbacksOK'
<1> SUFFICES ASSUME BaseInv, Requests \/ Sweeper PROVE ListInv' /\ CallbacksOK'  OBVIOUS
<1>1. ListInv /\ Typed /\ CallbacksOK  BY DEF BaseInv
<1> USE DEF threadVars, lagVars, cellVars
<1>2. ASSUME NEW p \in Targets, NEW v \in Vlans \cup {All}, NEW s \in Statics,
             Flush(p, v, s)
      PROVE  ListInv' /\ CallbacksOK'
  <2>1. Enter(p, v, s) /\ s \in BOOLEAN /\ p \in Ports \cup {All}
    BY <1>2, StaticsAssumption, TargetType DEF Flush, EnqueueFlush
  <2>2. ListInv'  BY <1>1, <2>1, EnterGood
  <2>3. UNCHANGED <<callbacks, nextSeq, request, active, port>>
    BY <1>2, <2>1 DEF Flush, Enter
  <2>4. CallbacksOK'  BY <1>1, <2>3 DEF CallbacksOK
  <2> QED  BY <2>2, <2>4
<1>3. ASSUME NEW p \in Targets, NEW s \in Statics, FlushAborts(p, s)
      PROVE  ListInv' /\ CallbacksOK'
  <2>1. EnterAborts(p, s) /\ s \in BOOLEAN /\ p \in Ports \cup {All}
    BY <1>3, StaticsAssumption, TargetType DEF FlushAborts
  <2>2. ListInv'  BY <1>1, <2>1, AbortGood
  <2>3. UNCHANGED <<callbacks, nextSeq, request, active, port>>
    BY <1>3, <2>1 DEF FlushAborts, EnterAborts
  <2>4. CallbacksOK'  BY <1>1, <2>3 DEF CallbacksOK
  <2> QED  BY <2>2, <2>4
<1>4. ASSUME NEW p \in Lags, DeleteLag(p) PROVE ListInv' /\ CallbacksOK'
  <2>1. Enter(p, All, FALSE) /\ p \in Ports  BY <1>4 DEF DeleteLag, EnqueueFlush, Ports
  <2>2. ListInv'  BY <1>1, <2>1, EnterGood
  <2> QED  BY <1>4, <2>2, DeleteLagCallbacks
<1>5. ASSUME NEW p \in Lags, DeleteLagAborts(p) PROVE ListInv' /\ CallbacksOK'
  <2>1. EnterAborts(p, FALSE) /\ p \in Ports  BY <1>5 DEF DeleteLagAborts, Ports
  <2>2. ListInv'  BY <1>1, <2>1, AbortGood
  <2>3. /\ UNCHANGED <<callbacks, nextSeq, request, active>>
        /\ port' = [port EXCEPT ![p] = "deleting"]
    BY <1>5, <2>1 DEF DeleteLagAborts, EnterAborts
  <2>4. \A i \in DOMAIN callbacks : callbacks[i].port \in Lags
    BY <1>1, CallbackFacts DEF CallbackType
  <2>5. \A i \in DOMAIN callbacks : port'[callbacks[i].port] = "deleting"
    BY <1>1, <2>3, <2>4 DEF CallbacksOK, Typed
  <2>6. CallbacksOK'  BY <1>1, <2>3, <2>5 DEF CallbacksOK
  <2> QED  BY <2>2, <2>6
<1>6. ASSUME NEW p \in Lags, DeleteLagRefused(p) PROVE ListInv' /\ CallbacksOK'
  <2>1. Enter(p, All, FALSE) /\ p \in Ports  BY <1>6 DEF DeleteLagRefused, Ports
  <2>2. ListInv'  BY <1>1, <2>1, EnterGood
  <2>3. UNCHANGED <<callbacks, nextSeq, request, active, port>>
    BY <1>6, <2>1 DEF DeleteLagRefused, Enter
  <2>4. CallbacksOK'  BY <1>1, <2>3 DEF CallbacksOK
  <2> QED  BY <2>2, <2>4
<1>7. ASSUME NEW p \in Lags, CreateLag(p) PROVE ListInv' /\ CallbacksOK'
  <2>1. /\ UNCHANGED <<list, scan, callbacks, nextSeq, request, active>>
        /\ port[p] = "freed" /\ port' = [port EXCEPT ![p] = "alive"]
    BY <1>7 DEF CreateLag, purgeVars
  <2>2. \A i \in DOMAIN callbacks : callbacks[i].port \in Lags /\ callbacks[i].port # p
    BY <1>1, <2>1, CallbackFacts DEF CallbacksOK, CallbackType
  <2>3. \A i \in DOMAIN callbacks : port'[callbacks[i].port] = port[callbacks[i].port]
    BY <1>1, <2>1, <2>2 DEF Typed
  <2> QED  BY <1>1, <2>1, <2>3, NotListed
<1>8. ASSUME NEW c \in Cells, AddAddress(c) \/ DeleteAddress(c) \/ SweepCell(c)
      PROVE  ListInv' /\ CallbacksOK'
  <2>1. UNCHANGED <<list, scan, callbacks, nextSeq, request, active, port>>
    BY <1>8 DEF AddAddress, Store, DeleteAddress, SweepCell, purgeVars
  <2> QED  BY <1>1, <2>1, NotListed
<1>9. CASE SweepEnd
  <2>1. EnqueueExpired /\ UNCHANGED <<callbacks, request, active, port>>
    BY <1>9 DEF SweepEnd
  <2>2. ListInv'  BY <1>1, <2>1, ExpiredGood
  <2>3. UNCHANGED nextSeq  BY <2>1 DEF EnqueueExpired
  <2>4. CallbacksOK'  BY <1>1, <2>1, <2>3 DEF CallbacksOK
  <2> QED  BY <2>2, <2>4
<1>10. CASE SweepEndFails
  <2>1. UNCHANGED <<list, scan, callbacks, nextSeq, request, active, port>>
    BY <1>10 DEF SweepEndFails, purgeVars
  <2> QED  BY <1>1, <2>1, NotListed
<1> QED  BY <1>2, <1>3, <1>4, <1>5, <1>6, <1>7, <1>8, <1>9, <1>10 DEF Requests, Sweeper

LEMMA BaseStep == BaseInv /\ [Next]_vars => BaseInv'
<1> SUFFICES ASSUME BaseInv, [Next]_vars PROVE BaseInv'  OBVIOUS
<1>1. WakeInv /\ ListInv /\ Typed /\ CallbacksOK  BY DEF BaseInv
<1> USE DEF lagVars, cellVars
<1>2. WakeInv'  BY <1>1, WakeStep
<1> SUFFICES ListInv' /\ Typed' /\ CallbacksOK'  BY <1>2 DEF BaseInv
<1>3. CASE Requests \/ Sweeper  BY <1>1, <1>3, CallerTyped, CallerListed
<1>4. CASE HandlePurgeRequest  BY <1>4, HandleTyped
<1>5. CASE FinishPurge  BY <1>5, FinishTyped
<1>6. CASE Wait \/ WaitTimeout \/ TakeWork \/ FifoDone
  <2>1. UNCHANGED <<table, port, list, scan, callbacks, nextSeq, request, active, index, owed>>
        /\ pc' \in {"wait", "take", "fifo", "next", "purge"}
    BY <1>6 DEF Wait, WaitTimeout, TakeWork, FifoDone, purgeVars
  <2>2. Typed'  BY <1>1, <2>1 DEF Typed
  <2> QED  BY <1>1, <2>1, <2>2, NotListed
<1>7. CASE PurgeCell
  <2>1. UNCHANGED <<port, list, scan, callbacks, nextSeq, request, active, pc>>
    BY <1>7 DEF PurgeCell, purgeVars
  <2>2. Typed'
    <3>1. index \in Cells /\ index' = index + 1  BY <1>7 DEF PurgeCell
    <3>2. index' \in 1..Len(Home) + 1  BY <3>1, CellFacts
    <3>3. /\ table' \in [Cells -> {"invalid", "young", "expired", "locked"}]
          /\ owed' \in SUBSET Cells
      BY <1>1, <1>7 DEF PurgeCell, Remove, Typed
    <3> QED  BY <1>1, <2>1, <3>2, <3>3 DEF Typed
  <2> QED  BY <1>1, <2>1, <2>2, NotListed
<1>8. ASSUME NEW c \in Cells, Learn(c) PROVE ListInv' /\ Typed' /\ CallbacksOK'
  <2>1. UNCHANGED <<port, list, scan, callbacks, nextSeq, request, active, index, pc, owed>>
        /\ table' = [table EXCEPT ![c] = "young"]
    BY <1>8 DEF Learn, Store, purgeVars, threadVars
  <2>2. Typed'  BY <1>1, <2>1 DEF Typed
  <2> QED  BY <1>1, <2>1, <2>2, NotListed
<1>9. CASE UNCHANGED vars
  <2>1. UNCHANGED <<table, port, list, scan, callbacks, nextSeq, request, active, index, pc, owed>>
    BY <1>9 DEF vars, purgeVars, threadVars
  <2>2. Typed'  BY <1>1, <2>1 DEF Typed
  <2> QED  BY <1>1, <2>1, <2>2, NotListed
<1> QED  BY <1>3, <1>4, <1>5, <1>6, <1>7, <1>8, <1>9 DEF Next, Maintenance

\* The variables have their types: the list has the global entry first, one live entry
\* at most for a port, and scanEntry points into it, however the entries are merged,
\* cancelled, disowned and destroyed.
THEOREM TypeCorrect == Spec => []TypeOK
<1>1. BaseInv => TypeOK
  <2> SUFFICES ASSUME BaseInv PROVE TypeOK  OBVIOUS
  <2>1. ListOK(list) /\ scan \in DOMAIN list /\ Typed /\ CallbacksOK /\ WakeInv
    BY DEF BaseInv, ListInv
  <2>2. \A i \in DOMAIN list : list[i].vlans \subseteq Vlans
    BY <2>1, ListFacts DEF EntryType
  <2>3. \A i \in DOMAIN callbacks : callbacks[i].port \in Lags
    BY <2>1, CallbackFacts DEF CallbackType
  <2>4. request.port \in Ports \cup {All}  BY <2>1 DEF Typed, RequestType
  <2> QED  BY <2>1, <2>2, <2>3, <2>4 DEF TypeOK, ListOK, Typed, WakeInv
<1> QED  BY <1>1, BaseInit, BaseStep, PTL DEF Spec

\* The entry of a logical port that is no more is kept for its purges only: whatever
\* takes its last purge destroys it (fmMaybeDestroyMAPurgeListEntry).
THEOREM NeverOrphaned == Spec => []NoOrphans
<1>1. BaseInv => NoOrphans  BY DEF BaseInv, ListInv, NoIdle, NoOrphans
<1> QED  BY <1>1, BaseInit, BaseStep, PTL DEF Spec
-----------------------------------------------------------------------------
(* No address of a freed port *)

\* Behind a purge of every VLAN that a callback waits for there is no address of its
\* LAG, but those that callers added since.
Visited ==
  active /\ request.vid1 = All => \A i \in DOMAIN callbacks : Answers(callbacks[i]) =>
    \A c \in Cells : c < index /\ Home[c].port = callbacks[i].port =>
                       table[c] \notin {"young", "expired"} \/ c \in excused
StaleInv == Visited /\ NoStaleAddress

LEMMA Answering ==
  ASSUME BaseInv, NEW i \in DOMAIN callbacks, Answers(callbacks[i]), request.vid1 = All
  PROVE  \A c \in Cells :
           table[c] \in {"young", "expired"} /\ Home[c].port = callbacks[i].port =>
             MeetsPurgeCriteria(request, c)
<1>1. Typed /\ CallbacksOK  BY DEF BaseInv
<1>2. callbacks[i].seq \in 1..nextSeq /\ nextSeq \in Nat  BY <1>1 DEF CallbacksOK
<1>3. request.seq \in Nat /\ request.seq >= callbacks[i].seq
  BY <1>1 DEF Typed, RequestType, Answers
<1>4. request.seq > 0  BY <1>2, <1>3
<1>5. ~request.expired /\ request.port \in {All, callbacks[i].port}
  BY <1>1, <1>4 DEF Typed, Answers
<1> QED  BY <1>5 DEF MeetsPurgeCriteria

\* A step that brings no address to a port that is being deleted or is freed, but those
\* that are excused.
LEMMA NotStale ==
  ASSUME BaseInv, StaleInv, UNCHANGED <<index, request>>, active' => active,
         \A i \in DOMAIN callbacks' : Answers(callbacks'[i]) =>
           \E j \in DOMAIN callbacks : callbacks'[i] = callbacks[j],
         \A l \in Lags : port'[l] = "freed" => port[l] = "freed",
         \A c \in Cells : c \in excused => \/ c \in excused'
                                           \/ table'[c] \notin {"young", "expired"}
                                           \/ port'[Home[c].port] = "alive",
         \A c \in Cells : table'[c] \in {"young", "expired"} =>
           \/ table[c] \in {"young", "expired"}
           \/ ~active /\ Exists(Home[c].port)
           \/ Exists(Home[c].port) /\ (Home[c].port # 0 => port[Home[c].port] = "alive")
           \/ Exists(Home[c].port) /\ c \in excused',
         \A i \in DOMAIN callbacks' : port'[callbacks'[i].port] = "deleting",
         \A i \in DOMAIN callbacks : port[callbacks[i].port] = "deleting"
  PROVE  StaleInv'
<1>1. CallbacksOK /\ Typed /\ Visited /\ NoStaleAddress  BY DEF BaseInv, StaleInv
<1>2. \A c \in Cells : Home[c].port # 0 => Home[c].port \in Lags
  BY CellFacts DEF Ports
<1>3. NoStaleAddress'
  <2> SUFFICES ASSUME NEW c \in Cells, table'[c] \in {"young", "expired"},
                      Home[c].port # 0, port'[Home[c].port] = "freed", c \notin excused'
               PROVE  FALSE
    BY DEF NoStaleAddress, Exists, Cells
  <2>1. Home[c].port \in Lags /\ port[Home[c].port] = "freed"  BY <1>2
  <2>2. c \notin excused  OBVIOUS
  <2>3. ~Exists(Home[c].port)  BY <2>1 DEF Exists
  <2> QED  BY <1>1, <2>1, <2>2, <2>3 DEF NoStaleAddress
<1>4. Visited'
  <2> SUFFICES ASSUME active', request.vid1 = All,
                      NEW i \in DOMAIN callbacks', Answers(callbacks'[i]),
                      NEW c \in Cells, c < index, Home[c].port = callbacks'[i].port,
                      table'[c] \in {"young", "expired"}, c \notin excused'
               PROVE  FALSE
    BY DEF Visited, Answers, Cells
  <2>1. PICK j \in DOMAIN callbacks : callbacks'[i] = callbacks[j]  OBVIOUS
  <2>2. callbacks[j].port \in Lags /\ port[Home[c].port] = "deleting"
        /\ port'[Home[c].port] = "deleting"
    BY <1>1, <2>1, CallbackFacts DEF CallbackType
  <2>3. Home[c].port # 0  BY <2>1, <2>2, LagsAssumption
  <2>4. c \notin excused  BY <2>2
  <2>5. table[c] \in {"young", "expired"}  BY <2>2, <2>3
  <2> QED  BY <1>1, <2>1, <2>4, <2>5 DEF Visited
<1> QED  BY <1>3, <1>4 DEF StaleInv

\* The same of a step that registers no callback and excuses what was excused.
LEMMA NotStaler ==
  ASSUME BaseInv, StaleInv, UNCHANGED <<callbacks, index, request>>, active' => active,
         BaseInv', \A l \in Lags : port'[l] = "freed" => port[l] = "freed",
         \A c \in Cells : c \in excused => \/ c \in excused'
                                           \/ table'[c] \notin {"young", "expired"}
                                           \/ port'[Home[c].port] = "alive",
         \A c \in Cells : table'[c] \in {"young", "expired"} =>
           \/ table[c] \in {"young", "expired"}
           \/ ~active /\ Exists(Home[c].port)
           \/ Exists(Home[c].port) /\ (Home[c].port # 0 => port[Home[c].port] = "alive")
           \/ Exists(Home[c].port) /\ c \in excused'
  PROVE  StaleInv'
<1>1. \A i \in DOMAIN callbacks : port[callbacks[i].port] = "deleting"
  BY DEF BaseInv, CallbacksOK
<1>2. \A i \in DOMAIN callbacks' : port'[callbacks'[i].port] = "deleting"
  BY DEF BaseInv, CallbacksOK
<1> QED  BY <1>1, <1>2, NotStale

LEMMA CallerStale == BaseInv /\ StaleInv /\ (Requests \/ Sweeper) => StaleInv'
<1> SUFFICES ASSUME BaseInv, StaleInv, Requests \/ Sweeper PROVE StaleInv'  OBVIOUS
<1>1. Typed /\ CallbacksOK /\ Visited /\ NoStaleAddress  BY DEF BaseInv, StaleInv
<1>b. BaseInv'
  <2>1. [Next]_vars  BY DEF Next
  <2> QED  BY <2>1, BaseStep
<1> USE DEF threadVars, lagVars, cellVars
<1>2. ASSUME NEW p, NEW v, NEW s, Flush(p, v, s) \/ FlushAborts(p, s) PROVE StaleInv'
  <2>1. UNCHANGED <<table, excused, port, callbacks, index, request, active>>
    BY <1>2 DEF Flush, FlushAborts
  <2> QED  BY <1>b, <2>1, NotStaler
<1>3. ASSUME NEW p \in Lags, DeleteLag(p) PROVE StaleInv'
  <2> DEFINE cb == [port |-> p, vlan |-> 0, seq |-> nextSeq]
             r == Register(p)
  <2>1. /\ UNCHANGED <<table, excused, index, request, active>>
        /\ port' = [port EXCEPT ![p] = "deleting"] /\ callbacks' = r
    BY <1>3 DEF DeleteLag
  <2>2. \A i \in DOMAIN r : r[i] = cb \/ \E j \in DOMAIN callbacks : r[i] = callbacks[j]
    BY <1>1, Registered
  <2>3. cb.seq = nextSeq  OBVIOUS
  <2> HIDE DEF cb, r
  <2>4. \A i \in DOMAIN callbacks : port[callbacks[i].port] = "deleting"
    BY <1>1 DEF CallbacksOK
  <2>5. \A i \in DOMAIN callbacks' : port'[callbacks'[i].port] = "deleting"
    BY <1>b DEF BaseInv, CallbacksOK
  <2>6. \A l \in Lags : port'[l] = "freed" => port[l] = "freed"
    BY <1>1, <2>1 DEF Typed
  <2>7. ASSUME active, NEW i \in DOMAIN callbacks', Answers(callbacks'[i])
        PROVE  \E j \in DOMAIN callbacks : callbacks'[i] = callbacks[j]
    <3>1. request.seq < nextSeq /\ request.seq \in Nat /\ nextSeq \in Nat
      BY <1>1, <2>7 DEF CallbacksOK, Typed, RequestType
    <3>2. callbacks'[i] # cb  BY <2>3, <2>7, <3>1 DEF Answers
    <3> QED  BY <2>1, <2>2, <3>2
  <2>8. CASE active  BY <2>1, <2>4, <2>5, <2>6, <2>7, <2>8, NotStale
  <2>9. CASE ~active
    <3>1. Visited'  BY <2>1, <2>9 DEF Visited
    <3>2. NoStaleAddress'
      <4> SUFFICES ASSUME NEW c \in Cells, table[c] \in {"young", "expired"},
                          c \notin excused, Home[c].port # 0
                   PROVE  port'[Home[c].port] # "freed"
        BY <2>1 DEF NoStaleAddress, Exists, Cells
      <4>1. Home[c].port \in Lags  BY CellFacts DEF Ports
      <4> QED  BY <1>1, <2>6, <4>1 DEF NoStaleAddress, Exists
    <3> QED  BY <3>1, <3>2 DEF StaleInv
  <2> QED  BY <2>8, <2>9
<1>4. ASSUME NEW p \in Lags, DeleteLagAborts(p) \/ DeleteLagRefused(p) PROVE StaleInv'
  <2>1. /\ UNCHANGED <<table, excused, callbacks, index, request, active>>
        /\ port' = port \/ port' = [port EXCEPT ![p] = "deleting"]
    BY <1>4 DEF DeleteLagAborts, DeleteLagRefused
  <2>2. \A l \in Lags : port'[l] = "freed" => port[l] = "freed"
    BY <1>1, <2>1 DEF Typed
  <2> QED  BY <1>b, <2>1, <2>2, NotStaler
<1>5. ASSUME NEW p \in Lags, CreateLag(p) PROVE StaleInv'
  <2>1. /\ UNCHANGED <<table, callbacks, index, request, active>>
        /\ port' = [port EXCEPT ![p] = "alive"]
        /\ excused' = {c \in excused : Home[c].port # p}
    BY <1>5 DEF CreateLag
  <2>2. /\ \A l \in Lags : port'[l] = "freed" => port[l] = "freed"
        /\ port'[p] = "alive"
    BY <1>1, <2>1 DEF Typed
  <2>3. \A c \in excused : c \in excused' \/ port'[Home[c].port] = "alive"
    BY <2>1, <2>2
  <2> QED  BY <1>b, <2>1, <2>2, <2>3, NotStaler
<1>6. ASSUME NEW c \in Cells, AddAddress(c) PROVE StaleInv'
  <2>1. /\ UNCHANGED <<port, callbacks, index, request, active>>
        /\ Exists(Home[c].port)
        /\ excused' = IF Home[c].port # 0 /\ port[Home[c].port] = "deleting"
                        THEN excused \cup {c} ELSE excused
        /\ \A d \in Cells : d # c => table'[d] = table[d]
    BY <1>1, <1>6 DEF AddAddress, Store, Typed
  <2>2. Home[c].port # 0 => \/ port[Home[c].port] = "alive"
                            \/ port[Home[c].port] = "deleting"
    BY <1>1, <2>1, CellFacts DEF Exists, Typed, Ports
  <2> QED  BY <1>b, <2>1, <2>2, NotStaler
<1>7. ASSUME NEW c \in Cells, DeleteAddress(c) PROVE StaleInv'
  <2>1. /\ UNCHANGED <<port, callbacks, index, request, active>>
        /\ table'[c] = "invalid" /\ excused' = excused \ {c}
        /\ \A d \in Cells : d # c => table'[d] = table[d]
    BY <1>1, <1>7 DEF DeleteAddress, Remove, Typed
  <2> QED  BY <1>b, <2>1, NotStaler
<1>8. ASSUME NEW c \in Cells, SweepCell(c) PROVE StaleInv'
  <2>1. /\ UNCHANGED <<port, callbacks, index, request, active, excused>>
        /\ \A d \in Cells : table'[d] \in {"young", "expired"} =>
                              table[d] \in {"young", "expired"}
    BY <1>1, <1>8 DEF SweepCell, Typed
  <2> QED  BY <1>b, <2>1, NotStaler
<1>9. CASE SweepEnd \/ SweepEndFails
  <2>1. UNCHANGED <<table, excused, port, callbacks, index, request, active>>
    BY <1>9 DEF SweepEnd, SweepEndFails
  <2> QED  BY <1>b, <2>1, NotStaler
<1> QED  BY <1>2, <1>3, <1>4, <1>5, <1>6, <1>7, <1>8, <1>9 DEF Requests, Sweeper

LEMMA StaleStep == BaseInv /\ StaleInv /\ [Next]_vars => StaleInv'
<1> SUFFICES ASSUME BaseInv, StaleInv, [Next]_vars PROVE StaleInv'  OBVIOUS
<1>1. Typed /\ CallbacksOK /\ WakeInv /\ Visited /\ NoStaleAddress
  BY DEF BaseInv, StaleInv
<1>b. BaseInv'  BY BaseStep
<1> USE DEF threadVars, lagVars, cellVars
<1>2. CASE Requests \/ Sweeper  BY <1>2, CallerStale
<1>3. CASE Wait \/ WaitTimeout \/ TakeWork \/ FifoDone \/ UNCHANGED vars
  <2>1. UNCHANGED <<table, excused, port, callbacks, index, request, active>>
    BY <1>3 DEF Wait, WaitTimeout, TakeWork, FifoDone, vars
  <2> QED  BY <1>b, <2>1, NotStaler
<1>4. CASE HandlePurgeRequest
  <2>1. UNCHANGED <<table, excused, port>> /\ index' = 1
    BY <1>1, <1>4 DEF HandlePurgeRequest, WakeInv
  <2>2. NoStaleAddress'  BY <1>1, <2>1 DEF NoStaleAddress, Exists
  <2>3. \A c \in Cells : ~(c < 1)  BY CellFacts
  <2>4. Visited'  BY <2>1, <2>3 DEF Visited, Cells
  <2> QED  BY <2>2, <2>4 DEF StaleInv
<1>5. CASE PurgeCell
  <2>1. /\ active /\ index \in Cells /\ index' = index + 1
        /\ UNCHANGED <<port, callbacks, request, active>>
        /\ \A c \in Cells : c # index => table'[c] = table[c]
        /\ \A c : c # index /\ c \in excused => c \in excused'
        /\ MeetsPurgeCriteria(request, index) => table'[index] = "invalid"
        /\ ~MeetsPurgeCriteria(request, index) =>
             table'[index] = table[index] /\ excused' = excused
    BY <1>1, <1>5 DEF PurgeCell, Remove, WakeInv, Typed
  <2>2. NoStaleAddress'
    <3> SUFFICES ASSUME NEW c \in Cells, table'[c] \in {"young", "expired"}
                 PROVE  Exists(Home[c].port) \/ c \in excused'
      BY <2>1 DEF NoStaleAddress, Exists, Cells
    <3> QED  BY <1>1, <2>1 DEF NoStaleAddress
  <2>3. Visited'
    <3> SUFFICES ASSUME request.vid1 = All,
                        NEW i \in DOMAIN callbacks, Answers(callbacks[i]),
                        NEW c \in Cells, c < index + 1, Home[c].port = callbacks[i].port
                 PROVE  table'[c] \notin {"young", "expired"} \/ c \in excused'
      BY <2>1 DEF Visited, Answers, Cells
    <3>1. CASE c = index
      <4>1. table[c] \in {"young", "expired"} => MeetsPurgeCriteria(request, c)
        BY Answering
      <4> QED  BY <2>1, <3>1, <4>1
    <3>2. CASE c # index
      <4>1. c < index  BY <2>1, <3>2, CellFacts
      <4> QED  BY <1>1, <2>1, <3>2, <4>1 DEF Visited
    <3> QED  BY <3>1, <3>2
  <2> QED  BY <2>2, <2>3 DEF StaleInv
<1>6. CASE FinishPurge
  <2>1. /\ active /\ active' = FALSE /\ index = Len(Home) + 1 /\ UNCHANGED table
        /\ port' = [l \in Lags |-> IF l \in Freed THEN "freed" ELSE port[l]]
        /\ excused' = IF request.vid1 = All THEN excused
                       ELSE excused \cup {c \in Cells : Home[c].port \in Freed}
    BY <1>1, <1>6 DEF FinishPurge, WakeInv, Freed
  <2>2. NoStaleAddress'
    <3> SUFFICES ASSUME NEW c \in Cells, table[c] \in {"young", "expired"},
                        Home[c].port # 0, c \notin excused'
                 PROVE  port'[Home[c].port] # "freed"
      BY <2>1 DEF NoStaleAddress, Exists, Cells
    <3>1. c \notin excused  BY <2>1
    <3>2. Home[c].port \in Lags /\ port[Home[c].port] # "freed"
      BY <1>1, <3>1, CellFacts DEF NoStaleAddress, Exists, Ports
    <3>3. c < index  BY <2>1, CellFacts
    <3>4. CASE request.vid1 = All
      <4>1. Home[c].port \notin Freed  BY <1>1, <2>1, <3>1, <3>3, <3>4 DEF Visited, Freed
      <4> QED  BY <2>1, <3>2, <4>1
    <3>5. CASE request.vid1 # All
      <4>1. Home[c].port \notin Freed  BY <2>1, <3>5
      <4> QED  BY <2>1, <3>2, <4>1
    <3> QED  BY <3>4, <3>5
  <2>3. Visited'  BY <2>1 DEF Visited
  <2> QED  BY <2>2, <2>3 DEF StaleInv
<1>7. ASSUME NEW c \in Cells, Learn(c) PROVE StaleInv'
  <2>1. /\ UNCHANGED <<port, callbacks, index, request, active, excused>>
        /\ ~active /\ Exists(Home[c].port)
        /\ \A d \in Cells : d # c => table'[d] = table[d]
    BY <1>1, <1>7 DEF Learn, Store, Typed, WakeInv
  <2> QED  BY <1>b, <2>1, NotStaler
<1> QED  BY <1>2, <1>3, <1>4, <1>5, <1>6, <1>7 DEF Next, Maintenance

\* The callback that frees the port of a deleted LAG comes after the purge it was
\* registered for, however it is registered anew, merged and answered: no dynamic
\* address is left on a freed port, but what a caller added to it while it was being
\* deleted, or what was there when a purge of VLAN 0, which is the callback's own VLAN,
\* answered it (fm10000DeleteLagCallback, fmProcessPurgeCallbacks).
THEOREM NeverStale == Spec => []NoStaleAddress
<1>1. Init => StaleInv
  <2> SUFFICES ASSUME Init PROVE StaleInv  OBVIOUS
  <2>1. \A c \in Cells : table[c] = "invalid"  BY DEF Init
  <2>2. active = FALSE  BY DEF Init
  <2> QED  BY <2>1, <2>2 DEF StaleInv, Visited, NoStaleAddress
<1>2. StaleInv => NoStaleAddress  BY DEF StaleInv
<1> QED  BY <1>1, <1>2, BaseInit, BaseStep, StaleStep, PTL DEF Spec
-----------------------------------------------------------------------------
(* No request is lost *)

\* The purge in progress, or any of expired addresses, removes the address when it
\* comes to its cell.
RequestReaches(c) ==
  /\ table[c] # "invalid"
  /\ \/ table[c] = "expired"
     \/ /\ ~request.expired /\ request.port \in {All, Home[c].port}
        /\ request.vid1 \in {All, Home[c].vlan}
Coverable(c) ==
  \/ Reached(list, c)
  \/ flushExpired /\ table[c] = "expired"
  \/ active /\ index <= c /\ RequestReaches(c)
OwedInv == \A c \in owed : table[c] # "invalid" /\ (table[c] # "locked" => Coverable(c))

LEMMA CoverableCovered ==
  ASSUME BaseInv, NEW c \in Cells, table[c] # "locked", Coverable(c)
  PROVE  Covered(c)
<1>1. CASE Reached(list, c)
  <2>1. PICK i \in DOMAIN list : Hits(list[i], c)  BY <1>1 DEF Reached
  <2>2. list[i] \in EntryType  BY <2>1, ListFacts DEF BaseInv, ListInv
  <2> DEFINE r(v) == [port |-> list[i].port, vid1 |-> v, statics |-> list[i].statics,
                      expired |-> FALSE]
  <2>3. \A v : Reaches(list[i].port, v, c) => MeetsPurgeCriteria(r(v), c)
    BY DEF Reaches, MeetsPurgeCriteria
  <2>4. PICK v \in list[i].vlans \cup {All} :
          (v = All => list[i].all) /\ Reaches(list[i].port, v, c)
    <3>1. CASE list[i].all  BY <2>1, <3>1 DEF Hits, Reaches
    <3>2. CASE ~list[i].all
      <4>1. \A v \in list[i].vlans : v # All
        BY <2>2, VlansAssumption DEF EntryType, All
      <4>2. CASE table[c] = "expired"
        <5>1. PICK v \in list[i].vlans : TRUE
          BY <2>1, <3>2, HitsPending DEF Pending
        <5> QED  BY <4>1, <4>2, <5>1 DEF Reaches
      <4>3. CASE table[c] # "expired"
        BY <2>1, <3>2, <4>1, <4>3 DEF Hits, Reaches
      <4> QED  BY <4>2, <4>3
    <3> QED  BY <3>1, <3>2
  <2> QED  BY <2>1, <2>3, <2>4 DEF Covered
<1>2. CASE flushExpired /\ table[c] = "expired"  BY <1>2 DEF Covered
<1>3. CASE active /\ index <= c /\ RequestReaches(c)
  BY <1>3 DEF Covered, RequestReaches, MeetsPurgeCriteria
<1> QED  BY <1>1, <1>2, <1>3 DEF Coverable

\* Whoever asks for an address asks for one that is there, and for a purge of it.
LEMMA AskedReached ==
  ASSUME NEW p, NEW v, NEW s, NEW c \in Asked(p, v, s)
  PROVE  c \in Cells /\ table[c] # "invalid" /\ Reaches(p, v, c)
BY DEF Asked, MeetsPurgeCriteria, Reaches

\* A step that leaves the purge in progress alone, forgets no request and does not
\* touch an address that is owed.
LEMMA OwedKept ==
  ASSUME BaseInv, OwedInv, owed' \in SUBSET Cells, UNCHANGED <<active, index, request>>,
         flushExpired => flushExpired',
         \A c \in owed' : table'[c] = table[c],
         \A c \in Cells : Reached(list, c) => Reached(list', c),
         \A c \in owed' : \/ c \in owed
                          \/ /\ table[c] # "invalid"
                             /\ Reached(list', c) \/ (flushExpired' /\ table[c] = "expired")
  PROVE  OwedInv'
<1> SUFFICES ASSUME NEW c \in owed', table'[c] # "invalid" => table'[c] # "locked"
             PROVE  table'[c] # "invalid" /\ Coverable(c)'
  <2>1. ASSUME NEW c \in owed' PROVE table'[c] # "invalid"
    BY <2>1 DEF OwedInv
  <2> QED  BY <2>1 DEF OwedInv
<1>1. table'[c] = table[c] /\ table[c] # "invalid" /\ table[c] # "locked" /\ c \in Cells
  BY DEF OwedInv
<1>2. \/ Reached(list', c) \/ (flushExpired' /\ table[c] = "expired")
      \/ active /\ index <= c /\ RequestReaches(c)
  BY <1>1 DEF OwedInv, Coverable
<1>3. Reached(list', c) => Reached(list, c)'  BY <1>1 DEF Reached, Hits, Cells
<1>4. RequestReaches(c) => RequestReaches(c)'  BY <1>1 DEF RequestReaches
<1> QED  BY <1>1, <1>2, <1>3, <1>4 DEF Coverable

LEMMA CallerOwed == BaseInv /\ OwedInv /\ (Requests \/ Sweeper) => OwedInv'
<1> SUFFICES ASSUME BaseInv, OwedInv, Requests \/ Sweeper PROVE OwedInv'  OBVIOUS
<1>1. Typed /\ ListInv /\ CallbacksOK  BY DEF BaseInv
<1>2. BaseInv'
  <2>1. [Next]_vars  BY DEF Next
  <2> QED  BY <2>1, BaseStep
<1>3. owed \in SUBSET Cells /\ owed' \in SUBSET Cells'  BY <1>1, <1>2 DEF BaseInv, Typed
<1>4. owed' \in SUBSET Cells  BY <1>3 DEF Cells
<1> USE DEF threadVars, lagVars, cellVars
<1>5. ASSUME NEW p \in Targets, NEW v \in Vlans \cup {All}, NEW s \in Statics,
             Flush(p, v, s)
      PROVE  OwedInv'
  <2>1. /\ Enter(p, v, s) /\ owed' = owed \cup Asked(p, v, s) /\ s \in BOOLEAN
        /\ UNCHANGED <<table, active, index, request>> /\ p \in Ports \cup {All}
    BY <1>5, StaticsAssumption, TargetType DEF Flush, EnqueueFlush
  <2>2. \A c \in Cells : Reached(list, c) \/ Reaches(p, v, c) => Reached(list', c)
    BY <1>1, <2>1, EnterGood
  <2>3. UNCHANGED flushExpired  BY <2>1 DEF Enter
  <2>4. \A c \in owed' : c \in owed \/ (table[c] # "invalid" /\ Reached(list', c))
    BY <2>1, <2>2, AskedReached
  <2> QED  BY <1>4, <2>1, <2>2, <2>3, <2>4, OwedKept
<1>a. ASSUME NEW p \in Ports \cup {All}, NEW s \in BOOLEAN, EnterAborts(p, s),
             owed' \in {owed, owed \cup Asked(p, All, s)},
             UNCHANGED <<table, active, index, request>>
      PROVE  OwedInv'
  <2>1. \A c \in Cells : Reached(list, c) \/ Reaches(p, All, c) => Reached(list', c)
    BY <1>1, <1>a, AbortGood
  <2>2. UNCHANGED flushExpired  BY <1>a DEF EnterAborts
  <2>3. \A c \in owed' : c \in owed \/ (table[c] # "invalid" /\ Reached(list', c))
    BY <1>a, <2>1, AskedReached
  <2> QED  BY <1>4, <1>a, <2>1, <2>2, <2>3, OwedKept
<1>b. ASSUME NEW p \in Targets, NEW s \in Statics, FlushAborts(p, s) PROVE OwedInv'
  <2>1. p \in Ports \cup {All} /\ s \in BOOLEAN  BY StaticsAssumption, TargetType
  <2> QED  BY <1>a, <1>b, <2>1 DEF FlushAborts
<1>6. ASSUME NEW p \in Lags, DeleteLag(p) PROVE OwedInv'
  <2>1. /\ Enter(p, All, FALSE) /\ owed' = owed \cup Asked(p, All, FALSE)
        /\ UNCHANGED <<table, active, index, request>> /\ p \in Ports
    BY <1>6 DEF DeleteLag, EnqueueFlush, Ports
  <2>2. \A c \in Cells : Reached(list, c) \/ Reaches(p, All, c) => Reached(list', c)
    BY <1>1, <2>1, EnterGood
  <2>3. UNCHANGED flushExpired  BY <2>1 DEF Enter
  <2>4. \A c \in owed' : c \in owed \/ (table[c] # "invalid" /\ Reached(list', c))
    BY <2>1, <2>2, AskedReached
  <2> QED  BY <1>4, <2>1, <2>2, <2>3, <2>4, OwedKept
<1>c. ASSUME NEW p \in Lags, DeleteLagAborts(p) PROVE OwedInv'
  <2>1. p \in Ports  BY DEF Ports
  <2> QED  BY <1>a, <1>c, <2>1 DEF DeleteLagAborts
<1>d. ASSUME NEW p \in Lags, DeleteLagRefused(p) PROVE OwedInv'
  <2>1. Enter(p, All, FALSE) /\ UNCHANGED <<table, active, index, request, owed>>
        /\ p \in Ports
    BY <1>d DEF DeleteLagRefused, Ports
  <2>2. \A c \in Cells : Reached(list, c) => Reached(list', c)  BY <1>1, <2>1, EnterGood
  <2>3. UNCHANGED flushExpired  BY <2>1 DEF Enter
  <2> QED  BY <1>4, <2>1, <2>2, <2>3, OwedKept
<1>7. ASSUME NEW p \in Lags, CreateLag(p) PROVE OwedInv'
  <2>1. UNCHANGED <<table, list, flushExpired, active, index, request, owed>>
    BY <1>7 DEF CreateLag, purgeVars
  <2> QED  BY <1>4, <2>1, OwedKept
<1>8. ASSUME NEW c \in Cells, AddAddress(c) PROVE OwedInv'
  <2>1. /\ UNCHANGED <<list, flushExpired, active, index, request, owed>>
        /\ table[c] = "invalid" /\ \A d \in Cells : d # c => table'[d] = table[d]
    BY <1>1, <1>8 DEF AddAddress, Store, Typed, purgeVars
  <2>2. \A d \in owed' : table'[d] = table[d]  BY <1>3, <2>1 DEF OwedInv
  <2> QED  BY <1>4, <2>1, <2>2, OwedKept
<1>9. ASSUME NEW c \in Cells, DeleteAddress(c) PROVE OwedInv'
  <2>1. /\ UNCHANGED <<list, flushExpired, active, index, request>>
        /\ owed' = owed \ {c} /\ \A d \in Cells : d # c => table'[d] = table[d]
    BY <1>1, <1>9 DEF DeleteAddress, Remove, Typed, purgeVars
  <2>2. \A d \in owed' : table'[d] = table[d]  BY <1>3, <2>1
  <2> QED  BY <1>4, <2>1, <2>2, OwedKept
<1>10. CASE SweepEnd
  <2>1. /\ EnqueueExpired /\ owed' = owed \cup {c \in Cells : table[c] = "expired"}
        /\ UNCHANGED <<table, active, index, request>>
    BY <1>10 DEF SweepEnd
  <2>2. \A c \in Cells : Reached(list, c) => Reached(list', c)  BY <1>1, <2>1, ExpiredGood
  <2>3. flushExpired' = TRUE  BY <2>1 DEF EnqueueExpired
  <2>4. \A c \in owed' : c \in owed \/ (table[c] # "invalid" /\ table[c] = "expired")
    BY <2>1
  <2> QED  BY <1>4, <2>1, <2>2, <2>3, <2>4, OwedKept
<1>11. ASSUME NEW c \in Cells, SweepCell(c) PROVE OwedInv'
  <2>1. /\ UNCHANGED <<list, flushExpired, active, index, request, owed>>
        /\ table[c] = "young" /\ table' = [table EXCEPT ![c] = "expired"]
    BY <1>11 DEF SweepCell, purgeVars
  <2> SUFFICES ASSUME NEW d \in owed
               PROVE  table'[d] # "invalid" /\ (table'[d] # "locked" => Coverable(d)')
    BY <2>1 DEF OwedInv
  <2>2. d \in Cells /\ table[d] # "invalid" /\ (table[d] # "locked" => Coverable(d))
    BY <1>3 DEF OwedInv
  <2>3. /\ table'[d] = IF d = c THEN "expired" ELSE table[d]
        /\ table[d] = "expired" => table'[d] = "expired"
    BY <1>1, <2>1, <2>2 DEF Typed
  <2>4. Reached(list, d) => Reached(list, d)'
    <3>1. ASSUME NEW e, Hits(e, d) PROVE Hits(e, d)'
      BY <2>3, <3>1, HitsPending DEF Hits
    <3> QED  BY <2>1, <3>1 DEF Reached
  <2>5. RequestReaches(d) => RequestReaches(d)'  BY <2>1, <2>3 DEF RequestReaches
  <2>6. Coverable(d) => Coverable(d)'  BY <2>1, <2>3, <2>4, <2>5 DEF Coverable
  <2> QED  BY <2>1, <2>2, <2>3, <2>6
<1>12. CASE SweepEndFails
  <2>1. UNCHANGED <<table, list, flushExpired, active, index, request, owed>>
    BY <1>12 DEF SweepEndFails, purgeVars
  <2> QED  BY <1>4, <2>1, OwedKept
<1> QED  BY <1>5, <1>b, <1>6, <1>c, <1>d, <1>7, <1>8, <1>9, <1>10, <1>11, <1>12
         DEF Requests, Sweeper

\* What the list asked for is asked for by the list that is left or by the purge taken.
LEMMA HandleOwed == ASSUME BaseInv, OwedInv, HandlePurgeRequest PROVE OwedInv'
<1>1. Typed /\ ListInv /\ WakeInv  BY DEF BaseInv
<1>2. /\ ~active /\ GetNextPurgeRequest /\ index' = 1
      /\ active' = (IsAnotherPurgePending(list) \/ flushExpired)
      /\ UNCHANGED <<table, owed>>
  BY <1>1 DEF HandlePurgeRequest, WakeInv, cellVars
<1> SUFFICES ASSUME NEW c \in owed, table[c] # "locked"
             PROVE  table[c] # "invalid" /\ Coverable(c)'
  <2>1. \A c \in owed : table[c] # "invalid"  BY DEF OwedInv
  <2> QED  BY <1>2, <2>1 DEF OwedInv
<1>3. /\ c \in Cells /\ table[c] # "invalid"
      /\ Reached(list, c) \/ (flushExpired /\ table[c] = "expired")
  BY <1>1, <1>2 DEF OwedInv, Coverable, Typed
<1>4. index' <= c  BY <1>2, <1>3, CellFacts
<1>5. CASE IsAnotherPurgePending(list)
  <2>1. /\ request' \in [port : Ports \cup {All}, vid1 : Vlans \cup {All},
                         statics : BOOLEAN, expired : {FALSE}, seq : {nextSeq}]
        /\ Reached(list, c) => Reached(list', c) \/ Reaches(request'.port, request'.vid1, c)
    BY <1>1, <1>2, <1>3, <1>5, TakeGood
  <2>2. ~request'.expired  BY <2>1
  <2>3. Reached(list', c) => Reached(list, c)'  BY <1>2 DEF Reached, Hits
  <2>4. table[c] = "expired" \/ Reaches(request'.port, request'.vid1, c) => RequestReaches(c)'
    BY <1>2, <1>3, <2>2 DEF RequestReaches, Reaches
  <2>5. active'  BY <1>2, <1>5
  <2> QED  BY <1>3, <1>4, <2>1, <2>3, <2>4, <2>5 DEF Coverable
<1>6. CASE ~IsAnotherPurgePending(list)
  <2>1. ~Reached(list, c)  BY <1>6, HitsPending DEF Reached, IsAnotherPurgePending
  <2>2. flushExpired /\ table[c] = "expired"  BY <1>3, <2>1
  <2>3. active' /\ RequestReaches(c)'  BY <1>2, <1>3, <2>2 DEF RequestReaches
  <2> QED  BY <1>3, <1>4, <2>3 DEF Coverable
<1> QED  BY <1>5, <1>6

LEMMA PurgeOwed == ASSUME BaseInv, OwedInv, PurgeCell PROVE OwedInv'
<1>1. Typed  BY DEF BaseInv
<1>2. /\ index \in Cells /\ index' = index + 1
      /\ UNCHANGED <<list, flushExpired, active, request>>
      /\ \A c \in Cells : c # index => table'[c] = table[c]
      /\ MeetsPurgeCriteria(request, index) => owed' = owed \ {index}
      /\ ~MeetsPurgeCriteria(request, index) => owed' = owed /\ table' = table
  BY <1>1 DEF PurgeCell, Remove, Typed, purgeVars, cellVars
<1> SUFFICES ASSUME NEW c \in owed'
             PROVE  table'[c] # "invalid" /\ (table'[c] # "locked" => Coverable(c)')
  BY DEF OwedInv
<1>3. c \in owed /\ c \in Cells /\ table'[c] = table[c]
  <2>1. c \in owed  BY <1>2
  <2>2. c \in Cells  BY <1>1, <2>1 DEF Typed
  <2> QED  BY <1>2, <2>1, <2>2
<1>4. table[c] # "invalid" /\ (table[c] # "locked" => Coverable(c))  BY <1>3 DEF OwedInv
<1> SUFFICES ASSUME table[c] # "locked" PROVE Coverable(c)'  BY <1>3, <1>4
<1>5. Reached(list, c) => Reached(list, c)'  BY <1>2, <1>3 DEF Reached, Hits
<1>6. RequestReaches(c) => RequestReaches(c)'  BY <1>2, <1>3 DEF RequestReaches
<1>7. CASE c = index /\ RequestReaches(c)
  <2>1. MeetsPurgeCriteria(request, index)
    BY <1>7 DEF RequestReaches, MeetsPurgeCriteria
  <2> QED  BY <1>2, <1>7, <2>1
<1>8. index <= c /\ c # index => index' <= c  BY <1>2, <1>3, CellFacts
<1> QED  BY <1>2, <1>3, <1>4, <1>5, <1>6, <1>7, <1>8 DEF Coverable

\* At the end of a purge no cell is ahead of it.
LEMMA FinishOwed == ASSUME BaseInv, OwedInv, FinishPurge PROVE OwedInv'
<1>1. Typed /\ ListInv /\ CallbacksOK  BY DEF BaseInv
<1>2. /\ index = Len(Home) + 1 /\ UNCHANGED <<table, flushExpired, owed>>
  BY DEF FinishPurge
<1>3. \A c \in Cells : Reached(list, c) => Reached(list', c)
  BY <1>1, CallbackFacts, FinishGood
<1> SUFFICES ASSUME NEW c \in owed, table[c] # "locked"
             PROVE  table[c] # "invalid" /\ Coverable(c)'
  <2>1. \A c \in owed : table[c] # "invalid"  BY DEF OwedInv
  <2> QED  BY <1>2, <2>1 DEF OwedInv
<1>4. c \in Cells /\ table[c] # "invalid" /\ Coverable(c)  BY <1>1 DEF OwedInv, Typed
<1>5. ~(index <= c)  BY <1>2, <1>4, CellFacts
<1>6. Reached(list', c) => Reached(list, c)'  BY <1>2 DEF Reached, Hits
<1> QED  BY <1>2, <1>3, <1>4, <1>5, <1>6 DEF Coverable

LEMMA OwedStep == BaseInv /\ OwedInv /\ [Next]_vars => OwedInv'
<1> SUFFICES ASSUME BaseInv, OwedInv, [Next]_vars PROVE OwedInv'  OBVIOUS
<1>1. Typed  BY DEF BaseInv
<1>2. CASE Requests \/ Sweeper  BY <1>2, CallerOwed
<1>3. CASE HandlePurgeRequest  BY <1>3, HandleOwed
<1>4. CASE PurgeCell  BY <1>4, PurgeOwed
<1>5. CASE FinishPurge  BY <1>5, FinishOwed
<1>6. owed \in SUBSET Cells  BY <1>1 DEF Typed
<1>7. CASE Wait \/ WaitTimeout \/ TakeWork \/ FifoDone \/ UNCHANGED vars
  <2>1. UNCHANGED <<table, list, flushExpired, active, index, request, owed>>
    BY <1>7 DEF Wait, WaitTimeout, TakeWork, FifoDone, vars, purgeVars, threadVars,
                cellVars
  <2> QED  BY <1>6, <2>1, OwedKept
<1>8. ASSUME NEW c \in Cells, Learn(c) PROVE OwedInv'
  <2>1. /\ UNCHANGED <<list, flushExpired, active, index, request, owed>>
        /\ table[c] = "invalid" /\ \A d \in Cells : d # c => table'[d] = table[d]
    BY <1>1, <1>8 DEF Learn, Store, Typed, purgeVars, threadVars
  <2>2. \A d \in owed' : table'[d] = table[d]  BY <1>6, <2>1 DEF OwedInv
  <2> QED  BY <1>6, <2>1, <2>2, OwedKept
<1> QED  BY <1>2, <1>3, <1>4, <1>5, <1>7, <1>8 DEF Next, Maintenance

\* However requests are merged, suppressed and cancelled by one another, an address
\* that one of them is to remove stays in the scope of a purge that will reach its
\* cell (the merging of fmEnqueueMAPurge, fmGetNextPurgeRequest, PerformPurge).
THEOREM NothingLost == Spec => []OwedIsCovered
<1>1. Init => OwedInv  BY DEF Init, OwedInv
<1>2. BaseInv /\ OwedInv => OwedIsCovered
  <2>1. BaseInv => owed \in SUBSET Cells  BY DEF BaseInv, Typed
  <2> QED  BY <2>1, CoverableCovered DEF OwedInv, OwedIsCovered
<1> QED  BY <1>1, <1>2, BaseInit, BaseStep, OwedStep, PTL DEF Spec
-----------------------------------------------------------------------------
(* The deletion of a LAG *)

\* A step that leaves the callbacks and the purge in progress alone and takes no
\* purge from the list.
LEMMA AwaitKept ==
  ASSUME DeletionAwaited, UNCHANGED <<callbacks, active, request>>,
         \A l \in Lags : port'[l] = "deleting" /\ l \notin forsaken' =>
                          port[l] = "deleting" /\ l \notin forsaken,
         \A q : AsksWhole(list, q) => AsksWhole(list', q)
  PROVE  DeletionAwaited'
<1> SUFFICES ASSUME NEW l \in Lags, port'[l] = "deleting", l \notin forsaken'
             PROVE  \E i \in DOMAIN callbacks' :
                      callbacks'[i].port = l /\ Awaited(callbacks[i])'
  BY DEF DeletionAwaited
<1>1. PICK i \in DOMAIN callbacks : callbacks[i].port = l /\ Awaited(callbacks[i])
  BY DEF DeletionAwaited
<1>2. AsksWhole(list', l) => AsksWhole(list, l)'  BY DEF AsksWhole
<1>3. Awaited(callbacks[i])'  BY <1>1, <1>2 DEF Awaited, AsksWhole, Answers
<1> QED  BY <1>1, <1>3

\* The callback is registered with the flush, which asks for the whole port.
LEMMA DeleteLagAwaits ==
  ASSUME BaseInv, DeletionAwaited, NEW p \in Lags, DeleteLag(p)
  PROVE  DeletionAwaited'
<1>1. Typed /\ ListInv /\ CallbacksOK  BY DEF BaseInv
<1> DEFINE cb == [port |-> p, vlan |-> 0, seq |-> nextSeq]
           r == Register(p)
<1>2. /\ Enter(p, All, FALSE) /\ p \in Ports
      /\ UNCHANGED <<request, active>>
      /\ port' = [port EXCEPT ![p] = "deleting"]
      /\ callbacks' = r /\ forsaken' = forsaken \ {p}
  BY DEF DeleteLag, EnqueueFlush, Ports, threadVars
<1>3. /\ AsksWhole(list', p)
      /\ \A q : AsksWhole(list, q) => AsksWhole(list', q)
  BY <1>1, <1>2, EnterGood
<1>4. /\ \E i \in DOMAIN r : r[i] = cb
      /\ \A j \in DOMAIN callbacks : callbacks[j].port # p =>
           \E i \in DOMAIN r : r[i] = callbacks[j]
  BY <1>1, Registered
<1>5. cb.port = p  OBVIOUS
<1> HIDE DEF cb, r
<1> SUFFICES ASSUME NEW l \in Lags, port'[l] = "deleting", l \notin forsaken'
             PROVE  \E i \in DOMAIN callbacks' :
                      callbacks'[i].port = l /\ Awaited(callbacks[i])'
  BY DEF DeletionAwaited
<1>6. CASE l = p
  <2>1. PICK i \in DOMAIN callbacks' : callbacks'[i].port = p  BY <1>2, <1>4, <1>5
  <2>2. Awaited(callbacks[i])'  BY <1>3, <2>1 DEF Awaited, AsksWhole
  <2> QED  BY <1>6, <2>1, <2>2
<1>7. CASE l # p
  <2>1. port[l] = "deleting" /\ l \notin forsaken  BY <1>1, <1>2, <1>7 DEF Typed
  <2>2. PICK j \in DOMAIN callbacks : callbacks[j].port = l /\ Awaited(callbacks[j])
    BY <2>1 DEF DeletionAwaited
  <2>3. PICK i \in DOMAIN callbacks' : callbacks'[i] = callbacks[j]
    BY <1>2, <1>4, <1>7, <2>2
  <2>4. AsksWhole(list, l) => AsksWhole(list', l)  BY <1>3
  <2>5. Awaited(callbacks[i])'
    BY <1>2, <2>2, <2>3, <2>4 DEF Awaited, AsksWhole, Answers
  <2> QED  BY <2>2, <2>3, <2>5
<1> QED  BY <1>6, <1>7

\* What asked for the whole port is still in the list or is the purge taken, whose
\* sequence number is that of no callback to come.
LEMMA HandleAwaits ==
  ASSUME BaseInv, DeletionAwaited, HandlePurgeRequest PROVE DeletionAwaited'
<1>1. Typed /\ ListInv /\ WakeInv /\ CallbacksOK  BY DEF BaseInv
<1>2. /\ ~active /\ GetNextPurgeRequest
      /\ active' = (IsAnotherPurgePending(list) \/ flushExpired)
      /\ UNCHANGED <<port, callbacks, forsaken>>
  BY <1>1 DEF HandlePurgeRequest, WakeInv, lagVars
<1> SUFFICES ASSUME NEW l \in Lags, port[l] = "deleting", l \notin forsaken
             PROVE  \E i \in DOMAIN callbacks' :
                      callbacks'[i].port = l /\ Awaited(callbacks[i])'
  BY <1>2 DEF DeletionAwaited
<1>3. PICK i \in DOMAIN callbacks : callbacks[i].port = l /\ AsksWhole(list, l)
  BY <1>2 DEF DeletionAwaited, Awaited
<1>4. IsAnotherPurgePending(list)
  BY <1>3 DEF AsksWhole, IsAnotherPurgePending, Pending
<1>5. /\ request' \in [port : Ports \cup {All}, vid1 : Vlans \cup {All},
                       statics : BOOLEAN, expired : {FALSE}, seq : {nextSeq}]
      /\ \/ AsksWhole(list', l)
         \/ request'.vid1 = All /\ request'.port \in {All, l}
  BY <1>1, <1>2, <1>3, <1>4, TakeGood
<1>6. callbacks[i].seq \in 1..nextSeq /\ nextSeq \in Nat  BY <1>1 DEF CallbacksOK
<1>7. request'.seq = nextSeq /\ request'.seq >= callbacks[i].seq  BY <1>5, <1>6
<1>8. Awaited(callbacks[i])'
  <2>1. CASE AsksWhole(list', l)  BY <1>2, <1>3, <2>1 DEF Awaited, AsksWhole
  <2>2. CASE request'.vid1 = All /\ request'.port \in {All, l}
    <3>1. active'  BY <1>2, <1>4
    <3>2. Answers(callbacks[i])'  BY <1>2, <1>3, <1>7, <2>2 DEF Answers
    <3> QED  BY <3>1, <3>2 DEF Awaited
  <2> QED  BY <1>5, <2>1, <2>2
<1> QED  BY <1>2, <1>3, <1>8

\* A callback that the purge does not answer is kept, and so is the purge it waits for.
LEMMA FinishAwaits ==
  ASSUME BaseInv, DeletionAwaited, FinishPurge PROVE DeletionAwaited'
<1>1. Typed /\ ListInv /\ CallbacksOK  BY DEF BaseInv
<1> DEFINE kept == {i \in DOMAIN callbacks : ~Answers(callbacks[i])}
<1>2. /\ port' = [l \in Lags |-> IF l \in Freed THEN "freed" ELSE port[l]]
      /\ callbacks' = Sublist(callbacks, kept) /\ UNCHANGED forsaken
  BY DEF FinishPurge, Freed
<1>3. \A q : AsksWhole(list, q) => AsksWhole(list', q)
  BY <1>1, CallbackFacts, FinishGood
<1> SUFFICES ASSUME NEW l \in Lags, port'[l] = "deleting", l \notin forsaken
             PROVE  \E i \in DOMAIN callbacks' :
                      callbacks'[i].port = l /\ Awaited(callbacks[i])'
  BY <1>2 DEF DeletionAwaited
<1>4. l \notin Freed /\ port[l] = "deleting"  BY <1>2
<1>5. PICK i \in DOMAIN callbacks : callbacks[i].port = l /\ Awaited(callbacks[i])
  BY <1>4 DEF DeletionAwaited
<1>6. ~Answers(callbacks[i])  BY <1>4, <1>5 DEF Freed
<1>7. i \in kept /\ kept \in SUBSET DOMAIN callbacks  BY <1>6
<1>8. AsksWhole(list', l)  BY <1>3, <1>5, <1>6 DEF Awaited
<1> HIDE DEF kept
<1>9. callbacks \in Seq(CallbackType)  BY <1>1 DEF CallbacksOK
<1>10. PICK k \in DOMAIN callbacks' : callbacks'[k] = callbacks[i]
  <2>1. /\ DOMAIN callbacks' = 1..Cardinality(kept)
        /\ \A k \in 1..Cardinality(kept) : callbacks'[k] = callbacks[Places(kept)[k]]
        /\ \E k \in 1..Cardinality(kept) : Places(kept)[k] = i
    BY <1>2, <1>7, <1>9, SublistFacts
  <2> QED  BY <2>1
<1>11. Awaited(callbacks[k])'  BY <1>5, <1>8, <1>10 DEF Awaited, AsksWhole
<1> QED  BY <1>5, <1>10, <1>11

LEMMA AwaitStep == BaseInv /\ DeletionAwaited /\ [Next]_vars => DeletionAwaited'
<1> SUFFICES ASSUME BaseInv, DeletionAwaited, [Next]_vars PROVE DeletionAwaited'
  OBVIOUS
<1>1. Typed /\ ListInv /\ CallbacksOK  BY DEF BaseInv
<1> USE DEF threadVars, purgeVars, lagVars, cellVars
<1>2. ASSUME NEW p \in Targets, NEW v \in Vlans \cup {All}, NEW s \in Statics,
             Flush(p, v, s)
      PROVE  DeletionAwaited'
  <2>1. /\ Enter(p, v, s) /\ s \in BOOLEAN /\ p \in Ports \cup {All}
        /\ UNCHANGED <<port, callbacks, forsaken, active, request>>
    BY <1>2, StaticsAssumption, TargetType DEF Flush, EnqueueFlush
  <2>2. \A q : AsksWhole(list, q) => AsksWhole(list', q)  BY <1>1, <2>1, EnterGood
  <2> QED  BY <2>1, <2>2, AwaitKept
<1>3. ASSUME NEW p \in Targets, NEW s \in Statics, FlushAborts(p, s)
      PROVE  DeletionAwaited'
  <2>1. /\ EnterAborts(p, s) /\ s \in BOOLEAN /\ p \in Ports \cup {All}
        /\ UNCHANGED <<port, callbacks, forsaken, active, request>>
    BY <1>3, StaticsAssumption, TargetType DEF FlushAborts
  <2>2. \A q : AsksWhole(list, q) => AsksWhole(list', q)  BY <1>1, <2>1, AbortGood
  <2> QED  BY <2>1, <2>2, AwaitKept
<1>4. ASSUME NEW p \in Lags, DeleteLag(p) PROVE DeletionAwaited'
  BY <1>4, DeleteLagAwaits
<1>5. ASSUME NEW p \in Lags, DeleteLagAborts(p) PROVE DeletionAwaited'
  <2>1. /\ EnterAborts(p, FALSE) /\ p \in Ports
        /\ UNCHANGED <<callbacks, active, request>>
        /\ port' = [port EXCEPT ![p] = "deleting"]
        /\ forsaken' = IF HasCallback(p) THEN forsaken ELSE forsaken \cup {p}
    BY <1>5 DEF DeleteLagAborts, Ports
  <2>2. \A q : AsksWhole(list, q) => AsksWhole(list', q)  BY <1>1, <2>1, AbortGood
  <2>3. HasCallback(p) => port[p] = "deleting"  BY <1>1 DEF HasCallback, CallbacksOK
  <2>4. \A l \in Lags : port'[l] = "deleting" /\ l \notin forsaken' =>
                         port[l] = "deleting" /\ l \notin forsaken
    BY <1>1, <2>1, <2>3 DEF Typed
  <2> QED  BY <2>1, <2>2, <2>4, AwaitKept
<1>6. ASSUME NEW p \in Lags, DeleteLagRefused(p) PROVE DeletionAwaited'
  <2>1. /\ Enter(p, All, FALSE) /\ p \in Ports
        /\ UNCHANGED <<port, callbacks, forsaken, active, request>>
    BY <1>6 DEF DeleteLagRefused, Ports
  <2>2. \A q : AsksWhole(list, q) => AsksWhole(list', q)  BY <1>1, <2>1, EnterGood
  <2> QED  BY <2>1, <2>2, AwaitKept
<1>7. ASSUME NEW p \in Lags, CreateLag(p) PROVE DeletionAwaited'
  <2>1. UNCHANGED <<list, callbacks, forsaken, active, request>>  BY <1>7 DEF CreateLag
  <2>2. \A l \in Lags : port'[l] = "deleting" => port[l] = "deleting"
    BY <1>1, <1>7 DEF CreateLag, Typed
  <2> QED  BY <2>1, <2>2, AwaitKept
<1>8. CASE SweepEnd
  <2>1. EnqueueExpired /\ UNCHANGED <<port, callbacks, forsaken, active, request>>
    BY <1>8 DEF SweepEnd
  <2>2. \A q : AsksWhole(list, q) => AsksWhole(list', q)  BY <1>1, <2>1, ExpiredGood
  <2> QED  BY <2>1, <2>2, AwaitKept
<1>9. CASE HandlePurgeRequest  BY <1>9, HandleAwaits
<1>10. CASE FinishPurge  BY <1>10, FinishAwaits
<1>11. ASSUME NEW c \in Cells,
              AddAddress(c) \/ DeleteAddress(c) \/ SweepCell(c) \/ Learn(c)
       PROVE  DeletionAwaited'
  <2>1. UNCHANGED <<port, list, callbacks, forsaken, active, request>>
    BY <1>11 DEF AddAddress, DeleteAddress, SweepCell, Learn, Store
  <2> QED  BY <2>1, AwaitKept
<1>12. CASE \/ Wait \/ WaitTimeout \/ TakeWork \/ FifoDone \/ PurgeCell
            \/ SweepEndFails \/ UNCHANGED vars
  <2>1. UNCHANGED <<port, list, callbacks, forsaken, active, request>>
    BY <1>12 DEF Wait, WaitTimeout, TakeWork, FifoDone, PurgeCell, SweepEndFails, vars
  <2> QED  BY <2>1, AwaitKept
<1> QED  BY <1>2, <1>3, <1>4, <1>5, <1>6, <1>7, <1>8, <1>9, <1>10, <1>11, <1>12
         DEF Next, Requests, Sweeper, Maintenance

\* The port of a LAG that is being deleted is not left behind: its callback and a purge
\* that answers it are there until the callback frees it, whatever the flush is merged
\* with and whichever purges end before, unless memory ran out before the callback was
\* made (fm10000DeleteLagFromSwitch, fmEnqueueMAPurge, fmProcessPurgeCallbacks).
THEOREM DeletionNeverForgotten == Spec => []DeletionAwaited
<1>1. Init => DeletionAwaited  BY DEF Init, DeletionAwaited
<1> QED  BY <1>1, BaseInit, BaseStep, AwaitStep, PTL DEF Spec
=============================================================================
