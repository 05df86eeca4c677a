-------------------------- MODULE EventPool_proofs --------------------------
(***************************************************************************)
(* Proofs about EventPool, for any threads, any number of events and any   *)
(* thresholds that fmEventHandlingInitialize accepts.                      *)
(***************************************************************************)
EXTENDS EventPool, FiniteSetTheorems, TLAPS

\* At(S) of another program counter than pc.
In(f, S) == {x \in Threads : f[x] \in S}

\* The events on their way back to the free queue are counted by their threads.
Returning == {"put", "insert"}

\* The sets At(S) are finite: their threads can be counted.
LEMMA InFinite ==
  ASSUME NEW f, NEW S
  PROVE  IsFiniteSet(In(f, S)) /\ Cardinality(In(f, S)) \in Nat
<1>1. In(f, S) \in SUBSET Threads  BY DEF In
<1>2. IsFiniteSet(In(f, S))  BY <1>1, FiniteThreads, FS_Subset
<1> QED  BY <1>2, FS_CardinalityType

\* A thread that moves leaves the set of its old label and joins that of its
\* new one; nobody else does.
LEMMA MoveCounts ==
  ASSUME NEW f \in [Threads -> Labels], NEW t \in Threads, NEW l \in Labels, NEW S,
         NEW g, g = [f EXCEPT ![t] = l]
  PROVE  /\ l \in S /\ f[t] \notin S => Cardinality(In(g, S)) = Cardinality(In(f, S)) + 1
         /\ l \notin S /\ f[t] \in S => Cardinality(In(g, S)) = Cardinality(In(f, S)) - 1
         /\ (l \in S <=> f[t] \in S) => Cardinality(In(g, S)) = Cardinality(In(f, S))
<1>1. \A x \in Threads : x # t => (x \in In(g, S) <=> x \in In(f, S))  BY DEF In
<1>2. (t \in In(f, S) <=> f[t] \in S) /\ (t \in In(g, S) <=> l \in S)  BY DEF In
<1>3. In(f, S) \subseteq Threads /\ In(g, S) \subseteq Threads  BY DEF In
<1>4. ASSUME l \in S, f[t] \notin S
      PROVE  Cardinality(In(g, S)) = Cardinality(In(f, S)) + 1
  <2>1. In(g, S) = In(f, S) \cup {t}  BY <1>1, <1>2, <1>3, <1>4
  <2> QED  BY <2>1, <1>2, <1>4, InFinite, FS_AddElement
<1>5. ASSUME l \notin S, f[t] \in S
      PROVE  Cardinality(In(g, S)) = Cardinality(In(f, S)) - 1
  <2>1. In(g, S) = In(f, S) \ {t}  BY <1>1, <1>2, <1>3, <1>5
  <2> QED  BY <2>1, <1>2, <1>5, InFinite, FS_RemoveElement
<1>6. ASSUME l \in S <=> f[t] \in S
      PROVE  In(g, S) = In(f, S)
  <2>1. \A x \in Threads : x \in In(g, S) <=> x \in In(f, S)  BY <1>1, <1>2, <1>6
  <2> QED  BY <2>1, <1>3
<1> QED  BY <1>4, <1>5, <1>6

\* The events on their way back, and how a step of thread t changes their number.
Back(f) == Cardinality(In(f, Returning))

LEMMA GotoCounts ==
  ASSUME TypeOK, NEW t \in Threads, NEW l \in Labels, Goto(t, l)
  PROVE  /\ Back(pc) \in Nat
         /\ l \in Returning /\ pc[t] \notin Returning => Back(pc') = Back(pc) + 1
         /\ l \notin Returning /\ pc[t] \in Returning => Back(pc') = Back(pc) - 1
         /\ (l \in Returning <=> pc[t] \in Returning) => Back(pc') = Back(pc)
<1>1. pc \in [Threads -> Labels] /\ pc' = [pc EXCEPT ![t] = l]  BY DEF TypeOK, Goto
<1>2. Back(pc) \in Nat  BY InFinite DEF Back
<1>3. \A g : g = [pc EXCEPT ![t] = l] =>
        /\ l \in Returning /\ pc[t] \notin Returning => Back(g) = Back(pc) + 1
        /\ l \notin Returning /\ pc[t] \in Returning => Back(g) = Back(pc) - 1
        /\ (l \in Returning <=> pc[t] \in Returning) => Back(g) = Back(pc)
  BY <1>1, MoveCounts DEF Back
<1> QED  BY <1>1, <1>2, <1>3
-----------------------------------------------------------------------------
\* Every state has its type: in particular neither the counter of the free
\* queue, which fmEventQueueGet decrements, nor the semaphore goes below zero.
THEOREM TypeCorrect == Spec => []TypeOK
<1>1. Init => TypeOK
  BY Thresholds DEF Init, TypeOK, Labels
<1>2. TypeOK /\ [Next]_vars => TypeOK'
  <2> SUFFICES ASSUME TypeOK, [Next]_vars PROVE TypeOK'
    OBVIOUS
  <2>1. CASE UNCHANGED vars
    BY <2>1 DEF TypeOK, vars
  <2>2. ASSUME NEW t \in Threads, Allocate(t) PROVE TypeOK'
    <3>1. CASE CallLow(t) \/ CallHigh(t) \/ Count(t) \/ TimeOut(t)
      BY <3>1 DEF TypeOK, Labels, CallLow, CallHigh, Count, TimeOut, Goto
    <3>2. CASE Capture(t) \/ Wake(t)
      BY <3>2 DEF TypeOK, Labels, Capture, Wake, Goto
    <3>3. CASE Get(t)
      BY <3>3 DEF TypeOK, Labels, Get, Goto
    <3> QED  BY <2>2, <3>1, <3>2, <3>3 DEF Allocate
  <2>3. ASSUME NEW t \in Threads, Release(t) PROVE TypeOK'
    <3>1. CASE CallRelease(t)
      BY <3>1 DEF TypeOK, Labels, CallRelease, Goto
    <3>2. CASE CheckFull(t) \/ Recount(t)
      BY <3>2 DEF TypeOK, Labels, CheckFull, Recount, Goto
    <3>3. CASE Insert(t) \/ InsertNoMem(t) \/ Post(t)
      BY <3>3, SemMaxAssumption DEF TypeOK, Labels, Insert, InsertNoMem, Post, Goto
    <3> QED  BY <2>3, <3>1, <3>2, <3>3 DEF Release
  <2> QED  BY <2>1, <2>2, <2>3 DEF Next
<1> QED  BY <1>1, <1>2, PTL DEF Spec
-----------------------------------------------------------------------------
\* Events go for want of memory and in no other way, whatever the number of
\* threads: what fmReleaseEvent ignores of fmEventQueueAdd is that status alone.
THEOREM Conservation == Spec => []EventsConserved
<1> DEFINE Sum == free + out + Back(pc) + lost
<1>a. EventsConserved <=> Sum = MaxEvents
  BY DEF EventsConserved, At, Back, In, Returning
<1>b. EventsConserved' <=> Sum' = MaxEvents
  BY DEF EventsConserved, At, Back, In, Returning
<1>1. Init => EventsConserved
  <2> SUFFICES ASSUME Init PROVE Sum = MaxEvents
    BY <1>a
  <2>1. In(pc, Returning) = {}  BY DEF Init, In, Returning
  <2> QED  BY <2>1, FS_EmptySet, Thresholds DEF Init, Back
<1>2. TypeOK /\ EventsConserved /\ [Next]_vars => EventsConserved'
  <2> SUFFICES ASSUME TypeOK, EventsConserved, [Next]_vars
               PROVE  free' + out' + Back(pc') + lost' = MaxEvents
    BY <1>b
  <2>0. free + out + Back(pc) + lost = MaxEvents  BY <1>a
  <2>n. free \in Nat /\ out \in Nat /\ lost \in Nat /\ Back(pc) \in Nat
    BY InFinite DEF TypeOK, Back
  <2> DEFINE Kept == free' + out' + Back(pc') + lost' = MaxEvents
  <2>1. CASE UNCHANGED vars
    BY <2>1, <2>0 DEF vars, Back
  <2>2. ASSUME NEW t \in Threads, Allocate(t) PROVE Kept
    <3>1. pc[t] \notin Returning /\ \E l \in Labels \ Returning : Goto(t, l)
      BY <2>2 DEF TypeOK, Labels, Returning, Allocate, CallLow, CallHigh,
                  Count, Capture, Wake, TimeOut, Get
    <3>2. Back(pc') = Back(pc)  BY <3>1, GotoCounts
    <3>3. free' + out' = free + out /\ lost' = lost
      BY <2>2, <2>n DEF Allocate, CallLow, CallHigh, Count, Capture, Wake, TimeOut, Get
    <3>4. free' \in Int /\ out' \in Int
      BY <2>2, <2>n DEF Allocate, CallLow, CallHigh, Count, Capture, Wake, TimeOut, Get
    <3> QED  BY <3>2, <3>3, <3>4, <2>0, <2>n
  <2>3. ASSUME NEW t \in Threads, CallRelease(t) PROVE Kept
    <3>1. Back(pc') = Back(pc) + 1
      BY <2>3, GotoCounts DEF Labels, Returning, CallRelease
    <3> QED  BY <3>1, <2>3, <2>0, <2>n DEF CallRelease
  <2>4. ASSUME NEW t \in Threads, CheckFull(t) PROVE Kept
    <3>1. t \in In(pc, Returning)  BY <2>4 DEF CheckFull, In, Returning
    <3>2. Back(pc) # 0  BY <3>1, InFinite, FS_EmptySet DEF Back
    <3>3. free # MaxEvents  BY <3>2, <2>0, <2>n, Thresholds
    <3>4. Back(pc') = Back(pc)
      BY <2>4, <3>3, GotoCounts DEF Labels, Returning, CheckFull
    <3> QED  BY <3>4, <2>4, <2>0 DEF CheckFull
  <2>5. ASSUME NEW t \in Threads, Insert(t) \/ InsertNoMem(t) PROVE Kept
    <3>1. Back(pc') = Back(pc) - 1
      BY <2>5, GotoCounts DEF Labels, Returning, Insert, InsertNoMem
    <3> QED  BY <3>1, <2>5, <2>0, <2>n DEF Insert, InsertNoMem
  <2>6. ASSUME NEW t \in Threads, Recount(t) \/ Post(t) PROVE Kept
    <3>1. Back(pc') = Back(pc)
      BY <2>6, GotoCounts DEF Labels, Returning, Recount, Post
    <3> QED  BY <3>1, <2>6, <2>0 DEF Recount, Post
  <2> QED  BY <2>1, <2>2, <2>3, <2>4, <2>5, <2>6 DEF Next, Release
<1> QED  BY <1>1, <1>2, TypeCorrect, PTL DEF Spec
-----------------------------------------------------------------------------
\* fmReleaseEvent always finds room in the free queue, whoever else is at it:
\* of the statuses of fmEventQueueAdd it ignores, FM_ERR_EVENT_QUEUE_FULL cannot
\* occur, and FM_ERR_NO_MEM alone (InsertNoMem) costs an event.
THEOREM ReleaseFindsRoom ==
  Spec => [](\A t \in Threads : pc[t] \in Returning => free < MaxEvents)
<1>1. TypeOK /\ EventsConserved =>
        \A t \in Threads : pc[t] \in Returning => free < MaxEvents
  <2> SUFFICES ASSUME TypeOK, EventsConserved, NEW t \in Threads, pc[t] \in Returning
               PROVE  free < MaxEvents
    OBVIOUS
  <2>0. t \in In(pc, Returning)  BY DEF In
  <2>1. Back(pc) \in Nat /\ Back(pc) # 0
    BY <2>0, InFinite, FS_EmptySet DEF Back
  <2>2. free + out + Back(pc) + lost = MaxEvents
    BY DEF EventsConserved, At, Back, In, Returning
  <2> QED  BY <2>1, <2>2, Thresholds DEF TypeOK
<1> QED  BY <1>1, TypeCorrect, Conservation, PTL

\* Whoever finds more events missing than are lost knows that somebody has them.
LEMMA MissingEventIsSomewhere ==
  ASSUME TypeOK, EventsConserved, free < MaxEvents - lost
  PROVE  out > 0 \/ \E x \in Threads : pc[x] \in Returning
<1>1. free + out + Back(pc) + lost = MaxEvents  BY DEF EventsConserved, At, Back, In, Returning
<1>2. CASE Back(pc) = 0
  BY <1>1, <1>2, Thresholds DEF TypeOK
<1>3. CASE Back(pc) # 0
  <2>1. In(pc, Returning) # {}  BY <1>3, FS_EmptySet DEF Back
  <2> QED  BY <2>1 DEF In
<1> QED  BY <1>2, <1>3

\* The threads behind the gate, and those that open it or are about to owe it.
Held == {"capture", "blocked"}
Opening == {"put", "insert", "recount", "post", "get"}

LEMMA GateMeaning ==
  GateReopens <=> (MaxEvents - lost > Unblock /\ posts = 0 /\ (\E x \in Threads : pc[x] \in Held)
                   => out > 0 \/ \E y \in Threads : pc[y] \in Opening)
BY DEF GateReopens, At, Held, Opening

\* The gate of the low-priority callers never stays closed on a pool that has
\* its events back, for any thresholds with Block <= Unblock < MaxEvents (why
\* fmEventHandlingInitialize refuses others), until want of memory has taken
\* MaxEvents - Unblock events.
THEOREM GateNeverStuck == Spec => []GateReopens
<1>1. Init => GateReopens
  BY GateMeaning DEF Init
<1>2. TypeOK /\ EventsConserved /\ GateReopens /\ [Next]_vars => GateReopens'
  <2> SUFFICES ASSUME TypeOK, EventsConserved, GateReopens, [Next]_vars,
                      MaxEvents - lost' > Unblock, posts' = 0, NEW h \in Threads, pc'[h] \in Held
               PROVE  out' > 0 \/ \E y \in Threads : pc'[y] \in Opening
    BY DEF GateReopens, At, Held, Opening
  <2> DEFINE Opens == out' > 0 \/ \E y \in Threads : pc'[y] \in Opening
  <2>l. lost \in Nat /\ MaxEvents - lost > Unblock
    <3>1. lost' = lost \/ lost' = lost + 1
      BY DEF Next, vars, Allocate, CallLow, CallHigh, Count, Capture, Wake, TimeOut, Get,
             Release, CallRelease, CheckFull, Insert, InsertNoMem, Recount, Post
    <3> QED  BY <3>1, Thresholds DEF TypeOK
  <2>0. posts = 0 /\ (\E x \in Threads : pc[x] \in Held) =>
          out > 0 \/ \E y \in Threads : pc[y] \in Opening
    BY GateMeaning, <2>l
  <2>m. free < MaxEvents - lost => out > 0 \/ \E x \in Threads : pc[x] \in Returning
    BY MissingEventIsSomewhere
  <2>1. CASE UNCHANGED vars
    BY <2>1, <2>0 DEF vars
  <2>2. ASSUME NEW t \in Threads, Allocate(t) PROVE Opens
    <3>1. CASE CallLow(t) \/ CallHigh(t) \/ TimeOut(t)
      BY <3>1, <2>0 DEF TypeOK, Labels, Held, Opening, CallLow, CallHigh, TimeOut, Goto
    <3>2. CASE Count(t)
      <4>1. CASE free < Block
        <5>1. free < MaxEvents - lost  BY <4>1, <2>l, Thresholds DEF TypeOK
        <5> QED  BY <3>2, <5>1, <2>m DEF TypeOK, Opening, Returning, Count, Goto
      <4>2. CASE ~(free < Block)
        BY <3>2, <4>2 DEF TypeOK, Opening, Count, Goto
      <4> QED  BY <4>1, <4>2
    <3>3. CASE Capture(t)
      <4>1. CASE posts > 0
        BY <3>3, <4>1 DEF TypeOK, Opening, Capture, Goto
      <4>2. CASE posts = 0
        BY <3>3, <4>2, <2>0 DEF TypeOK, Held, Opening, Capture, Goto
      <4> QED  BY <4>1, <4>2 DEF TypeOK
    <3>4. CASE Wake(t)
      BY <3>4 DEF TypeOK, Opening, Wake, Goto
    <3>5. CASE Get(t)
      <4>1. CASE free > 0
        BY <3>5, <4>1 DEF TypeOK, Get
      <4>2. CASE free = 0
        BY <3>5, <4>2, <2>m, <2>l, Thresholds DEF TypeOK, Opening, Returning, Get, Goto
      <4> QED  BY <4>1, <4>2 DEF TypeOK
    <3> QED  BY <2>2, <3>1, <3>2, <3>3, <3>4, <3>5 DEF Allocate
  <2>3. ASSUME NEW t \in Threads, Release(t) PROVE Opens
    <3>1. CASE CallRelease(t) \/ CheckFull(t) \/ Insert(t) \/ InsertNoMem(t)
      BY <3>1 DEF TypeOK, Opening, CallRelease, CheckFull, Insert, InsertNoMem, Goto
    <3>2. CASE Recount(t)
      <4>1. CASE free > Unblock
        BY <3>2, <4>1 DEF TypeOK, Opening, Recount, Goto
      <4>2. CASE ~(free > Unblock)
        <5>1. free < MaxEvents - lost  BY <4>2, <2>l, Thresholds DEF TypeOK
        <5> QED  BY <3>2, <5>1, <2>m DEF TypeOK, Opening, Returning, Recount, Goto
      <4> QED  BY <4>1, <4>2
    <3>3. CASE Post(t)
      BY <3>3, SemMaxAssumption DEF TypeOK, Post
    <3> QED  BY <2>3, <3>1, <3>2, <3>3 DEF Release
  <2> QED  BY <2>1, <2>2, <2>3 DEF Next
<1> QED  BY <1>1, <1>2, TypeCorrect, Conservation, PTL DEF Spec
=============================================================================
