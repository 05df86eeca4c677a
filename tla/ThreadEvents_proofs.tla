------------------------- MODULE ThreadEvents_proofs ------------------------
(***************************************************************************)
(* Proofs about ThreadEvents, for any events, any senders, any size of the *)
(* queue and any timeouts.                                                 *)
(***************************************************************************)
EXTENDS ThreadEvents, SequenceTheorems, TLAPS

\* The three updates of a queue give a queue.
LEMMA QueueUpdates ==
  ASSUME NEW E, NEW q \in QueueOf(E)
  PROVE  /\ \A e \in E : InsertEnd(q, e) \in QueueOf(E)
         /\ q.list # << >> => RemoveHead(q) \in QueueOf(E) /\ Head(q.list) \in E
         /\ \A i \in 1..Len(q.list) : RemoveNode(q, i) \in QueueOf(E) /\ q.list[i] \in E
<1>1. q.list \in Seq(E) /\ q.size \in Int /\ q.linked \in SUBSET E  BY DEF QueueOf
<1>2. \A e \in E : InsertEnd(q, e) \in QueueOf(E)
  BY <1>1 DEF QueueOf, InsertEnd
<1>3. q.list # << >> => RemoveHead(q) \in QueueOf(E) /\ Head(q.list) \in E
  BY <1>1 DEF QueueOf, RemoveHead
<1>4. ASSUME NEW i \in 1..Len(q.list)
      PROVE  RemoveNode(q, i) \in QueueOf(E) /\ q.list[i] \in E
  <2>1. /\ SubSeq(q.list, 1, i - 1) \in Seq(E)
        /\ SubSeq(q.list, i + 1, Len(q.list)) \in Seq(E)
    BY <1>1, <1>4
  <2>2. SubSeq(q.list, 1, i - 1) \o SubSeq(q.list, i + 1, Len(q.list)) \in Seq(E)
    BY <2>1
  <2> QED  BY <1>1, <2>2 DEF QueueOf, RemoveNode
<1> QED  BY <1>2, <1>3, <1>4

\* What a sender and the handler hold while they hold something: the type
\* invariant is inductive with it.
Holding ==
  /\ \A s \in Senders : sent[s] # NoEvent <=> spc[s] \in {"check", "add"}
  /\ event # NoEvent <=> hpc = "handle"

TypeInv == TypeOK /\ Holding
-----------------------------------------------------------------------------
LEMMA TypeInvInit == Init => TypeInv
BY NoEventIsNoEvent DEF Init, TypeInv, TypeOK, Holding, EmptyQueue, QueueOf, Forever

LEMMA TypeInvStep == TypeInv /\ [Next]_vars => TypeInv'
<1> SUFFICES ASSUME TypeInv, [Next]_vars PROVE TypeInv'
  OBVIOUS
<1> USE DEF TypeInv
<1>q. queue \in QueueOf(Events)  BY DEF TypeOK
<1>1. CASE UNCHANGED vars
  BY <1>1 DEF vars, TypeOK, Holding
<1>2. ASSUME NEW s \in Senders, Begin(s) PROVE TypeInv'
  BY <1>2, NoEventIsNoEvent DEF Begin, TypeOK, Holding, handlerVars
<1>3. ASSUME NEW s \in Senders, Send(s) PROVE TypeInv'
  <2>1. CASE CheckFull(s) \/ AddNoMem(s)
    BY <2>1 DEF CheckFull, AddNoMem, Fail, TypeOK, Holding, handlerVars
  <2>2. CASE CheckRoom(s)
    BY <2>2 DEF CheckRoom, TypeOK, Holding, handlerVars
  <2>3. CASE Add(s)
    <3>1. sent[s] \in Events  BY <2>3 DEF Add, TypeOK, Holding
    <3>2. queue' \in QueueOf(Events)  BY <3>1, <2>3, <1>q, QueueUpdates DEF Add
    <3> QED  BY <2>3, <3>2 DEF Add, TypeOK, Holding, handlerVars
  <2>4. CASE Signal(s)
    BY <2>4 DEF Signal, WakeHandler, TypeOK, Holding
  <2> QED  BY <1>3, <2>1, <2>2, <2>3, <2>4 DEF Send
<1>4. CASE SignalHandler
  BY <1>4 DEF SignalHandler, WakeHandler, TypeOK, Holding, senderVars
<1>5. CASE Withdraw
  <2>1. PICK i \in 1..Len(queue.list) :
          /\ queue' = RemoveNode(queue, i)
          /\ free' = free \cup {queue.list[i]}
    BY <1>5 DEF Withdraw
  <2>2. queue' \in QueueOf(Events) /\ queue.list[i] \in Events
    BY <2>1, <1>q, QueueUpdates
  <2> QED  BY <1>5, <2>1, <2>2 DEF Withdraw, TypeOK, Holding, senderVars, handlerVars
<1>t. ASSUME Take PROVE TypeInv'
  <2>1. queue' \in QueueOf(Events) /\ event' \in Events
    BY <1>t, <1>q, QueueUpdates DEF Take
  <2> QED  BY <1>t, <2>1, NoEventIsNoEvent DEF Take, TypeOK, Holding, senderVars
<1>g. ASSUME GiveUp, hpc \in {"get", "getAgain"} PROVE TypeInv'
  BY <1>g DEF GiveUp, TypeOK, Holding, senderVars
<1>6. CASE Receive
  <2>1. CASE Call \/ LockWaiter \/ CondWait \/ UnlockWaiter
    BY <2>1, TimeoutKinds
       DEF Call, LockWaiter, CondWait, UnlockWaiter, TypeOK, Holding, senderVars
  <2>2. CASE Get
    <3>1. CASE hpc' = "sleep" /\ UNCHANGED <<queue, free, senderVars, timeout, event, status>>
      BY <2>2, <3>1 DEF Get, TypeOK, Holding, senderVars
    <3> QED  BY <2>2, <3>1, <1>t, <1>g DEF Get
  <2>3. CASE GetAgain
    BY <2>3, <1>t, <1>g DEF GetAgain
  <2>4. CASE Finish
    BY <2>4 DEF Finish, TypeOK, Holding, senderVars
  <2> QED  BY <1>6, <2>1, <2>2, <2>3, <2>4 DEF Receive
<1>7. CASE WakeUnsignalled
  BY <1>7 DEF WakeUnsignalled, TypeOK, Holding, senderVars
<1> QED  BY <1>1, <1>2, <1>3, <1>4, <1>5, <1>6, <1>7 DEF Next

LEMMA TypeInvAlways == Spec => []TypeInv
BY TypeInvInit, TypeInvStep, PTL DEF Spec

\* Every state has its type: in particular what is queued, released or handled
\* is an event, never a NULL pointer.
THEOREM TypeCorrect == Spec => []TypeOK
BY TypeInvAlways, PTL DEF TypeInv
-----------------------------------------------------------------------------
\* The handler never sleeps on an event nobody is going to signal, for any number
\* of senders: fmGetThreadEvent holds the waiter mutex from its test of the queue
\* to its wait, and fmSendThreadEvent signals after it has added.
THEOREM WakeupNotLost == Spec => []NoLostWakeup
<1>1. Init => NoLostWakeup
  BY DEF Init, NoLostWakeup
<1>2. TypeInv /\ NoLostWakeup /\ [Next]_vars => NoLostWakeup'
  <2> SUFFICES ASSUME TypeInv, NoLostWakeup, [Next]_vars PROVE NoLostWakeup'
    OBVIOUS
  <2> USE DEF TypeInv
  <2>1. CASE UNCHANGED vars
    BY <2>1 DEF vars, NoLostWakeup
  <2>2. ASSUME NEW s \in Senders, Begin(s) PROVE NoLostWakeup'
    BY <2>2 DEF Begin, TypeOK, NoLostWakeup, handlerVars
  <2>3. ASSUME NEW s \in Senders, Send(s) PROVE NoLostWakeup'
    <3>1. CASE CheckFull(s) \/ AddNoMem(s)
      BY <3>1 DEF CheckFull, AddNoMem, Fail, TypeOK, NoLostWakeup, handlerVars
    <3>2. CASE CheckRoom(s)
      BY <3>2 DEF CheckRoom, TypeOK, NoLostWakeup, handlerVars
    <3>3. CASE Add(s)
      BY <3>3 DEF Add, TypeOK, NoLostWakeup
    <3>4. CASE Signal(s)
      BY <3>4 DEF Signal, WaiterFree, WakeHandler, NoLostWakeup
    <3> QED  BY <2>3, <3>1, <3>2, <3>3, <3>4 DEF Send
  <2>4. CASE SignalHandler
    BY <2>4 DEF SignalHandler, WaiterFree, WakeHandler, NoLostWakeup
  <2>5. CASE Withdraw
    <3>1. queue.list # << >>  BY <2>5 DEF Withdraw
    <3> QED  BY <3>1, <2>5 DEF Withdraw, NoLostWakeup, senderVars, handlerVars
  <2>6. CASE Receive
    <3>1. CASE Call \/ LockWaiter \/ UnlockWaiter \/ Finish
      BY <3>1 DEF Call, LockWaiter, UnlockWaiter, Finish, NoLostWakeup
    <3>2. CASE Get
      BY <3>2 DEF Get, Take, GiveUp, NoLostWakeup
    <3>3. CASE GetAgain
      BY <3>3 DEF GetAgain, Take, GiveUp, NoLostWakeup
    <3>4. CASE CondWait
      BY <3>4 DEF CondWait, NoLostWakeup, senderVars
    <3> QED  BY <2>6, <3>1, <3>2, <3>3, <3>4 DEF Receive
  <2>7. CASE WakeUnsignalled
    BY <2>7 DEF WakeUnsignalled, NoLostWakeup
  <2> QED  BY <2>1, <2>2, <2>3, <2>4, <2>5, <2>6, <2>7 DEF Next
<1> QED  BY <1>1, <1>2, TypeInvAlways, PTL DEF Spec
-----------------------------------------------------------------------------
Elements(q) == {q.list[i] : i \in 1..Len(q.list)}

\* fmEventQueueAdd of an event that is not in the queue keeps list, counter and
\* back pointers in agreement.
LEMMA InsertCoherent ==
  ASSUME NEW E, NEW q \in QueueOf(E), Coherent(q), NEW e \in E, e \notin Elements(q)
  PROVE  /\ Coherent(InsertEnd(q, e))
         /\ Elements(InsertEnd(q, e)) = Elements(q) \cup {e}
<1> DEFINE n == Len(q.list)  r == InsertEnd(q, e)
<1>1. q.list \in Seq(E) /\ n \in Nat  BY DEF QueueOf
<1>2. /\ r.list = Append(q.list, e) /\ r.size = q.size + 1 /\ r.linked = q.linked \cup {e}
  BY DEF InsertEnd
<1>3. /\ Len(r.list) = n + 1 /\ r.list[n + 1] = e
      /\ \A i \in 1..n : r.list[i] = q.list[i]
  BY <1>1, <1>2
<1>4. 1..(n + 1) = 1..n \cup {n + 1}  BY <1>1
<1> HIDE DEF n, r
<1>5. Elements(r) = {r.list[i] : i \in 1..n} \cup {e}
  BY <1>3, <1>4 DEF Elements
<1>6. {r.list[i] : i \in 1..n} = {q.list[i] : i \in 1..n}
  BY <1>3
<1>7. Elements(q) = {q.list[i] : i \in 1..n}  BY DEF Elements, n
<1>8. \A i, j \in 1..(n + 1) : r.list[i] = r.list[j] => i = j
  <2>1. \A i \in 1..n : q.list[i] # e  BY <1>7
  <2>2. \A i, j \in 1..n : q.list[i] = q.list[j] => i = j  BY DEF Coherent, n
  <2> QED  BY <1>3, <1>4, <2>1, <2>2
<1>9. r.size = n + 1 /\ r.linked = Elements(r)
  BY <1>2, <1>5, <1>6, <1>7 DEF Coherent, Elements, n
<1> QED  BY <1>3, <1>5, <1>6, <1>7, <1>8, <1>9 DEF Coherent, Elements, r

\* The queue r is q without its k-th event.
Without(r, q, k) ==
  /\ r.size = q.size - 1
  /\ r.linked = q.linked \ {q.list[k]}
  /\ Len(r.list) = Len(q.list) - 1
  /\ \A i \in 1..(Len(q.list) - 1) : r.list[i] = q.list[IF i < k THEN i ELSE i + 1]

\* So do fmEventQueueGet and fmEventQueueRemove, whichever event they take.
LEMMA RemoveCoherent ==
  ASSUME NEW E, NEW q \in QueueOf(E), Coherent(q), NEW k \in 1..Len(q.list), NEW r,
         Without(r, q, k)
  PROVE  /\ Coherent(r)
         /\ Elements(r) = Elements(q) \ {q.list[k]}
<1> USE DEF Without
<1> DEFINE n == Len(q.list)  from(i) == IF i < k THEN i ELSE i + 1
<1>1. n \in Nat /\ k \in Nat  BY DEF QueueOf
<1>2. \A i, j \in 1..n : q.list[i] = q.list[j] => i = j  BY DEF Coherent
<1>3. \A i \in 1..(n - 1) : from(i) \in (1..n) \ {k} /\ r.list[i] = q.list[from(i)]
  BY <1>1
<1>4. \A m \in (1..n) \ {k} : \E i \in 1..(n - 1) : m = from(i)
  <2> TAKE m \in (1..n) \ {k}
  <2>1. CASE m < k
    <3>1. m \in 1..(n - 1) /\ m = from(m)  BY <1>1, <2>1
    <3> QED  BY <3>1
  <2>2. CASE m > k
    <3>1. m - 1 \in 1..(n - 1) /\ m = from(m - 1)  BY <1>1, <2>2
    <3> QED  BY <3>1
  <2> QED  BY <1>1, <2>1, <2>2
<1>5. \A i, j \in 1..(n - 1) : from(i) = from(j) => i = j  BY <1>1
<1> HIDE DEF from
<1>6. ASSUME NEW i \in 1..(n - 1), NEW j \in 1..(n - 1), r.list[i] = r.list[j]
      PROVE  i = j
  <2>1. q.list[from(i)] = q.list[from(j)] /\ from(i) \in 1..n /\ from(j) \in 1..n
    BY <1>3, <1>6
  <2>2. from(i) = from(j)  BY <1>2, <2>1
  <2> QED  BY <1>5, <2>2
<1>7. Elements(r) \subseteq Elements(q) \ {q.list[k]}
  <2> SUFFICES ASSUME NEW i \in 1..(n - 1)
               PROVE  r.list[i] \in Elements(q) \ {q.list[k]}
    BY DEF Elements
  <2>1. from(i) \in 1..n /\ from(i) # k /\ r.list[i] = q.list[from(i)]  BY <1>3
  <2>2. q.list[from(i)] # q.list[k]  BY <1>2, <2>1
  <2> QED  BY <2>1, <2>2 DEF Elements
<1>8. Elements(q) \ {q.list[k]} \subseteq Elements(r)
  <2> SUFFICES ASSUME NEW m \in 1..n, q.list[m] # q.list[k] PROVE q.list[m] \in Elements(r)
    BY DEF Elements
  <2>1. PICK i \in 1..(n - 1) : m = from(i)  BY <1>4
  <2>2. r.list[i] = q.list[m]  BY <1>3, <2>1
  <2> QED  BY <2>2 DEF Elements
<1> QED  BY <1>6, <1>7, <1>8 DEF Coherent, Elements

LEMMA RemoveHeadCoherent ==
  ASSUME NEW E, NEW q \in QueueOf(E), Coherent(q), q.list # << >>
  PROVE  /\ Coherent(RemoveHead(q))
         /\ Elements(RemoveHead(q)) = Elements(q) \ {Head(q.list)}
         /\ Head(q.list) \in Elements(q)
<1> DEFINE r == RemoveHead(q)
<1>1. q.list \in Seq(E)  BY DEF QueueOf
<1>2. 1 \in 1..Len(q.list) /\ Head(q.list) = q.list[1]  BY <1>1
<1>3. /\ r.list = Tail(q.list) /\ r.size = q.size - 1
      /\ r.linked = q.linked \ {q.list[1]}
  BY <1>2 DEF RemoveHead
<1>4. /\ r.list \in Seq(E) /\ Len(r.list) = Len(q.list) - 1
      /\ \A i \in 1..(Len(q.list) - 1) : r.list[i] = q.list[IF i < 1 THEN i ELSE i + 1]
  BY <1>1, <1>2, <1>3
<1> HIDE DEF r
<1>5. Without(r, q, 1)  BY <1>3, <1>4 DEF Without
<1>6. Coherent(r) /\ Elements(r) = Elements(q) \ {q.list[1]}
  BY <1>2, <1>5, RemoveCoherent
<1> QED  BY <1>2, <1>6 DEF r, Elements

LEMMA RemoveNodeCoherent ==
  ASSUME NEW E, NEW q \in QueueOf(E), Coherent(q), NEW k \in 1..Len(q.list)
  PROVE  /\ Coherent(RemoveNode(q, k))
         /\ Elements(RemoveNode(q, k)) = Elements(q) \ {q.list[k]}
         /\ q.list[k] \in Elements(q)
<1> DEFINE r == RemoveNode(q, k)  n == Len(q.list)
           a == SubSeq(q.list, 1, k - 1)  b == SubSeq(q.list, k + 1, n)
<1>1. q.list \in Seq(E) /\ n \in Nat /\ k \in 1..n  BY DEF QueueOf
<1>2. /\ r.list = a \o b /\ r.size = q.size - 1 /\ r.linked = q.linked \ {q.list[k]}
  BY DEF RemoveNode
<1>3. a \in Seq(E) /\ Len(a) = k - 1 /\ \A i \in 1..(k - 1) : a[i] = q.list[i]
  BY <1>1
<1>4. b \in Seq(E) /\ Len(b) = n - k /\ \A i \in 1..(n - k) : b[i] = q.list[k + i]
  BY <1>1
<1> HIDE DEF a, b, r
<1>5. Len(r.list) = n - 1
  <2>1. Len(a \o b) = Len(a) + Len(b)  BY <1>3, <1>4, ConcatProperties
  <2> QED  BY <1>1, <1>2, <1>3, <1>4, <2>1
<1>6. ASSUME NEW i \in 1..(n - 1)
      PROVE  r.list[i] = q.list[IF i < k THEN i ELSE i + 1]
  <2>1. r.list[i] = IF i <= k - 1 THEN a[i] ELSE b[i - (k - 1)]
    BY <1>1, <1>2, <1>3, <1>4
  <2>2. CASE i < k
    BY <1>1, <1>3, <2>1, <2>2
  <2>3. CASE i >= k
    <3>1. i - (k - 1) \in 1..(n - k) /\ k + (i - (k - 1)) = i + 1  BY <1>1, <2>3
    <3> QED  BY <1>1, <1>4, <2>1, <2>3, <3>1
  <2> QED  BY <1>1, <2>2, <2>3
<1>7. Without(r, q, k)  BY <1>2, <1>5, <1>6 DEF Without
<1>8. Coherent(r) /\ Elements(r) = Elements(q) \ {q.list[k]}
  BY <1>7, RemoveCoherent
<1> QED  BY <1>8 DEF r, Elements
-----------------------------------------------------------------------------
\* OneOwner event by event, which is how the steps below change it.
Owners ==
  /\ \A e \in Events : \/ e \in free \/ e \in Queued \/ e = event
                        \/ \E s \in Senders : sent[s] = e
  /\ free \cap Queued = {}
  /\ event \notin free \cup Queued
  /\ \A s \in Senders : sent[s] # NoEvent =>
       /\ sent[s] \notin free \cup Queued /\ sent[s] # event
       /\ \A t \in Senders : sent[t] = sent[s] => t = s

OwnerInv == TypeInv /\ Coherent(queue) /\ Owners

LEMMA QueuedEvents == TypeOK => Queued \subseteq Events
<1> SUFFICES ASSUME TypeOK PROVE Queued \subseteq Events  OBVIOUS
<1>1. queue.list \in Seq(Events)  BY DEF TypeOK, QueueOf
<1> QED  BY <1>1 DEF Queued

LEMMA OwnersSuffice == OwnerInv => OneOwner
<1> SUFFICES ASSUME OwnerInv PROVE OneOwner  OBVIOUS
<1> USE DEF OwnerInv, TypeInv
<1>1. /\ free \subseteq Events /\ Queued \subseteq Events
      /\ event \in Events \cup {NoEvent}
      /\ \A s \in Senders : sent[s] \in Events \cup {NoEvent}
  BY QueuedEvents DEF TypeOK
<1>2. Events = free \cup Queued \cup ({event} \ {NoEvent})
               \cup UNION {InFlight(s) : s \in Senders}
  <2>1. ASSUME NEW e \in Events
        PROVE  e \in free \cup Queued \cup ({event} \ {NoEvent})
                     \cup UNION {InFlight(s) : s \in Senders}
    <3>1. e # NoEvent  BY NoEventIsNoEvent
    <3>2. CASE \E s \in Senders : sent[s] = e
      <4>1. PICK s \in Senders : sent[s] = e  BY <3>2
      <4>2. e \in InFlight(s)  BY <3>1, <4>1 DEF InFlight
      <4> QED  BY <4>2
    <3> QED  BY <3>1, <3>2 DEF Owners
  <2>2. ASSUME NEW s \in Senders PROVE InFlight(s) \subseteq Events
    BY <1>1 DEF InFlight
  <2> QED  BY <1>1, <2>1, <2>2
<1>3. ASSUME NEW s \in Senders
      PROVE  /\ InFlight(s) \cap (free \cup Queued \cup {event}) = {}
             /\ \A t \in Senders \ {s} : InFlight(s) \cap InFlight(t) = {}
  BY DEF InFlight, Owners
<1> QED  BY <1>2, <1>3 DEF Owners, OneOwner

LEMMA OwnerInit == Init => OwnerInv
<1> SUFFICES ASSUME Init PROVE OwnerInv  OBVIOUS
<1>1. queue.list = << >> /\ queue.size = 0 /\ queue.linked = {}
  BY DEF Init, EmptyQueue
<1>2. Queued = {} /\ Coherent(queue)
  BY <1>1 DEF Queued, Coherent
<1> QED  BY <1>2, TypeInvInit, NoEventIsNoEvent DEF Init, OwnerInv, Owners

LEMMA OwnerStep == OwnerInv /\ [Next]_vars => OwnerInv'
<1> SUFFICES ASSUME OwnerInv, [Next]_vars PROVE Coherent(queue') /\ Owners'
  BY TypeInvStep DEF OwnerInv
<1> USE DEF OwnerInv, TypeInv
<1>t. TypeInv /\ TypeInv'  BY TypeInvStep
<1>q. queue \in QueueOf(Events) /\ Queued = Elements(queue) /\ Queued' = Elements(queue')
  BY DEF TypeOK, Queued, Elements
<1>h. Queued \subseteq Events  BY QueuedEvents
<1>1. CASE UNCHANGED <<queue, free, sent, event>>
  BY <1>1, <1>q DEF Owners
<1>2. ASSUME NEW s \in Senders, Begin(s) PROVE Coherent(queue') /\ Owners'
  <2>1. PICK e \in free : free' = free \ {e} /\ sent' = [sent EXCEPT ![s] = e]
    BY <1>2 DEF Begin
  <2>2. sent[s] = NoEvent /\ queue' = queue /\ event' = event
    BY <1>2 DEF Begin, Holding, handlerVars
  <2>3. sent'[s] = e /\ \A t \in Senders \ {s} : sent'[t] = sent[t]
    BY <2>1 DEF TypeOK
  <2>4. e \notin Queued /\ e # event /\ e # NoEvent
    BY <2>1, NoEventIsNoEvent DEF Owners, TypeOK
  <2>5. \A t \in Senders : sent[t] # e
    BY <2>1, <2>4 DEF Owners
  <2> QED  BY <1>q, <2>1, <2>2, <2>3, <2>4, <2>5, NoEventIsNoEvent DEF Owners
<1>f. ASSUME NEW s \in Senders, Fail(s), spc[s] \in {"check", "add"}
      PROVE  Coherent(queue') /\ Owners'
  <2>1. sent[s] # NoEvent /\ queue' = queue /\ event' = event /\ free' = free \cup {sent[s]}
    BY <1>f DEF Fail, Holding, handlerVars
  <2>2. sent'[s] = NoEvent /\ \A t \in Senders \ {s} : sent'[t] = sent[t]
    BY <1>f DEF Fail, TypeOK
  <2> QED  BY <1>q, <2>1, <2>2 DEF Owners
<1>3. ASSUME NEW s \in Senders, Send(s) PROVE Coherent(queue') /\ Owners'
  <2>1. CASE CheckFull(s) \/ AddNoMem(s)
    BY <2>1, <1>f DEF CheckFull, AddNoMem
  <2>2. CASE CheckRoom(s) \/ Signal(s)
    BY <2>2, <1>1 DEF CheckRoom, Signal, handlerVars
  <2>3. CASE Add(s)
    <3>1. sent[s] \in Events /\ sent[s] # NoEvent /\ sent[s] \notin Queued
      BY <2>3 DEF Add, Holding, TypeOK, Owners
    <3>2. queue' = InsertEnd(queue, sent[s]) /\ event' = event /\ free' = free
      BY <2>3 DEF Add, handlerVars
    <3>3. Coherent(queue') /\ Queued' = Queued \cup {sent[s]}
      BY <1>q, <3>1, <3>2, InsertCoherent
    <3>4. sent'[s] = NoEvent /\ \A t \in Senders \ {s} : sent'[t] = sent[t]
      BY <2>3 DEF Add, TypeOK
    <3> QED  BY <3>1, <3>2, <3>3, <3>4 DEF Owners
  <2> QED  BY <1>3, <2>1, <2>2, <2>3 DEF Send
<1>4. CASE Withdraw
  <2>1. PICK i \in 1..Len(queue.list) :
          queue' = RemoveNode(queue, i) /\ free' = free \cup {queue.list[i]}
    BY <1>4 DEF Withdraw
  <2>2. sent' = sent /\ event' = event  BY <1>4 DEF Withdraw, senderVars, handlerVars
  <2>3. /\ Coherent(queue') /\ Queued' = Queued \ {queue.list[i]}
        /\ queue.list[i] \in Queued
    BY <1>q, <2>1, RemoveNodeCoherent
  <2> QED  BY <2>1, <2>2, <2>3 DEF Owners
<1>k. ASSUME Take, hpc # "handle" PROVE Coherent(queue') /\ Owners'
  <2>1. /\ queue.list # << >> /\ queue' = RemoveHead(queue) /\ event' = Head(queue.list)
        /\ free' = free /\ sent' = sent
    BY <1>k DEF Take, senderVars
  <2>2. event = NoEvent  BY <1>k DEF Holding
  <2>3. /\ Coherent(queue') /\ Queued' = Queued \ {event'} /\ event' \in Queued
    BY <1>q, <2>1, RemoveHeadCoherent
  <2> QED  BY <2>1, <2>2, <2>3, <1>h, NoEventIsNoEvent DEF Owners
<1>5. CASE Receive
  <2>1. CASE Call \/ LockWaiter \/ CondWait \/ UnlockWaiter
    BY <2>1, <1>1 DEF Call, LockWaiter, CondWait, UnlockWaiter, senderVars
  <2>2. CASE Get \/ GetAgain
    <3>1. hpc # "handle"  BY <2>2 DEF Get, GetAgain
    <3>2. CASE Take
      BY <3>1, <3>2, <1>k
    <3>3. CASE ~Take
      BY <2>2, <3>3, <1>1 DEF Get, GetAgain, GiveUp, senderVars
    <3> QED  BY <3>2, <3>3
  <2>3. CASE Finish
    <3>1. /\ free' = free \cup {event} /\ event' = NoEvent /\ queue' = queue /\ sent' = sent
          /\ event # NoEvent
      BY <2>3 DEF Finish, senderVars, Holding
    <3>2. NoEvent \notin free' \cup Queued
      BY <3>1, <1>h, <1>t, NoEventIsNoEvent DEF TypeOK
    <3> QED  BY <1>q, <3>1, <3>2 DEF Owners
  <2> QED  BY <1>5, <2>1, <2>2, <2>3 DEF Receive
<1>6. CASE SignalHandler \/ WakeUnsignalled
  BY <1>6, <1>1 DEF SignalHandler, WakeUnsignalled, senderVars
<1> QED  BY <1>1, <1>2, <1>3, <1>4, <1>5, <1>6 DEF Next, vars

LEMMA OwnerAlways == Spec => []OwnerInv
BY OwnerInit, OwnerStep, PTL DEF Spec

\* List, counter and back pointers never disagree, whatever senders overfill or
\* withdraw.
THEOREM QueueAlwaysCoherent == Spec => []QueueCoherent
<1>1. OwnerInv => QueueCoherent  BY DEF OwnerInv, QueueCoherent
<1> QED  BY <1>1, OwnerAlways, PTL

\* Every event is in exactly one place, for any number of senders and events: none
\* is lost, queued twice, or released while somebody has it.
THEOREM EveryEventHasOneOwner == Spec => []OneOwner
BY OwnersSuffice, OwnerAlways, PTL
-----------------------------------------------------------------------------
\* Each step of the threads is a step of the channel, or none: an event is added
\* behind all others while nobody else has it, handled in its turn by a handler
\* with empty hands, and withdrawn only from the queue.
LEMMA StepImplements == OwnerInv /\ [Next]_vars => [Channel!Next]_Channel!vars
<1> SUFFICES ASSUME OwnerInv, [Next]_vars PROVE [Channel!Next]_Channel!vars
  OBVIOUS
<1> USE DEF OwnerInv, TypeInv, Channel!vars
<1>q. queue \in QueueOf(Events)  BY DEF TypeOK
<1>1. CASE UNCHANGED <<queue, event>>
  BY <1>1
<1>2. ASSUME NEW s \in Senders, Send(s) PROVE [Channel!Next]_Channel!vars
  <2>1. CASE Add(s)
    <3>1. queue' = InsertEnd(queue, sent[s]) /\ event' = event
      BY <2>1 DEF Add, handlerVars
    <3>2. sent[s] # NoEvent /\ sent[s] \in Events
      BY <2>1 DEF Add, Holding, TypeOK
    <3>3. sent[s] # event /\ sent[s] \notin Queued
      BY <3>2 DEF Owners
    <3>4. queue'.list = Append(queue.list, sent[s])
      BY <3>1 DEF InsertEnd
    <3>5. Channel!Send
      BY <3>1, <3>2, <3>3, <3>4 DEF Channel!Send, Queued
    <3> QED  BY <3>5 DEF Channel!Next
  <2>2. CASE ~Add(s)
    BY <1>1, <1>2, <2>2
       DEF Send, CheckFull, CheckRoom, AddNoMem, Fail, Signal, handlerVars
  <2> QED  BY <2>1, <2>2
<1>3. CASE Withdraw
  <2>1. PICK i \in 1..Len(queue.list) : queue' = RemoveNode(queue, i)
    BY <1>3 DEF Withdraw
  <2>2. event' = event  BY <1>3 DEF Withdraw, handlerVars
  <2>3. queue'.list = SubSeq(queue.list, 1, i - 1) \o
                      SubSeq(queue.list, i + 1, Len(queue.list))
    BY <2>1 DEF RemoveNode
  <2>4. Channel!Withdraw  BY <2>2, <2>3 DEF Channel!Withdraw
  <2> QED  BY <2>4 DEF Channel!Next
<1>4. ASSUME Take, hpc # "handle" PROVE [Channel!Next]_Channel!vars
  <2>1. queue.list # << >> /\ event' = Head(queue.list) /\ queue'.list = Tail(queue.list)
    BY <1>4 DEF Take, RemoveHead
  <2>2. event = NoEvent  BY <1>4 DEF Holding
  <2>3. Channel!Deliver  BY <2>1, <2>2 DEF Channel!Deliver
  <2> QED  BY <2>3 DEF Channel!Next
<1>5. CASE Receive
  <2>1. CASE Finish
    <3>1. Channel!Finish  BY <2>1 DEF Finish, Holding, Channel!Finish
    <3> QED  BY <3>1 DEF Channel!Next
  <2>2. CASE Take /\ hpc # "handle"
    BY <2>2, <1>4
  <2>3. CASE ~Finish /\ ~(Take /\ hpc # "handle")
    BY <1>1, <1>5, <2>3
       DEF Receive, Call, LockWaiter, Get, GetAgain, GiveUp, CondWait, UnlockWaiter
  <2> QED  BY <2>1, <2>2, <2>3
<1>6. ASSUME NEW s \in Senders, Begin(s) PROVE [Channel!Next]_Channel!vars
  BY <1>1, <1>6 DEF Begin, handlerVars
<1>7. CASE SignalHandler \/ WakeUnsignalled \/ UNCHANGED vars
  BY <1>1, <1>7 DEF SignalHandler, WakeUnsignalled, vars
<1> QED  BY <1>2, <1>3, <1>5, <1>6, <1>7 DEF Next

\* The queue between threads is a first-in first-out channel that neither loses nor
\* repeats an event, for any number of senders: the part of ImplementsChannel that
\* says what may happen.
THEOREM ChannelSafety == Spec => Channel!Safety
<1>1. Init => Channel!Init
  BY DEF Init, EmptyQueue, Channel!Init
<1> QED  BY <1>1, StepImplements, OwnerAlways, PTL DEF Spec, Channel!Safety
=============================================================================
