------------------------- MODULE EventDispatch_proofs -------------------------
(***************************************************************************)
(* Theorems about EventDispatch, for any processes and bounds.  Events are *)
(* counted where they are, in a queue or in somebody's hands; every step   *)
(* moves one, takes one from the pool or gives one back.                   *)
(***************************************************************************)
EXTENDS EventDispatch, FiniteSetTheorems, SequenceTheorems, TLAPS

-----------------------------------------------------------------------------
(* Counting the elements of a sequence *)

\* A number of elements is a natural number.
LEMMA SeqCountType ==
  ASSUME NEW T, NEW s \in Seq(T), NEW S
  PROVE  /\ SeqCount(s, S) \in Nat
         /\ SeqCount(s, S) = 0 <=> \A i \in 1..Len(s) : s[i] \notin S
<1> DEFINE here == {i \in 1..Len(s) : s[i] \in S}
<1>1. Len(s) \in Nat  BY LenProperties
<1>2. IsFiniteSet(1..Len(s))  BY <1>1, FS_Interval
<1>3. IsFiniteSet(here)  BY <1>2, FS_Subset
<1>4. Cardinality(here) \in Nat /\ (Cardinality(here) = 0 <=> here = {})
  BY <1>3, FS_CardinalityType, FS_EmptySet
<1>5. SeqCount(s, S) = Cardinality(here)  BY DEF SeqCount
<1> QED  BY <1>4, <1>5

\* All of them, if every element is one of S.
LEMMA SeqCountAll ==
  ASSUME NEW S, NEW s \in Seq(S)
  PROVE  SeqCount(s, S) = Len(s)
<1>1. Len(s) \in Nat /\ \A i \in 1..Len(s) : s[i] \in S  BY LenProperties, ElementOfSeq
<1>2. {i \in 1..Len(s) : s[i] \in S} = 1..Len(s)  BY <1>1
<1>3. Cardinality(1..Len(s)) = IF 1 > Len(s) THEN 0 ELSE Len(s) - 1 + 1  BY <1>1, FS_Interval
<1> QED  BY <1>1, <1>2, <1>3 DEF SeqCount

LEMMA EmptyCount == ASSUME NEW S PROVE SeqCount(<< >>, S) = 0
<1>1. {i \in 1..Len(<< >>) : << >>[i] \in S} = {}  BY EmptySeq
<1> QED  BY <1>1, FS_EmptySet DEF SeqCount

\* One element more at the end.
LEMMA SeqCountAppend ==
  ASSUME NEW T, NEW s \in Seq(T), NEW e \in T, NEW S
  PROVE  SeqCount(Append(s, e), S) = SeqCount(s, S) + One(e, S)
<1> DEFINE n == Len(s)
           here == {i \in 1..n : s[i] \in S}
           then == {i \in 1..n + 1 : Append(s, e)[i] \in S}
<1>1. n \in Nat  BY LenProperties
<1>2. /\ Len(Append(s, e)) = n + 1
      /\ \A i \in 1..n : Append(s, e)[i] = s[i]
      /\ Append(s, e)[n + 1] = e
  BY AppendProperties
<1>3. SeqCount(s, S) = Cardinality(here) /\ SeqCount(Append(s, e), S) = Cardinality(then)
  BY <1>2 DEF SeqCount
<1>4. IsFiniteSet(here)
  <2>1. IsFiniteSet(1..n)  BY <1>1, FS_Interval
  <2> QED  BY <2>1, FS_Subset
<1> HIDE DEF n
<1>5. CASE e \in S
  <2>1. then = here \cup {n + 1}  BY <1>1, <1>2, <1>5
  <2>2. n + 1 \notin here  BY <1>1
  <2>3. Cardinality(then) = Cardinality(here) + 1  BY <1>4, <2>1, <2>2, FS_AddElement
  <2> QED  BY <1>3, <1>5, <2>3 DEF One
<1>6. CASE e \notin S
  <2>1. then = here  BY <1>1, <1>2, <1>6
  <2>2. Cardinality(here) \in Nat  BY <1>4, FS_CardinalityType
  <2> HIDE DEF here, then
  <2> QED  BY <1>3, <1>6, <2>1, <2>2 DEF One
<1> QED  BY <1>5, <1>6

\* One element less at the front.
LEMMA SeqCountTail ==
  ASSUME NEW T, NEW s \in Seq(T), s # << >>, NEW S
  PROVE  SeqCount(s, S) = SeqCount(Tail(s), S) + One(Head(s), S)
<1> DEFINE n == Len(s)
           rest == {i \in 1..n - 1 : s[i + 1] \in S}
           moved == {i \in 2..n : s[i] \in S}
           all == {i \in 1..n : s[i] \in S}
           f == [i \in rest |-> i + 1]
<1>1. n \in Nat \ {0}  BY LenProperties, EmptySeq
<1>2. /\ Len(Tail(s)) = n - 1 /\ Head(s) = s[1]
      /\ \A i \in 1..n - 1 : Tail(s)[i] = s[i + 1]
  BY HeadTailProperties
<1>3. SeqCount(s, S) = Cardinality(all) /\ SeqCount(Tail(s), S) = Cardinality(rest)
  <2>1. rest = {i \in 1..n - 1 : Tail(s)[i] \in S}  BY <1>2
  <2> QED  BY <1>2, <2>1 DEF SeqCount
<1> HIDE DEF n
<1>4. IsFiniteSet(rest)
  <2>1. IsFiniteSet(1..n - 1)  BY <1>1, FS_Interval
  <2> QED  BY <2>1, FS_Subset
<1>5. IsFiniteSet(moved) /\ Cardinality(moved) = Cardinality(rest)
  <2>1. \A j \in moved : j - 1 \in rest /\ f[j - 1] = j  BY <1>1
  <2>2. \A i \in rest : f[i] = i + 1 /\ f[i] \in moved  BY <1>1
  <2>3. f \in [rest -> moved]  BY <2>2
  <2>4. \A i, j \in rest : f[i] = f[j] => i = j  BY <2>2, <1>1
  <2>5. f \in Bijection(rest, moved)
    <3> HIDE DEF f, rest, moved
    <3>1. f \in Injection(rest, moved)  BY <2>3, <2>4 DEF Injection, IsInjective
    <3>2. f \in Surjection(rest, moved)  BY <2>1, <2>3 DEF Surjection
    <3> QED  BY <3>1, <3>2 DEF Bijection
  <2> HIDE DEF f, rest, moved
  <2> QED  BY <1>4, <2>5, FS_Bijection DEF ExistsBijection
<1>6. Cardinality(rest) \in Nat  BY <1>4, FS_CardinalityType
<1>7. CASE s[1] \in S
  <2>1. all = moved \cup {1} /\ 1 \notin moved  BY <1>1, <1>7
  <2>2. Cardinality(all) = Cardinality(moved) + 1  BY <1>5, <2>1, FS_AddElement
  <2> QED  BY <1>2, <1>3, <1>5, <1>7, <2>2 DEF One
<1>8. CASE s[1] \notin S
  <2>1. all = moved  BY <1>1, <1>8
  <2> HIDE DEF all, moved, rest
  <2> QED  BY <1>2, <1>3, <1>5, <1>6, <1>8, <2>1 DEF One
<1> QED  BY <1>7, <1>8
-----------------------------------------------------------------------------
(* Counting what the processes have *)

\* What processes hold changes with what one of them holds.
LEMMA HandledChange ==
  ASSUME NEW h, NEW g, NEW p \in Processes, NEW S,
         \A x \in Processes \ {p} : g[x] = h[x]
  PROVE  /\ Cardinality(Handled(h, S)) \in Nat /\ Cardinality(Handled(g, S)) \in Nat
         /\ Cardinality(Handled(g, S)) + One(h[p], S)
              = Cardinality(Handled(h, S)) + One(g[p], S)
<1> DEFINE others == {x \in Processes \ {p} : h[x] \in S}
<1>1. IsFiniteSet(others)
  <2>1. others \in SUBSET Processes  OBVIOUS
  <2> QED  BY <2>1, FS_Subset, ProcessesAssumption
<1>2. Cardinality(others) \in Nat  BY <1>1, FS_CardinalityType
<1>3. Cardinality(Handled(h, S)) = Cardinality(others) + One(h[p], S)
  <2>1. CASE h[p] \in S
    <3>1. Handled(h, S) = others \cup {p}  BY <2>1 DEF Handled
    <3> QED  BY <2>1, <3>1, <1>1, FS_AddElement DEF One
  <2>2. CASE h[p] \notin S
    <3>1. Handled(h, S) = others  BY <2>2 DEF Handled
    <3> QED  BY <2>2, <3>1, <1>2 DEF One
  <2> QED  BY <2>1, <2>2
<1>4. Cardinality(Handled(g, S)) = Cardinality(others) + One(g[p], S)
  <2>1. CASE g[p] \in S
    <3>1. Handled(g, S) = others \cup {p}  BY <2>1 DEF Handled
    <3> QED  BY <2>1, <3>1, <1>1, FS_AddElement DEF One
  <2>2. CASE g[p] \notin S
    <3>1. Handled(g, S) = others  BY <2>2 DEF Handled
    <3> QED  BY <2>2, <3>1, <1>2 DEF One
  <2> QED  BY <2>1, <2>2
<1> QED  BY <1>2, <1>3, <1>4 DEF One

\* The places of the events in one queue.
Places(q, p, S) == {<<p, i>> : i \in {i \in 1..Len(q[p]) : q[p][i] \in S}}

LEMMA PlacesCount ==
  ASSUME NEW q \in [Processes -> Seq(Event)], NEW p \in Processes, NEW S
  PROVE  /\ IsFiniteSet(Places(q, p, S))
         /\ Cardinality(Places(q, p, S)) = SeqCount(q[p], S)
<1> DEFINE here == {i \in 1..Len(q[p]) : q[p][i] \in S}
           f == [i \in here |-> <<p, i>>]
<1>1. IsFiniteSet(here)
  <2>1. Len(q[p]) \in Nat  BY LenProperties
  <2>2. IsFiniteSet(1..Len(q[p]))  BY <2>1, FS_Interval
  <2> QED  BY <2>2, FS_Subset
<1>2. f \in Bijection(here, Places(q, p, S))
  <2>1. Places(q, p, S) = {<<p, i>> : i \in here}  BY DEF Places
  <2> HIDE DEF here
  <2>2. f \in [here -> Places(q, p, S)]  BY <2>1
  <2>3. f \in Injection(here, Places(q, p, S))  BY <2>2 DEF Injection, IsInjective
  <2>4. f \in Surjection(here, Places(q, p, S))  BY <2>1, <2>2 DEF Surjection
  <2> QED  BY <2>3, <2>4 DEF Bijection
<1> HIDE DEF f
<1>3. IsFiniteSet(Places(q, p, S)) /\ Cardinality(Places(q, p, S)) = Cardinality(here)
  BY <1>1, <1>2, FS_Bijection DEF ExistsBijection
<1> QED  BY <1>3 DEF SeqCount

\* What is queued changes with what one process has queued.
LEMMA QueuedChange ==
  ASSUME NEW q \in [Processes -> Seq(Event)], NEW r \in [Processes -> Seq(Event)],
         NEW p \in Processes, NEW S,
         \A x \in Processes \ {p} : r[x] = q[x]
  PROVE  /\ Cardinality(Queued(q, S)) \in Nat /\ Cardinality(Queued(r, S)) \in Nat
         /\ Cardinality(Queued(r, S)) + SeqCount(q[p], S)
              = Cardinality(Queued(q, S)) + SeqCount(r[p], S)
<1> DEFINE each == {Places(q, x, S) : x \in Processes \ {p}}
           others == UNION each
<1>1. IsFiniteSet(others)
  <2> DEFINE f == [x \in Processes \ {p} |-> Places(q, x, S)]
  <2>1. f \in Surjection(Processes \ {p}, each)  BY DEF Surjection
  <2>2. IsFiniteSet(Processes \ {p})  BY ProcessesAssumption, FS_RemoveElement
  <2> HIDE DEF f
  <2>3. IsFiniteSet(each)  BY <2>1, <2>2, FS_Surjection
  <2>4. \A T \in each : IsFiniteSet(T)  BY PlacesCount
  <2> HIDE DEF each
  <2> QED  BY <2>3, <2>4, FS_UNION
<1>2. Cardinality(others) \in Nat  BY <1>1, FS_CardinalityType
<1>3. ASSUME NEW t \in [Processes -> Seq(Event)], \A x \in Processes \ {p} : t[x] = q[x]
      PROVE  /\ Cardinality(Queued(t, S)) = Cardinality(others) + SeqCount(t[p], S)
             /\ SeqCount(t[p], S) \in Nat
  <2>1. Queued(t, S) = others \cup Places(t, p, S)
    <3>1. \A x \in Processes \ {p} : Places(t, x, S) = Places(q, x, S)
      BY <1>3 DEF Places
    <3>2. Queued(t, S) = UNION {Places(t, x, S) : x \in Processes}  BY DEF Queued, Places
    <3> QED  BY <3>1, <3>2
  <2>2. others \cap Places(t, p, S) = {}  BY DEF Places
  <2>3. /\ IsFiniteSet(Places(t, p, S))
        /\ Cardinality(Places(t, p, S)) = SeqCount(t[p], S)
    BY PlacesCount
  <2>4. SeqCount(t[p], S) \in Nat  BY SeqCountType
  <2> HIDE DEF others
  <2>5. Cardinality(others \cup Places(t, p, S)) =
          Cardinality(others) + Cardinality(Places(t, p, S))
            - Cardinality(others \cap Places(t, p, S))
    BY <1>1, <2>3, FS_Union
  <2>6. Cardinality(others \cap Places(t, p, S)) = 0  BY <2>2, FS_EmptySet
  <2> QED  BY <1>2, <2>1, <2>3, <2>4, <2>5, <2>6
<1> HIDE DEF others
<1>4. /\ Cardinality(Queued(q, S)) = Cardinality(others) + SeqCount(q[p], S)
      /\ SeqCount(q[p], S) \in Nat
  BY <1>3
<1>5. /\ Cardinality(Queued(r, S)) = Cardinality(others) + SeqCount(r[p], S)
      /\ SeqCount(r[p], S) \in Nat
  BY <1>3
<1> QED  BY <1>2, <1>4, <1>5
-----------------------------------------------------------------------------
(* The invariant *)

\* What is sent carries its own chain.
Fresh == {e \in Event : e.chain = IF e.kind = Packet THEN "original" ELSE "none"}

Typed ==
  /\ free \in Nat /\ lost \in Nat /\ chains \in Int /\ leaked \in Nat
  /\ sent \in 0..MaxSent /\ burst \in 0..Burst /\ changes \in 0..MaskChanges
  /\ eventQueue \in Seq(Fresh)
  /\ gpc \in {"get", "distribute", "deliver", "send", "release"}
  /\ event \in Fresh \cup {NoEvent} /\ localEvent \in Event \cup {NoEvent}
  /\ delivery \in Seq(LocalDelivery) /\ subs \in Seq(LocalDelivery)
  /\ pktDeliveryCount \in Nat
  /\ queue \in [Processes -> Seq(Event)]
  /\ lpc \in [Processes -> {"none", "get", "wait", "again", "handle", "exit", "gone"}]
  /\ held \in [Processes -> Event \cup {NoEvent}]
  /\ tpc \in [Processes -> {"out", "in", "exit", "signal", "join", "left"}]
  /\ exit \subseteq Processes

\* Who has an event in its hands is where it has one.
InHand ==
  /\ gpc = "get" <=> event = NoEvent
  /\ gpc = "send" <=> localEvent # NoEvent
  /\ gpc = "send" => delivery # << >>
  /\ \A p \in Processes : lpc[p] = "handle" <=> held[p] # NoEvent
  /\ \A p \in Processes : tpc[p] = "out" => lpc[p] = "none"

\* pktDeliveryCount is the number of processes that are still to get the packet.
ToCome == IF gpc = "send" THEN Tail(delivery) ELSE delivery
CountsDown ==
  pktDeliveryCount = IF gpc \in {"deliver", "send"} /\ event.kind = Packet
                     THEN SeqCount(ToCome, Takers) ELSE 0

Sound == Typed /\ InHand /\ CountsDown

LEMMA SoundInit == Init => Sound
<1> SUFFICES ASSUME Init PROVE Sound  OBVIOUS
<1>1. Typed
  <2>1. [process |-> First, mask |-> Kinds] \in LocalDelivery
    BY FirstIsProcess DEF LocalDelivery
  <2> QED  BY <2>1, PoolAssumption, BoundsAssumption DEF Init, Typed
<1>2. InHand  BY FirstIsProcess DEF Init, InHand
<1>3. CountsDown  BY DEF Init, CountsDown
<1> QED  BY <1>1, <1>2, <1>3 DEF Sound

\* One process fewer waits for the packet.
LEMMA TailToCome ==
  ASSUME Typed, gpc = "deliver", delivery # << >>
  PROVE  /\ Tail(delivery) \in Seq(LocalDelivery)
         /\ Head(delivery) \in LocalDelivery
         /\ SeqCount(delivery, Takers)
              = SeqCount(Tail(delivery), Takers) + One(Head(delivery), Takers)
         /\ SeqCount(Tail(delivery), Takers) \in Nat
<1>1. delivery \in Seq(LocalDelivery)  BY DEF Typed
<1>2. Tail(delivery) \in Seq(LocalDelivery) /\ Head(delivery) \in LocalDelivery
  BY <1>1, HeadTailProperties
<1>3. SeqCount(Tail(delivery), Takers) \in Nat  BY <1>2, SeqCountType
<1>4. SeqCount(delivery, Takers)
        = SeqCount(Tail(delivery), Takers) + One(Head(delivery), Takers)
  BY <1>1, SeqCountTail
<1> QED  BY <1>2, <1>3, <1>4

\* An event is sent, or the pool loses one that could not be sent.
LEMMA SendCases ==
  ASSUME Send
  PROVE  SendFails \/ \E kind \in Kinds : SendEvent(kind)
BY DEF Send, SendLow, SendHigh, Kinds

LEMMA SendFailsSound == ASSUME Sound, Send, SendFails PROVE Sound'
<1> USE DEF pool, buffers, producer, global, list, local, leaving
<1>1. burst' \in 0..Burst  BY BoundsAssumption DEF Send, SendLow, SendHigh, Sound, Typed
<1>2. Typed'  BY <1>1 DEF SendFails, Sound, Typed
<1> QED  BY <1>2 DEF SendFails, Sound, InHand, CountsDown, ToCome, Takers

LEMMA SendSound == ASSUME Sound, Send, ~SendFails PROVE Sound'
<1>1. PICK kind \in Kinds : SendEvent(kind) /\ burst' \in 0..Burst
  BY BoundsAssumption DEF Send, SendLow, SendHigh, Sound, Typed, Kinds
<1> DEFINE e == [id |-> sent + 1, kind |-> kind,
                 chain |-> IF kind = Packet THEN "original" ELSE "none"]
<1>2. e \in Fresh
  BY <1>1, BoundsAssumption DEF SendEvent, Sound, Typed, Fresh, Event
<1>3. eventQueue' \in Seq(Fresh)
  <2>1. eventQueue' = Append(eventQueue, e)  BY <1>1 DEF SendEvent
  <2> HIDE DEF e
  <2> QED  BY <1>2, <2>1, AppendProperties DEF Sound, Typed
<1>4. Typed'
  BY <1>1, <1>3, BoundsAssumption DEF SendEvent, Sound, Typed, global, list, local, leaving
<1> QED
  BY <1>1, <1>4 DEF SendEvent, Sound, InHand, CountsDown, ToCome, Takers,
                    global, list, local, leaving

LEMMA GlobalSound == ASSUME Sound, GlobalHandler PROVE Sound'
<1> USE DEF pool, buffers, producer, global, list, local, leaving
<1>t. Typed /\ InHand /\ CountsDown  BY DEF Sound
<1>f. Fresh \subseteq Event  BY DEF Fresh
<1>1. CASE GetEvent
  <2>1. Head(eventQueue) \in Fresh /\ Tail(eventQueue) \in Seq(Fresh)
    BY <1>1, <1>t, HeadTailProperties DEF GetEvent, Typed
  <2>2. Head(eventQueue) # NoEvent  BY <2>1, <1>f, NoEventAssumption
  <2> QED
    BY <1>1, <1>t, <2>1, <2>2 DEF GetEvent, Sound, Typed, InHand, CountsDown
<1>2. CASE Drop
  BY <1>2, <1>t DEF Drop, Sound, Typed, InHand, CountsDown
<1>3. CASE Snapshot
  <2>1. SeqCount(subs, Takers) \in Nat  BY <1>t, SeqCountType DEF Typed
  <2>2. Takers' = Takers  BY <1>3 DEF Snapshot, Takers
  <2>3. Typed'  BY <1>3, <1>t, <2>1 DEF Snapshot, Typed
  <2>4. InHand'  BY <1>3, <1>t DEF Snapshot, InHand
  <2>5. CountsDown'  BY <1>3, <1>t, <2>1, <2>2 DEF Snapshot, CountsDown, ToCome
  <2> QED  BY <2>3, <2>4, <2>5 DEF Sound
<1>4. CASE Skip
  <2>1. Takers' = Takers  BY <1>4 DEF Skip, Takers
  <2>2. /\ Tail(delivery) \in Seq(LocalDelivery)
        /\ SeqCount(delivery, Takers) = SeqCount(Tail(delivery), Takers)
    BY <1>4, <1>t, TailToCome DEF Skip, One
  <2>3. Typed'  BY <1>4, <1>t, <2>2 DEF Skip, Typed
  <2>4. InHand'  BY <1>4, <1>t DEF Skip, InHand
  <2>5. CountsDown'  BY <1>4, <1>t, <2>1, <2>2 DEF Skip, CountsDown, ToCome
  <2> QED  BY <2>3, <2>4, <2>5 DEF Sound
<1>p. ASSUME gpc = "deliver", delivery # << >>, Head(delivery) \in Takers
      PROVE  /\ Tail(delivery) \in Seq(LocalDelivery)
             /\ CountDown \in Nat
             /\ CountDown = IF event.kind = Packet THEN SeqCount(Tail(delivery), Takers) ELSE 0
  <2>1. /\ Tail(delivery) \in Seq(LocalDelivery)
        /\ SeqCount(delivery, Takers) = SeqCount(Tail(delivery), Takers) + 1
        /\ SeqCount(Tail(delivery), Takers) \in Nat
    BY <1>p, <1>t, TailToCome DEF One
  <2> QED  BY <1>p, <1>t, <2>1 DEF CountDown, CountsDown, ToCome
<1>5. CASE Prepare
  <2>1. Takers' = Takers  BY <1>5 DEF Prepare, Takers
  <2>2. /\ CountDown \in Nat
        /\ CountDown = IF event.kind = Packet THEN SeqCount(Tail(delivery), Takers) ELSE 0
    BY <1>5, <1>p DEF Prepare
  <2>3. localEvent' \in Event
    BY <1>5, <1>t, <1>f DEF Prepare, ChainOf, Typed, InHand, Event
  <2>4. localEvent' # NoEvent  BY <2>3, NoEventAssumption
  <2>5. Typed'
    <3>1. free' \in Nat /\ chains' \in Int
      BY <1>5, <1>t DEF Prepare, Typed
    <3>2. gpc' = "send" /\ pktDeliveryCount' \in Nat
      BY <1>5, <2>2 DEF Prepare
    <3>3. UNCHANGED <<lost, producer, eventQueue, event, delivery, list, local,
                      leaving, leaked>>
      BY <1>5 DEF Prepare
    <3> QED  BY <1>t, <2>3, <3>1, <3>2, <3>3 DEF Typed
  <2>6. InHand'  BY <1>5, <1>t, <2>4 DEF Prepare, InHand
  <2>7. CountsDown'  BY <1>5, <1>t, <2>1, <2>2 DEF Prepare, CountsDown, ToCome
  <2> QED  BY <2>5, <2>6, <2>7 DEF Sound
<1>6. CASE CopyFails
  <2>1. Takers' = Takers  BY <1>6 DEF CopyFails, Takers
  <2>2. /\ CountDown \in Nat /\ Tail(delivery) \in Seq(LocalDelivery)
        /\ CountDown = IF event.kind = Packet THEN SeqCount(Tail(delivery), Takers) ELSE 0
    BY <1>6, <1>p DEF CopyFails
  <2>3. free' \in Nat /\ lost' \in Nat
    BY <1>6, <1>t DEF CopyFails, Typed
  <2>4. /\ pktDeliveryCount' = CountDown /\ delivery' = Tail(delivery)
        /\ gpc = "deliver"
        /\ UNCHANGED <<producer, eventQueue, gpc, event, localEvent, list, local,
                       leaving, buffers>>
    BY <1>6 DEF CopyFails
  <2>5. Typed'  BY <1>t, <2>2, <2>3, <2>4 DEF Typed
  <2>6. InHand'  BY <1>t, <2>4 DEF InHand
  <2>7. CountsDown'  BY <1>t, <2>1, <2>2, <2>4 DEF CountsDown, ToCome
  <2> QED  BY <2>5, <2>6, <2>7 DEF Sound
<1>7. CASE Deliver
  <2> DEFINE p == Head(delivery).process
  <2>1. Takers' = Takers  BY <1>7 DEF Deliver, Takers
  <2>2. Tail(delivery) \in Seq(LocalDelivery) /\ Head(delivery) \in LocalDelivery
    BY <1>7, <1>t, HeadTailProperties DEF Deliver, Typed, InHand
  <2>3. p \in Processes  BY <2>2 DEF LocalDelivery
  <2>4. localEvent \in Event  BY <1>7, <1>t DEF Deliver, Typed, InHand
  <2> HIDE DEF p
  <2>5. /\ queue' = [queue EXCEPT ![p] = Append(queue[p], localEvent)]
        /\ lpc' = Signalled(p)
    BY <1>7 DEF Deliver, p
  <2>6. queue' \in [Processes -> Seq(Event)]
    <3>1. Append(queue[p], localEvent) \in Seq(Event)
      BY <1>t, <2>3, <2>4, AppendProperties DEF Typed
    <3> QED  BY <1>t, <2>3, <2>5, <3>1 DEF Typed
  <2>7. Typed'  BY <1>7, <1>t, <2>2, <2>3, <2>5, <2>6 DEF Deliver, Typed, Signalled
  <2>8. InHand'  BY <1>7, <1>t, <2>3, <2>5 DEF Deliver, Typed, InHand, Signalled
  <2>9. CountsDown'  BY <1>7, <1>t, <2>1 DEF Deliver, CountsDown, ToCome
  <2> QED  BY <2>7, <2>8, <2>9 DEF Sound
<1>8. CASE Delivered
  <2>1. delivery = << >> => SeqCount(delivery, Takers) = 0  BY EmptyCount
  <2> QED
    BY <1>8, <1>t, <2>1 DEF Delivered, Sound, Typed, InHand, CountsDown, ToCome
<1>9. CASE ReleaseEvent
  <2>1. Typed'  BY <1>9, <1>t DEF ReleaseEvent, Release, Typed
  <2>2. InHand'  BY <1>9, <1>t DEF ReleaseEvent, InHand
  <2>3. CountsDown'  BY <1>9, <1>t DEF ReleaseEvent, CountsDown
  <2> QED  BY <2>1, <2>2, <2>3 DEF Sound
<1> QED
  BY <1>1, <1>2, <1>3, <1>4, <1>5, <1>6, <1>7, <1>8, <1>9 DEF GlobalHandler

LEMMA LocalSound ==
  ASSUME Sound, NEW p \in Processes, LocalHandler(p) \/ WakeUnsignalled(p)
  PROVE  Sound'
<1> USE DEF pool, buffers, producer, global, list, local, leaving
<1>t. Typed /\ InHand /\ CountsDown  BY DEF Sound
<1>1. CASE LocalGet(p) /\ Take(p)
  <2>1. Head(queue[p]) \in Event /\ Tail(queue[p]) \in Seq(Event)
    BY <1>1, <1>t, HeadTailProperties DEF Take, Typed
  <2>2. Head(queue[p]) # NoEvent  BY <2>1, NoEventAssumption
  <2>3. Typed'  BY <1>1, <1>t, <2>1 DEF LocalGet, Take, Typed
  <2>4. InHand'  BY <1>1, <1>t, <2>2 DEF LocalGet, Take, Typed, InHand
  <2>5. CountsDown'  BY <1>1, <1>t DEF LocalGet, CountsDown, ToCome, Takers
  <2> QED  BY <2>3, <2>4, <2>5 DEF Sound
<1>2. ASSUME NEW label \in {"wait", "again", "get", "exit"}, LocalGoto(p, label),
             lpc[p] \in {"get", "wait", "again", "exit"},
             UNCHANGED <<pool, producer, eventQueue, global, list, leaving, buffers>>
      PROVE  Sound'
  <2>1. Typed'  BY <1>2, <1>t DEF LocalGoto, Typed
  <2>2. InHand'  BY <1>2, <1>t DEF LocalGoto, Typed, InHand
  <2>3. CountsDown'  BY <1>2, <1>t DEF CountsDown, ToCome, Takers
  <2> QED  BY <2>1, <2>2, <2>3 DEF Sound
<1>3. CASE LocalGet(p) /\ ~Take(p)  BY <1>2, <1>3 DEF LocalGet
<1>4. CASE WakeUnsignalled(p)  BY <1>2, <1>4 DEF WakeUnsignalled
<1>5. CASE ExitThread(p)
  <2>1. queue[p] \in Seq(Event)  BY <1>t DEF Typed
  <2>2. Len(queue[p]) \in Nat /\ SeqCount(queue[p], WithChain) \in Nat
    BY <2>1, LenProperties, SeqCountType
  <2>3. << >> \in Seq(Event)  BY EmptySeq
  <2>4. Typed'  BY <1>5, <1>t, <2>2, <2>3 DEF ExitThread, Typed
  <2>5. InHand'  BY <1>5, <1>t DEF ExitThread, Typed, InHand
  <2>6. CountsDown'  BY <1>5, <1>t DEF ExitThread, CountsDown, ToCome, Takers
  <2> QED  BY <2>4, <2>5, <2>6 DEF Sound
<1>6. CASE Handle(p)
  <2>1. Typed'  BY <1>6, <1>t DEF Handle, Release, Typed
  <2>2. InHand'  BY <1>6, <1>t DEF Handle, Typed, InHand
  <2>3. CountsDown'  BY <1>6, <1>t DEF Handle, CountsDown, ToCome, Takers
  <2> QED  BY <2>1, <2>2, <2>3 DEF Sound
<1> QED  BY <1>1, <1>3, <1>4, <1>5, <1>6 DEF LocalHandler

LEMMA ProcessSound ==
  ASSUME Sound, NEW p \in Processes, Join(p) \/ SetMask(p) \/ Terminate(p)
  PROVE  Sound'
<1> USE DEF pool, buffers, producer, global, list, local, leaving
<1>t. Typed /\ InHand /\ CountsDown  BY DEF Sound
<1>1. CASE Join(p)
  <2> DEFINE d == [process |-> p, mask |-> IF subs = << >> THEN Kinds ELSE Kinds \ {Packet}]
  <2>1. d \in LocalDelivery  BY DEF LocalDelivery
  <2>2. subs' = Append(subs, d)  BY <1>1 DEF Join
  <2> HIDE DEF d
  <2>3. subs' \in Seq(LocalDelivery)  BY <1>t, <2>1, <2>2, AppendProperties DEF Typed
  <2>4. Typed'  BY <1>1, <1>t, <2>3 DEF Join, Typed
  <2>5. InHand'  BY <1>1, <1>t DEF Join, Typed, InHand
  <2>6. CountsDown'  BY <1>1, <1>t DEF Join, CountsDown, ToCome, Takers
  <2> QED  BY <2>4, <2>5, <2>6 DEF Sound
<1>2. CASE SetMask(p)
  <2>1. PICK m \in SUBSET Kinds :
          subs' = [i \in 1..Len(subs) |->
                     IF subs[i].process = p THEN [subs[i] EXCEPT !.mask = m] ELSE subs[i]]
    BY <1>2 DEF SetMask
  <2>2. Len(subs) \in Nat /\ \A i \in 1..Len(subs) : subs[i] \in LocalDelivery
    BY <1>t, LenProperties, ElementOfSeq DEF Typed
  <2>3. subs' \in [1..Len(subs) -> LocalDelivery]  BY <2>1, <2>2 DEF LocalDelivery
  <2>4. subs' \in Seq(LocalDelivery)  BY <2>2, <2>3, SeqDef
  <2>5. changes' \in 0..MaskChanges
    <3>1. changes < MaskChanges /\ changes' = changes + 1  BY <1>2 DEF SetMask
    <3>2. changes \in 0..MaskChanges  BY <1>t DEF Typed
    <3> QED  BY <3>1, <3>2, BoundsAssumption
  <2>6. UNCHANGED <<pool, producer, eventQueue, global, local, leaving, buffers>>
    BY <1>2 DEF SetMask
  <2>7. Typed'  BY <1>t, <2>4, <2>5, <2>6 DEF Typed
  <2>8. InHand'  BY <1>t, <2>6 DEF InHand
  <2>9. CountsDown'  BY <1>t, <2>6 DEF CountsDown, ToCome, Takers
  <2> QED  BY <2>7, <2>8, <2>9 DEF Sound
<1>3. CASE RemoveHandler(p)
  <2>1. PICK i \in 1..Len(subs) :
          subs' = SubSeq(subs, 1, i - 1) \o SubSeq(subs, i + 1, Len(subs))
    BY <1>3 DEF RemoveHandler
  <2>2. Len(subs) \in Nat /\ \A j \in 1..Len(subs) : subs[j] \in LocalDelivery
    BY <1>t, LenProperties, ElementOfSeq DEF Typed
  <2>3. SubSeq(subs, 1, i - 1) \in Seq(LocalDelivery)
    <3>1. i - 1 \in Int /\ \A j \in 1..i - 1 : subs[j] \in LocalDelivery  BY <2>2
    <3> QED  BY <3>1, SubSeqProperties
  <2>4. SubSeq(subs, i + 1, Len(subs)) \in Seq(LocalDelivery)
    <3>1. /\ i + 1 \in Int /\ Len(subs) \in Int
          /\ \A j \in i + 1..Len(subs) : subs[j] \in LocalDelivery
      BY <2>2
    <3> QED  BY <3>1, SubSeqProperties
  <2>5. subs' \in Seq(LocalDelivery)  BY <2>1, <2>3, <2>4, ConcatProperties
  <2>6. Typed'  BY <1>3, <1>t, <2>5 DEF RemoveHandler, Typed
  <2>7. InHand'  BY <1>3, <1>t DEF RemoveHandler, Typed, InHand
  <2>8. CountsDown'  BY <1>3, <1>t DEF RemoveHandler, CountsDown, ToCome, Takers
  <2> QED  BY <2>6, <2>7, <2>8 DEF Sound
<1>4. CASE SetExit(p)
  BY <1>4, <1>t DEF SetExit, Sound, Typed, InHand, CountsDown, ToCome, Takers
<1>5. CASE Signal(p)
  BY <1>5, <1>t DEF Signal, Signalled, Sound, Typed, InHand, CountsDown, ToCome, Takers
<1>6. CASE WaitExit(p)
  BY <1>6, <1>t DEF WaitExit, Sound, Typed, InHand, CountsDown, ToCome, Takers
<1> QED  BY <1>1, <1>2, <1>3, <1>4, <1>5, <1>6 DEF Terminate

LEMMA SoundStep == Sound /\ [Next]_vars => Sound'
<1> SUFFICES ASSUME Sound, [Next]_vars PROVE Sound'  OBVIOUS
<1>1. CASE UNCHANGED vars
  BY <1>1 DEF vars, pool, buffers, producer, global, list, local, leaving, Sound, Typed, InHand,
              CountsDown, ToCome, Takers
<1> QED
  BY <1>1, SendSound, SendFailsSound, GlobalSound, LocalSound, ProcessSound DEF Next
-----------------------------------------------------------------------------
(* What a step does to the number of events in S that are in use *)

LEMMA CountType ==
  ASSUME Typed, NEW S
  PROVE  /\ Count(S) \in Nat
         /\ SeqCount(eventQueue, S) \in Nat
         /\ Cardinality(Queued(queue, S)) \in Nat
         /\ Cardinality(Handled(held, S)) \in Nat
         /\ One(event, S) \in 0..1 /\ One(localEvent, S) \in 0..1
<1>1. SeqCount(eventQueue, S) \in Nat  BY SeqCountType DEF Typed
<1>2. Cardinality(Queued(queue, S)) \in Nat
  BY QueuedChange, FirstIsProcess DEF Typed
<1>3. Cardinality(Handled(held, S)) \in Nat  BY HandledChange, FirstIsProcess
<1>4. One(event, S) \in 0..1 /\ One(localEvent, S) \in 0..1  BY DEF One
<1> QED  BY <1>1, <1>2, <1>3, <1>4 DEF Count

\* Events stay where they are.
LEMMA CountSame ==
  ASSUME UNCHANGED <<eventQueue, event, localEvent, queue, held>>, NEW S
  PROVE  Count(S)' = Count(S)
BY DEF Count, SeqCount, One, Queued, Handled

\* An event that is sent is one more.
LEMMA SendCounts ==
  ASSUME Sound, NEW kind \in Kinds, SendEvent(kind), NEW S,
         NEW e, e = [id |-> sent + 1, kind |-> kind,
                     chain |-> IF kind = Packet THEN "original" ELSE "none"]
  PROVE  Count(S)' = Count(S) + One(e, S) /\ e \in Event
<1> USE DEF pool, buffers, global, list, local, leaving
<1>1. e \in Event /\ e \in Fresh
  BY BoundsAssumption DEF SendEvent, Sound, Typed, Event, Fresh
<1>2. SeqCount(eventQueue', S) = SeqCount(eventQueue, S) + One(e, S)
  <2>1. eventQueue \in Seq(Fresh) /\ eventQueue' = Append(eventQueue, e)
    BY DEF Sound, Typed, SendEvent
  <2> QED  BY <1>1, <2>1, SeqCountAppend
<1>3. UNCHANGED <<event, localEvent, queue, held>>  BY DEF SendEvent
<1>4. One(e, S) \in 0..1  BY DEF One
<1>5. Count(S)' = SeqCount(eventQueue', S) + One(event, S) + One(localEvent, S)
                  + Cardinality(Queued(queue, S)) + Cardinality(Handled(held, S))
  BY <1>3 DEF Count, SeqCount, One, Queued, Handled
<1> QED  BY <1>1, <1>2, <1>4, <1>5, CountType DEF Count, Sound

\* NULL is no event.
LEMMA OneNoEvent == ASSUME NEW S \in SUBSET Event PROVE One(NoEvent, S) = 0
BY NoEventAssumption DEF One

\* The event thread moves events from hand to hand, copies one or releases one.
LEMMA GlobalCounts ==
  ASSUME Sound, GlobalHandler, NEW S \in SUBSET Event
  PROVE  Count(S)' = IF Prepare THEN Count(S) + One(localEvent', S)
                     ELSE IF ReleaseEvent THEN Count(S) - One(event, S)
                     ELSE Count(S)
<1> USE DEF pool, buffers, producer, global, list, local, leaving
<1>t. Typed /\ InHand  BY DEF Sound
<1>c. /\ Count(S) = SeqCount(eventQueue, S) + One(event, S) + One(localEvent, S)
                    + Cardinality(Queued(queue, S)) + Cardinality(Handled(held, S))
      /\ Count(S)' = SeqCount(eventQueue', S) + One(event', S) + One(localEvent', S)
                     + Cardinality(Queued(queue', S)) + Cardinality(Handled(held', S))
  BY DEF Count, SeqCount, One, Queued, Handled
<1>n. /\ SeqCount(eventQueue, S) \in Nat
      /\ Cardinality(Queued(queue, S)) \in Nat /\ Cardinality(Handled(held, S)) \in Nat
      /\ One(event, S) \in 0..1 /\ One(localEvent, S) \in 0..1 /\ One(localEvent', S) \in 0..1
  BY <1>t, CountType DEF One
<1>1. CASE GetEvent
  <2>1. SeqCount(eventQueue, S) = SeqCount(eventQueue', S) + One(event', S)
    BY <1>1, <1>t, SeqCountTail DEF GetEvent, Typed
  <2>2. One(event, S) = 0  BY <1>1, <1>t, OneNoEvent DEF GetEvent, InHand
  <2>3. SeqCount(eventQueue', S) \in Nat /\ One(event', S) \in 0..1
    <3>1. eventQueue' \in Seq(Fresh)  BY <1>1, <1>t, HeadTailProperties DEF GetEvent, Typed
    <3> QED  BY <3>1, SeqCountType DEF One
  <2>4. UNCHANGED <<localEvent, queue, held>> /\ ~Prepare /\ ~ReleaseEvent
    BY <1>1 DEF GetEvent, Prepare, ReleaseEvent
  <2> QED  BY <1>c, <1>n, <2>1, <2>2, <2>3, <2>4
<1>2. CASE Drop \/ Snapshot \/ Skip \/ CopyFails \/ Delivered
  <2>1. UNCHANGED <<eventQueue, event, localEvent, queue, held>> /\ ~Prepare /\ ~ReleaseEvent
    <3>1. CASE Drop  BY <3>1 DEF Drop, Prepare, ReleaseEvent
    <3>2. CASE Snapshot  BY <3>2 DEF Snapshot, Prepare, ReleaseEvent
    <3>3. CASE Skip  BY <3>3 DEF Skip, Prepare, ReleaseEvent
    <3>4. CASE CopyFails  BY <3>4 DEF CopyFails, Prepare, ReleaseEvent
    <3>5. CASE Delivered  BY <3>5 DEF Delivered, Prepare, ReleaseEvent
    <3> QED  BY <1>2, <3>1, <3>2, <3>3, <3>4, <3>5
  <2> QED  BY <2>1, CountSame
<1>3. CASE Prepare
  <2>1. One(localEvent, S) = 0  BY <1>3, <1>t, OneNoEvent DEF Prepare, InHand
  <2>2. UNCHANGED <<eventQueue, event, queue, held>>  BY <1>3 DEF Prepare
  <2> QED  BY <1>3, <1>c, <1>n, <2>1, <2>2
<1>4. CASE Deliver
  <2> DEFINE p == Head(delivery).process
  <2>1. p \in Processes
    <3>1. Head(delivery) \in LocalDelivery
      BY <1>4, <1>t, HeadTailProperties DEF Deliver, Typed, InHand
    <3> QED  BY <3>1 DEF LocalDelivery
  <2>2. localEvent \in Event  BY <1>4, <1>t DEF Deliver, Typed, InHand
  <2>3. queue' = [queue EXCEPT ![p] = Append(queue[p], localEvent)]  BY <1>4 DEF Deliver
  <2> HIDE DEF p
  <2>4. Append(queue[p], localEvent) \in Seq(Event) /\ queue[p] \in Seq(Event)
    BY <1>t, <2>1, <2>2, AppendProperties DEF Typed
  <2>5. /\ queue \in [Processes -> Seq(Event)] /\ queue' \in [Processes -> Seq(Event)]
        /\ queue'[p] = Append(queue[p], localEvent)
        /\ \A x \in Processes \ {p} : queue'[x] = queue[x]
    BY <1>t, <2>1, <2>3, <2>4 DEF Typed
  <2>6. SeqCount(queue'[p], S) = SeqCount(queue[p], S) + One(localEvent, S)
    BY <2>2, <2>4, <2>5, SeqCountAppend
  <2>7. /\ Cardinality(Queued(queue', S)) + SeqCount(queue[p], S)
             = Cardinality(Queued(queue, S)) + SeqCount(queue'[p], S)
        /\ Cardinality(Queued(queue', S)) \in Nat
    BY <2>1, <2>5, QueuedChange
  <2>8. SeqCount(queue[p], S) \in Nat  BY <2>4, SeqCountType
  <2>9. One(localEvent', S) = 0  BY <1>4, OneNoEvent DEF Deliver
  <2>10. UNCHANGED <<eventQueue, event, held>> /\ ~Prepare /\ ~ReleaseEvent
    BY <1>4 DEF Deliver, Prepare, ReleaseEvent
  <2> QED  BY <1>c, <1>n, <2>6, <2>7, <2>8, <2>9, <2>10
<1>5. CASE ReleaseEvent
  <2>1. One(event', S) = 0  BY <1>5, OneNoEvent DEF ReleaseEvent
  <2>2. UNCHANGED <<eventQueue, localEvent, queue, held>> /\ ~Prepare
    BY <1>5 DEF ReleaseEvent, Prepare
  <2> QED  BY <1>5, <1>c, <1>n, <2>1, <2>2
<1> QED  BY <1>1, <1>2, <1>3, <1>4, <1>5 DEF GlobalHandler

\* A process takes an event from its queue, and releases it when it is handled;
\* when it exits its queue is gone.
LEMMA LocalCounts ==
  ASSUME Sound, NEW p \in Processes, LocalHandler(p), NEW S \in SUBSET Event
  PROVE  Count(S)' = IF Handle(p) THEN Count(S) - One(held[p], S)
                     ELSE IF ExitThread(p) THEN Count(S) - SeqCount(queue[p], S)
                     ELSE Count(S)
<1> USE DEF pool, buffers, producer, global, list, local, leaving
<1>t. Typed /\ InHand  BY DEF Sound
<1>c. /\ Count(S) = SeqCount(eventQueue, S) + One(event, S) + One(localEvent, S)
                    + Cardinality(Queued(queue, S)) + Cardinality(Handled(held, S))
      /\ Count(S)' = SeqCount(eventQueue', S) + One(event', S) + One(localEvent', S)
                     + Cardinality(Queued(queue', S)) + Cardinality(Handled(held', S))
  BY DEF Count, SeqCount, One, Queued, Handled
<1>n. /\ SeqCount(eventQueue, S) \in Nat
      /\ Cardinality(Queued(queue, S)) \in Nat /\ Cardinality(Handled(held, S)) \in Nat
      /\ One(event, S) \in 0..1 /\ One(localEvent, S) \in 0..1
  BY <1>t, CountType
<1>h. ASSUME \A x \in Processes \ {p} : held'[x] = held[x]
      PROVE  /\ Cardinality(Handled(held', S)) + One(held[p], S)
                  = Cardinality(Handled(held, S)) + One(held'[p], S)
             /\ Cardinality(Handled(held', S)) \in Nat
  <2> DEFINE g == held'
  <2>1. \A x \in Processes \ {p} : g[x] = held[x]  BY <1>h
  <2> HIDE DEF g
  <2>2. /\ Cardinality(Handled(g, S)) + One(held[p], S)
             = Cardinality(Handled(held, S)) + One(g[p], S)
        /\ Cardinality(Handled(g, S)) \in Nat
    BY <2>1, HandledChange
  <2> QED  BY <2>2 DEF g
<1>o. One(held[p], S) \in 0..1 /\ One(held'[p], S) \in 0..1  BY DEF One
<1>1. CASE LocalGet(p) /\ Take(p)
  <2>1. /\ queue[p] \in Seq(Event) /\ queue[p] # << >>
        /\ queue' = [queue EXCEPT ![p] = Tail(queue[p])]
        /\ held' = [held EXCEPT ![p] = Head(queue[p])]
    BY <1>1, <1>t DEF Take, Typed
  <2>2. Head(queue[p]) \in Event /\ Tail(queue[p]) \in Seq(Event)
    BY <2>1, HeadTailProperties
  <2>3. /\ queue \in [Processes -> Seq(Event)] /\ queue' \in [Processes -> Seq(Event)]
        /\ queue'[p] = Tail(queue[p])
        /\ \A x \in Processes \ {p} : queue'[x] = queue[x]
    BY <1>t, <2>1, <2>2 DEF Typed
  <2>4. held'[p] = Head(queue[p]) /\ \A x \in Processes \ {p} : held'[x] = held[x]
    BY <1>t, <2>1 DEF Typed
  <2>5. SeqCount(queue[p], S) = SeqCount(queue'[p], S) + One(held'[p], S)
    BY <2>1, <2>3, <2>4, SeqCountTail
  <2>6. /\ Cardinality(Queued(queue', S)) + SeqCount(queue[p], S)
             = Cardinality(Queued(queue, S)) + SeqCount(queue'[p], S)
        /\ Cardinality(Queued(queue', S)) \in Nat
    BY <2>3, QueuedChange
  <2>7. SeqCount(queue'[p], S) \in Nat  BY <2>2, <2>3, SeqCountType
  <2>8. /\ Cardinality(Handled(held', S)) + One(held[p], S)
             = Cardinality(Handled(held, S)) + One(held'[p], S)
        /\ Cardinality(Handled(held', S)) \in Nat
    BY <1>h, <2>4
  <2>9. One(held[p], S) = 0
    BY <1>1, <1>t, OneNoEvent DEF LocalGet, Take, InHand
  <2>10. UNCHANGED <<eventQueue, event, localEvent>> /\ ~Handle(p) /\ ~ExitThread(p)
    BY <1>1 DEF LocalGet, Handle, ExitThread
  <2> QED  BY <1>c, <1>n, <1>o, <2>5, <2>6, <2>7, <2>8, <2>9, <2>10
<1>2. CASE LocalGet(p) /\ ~Take(p)
  <2>1. /\ UNCHANGED <<eventQueue, event, localEvent, queue, held>>
        /\ ~Handle(p) /\ ~ExitThread(p)
    BY <1>2 DEF LocalGet, ExitThread, LocalGoto, Handle
  <2> QED  BY <2>1, CountSame
<1>4. CASE ExitThread(p)
  <2>1. queue' = [queue EXCEPT ![p] = << >>] /\ << >> \in Seq(Event)
    BY <1>4, EmptySeq DEF ExitThread
  <2>2. /\ queue \in [Processes -> Seq(Event)] /\ queue' \in [Processes -> Seq(Event)]
        /\ queue'[p] = << >>
        /\ \A x \in Processes \ {p} : queue'[x] = queue[x]
    BY <1>t, <2>1 DEF Typed
  <2>3. /\ Cardinality(Queued(queue', S)) + SeqCount(queue[p], S)
             = Cardinality(Queued(queue, S)) + SeqCount(queue'[p], S)
        /\ Cardinality(Queued(queue', S)) \in Nat
    BY <2>2, QueuedChange
  <2>4. SeqCount(queue'[p], S) = 0 /\ SeqCount(queue[p], S) \in Nat
    <3>1. SeqCount(<< >>, S) = 0  BY EmptyCount
    <3> QED  BY <2>2, <3>1, SeqCountType
  <2>5. UNCHANGED <<eventQueue, event, localEvent, held>> /\ ~Handle(p)
    BY <1>4 DEF ExitThread, Handle
  <2> QED  BY <1>4, <1>c, <1>n, <2>3, <2>4, <2>5
<1>3. CASE Handle(p)
  <2>1. held' = [held EXCEPT ![p] = NoEvent]  BY <1>3 DEF Handle
  <2>2. held'[p] = NoEvent  BY <1>t, <2>1 DEF Typed
  <2>o. \A x \in Processes \ {p} : held'[x] = held[x]  BY <1>t, <2>1 DEF Typed
  <2>3. /\ Cardinality(Handled(held', S)) + One(held[p], S)
             = Cardinality(Handled(held, S)) + One(held'[p], S)
        /\ Cardinality(Handled(held', S)) \in Nat
    BY <1>h, <2>o
  <2>4. One(held'[p], S) = 0  BY <2>2, OneNoEvent
  <2>5. UNCHANGED <<eventQueue, event, localEvent, queue>>  BY <1>3 DEF Handle
  <2> QED  BY <1>3, <1>c, <1>n, <1>o, <2>3, <2>4, <2>5
<1> QED  BY <1>1, <1>2, <1>3, <1>4 DEF LocalHandler

\* Processes that join, leave or set their masks move no event.
LEMMA ProcessCounts ==
  ASSUME NEW p \in Processes, NEW S,
         WakeUnsignalled(p) \/ Join(p) \/ SetMask(p) \/ Terminate(p)
  PROVE  /\ Count(S)' = Count(S)
         /\ UNCHANGED <<free, lost, chains, leaked, event, gpc, pktDeliveryCount>>
<1> USE DEF pool, buffers, producer, global, list, local, leaving
<1>1. UNCHANGED <<eventQueue, event, localEvent, queue, held, free, lost, chains, leaked,
                  gpc, pktDeliveryCount>>
  BY DEF WakeUnsignalled, LocalGoto, Join, SetMask, Terminate, RemoveHandler, SetExit,
         Signal, WaitExit
<1> QED  BY <1>1, CountSame
-----------------------------------------------------------------------------
(* The theorems *)

LEMMA ConservedStep ==
  Sound /\ EventsConserved /\ [Next]_vars => EventsConserved'
<1> SUFFICES ASSUME Sound, EventsConserved, [Next]_vars PROVE EventsConserved'
  OBVIOUS
<1>t. Typed  BY DEF Sound
<1>n. /\ free \in Nat /\ lost \in Nat /\ Count(Event) \in Nat /\ MaxEvents \in Nat
      /\ free + Count(Event) + lost = MaxEvents
  BY CountType, PoolAssumption DEF Sound, Typed, EventsConserved
<1>1. CASE Send /\ ~SendFails
  <2>1. PICK kind \in Kinds : SendEvent(kind)  BY <1>1, SendCases
  <2>2. Count(Event)' = Count(Event) + 1  BY <2>1, SendCounts DEF One
  <2>3. free' = free - 1 /\ lost' = lost  BY <2>1 DEF SendEvent
  <2> QED  BY <1>n, <2>2, <2>3 DEF EventsConserved
<1>f. CASE Send /\ SendFails
  <2>1. Count(Event)' = Count(Event)  BY <1>f, CountSame DEF SendFails, global, local
  <2>2. free' = free - 1 /\ lost' = lost + 1  BY <1>f DEF SendFails
  <2> QED  BY <1>n, <2>1, <2>2 DEF EventsConserved
<1>2. CASE GlobalHandler
  <2>1. Count(Event)' = IF Prepare THEN Count(Event) + One(localEvent', Event)
                        ELSE IF ReleaseEvent THEN Count(Event) - One(event, Event)
                        ELSE Count(Event)
    BY <1>2, GlobalCounts
  <2>2. CASE Prepare
    <3>1. localEvent' \in Event
      <4>1. Sound'  BY <1>2, GlobalSound
      <4> QED  BY <2>2, <4>1 DEF Prepare, Sound, Typed, InHand
    <3>2. free' = free - 1 /\ lost' = lost  BY <2>2 DEF Prepare
    <3> QED  BY <1>n, <2>1, <2>2, <3>1, <3>2 DEF EventsConserved, One
  <2>3. CASE ReleaseEvent /\ ~Prepare
    <3>1. event \in Event  BY <2>3 DEF ReleaseEvent, Sound, Typed, InHand, Fresh
    <3>2. \/ free' = free + 1 /\ lost' = lost
          \/ lost' = lost + 1 /\ free' = free
      BY <2>3 DEF ReleaseEvent, Release
    <3>3. Count(Event)' = Count(Event) - 1  BY <2>1, <2>3, <3>1 DEF One
    <3>4. CASE free' = free + 1 /\ lost' = lost  BY <1>n, <3>3, <3>4 DEF EventsConserved
    <3>5. CASE lost' = lost + 1 /\ free' = free  BY <1>n, <3>3, <3>5 DEF EventsConserved
    <3> QED  BY <3>2, <3>4, <3>5
  <2>4. CASE ~Prepare /\ ~ReleaseEvent
    <3>1. \/ free' = free /\ lost' = lost
          \/ free' = free - 1 /\ lost' = lost + 1
      <4>1. CASE CopyFails  BY <4>1 DEF CopyFails, pool
      <4>2. CASE ~CopyFails
        BY <1>2, <2>4, <4>2 DEF GlobalHandler, GetEvent, Drop, Snapshot, Skip, Deliver,
                                Delivered, pool
      <4> QED  BY <4>1, <4>2
    <3>2. Count(Event)' = Count(Event)  BY <2>1, <2>4
    <3>3. CASE free' = free /\ lost' = lost  BY <1>n, <3>2, <3>3 DEF EventsConserved
    <3>4. CASE free' = free - 1 /\ lost' = lost + 1
      BY <1>n, <3>2, <3>4 DEF EventsConserved
    <3> QED  BY <3>1, <3>3, <3>4
  <2> QED  BY <2>2, <2>3, <2>4
<1>3. CASE \E p \in Processes : LocalHandler(p)
  <2>1. PICK p \in Processes : LocalHandler(p)  BY <1>3
  <2>2. Count(Event)' = IF Handle(p) THEN Count(Event) - One(held[p], Event)
                        ELSE IF ExitThread(p) THEN Count(Event) - SeqCount(queue[p], Event)
                        ELSE Count(Event)
    BY <2>1, LocalCounts
  <2>3. CASE Handle(p)
    <3>1. held[p] \in Event  BY <2>3 DEF Handle, Sound, Typed, InHand
    <3>2. \/ free' = free + 1 /\ lost' = lost
          \/ lost' = lost + 1 /\ free' = free
      BY <2>3 DEF Handle, Release
    <3>3. Count(Event)' = Count(Event) - 1  BY <2>2, <2>3, <3>1 DEF One
    <3>4. CASE free' = free + 1 /\ lost' = lost  BY <1>n, <3>3, <3>4 DEF EventsConserved
    <3>5. CASE lost' = lost + 1 /\ free' = free  BY <1>n, <3>3, <3>5 DEF EventsConserved
    <3> QED  BY <3>2, <3>4, <3>5
  <2>4. CASE ExitThread(p) /\ ~Handle(p)
    <3>1. queue[p] \in Seq(Event)  BY <1>t DEF Typed
    <3>2. SeqCount(queue[p], Event) = Len(queue[p]) /\ Len(queue[p]) \in Nat
      BY <3>1, SeqCountAll, LenProperties
    <3>3. free' = free /\ lost' = lost + Len(queue[p])  BY <2>4 DEF ExitThread
    <3>4. Count(Event)' = Count(Event) - Len(queue[p])  BY <2>2, <2>4, <3>2
    <3> QED  BY <1>n, <3>2, <3>3, <3>4 DEF EventsConserved
  <2>5. CASE ~Handle(p) /\ ~ExitThread(p)
    <3>1. free' = free /\ lost' = lost  BY <2>1, <2>5 DEF LocalHandler, LocalGet, pool
    <3>2. Count(Event)' = Count(Event)  BY <2>2, <2>5
    <3> QED  BY <1>n, <3>1, <3>2 DEF EventsConserved
  <2> QED  BY <2>3, <2>4, <2>5
<1>4. CASE \E p \in Processes :
             WakeUnsignalled(p) \/ Join(p) \/ SetMask(p) \/ Terminate(p)
  BY <1>n, <1>4, ProcessCounts DEF EventsConserved
<1>5. CASE UNCHANGED vars
  <2>1. Count(Event)' = Count(Event) /\ free' = free /\ lost' = lost
    BY <1>5, CountSame DEF vars, pool, global, local
  <2> QED  BY <1>n, <2>1 DEF EventsConserved
<1> QED  BY <1>1, <1>f, <1>2, <1>3, <1>4, <1>5 DEF Next

\* A packet that is sent has its chain, and nothing else has.
LEMMA ChainsStep ==
  Sound /\ ChainsOwned /\ [Next]_vars => ChainsOwned'
<1> SUFFICES ASSUME Sound, ChainsOwned, [Next]_vars PROVE ChainsOwned'
  OBVIOUS
<1>t. Typed /\ InHand /\ CountsDown  BY DEF Sound
<1>s. WithChain \in SUBSET Event  BY DEF WithChain
<1>n. /\ chains \in Int /\ leaked \in Nat /\ Count(WithChain) \in Nat /\ PassedOn \in 0..1
      /\ chains + PassedOn = Count(WithChain) + leaked
  BY <1>t, CountType DEF Typed, ChainsOwned, PassedOn, One
<1>f. ASSUME NEW e \in Fresh
      PROVE  One(e, WithChain) = IF e.kind = Packet THEN 1 ELSE 0
  BY <1>f DEF Fresh, One, WithChain
<1>e. event # NoEvent => One(event, WithChain) = IF event.kind = Packet THEN 1 ELSE 0
  BY <1>f, <1>t DEF Typed
<1>6. CASE Send /\ SendFails
  <2>1. Count(WithChain)' = Count(WithChain)  BY <1>6, CountSame DEF SendFails, global, local
  <2>2. PassedOn' = PassedOn  BY <1>6 DEF SendFails, global, PassedOn, One
  <2>3. chains' = chains /\ leaked' = leaked  BY <1>6 DEF SendFails, buffers
  <2> QED  BY <1>n, <2>1, <2>2, <2>3 DEF ChainsOwned
<1>1. CASE Send /\ ~SendFails
  <2>1. PICK kind \in Kinds : SendEvent(kind)  BY <1>1, SendCases
  <2> DEFINE e == [id |-> sent + 1, kind |-> kind,
                   chain |-> IF kind = Packet THEN "original" ELSE "none"]
  <2>2. Count(WithChain)' = Count(WithChain) + One(e, WithChain) /\ e \in Event
    BY <2>1, SendCounts
  <2>3. One(e, WithChain) = IF kind = Packet THEN 1 ELSE 0  BY <2>2 DEF One, WithChain
  <2>4. chains' = (IF kind = Packet THEN chains + 1 ELSE chains) /\ leaked' = leaked
    BY <2>1 DEF SendEvent
  <2>5. PassedOn' = PassedOn  BY <2>1 DEF SendEvent, global, PassedOn, One
  <2> HIDE DEF e
  <2> QED  BY <1>n, <2>2, <2>3, <2>4, <2>5 DEF ChainsOwned
<1>2. CASE GlobalHandler
  <2>l. leaked' = leaked
    BY <1>2 DEF GlobalHandler, GetEvent, Drop, Snapshot, Skip, Prepare, CopyFails, Deliver,
                Delivered, ReleaseEvent, buffers
  <2>1. Count(WithChain)' =
          IF Prepare THEN Count(WithChain) + One(localEvent', WithChain)
          ELSE IF ReleaseEvent THEN Count(WithChain) - One(event, WithChain)
          ELSE Count(WithChain)
    BY <1>2, <1>s, GlobalCounts
  <2>2. CASE GetEvent
    <3>1. Count(WithChain)' = Count(WithChain)
      BY <2>1, <2>2 DEF GetEvent, Prepare, ReleaseEvent
    <3>2. PassedOn = 0
      BY <1>t, <2>2, <1>s, OneNoEvent DEF GetEvent, InHand, PassedOn
    <3>3. chains' = chains /\ PassedOn' = 0  BY <2>2 DEF GetEvent, PassedOn, buffers
    <3> QED  BY <1>n, <2>l, <3>1, <3>2, <3>3 DEF ChainsOwned
  <2>3. CASE Drop
    <3>1. Count(WithChain)' = Count(WithChain)
      BY <2>1, <2>3 DEF Drop, Prepare, ReleaseEvent
    <3>2. PassedOn = 0  BY <2>3 DEF Drop, PassedOn
    <3>3. PassedOn' = IF event.kind = Packet THEN 1 ELSE 0
      <4>1. pktDeliveryCount = 0 /\ event # NoEvent
        BY <1>t, <2>3 DEF Drop, CountsDown, InHand
      <4> QED  BY <1>e, <2>3, <4>1 DEF Drop, PassedOn, One
    <3>4. chains' = IF event.kind = Packet THEN chains - 1 ELSE chains  BY <2>3 DEF Drop
    <3> QED  BY <1>n, <2>l, <3>1, <3>2, <3>3, <3>4 DEF ChainsOwned
  <2>4. CASE Snapshot
    <3>1. Count(WithChain)' = Count(WithChain) /\ chains' = chains
      BY <2>1, <2>4 DEF Snapshot, Prepare, ReleaseEvent, buffers
    <3>2. PassedOn = 0 /\ event # NoEvent  BY <1>t, <2>4 DEF Snapshot, PassedOn, InHand
    <3>3. PassedOn' = 0
      <4>1. CASE event.kind = Packet  BY <2>4, <4>1 DEF Snapshot, PassedOn
      <4>2. CASE event.kind # Packet
        BY <1>e, <2>4, <3>2, <4>2 DEF Snapshot, PassedOn, One
      <4> QED  BY <4>1, <4>2
    <3> QED  BY <1>n, <2>l, <3>1, <3>2, <3>3 DEF ChainsOwned
  <2>5. CASE Skip \/ Deliver \/ Delivered
    <3>1. /\ ~Prepare /\ ~ReleaseEvent /\ chains' = chains
          /\ gpc # "distribute" /\ gpc' # "distribute"
          /\ UNCHANGED <<event, pktDeliveryCount>>
      BY <2>5 DEF Skip, Deliver, Delivered, Prepare, ReleaseEvent, buffers
    <3>2. PassedOn' = PassedOn  BY <3>1 DEF PassedOn, One
    <3> QED  BY <1>n, <2>l, <2>1, <3>1, <3>2 DEF ChainsOwned
  <2>d. ASSUME gpc = "deliver", delivery # << >>, Head(delivery) \in Takers
        PROVE  /\ event # NoEvent
               /\ event.kind = Packet => pktDeliveryCount \in Nat \ {0}
               /\ event.kind # Packet => pktDeliveryCount = 0
    <3>1. /\ SeqCount(delivery, Takers) = SeqCount(Tail(delivery), Takers) + 1
          /\ SeqCount(Tail(delivery), Takers) \in Nat
      BY <2>d, <1>t, TailToCome DEF One
    <3> QED  BY <2>d, <3>1, <1>t DEF CountsDown, ToCome, InHand
  <2>6. CASE Prepare
    <3>1. /\ event # NoEvent
          /\ event.kind = Packet => pktDeliveryCount \in Nat \ {0}
          /\ event.kind # Packet => pktDeliveryCount = 0
      BY <2>6, <2>d DEF Prepare
    <3>2. /\ localEvent' = [event EXCEPT !.chain = ChainOf] /\ event' = event
          /\ chains' = IF ChainOf = "copy" THEN chains + 1 ELSE chains
          /\ pktDeliveryCount' = CountDown
          /\ gpc = "deliver" /\ gpc' = "send"
      BY <2>6 DEF Prepare
    <3>3. localEvent' \in Event /\ localEvent'.chain = ChainOf
      BY <1>t, <3>1, <3>2 DEF Typed, Fresh, Event, ChainOf
    <3>4. One(localEvent', WithChain) = IF event.kind = Packet THEN 1 ELSE 0
      BY <3>3 DEF One, WithChain, ChainOf
    <3>5. PassedOn' = IF pktDeliveryCount' > 0 THEN 0 ELSE One(event, WithChain)
      BY <3>2 DEF PassedOn, One
    <3>6. PassedOn = IF pktDeliveryCount > 0 THEN 0 ELSE One(event, WithChain)
      BY <3>2 DEF PassedOn
    <3>7. CASE event.kind # Packet
      BY <1>n, <2>l, <1>e, <2>1, <2>6, <3>1, <3>2, <3>4, <3>5, <3>6, <3>7
      DEF ChainOf, CountDown, ChainsOwned
    <3>8. CASE event.kind = Packet /\ pktDeliveryCount > 1
      BY <1>n, <2>l, <2>1, <2>6, <3>1, <3>2, <3>4, <3>5, <3>6, <3>8
      DEF ChainOf, CountDown, ChainsOwned
    <3>9. CASE event.kind = Packet /\ pktDeliveryCount = 1
      BY <1>n, <2>l, <1>e, <2>1, <2>6, <3>1, <3>2, <3>4, <3>5, <3>6, <3>9
      DEF ChainOf, CountDown, ChainsOwned
    <3> QED  BY <3>1, <3>7, <3>8, <3>9
  <2>7. CASE CopyFails
    <3>1. ~Prepare /\ ~ReleaseEvent
      BY <2>7, <1>t DEF CopyFails, Prepare, ReleaseEvent, Typed
    <3>2. /\ event.kind = Packet /\ pktDeliveryCount > 1 /\ event' = event
          /\ pktDeliveryCount' = pktDeliveryCount - 1
          /\ gpc = "deliver" /\ gpc' = gpc /\ chains' = chains
      BY <2>7 DEF CopyFails, ChainOf, CountDown, buffers
    <3>3. PassedOn = 0 /\ PassedOn' = 0
      BY <1>t, <3>2 DEF PassedOn, Typed
    <3> QED  BY <1>n, <2>l, <2>1, <3>1, <3>2, <3>3 DEF ChainsOwned
  <2>8. CASE ReleaseEvent
    <3>1. Count(WithChain)' = Count(WithChain) - One(event, WithChain)
      BY <2>1, <2>8 DEF ReleaseEvent, Prepare
    <3>2. PassedOn = One(event, WithChain)
      BY <1>t, <2>8 DEF ReleaseEvent, PassedOn, CountsDown
    <3>3. PassedOn' = 0 /\ chains' = chains
      <4>1. One(event', WithChain) = 0  BY <2>8, <1>s, OneNoEvent DEF ReleaseEvent
      <4> QED  BY <2>8, <4>1 DEF ReleaseEvent, PassedOn, One, buffers
    <3> QED  BY <1>n, <2>l, <3>1, <3>2, <3>3 DEF ChainsOwned
  <2> QED  BY <1>2, <2>2, <2>3, <2>4, <2>5, <2>6, <2>7, <2>8 DEF GlobalHandler
<1>3. CASE \E p \in Processes : LocalHandler(p)
  <2>1. PICK p \in Processes : LocalHandler(p)  BY <1>3
  <2>2. Count(WithChain)' =
          IF Handle(p) THEN Count(WithChain) - One(held[p], WithChain)
          ELSE IF ExitThread(p) THEN Count(WithChain) - SeqCount(queue[p], WithChain)
          ELSE Count(WithChain)
    BY <2>1, <1>s, LocalCounts
  <2>3. PassedOn' = PassedOn
    <3>1. UNCHANGED <<gpc, pktDeliveryCount, event>>
      BY <2>1 DEF LocalHandler, LocalGet, Handle, ExitThread, global
    <3> QED  BY <3>1 DEF PassedOn, One
  <2>4. CASE Handle(p)
    <3>1. held[p] \in Event  BY <1>t, <2>4 DEF Handle, Typed, InHand
    <3>2. chains' = chains - One(held[p], WithChain) /\ leaked' = leaked
      BY <1>n, <2>4, <3>1 DEF Handle, One, WithChain
    <3>3. One(held[p], WithChain) \in 0..1  BY DEF One
    <3> QED  BY <1>n, <2>2, <2>3, <2>4, <3>2, <3>3 DEF ChainsOwned
  <2>5. CASE ExitThread(p) /\ ~Handle(p)
    <3>1. SeqCount(queue[p], WithChain) \in Nat  BY <1>t, SeqCountType DEF Typed
    <3>2. chains' = chains /\ leaked' = leaked + SeqCount(queue[p], WithChain)
      BY <2>5 DEF ExitThread
    <3>3. Count(WithChain)' = Count(WithChain) - SeqCount(queue[p], WithChain)
      BY <2>2, <2>5
    <3> QED  BY <1>n, <2>3, <3>1, <3>2, <3>3 DEF ChainsOwned
  <2>6. CASE ~Handle(p) /\ ~ExitThread(p)
    <3>1. chains' = chains /\ leaked' = leaked
      BY <2>1, <2>6 DEF LocalHandler, LocalGet, buffers
    <3>2. Count(WithChain)' = Count(WithChain)  BY <2>2, <2>6
    <3> QED  BY <1>n, <2>3, <3>1, <3>2 DEF ChainsOwned
  <2> QED  BY <2>4, <2>5, <2>6
<1>4. CASE \E p \in Processes :
             WakeUnsignalled(p) \/ Join(p) \/ SetMask(p) \/ Terminate(p)
  <2>1. PICK p \in Processes : WakeUnsignalled(p) \/ Join(p) \/ SetMask(p) \/ Terminate(p)
    BY <1>4
  <2>2. /\ Count(WithChain)' = Count(WithChain)
        /\ UNCHANGED <<chains, leaked, event, gpc, pktDeliveryCount>>
    BY <2>1, ProcessCounts
  <2>3. PassedOn' = PassedOn  BY <2>2 DEF PassedOn, One
  <2> QED  BY <1>n, <2>2, <2>3 DEF ChainsOwned
<1>5. CASE UNCHANGED vars
  <2>1. UNCHANGED <<eventQueue, event, localEvent, queue, held, chains, leaked, gpc,
                  pktDeliveryCount>>
    BY <1>5 DEF vars, pool, buffers, global, local
  <2>2. Count(WithChain)' = Count(WithChain)  BY <2>1, CountSame
  <2>3. PassedOn' = PassedOn  BY <2>1 DEF PassedOn, One
  <2> QED  BY <1>n, <2>1, <2>2, <2>3 DEF ChainsOwned
<1> QED  BY <1>1, <1>2, <1>3, <1>4, <1>5, <1>6 DEF Next

\* Nobody has an event or a chain at first.
LEMMA NothingAtFirst == ASSUME Init, NEW S \in SUBSET Event PROVE Count(S) = 0
<1>1. SeqCount(eventQueue, S) = 0  BY EmptyCount DEF Init
<1>2. One(event, S) = 0 /\ One(localEvent, S) = 0  BY OneNoEvent DEF Init
<1>3. Handled(held, S) = {}  BY NoEventAssumption DEF Init, Handled
<1>4. Queued(queue, S) = {}
  <2>1. \A p \in Processes : queue[p] = << >> /\ Len(queue[p]) = 0  BY EmptySeq DEF Init
  <2> QED  BY <2>1 DEF Queued
<1> QED  BY <1>1, <1>2, <1>3, <1>4, FS_EmptySet DEF Count

\* However many processes come and go, and whatever fails while an event is
\* copied for them, every event is in the pool, in exactly one place, or lost
\* where fmReleaseEvent found no memory or with a queue that was destroyed.
THEOREM Conservation == Spec => []EventsConserved
<1>1. Init => EventsConserved
  <2>1. Init => Count(Event) = 0  BY NothingAtFirst
  <2> QED  BY <2>1, PoolAssumption DEF Init, EventsConserved
<1> QED  BY <1>1, SoundInit, SoundStep, ConservedStep, PTL DEF Spec

\* Every chain of buffers in use belongs to one event that is still to be
\* handled, or went with the queue of a process that left.
THEOREM ChainsAlwaysOwned == Spec => []ChainsOwned
<1>1. Init => ChainsOwned
  <2>1. Init => Count(WithChain) = 0  BY NothingAtFirst DEF WithChain
  <2>2. One(NoEvent, WithChain) = 0  BY OneNoEvent DEF WithChain
  <2> QED  BY <2>1, <2>2 DEF Init, ChainsOwned, PassedOn
<1> QED  BY <1>1, SoundInit, SoundStep, ChainsStep, PTL DEF Spec

\* Every state has its type.  That the pool never holds nor loses more than it was
\* given, and that no chain is freed that is not in use, follows from the counts.
THEOREM TypeCorrect == Spec => []TypeOK
<1>1. Sound /\ EventsConserved /\ ChainsOwned => TypeOK
  <2> SUFFICES ASSUME Sound, EventsConserved, ChainsOwned PROVE TypeOK  OBVIOUS
  <2>1. free \in 0..MaxEvents /\ lost \in 0..MaxEvents
    BY CountType, PoolAssumption DEF Sound, Typed, EventsConserved
  <2>2. chains \in Nat
    <3>1. PassedOn <= One(event, WithChain) /\ PassedOn \in 0..1
      BY DEF PassedOn, One
    <3>2. One(event, WithChain) <= Count(WithChain)
      BY CountType DEF Count, Sound
    <3> QED  BY <3>1, <3>2, CountType DEF Sound, Typed, ChainsOwned, One
  <2>3. eventQueue \in Seq(Event)
    <3>1. Fresh \subseteq Event  BY DEF Fresh
    <3> QED  BY <3>1, SeqMonotonic DEF Sound, Typed
  <2> QED  BY <2>1, <2>2, <2>3 DEF Sound, Typed, TypeOK, Fresh
<1>2. Spec => []Sound  BY SoundInit, SoundStep, PTL DEF Spec
<1> QED  BY <1>1, <1>2, Conservation, ChainsAlwaysOwned, PTL
-----------------------------------------------------------------------------
(* Order *)

Ascending(s) == \A i, j \in 1..Len(s) : i < j => s[i].id < s[j].id
Distinct(s) == \A i, j \in 1..Len(s) : s[i].process = s[j].process => i = j
Has(p) == {e \in Event : e = held[p] \/ \E i \in 1..Len(queue[p]) : e = queue[p][i]}

\* May the process still get the event in hand?
Due(p) == \/ gpc = "distribute"
          \/ /\ gpc \in {"deliver", "send"}
             /\ \E i \in 1..Len(delivery) : delivery[i].process = p

\* What is still to be distributed is later than what is being distributed.
SourceInOrder ==
  /\ Ascending(eventQueue)
  /\ \A i \in 1..Len(eventQueue) :
       /\ eventQueue[i].id <= sent
       /\ event # NoEvent => event.id < eventQueue[i].id
  /\ event # NoEvent => event.id <= sent
  /\ localEvent # NoEvent => localEvent.id = event.id

\* A process is in the list once, and so in the snapshot.
ListedOnce ==
  /\ Distinct(subs) /\ Distinct(delivery)
  /\ \A p \in Processes : tpc[p] = "out" =>
       \A i \in 1..Len(subs) : subs[i].process # p

\* What a process has is in order, and earlier than what it may get.
ProcessInOrder(p) ==
  /\ Ascending(queue[p])
  /\ held[p] # NoEvent => \A i \in 1..Len(queue[p]) : held[p].id < queue[p][i].id
  /\ \A e \in Has(p) :
       /\ e.id <= sent
       /\ \A i \in 1..Len(eventQueue) : e.id < eventQueue[i].id
       /\ event # NoEvent => e.id <= event.id
       /\ Due(p) => e.id < event.id

Ordered == SourceInOrder /\ ListedOnce /\ \A p \in Processes : ProcessInOrder(p)

LEMMA OrderedInit == Init => Ordered
<1> SUFFICES ASSUME Init PROVE Ordered  OBVIOUS
<1>1. /\ eventQueue = << >> /\ delivery = << >> /\ event = NoEvent /\ localEvent = NoEvent
      /\ \A p \in Processes : queue[p] = << >> /\ held[p] = NoEvent
      /\ Len(<< >>) = 0
  BY EmptySeq DEF Init
<1>2. SourceInOrder  BY <1>1 DEF SourceInOrder, Ascending
<1>3. ListedOnce
  <2>1. Len(subs) = 1 /\ subs[1].process = First  BY DEF Init
  <2>2. tpc[First] = "in"  BY FirstIsProcess DEF Init
  <2> QED  BY <1>1, <2>1, <2>2 DEF ListedOnce, Distinct
<1>4. \A p \in Processes : Has(p) = {}  BY <1>1, NoEventAssumption DEF Has
<1>5. \A p \in Processes : ProcessInOrder(p)
  BY <1>1, <1>4 DEF ProcessInOrder, Ascending
<1> QED  BY <1>2, <1>3, <1>5 DEF Ordered

\* A sequence without its first element.
LEMMA TailInOrder ==
  ASSUME NEW s \in Seq(Event), s # << >>, Ascending(s)
  PROVE  /\ Ascending(Tail(s))
         /\ \A i \in 1..Len(Tail(s)) :
              Head(s).id < Tail(s)[i].id /\ \E j \in 1..Len(s) : Tail(s)[i] = s[j]
<1>1. /\ Len(s) \in Nat \ {0} /\ Len(Tail(s)) = Len(s) - 1 /\ Head(s) = s[1]
      /\ \A i \in 1..Len(s) - 1 : Tail(s)[i] = s[i + 1]
  BY LenProperties, EmptySeq, HeadTailProperties
<1>2. \A i \in 1..Len(s) - 1 : i + 1 \in 1..Len(s) /\ 1 < i + 1 /\ 1 \in 1..Len(s)  BY <1>1
<1>3. Ascending(Tail(s))
  <2> SUFFICES ASSUME NEW i \in 1..Len(s) - 1, NEW j \in 1..Len(s) - 1, i < j
               PROVE  Tail(s)[i].id < Tail(s)[j].id
    BY <1>1 DEF Ascending
  <2>1. i + 1 < j + 1  BY <1>1
  <2> QED  BY <1>1, <1>2, <2>1 DEF Ascending
<1> QED  BY <1>1, <1>2, <1>3 DEF Ascending

\* An element appended that is later than all others.
LEMMA AppendInOrder ==
  ASSUME NEW s \in Seq(Event), NEW e \in Event, Ascending(s),
         \A i \in 1..Len(s) : s[i].id < e.id
  PROVE  /\ Ascending(Append(s, e))
         /\ Len(Append(s, e)) = Len(s) + 1
         /\ \A i \in 1..Len(s) : Append(s, e)[i] = s[i]
         /\ Append(s, e)[Len(s) + 1] = e
<1>1. /\ Len(s) \in Nat /\ Len(Append(s, e)) = Len(s) + 1
      /\ \A i \in 1..Len(s) : Append(s, e)[i] = s[i]
      /\ Append(s, e)[Len(s) + 1] = e
  BY LenProperties, AppendProperties
<1>2. SUFFICES ASSUME NEW i \in 1..Len(s) + 1, NEW j \in 1..Len(s) + 1, i < j
               PROVE  Append(s, e)[i].id < Append(s, e)[j].id
  BY <1>1 DEF Ascending
<1>3. i \in 1..Len(s)  BY <1>1, <1>2
<1>4. CASE j \in 1..Len(s)  BY <1>1, <1>2, <1>3, <1>4 DEF Ascending
<1>5. CASE j = Len(s) + 1  BY <1>1, <1>3, <1>5
<1> QED  BY <1>1, <1>4, <1>5

\* The list of processes: one more, one less, and its masks.
LEMMA DistinctTail ==
  ASSUME NEW s \in Seq(LocalDelivery), s # << >>, Distinct(s)
  PROVE  /\ Distinct(Tail(s))
         /\ \A i \in 1..Len(Tail(s)) : /\ Tail(s)[i].process # Head(s).process
                                       /\ \E j \in 1..Len(s) : Tail(s)[i] = s[j]
         /\ 1 \in 1..Len(s) /\ Head(s) = s[1]
<1>1. /\ Len(s) \in Nat \ {0} /\ Len(Tail(s)) = Len(s) - 1 /\ Head(s) = s[1]
      /\ \A i \in 1..Len(s) - 1 : Tail(s)[i] = s[i + 1]
  BY LenProperties, EmptySeq, HeadTailProperties
<1>2. \A i \in 1..Len(s) - 1 : i + 1 \in 1..Len(s) /\ 1 # i + 1 /\ 1 \in 1..Len(s)  BY <1>1
<1>3. Distinct(Tail(s))
  <2> SUFFICES ASSUME NEW i \in 1..Len(s) - 1, NEW j \in 1..Len(s) - 1,
                      Tail(s)[i].process = Tail(s)[j].process
               PROVE  i = j
    BY <1>1 DEF Distinct
  <2>1. i + 1 = j + 1  BY <1>1, <1>2 DEF Distinct
  <2> QED  BY <1>1, <2>1
<1> QED  BY <1>1, <1>2, <1>3 DEF Distinct

\* The events in the queues, and their numbers.
LEMMA Numbers ==
  ASSUME Typed
  PROVE  /\ sent \in Nat /\ Len(eventQueue) \in Nat
         /\ \A i \in 1..Len(eventQueue) : eventQueue[i] \in Event /\ eventQueue[i].id \in Nat
         /\ \A p \in Processes : \A i \in 1..Len(queue[p]) :
              queue[p][i] \in Event /\ queue[p][i].id \in Nat
         /\ \A p \in Processes : \A e \in Has(p) : e \in Event /\ e.id \in Nat
         /\ event # NoEvent => event \in Event /\ event.id \in Nat
<1>0. \A e \in Event : e.id \in Nat  BY BoundsAssumption DEF Event
<1>1. eventQueue \in Seq(Event)
  BY SeqMonotonic DEF Typed, Fresh
<1>2. Len(eventQueue) \in Nat /\ \A i \in 1..Len(eventQueue) : eventQueue[i] \in Event
  BY <1>1, LenProperties, ElementOfSeq
<1>3. \A p \in Processes : \A i \in 1..Len(queue[p]) : queue[p][i] \in Event
  BY ElementOfSeq DEF Typed
<1>4. sent \in Nat  BY BoundsAssumption DEF Typed
<1>5. event # NoEvent => event \in Event  BY DEF Typed, Fresh
<1> QED  BY <1>0, <1>2, <1>3, <1>4, <1>5 DEF Has

LEMMA SendOrdered ==
  ASSUME Sound, Ordered, NEW kind \in Kinds, SendEvent(kind)
  PROVE  Ordered'
<1> USE DEF pool, buffers, global, list, local, leaving
<1> DEFINE e == [id |-> sent + 1, kind |-> kind,
                 chain |-> IF kind = Packet THEN "original" ELSE "none"]
<1>1. e \in Event  BY SendCounts
<1>2. /\ eventQueue' = Append(eventQueue, e) /\ sent' = sent + 1 /\ e.id = sent + 1
      /\ UNCHANGED <<gpc, event, localEvent, delivery, subs, queue, held, tpc>>
  BY DEF SendEvent
<1> HIDE DEF e
<1>3. eventQueue \in Seq(Event)  BY SeqMonotonic DEF Sound, Typed, Fresh
<1>n. /\ sent \in Nat /\ Len(eventQueue) \in Nat
      /\ \A i \in 1..Len(eventQueue) : eventQueue[i].id \in Nat
      /\ \A p \in Processes : \A x \in Has(p) : x.id \in Nat
      /\ event # NoEvent => event.id \in Nat
  BY Numbers DEF Sound
<1>o. SourceInOrder /\ ListedOnce /\ \A p \in Processes : ProcessInOrder(p)  BY DEF Ordered
<1>4. \A i \in 1..Len(eventQueue) : eventQueue[i].id < e.id
  BY <1>2, <1>n, <1>o DEF SourceInOrder
<1>5. /\ Ascending(eventQueue')
      /\ Len(eventQueue') = Len(eventQueue) + 1
      /\ \A i \in 1..Len(eventQueue) : eventQueue'[i] = eventQueue[i]
      /\ eventQueue'[Len(eventQueue) + 1] = e
  BY <1>1, <1>2, <1>3, <1>4, <1>o, AppendInOrder DEF SourceInOrder
<1>6. \A i \in 1..Len(eventQueue') : i \in 1..Len(eventQueue) \/ i = Len(eventQueue) + 1
  BY <1>5, <1>n
<1>7. SourceInOrder'
  BY <1>2, <1>5, <1>6, <1>n, <1>o DEF SourceInOrder, Ascending
<1>8. ListedOnce'  BY <1>2, <1>o DEF ListedOnce, Distinct
<1>9. ASSUME NEW p \in Processes PROVE ProcessInOrder(p)'
  <2>1. Has(p)' = Has(p) /\ Due(p)' = Due(p)  BY <1>2 DEF Has, Due
  <2> QED  BY <1>2, <1>5, <1>6, <1>n, <1>o, <2>1 DEF ProcessInOrder, Ascending
<1> QED  BY <1>7, <1>8, <1>9 DEF Ordered

\* A step of the event thread that leaves the queues alone.
LEMMA QuietlyOrdered ==
  ASSUME Sound, Ordered,
         UNCHANGED <<sent, eventQueue, queue, subs, tpc>>,
         event' \in {event, NoEvent}, localEvent' \in {localEvent, NoEvent, event'}
           \/ localEvent'.id = event'.id,
         event' = NoEvent => localEvent' = NoEvent,
         Distinct(delivery'),
         \A p \in Processes : held'[p] \in {held[p], NoEvent},
         \A p \in Processes : Due(p)' => Due(p) /\ event' = event
  PROVE  Ordered'
<1>o. SourceInOrder /\ ListedOnce /\ \A p \in Processes : ProcessInOrder(p)  BY DEF Ordered
<1>1. SourceInOrder'
  BY <1>o DEF SourceInOrder, Ascending
<1>2. ListedOnce'  BY <1>o DEF ListedOnce, Distinct
<1>3. ASSUME NEW p \in Processes PROVE ProcessInOrder(p)'
  <2>1. \A e \in Has(p)' : e \in Has(p)  BY NoEventAssumption DEF Has
  <2> QED  BY <1>o, <2>1 DEF ProcessInOrder, Ascending
<1> QED  BY <1>1, <1>2, <1>3 DEF Ordered

LEMMA GlobalOrdered ==
  ASSUME Sound, Ordered, GlobalHandler
  PROVE  Ordered'
<1> USE DEF pool, buffers, producer, global, list, local, leaving
<1>t. Typed /\ InHand  BY DEF Sound
<1>o. SourceInOrder /\ ListedOnce /\ \A p \in Processes : ProcessInOrder(p)  BY DEF Ordered
<1>n. /\ sent \in Nat /\ Len(eventQueue) \in Nat
      /\ \A i \in 1..Len(eventQueue) : eventQueue[i] \in Event /\ eventQueue[i].id \in Nat
      /\ \A p \in Processes : \A i \in 1..Len(queue[p]) :
           queue[p][i] \in Event /\ queue[p][i].id \in Nat
      /\ \A p \in Processes : \A x \in Has(p) : x.id \in Nat
      /\ event # NoEvent => event.id \in Nat
  BY <1>t, Numbers
<1>d. ASSUME delivery # << >>
      PROVE  /\ Distinct(Tail(delivery))
             /\ \A i \in 1..Len(Tail(delivery)) :
                  /\ Tail(delivery)[i].process # Head(delivery).process
                  /\ \E j \in 1..Len(delivery) : Tail(delivery)[i] = delivery[j]
             /\ 1 \in 1..Len(delivery) /\ Head(delivery) = delivery[1]
  BY <1>d, <1>t, <1>o, DistinctTail DEF Typed, ListedOnce
<1>1. CASE GetEvent
  <2>1. eventQueue \in Seq(Event) /\ eventQueue # << >>
    BY <1>1, <1>t, SeqMonotonic DEF GetEvent, Typed, Fresh
  <2>2. /\ event' = Head(eventQueue) /\ eventQueue' = Tail(eventQueue)
        /\ UNCHANGED <<sent, localEvent, delivery, subs, queue, held, tpc>>
    BY <1>1 DEF GetEvent
  <2>3. /\ Ascending(eventQueue')
        /\ \A i \in 1..Len(eventQueue') :
             /\ event'.id < eventQueue'[i].id
             /\ \E j \in 1..Len(eventQueue) : eventQueue'[i] = eventQueue[j]
    BY <2>1, <2>2, <1>o, TailInOrder DEF SourceInOrder
  <2>4. event' = eventQueue[1] /\ 1 \in 1..Len(eventQueue)
    BY <2>1, <2>2, <1>n, EmptySeq, HeadTailProperties
  <2>5. localEvent = NoEvent  BY <1>1, <1>t DEF GetEvent, InHand
  <2>6. SourceInOrder'
    BY <1>o, <2>2, <2>3, <2>4, <2>5 DEF SourceInOrder
  <2>7. ListedOnce'  BY <1>o, <2>2 DEF ListedOnce, Distinct
  <2>8. ASSUME NEW p \in Processes PROVE ProcessInOrder(p)'
    <3>1. Has(p)' = Has(p)  BY <2>2 DEF Has
    <3>2. \A e \in Has(p) : e.id < event'.id /\ e.id <= event'.id
      BY <1>o, <1>n, <2>4 DEF ProcessInOrder
    <3> QED  BY <1>o, <2>2, <2>3, <3>1, <3>2 DEF ProcessInOrder, Ascending
  <2> QED  BY <2>6, <2>7, <2>8 DEF Ordered
<1>2. CASE Drop
  <2>1. Distinct(delivery')  BY <1>2, <1>o DEF Drop, ListedOnce, Distinct
  <2>2. \A p \in Processes : Due(p)' => Due(p) /\ event' = event  BY <1>2 DEF Drop, Due
  <2>3. event # NoEvent  BY <1>2, <1>t DEF Drop, InHand
  <2> QED  BY <1>2, <2>1, <2>2, <2>3, QuietlyOrdered DEF Drop
<1>3. CASE Snapshot
  <2>1. Distinct(delivery')  BY <1>3, <1>o DEF Snapshot, ListedOnce, Distinct
  <2>2. \A p \in Processes : Due(p)' => Due(p) /\ event' = event  BY <1>3 DEF Snapshot, Due
  <2>3. event # NoEvent  BY <1>3, <1>t DEF Snapshot, InHand
  <2> QED  BY <1>3, <2>1, <2>2, <2>3, QuietlyOrdered DEF Snapshot
<1>4. CASE Skip \/ CopyFails
  <2>1. /\ gpc = "deliver" /\ gpc' = "deliver" /\ delivery # << >>
        /\ delivery' = Tail(delivery)
        /\ UNCHANGED <<sent, eventQueue, queue, subs, tpc, event, localEvent, held>>
    BY <1>4 DEF Skip, CopyFails
  <2>2. Distinct(delivery')  BY <1>d, <2>1
  <2>3. \A p \in Processes : Due(p)' => Due(p) /\ event' = event  BY <1>d, <2>1 DEF Due
  <2>4. event # NoEvent  BY <2>1, <1>t DEF InHand
  <2> QED  BY <2>1, <2>2, <2>3, <2>4, QuietlyOrdered
<1>5. CASE Prepare
  <2>1. Distinct(delivery')  BY <1>5, <1>o DEF Prepare, ListedOnce, Distinct
  <2>2. \A p \in Processes : Due(p)' => Due(p) /\ event' = event  BY <1>5 DEF Prepare, Due
  <2>3. event # NoEvent  BY <1>5, <1>t DEF Prepare, InHand
  <2>4. localEvent'.id = event'.id
    BY <1>5, <1>t, <2>3 DEF Prepare, Typed, Fresh, Event
  <2> QED  BY <1>5, <2>1, <2>2, <2>3, <2>4, QuietlyOrdered DEF Prepare
<1>6. CASE Deliver
  <2>0. Head(delivery).process \in Processes
    <3>1. Head(delivery) \in LocalDelivery
      BY <1>6, <1>t, HeadTailProperties DEF Deliver, InHand, Typed
    <3> QED  BY <3>1 DEF LocalDelivery
  <2>3. PICK p \in Processes : p = Head(delivery).process  BY <2>0
  <2>1. /\ gpc = "send" /\ gpc' = "deliver" /\ delivery # << >>
        /\ delivery' = Tail(delivery) /\ localEvent' = NoEvent
        /\ queue' = [queue EXCEPT ![p] = Append(queue[p], localEvent)]
        /\ UNCHANGED <<sent, eventQueue, event, held, subs, tpc>>
    BY <1>6, <1>t, <2>3 DEF Deliver, InHand
  <2>2. localEvent \in Event /\ event # NoEvent  BY <2>1, <1>t DEF Typed, InHand
  <2>4. /\ Distinct(Tail(delivery))
        /\ \A i \in 1..Len(Tail(delivery)) :
             /\ Tail(delivery)[i].process # p
             /\ \E j \in 1..Len(delivery) : Tail(delivery)[i] = delivery[j]
        /\ 1 \in 1..Len(delivery) /\ p = delivery[1].process
    BY <1>d, <2>1, <2>3
  <2>5. Due(p)  BY <2>1, <2>4 DEF Due
  <2>6. /\ localEvent.id = event.id /\ event.id <= sent
        /\ \A i \in 1..Len(eventQueue) : event.id < eventQueue[i].id
    BY <1>o, <2>2, NoEventAssumption DEF SourceInOrder
  <2>7. queue \in [Processes -> Seq(Event)] /\ queue[p] \in Seq(Event)
    BY <1>t, <2>3 DEF Typed
  <2>8. \A e \in Has(p) : e.id < localEvent.id  BY <1>o, <2>3, <2>5, <2>6 DEF ProcessInOrder
  <2>9. \A i \in 1..Len(queue[p]) : queue[p][i] \in Has(p)  BY <1>n, <2>3 DEF Has
  <2>10. queue'[p] = Append(queue[p], localEvent)
    BY <2>1, <2>3, <2>7
  <2>11. /\ Ascending(queue'[p])
         /\ Len(queue'[p]) = Len(queue[p]) + 1
         /\ \A i \in 1..Len(queue[p]) : queue'[p][i] = queue[p][i]
         /\ queue'[p][Len(queue[p]) + 1] = localEvent
    BY <1>o, <2>2, <2>3, <2>7, <2>8, <2>9, <2>10, AppendInOrder DEF ProcessInOrder
  <2>12. \A i \in 1..Len(queue'[p]) : i \in 1..Len(queue[p]) \/ i = Len(queue[p]) + 1
    <3>1. Len(queue[p]) \in Nat  BY <2>7, LenProperties
    <3> QED  BY <3>1, <2>11
  <2>13. SourceInOrder'  BY <1>o, <2>1 DEF SourceInOrder, Ascending
  <2>14. ListedOnce'  BY <1>o, <2>1, <2>4 DEF ListedOnce, Distinct
  <2>15. ProcessInOrder(p)'
    <3>1. \A e \in Has(p)' : e \in Has(p) \/ e = localEvent
      BY <2>1, <2>11, <2>12 DEF Has
    <3>2. ~Due(p)'  BY <2>1, <2>4 DEF Due
    <3>3. held[p] # NoEvent => held[p] \in Has(p)
      BY <1>t, <2>3 DEF Has, Typed
    <3>4. \A e \in Has(p)' : /\ e.id <= sent /\ e.id <= event.id
                             /\ \A i \in 1..Len(eventQueue) : e.id < eventQueue[i].id
      BY <1>n, <1>o, <2>2, <2>3, <2>6, <3>1 DEF ProcessInOrder
    <3>5. held'[p] # NoEvent => \A i \in 1..Len(queue'[p]) : held'[p].id < queue'[p][i].id
      BY <1>o, <2>1, <2>3, <2>8, <2>11, <2>12, <3>3 DEF ProcessInOrder
    <3> QED  BY <2>1, <2>11, <3>2, <3>4, <3>5 DEF ProcessInOrder
  <2>16. ASSUME NEW q \in Processes, q # p PROVE ProcessInOrder(q)'
    <3>1. queue'[q] = queue[q]  BY <2>1, <2>7, <2>16
    <3>2. Has(q)' = Has(q)  BY <2>1, <3>1 DEF Has
    <3>3. Due(q)' => Due(q)  BY <2>1, <2>4 DEF Due
    <3> QED  BY <1>o, <2>1, <3>1, <3>2, <3>3 DEF ProcessInOrder, Ascending
  <2>17. \A q \in Processes : ProcessInOrder(q)'  BY <2>15, <2>16
  <2> QED  BY <2>13, <2>14, <2>17 DEF Ordered
<1>7. CASE Delivered
  <2>1. Distinct(delivery')  BY <1>7, <1>o DEF Delivered, ListedOnce, Distinct
  <2>2. \A p \in Processes : Due(p)' => Due(p) /\ event' = event  BY <1>7 DEF Delivered, Due
  <2>3. event # NoEvent  BY <1>7, <1>t DEF Delivered, InHand
  <2> QED  BY <1>7, <2>1, <2>2, <2>3, QuietlyOrdered DEF Delivered
<1>8. CASE ReleaseEvent
  <2>1. Distinct(delivery')  BY <1>8, <1>o DEF ReleaseEvent, ListedOnce, Distinct
  <2>2. \A p \in Processes : ~Due(p)'  BY <1>8 DEF ReleaseEvent, Due
  <2>3. localEvent = NoEvent  BY <1>8, <1>t DEF ReleaseEvent, InHand
  <2> QED  BY <1>8, <2>1, <2>2, <2>3, QuietlyOrdered DEF ReleaseEvent
<1> QED  BY <1>1, <1>2, <1>3, <1>4, <1>5, <1>6, <1>7, <1>8 DEF GlobalHandler

LEMMA LocalOrdered ==
  ASSUME Sound, Ordered, NEW p \in Processes, LocalHandler(p) \/ WakeUnsignalled(p)
  PROVE  Ordered'
<1> USE DEF pool, buffers, producer, global, list, local, leaving
<1>t. Typed /\ InHand  BY DEF Sound
<1>o. SourceInOrder /\ ListedOnce /\ \A q \in Processes : ProcessInOrder(q)  BY DEF Ordered
<1>1. CASE LocalGet(p) /\ Take(p)
  <2>1. /\ queue[p] \in Seq(Event) /\ queue[p] # << >>
        /\ queue' = [queue EXCEPT ![p] = Tail(queue[p])]
        /\ held' = [held EXCEPT ![p] = Head(queue[p])]
        /\ UNCHANGED <<sent, eventQueue, gpc, event, localEvent, delivery, subs, tpc>>
    BY <1>1, <1>t DEF LocalGet, Take, Typed
  <2>2. queue'[p] = Tail(queue[p]) /\ held'[p] = Head(queue[p])
    BY <1>t, <2>1 DEF Typed
  <2>3. /\ Ascending(queue'[p])
        /\ \A i \in 1..Len(queue'[p]) :
             held'[p].id < queue'[p][i].id /\ \E j \in 1..Len(queue[p]) : queue'[p][i] = queue[p][j]
    <3>1. Ascending(queue[p])  BY <1>o DEF ProcessInOrder
    <3>2. /\ Ascending(Tail(queue[p]))
          /\ \A i \in 1..Len(Tail(queue[p])) :
               /\ Head(queue[p]).id < Tail(queue[p])[i].id
               /\ \E j \in 1..Len(queue[p]) : Tail(queue[p])[i] = queue[p][j]
      BY <2>1, <3>1, TailInOrder
    <3> QED  BY <2>2, <3>2
  <2>4. held'[p] = queue[p][1] /\ 1 \in 1..Len(queue[p])
    BY <2>1, <2>2, LenProperties, EmptySeq, HeadTailProperties
  <2>5. \A e \in Has(p)' : e \in Has(p)  BY <2>3, <2>4 DEF Has
  <2>6. \A q \in Processes : Due(q)' = Due(q)  BY <2>1 DEF Due
  <2>7. ProcessInOrder(p)'
    BY <1>o, <2>1, <2>3, <2>5, <2>6 DEF ProcessInOrder
  <2>8. ASSUME NEW q \in Processes, q # p PROVE ProcessInOrder(q)'
    <3>1. queue'[q] = queue[q] /\ held'[q] = held[q]  BY <1>t, <2>1, <2>8 DEF Typed
    <3>2. Has(q)' = Has(q)  BY <3>1 DEF Has
    <3> QED  BY <1>o, <2>1, <2>6, <3>1, <3>2 DEF ProcessInOrder, Ascending
  <2>9. SourceInOrder' /\ ListedOnce'
    BY <1>o, <2>1 DEF SourceInOrder, ListedOnce, Ascending, Distinct
  <2>10. \A q \in Processes : ProcessInOrder(q)'  BY <2>7, <2>8
  <2> QED  BY <2>9, <2>10 DEF Ordered
<1>2. CASE \/ LocalGet(p) /\ ~Take(p)
           \/ WakeUnsignalled(p) \/ Handle(p)
  <2>1. /\ UNCHANGED <<sent, eventQueue, queue, subs, tpc, event, localEvent, delivery, gpc>>
        /\ held' = held \/ held' = [held EXCEPT ![p] = NoEvent]
    BY <1>2 DEF LocalGet, LocalGoto, WakeUnsignalled, Handle
  <2>2. \A q \in Processes : held'[q] \in {held[q], NoEvent}  BY <1>t, <2>1 DEF Typed
  <2>3. \A q \in Processes : Due(q)' => Due(q) /\ event' = event  BY <2>1 DEF Due
  <2>4. Distinct(delivery')  BY <1>o, <2>1 DEF ListedOnce, Distinct
  <2>5. event' = NoEvent => localEvent' = NoEvent  BY <1>t, <2>1 DEF InHand
  <2> QED  BY <2>1, <2>2, <2>3, <2>4, <2>5, QuietlyOrdered
<1>3. CASE ExitThread(p)
  <2>1. /\ UNCHANGED <<sent, eventQueue, subs, tpc, event, localEvent, delivery, gpc, held>>
        /\ queue' = [queue EXCEPT ![p] = << >>]
    BY <1>3 DEF ExitThread
  <2>2. /\ queue'[p] = << >> /\ Len(<< >>) = 0
        /\ \A q \in Processes : q # p => queue'[q] = queue[q]
    BY <1>t, <2>1, EmptySeq DEF Typed
  <2>3. \A q \in Processes : Has(q)' \subseteq Has(q) /\ Due(q)' = Due(q)
    BY <2>1, <2>2 DEF Has, Due
  <2>4. ASSUME NEW q \in Processes PROVE ProcessInOrder(q)'
    <3>1. CASE q = p  BY <1>o, <2>1, <2>2, <2>3, <3>1 DEF ProcessInOrder, Ascending
    <3>2. CASE q # p  BY <1>o, <2>1, <2>2, <2>3, <3>2 DEF ProcessInOrder, Ascending
    <3> QED  BY <3>1, <3>2
  <2>5. SourceInOrder' /\ ListedOnce'
    BY <1>o, <2>1 DEF SourceInOrder, ListedOnce, Ascending, Distinct
  <2> QED  BY <2>4, <2>5 DEF Ordered
<1> QED  BY <1>1, <1>2, <1>3 DEF LocalHandler

LEMMA ProcessOrdered ==
  ASSUME Sound, Ordered, NEW p \in Processes, Join(p) \/ SetMask(p) \/ Terminate(p)
  PROVE  Ordered'
<1> USE DEF pool, buffers, producer, global, list, local, leaving
<1>t. Typed /\ InHand  BY DEF Sound
<1>o. SourceInOrder /\ ListedOnce /\ \A q \in Processes : ProcessInOrder(q)  BY DEF Ordered
<1>1. UNCHANGED <<sent, eventQueue, gpc, event, localEvent, delivery, queue, held>>
  BY DEF Join, SetMask, Terminate, RemoveHandler, SetExit, Signal, WaitExit
<1>2. SourceInOrder' /\ \A q \in Processes : ProcessInOrder(q)'
  BY <1>1, <1>o DEF SourceInOrder, ProcessInOrder, Ascending, Has, Due
<1>3. Distinct(delivery')  BY <1>1, <1>o DEF ListedOnce, Distinct
<1>l. /\ Len(subs) \in Nat /\ \A j \in 1..Len(subs) : subs[j] \in LocalDelivery
      /\ Distinct(subs)
      /\ \A q \in Processes : tpc[q] = "out" => \A i \in 1..Len(subs) : subs[i].process # q
  BY <1>t, <1>o, LenProperties, ElementOfSeq DEF Typed, ListedOnce
<1>4. CASE Join(p)
  <2> DEFINE d == [process |-> p, mask |-> IF subs = << >> THEN Kinds ELSE Kinds \ {Packet}]
  <2>1. d \in LocalDelivery /\ d.process = p  BY DEF LocalDelivery
  <2>2. subs' = Append(subs, d) /\ tpc[p] = "out" /\ tpc' = [tpc EXCEPT ![p] = "in"]
    BY <1>4 DEF Join
  <2> HIDE DEF d
  <2>3. /\ Len(subs') = Len(subs) + 1
        /\ \A i \in 1..Len(subs) : subs'[i] = subs[i]
        /\ subs'[Len(subs) + 1] = d
    BY <1>t, <2>1, <2>2, AppendProperties DEF Typed
  <2>4. \A i \in 1..Len(subs') : i \in 1..Len(subs) \/ i = Len(subs) + 1  BY <1>l, <2>3
  <2>5. Distinct(subs')  BY <1>l, <2>1, <2>2, <2>3, <2>4 DEF Distinct
  <2>6. \A q \in Processes : tpc'[q] = "out" => tpc[q] = "out" /\ q # p
    BY <1>t, <2>2 DEF Typed
  <2>7. ListedOnce'  BY <1>3, <1>l, <2>1, <2>3, <2>4, <2>5, <2>6 DEF ListedOnce
  <2> QED  BY <1>2, <2>7 DEF Ordered
<1>5. CASE SetMask(p)
  <2>1. PICK m \in SUBSET Kinds :
          subs' = [i \in 1..Len(subs) |->
                     IF subs[i].process = p THEN [subs[i] EXCEPT !.mask = m] ELSE subs[i]]
    BY <1>5 DEF SetMask
  <2>2. \A i \in 1..Len(subs) : subs'[i].process = subs[i].process
    BY <1>l, <2>1 DEF LocalDelivery
  <2>3. Len(subs') = Len(subs)
    <3>1. subs' \in [1..Len(subs) -> LocalDelivery]  BY <1>l, <2>1 DEF LocalDelivery
    <3>2. subs' \in Seq(LocalDelivery)  BY <1>l, <3>1, SeqDef
    <3> QED  BY <1>l, <3>1, <3>2, LenProperties
  <2>4. tpc' = tpc  BY <1>5 DEF SetMask
  <2>5. ListedOnce'  BY <1>3, <1>l, <2>2, <2>3, <2>4 DEF ListedOnce, Distinct
  <2> QED  BY <1>2, <2>5 DEF Ordered
<1>6. CASE RemoveHandler(p)
  <2>1. PICK k \in 1..Len(subs) :
          subs' = SubSeq(subs, 1, k - 1) \o SubSeq(subs, k + 1, Len(subs))
    BY <1>6 DEF RemoveHandler
  <2> DEFINE u == SubSeq(subs, 1, k - 1)
             v == SubSeq(subs, k + 1, Len(subs))
             n == Len(subs)
  <2>2. /\ u \in Seq(LocalDelivery) /\ Len(u) = k - 1
        /\ \A i \in 1..k - 1 : u[i] = subs[i]
    <3>1. k - 1 \in Int /\ \A j \in 1..k - 1 : subs[j] \in LocalDelivery  BY <1>l
    <3>2. /\ u \in Seq(LocalDelivery) /\ Len(u) = IF 1 <= k - 1 THEN k - 1 - 1 + 1 ELSE 0
          /\ \A i \in 1..k - 1 - 1 + 1 : u[i] = subs[1 + i - 1]
      BY ONLY <3>1, SubSeqProperties
    <3> HIDE DEF u
    <3>3. Len(u) = k - 1  BY <1>l, <3>2
    <3>4. ASSUME NEW i \in 1..k - 1 PROVE u[i] = subs[i]
      <4>1. i \in 1..k - 1 - 1 + 1 /\ 1 + i - 1 = i  BY <1>l, <3>4
      <4> QED  BY ONLY <3>2, <4>1
    <3> QED  BY <3>2, <3>3, <3>4
  <2>3. /\ v \in Seq(LocalDelivery) /\ Len(v) = n - k
        /\ \A i \in 1..n - k : v[i] = subs[k + i]
    <3>1. /\ k + 1 \in Int /\ n \in Int
          /\ \A j \in k + 1..n : subs[j] \in LocalDelivery
      BY <1>l
    <3>2. /\ v \in Seq(LocalDelivery) /\ Len(v) = IF k + 1 <= n THEN n - (k + 1) + 1 ELSE 0
          /\ \A i \in 1..n - (k + 1) + 1 : v[i] = subs[(k + 1) + i - 1]
      BY ONLY <3>1, SubSeqProperties
    <3> HIDE DEF v
    <3>3. Len(v) = n - k  BY <1>l, <3>2
    <3>4. ASSUME NEW i \in 1..n - k PROVE v[i] = subs[k + i]
      <4>1. i \in 1..n - (k + 1) + 1 /\ (k + 1) + i - 1 = k + i  BY <1>l, <3>4
      <4> QED  BY ONLY <3>2, <4>1
    <3> QED  BY <3>2, <3>3, <3>4
  <2> HIDE DEF u, v, n
  <2>4. /\ Len(subs') = Len(u) + Len(v)
        /\ \A i \in 1..Len(u) + Len(v) : subs'[i] = IF i <= Len(u) THEN u[i] ELSE v[i - Len(u)]
    BY <2>1, <2>2, <2>3, ConcatProperties DEF u, v, n
  <2>n. n \in Nat /\ k \in 1..n /\ n = Len(subs)  BY <1>l DEF n
  <2>5. /\ Len(subs') = n - 1
        /\ \A i \in 1..n - 1 : subs'[i] = IF i < k THEN subs[i] ELSE subs[i + 1]
    <3>1. Len(subs') = n - 1  BY <2>2, <2>3, <2>4, <2>n
    <3>2. ASSUME NEW i \in 1..n - 1, i < k PROVE subs'[i] = subs[i]
      <4>1. i \in 1..k - 1  BY <2>n, <3>2
      <4>l. i \in 1..Len(u) + Len(v) /\ i <= Len(u)  BY <2>2, <2>3, <2>n, <3>2
      <4>2. subs'[i] = u[i]  BY ONLY <2>4, <4>l
      <4> QED  BY <2>2, <4>1, <4>2
    <3>3. ASSUME NEW i \in 1..n - 1, ~(i < k) PROVE subs'[i] = subs[i + 1]
      <4>1. i - (k - 1) \in 1..n - k /\ k + (i - (k - 1)) = i + 1  BY <2>n, <3>3
      <4>l. /\ i \in 1..Len(u) + Len(v) /\ ~(i <= Len(u))
            /\ i - Len(u) = i - (k - 1)
        BY <2>2, <2>3, <2>n, <3>3
      <4>2. subs'[i] = v[i - (k - 1)]  BY ONLY <2>4, <4>l
      <4> QED  BY <2>3, <4>1, <4>2
    <3> QED  BY <3>1, <3>2, <3>3
  <2> DEFINE from(i) == IF i < k THEN i ELSE i + 1
  <2>6. \A i \in 1..n - 1 : from(i) \in 1..n /\ subs'[i] = subs[from(i)]  BY <2>5, <2>n
  <2>7. \A i, j \in 1..n - 1 : from(i) = from(j) => i = j  BY <2>n
  <2> HIDE DEF from
  <2>8. Distinct(subs')  BY <1>l, <2>5, <2>6, <2>7, <2>n DEF Distinct
  <2>9. \A q \in Processes : tpc'[q] = "out" => tpc[q] = "out"
    BY <1>6, <1>t DEF RemoveHandler, Typed
  <2>10. ListedOnce'  BY <1>3, <1>l, <2>5, <2>6, <2>8, <2>9, <2>n DEF ListedOnce
  <2> QED  BY <1>2, <2>10 DEF Ordered
<1>7. CASE SetExit(p) \/ Signal(p) \/ WaitExit(p)
  <2>1. /\ subs' = subs
        /\ \A q \in Processes : tpc'[q] = "out" => tpc[q] = "out"
    BY <1>7, <1>t DEF SetExit, Signal, WaitExit, Typed
  <2>2. ListedOnce'  BY <1>3, <1>l, <2>1 DEF ListedOnce, Distinct
  <2> QED  BY <1>2, <2>2 DEF Ordered
<1> QED  BY <1>4, <1>5, <1>6, <1>7 DEF Terminate

LEMMA OrderedStep == Sound /\ Ordered /\ [Next]_vars => Ordered'
<1> SUFFICES ASSUME Sound, Ordered, [Next]_vars PROVE Ordered'  OBVIOUS
<1>1. CASE Send /\ ~SendFails
  <2>1. PICK kind \in Kinds : SendEvent(kind)  BY <1>1, SendCases
  <2> QED  BY <2>1, SendOrdered
<1>2. CASE UNCHANGED vars \/ SendFails
  <2>1. UNCHANGED <<sent, eventQueue, queue, subs, tpc, event, localEvent, delivery, gpc, held>>
    BY <1>2 DEF vars, SendFails, producer, global, list, local, leaving
  <2> QED
    BY <2>1 DEF Ordered, SourceInOrder, ListedOnce, ProcessInOrder, Ascending, Distinct, Has, Due
<1> QED  BY <1>1, <1>2, GlobalOrdered, LocalOrdered, ProcessOrdered DEF Next

\* One sequence in order after another.
LEMMA ConcatInOrder ==
  ASSUME NEW s \in Seq(Event), NEW t \in Seq(Event), Ascending(s), Ascending(t),
         \A i \in 1..Len(s) : \A j \in 1..Len(t) : s[i].id < t[j].id
  PROVE  /\ s \o t \in Seq(Event) /\ Ascending(s \o t)
         /\ \A i \in 1..Len(s \o t) : \/ \E j \in 1..Len(s) : (s \o t)[i] = s[j]
                                      \/ \E j \in 1..Len(t) : (s \o t)[i] = t[j]
<1>1. /\ Len(s) \in Nat /\ Len(t) \in Nat
      /\ s \o t \in Seq(Event) /\ Len(s \o t) = Len(s) + Len(t)
      /\ \A i \in 1..Len(s) + Len(t) :
           (s \o t)[i] = IF i <= Len(s) THEN s[i] ELSE t[i - Len(s)]
  BY LenProperties, ConcatProperties
<1> DEFINE m == Len(s)
           n == Len(t)
           w == s \o t
<1> HIDE DEF m, n, w
<1>2. /\ m \in Nat /\ n \in Nat /\ Len(w) = m + n
      /\ \A i \in 1..m + n : w[i] = IF i <= m THEN s[i] ELSE t[i - m]
  BY <1>1 DEF m, n, w
<1>3. \A i \in 1..m + n : i \in 1..m \/ (i > m /\ i - m \in 1..n)  BY <1>2
<1>4. ASSUME NEW i \in 1..m + n, NEW j \in 1..m + n, i < j PROVE w[i].id < w[j].id
  <2>1. CASE j \in 1..m
    <3>1. i \in 1..m  BY <1>2, <1>4, <2>1
    <3> QED  BY <1>2, <1>4, <2>1, <3>1 DEF Ascending, m
  <2>2. CASE i \in 1..m /\ j > m /\ j - m \in 1..n
    <3>1. w[i] = s[i] /\ w[j] = t[j - m]  BY <1>2, <2>2
    <3> QED  BY <2>2, <3>1 DEF m, n
  <2>3. CASE i > m /\ j > m /\ i - m \in 1..n /\ j - m \in 1..n
    <3>1. w[i] = t[i - m] /\ w[j] = t[j - m] /\ i - m < j - m  BY <1>2, <1>4, <2>3
    <3> QED  BY <2>3, <3>1 DEF Ascending, n
  <2> QED  BY <1>2, <1>3, <2>1, <2>2, <2>3
<1>5. \A i \in 1..m + n : \/ \E j \in 1..m : w[i] = s[j]
                          \/ \E j \in 1..n : w[i] = t[j]
  BY <1>2, <1>3
<1> QED  BY <1>1, <1>2, <1>4, <1>5 DEF Ascending, m, n, w

LEMMA UpcomingInOrder ==
  ASSUME Sound, Ordered, NEW p \in Processes
  PROVE  Ascending(Upcoming(p))
<1>t. Typed /\ InHand  BY DEF Sound
<1>o. SourceInOrder /\ ListedOnce /\ ProcessInOrder(p)  BY DEF Ordered
<1>e. << >> \in Seq(Event) /\ Len(<< >>) = 0 /\ Ascending(<< >>)  BY EmptySeq DEF Ascending
<1>s. \A x \in Event : <<x>> \in Seq(Event) /\ Len(<<x>>) = 1 /\ <<x>>[1] = x /\ Ascending(<<x>>)
  BY DEF Ascending
<1> DEFINE a == IF held[p] = NoEvent THEN << >> ELSE <<held[p]>>
           b == queue[p]
           c == IF gpc = "send" /\ Head(delivery).process = p THEN <<localEvent>> ELSE << >>
           d == IF gpc = "deliver" /\ Awaits(p, delivery) THEN <<event>> ELSE << >>
           f == IF gpc = "send" /\ Awaits(p, Tail(delivery)) THEN <<event>> ELSE << >>
           has == a \o b
<1>1. Upcoming(p) = has \o c \o d \o f \o eventQueue  BY DEF Upcoming
<1>2. /\ has \in Seq(Event) /\ Ascending(has)
      /\ \A i \in 1..Len(has) : has[i] \in Has(p)
  <2>1. a \in Seq(Event) /\ Ascending(a)  BY <1>e, <1>s, <1>t DEF Typed
  <2>2. b \in Seq(Event) /\ Ascending(b)  BY <1>t, <1>o DEF Typed, ProcessInOrder
  <2>3. \A i \in 1..Len(a) : a[i] = held[p] /\ a[i] \in Event  BY <1>e, <1>s, <1>t DEF Typed
  <2>4. \A i \in 1..Len(a) : \A j \in 1..Len(b) : a[i].id < b[j].id
    BY <1>o, <2>3, NoEventAssumption DEF ProcessInOrder
  <2>5. \A i \in 1..Len(b) : b[i] \in Has(p)
    BY <2>2, ElementOfSeq DEF Has
  <2>6. \A i \in 1..Len(a) : a[i] \in Has(p)  BY <2>3 DEF Has
  <2> HIDE DEF a, b
  <2> QED  BY <2>1, <2>2, <2>4, <2>5, <2>6, ConcatInOrder
<1>3. PICK x \in Seq(Event) :
        /\ has \o c \o d \o f = has \o x /\ Ascending(x)
        /\ \A i \in 1..Len(x) : x[i].id = event.id /\ event # NoEvent /\ Due(p)
  <2> HIDE DEF has
  <2>0. \A r \in Seq(Event) : r \o << >> = r  BY ConcatEmptySeq
  <2>1. CASE gpc = "send" /\ Head(delivery).process = p
    <3>1. /\ delivery # << >> /\ localEvent \in Event /\ event # NoEvent
          /\ localEvent.id = event.id
      BY <1>t, <1>o, <2>1, NoEventAssumption DEF InHand, Typed, SourceInOrder
    <3>2. /\ \A i \in 1..Len(Tail(delivery)) : Tail(delivery)[i].process # p
          /\ 1 \in 1..Len(delivery) /\ Head(delivery) = delivery[1]
      BY <1>t, <1>o, <2>1, <3>1, DistinctTail DEF ListedOnce, Typed
    <3>3. c = <<localEvent>> /\ d = << >> /\ f = << >>  BY <2>1, <3>2 DEF Awaits
    <3>4. Due(p)  BY <2>1, <3>2 DEF Due
    <3>5. has \o <<localEvent>> \in Seq(Event)  BY <1>2, <1>s, <3>1, ConcatProperties
    <3>6. has \o c \o d \o f = has \o <<localEvent>>  BY <2>0, <3>3, <3>5
    <3> HIDE DEF c, d, f
    <3> DEFINE y == <<localEvent>>
    <3>7. y \in Seq(Event) /\ Ascending(y) /\ Len(y) = 1 /\ y[1] = localEvent
      BY <1>s, <3>1
    <3> HIDE DEF y
    <3>8. \A i \in 1..Len(y) : y[i].id = event.id  BY <3>1, <3>7
    <3>9. has \o c \o d \o f = has \o y  BY <3>6 DEF y
    <3> QED  BY <3>1, <3>4, <3>7, <3>8, <3>9
  <2>2. CASE gpc = "deliver" /\ Awaits(p, delivery)
    <3>1. event \in Event /\ event # NoEvent
      BY <1>t, <2>2 DEF InHand, Typed, Fresh
    <3>2. c = << >> /\ d = <<event>> /\ f = << >>  BY <2>2
    <3>3. Due(p)  BY <2>2 DEF Due, Awaits
    <3>4. has \o <<event>> \in Seq(Event)  BY <1>2, <1>s, <3>1, ConcatProperties
    <3>5. has \o c \o d \o f = has \o <<event>>  BY <1>2, <2>0, <3>2, <3>4
    <3> HIDE DEF c, d, f
    <3> DEFINE y == <<event>>
    <3>7. y \in Seq(Event) /\ Ascending(y) /\ Len(y) = 1 /\ y[1] = event
      BY <1>s, <3>1
    <3> HIDE DEF y
    <3>8. \A i \in 1..Len(y) : y[i].id = event.id  BY <3>7
    <3>9. has \o c \o d \o f = has \o y  BY <3>5 DEF y
    <3> QED  BY <3>1, <3>3, <3>7, <3>8, <3>9
  <2>3. CASE gpc = "send" /\ Head(delivery).process # p /\ Awaits(p, Tail(delivery))
    <3>1. event \in Event /\ event # NoEvent /\ delivery # << >>
      BY <1>t, <2>3 DEF InHand, Typed, Fresh
    <3>2. c = << >> /\ d = << >> /\ f = <<event>>  BY <2>3
    <3>3. Due(p)
      <4>1. \A i \in 1..Len(Tail(delivery)) :
              \E j \in 1..Len(delivery) : Tail(delivery)[i] = delivery[j]
        BY <1>t, <1>o, <3>1, DistinctTail DEF ListedOnce, Typed
      <4> QED  BY <2>3, <4>1 DEF Due, Awaits
    <3>4. has \o c \o d \o f = has \o <<event>>  BY <1>2, <2>0, <3>2
    <3> HIDE DEF c, d, f
    <3> DEFINE y == <<event>>
    <3>7. y \in Seq(Event) /\ Ascending(y) /\ Len(y) = 1 /\ y[1] = event
      BY <1>s, <3>1
    <3> HIDE DEF y
    <3>8. \A i \in 1..Len(y) : y[i].id = event.id  BY <3>7
    <3>9. has \o c \o d \o f = has \o y  BY <3>4 DEF y
    <3> QED  BY <3>1, <3>3, <3>7, <3>8, <3>9
  <2>4. CASE /\ ~(gpc = "send" /\ Head(delivery).process = p)
             /\ ~(gpc = "deliver" /\ Awaits(p, delivery))
             /\ ~(gpc = "send" /\ Awaits(p, Tail(delivery)))
    <3>1. c = << >> /\ d = << >> /\ f = << >>  BY <2>4
    <3>2. has \o c \o d \o f = has \o << >>  BY <1>2, <2>0, <3>1
    <3> HIDE DEF c, d, f
    <3>3. \A i \in 1..Len(<< >>) : FALSE  BY <1>e
    <3> QED  BY <1>e, <3>2, <3>3
  <2> QED  BY <2>1, <2>2, <2>3, <2>4
<1> HIDE DEF a, b, c, d, f, has
<1>4. /\ has \o x \in Seq(Event) /\ Ascending(has \o x)
      /\ \A i \in 1..Len(has \o x) : \/ \E j \in 1..Len(has) : (has \o x)[i] = has[j]
                                     \/ \E j \in 1..Len(x) : (has \o x)[i] = x[j]
  <2>1. \A i \in 1..Len(has) : \A j \in 1..Len(x) : has[i].id < x[j].id
    BY <1>2, <1>3, <1>o DEF ProcessInOrder
  <2> QED  BY <1>2, <1>3, <2>1, ConcatInOrder
<1>5. eventQueue \in Seq(Event) /\ Ascending(eventQueue)
  BY <1>t, <1>o, SeqMonotonic DEF Typed, Fresh, SourceInOrder
<1>6. \A i \in 1..Len(has \o x) : \A j \in 1..Len(eventQueue) :
        (has \o x)[i].id < eventQueue[j].id
  <2>1. \A i \in 1..Len(has) : \A j \in 1..Len(eventQueue) : has[i].id < eventQueue[j].id
    BY <1>2, <1>o DEF ProcessInOrder
  <2>2. \A i \in 1..Len(x) : \A j \in 1..Len(eventQueue) : x[i].id < eventQueue[j].id
    BY <1>3, <1>o DEF SourceInOrder
  <2> QED  BY <1>4, <2>1, <2>2
<1>7. Ascending((has \o x) \o eventQueue)
  <2> DEFINE y == has \o x
  <2>1. /\ y \in Seq(Event) /\ Ascending(y)
        /\ \A i \in 1..Len(y) : \A j \in 1..Len(eventQueue) : y[i].id < eventQueue[j].id
    BY <1>4, <1>6
  <2> HIDE DEF y
  <2>2. Ascending(y \o eventQueue)  BY <1>5, <2>1, ConcatInOrder
  <2> QED  BY <2>2 DEF y
<1> QED  BY <1>1, <1>3, <1>7

\* Whoever joins, leaves or changes its mask, and whatever fails, a process gets
\* events in the order in which they were sent, and none twice.
THEOREM OrderKept == Spec => []InOrder
<1>1. Sound /\ Ordered => InOrder  BY UpcomingInOrder DEF InOrder, Ascending
<1> QED  BY <1>1, SoundInit, SoundStep, OrderedInit, OrderedStep, PTL DEF Spec
=============================================================================
