---------------------------- MODULE EventDispatch ----------------------------
(***************************************************************************)
(* From the event thread to the processes: fmGlobalEventHandler,           *)
(* fmDistributeEvent and fmLocalEventHandler of                            *)
(* src/api/fm_api_event_handler.c, with the processes that join and leave  *)
(* (fmInitialize, fmTerminate of src/api/fm_api_init.c).                   *)
(*                                                                         *)
(* The event thread holds one event while it allocates another for each    *)
(* process that asked for the type, so it depends on the pool, and the     *)
(* gate of the pool on it.  A received packet travels as a chain of        *)
(* buffers that belongs to one event at a time; every process but the last *)
(* gets a copy. The queues are those of ThreadEvents, adding and           *)
(* signalling in one step, and the pool is the counter of EventPool. Left  *)
(* out: what the event thread does to a switch, the events a switch        *)
(* aggregate hands to its own handler instead (eventHandler), buffer       *)
(* queues by frame priority, and packets of a switch that does not exist,  *)
(* whose chain is not freed.                                               *)
(***************************************************************************)
EXTENDS Integers, Sequences, FiniteSets

CONSTANTS Processes,
          First,        \* the process that called fmInitialize first
          NoEvent,      \* no event
          MaxEvents,    \* FM_MAX_EVENTS
          Reserve,      \* what low-priority callers leave of blockThreshold
          DispatchQueueSize,            \* FM_DISPATCH_QUEUE_SIZE
          MaxSent,      \* bound: how many events are sent at all
          Burst,        \* bound: how many of them at high priority
          MaskChanges   \* bound: how often a mask is set

ASSUME ProcessesAssumption == IsFiniteSet(Processes)
ASSUME FirstIsProcess == First \in Processes
ASSUME PoolAssumption == MaxEvents \in Nat /\ Reserve \in 0..MaxEvents
ASSUME BoundsAssumption == /\ DispatchQueueSize \in Nat \ {0}
                           /\ MaxSent \in Nat /\ Burst \in Nat /\ MaskChanges \in Nat

Packet == "FM_EVENT_PKT_RECV"
Other  == "FM_EVENT_PORT"
Kinds  == {Packet, Other}

\* An event, with its chain: the one received, a copy, or none.
Event == [id : 1..MaxSent, kind : Kinds, chain : {"original", "copy", "none"}]
ASSUME NoEventAssumption == NoEvent \notin Event

\* fm_localDelivery: a process, and the types its thread takes.
LocalDelivery == [process : Processes, mask : SUBSET Kinds]

VARIABLES
  free, lost,        \* fmEventFreeQueue.size, and events in no queue any more
  sent, burst,       \* how many events were sent, how many at high priority
  eventQueue,        \* the queue of the event thread
  gpc, event,        \* where fmGlobalEventHandler is, and its event
  delivery,          \* what is left of the snapshot of fmDistributeEvent
  pktDeliveryCount,
  localEvent,
  subs,              \* localDeliveryThreads
  changes,           \* how often a mask was set
  queue,             \* of each process's local dispatch thread
  lpc, held,         \* where fmLocalEventHandler is, and its event
  tpc, exit,         \* where fmTerminate is, and localDispatchThreadExit
  chains, leaked     \* chains of buffers in use, and those that went with a queue

pool     == <<free, lost>>
buffers  == <<chains, leaked>>
producer == <<sent, burst>>
global   == <<gpc, event, delivery, pktDeliveryCount, localEvent>>
list     == <<subs, changes>>
local    == <<queue, lpc, held>>
leaving  == <<tpc, exit>>
vars == <<pool, producer, eventQueue, global, list, local, leaving, buffers>>

TypeOK ==
  /\ free \in 0..MaxEvents /\ lost \in 0..MaxEvents
  /\ sent \in 0..MaxSent /\ burst \in 0..Burst
  /\ eventQueue \in Seq(Event)
  /\ gpc \in {"get", "distribute", "deliver", "send", "release"}
  /\ event \in Event \cup {NoEvent} /\ localEvent \in Event \cup {NoEvent}
  /\ delivery \in Seq(LocalDelivery) /\ pktDeliveryCount \in Nat
  /\ subs \in Seq(LocalDelivery)
  /\ changes \in 0..MaskChanges
  /\ queue \in [Processes -> Seq(Event)]
  /\ lpc \in [Processes -> {"none", "get", "wait", "again", "handle", "exit", "gone"}]
  /\ held \in [Processes -> Event \cup {NoEvent}]
  /\ tpc \in [Processes -> {"out", "in", "exit", "signal", "join", "left"}]
  /\ exit \subseteq Processes
  /\ chains \in Nat /\ leaked \in Nat

\* The first process has initialized: its thread takes every type.
Init ==
  /\ free = MaxEvents /\ lost = 0
  /\ sent = 0 /\ burst = 0
  /\ eventQueue = << >>
  /\ gpc = "get" /\ event = NoEvent /\ localEvent = NoEvent
  /\ delivery = << >> /\ pktDeliveryCount = 0
  /\ subs = <<[process |-> First, mask |-> Kinds]>> /\ changes = 0
  /\ queue = [p \in Processes |-> << >>]
  /\ lpc = [p \in Processes |-> IF p = First THEN "get" ELSE "none"]
  /\ held = [p \in Processes |-> NoEvent]
  /\ tpc = [p \in Processes |-> IF p = First THEN "in" ELSE "out"]
  /\ exit = {}
  /\ chains = 0 /\ leaked = 0

\* fmReleaseEvent, which ignores that fmEventQueueAdd may find no memory.
Release == \/ free' = free + 1 /\ UNCHANGED lost
           \/ lost' = lost + 1 /\ UNCHANGED free
-----------------------------------------------------------------------------
(* Threads that send to the event thread *)

\* The event is in the queue, a packet with its chain.
SendEvent(kind) ==
  /\ free > 0 /\ sent < MaxSent
  /\ free' = free - 1
  /\ sent' = sent + 1
  /\ chains' = IF kind = Packet THEN chains + 1 ELSE chains
  /\ eventQueue' = Append(eventQueue,
       [id |-> sent + 1, kind |-> kind,
        chain |-> IF kind = Packet THEN "original" ELSE "none"])
  /\ UNCHANGED <<lost, leaked, global, list, local, leaving>>

\* fmSendThreadEvent fails, the caller frees the chain and releases the event, and
\* for that there is no memory either; a release that succeeds changes nothing.
SendFails ==
  /\ free > 0
  /\ free' = free - 1 /\ lost' = lost + 1
  /\ UNCHANGED <<sent, eventQueue, global, list, local, leaving, buffers>>

\* fmAllocateEvent blocks low priority below blockThreshold.  A caller may slip
\* through (module EventPool); what all those who can leave is the Reserve.
SendLow == /\ free > Reserve
           /\ SendFails \/ \E kind \in Kinds : SendEvent(kind)
           /\ UNCHANGED burst

\* fmSendSoftwareEvent and others ask for high priority.
SendHigh == /\ burst < Burst
            /\ burst' = burst + 1
            /\ SendFails \/ SendEvent(Other)
-----------------------------------------------------------------------------
(* fmGlobalEventHandler *)

\* Mutant: the latest event first.
GetEventLast == /\ gpc = "get" /\ eventQueue # << >>
                /\ event' = eventQueue[Len(eventQueue)]
                /\ eventQueue' = SubSeq(eventQueue, 1, Len(eventQueue) - 1)
                /\ gpc' = "distribute"
                /\ UNCHANGED <<pool, producer, delivery, pktDeliveryCount, localEvent,
                               list, local, leaving, buffers>>

GetEvent == /\ gpc = "get" /\ eventQueue # << >>
            /\ event' = Head(eventQueue)
            /\ eventQueue' = Tail(eventQueue)
            /\ gpc' = "distribute"
            /\ UNCHANGED <<pool, producer, delivery, pktDeliveryCount, localEvent,
                           list, local, leaving, buffers>>

\* Nobody gets the event: its switch is not up, or nobody asked for packets.
Drop == /\ gpc = "distribute"
        /\ gpc' = "release"
        /\ chains' = IF event.kind = Packet THEN chains - 1 ELSE chains
        /\ UNCHANGED <<pool, producer, eventQueue, event, delivery, pktDeliveryCount,
                       localEvent, list, local, leaving, leaked>>

\* How many elements of s are in S.
SeqCount(s, S) == Cardinality({i \in 1..Len(s) : s[i] \in S})

Takers == {d \in LocalDelivery : event.kind \in d.mask}

\* fmDistributeEvent copies the list under localDeliveryLock.
Snapshot == /\ gpc = "distribute"
            /\ event.kind = Packet => SeqCount(subs, Takers) > 0
            /\ delivery' = subs
            /\ pktDeliveryCount' = IF event.kind = Packet THEN SeqCount(subs, Takers) ELSE 0
            /\ gpc' = "deliver"
            /\ UNCHANGED <<pool, producer, eventQueue, event, localEvent,
                           list, local, leaving, buffers>>

\* A process in the snapshot that did not ask for the type.
Skip == /\ gpc = "deliver" /\ delivery # << >> /\ Head(delivery) \notin Takers
        /\ delivery' = Tail(delivery)
        /\ UNCHANGED <<pool, producer, eventQueue, gpc, event, pktDeliveryCount,
                       localEvent, list, local, leaving, buffers>>

\* Mutant: the last process gets a copy too.
ChainOfCopied == "copy"

ChainOf == IF event.kind # Packet THEN "none"
           ELSE IF pktDeliveryCount > 1 THEN "copy" ELSE "original"
CountDown == IF event.kind = Packet THEN pktDeliveryCount - 1 ELSE 0

\* Mutant: NULL is not looked for.
PrepareUnchecked ==
  /\ gpc = "deliver" /\ delivery # << >> /\ Head(delivery) \in Takers
  /\ free' = free - 1
  /\ localEvent' = [event EXCEPT !.chain = ChainOf]
  /\ pktDeliveryCount' = CountDown
  /\ chains' = IF ChainOf = "copy" THEN chains + 1 ELSE chains
  /\ gpc' = "send"
  /\ UNCHANGED <<lost, producer, eventQueue, event, delivery, list, local,
                 leaving, leaked>>

\* fmAllocateEvent, at high priority and as often as it takes.
Prepare ==
  /\ gpc = "deliver" /\ delivery # << >> /\ Head(delivery) \in Takers /\ free > 0
  /\ free' = free - 1
  /\ localEvent' = [event EXCEPT !.chain = ChainOf]
  /\ pktDeliveryCount' = CountDown
  /\ chains' = IF ChainOf = "copy" THEN chains + 1 ELSE chains
  /\ gpc' = "send"
  /\ UNCHANGED <<lost, producer, eventQueue, event, delivery, list, local,
                 leaving, leaked>>

\* Mutant: the event allocated for the copy is forgotten.
CopyFailsForgotten ==
  /\ gpc = "deliver" /\ delivery # << >> /\ Head(delivery) \in Takers /\ free > 0
  /\ ChainOf = "copy"
  /\ free' = free - 1
  /\ pktDeliveryCount' = CountDown
  /\ delivery' = Tail(delivery)
  /\ UNCHANGED <<lost, producer, eventQueue, gpc, event, localEvent, list, local,
                 leaving, buffers>>

\* fmDuplicateBufferChain fails: the process misses the packet, and the event
\* allocated for it is released.
CopyFails ==
  /\ gpc = "deliver" /\ delivery # << >> /\ Head(delivery) \in Takers /\ free > 0
  /\ ChainOf = "copy"
  /\ \/ UNCHANGED pool
     \/ free' = free - 1 /\ lost' = lost + 1
  /\ pktDeliveryCount' = CountDown
  /\ delivery' = Tail(delivery)
  /\ UNCHANGED <<producer, eventQueue, gpc, event, localEvent, list, local,
                 leaving, buffers>>

\* fmSendThreadEvent, as often as it takes: the queue of a thread that is gone
\* has lost its lock and takes no event.
HasRoom(p) == lpc[p] # "gone" /\ Len(queue[p]) < DispatchQueueSize

\* Mutant: the event is added without a signal.
SignalledNot(p) == lpc

\* The thread is woken if it waits.
Signalled(p) == IF lpc[p] = "wait" THEN [lpc EXCEPT ![p] = "again"] ELSE lpc

Deliver == /\ gpc = "send"
           /\ LET p == Head(delivery).process
              IN  /\ HasRoom(p)
                  /\ queue' = [queue EXCEPT ![p] = Append(@, localEvent)]
                  /\ lpc' = Signalled(p)
           /\ delivery' = Tail(delivery)
           /\ localEvent' = NoEvent
           /\ gpc' = "deliver"
           /\ UNCHANGED <<pool, producer, eventQueue, event, pktDeliveryCount,
                          list, held, leaving, buffers>>

Delivered == /\ gpc = "deliver" /\ delivery = << >>
             /\ gpc' = "release"
             /\ UNCHANGED <<pool, producer, eventQueue, event, delivery,
                            pktDeliveryCount, localEvent, list, local, leaving, buffers>>

ReleaseEvent == /\ gpc = "release"
                /\ Release
                /\ event' = NoEvent
                /\ gpc' = "get"
                /\ UNCHANGED <<producer, eventQueue, delivery, pktDeliveryCount,
                               localEvent, list, local, leaving, buffers>>
-----------------------------------------------------------------------------
(* fmLocalEventHandler of a process, and fmGetThreadEvent *)

Take(p) == /\ queue[p] # << >>
           /\ held' = [held EXCEPT ![p] = Head(queue[p])]
           /\ queue' = [queue EXCEPT ![p] = Tail(@)]
           /\ lpc' = [lpc EXCEPT ![p] = "handle"]

LocalGoto(p, label) == /\ lpc' = [lpc EXCEPT ![p] = label]
                       /\ UNCHANGED <<queue, held>>

\* Found empty before the wait and after it; only then exit is looked at.
LocalGet(p) == /\ \/ lpc[p] \in {"get", "again"} /\ Take(p)
                  \/ lpc[p] = "get" /\ queue[p] = << >> /\ LocalGoto(p, "wait")
                  \/ /\ lpc[p] = "again" /\ queue[p] = << >>
                     /\ LocalGoto(p, IF p \in exit THEN "exit" ELSE "get")
               /\ UNCHANGED <<pool, producer, eventQueue, global, list, leaving, buffers>>

\* The wait may end without a signal.
WakeUnsignalled(p) == /\ lpc[p] = "wait"
                      /\ LocalGoto(p, "again")
                      /\ UNCHANGED <<pool, producer, eventQueue, global, list, leaving, buffers>>

\* fmEventHandler, which owns the chain and frees it; then fmReleaseEvent.
Handle(p) == /\ lpc[p] = "handle"
             /\ Release
             /\ chains' = IF held[p].chain = "none" THEN chains ELSE chains - 1
             /\ held' = [held EXCEPT ![p] = NoEvent]
             /\ lpc' = [lpc EXCEPT ![p] = "get"]
             /\ UNCHANGED <<producer, eventQueue, global, list, queue, leaving, leaked>>

WithChain == {e \in Event : e.chain # "none"}

\* fmExitThread destroys the queue, its lock and its list; whatever event is
\* still in it is in no queue any more, and its chain goes with it.
ExitThread(p) ==
  /\ lpc[p] = "exit"
  /\ lpc' = [lpc EXCEPT ![p] = "gone"]
  /\ queue' = [queue EXCEPT ![p] = << >>]
  /\ lost' = lost + Len(queue[p])
  /\ leaked' = leaked + SeqCount(queue[p], WithChain)
  /\ UNCHANGED <<free, producer, eventQueue, global, list, held, leaving, chains>>
-----------------------------------------------------------------------------
(* fmInitialize, fmSetProcessEventMask and fmTerminate of a process *)

\* CreateLocalDispatchThread: only the first process takes packets.
Join(p) == /\ tpc[p] = "out"
           /\ tpc' = [tpc EXCEPT ![p] = "in"]
           /\ subs' = Append(subs,
                [process |-> p, mask |-> IF subs = << >> THEN Kinds ELSE Kinds \ {Packet}])
           /\ lpc' = [lpc EXCEPT ![p] = "get"]
           /\ UNCHANGED <<pool, producer, eventQueue, global, changes, queue, held, exit, buffers>>

SetMask(p) == /\ tpc[p] = "in" /\ changes < MaskChanges
              /\ changes' = changes + 1
              /\ \E m \in SUBSET Kinds :
                   subs' = [i \in 1..Len(subs) |->
                              IF subs[i].process = p THEN [subs[i] EXCEPT !.mask = m]
                              ELSE subs[i]]
              /\ UNCHANGED <<pool, producer, eventQueue, global, local, leaving, buffers>>

\* fmRemoveEventHandler takes the process off the list, not off a snapshot.
RemoveHandler(p) == /\ tpc[p] = "in" /\ p # First
                    /\ tpc' = [tpc EXCEPT ![p] = "exit"]
                    /\ \E i \in 1..Len(subs) :
                         /\ subs[i].process = p
                         /\ subs' = SubSeq(subs, 1, i - 1) \o SubSeq(subs, i + 1, Len(subs))
                    /\ UNCHANGED <<pool, producer, eventQueue, global, changes,
                                   local, exit, buffers>>

SetExit(p) == /\ tpc[p] = "exit"
              /\ tpc' = [tpc EXCEPT ![p] = "signal"]
              /\ exit' = exit \cup {p}
              /\ UNCHANGED <<pool, producer, eventQueue, global, list, local, buffers>>

\* fmSignalThreadEventHandler wakes the thread if it waits, and is lost else.
Signal(p) == /\ tpc[p] = "signal"
             /\ tpc' = [tpc EXCEPT ![p] = "join"]
             /\ lpc' = Signalled(p)
             /\ UNCHANGED <<pool, producer, eventQueue, global, list, queue, held, exit, buffers>>

\* fmWaitThreadExit
WaitExit(p) == /\ tpc[p] = "join" /\ lpc[p] = "gone"
               /\ tpc' = [tpc EXCEPT ![p] = "left"]
               /\ UNCHANGED <<pool, producer, eventQueue, global, list, local, exit, buffers>>

Terminate(p) == RemoveHandler(p) \/ SetExit(p) \/ Signal(p) \/ WaitExit(p)
-----------------------------------------------------------------------------
Send == SendLow \/ SendHigh

GlobalHandler == \/ GetEvent \/ Drop \/ Snapshot \/ Skip \/ Prepare
                 \/ CopyFails \/ Deliver \/ Delivered \/ ReleaseEvent

LocalHandler(p) == LocalGet(p) \/ Handle(p) \/ ExitThread(p)

Next == \/ Send
        \/ GlobalHandler
        \/ \E p \in Processes : \/ LocalHandler(p) \/ WakeUnsignalled(p)
                                \/ Join(p) \/ SetMask(p) \/ Terminate(p)

\* Threads that can run do run, and so do the retries of fmDistributeEvent.
Fairness == /\ WF_vars(GlobalHandler)
            /\ \A p \in Processes : WF_vars(LocalHandler(p))
            /\ \A p \in Processes : WF_vars(SetExit(p) \/ Signal(p) \/ WaitExit(p))

Spec == Init /\ [][Next]_vars
LiveSpec == Spec /\ Fairness
-----------------------------------------------------------------------------
\* How many of the events in S are in use, each counted where it is.
One(e, S) == IF e \in S THEN 1 ELSE 0
Queued(q, S) ==
  UNION {{<<p, i>> : i \in {i \in 1..Len(q[p]) : q[p][i] \in S}} : p \in Processes}
Handled(h, S) == {p \in Processes : h[p] \in S}
Count(S) == SeqCount(eventQueue, S) + One(event, S) + One(localEvent, S)
            + Cardinality(Queued(queue, S)) + Cardinality(Handled(held, S))

\* fmDistributeEvent and the handlers release no event twice and forget none,
\* whatever fails in between: "Free the event so that it is not lost"
\* (fmDistributeEvent).  Events go where fmReleaseEvent finds no memory and with
\* the queue of a process that leaves, and nowhere else.
EventsConserved == free + Count(Event) + lost = MaxEvents

\* The event thread's event owns its chain until the last process gets it.
PassedOn == IF gpc = "distribute" \/ pktDeliveryCount > 0 THEN 0 ELSE One(event, WithChain)

\* Every chain in use belongs to exactly one event that is still to be handled,
\* the one received as well as each copy, or went with the queue of a process
\* that left: what fmDistributeEvent frees, copies and passes on is neither
\* forgotten nor freed twice, whatever the masks become while it delivers.
ChainsOwned == chains + PassedOn = Count(WithChain) + leaked

\* What a process holds, has queued, is being sent and is still to be sent.
Awaits(p, s) == \E i \in 1..Len(s) : s[i].process = p /\ s[i] \in Takers
Upcoming(p) ==
  (IF held[p] = NoEvent THEN << >> ELSE <<held[p]>>) \o queue[p]
  \o (IF gpc = "send" /\ Head(delivery).process = p THEN <<localEvent>> ELSE << >>)
  \o (IF gpc = "deliver" /\ Awaits(p, delivery) THEN <<event>> ELSE << >>)
  \o (IF gpc = "send" /\ Awaits(p, Tail(delivery)) THEN <<event>> ELSE << >>)
  \o eventQueue

\* Every process gets events in the order in which they were sent, and none
\* twice, through the retries of fmDistributeEvent.
InOrder == \A p \in Processes : \A i, j \in 1..Len(Upcoming(p)) :
             i < j => Upcoming(p)[i].id < Upcoming(p)[j].id

\* Every event sent is handled by whoever gets it and out of everybody's hands
\* at last, although the event thread waits for the pool with an event in its
\* hands: the gate keeps low-priority callers from the last free events.  Not so
\* once a process leaves, as fmDistributeEvent never gives up on a thread that is
\* gone, nor once fewer than one event of the reserve is left to copy to.
NobodyLeaves == \A p \in Processes : tpc[p] \in {"out", "in"}
EveryEventFinishes ==
  \A n \in 1..MaxSent :
    sent >= n ~> (NobodyLeaves /\ lost < Reserve - Burst =>
                    Count({e \in Event : e.id = n}) = 0)

\* "Terminates the local event dispatch thread and reclaims all resources"
\* (TerminateLocalDispatchThread): a process that calls fmTerminate comes back.
TerminateReturns == \A p \in Processes : tpc[p] = "exit" ~> tpc[p] = "left"
=============================================================================
