---------------------------- MODULE ThreadEvents ----------------------------
(***************************************************************************)
(* The event queue of an fm_thread: fmSendThreadEvent, fmGetThreadEvent    *)
(* and fmSignalThreadEventHandler of src/alos/linux/fm_alos_threads.c over *)
(* the queue of src/alos/linux/fm_alos_event_queue.c.                      *)
(*                                                                         *)
(* Senders are any threads of the API; the handler is the thread that owns *)
(* the queue and calls fmGetThreadEvent in a loop.  The waiter mutex is    *)
(* held across steps only by the handler: a sender that takes it signals   *)
(* and releases it without reading anything else, one step here.           *)
(***************************************************************************)
EXTENDS EventQueue

CONSTANTS Events,    \* the fm_event objects
          NoEvent,   \* a NULL fm_event pointer
          Senders,   \* the threads that send
          MaxSize,   \* q->max
          Timeouts   \* the timeouts the handler waits with

Forever == "FM_WAIT_FOREVER"
Zero    == "zero"
Timed   == "timed"

ASSUME NoEventIsNoEvent == NoEvent \notin Events
ASSUME MaxSizeIsNat     == MaxSize \in Nat
ASSUME TimeoutKinds     == Timeouts \subseteq {Forever, Zero, Timed}

VARIABLES
  queue,    \* thread->events
  free,     \* the events nobody uses
  spc,      \* where each sender is in fmSendThreadEvent
  sent,     \* the event each sender passes, NoEvent outside the call
  hpc,      \* where the handler is in fmGetThreadEvent
  timeout,  \* the timeout of the handler's call
  event,    \* the handler's *eventPtr
  status    \* what the handler's last call returned

vars == <<queue, free, spc, sent, hpc, timeout, event, status>>
senderVars  == <<spc, sent>>
handlerVars == <<hpc, timeout, event, status>>

TypeOK ==
  /\ queue \in QueueOf(Events)
  /\ free \subseteq Events
  /\ spc \in [Senders -> {"idle", "check", "add", "signal"}]
  /\ sent \in [Senders -> Events \cup {NoEvent}]
  /\ hpc \in {"idle", "lock", "get", "sleep", "wait", "woken", "getAgain", "handle"}
  /\ timeout \in {Forever, Zero, Timed}
  /\ event \in Events \cup {NoEvent}
  /\ status \in {"FM_OK", "FM_ERR_NO_EVENTS_AVAILABLE"}

Init ==
  /\ queue = EmptyQueue
  /\ free = Events
  /\ spc = [s \in Senders |-> "idle"]
  /\ sent = [s \in Senders |-> NoEvent]
  /\ hpc = "idle"
  /\ timeout = Forever
  /\ event = NoEvent
  /\ status = "FM_OK"

\* The waiter mutex is the handler's from its lock to its wait or its unlock.
WaiterFree == hpc \notin {"get", "sleep"}

-----------------------------------------------------------------------------
(* fmSendThreadEvent *)

Begin(s) == /\ spc[s] = "idle"
            /\ \E e \in free : /\ free' = free \ {e}
                               /\ sent' = [sent EXCEPT ![s] = e]
            /\ spc' = [spc EXCEPT ![s] = "check"]
            /\ UNCHANGED <<queue, handlerVars>>

\* An error goes back to the caller, who releases the event it could not send.
Fail(s) == /\ spc' = [spc EXCEPT ![s] = "idle"]
           /\ free' = free \cup {sent[s]}
           /\ sent' = [sent EXCEPT ![s] = NoEvent]
           /\ UNCHANGED <<queue, handlerVars>>

\* fmEventQueueAdd reads the counter before it takes accessLock.
CheckFull(s) == /\ spc[s] = "check"
                /\ queue.size = MaxSize
                /\ Fail(s)

CheckRoom(s) == /\ spc[s] = "check"
                /\ queue.size # MaxSize
                /\ spc' = [spc EXCEPT ![s] = "add"]
                /\ UNCHANGED <<queue, free, sent, handlerVars>>

\* Mutant: the argument is cleared before it is added.
AddCleared(s) == /\ spc[s] = "add"
                 /\ sent' = [sent EXCEPT ![s] = NoEvent]
                 /\ queue' = InsertEnd(queue, sent'[s])
                 /\ spc' = [spc EXCEPT ![s] = "signal"]
                 /\ UNCHANGED <<free, handlerVars>>

Add(s) == /\ spc[s] = "add"
          /\ queue' = InsertEnd(queue, sent[s])
          /\ spc' = [spc EXCEPT ![s] = "signal"]
          /\ sent' = [sent EXCEPT ![s] = NoEvent]
          /\ UNCHANGED <<free, handlerVars>>

\* fmDListInsertEndV2 found no memory for the list node.
AddNoMem(s) == spc[s] = "add" /\ Fail(s)

\* pthread_cond_signal: it wakes the handler if it waits, else nothing happens.
WakeHandler == hpc' = IF hpc = "wait" THEN "woken" ELSE hpc

\* Mutant: the condition is signalled without the mutex.
SignalUnlocked(s) == /\ spc[s] = "signal"
                     /\ WakeHandler
                     /\ spc' = [spc EXCEPT ![s] = "idle"]
                     /\ UNCHANGED <<queue, free, sent, timeout, event, status>>

Signal(s) == /\ spc[s] = "signal"
             /\ WaiterFree
             /\ WakeHandler
             /\ spc' = [spc EXCEPT ![s] = "idle"]
             /\ UNCHANGED <<queue, free, sent, timeout, event, status>>

\* fmSignalThreadEventHandler: the signal without an event.
SignalHandler == /\ WaiterFree
                 /\ WakeHandler
                 /\ UNCHANGED <<queue, free, senderVars, timeout, event, status>>

\* fmEventQueueRemove by the sender of an event that still is in the queue; of
\* any other event it changes nothing and returns FM_ERR_NO_MORE.
Withdraw == \E i \in 1..Len(queue.list) :
               /\ queue.list[i] \in queue.linked
               /\ queue' = RemoveNode(queue, i)
               /\ free' = free \cup {queue.list[i]}
               /\ UNCHANGED <<senderVars, handlerVars>>
-----------------------------------------------------------------------------
(* fmGetThreadEvent *)

Call == /\ hpc = "idle"
        /\ timeout' \in Timeouts
        /\ hpc' = "lock"
        /\ UNCHANGED <<queue, free, senderVars, event, status>>

LockWaiter == /\ hpc = "lock"
              /\ hpc' = "get"
              /\ UNCHANGED <<queue, free, senderVars, timeout, event, status>>

\* Mutant: fmEventQueuePeek for fmEventQueueGet.
TakePeeked == /\ queue.list # << >>
              /\ event' = Head(queue.list)
              /\ status' = "FM_OK"
              /\ hpc' = "handle"
              /\ UNCHANGED <<queue, free, senderVars, timeout>>

\* fmEventQueueGet on a queue with an event: the call returns FM_OK with it.
Take == /\ queue.list # << >>
        /\ event' = Head(queue.list)
        /\ queue' = RemoveHead(queue)
        /\ status' = "FM_OK"
        /\ hpc' = "handle"
        /\ UNCHANGED <<free, senderVars, timeout>>

\* fmEventQueueGet on an empty queue, and the call that gives up.
GiveUp == /\ queue.list = << >>
          /\ status' = "FM_ERR_NO_EVENTS_AVAILABLE"
          /\ hpc' = "idle"
          /\ UNCHANGED <<queue, free, senderVars, timeout, event>>

Get == /\ hpc = "get"
       /\ \/ Take
          \/ timeout = Zero /\ GiveUp
          \/ /\ queue.list = << >>
             /\ timeout # Zero
             /\ hpc' = "sleep"
             /\ UNCHANGED <<queue, free, senderVars, timeout, event, status>>

\* pthread_cond_wait or pthread_cond_timedwait: releases the mutex and waits.
CondWait == /\ hpc = "sleep"
            /\ hpc' = "wait"
            /\ UNCHANGED <<queue, free, senderVars, timeout, event, status>>

\* The time is up, or the wait ends without a signal, as POSIX allows.
WakeUnsignalled == /\ hpc = "wait"
                   /\ hpc' = "woken"
                   /\ UNCHANGED <<queue, free, senderVars, timeout, event, status>>

\* The wait takes the mutex back and the code releases it.
UnlockWaiter == /\ hpc = "woken"
                /\ hpc' = "getAgain"
                /\ UNCHANGED <<queue, free, senderVars, timeout, event, status>>

GetAgain == hpc = "getAgain" /\ (Take \/ GiveUp)

\* The caller of fmGetThreadEvent is done with the event and releases it.
Finish == /\ hpc = "handle"
          /\ free' = free \cup {event}
          /\ event' = NoEvent
          /\ hpc' = "idle"
          /\ UNCHANGED <<queue, senderVars, timeout, status>>
-----------------------------------------------------------------------------
Send(s) == CheckFull(s) \/ CheckRoom(s) \/ Add(s) \/ AddNoMem(s) \/ Signal(s)

Receive == Call \/ LockWaiter \/ Get \/ CondWait \/ UnlockWaiter \/ GetAgain \/ Finish

Next == \/ \E s \in Senders : Begin(s) \/ Send(s)
        \/ SignalHandler
        \/ Withdraw
        \/ Receive
        \/ WakeUnsignalled

\* Threads that can run do run; nothing makes a wait end by itself.
Fairness == WF_vars(Receive) /\ \A s \in Senders : WF_vars(Send(s))

Spec == Init /\ [][Next]_vars /\ Fairness
-----------------------------------------------------------------------------
Queued   == {queue.list[i] : i \in 1..Len(queue.list)}
InFlight(s) == {sent[s]} \ {NoEvent}

\* The counter tested without the lock, the list and the back pointers agree:
\* fmEventQueueAdd, Get and Remove update the three together.
QueueCoherent == Coherent(queue)

\* Every event is in exactly one place: unused, in a sender's hands, queued, or
\* in the handler's hands.  Losing or duplicating one breaks the event pool.
OneOwner ==
  /\ Events = free \cup Queued \cup ({event} \ {NoEvent})
                \cup UNION {InFlight(s) : s \in Senders}
  /\ free \cap Queued = {}
  /\ event \notin free \cup Queued
  /\ \A s \in Senders : /\ InFlight(s) \cap (free \cup Queued \cup {event}) = {}
                        /\ \A t \in Senders \ {s} : InFlight(s) \cap InFlight(t) = {}

\* The handler never sleeps on a queue with an event in it unless a sender is
\* still to signal it: fmGetThreadEvent tests the queue while it holds the
\* mutex the signal needs, and fmSendThreadEvent adds before it signals.
NoLostWakeup ==
  hpc \in {"sleep", "wait"} /\ queue.list # << >> =>
    \E s \in Senders : spc[s] = "signal"

\* The channel the queue implements: in order, exactly once, and eventually.
Channel == INSTANCE EventChannel WITH chan <- queue.list, handling <- event
ImplementsChannel == Channel!Spec
=============================================================================
