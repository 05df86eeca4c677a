----------------------------- MODULE EventPool ------------------------------
(***************************************************************************)
(* The pool of fm_event objects of src/api/fm_api_event_mgmt.c: a free     *)
(* queue created with room for FM_MAX_EVENTS events, allocation at two     *)
(* priorities, and the binary semaphore that holds low-priority callers    *)
(* back while the pool is short of events.                                 *)
(*                                                                         *)
(* Which event a caller gets does not matter here, so the free queue is    *)
(* its counter.  Events allocated and passed on are "out" until some       *)
(* thread, rarely the one that allocated them, calls fmReleaseEvent.  What *)
(* fmReleaseEvent does last, telling a switch that an event is free, is    *)
(* module LinkNotify.                                                      *)
(***************************************************************************)
EXTENDS Integers, FiniteSets

CONSTANTS Threads,    \* the threads that allocate and release events
          MaxEvents,  \* FM_MAX_EVENTS: the events there are, the room there is
          SemMax,     \* SEM_VALUE_MAX, where sem_post fails
          Block,      \* blockThreshold
          Unblock     \* unblockThreshold

\* What fmEventHandlingInitialize demands of the two properties.
ASSUME Thresholds == /\ MaxEvents \in Nat /\ Block \in Nat /\ Unblock \in Nat
                     /\ Block <= Unblock
                     /\ Unblock < MaxEvents
ASSUME SemMaxAssumption == SemMax \in Nat \ {0}
ASSUME FiniteThreads == IsFiniteSet(Threads)

VARIABLES free,   \* fmEventFreeQueue.size
          out,    \* events some thread or queue holds
          lost,   \* events fmEventQueueAdd had no memory to take back
          posts,  \* the value of fmLowPriorityEventSem
          pc      \* where each thread is in fmAllocateEvent or fmReleaseEvent

vars == <<free, out, lost, posts, pc>>

Labels == {"idle", "count", "capture", "blocked", "get", "put", "insert", "recount", "post"}

TypeOK == /\ free \in Nat
          /\ out \in Nat
          /\ lost \in Nat
          /\ posts \in Nat
          /\ pc \in [Threads -> Labels]

\* fmEventHandlingInitialize: every event is free and the semaphore starts at 1.
Init == /\ free = MaxEvents
        /\ out = 0
        /\ lost = 0
        /\ posts = 1
        /\ pc = [t \in Threads |-> "idle"]

Goto(t, label) == pc' = [pc EXCEPT ![t] = label]

-----------------------------------------------------------------------------
(* fmAllocateEvent *)

CallLow(t) == /\ pc[t] = "idle"
              /\ Goto(t, "count")
              /\ UNCHANGED <<free, out, lost, posts>>

CallHigh(t) == /\ pc[t] = "idle"
               /\ Goto(t, "get")
               /\ UNCHANGED <<free, out, lost, posts>>

\* fmEventQueueCount reads the counter without the lock.
Count(t) == /\ pc[t] = "count"
            /\ Goto(t, IF free < Block THEN "capture" ELSE "get")
            /\ UNCHANGED <<free, out, lost, posts>>

\* fmCaptureSemaphore of a binary semaphore: sem_trywait until it fails; if it
\* never succeeded, sem_timedwait.
Capture(t) == /\ pc[t] = "capture"
              /\ posts' = 0
              /\ Goto(t, IF posts > 0 THEN "get" ELSE "blocked")
              /\ UNCHANGED <<free, out, lost>>

Wake(t) == /\ pc[t] = "blocked"
           /\ posts > 0
           /\ posts' = posts - 1
           /\ Goto(t, "get")
           /\ UNCHANGED <<free, out, lost>>

\* eventSemTimeout is over: the caller gets NULL.
TimeOut(t) == /\ pc[t] = "blocked"
              /\ Goto(t, "idle")
              /\ UNCHANGED <<free, out, lost, posts>>

\* Mutant: nothing is made of an empty queue.
GetUnchecked(t) == /\ pc[t] = "get"
                   /\ free' = free - 1 /\ out' = out + 1
                   /\ Goto(t, "idle")
                   /\ UNCHANGED <<lost, posts>>

\* fmEventQueueGet; an empty queue gives the caller NULL.
Get(t) == /\ pc[t] = "get"
          /\ IF free > 0 THEN free' = free - 1 /\ out' = out + 1
                         ELSE UNCHANGED <<free, out>>
          /\ Goto(t, "idle")
          /\ UNCHANGED <<lost, posts>>

-----------------------------------------------------------------------------
(* fmReleaseEvent *)

CallRelease(t) == /\ pc[t] = "idle"
                  /\ out > 0
                  /\ out' = out - 1
                  /\ Goto(t, "put")
                  /\ UNCHANGED <<free, lost, posts>>

\* Mutant: a queue with room for one event less than there are.
CheckFullOffByOne(t) == /\ pc[t] = "put"
                        /\ Goto(t, IF free >= MaxEvents - 1 THEN "recount" ELSE "insert")
                        /\ UNCHANGED <<free, out, lost, posts>>

\* fmEventQueueAdd, whose status is ignored: a release that found the queue full
\* would leave the event in no queue, and nobody would know.
CheckFull(t) == /\ pc[t] = "put"
                /\ Goto(t, IF free = MaxEvents THEN "recount" ELSE "insert")
                /\ UNCHANGED <<free, out, lost, posts>>

Insert(t) == /\ pc[t] = "insert"
             /\ free' = free + 1
             /\ Goto(t, "recount")
             /\ UNCHANGED <<out, lost, posts>>

\* fmDListInsertEndV2 finds no memory for a node: the event is in no queue.
InsertNoMem(t) == /\ pc[t] = "insert"
                  /\ lost' = lost + 1
                  /\ Goto(t, "recount")
                  /\ UNCHANGED <<free, out, posts>>

\* Mutant: the threshold has to be exceeded by more than one.
RecountOffByOne(t) == /\ pc[t] = "recount"
                      /\ Goto(t, IF free > Unblock + 1 THEN "post" ELSE "idle")
                      /\ UNCHANGED <<free, out, lost, posts>>

Recount(t) == /\ pc[t] = "recount"
              /\ Goto(t, IF free > Unblock THEN "post" ELSE "idle")
              /\ UNCHANGED <<free, out, lost, posts>>

\* fmReleaseSemaphore: one sem_post whatever the semaphore holds already; its
\* failure at the largest value is ignored.
Post(t) == /\ pc[t] = "post"
           /\ posts' = IF posts < SemMax THEN posts + 1 ELSE posts
           /\ Goto(t, "idle")
           /\ UNCHANGED <<free, out, lost>>

-----------------------------------------------------------------------------
Allocate(t) == \/ CallLow(t) \/ CallHigh(t)
               \/ Count(t) \/ Capture(t) \/ Wake(t) \/ TimeOut(t) \/ Get(t)

Release(t) == \/ CallRelease(t) \/ CheckFull(t) \/ Insert(t) \/ InsertNoMem(t)
              \/ Recount(t) \/ Post(t)

Next == \E t \in Threads : Allocate(t) \/ Release(t)

Spec == Init /\ [][Next]_vars
-----------------------------------------------------------------------------
At(labels) == {t \in Threads : pc[t] \in labels}

\* An event is free, out, on its way back, or lost for want of memory: none is
\* made, and none is lost to the other status fmReleaseEvent ignores, that of a
\* full queue, however many threads test for it at once without the lock.
EventsConserved ==
  free + out + Cardinality(At({"put", "insert"})) + lost = MaxEvents

\* A low-priority caller held back has somebody who will still post: an event
\* is out, or being released, or about to be taken and so released.  The gate
\* never stays closed on a pool that has its events back, as long as those lost
\* leave enough to exceed unblockThreshold; with fewer nobody ever posts again
\* (fmAllocateEvent, fmReleaseEvent).
GateReopens ==
  MaxEvents - lost > Unblock /\ At({"capture", "blocked"}) # {} /\ posts = 0 =>
    out > 0 \/ At({"put", "insert", "recount", "post", "get"}) # {}
=============================================================================
