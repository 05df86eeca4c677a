----------------------------- MODULE EventQueue -----------------------------
(***************************************************************************)
(* The fm_eventQueue of src/alos/linux/fm_alos_event_queue.c as a value.   *)
(* Everything these operators do happens between fmCaptureLock and         *)
(* fmReleaseLock of q->accessLock, so one operator is one atomic step of   *)
(* the modules that use them.  What happens before the lock is taken (the  *)
(* test for a full queue in fmEventQueueAdd) is a step of its own there.   *)
(***************************************************************************)
EXTENDS Integers, Sequences

\* list is the fm_dlist of events, size the counter kept beside it, linked
\* the events whose q/node back pointers point into this queue.
QueueOf(Events) == [list : Seq(Events), size : Int, linked : SUBSET Events]

\* fmEventQueueInitialize: FM_CLEAR and fmDListInit.
EmptyQueue == [list |-> << >>, size |-> 0, linked |-> {}]

\* Mutant: the event goes to the other end of the list.
InsertFront(q, e) == [list   |-> <<e>> \o q.list,
                      size   |-> q.size + 1,
                      linked |-> q.linked \cup {e}]

\* fmEventQueueAdd, once accessLock is held and the list node is allocated.
InsertEnd(q, e) == [list   |-> Append(q.list, e),
                    size   |-> q.size + 1,
                    linked |-> q.linked \cup {e}]

\* Mutant: q and node of the event are not reset.
RemoveHeadStillLinked(q) == [list   |-> Tail(q.list),
                             size   |-> q.size - 1,
                             linked |-> q.linked]

\* fmEventQueueGet, when the list is not empty.
RemoveHead(q) == [list   |-> Tail(q.list),
                  size   |-> q.size - 1,
                  linked |-> q.linked \ {Head(q.list)}]

\* fmEventQueueRemove of a linked event: its node is unlinked wherever it is.
RemoveNode(q, i) == [list   |-> SubSeq(q.list, 1, i - 1) \o
                                SubSeq(q.list, i + 1, Len(q.list)),
                     size   |-> q.size - 1,
                     linked |-> q.linked \ {q.list[i]}]

\* The counter, the list and the back pointers tell one story.
Coherent(q) == /\ q.size = Len(q.list)
               /\ q.linked = {q.list[i] : i \in 1..Len(q.list)}
               /\ \A i, j \in 1..Len(q.list) : q.list[i] = q.list[j] => i = j
=============================================================================
