---------------------------- MODULE EventChannel ----------------------------
(***************************************************************************)
(* What a thread's event queue promises its users: a first-in first-out    *)
(* channel to one handler, that neither loses nor duplicates an event,     *)
(* from which a sender may withdraw an event not handled yet, and whose    *)
(* head eventually reaches the handler.  Nothing is said of threads,       *)
(* mutexes or condition variables.                                         *)
(***************************************************************************)
EXTENDS Naturals, Sequences

CONSTANTS Events,  \* the events
          NoEvent  \* no event, not one of them

VARIABLES chan,      \* the events sent and not handled yet, oldest first
          handling   \* the event in the handler's hands, or NoEvent

vars == <<chan, handling>>

Init == chan = << >> /\ handling = NoEvent

Send == \E e \in Events : /\ e # handling
                          /\ \A i \in 1..Len(chan) : chan[i] # e
                          /\ chan' = Append(chan, e)
                          /\ UNCHANGED handling

Deliver == /\ chan # << >>
           /\ handling = NoEvent
           /\ handling' = Head(chan)
           /\ chan' = Tail(chan)

Finish == /\ handling # NoEvent
          /\ handling' = NoEvent
          /\ UNCHANGED chan

Withdraw == \E i \in 1..Len(chan) :
              /\ chan' = SubSeq(chan, 1, i - 1) \o SubSeq(chan, i + 1, Len(chan))
              /\ UNCHANGED handling

Next == Send \/ Deliver \/ Finish \/ Withdraw

Safety == Init /\ [][Next]_vars
Spec == Safety /\ WF_vars(Deliver) /\ WF_vars(Finish)
=============================================================================
