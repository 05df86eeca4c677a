----------------------------- MODULE LinkNotify -----------------------------
(***************************************************************************)
(* Link change events and their retry when the event pool is short:        *)
(* fm10000SendLinkUpDownEventV2 and EventFreeHandler of                    *)
(* src/api/fm10000/fm10000_api_event_port.c, its callers of                *)
(* fm10000_api_port_actions.c, and the notification half of fmReleaseEvent *)
(* and fmAddEventFreeNotify of src/api/fm_api_event_mgmt.c.                *)
(*                                                                         *)
(* Two threads: "link" runs the port state machines and reports changes;   *)
(* "event" handles and releases events, and so runs EventFreeHandler.  The *)
(* pool is the number of its free events; who waits how long for one is    *)
(* module EventPool: here a caller that found fewer than Block free gets   *)
(* past the semaphore or gives up.                                         *)
(***************************************************************************)
EXTENDS Integers, FiniteSets

CONSTANTS LastSwitch, \* the switches are numbered 0 .. LastSwitch, and UP
          NumPorts,   \* the number of cardinal ports of each switch
          Phys,       \* the physical port of a cardinal port of a switch
          MaxEvents,  \* FM_MAX_EVENTS
          Block       \* blockThreshold

Switches  == 0..LastSwitch
Ports     == UNION {{s} \X (1..NumPorts[s]) : s \in Switches}
Bits      == {Phys[p] : p \in Ports}
Threads   == {"link", "event"}

ASSUME SwitchesAssumption == LastSwitch \in Nat
ASSUME NumPortsAssumption == NumPorts \in [Switches -> Nat \ {0}]
ASSUME PhysAssumption ==
  /\ Phys \in [Ports -> Nat]
  /\ \A p, q \in Ports : p[1] = q[1] /\ Phys[p] = Phys[q] => p = q
ASSUME PoolAssumption == MaxEvents \in Nat \ {0} /\ Block \in 0..MaxEvents

VARIABLES
  linkUp,     \* portPtr->linkUp
  waitFor,    \* the ports with waitForFreeEventBuffer
  hndlr,      \* the switches with an eventFreeNotifyHndlr for link events
  notified,   \* portStateEventNotifications: physical ports, of all switches
  free,       \* free events in the pool
  pc,         \* where each thread is
  arg,        \* the port it reports
  up,         \* the link state it reports
  copy,       \* the value of portStateEventNotifications it has read
  sw          \* the switch the event thread's fmReleaseEvent has come to

vars == <<linkUp, waitFor, hndlr, notified, free, pc, arg, up, copy, sw>>
port == <<linkUp, waitFor, hndlr, notified>>
call == <<arg, up, copy, sw>>

SendLabels == {"count", "gate", "get", "nobuf", "register", "send", "read", "write"}

TypeOK == /\ linkUp \in [Ports -> BOOLEAN]
          /\ waitFor \subseteq Ports /\ hndlr \subseteq Switches
          /\ notified \subseteq Bits /\ free \in 0..MaxEvents
          /\ pc \in [Threads -> SendLabels \cup {"idle", "scan", "visit", "compare"}]
          /\ arg \in [Threads -> Ports] /\ up \in [Threads -> BOOLEAN]
          /\ copy \in [Threads -> SUBSET Bits] /\ sw \in Switches

Init == /\ linkUp = [p \in Ports |-> FALSE]
        /\ waitFor = {} /\ hndlr = {} /\ notified = {}
        /\ free = MaxEvents
        /\ pc = [t \in Threads |-> "idle"]
        /\ arg = [t \in Threads |-> <<0, 1>>]
        /\ sw = 0
        /\ up = [t \in Threads |-> FALSE]
        /\ copy = [t \in Threads |-> {}]

Goto(t, label) == pc' = [pc EXCEPT ![t] = label]
-----------------------------------------------------------------------------
(* The link thread: fm10000NotifyApiPortUp and fm10000NotifyApiPortDown *)

LinkChange(p) ==
  /\ pc["link"] = "idle"
  /\ linkUp' = [linkUp EXCEPT ![p] = ~@]
  /\ up' = [up EXCEPT !["link"] = ~linkUp[p]]
  /\ arg' = [arg EXCEPT !["link"] = p]
  /\ Goto("link", "count")
  /\ UNCHANGED <<waitFor, hndlr, notified, free, copy, sw>>

\* fm10000NotifyApiPortUp of a port in far loopback reports it down, and gives
\* its logical number for the physical one.
FarLoopback(p) ==
  /\ pc["link"] = "idle"
  /\ linkUp[p]
  /\ linkUp' = [linkUp EXCEPT ![p] = FALSE]
  /\ up' = [up EXCEPT !["link"] = FALSE]
  /\ \E q \in Ports : /\ q[1] = p[1] /\ Phys[q] = p[2]
                     /\ arg' = [arg EXCEPT !["link"] = q]
  /\ Goto("link", "count")
  /\ UNCHANGED <<waitFor, hndlr, notified, free, copy, sw>>

-----------------------------------------------------------------------------
(* fm10000SendLinkUpDownEventV2, by either thread, of a port that is not the
   management port of a remote switch *)

\* Back to the caller: the event thread goes on with the next port, or, once it
\* waits for a free event again, ends its pass over the ports.
NextPort == IF arg["event"][2] < NumPorts[arg["event"][1]]
            THEN /\ arg' = [arg EXCEPT !["event"] = <<@[1], @[2] + 1>>]
                 /\ Goto("event", "visit")
            ELSE Goto("event", "idle") /\ UNCHANGED arg

Return(t) == IF t = "event" THEN NextPort ELSE Goto(t, "idle") /\ UNCHANGED arg

Count(t) == /\ pc[t] = "count"
            /\ Goto(t, IF free < Block THEN "gate" ELSE "get")
            /\ UNCHANGED <<port, free, call>>

Gate(t) == /\ pc[t] = "gate"
           /\ \E label \in {"get", "nobuf"} : Goto(t, label)
           /\ UNCHANGED <<port, free, call>>

\* Mutant: the empty pool is not noticed.
GetUnchecked(t) == /\ pc[t] = "get"
                   /\ free' = free - 1
                   /\ Goto(t, "send")
                   /\ UNCHANGED <<port, call>>

Get(t) == /\ pc[t] = "get"
          /\ IF free > 0 THEN free' = free - 1 /\ Goto(t, "send")
                         ELSE Goto(t, "nobuf") /\ UNCHANGED free
          /\ UNCHANGED <<port, call>>

NoBuffer(t) ==
  /\ pc[t] = "nobuf"
  /\ IF arg[t] \in waitFor THEN Return(t) /\ UNCHANGED waitFor
     ELSE /\ waitFor' = waitFor \cup {arg[t]}
          /\ Goto(t, "register")
          /\ UNCHANGED arg
  /\ UNCHANGED <<linkUp, hndlr, notified, free, up, copy, sw>>

\* fmAddEventFreeNotify, which leaves a handler already there alone.
Register(t) == /\ pc[t] = "register"
               /\ hndlr' = hndlr \cup {arg[t][1]}
               /\ Goto(t, "idle")
               /\ UNCHANGED <<linkUp, waitFor, notified, free, call>>

\* fmSendThreadEvent: the event queue has room for every event of the pool.
Send(t) == /\ pc[t] = "send"
           /\ Goto(t, "read")
           /\ UNCHANGED <<linkUp, waitFor, hndlr, notified, free, call>>

\* The bit of the port is set in a read and a write of the 64-bit word.
ReadBits(t) == /\ pc[t] = "read"
               /\ copy' = [copy EXCEPT ![t] = notified]
               /\ Goto(t, "write")
               /\ UNCHANGED <<port, free, arg, up, sw>>

WriteBits(t) ==
  /\ pc[t] = "write"
  /\ notified' = (copy[t] \ {Phys[arg[t]]}) \cup {b \in {Phys[arg[t]]} : up[t]}
  /\ copy' = [copy EXCEPT ![t] = {}]
  /\ Return(t)
  /\ UNCHANGED <<linkUp, waitFor, hndlr, free, up, sw>>
-----------------------------------------------------------------------------
(* The event thread: fmReleaseEvent, and EventFreeHandler *)

\* Another component allocates an event, to be released like the others.
TakeEvent == /\ free > 0
             /\ free' = free - 1
             /\ UNCHANGED <<port, pc, call>>

\* Every event not free is in a queue, but those a thread has just allocated.
OutOfPool == MaxEvents - free - Cardinality({t \in Threads : pc[t] = "send"})

Release == /\ pc["event"] = "idle"
           /\ OutOfPool > 0
           /\ free' = free + 1
           /\ sw' = 0
           /\ Goto("event", "scan")
           /\ UNCHANGED <<port, arg, up, copy>>

\* The first switch with a handler has it cleared, then called; the others wait
\* for the next release.
Scan == /\ pc["event"] = "scan"
        /\ IF sw \in hndlr
           THEN /\ hndlr' = hndlr \ {sw}
                /\ arg' = [arg EXCEPT !["event"] = <<sw, 1>>]
                /\ Goto("event", "visit")
                /\ UNCHANGED sw
           ELSE /\ IF sw + 1 \in Switches
                   THEN sw' = sw + 1 /\ UNCHANGED pc
                   ELSE Goto("event", "idle") /\ UNCHANGED sw
                /\ UNCHANGED <<hndlr, arg>>
        /\ UNCHANGED <<linkUp, waitFor, notified, free, up, copy>>

Visit == /\ pc["event"] = "visit"
         /\ IF arg["event"] \in waitFor
            THEN /\ waitFor' = waitFor \ {arg["event"]}
                 /\ Goto("event", "compare")
                 /\ UNCHANGED arg
            ELSE NextPort /\ UNCHANGED waitFor
         /\ UNCHANGED <<linkUp, hndlr, notified, free, up, copy, sw>>

Notified(p) == Phys[p] \in notified

\* The event is skipped when the last one is thought to have said the same.
Skip == linkUp[arg["event"]] = Notified(arg["event"])

\* Mutant: a port whose event is skipped ends the pass.
CompareBreak == /\ pc["event"] = "compare"
                /\ IF Skip THEN Goto("event", "idle") /\ UNCHANGED <<arg, up>>
                   ELSE /\ up' = [up EXCEPT !["event"] = linkUp[arg["event"]]]
                        /\ Goto("event", "count")
                        /\ UNCHANGED arg
                /\ UNCHANGED <<port, free, copy, sw>>

Compare == /\ pc["event"] = "compare"
           /\ IF Skip THEN NextPort /\ UNCHANGED up
              ELSE /\ up' = [up EXCEPT !["event"] = linkUp[arg["event"]]]
                   /\ Goto("event", "count")
                   /\ UNCHANGED arg
           /\ UNCHANGED <<port, free, copy, sw>>
-----------------------------------------------------------------------------
SendLinkEvent(t) == \/ Count(t) \/ Gate(t) \/ Get(t) \/ NoBuffer(t) \/ Register(t)
                    \/ Send(t) \/ ReadBits(t) \/ WriteBits(t)

Next == \/ \E p \in Ports : LinkChange(p) \/ FarLoopback(p)
        \/ \E t \in Threads : SendLinkEvent(t)
        \/ TakeEvent \/ Release \/ Scan \/ Visit \/ Compare

Spec == Init /\ [][Next]_vars
-----------------------------------------------------------------------------
\* The event thread's pass over the ports of a switch will still visit port p.
WillVisit(p) ==
  /\ pc["event"] \notin {"idle", "scan"}
  /\ arg["event"][1] = p[1]
  /\ \/ arg["event"][2] < p[2]
     \/ arg["event"][2] = p[2] /\ pc["event"] = "visit"

\* A port that waits for a free event is never forgotten: its switch has a
\* handler registered, or a thread about to register it, or the pass that took
\* the handler away has the port still before it, whatever the two threads of
\* fm10000SendLinkUpDownEventV2 and EventFreeHandler do in between.
RetryOwed ==
  \A p \in waitFor :
    \/ p[1] \in hndlr
    \/ \E t \in Threads : pc[t] = "register" /\ arg[t][1] = p[1]
    \/ WillVisit(p)

\* A link change is not left unreported for ever by a pool that recovered:
\* "Will get notify when a free event is available" (SendLinkUpDownEventV2).
WaitingIsNotStranded ==
  waitFor # {} => \/ OutOfPool > 0
                  \/ \E t \in Threads : pc[t] # "idle"
=============================================================================
