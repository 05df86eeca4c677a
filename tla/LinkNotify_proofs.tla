------------------------- MODULE LinkNotify_proofs --------------------------
(***************************************************************************)
(* Proofs about LinkNotify, for any switches, ports, events and threshold. *)
(***************************************************************************)
EXTENDS LinkNotify, FiniteSetTheorems, TLAPS

LEMMA PortParts ==
  \A p : p \in Ports <=> \E s \in Switches : \E i \in 1..NumPorts[s] : p = <<s, i>>
BY DEF Ports

\* What the proofs use of a port.
LEMMA PortFacts ==
  ASSUME NEW p \in Ports
  PROVE  /\ p = <<p[1], p[2]>> /\ p[1] \in Switches /\ p[2] \in 1..NumPorts[p[1]]
         /\ p[2] \in Nat /\ NumPorts[p[1]] \in Nat
         /\ Phys[p] \in Bits
<1>1. PICK s \in Switches : \E i \in 1..NumPorts[s] : p = <<s, i>>  BY PortParts
<1>i. PICK i \in 1..NumPorts[s] : p = <<s, i>>  BY <1>1
<1>2. NumPorts[s] \in Nat  BY NumPortsAssumption
<1>3. Phys[p] \in Bits  BY DEF Bits
<1> QED  BY <1>i, <1>2, <1>3

LEMMA FirstPort == ASSUME NEW s \in Switches PROVE <<s, 1>> \in Ports
<1>1. NumPorts[s] \in Nat \ {0}  BY NumPortsAssumption
<1>2. 1 \in 1..NumPorts[s]  BY <1>1
<1> QED  BY <1>2, PortParts

\* There are events out of the pool only if some are missing from it.
LEMMA OutIsMissing ==
  ASSUME TypeOK, OutOfPool > 0
  PROVE  free + 1 \in 0..MaxEvents
<1> DEFINE S == {t \in Threads : pc[t] = "send"}
<1>1. IsFiniteSet(Threads)
  <2>1. IsFiniteSet({"link"})  BY FS_Singleton
  <2>2. IsFiniteSet({"link"} \cup {"event"})  BY <2>1, FS_AddElement
  <2>3. Threads = {"link"} \cup {"event"}  BY DEF Threads
  <2> QED  BY <2>2, <2>3
<1>2. IsFiniteSet(S)  BY <1>1, FS_Subset
<1>3. Cardinality(S) \in Nat  BY <1>2, FS_CardinalityType
<1>4. MaxEvents - free - Cardinality(S) > 0  BY DEF OutOfPool
<1> HIDE DEF S
<1> QED  BY <1>3, <1>4, PoolAssumption DEF TypeOK
-----------------------------------------------------------------------------
LEMMA TypeInit == Init => TypeOK
<1> SUFFICES ASSUME Init PROVE TypeOK  OBVIOUS
<1>1. 0 \in Switches  BY SwitchesAssumption DEF Switches
<1>2. <<0, 1>> \in Ports  BY <1>1, FirstPort
<1> QED  BY <1>1, <1>2, PoolAssumption DEF Init, TypeOK, SendLabels

\* What happens to the variables of the control, whoever returns.
LEMMA ReturnType ==
  ASSUME TypeOK, NEW t \in Threads, Return(t)
  PROVE  /\ pc' \in [Threads -> SendLabels \cup {"idle", "scan", "visit", "compare"}]
         /\ arg' \in [Threads -> Ports]
<1>1. CASE t = "event" /\ arg["event"][2] < NumPorts[arg["event"][1]]
  <2> DEFINE p == arg["event"]
  <2>1. p \in Ports  BY <1>1 DEF TypeOK, Threads
  <2>2. <<p[1], p[2] + 1>> \in Ports  BY <1>1, <2>1, PortFacts, PortParts
  <2> QED  BY <1>1, <2>2 DEF Return, NextPort, Goto, TypeOK
<1>2. CASE ~(t = "event" /\ arg["event"][2] < NumPorts[arg["event"][1]])
  BY <1>2 DEF Return, NextPort, Goto, TypeOK
<1> QED  BY <1>1, <1>2

LEMMA TypeStep == TypeOK /\ [Next]_vars => TypeOK'
<1> SUFFICES ASSUME TypeOK, [Next]_vars PROVE TypeOK'  OBVIOUS
<1>a. ASSUME NEW t \in Threads PROVE arg[t] \in Ports /\ Phys[arg[t]] \in Bits
  BY PortFacts DEF TypeOK
<1>e. "event" \in Threads /\ "link" \in Threads  BY DEF Threads
<1>1. CASE UNCHANGED vars
  BY <1>1 DEF vars, TypeOK
<1>2. ASSUME NEW p \in Ports, LinkChange(p) PROVE TypeOK'
  BY <1>2, <1>e DEF LinkChange, Goto, TypeOK, SendLabels
<1>3. ASSUME NEW p \in Ports, FarLoopback(p) PROVE TypeOK'
  BY <1>3, <1>e DEF FarLoopback, Goto, TypeOK, SendLabels
<1>4. ASSUME NEW t \in Threads, SendLinkEvent(t) PROVE TypeOK'
  <2>1. CASE Count(t)
    BY <2>1 DEF Count, Goto, TypeOK, SendLabels, port, call
  <2>2. CASE Gate(t)
    BY <2>2 DEF Gate, Goto, TypeOK, SendLabels, port, call
  <2>3. CASE Get(t)
    BY <2>3, PoolAssumption DEF Get, Goto, TypeOK, SendLabels, port, call
  <2>4. CASE NoBuffer(t)
    <3>1. CASE arg[t] \in waitFor
      BY <2>4, <3>1, ReturnType DEF NoBuffer, TypeOK
    <3>2. CASE arg[t] \notin waitFor
      BY <2>4, <3>2, <1>a DEF NoBuffer, Goto, TypeOK, SendLabels
    <3> QED  BY <3>1, <3>2
  <2>5. CASE Register(t)
    BY <2>5, <1>a, PortFacts DEF Register, Goto, TypeOK, call
  <2>6. CASE Send(t)
    BY <2>6, <1>a DEF Send, Goto, TypeOK, SendLabels, call
  <2>7. CASE ReadBits(t)
    BY <2>7 DEF ReadBits, Goto, TypeOK, SendLabels, port
  <2>8. CASE WriteBits(t)
    <3>1. notified' \subseteq Bits  BY <2>8, <1>a DEF WriteBits, TypeOK
    <3>2. Return(t)  BY <2>8 DEF WriteBits
    <3> QED  BY <2>8, <3>1, <3>2, ReturnType DEF WriteBits, TypeOK
  <2> QED
    BY <1>4, <2>1, <2>2, <2>3, <2>4, <2>5, <2>6, <2>7, <2>8 DEF SendLinkEvent
<1>5. CASE TakeEvent
  BY <1>5, PoolAssumption DEF TakeEvent, TypeOK, port, call
<1>6. CASE Release
  <2>1. 0 \in Switches  BY SwitchesAssumption DEF Switches
  <2>2. free' \in 0..MaxEvents  BY <1>6, OutIsMissing DEF Release
  <2> QED  BY <1>6, <2>1, <2>2, <1>e DEF Release, Goto, TypeOK, port
<1>7. CASE Scan
  BY <1>7, <1>e, FirstPort DEF Scan, Goto, TypeOK, Switches
<1>8. CASE Visit
  <2>1. CASE arg["event"] \in waitFor
    BY <1>8, <2>1, <1>e DEF Visit, Goto, TypeOK
  <2>2. CASE arg["event"] \notin waitFor
    <3>1. Return("event")  BY <1>8, <2>2 DEF Visit, Return
    <3> QED  BY <1>8, <2>2, <3>1, <1>e, ReturnType DEF Visit, TypeOK
  <2> QED  BY <2>1, <2>2
<1>9. CASE Compare
  <2>1. CASE Skip
    <3>1. Return("event")  BY <1>9, <2>1 DEF Compare, Return
    <3> QED  BY <1>9, <2>1, <3>1, <1>e, ReturnType DEF Compare, TypeOK, port
  <2>2. CASE ~Skip
    BY <1>9, <2>2, <1>e, <1>a DEF Compare, Goto, TypeOK, SendLabels, port
  <2> QED  BY <2>1, <2>2
<1> QED  BY <1>1, <1>2, <1>3, <1>4, <1>5, <1>6, <1>7, <1>8, <1>9 DEF Next

\* Every state has its type: in particular the pool neither falls below zero nor
\* grows, though whoever finds it short goes on without an event.
THEOREM TypeCorrect == Spec => []TypeOK
BY TypeInit, TypeStep, PTL DEF Spec
-----------------------------------------------------------------------------
\* What keeps one port from being forgotten.
Kept(p) == \/ p[1] \in hndlr
           \/ \E t \in Threads : pc[t] = "register" /\ arg[t][1] = p[1]
           \/ WillVisit(p)

\* A thread that returns was not going to register, and the event thread goes on
\* to the next port: whatever kept a port, other than the visit of it, still does.
LEMMA ReturnKeeps ==
  ASSUME TypeOK, NEW t \in Threads, Return(t), pc[t] # "register", hndlr' = hndlr,
         pc[t] \notin {"idle", "scan"},
         NEW p \in Ports, Kept(p), t = "event" => ~(pc[t] = "visit" /\ arg[t] = p)
  PROVE  Kept(p)'
<1>p. p[2] \in Nat /\ p = <<p[1], p[2]>> /\ p[2] \in 1..NumPorts[p[1]]  BY PortFacts
<1>1. CASE p[1] \in hndlr
  BY <1>1 DEF Kept
<1>2. CASE \E u \in Threads : pc[u] = "register" /\ arg[u][1] = p[1]
  <2>1. PICK u \in Threads : pc[u] = "register" /\ arg[u][1] = p[1]  BY <1>2
  <2>2. u # t  BY <2>1
  <2>3. pc'[u] = pc[u] /\ arg'[u] = arg[u]
    BY <2>2 DEF Return, NextPort, Goto, TypeOK, Threads
  <2> QED  BY <2>1, <2>3 DEF Kept
<1>3. CASE WillVisit(p)
  <2>1. CASE t = "link"
    BY <1>3, <2>1 DEF Kept, WillVisit, Return, Goto, TypeOK, Threads
  <2>2. CASE t = "event"
    <3> DEFINE q == arg["event"]
    <3>1. q \in Ports  BY DEF TypeOK, Threads
    <3>2. q[2] \in Nat /\ q = <<q[1], q[2]>> /\ NumPorts[q[1]] \in Nat
      BY <3>1, PortFacts
    <3>3. q[1] = p[1] /\ q[2] < p[2]
      BY <1>3, <2>2, <1>p, <3>2 DEF WillVisit
    <3>4. q[2] < NumPorts[q[1]]  BY <3>2, <3>3, <1>p
    <3>5. arg'["event"] = <<q[1], q[2] + 1>> /\ pc'["event"] = "visit"
      BY <2>2, <3>4 DEF Return, NextPort, Goto, TypeOK, Threads
    <3> QED  BY <3>2, <3>3, <3>5, <1>p DEF Kept, WillVisit
  <2> QED  BY <2>1, <2>2 DEF Threads
<1> QED  BY <1>1, <1>2, <1>3 DEF Kept

\* A thread that goes from label to label, within a pass if it is the event thread
\* and neither to nor from a registration, changes nothing of what keeps a port.
LEMMA GotoKeeps ==
  ASSUME TypeOK, NEW t \in Threads, NEW label, Goto(t, label), hndlr' = hndlr, arg' = arg,
         pc[t] \notin {"register", "idle", "scan", "visit"},
         label \notin {"idle", "scan"},
         NEW p \in Ports, Kept(p)
  PROVE  Kept(p)'
<1>1. pc'[t] = label /\ \A u \in Threads \ {t} : pc'[u] = pc[u]
  BY DEF Goto, TypeOK
<1>2. CASE p[1] \in hndlr
  BY <1>2 DEF Kept
<1>3. CASE \E u \in Threads : pc[u] = "register" /\ arg[u][1] = p[1]
  BY <1>1, <1>3 DEF Kept
<1>4. CASE WillVisit(p)
  BY <1>1, <1>4 DEF Kept, WillVisit, Threads
<1> QED  BY <1>2, <1>3, <1>4 DEF Kept

LEMMA RetryInit == Init => RetryOwed
BY DEF Init, RetryOwed

LEMMA RetryStep == TypeOK /\ RetryOwed /\ [Next]_vars => RetryOwed'
<1> SUFFICES ASSUME TypeOK, RetryOwed, [Next]_vars, NEW p \in Ports, p \in waitFor'
             PROVE  Kept(p)'
  <2>1. ASSUME TypeOK, RetryOwed, [Next]_vars PROVE waitFor' \subseteq Ports
    BY <2>1, TypeStep DEF TypeOK
  <2> QED  BY <2>1 DEF RetryOwed, Kept, WillVisit
<1>k. ASSUME p \in waitFor PROVE Kept(p)
  BY <1>k DEF RetryOwed, Kept
<1>e. "event" \in Threads /\ "link" \in Threads /\ "event" # "link"  BY DEF Threads
<1>1. CASE UNCHANGED vars
  BY <1>1, <1>k DEF vars, Kept, WillVisit
<1>2. ASSUME NEW q \in Ports, LinkChange(q) \/ FarLoopback(q) PROVE Kept(p)'
  <2>1. /\ waitFor' = waitFor /\ hndlr' = hndlr /\ pc["link"] = "idle"
        /\ Goto("link", "count")
        /\ arg'["event"] = arg["event"]
    BY <1>2, <1>e DEF LinkChange, FarLoopback, TypeOK
  <2>2. pc'["event"] = pc["event"]  BY <2>1, <1>e DEF Goto, TypeOK
  <2> QED  BY <1>k, <2>1, <2>2 DEF Kept, WillVisit, Threads
<1>3. ASSUME NEW t \in Threads, SendLinkEvent(t) PROVE Kept(p)'
  <2>1. CASE Count(t) \/ Gate(t) \/ Get(t) \/ Send(t) \/ ReadBits(t)
    <3>1. /\ waitFor' = waitFor /\ hndlr' = hndlr /\ arg' = arg
          /\ \E label \in {"gate", "get", "nobuf", "send", "read", "write"} : Goto(t, label)
      BY <2>1 DEF Count, Gate, Get, Send, ReadBits, port, call
    <3>2. pc[t] \notin {"register", "idle", "scan", "visit"}
      BY <2>1 DEF Count, Gate, Get, Send, ReadBits
    <3> QED  BY <3>1, <3>2, <1>k, GotoKeeps
  <2>2. CASE NoBuffer(t)
    <3>1. CASE arg[t] \in waitFor
      <4>1. Return(t) /\ waitFor' = waitFor /\ hndlr' = hndlr /\ pc[t] = "nobuf"
        BY <2>2, <3>1 DEF NoBuffer
      <4> QED  BY <4>1, <1>k, ReturnKeeps
    <3>2. CASE arg[t] \notin waitFor
      <4>1. /\ Goto(t, "register") /\ arg' = arg /\ hndlr' = hndlr /\ pc[t] = "nobuf"
            /\ waitFor' = waitFor \cup {arg[t]}
        BY <2>2, <3>2 DEF NoBuffer
      <4>2. CASE p \in waitFor
        BY <4>1, <4>2, <1>k, GotoKeeps
      <4>3. CASE p = arg[t]
        BY <4>1, <4>3 DEF Goto, TypeOK, Kept
      <4> QED  BY <4>1, <4>2, <4>3
    <3> QED  BY <3>1, <3>2
  <2>3. CASE Register(t)
    <3>1. /\ waitFor' = waitFor /\ hndlr' = hndlr \cup {arg[t][1]} /\ arg' = arg
          /\ pc' = [pc EXCEPT ![t] = "idle"] /\ pc[t] = "register"
      BY <2>3 DEF Register, Goto, call
    <3>2. Kept(p)  BY <3>1, <1>k
    <3>3. CASE p[1] = arg[t][1]
      BY <3>1, <3>3 DEF Kept
    <3>4. CASE p[1] # arg[t][1]
      BY <3>1, <3>2, <3>4, <1>e DEF Kept, WillVisit, TypeOK
    <3> QED  BY <3>3, <3>4
  <2>4. CASE WriteBits(t)
    <3>1. Return(t) /\ waitFor' = waitFor /\ hndlr' = hndlr /\ pc[t] = "write"
      BY <2>4 DEF WriteBits
    <3> QED  BY <3>1, <1>k, ReturnKeeps
  <2> QED  BY <1>3, <2>1, <2>2, <2>3, <2>4 DEF SendLinkEvent
<1>4. CASE TakeEvent
  BY <1>4, <1>k DEF TakeEvent, port, call, Kept, WillVisit
<1>5. CASE Release
  <2>1. /\ waitFor' = waitFor /\ hndlr' = hndlr /\ arg' = arg
        /\ pc' = [pc EXCEPT !["event"] = "scan"] /\ pc["event"] = "idle"
    BY <1>5 DEF Release, Goto, port
  <2> QED  BY <2>1, <1>k, <1>e DEF Kept, WillVisit, TypeOK
<1>6. CASE Scan
  <2>0. pc["event"] = "scan" /\ waitFor' = waitFor  BY <1>6 DEF Scan
  <2>k. Kept(p)  BY <2>0, <1>k
  <2>1. CASE sw \in hndlr
    <3>1. /\ hndlr' = hndlr \ {sw} /\ arg' = [arg EXCEPT !["event"] = <<sw, 1>>]
          /\ pc' = [pc EXCEPT !["event"] = "visit"]
      BY <1>6, <2>1 DEF Scan, Goto
    <3>2. arg'["event"] = <<sw, 1>> /\ pc'["event"] = "visit"
      BY <3>1, <1>e DEF TypeOK
    <3>3. CASE p[1] = sw
      <4>1. p[2] \in Nat /\ p[2] >= 1  BY PortFacts
      <4> QED  BY <3>2, <3>3, <4>1 DEF Kept, WillVisit
    <3>4. CASE p[1] # sw
      BY <2>0, <2>k, <3>1, <3>4, <1>e DEF Kept, WillVisit, TypeOK
    <3> QED  BY <3>3, <3>4
  <2>2. CASE sw \notin hndlr
    <3>1. /\ hndlr' = hndlr /\ arg' = arg
          /\ pc' = pc \/ pc' = [pc EXCEPT !["event"] = "idle"]
      BY <1>6, <2>2 DEF Scan, Goto
    <3> QED  BY <2>0, <2>k, <3>1, <1>e DEF Kept, WillVisit, TypeOK
  <2> QED  BY <2>1, <2>2
<1>7. CASE Visit
  <2>0. pc["event"] = "visit" /\ hndlr' = hndlr  BY <1>7 DEF Visit
  <2>1. CASE arg["event"] \in waitFor
    <3>1. /\ waitFor' = waitFor \ {arg["event"]} /\ arg' = arg
          /\ pc' = [pc EXCEPT !["event"] = "compare"]
      BY <1>7, <2>1 DEF Visit, Goto
    <3>2. Kept(p) /\ p # arg["event"]  BY <3>1, <1>k
    <3>3. arg["event"] \in Ports  BY <1>e DEF TypeOK
    <3>4. /\ p = <<p[1], p[2]>> /\ arg["event"] = <<arg["event"][1], arg["event"][2]>>
      BY <3>3, PortFacts
    <3>5. ~(p[1] = arg["event"][1] /\ p[2] = arg["event"][2])  BY <3>2, <3>4
    <3> QED  BY <2>0, <3>1, <3>2, <3>5, <1>e DEF Kept, WillVisit, TypeOK
  <2>2. CASE arg["event"] \notin waitFor
    <3>1. Return("event") /\ waitFor' = waitFor  BY <1>7, <2>2 DEF Visit, Return
    <3>2. p # arg["event"] /\ Kept(p)  BY <3>1, <2>2, <1>k
    <3> QED  BY <2>0, <3>1, <3>2, <1>e, ReturnKeeps
  <2> QED  BY <2>1, <2>2
<1>8. CASE Compare
  <2>0. pc["event"] = "compare" /\ waitFor' = waitFor /\ hndlr' = hndlr
    BY <1>8 DEF Compare, port
  <2>1. CASE Skip
    <3>1. Return("event")  BY <1>8, <2>1 DEF Compare, Return
    <3> QED  BY <2>0, <3>1, <1>k, <1>e, ReturnKeeps
  <2>2. CASE ~Skip
    <3>1. Goto("event", "count") /\ arg' = arg  BY <1>8, <2>2 DEF Compare
    <3> QED  BY <2>0, <3>1, <1>k, <1>e, GotoKeeps
  <2> QED  BY <2>1, <2>2
<1> QED  BY <1>1, <1>2, <1>3, <1>4, <1>5, <1>6, <1>7, <1>8 DEF Next

\* A port that waits for a free event is never forgotten, with any number of
\* switches and ports: the release that takes the handler of a switch away goes
\* through all its ports, or ends where it registers the handler again.
THEOREM RetryNeverForgotten == Spec => []RetryOwed
<1>1. TypeOK /\ RetryOwed /\ [Next]_vars => TypeOK' /\ RetryOwed'
  BY TypeStep, RetryStep
<1> QED  BY <1>1, TypeInit, RetryInit, PTL DEF Spec
=============================================================================
