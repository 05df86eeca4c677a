---------------------------- MODULE Mailbox_proofs ----------------------------
(***************************************************************************)
(* Theorems about the mailbox: its requests are taken in order, and its    *)
(* responses read intact, for rings of any size, messages of any length,   *)
(* and any number of requests and of connections.                          *)
(*                                                                         *)
(* Where an index is in a ring is said by Used(head, i), its distance from *)
(* a head, so that going around the ring is arithmetic of distances.       *)
(***************************************************************************)
EXTENDS Mailbox, TLAPS

-----------------------------------------------------------------------------
(* Distances around the ring *)

Distance == 0 .. QueueSize - 2

LEMMA UsedIsDistance ==
  ASSUME NEW h \in Index, NEW t \in Index
  PROVE  Used(h, t) \in Distance /\ (Used(h, t) = 0 <=> h = t)
BY QueueAssumption DEF Used, Index, Distance

LEMMA AheadIsIndex ==
  ASSUME NEW i \in Index, NEW k \in 0 .. QueueSize - 1
  PROVE  Ahead(i, k) \in Index
BY QueueAssumption DEF Ahead, Index

LEMMA NextIsIndex == \A i \in Index : NextIndex(i) \in Index
BY AheadIsIndex, QueueAssumption DEF NextIndex, Index

\* k entries further, and perhaps once around.
LEMMA UsedAhead ==
  ASSUME NEW h \in Index, NEW t \in Index, NEW k \in 0 .. QueueSize - 1
  PROVE  Used(h, Ahead(t, k)) = IF Used(h, t) + k < QueueSize - 1
                                THEN Used(h, t) + k
                                ELSE Used(h, t) + k - (QueueSize - 1)
BY QueueAssumption DEF Used, Ahead, Index

\* A distance from h leads to one index only.
LEMMA AheadUsed ==
  ASSUME NEW h \in Index
  PROVE  /\ \A i \in Index : Ahead(h, Used(h, i)) = i
         /\ \A k \in Distance : Ahead(h, k) \in Index /\ Used(h, Ahead(h, k)) = k
BY QueueAssumption DEF Used, Ahead, Index, Distance

\* From one entry further on, all are one nearer but the one left behind.
LEMMA UsedFromNext ==
  ASSUME NEW h \in Index, NEW t \in Index
  PROVE  Used(NextIndex(h), t) = IF h = t THEN QueueSize - 2 ELSE Used(h, t) - 1
BY QueueAssumption DEF Used, NextIndex, Ahead, Index

\* One entry further on is out of the way of h unless it is h.
LEMMA UsedToNext ==
  ASSUME NEW h \in Index, NEW t \in Index
  PROVE  Used(h, NextIndex(t)) = IF NextIndex(t) = h THEN 0 ELSE Used(h, t) + 1
BY QueueAssumption DEF Used, NextIndex, Ahead, Index

-----------------------------------------------------------------------------
(* Types *)

\* A message without data has sent none.
Typed == TypeOK /\ (dataEntries = 0 => entriesSent = 0)

\* Even a message for which there is no room stays within the ring.
LEMMA WritesFit ==
  ASSUME Typed
  PROVE  /\ EntriesToSend \in Int /\ (dataEntries = 0 => EntriesToSend = 0) /\ Room \in 1 .. QueueSize - 1
         /\ Writes \in 2 .. QueueSize - 1
         /\ Writes <= Room \/ Writes = 2
<1>1. Room \in 1 .. QueueSize - 1
  <2>1. Used(hdr.respHead, hdr.respTail) \in Distance
    BY UsedIsDistance DEF Typed, TypeOK, Header
  <2> QED  BY <2>1, QueueAssumption DEF Room, Empty, Distance
<1>2. /\ dataEntries \in Nat /\ entriesSent \in Int
      /\ dataEntries = 0 => entriesSent = 0
  BY DataAssumption DEF Typed, TypeOK
<1> HIDE DEF Room
<1>3. /\ EntriesToSend \in Int /\ (EntriesToSend > 0 => EntriesToSend + 2 <= Room)
      /\ dataEntries = 0 => EntriesToSend = 0
  BY <1>1, <1>2 DEF EntriesToSend
<1> HIDE DEF EntriesToSend
<1> QED  BY <1>1, <1>3, QueueAssumption DEF Writes

LEMMA TypeInit == Init => Typed
<1> SUFFICES ASSUME Init PROVE Typed  OBVIOUS
<1>1. 1 \in Index  BY QueueAssumption DEF Index
<1>2. NoEntry \in Entry  BY BoundsAssumption DEF NoEntry, Entry
<1>3. /\ requests \in [Index -> Entry] /\ responses \in [Index -> Entry]
  BY <1>2 DEF Init
<1>4. pf \in PfHeader /\ sm \in SmHeader /\ hdr \in Header
  BY <1>1 DEF Init, NoHeader, PfHeader, SmHeader, Header, Version
<1>5. /\ conn \in 1 .. MaxConn /\ epoch \in 0 .. MaxConn
      /\ posted \in 0 .. MaxPosted /\ notified \in 0 .. MaxNotify
      /\ failures \in 0 .. MaxFailures
  BY BoundsAssumption DEF Init
<1>6. /\ req \in BOOLEAN /\ ack \in BOOLEAN /\ irq \in BOOLEAN /\ tight \in BOOLEAN
      /\ host = "resetting" /\ owes \subseteq {"req", "ack"}
      /\ pc = "idle" /\ job = "request"
      /\ dataEntries = 0 /\ entriesSent = 0
      /\ read = 0 /\ handled = 0 /\ written = 0
  BY DEF Init
<1> QED
  BY <1>3, <1>4, <1>5, <1>6 DEF Typed, TypeOK

LEMMA SendTyped == ASSUME Typed, Send PROVE Typed'
<1>1. /\ EntriesToSend \in Int /\ (dataEntries = 0 => EntriesToSend = 0)
      /\ Writes \in 2 .. QueueSize - 1
  BY WritesFit
<1>2. Ahead(hdr.respTail, Writes) \in Index
  BY <1>1, AheadIsIndex DEF Typed, TypeOK, Header
<1>3. Fill(Writes) \in [Index -> Entry]
  <2>1. ASSUME NEW i \in Index PROVE Fill(Writes)[i] \in Entry
    <3> DEFINE at(k) == i = Ahead(hdr.respTail, k - 1)
    <3>1. CASE \E k \in 1 .. Writes : at(k)
      <4>1. (CHOOSE k \in 1 .. Writes : at(k)) \in 1 .. Writes  BY <3>1
      <4>2. Fill(Writes)[i] = <<epoch, written + (CHOOSE k \in 1 .. Writes : at(k))>>
        BY <3>1 DEF Fill
      <4> HIDE DEF at
      <4>3. written + (CHOOSE k \in 1 .. Writes : at(k)) \in Nat
        BY <1>1, <4>1 DEF Typed, TypeOK
      <4> QED  BY <4>2, <4>3 DEF Typed, TypeOK, Entry
    <3>2. CASE ~ \E k \in 1 .. Writes : at(k)
      BY <3>2 DEF Fill, Typed, TypeOK
    <3> QED  BY <3>1, <3>2
  <2> QED  BY <2>1 DEF Fill
<1> HIDE DEF Fill, Writes, EntriesToSend
<1>4. written' \in Nat /\ handled' \in Nat
  <2>1. Used(sm.reqHead, hdr.reqHead) \in Nat
    BY UsedIsDistance, QueueAssumption DEF Typed, TypeOK, Header, SmHeader, Distance
  <2> HIDE DEF Used
  <2> QED  BY <1>1, <2>1 DEF Send, Typed, TypeOK
<1>5. entriesSent' \in Int /\ (dataEntries' = 0 => entriesSent' = 0)
  BY <1>1 DEF Send, Typed, TypeOK
<1>6. sm' \in SmHeader /\ hdr' \in Header
  BY <1>2 DEF Send, SaveIndices, Typed, TypeOK, SmHeader, Header
<1>7. tight' \in BOOLEAN  BY DEF Send, Typed, TypeOK
<1> QED
  BY <1>3, <1>4, <1>5, <1>6, <1>7
  DEF Send, Typed, TypeOK, After, hosts, bits

LEMMA BuildTyped ==
  ASSUME Typed, NEW j \in {"request", "create", "pvid", "failing", "notify"},
         NEW data \in {Data, {PvidData}}, Build(j, data)
  PROVE  /\ pc' \in {"send", "read", "pvid", "reread", "return"} /\ entriesSent' = 0
         /\ job' \in {"request", "create", "pvid", "failing", "notify"}
         /\ dataEntries' \in Data \cup {0, PvidData} /\ failures' \in 0 .. MaxFailures
BY BoundsAssumption DEF Build, After, Typed, TypeOK

\* A step that writes no memory, of the handler or of the host.
LEMMA StaysTyped ==
  ASSUME Typed, hdr' \in Header,
         UNCHANGED <<memory, host, owes, conn, posted, read, history>>,
         req' \in BOOLEAN, ack' \in BOOLEAN, irq' \in BOOLEAN,
         pc' \in {"idle", "gmbx", "header", "check", "dismiss", "signal", "read",
                  "send", "await", "clear", "pvid", "reread", "ack", "return"},
         UNCHANGED <<job, dataEntries, entriesSent>>
  PROVE  Typed'
BY DEF Typed, TypeOK, memory, history

LEMMA HandlerTyped == ASSUME Typed, Handler \/ Notify PROVE Typed'
<1> USE DEF memory, bits, hosts, message, history, handler
<1>0. 1 \in Index  BY QueueAssumption DEF Index
<1>h. HeaderRead \in Header  BY DEF HeaderRead, Typed, TypeOK, PfHeader, SmHeader, Header
<1>t. /\ hdr \in Header /\ req \in BOOLEAN /\ ack \in BOOLEAN /\ irq \in BOOLEAN
      /\ job \in {"request", "create", "pvid", "failing", "notify"}
  BY DEF Typed, TypeOK
<1>1. CASE Interrupt \/ ReadGmbx \/ ProcessGlobalAck
  <2>1. CASE Interrupt  BY <1>t, <2>1, StaysTyped DEF Interrupt
  <2>2. CASE ReadGmbx  BY <1>t, <2>2, StaysTyped DEF ReadGmbx
  <2>3. CASE ProcessGlobalAck  BY <1>t, <2>3, StaysTyped DEF ProcessGlobalAck
  <2> QED  BY <1>1, <2>1, <2>2, <2>3
<1>2. CASE ReadHeader \/ ReadAgain
  BY <1>2, <1>h, <1>t, StaysTyped DEF ReadHeader, ReadAgain
<1>r. CASE Return
  <2>1. NoHeader \in Header  BY <1>0 DEF NoHeader, Header, Version
  <2> QED  BY <1>r, <2>1 DEF Return, Typed, TypeOK
<1>3. CASE Check
  <2>0. UNCHANGED <<pf, requests, responses, bits, hosts, job, message, notified, failures>>
    BY <1>3 DEF Check, Withdraw, Synchronize, Accept
  <2>1. CASE Withdraw
    <3>1. sm' \in SmHeader /\ hdr' \in Header
      BY <2>1 DEF Withdraw, Typed, TypeOK, SmHeader, Header, Version
    <3> QED  BY <2>0, <2>1, <3>1 DEF Withdraw, Typed, TypeOK
  <2>2. CASE Synchronize
    <3>1. sm' \in SmHeader /\ hdr' \in Header
      BY <1>0, <2>2 DEF Synchronize, Typed, TypeOK, SmHeader, Header, Version
    <3>2. epoch' \in 0 .. MaxConn
      BY <2>2, BoundsAssumption DEF Synchronize, Typed, TypeOK
    <3> QED  BY <2>0, <2>2, <3>1, <3>2 DEF Synchronize, Typed, TypeOK
  <2>3. CASE Accept
    <3>1. sm' \in SmHeader /\ hdr' \in Header
      BY <2>3 DEF Accept, Typed, TypeOK, SmHeader, Header
    <3> QED  BY <2>0, <2>3, <3>1 DEF Accept, Typed, TypeOK
  <2> QED  BY <1>3, <2>1, <2>2, <2>3 DEF Check
<1>4. CASE Dismiss \/ Signal \/ NoMoreRequests
  <2>1. CASE Dismiss  BY <1>t, <2>1, StaysTyped DEF Dismiss, SignalRequestRead
  <2>2. CASE Signal  BY <1>t, <2>2, StaysTyped DEF Signal, SignalRequestRead
  <2>3. CASE NoMoreRequests  BY <1>t, <2>3, StaysTyped DEF NoMoreRequests
  <2> QED  BY <1>4, <2>1, <2>2, <2>3
<1>5. CASE ReadRequest \/ SkipEntry
  <2>1. hdr' \in Header
    BY <1>5, NextIsIndex DEF ReadRequest, SkipEntry, Take, Typed, TypeOK, Header
  <2>2. CASE ReadRequest
    <3>1. PICK j \in {"request", "create", "failing"} : Build(j, Data)
      BY <2>2 DEF ReadRequest
    <3> QED  BY <2>1, <2>2, <3>1, BuildTyped DEF ReadRequest, Take, Typed, TypeOK
  <2>3. CASE SkipEntry  BY <2>1, <2>3 DEF SkipEntry, Take, Typed, TypeOK
  <2> QED  BY <1>5, <2>2, <2>3
<1>6. CASE Send  BY <1>6, SendTyped
<1>7. CASE PartRead \/ ClearAck \/ GiveUp
  <2>1. CASE PartRead  BY <1>t, <2>1, StaysTyped DEF PartRead
  <2>2. CASE ClearAck  BY <1>t, <2>2, StaysTyped DEF ClearAck
  <2>3. CASE GiveUp
    <3>1. pc' \in {"read", "pvid", "reread", "return"}  BY <1>t, <2>3 DEF GiveUp, After
    <3> QED  BY <1>t, <2>3, <3>1, StaysTyped DEF GiveUp
  <2> QED  BY <1>7, <2>1, <2>2, <2>3
<1>8. CASE Notify
  BY <1>8, BoundsAssumption DEF Notify, Typed, TypeOK
<1>9. CASE NotifyPvid
  <2>1. PICK j \in {"pvid", "notify"} : Build(j, {PvidData})
    BY <1>9 DEF NotifyPvid
  <2> QED  BY <1>9, <1>h, <2>1, BuildTyped DEF NotifyPvid, Typed, TypeOK
<1> QED
  BY <1>1, <1>2, <1>r, <1>3, <1>4, <1>5, <1>6, <1>7, <1>8, <1>9 DEF Handler

HostStep == Connects \/ HostRing \/ HostReset \/ HostPost \/ HostRead \/ HostAck

LEMMA HostTyped == ASSUME Typed, HostStep PROVE Typed'
<1> USE DEF memory, bits, hosts, message, history, handler
<1>0. 1 \in Index  BY QueueAssumption DEF Index
<1>1. CASE Connects
  BY <1>1 DEF Connects, HostConnect, HostConnected, Typed, TypeOK, PfHeader, Version
<1>2. CASE HostRing \/ HostAck
  <2>1. owes' \subseteq {"req", "ack"}
    BY <1>2 DEF HostRing, HostAck, Typed, TypeOK
  <2>2. req' \in BOOLEAN /\ ack' \in BOOLEAN /\ irq' \in BOOLEAN
    BY <1>2 DEF HostRing, HostAck, Typed, TypeOK
  <2>3. UNCHANGED <<memory, host, conn, posted, read, handler, history>>
    BY <1>2 DEF HostRing, HostAck
  <2> QED  BY <2>1, <2>2, <2>3 DEF Typed, TypeOK
<1>3. CASE HostReset
  BY <1>0, <1>3, BoundsAssumption DEF HostReset, Typed, TypeOK, PfHeader, Version
<1>4. CASE HostPost
  <2>1. pf' \in PfHeader  BY <1>4, NextIsIndex DEF HostPost, Typed, TypeOK, PfHeader
  <2>2. <<conn, posted + 1>> \in Entry
    BY <1>4, BoundsAssumption DEF Typed, TypeOK, Entry
  <2>3. posted' \in 0 .. MaxPosted  BY <1>4, BoundsAssumption DEF HostPost, Typed, TypeOK
  <2>4. requests' \in [Index -> Entry] /\ owes' \subseteq {"req", "ack"}
    BY <1>4, <2>2 DEF HostPost, Typed, TypeOK
  <2>5. UNCHANGED <<sm, responses, req, ack, irq, host, conn, read, handler, history>>
    BY <1>4 DEF HostPost
  <2> HIDE DEF PfHeader, SmHeader, Entry, Index
  <2> QED  BY <2>1, <2>3, <2>4, <2>5 DEF Typed, TypeOK
<1>5. CASE HostRead
  <2>1. Used(pf.respHead, sm.respTail) \in Nat
    BY UsedIsDistance, QueueAssumption DEF Typed, TypeOK, PfHeader, SmHeader, Distance
  <2>2. pf' \in PfHeader /\ read' \in Nat
    BY <1>5, <2>1 DEF HostRead, Typed, TypeOK, PfHeader, SmHeader
  <2> QED  BY <1>5, <2>2 DEF HostRead, Typed, TypeOK
<1> QED  BY <1>1, <1>2, <1>3, <1>4, <1>5 DEF HostStep

LEMMA NextTyped == ASSUME Typed, [Next]_vars PROVE Typed'
<1>1. CASE UNCHANGED vars
  BY <1>1 DEF vars, memory, bits, hosts, handler, history, Typed, TypeOK
<1> QED  BY <1>1, HandlerTyped, HostTyped DEF Next, HostStep

(* Every state has its type: whatever the room a message finds, and        *)
(* however often the rings go around, indices stay within the rings.       *)
THEOREM TypeCorrect == Spec => []TypeOK
<1>1. Typed => TypeOK  BY DEF Typed
<1> QED  BY <1>1, TypeInit, NextTyped, PTL DEF Spec

-----------------------------------------------------------------------------
(* The invariant *)

\* The two have agreed on a version, and the host has not started over since.
Agreed == sm.version = "DEFAULT" /\ host # "resetting"

HostState ==
  /\ host = "up" => sm.version = "DEFAULT"
  /\ host = "resetting" <=> pf.version = "RESET"
  /\ host # "up" => /\ posted = 0 /\ pf.reqTail = 1
                    /\ read = 0 /\ pf.respHead = 1

Working == pc \in {"check", "signal", "read", "send", "await", "clear"}
Looping == \/ pc \in {"signal", "read", "reread"}
           \/ pc = "pvid" /\ job # "notify"
           \/ pc \in {"send", "await", "clear"} /\ job \in {"request", "create", "pvid"}

\* What the handler knows from its copy.  Once they have agreed, the copy was
\* read since: a handler that began before is at its end, as it is the one that
\* made them agree.
CopyGood ==
  /\ Working => hdr.respTail = sm.respTail /\ hdr.smVersion = sm.version
  /\ pc = "check" => hdr.reqHead = sm.reqHead
  /\ Looping => sm.version = "DEFAULT"
  /\ Agreed => epoch = conn /\ (Working => hdr.pfVersion = "DEFAULT")

\* A copy in which they have agreed tells of requests that are in the ring, from
\* the first not done with, although the host may have started over.
Burst ==
  Working /\ hdr.pfVersion = "DEFAULT" /\ hdr.smVersion = "DEFAULT" =>
    /\ Used(sm.reqHead, hdr.reqHead) <= Used(sm.reqHead, hdr.reqTail)
    /\ \A i \in Index : Used(sm.reqHead, i) < Used(sm.reqHead, hdr.reqTail) =>
         requests[i] = <<epoch, handled + 1 + Used(sm.reqHead, i)>>

\* The ring holds what was posted and is not done with, up to the host's tail,
\* and the handler's copy of that tail is not ahead of it.
Requested == Agreed =>
  /\ posted = handled + Used(sm.reqHead, pf.reqTail)
  /\ \A i \in Index : Used(sm.reqHead, i) < Used(sm.reqHead, pf.reqTail) =>
       requests[i] = <<conn, handled + 1 + Used(sm.reqHead, i)>>
  /\ Working => Used(sm.reqHead, hdr.reqTail) <= Used(sm.reqHead, pf.reqTail)

\* From the host's head to the tail there is nothing of an earlier connection;
\* without an overrun the handler, whose copy of the head may be old, sees
\* no more room than there is, and every entry written is still there.
Fresh ==
  \A i \in Index : Used(pf.respHead, i) < Used(pf.respHead, sm.respTail) =>
    responses[i][1] = conn
Intact ==
  /\ written = read + Used(pf.respHead, sm.respTail)
  /\ Working => Used(pf.respHead, hdr.respTail) <= Used(hdr.respHead, hdr.respTail)
  /\ \A i \in Index : Used(pf.respHead, i) < Used(pf.respHead, sm.respTail) =>
       responses[i] = <<conn, read + 1 + Used(pf.respHead, i)>>
Answered == Agreed => Fresh /\ (~tight => Intact)

Inv == Typed /\ HostState /\ CopyGood /\ Burst /\ Requested /\ Answered

LEMMA InvInit == Init => Inv
<1> SUFFICES ASSUME Init PROVE Inv  OBVIOUS
<1>1. ~Agreed /\ ~Working /\ ~Looping  BY DEF Init, Agreed, Working, Looping
<1>2. HostState  BY DEF Init, HostState
<1>3. CopyGood  BY <1>1 DEF Init, CopyGood, Working
<1> QED  BY <1>1, <1>2, <1>3, TypeInit DEF Inv, Burst, Requested, Answered

\* A step of the handler between two of its writes.
LEMMA QuietStep ==
  ASSUME Inv, Typed', UNCHANGED <<memory, host, conn, posted, read, epoch, handled, written, tight>>,
         Working' => Working /\ UNCHANGED hdr,
         pc' = "check" => pc = "check",
         Looping' => sm.version = "DEFAULT"
  PROVE  Inv'
<1> USE DEF memory
<1>1. HostState' /\ Agreed' = Agreed  BY DEF Inv, HostState, Agreed
<1>2. CopyGood'
  <2>1. Working' => hdr'.respTail = sm'.respTail /\ hdr'.smVersion = sm'.version
    BY DEF Inv, CopyGood
  <2>2. pc' = "check" => hdr'.reqHead = sm'.reqHead
    BY DEF Inv, CopyGood, Working
  <2>3. Looping' => sm'.version = "DEFAULT"  OBVIOUS
  <2>4. Agreed' => epoch' = conn' /\ (Working' => hdr'.pfVersion = "DEFAULT")
    BY <1>1 DEF Inv, CopyGood
  <2> QED  BY <2>1, <2>2, <2>3, <2>4 DEF CopyGood
<1>3. Burst'  BY DEF Inv, Burst
<1>4. Requested'  BY <1>1 DEF Inv, Requested
<1>5. Answered'  BY <1>1 DEF Inv, Answered, Fresh, Intact
<1> QED  BY <1>1, <1>2, <1>3, <1>4, <1>5 DEF Inv

LEMMA QuietInv ==
  ASSUME Inv, Typed',
         \/ Interrupt \/ Return \/ ReadGmbx \/ ProcessGlobalAck \/ Dismiss \/ Signal
         \/ NoMoreRequests \/ PartRead \/ ClearAck \/ GiveUp \/ Notify
         \/ HostRing \/ HostAck
  PROVE  Inv'
<1> USE DEF memory, hosts, handler, history
<1>1. CASE Interrupt \/ Return \/ ReadGmbx \/ ProcessGlobalAck
  BY <1>1, QuietStep DEF Interrupt, Return, ReadGmbx, ProcessGlobalAck, Working, Looping
<1>2. CASE Dismiss \/ Signal \/ NoMoreRequests
  <2>1. Looping' => Looping
    BY <1>2 DEF Dismiss, Signal, NoMoreRequests, Looping
  <2>2. Looping' => sm.version = "DEFAULT"  BY <2>1 DEF Inv, CopyGood
  <2> QED  BY <1>2, <2>2, QuietStep DEF Dismiss, Signal, NoMoreRequests, Working
<1>3. CASE PartRead \/ ClearAck \/ GiveUp
  <2>1. Looping' => Looping
    BY <1>3 DEF PartRead, ClearAck, GiveUp, After, Looping, Inv, Typed, TypeOK
  <2>2. Looping' => sm.version = "DEFAULT"  BY <2>1 DEF Inv, CopyGood
  <2>3. pc' # "check"
    BY <1>3 DEF PartRead, ClearAck, GiveUp, After, Inv, Typed, TypeOK
  <2> QED  BY <1>3, <2>2, <2>3, QuietStep DEF PartRead, ClearAck, GiveUp, Working
<1>4. CASE Notify
  BY <1>4, QuietStep DEF Notify, Working, Looping
<1>5. CASE HostRing \/ HostAck
  <2>1. Looping' = Looping /\ Working' = Working
    BY <1>5 DEF HostRing, HostAck, Looping, Working
  <2>2. Looping' => sm.version = "DEFAULT"  BY <2>1 DEF Inv, CopyGood
  <2> QED  BY <1>5, <2>1, <2>2, QuietStep DEF HostRing, HostAck
<1> QED  BY <1>1, <1>2, <1>3, <1>4, <1>5

LEMMA ConnectInv ==
  ASSUME Inv, Typed', Connects \/ HostReset
  PROVE  Inv'
<1> USE DEF memory, bits, handler, history
<1>0. /\ UNCHANGED <<sm, requests, responses, pc, job, hdr, epoch, handled, written, tight>>
      /\ Working' = Working /\ Looping' = Looping
  BY DEF Connects, HostConnect, HostConnected, HostReset, Working, Looping
<1>b. Burst'  BY <1>0 DEF Inv, Burst
<1>1. CASE HostReset \/ HostConnect
  <2>1. HostState' /\ ~Agreed'
    BY <1>1 DEF HostReset, HostConnect, Inv, HostState, Agreed, Typed, TypeOK, PfHeader
  <2>2. CopyGood'  BY <1>0, <2>1 DEF Inv, CopyGood
  <2> QED  BY <1>b, <2>1, <2>2 DEF Inv, Requested, Answered
<1>3. CASE HostConnected
  <2>1. Agreed /\ Agreed' /\ HostState'
    BY <1>3 DEF HostConnected, Inv, Agreed, HostState
  <2>2. CopyGood'  BY <1>0, <1>3, <2>1 DEF HostConnected, Inv, CopyGood
  <2>3. Requested'  BY <1>0, <1>3, <2>1 DEF HostConnected, Inv, Requested
  <2>4. Answered'  BY <1>0, <1>3, <2>1 DEF HostConnected, Inv, Answered, Fresh, Intact
  <2> QED  BY <1>b, <2>1, <2>2, <2>3, <2>4 DEF Inv
<1> QED  BY <1>1, <1>3 DEF Connects

\* The handler reads the header, at its start or again.
LEMMA CopyInv ==
  ASSUME Inv, Typed', ReadHeader \/ NotifyPvid \/ ReadAgain PROVE Inv'
<1> USE DEF memory, bits, hosts, message, history
<1>1. /\ UNCHANGED <<memory, host, conn, posted, read, epoch, handled, written, tight>>
      /\ hdr' = HeaderRead
  BY DEF ReadHeader, NotifyPvid, ReadAgain
<1>2. HostState' /\ Agreed' = Agreed  BY <1>1 DEF Inv, HostState, Agreed
<1>l. Looping' => sm.version = "DEFAULT"
  <2>1. CASE ReadHeader  BY <2>1 DEF ReadHeader, Looping
  <2>2. CASE NotifyPvid
    <3>1. CASE job = "notify"
      BY <2>2, <3>1 DEF NotifyPvid, Build, After, Looping
    <3>2. CASE job # "notify"
      BY <2>2, <3>2 DEF NotifyPvid, Inv, CopyGood, Looping
    <3> QED  BY <3>1, <3>2
  <2>3. CASE ReadAgain  BY <2>3 DEF ReadAgain, Inv, CopyGood, Looping
  <2> QED  BY <2>1, <2>2, <2>3
<1>a. pf.version = "DEFAULT" /\ sm.version = "DEFAULT" => Agreed
  BY DEF Inv, HostState, Agreed
<1>h. /\ hdr'.pfVersion = pf.version /\ hdr'.smVersion = sm.version
      /\ hdr'.respHead = pf.respHead /\ hdr'.respTail = sm.respTail
      /\ hdr'.reqHead = sm.reqHead /\ hdr'.reqTail = pf.reqTail
  BY <1>1 DEF HeaderRead
<1>v. Agreed => pf.version = "DEFAULT"
  BY DEF Inv, HostState, Agreed, Typed, TypeOK, PfHeader, Version
<1>3. CopyGood'
  BY <1>1, <1>2, <1>h, <1>l, <1>v DEF Inv, CopyGood
<1>u. /\ sm.reqHead \in Index /\ pf.reqTail \in Index
      /\ Used(sm.reqHead, sm.reqHead) = 0
      /\ Used(sm.reqHead, pf.reqTail) \in Distance
      /\ Used(pf.respHead, sm.respTail) \in Distance
  BY UsedIsDistance DEF Inv, Typed, TypeOK, PfHeader, SmHeader
<1> HIDE DEF Used
<1>4. Burst'
  <2> SUFFICES ASSUME pf.version = "DEFAULT", sm.version = "DEFAULT"
               PROVE  /\ Used(sm.reqHead, sm.reqHead) <= Used(sm.reqHead, pf.reqTail)
                      /\ \A i \in Index : Used(sm.reqHead, i) < Used(sm.reqHead, pf.reqTail) =>
                           requests[i] = <<epoch, handled + 1 + Used(sm.reqHead, i)>>
    BY <1>1, <1>h DEF Burst
  <2>1. Agreed /\ epoch = conn  BY <1>a DEF Inv, CopyGood
  <2>2. Used(sm.reqHead, sm.reqHead) <= Used(sm.reqHead, pf.reqTail)
    BY <1>u, QueueAssumption DEF Distance
  <2> QED  BY <2>1, <2>2 DEF Inv, Requested
<1>5. Requested'
  <2>1. Used(sm.reqHead, pf.reqTail) <= Used(sm.reqHead, pf.reqTail)
    BY <1>u, QueueAssumption DEF Distance
  <2> QED  BY <1>1, <1>2, <1>h, <2>1 DEF Inv, Requested
<1>6. Answered'
  <2>1. Used(pf.respHead, sm.respTail) <= Used(pf.respHead, sm.respTail)
    BY <1>u, QueueAssumption DEF Distance
  <2> QED  BY <1>1, <1>2, <1>h, <2>1 DEF Inv, Answered, Fresh, Intact
<1> QED  BY <1>2, <1>3, <1>4, <1>5, <1>6 DEF Inv

LEMMA CheckInv == ASSUME Inv, Typed', Check PROVE Inv'
<1> USE DEF memory, bits, hosts, message, history
<1>0. /\ pc = "check"
      /\ UNCHANGED <<pf, requests, responses, host, conn, posted, read>>
  BY DEF Check
<1>w. Working  BY <1>0 DEF Working
<1>1. CASE Withdraw
  <2>1. ~Agreed  BY <1>0, <1>1, <1>w DEF Withdraw, Inv, CopyGood
  <2>2. sm'.version = "RESET"  BY <1>1 DEF Withdraw, Inv, Typed, TypeOK, SmHeader
  <2>3. HostState' /\ ~Agreed'
    BY <1>0, <2>1, <2>2 DEF Inv, HostState, Agreed
  <2>4. ~Working' /\ ~Looping' /\ pc' = "dismiss"
    BY <1>1 DEF Withdraw, Working, Looping
  <2> QED  BY <2>3, <2>4 DEF Inv, CopyGood, Burst, Requested, Answered
<1>2. CASE Synchronize
  <2>1. ~Agreed  BY <1>0, <1>2, <1>w DEF Synchronize, Inv, CopyGood, Agreed
  <2>2. host # "up"  BY <2>1 DEF Inv, HostState, Agreed
  <2>3. /\ sm' = [version |-> "DEFAULT", respTail |-> 1, reqHead |-> 1]
        /\ pc' = "dismiss" /\ epoch' = conn /\ handled' = 0 /\ written' = 0
    BY <1>2 DEF Synchronize
  <2>n. ~Working' /\ ~Looping'  BY <2>3 DEF Working, Looping
  <2>4. posted = 0 /\ read = 0 /\ pf.reqTail = 1 /\ pf.respHead = 1
    BY <2>2 DEF Inv, HostState
  <2>5. HostState'  BY <1>0, <2>2, <2>3 DEF Inv, HostState
  <2>6. CopyGood' /\ Burst'  BY <1>0, <2>3, <2>n DEF CopyGood, Burst
  <2>7. Used(1, 1) = 0 /\ \A i \in Index : ~(Used(1, i) < 0)
    BY UsedIsDistance, QueueAssumption DEF Index, Distance
  <2>8. Requested'  BY <1>0, <2>3, <2>4, <2>7, <2>n DEF Requested
  <2>9. Answered'  BY <1>0, <2>3, <2>4, <2>7, <2>n DEF Answered, Fresh, Intact
  <2> QED  BY <2>5, <2>6, <2>8, <2>9 DEF Inv
<1>3. CASE Accept
  <2>1. sm' = sm
    BY <1>0, <1>3 DEF Accept, Inv, CopyGood, Typed, TypeOK, SmHeader
  <2>2. UNCHANGED <<hdr, epoch, handled, written, tight>> /\ pc' = "signal"
    BY <1>3 DEF Accept
  <2>3. sm.version = "DEFAULT"  BY <1>3, <1>w DEF Accept, Inv, CopyGood
  <2> QED  BY <1>0, <1>w, <2>1, <2>2, <2>3, QuietStep
<1> QED  BY <1>1, <1>2, <1>3 DEF Check

\* The handler takes an entry; the ring still begins where memory says.
LEMMA TakeInv == ASSUME Inv, Typed', ReadRequest \/ SkipEntry PROVE Inv'
<1> USE DEF memory, bits, hosts
<1>0. /\ UNCHANGED <<pf, sm, requests, responses, host, conn, posted, read>>
      /\ UNCHANGED <<epoch, handled, written, tight>>
      /\ pc = "read" /\ pc' # "check" /\ hdr.reqHead # hdr.reqTail
      /\ hdr' = [hdr EXCEPT !.reqHead = NextIndex(hdr.reqHead)]
  BY DEF ReadRequest, SkipEntry, Take, Build, After
<1>1. HostState' /\ Agreed' = Agreed  BY <1>0 DEF Inv, HostState, Agreed
<1>2. /\ Working /\ Looping  BY <1>0 DEF Working, Looping
<1>3. /\ UNCHANGED <<hdr.pfVersion, hdr.smVersion, hdr.reqTail, hdr.respHead, hdr.respTail>>
      /\ hdr'.reqHead = NextIndex(hdr.reqHead)
  BY <1>0 DEF Inv, Typed, TypeOK, Header
<1>4. CopyGood'  BY <1>0, <1>1, <1>2, <1>3 DEF Inv, CopyGood
<1> DEFINE h == sm.reqHead
           c == hdr.reqHead
           t == hdr.reqTail
<1>5. Burst'
  <2> SUFFICES ASSUME hdr.pfVersion = "DEFAULT", hdr.smVersion = "DEFAULT"
               PROVE  /\ Used(h, NextIndex(c)) <= Used(h, t)
                      /\ \A i \in Index : Used(h, i) < Used(h, t) =>
                           requests[i] = <<epoch, handled + 1 + Used(h, i)>>
    BY <1>0, <1>3 DEF Burst
  <2>1. /\ Used(h, c) <= Used(h, t) /\ c # t
        /\ \A i \in Index : Used(h, i) < Used(h, t) =>
             requests[i] = <<epoch, handled + 1 + Used(h, i)>>
    BY <1>0, <1>2 DEF Inv, Burst
  <2>2. h \in Index /\ c \in Index /\ t \in Index
    BY DEF Inv, Typed, TypeOK, SmHeader, Header
  <2> HIDE DEF h, c, t
  <2>3. /\ Used(h, NextIndex(c)) = IF NextIndex(c) = h THEN 0 ELSE Used(h, c) + 1
        /\ Used(h, c) \in Distance /\ Used(h, t) \in Distance
    BY <2>2, UsedToNext, UsedIsDistance
  <2>4. Used(h, c) # Used(h, t)
    <3>1. Ahead(h, Used(h, c)) = c /\ Ahead(h, Used(h, t)) = t
      BY <2>2, AheadUsed
    <3> QED  BY <2>1, <3>1
  <2>5. Used(h, NextIndex(c)) <= Used(h, t)
    BY <2>1, <2>3, <2>4, QueueAssumption DEF Distance
  <2> QED  BY <2>1, <2>5
<1>6. Requested'  BY <1>0, <1>1, <1>2, <1>3 DEF Inv, Requested
<1>7. Answered'
  BY <1>0, <1>1, <1>2, <1>3 DEF Inv, Answered, Fresh, Intact
<1> QED  BY <1>1, <1>4, <1>5, <1>6, <1>7 DEF Inv

\* The host posts a request: the ring ends one entry further on, which is not
\* the head it sees, and the entry is none that the handler still has to take.
LEMMA HostPostInv == ASSUME Inv, Typed', HostPost PROVE Inv'
<1> USE DEF handler, bits, history
<1> DEFINE h == sm.reqHead
           t == pf.reqTail
           c == hdr.reqTail
<1>0. /\ UNCHANGED <<sm, responses, host, conn, read, pc, job, hdr>>
      /\ UNCHANGED <<epoch, handled, written, tight>>
      /\ host = "up" /\ NextIndex(t) # h
      /\ requests' = [requests EXCEPT ![t] = <<conn, posted + 1>>]
      /\ posted' = posted + 1
      /\ pf' = [pf EXCEPT !.reqTail = NextIndex(t)]
  BY DEF HostPost
<1>1. pf'.reqTail = NextIndex(t) /\ pf'.version = pf.version /\ pf'.respHead = pf.respHead
  BY <1>0 DEF Inv, Typed, TypeOK, PfHeader
<1>2. HostState' /\ Agreed /\ Agreed'
  BY <1>0, <1>1 DEF Inv, HostState, Agreed
<1>3. /\ h \in Index /\ t \in Index /\ c \in Index
      /\ handled \in Nat /\ posted \in Nat /\ requests \in [Index -> Entry]
  BY DEF Inv, Typed, TypeOK, PfHeader, SmHeader, Header
<1>4. Working' = Working /\ Looping' = Looping  BY <1>0 DEF Working, Looping
<1>5. CopyGood'  BY <1>0, <1>1, <1>2, <1>4 DEF Inv, CopyGood
<1>6. /\ Used(h, NextIndex(t)) = Used(h, t) + 1
      /\ \A i \in Index : Used(h, i) \in Distance
      /\ \A i \in Index : Used(h, i) = Used(h, t) => i = t
  <2> HIDE DEF h, t
  <2>1. Used(h, NextIndex(t)) = Used(h, t) + 1  BY <1>0, <1>3, UsedToNext
  <2>2. \A i \in Index : Used(h, i) \in Distance  BY <1>3, UsedIsDistance
  <2>3. ASSUME NEW i \in Index, Used(h, i) = Used(h, t) PROVE i = t
    <3>1. Ahead(h, Used(h, i)) = i /\ Ahead(h, Used(h, t)) = t
      BY <1>3, AheadUsed
    <3> QED  BY <2>3, <3>1
  <2> QED  BY <2>1, <2>2, <2>3
<1>7. /\ posted = handled + Used(h, t)
      /\ \A i \in Index : Used(h, i) < Used(h, t) =>
           requests[i] = <<conn, handled + 1 + Used(h, i)>>
      /\ Working => Used(h, c) <= Used(h, t)
  BY <1>2 DEF Inv, Requested
<1>8. \A i \in Index : i # t => requests'[i] = requests[i]
  BY <1>0, <1>3
<1>9. Burst'
  <2>1. ASSUME Working, NEW i \in Index, Used(h, i) < Used(h, c)
        PROVE  requests'[i] = requests[i]
    <3> HIDE DEF h, t, c
    <3>1. i # t
      BY <1>3, <1>6, <1>7, <2>1, QueueAssumption DEF Distance
    <3> QED  BY <1>8, <3>1
  <2> QED  BY <1>0, <1>4, <2>1 DEF Inv, Burst
<1>10. Requested'
  <2> HIDE DEF h, t, c
  <2>1. posted + 1 = handled + Used(h, NextIndex(t))
    BY <1>3, <1>6, <1>7, QueueAssumption DEF Distance
  <2>2. ASSUME NEW i \in Index, Used(h, i) < Used(h, NextIndex(t))
        PROVE  requests'[i] = <<conn, handled + 1 + Used(h, i)>>
    <3>1. CASE i = t
      <4>1. posted + 1 = handled + 1 + Used(h, t)
        BY <1>3, <1>6, <1>7, QueueAssumption DEF Distance
      <4> QED  BY <1>0, <1>3, <3>1, <4>1
    <3>2. CASE i # t
      <4>1. Used(h, i) < Used(h, t)
        BY <1>3, <1>6, <2>2, <3>2, QueueAssumption DEF Distance
      <4> QED  BY <1>7, <1>8, <3>2, <4>1
    <3> QED  BY <3>1, <3>2
  <2>3. Working => Used(h, c) <= Used(h, NextIndex(t))
    BY <1>3, <1>6, <1>7, QueueAssumption DEF Distance
  <2> QED  BY <1>0, <1>1, <1>4, <2>1, <2>2, <2>3 DEF Requested, h, t, c
<1>11. Answered'
  BY <1>0, <1>1, <1>2, <1>4 DEF Inv, Answered, Fresh, Intact
<1> QED  BY <1>2, <1>5, <1>9, <1>10, <1>11 DEF Inv

\* The host has read all there is.
LEMMA HostReadInv == ASSUME Inv, Typed', HostRead PROVE Inv'
<1> USE DEF handler, bits, history
<1> DEFINE t == sm.respTail
<1>0. /\ UNCHANGED <<sm, requests, responses, host, conn, posted, pc, job, hdr>>
      /\ UNCHANGED <<epoch, handled, written, tight>>
      /\ host = "up"
      /\ read' = read + Used(pf.respHead, t)
      /\ pf' = [pf EXCEPT !.respHead = t]
  BY DEF HostRead
<1>1. pf'.reqTail = pf.reqTail /\ pf'.version = pf.version /\ pf'.respHead = t
  BY <1>0 DEF Inv, Typed, TypeOK, PfHeader
<1>2. /\ HostState' /\ Agreed /\ Agreed'
      /\ Working' = Working /\ Looping' = Looping
  BY <1>0, <1>1 DEF Inv, HostState, Agreed, Working, Looping
<1>b. Burst'  BY <1>0, <1>2 DEF Inv, Burst
<1>3. CopyGood'  BY <1>0, <1>1, <1>2 DEF Inv, CopyGood
<1>4. Requested'  BY <1>0, <1>1, <1>2 DEF Inv, Requested
<1>5. Answered'
  <2>1. t \in Index /\ hdr.respTail \in Index /\ hdr.respHead \in Index
    BY DEF Inv, Typed, TypeOK, SmHeader, Header
  <2>2. Used(t, t) = 0 /\ \A i \in Index : ~(Used(t, i) < 0)
    BY <2>1, UsedIsDistance, QueueAssumption DEF Distance
  <2>3. Fresh'  BY <1>0, <1>1, <2>2 DEF Fresh
  <2>4. ASSUME ~tight' PROVE Intact'
    <3>1. written = read + Used(pf.respHead, t)
      BY <1>0, <1>2, <2>4 DEF Inv, Answered, Intact
    <3>2. written' = read' + Used(t, t)
      <4>1. written \in Nat  BY DEF Inv, Typed, TypeOK
      <4> QED  BY <1>0, <2>2, <3>1, <4>1
    <3>3. Working => Used(t, hdr.respTail) <= Used(hdr.respHead, hdr.respTail)
      <4>1. Working => hdr.respTail = t  BY <1>2 DEF Inv, CopyGood
      <4>2. Used(hdr.respHead, hdr.respTail) \in Distance
        BY <2>1, UsedIsDistance
      <4> QED  BY <2>2, <4>1, <4>2, QueueAssumption DEF Distance
    <3> QED  BY <1>0, <1>1, <1>2, <2>2, <3>2, <3>3 DEF Intact
  <2> QED  BY <2>3, <2>4 DEF Answered
<1> QED  BY <1>2, <1>b, <1>3, <1>4, <1>5 DEF Inv

\* Distances from t, by distances from h.
LEMMA UsedFrom ==
  ASSUME NEW h \in Index, NEW t \in Index, NEW i \in Index
  PROVE  Used(t, i) = IF Used(h, i) >= Used(h, t)
                      THEN Used(h, i) - Used(h, t)
                      ELSE Used(h, i) - Used(h, t) + (QueueSize - 1)
BY QueueAssumption DEF Used, Index

\* What a message puts into the ring: its entries in order, nothing else.
LEMMA FillAt ==
  ASSUME Typed, NEW i \in Index
  PROVE  LET t == hdr.respTail
         IN  Fill(Writes)[i] = IF Used(t, i) < Writes
                               THEN <<epoch, written + (Used(t, i) + 1)>>
                               ELSE responses[i]
<1> DEFINE t == hdr.respTail
           n == Used(t, i)
           at(k) == i = Ahead(t, k - 1)
<1>1. t \in Index  BY DEF Typed, TypeOK, Header
<1>2. Writes \in 2 .. QueueSize - 1  BY WritesFit
<1>3. n \in Distance  BY <1>1, UsedIsDistance
<1>4. ASSUME NEW k \in 1 .. Writes PROVE at(k) <=> k = n + 1
  <2>1. k - 1 \in Distance  BY <1>2, QueueAssumption DEF Distance
  <2>2. at(k) => k - 1 = n  BY <1>1, <2>1, AheadUsed
  <2>3. n + 1 - 1 = n  BY <1>3, QueueAssumption DEF Distance
  <2>4. ASSUME k = n + 1 PROVE at(k)
    <3>1. Ahead(t, n) = i  BY <1>1, AheadUsed
    <3>2. k - 1 = n  BY <1>2, <1>3, <2>4, QueueAssumption DEF Distance
    <3> QED  BY <3>1, <3>2
  <2>5. k - 1 = n => k = n + 1  BY <1>2, <1>3, QueueAssumption DEF Distance
  <2> QED  BY <2>2, <2>4, <2>5
<1>5. Fill(Writes)[i] = IF \E k \in 1 .. Writes : at(k)
                        THEN <<epoch, written + (CHOOSE k \in 1 .. Writes : at(k))>>
                        ELSE responses[i]
  BY DEF Fill
<1> HIDE DEF at, n, t
<1>6. CASE n < Writes
  <2>1. n + 1 \in 1 .. Writes
    BY <1>2, <1>3, <1>6, QueueAssumption DEF Distance
  <2>2. (CHOOSE k \in 1 .. Writes : at(k)) = n + 1  BY <1>4, <2>1
  <2> QED  BY <1>4, <1>5, <1>6, <2>1, <2>2 DEF n, t
<1>7. CASE ~(n < Writes)
  <2>1. \A k \in 1 .. Writes : k # n + 1
    BY <1>2, <1>3, <1>7, QueueAssumption DEF Distance
  <2> QED  BY <1>4, <1>5, <1>7, <2>1 DEF n, t
<1> QED  BY <1>6, <1>7

\* The handler writes a message, or a part of one, and saves its indices.
LEMMA SendInv == ASSUME Inv, Typed', Send PROVE Inv'
<1> USE DEF bits, hosts
<1> DEFINE t == hdr.respTail
           h == pf.respHead
           u == Ahead(t, Writes)
<1>0. /\ UNCHANGED <<pf, requests, host, conn, posted, read, epoch, job>>
      /\ pc = "send" /\ pc' # "check"
      /\ hdr' = [hdr EXCEPT !.respTail = u]
      /\ sm' = [sm EXCEPT !.respTail = u, !.reqHead = hdr.reqHead]
      /\ responses' = Fill(Writes) /\ written' = written + Writes
      /\ handled' = handled + Used(sm.reqHead, hdr.reqHead)
      /\ tight' = (tight \/ Writes >= Room)
  BY DEF Send, SaveIndices, After, Inv, Typed, TypeOK
<1>1. /\ hdr'.respTail = u /\ sm'.respTail = u /\ sm'.reqHead = hdr.reqHead
      /\ hdr'.reqHead = hdr.reqHead /\ hdr'.reqTail = hdr.reqTail
      /\ hdr'.respHead = hdr.respHead /\ sm'.version = sm.version
      /\ hdr'.pfVersion = hdr.pfVersion /\ hdr'.smVersion = hdr.smVersion
  BY <1>0 DEF Inv, Typed, TypeOK, Header, SmHeader
<1>2. HostState' /\ Agreed' = Agreed
  BY <1>0, <1>1 DEF Inv, HostState, Agreed
<1>3. Working  BY <1>0 DEF Working
<1>l. Looping' => Looping
  BY <1>0 DEF Send, After, Looping, Inv, Typed, TypeOK
<1>4. CopyGood'
  BY <1>0, <1>1, <1>2, <1>3, <1>l DEF Inv, CopyGood
<1>5. Burst' /\ Requested'
  <2> DEFINE g == sm.reqHead
             p == hdr.reqHead
             c == hdr.reqTail
             f == pf.reqTail
  <2>1. /\ g \in Index /\ p \in Index /\ c \in Index /\ f \in Index
        /\ handled \in Nat /\ posted \in Nat
    BY DEF Inv, Typed, TypeOK, SmHeader, Header, PfHeader
  <2>2. sm'.reqHead = p /\ handled' = handled + Used(g, p)  BY <1>0, <1>1
  <2>3. /\ \A i \in Index : Used(g, i) \in Distance /\ Used(p, i) \in Distance
        /\ \A i \in Index : Used(p, i) = IF Used(g, i) >= Used(g, p)
                                         THEN Used(g, i) - Used(g, p)
                                         ELSE Used(g, i) - Used(g, p) + (QueueSize - 1)
    BY <2>1, UsedFrom, UsedIsDistance
  <2> HIDE DEF g, p, c, f, u, t, h
  \* Entries from the new head to a tail are those of the old ring beyond it.
  <2>4. ASSUME NEW x \in Index, Used(g, p) <= Used(g, x),
               NEW i \in Index, Used(p, i) < Used(p, x)
        PROVE  /\ Used(g, i) < Used(g, x)
               /\ handled + 1 + Used(g, i) = handled + Used(g, p) + 1 + Used(p, i)
    BY <2>1, <2>3, <2>4, QueueAssumption DEF Distance
  <2>5. Burst'
    <3> SUFFICES ASSUME hdr.pfVersion = "DEFAULT", hdr.smVersion = "DEFAULT"
                 PROVE  /\ Used(p, p) <= Used(p, c)
                        /\ \A i \in Index : Used(p, i) < Used(p, c) =>
                             requests[i] = <<epoch, handled + Used(g, p) + 1 + Used(p, i)>>
      BY <1>0, <1>1, <2>2 DEF Burst, p, c
    <3>1. /\ Used(g, p) <= Used(g, c)
          /\ \A i \in Index : Used(g, i) < Used(g, c) =>
               requests[i] = <<epoch, handled + 1 + Used(g, i)>>
      BY <1>3 DEF Inv, Burst, g, p, c
    <3>2. Used(p, p) <= Used(p, c)
      BY <2>1, <2>3, UsedIsDistance, QueueAssumption DEF Distance
    <3> QED  BY <2>1, <2>4, <3>1, <3>2
  <2>6. Requested'
    <3> SUFFICES ASSUME Agreed
                 PROVE  /\ posted = handled + Used(g, p) + Used(p, f)
                        /\ \A i \in Index : Used(p, i) < Used(p, f) =>
                             requests[i] = <<conn, handled + Used(g, p) + 1 + Used(p, i)>>
                        /\ Used(p, c) <= Used(p, f)
      BY <1>0, <1>1, <1>2, <2>2 DEF Requested, p, c, f
    <3>1. hdr.pfVersion = "DEFAULT" /\ hdr.smVersion = "DEFAULT"
      BY <1>3 DEF Inv, CopyGood, Agreed
    <3>2. /\ Used(g, p) <= Used(g, c) /\ Used(g, c) <= Used(g, f)
          /\ posted = handled + Used(g, f)
          /\ \A i \in Index : Used(g, i) < Used(g, f) =>
               requests[i] = <<conn, handled + 1 + Used(g, i)>>
      BY <1>3, <3>1 DEF Inv, Burst, Requested, g, p, c, f
    <3>3. Used(g, p) <= Used(g, f)
      BY <2>1, <2>3, <3>2, QueueAssumption DEF Distance
    <3>4. posted = handled + Used(g, p) + Used(p, f) /\ Used(p, c) <= Used(p, f)
      BY <2>1, <2>3, <3>2, <3>3, QueueAssumption DEF Distance
    <3> QED  BY <2>1, <2>4, <3>2, <3>3, <3>4
  <2> QED  BY <2>5, <2>6
<1> SUFFICES ASSUME Agreed PROVE Answered'
  BY <1>2, <1>4, <1>5 DEF Inv, Answered
<1>6. /\ t \in Index /\ h \in Index /\ hdr.respHead \in Index
      /\ Writes \in 2 .. QueueSize - 1
      /\ written \in Nat /\ read \in Nat
  BY WritesFit DEF Inv, Typed, TypeOK, Header, PfHeader
<1>7. epoch = conn /\ sm.respTail = t /\ pf'.respHead = h
  BY <1>0, <1>3 DEF Inv, CopyGood
<1>8. \A i \in Index : responses'[i] = IF Used(t, i) < Writes
                                       THEN <<conn, written + (Used(t, i) + 1)>>
                                       ELSE responses[i]
  BY <1>0, <1>7, FillAt DEF Inv
<1>9. \A i \in Index : Used(h, i) \in Distance /\ Used(t, i) \in Distance
  BY <1>6, UsedIsDistance
<1>10. \A i \in Index :
         Used(t, i) = IF Used(h, i) >= Used(h, t) THEN Used(h, i) - Used(h, t)
                      ELSE Used(h, i) - Used(h, t) + (QueueSize - 1)
  BY <1>6, UsedFrom
<1>11. /\ \A g \in Index : Used(g, u) = IF Used(g, t) + Writes < QueueSize - 1
                                        THEN Used(g, t) + Writes
                                        ELSE Used(g, t) + Writes - (QueueSize - 1)
  BY <1>6, UsedAhead
<1> HIDE DEF t, h, u
<1>12. Fresh'
  <2>1. ASSUME NEW i \in Index, Used(h, i) < Used(h, u)
        PROVE  Used(t, i) < Writes \/ Used(h, i) < Used(h, t)
    BY <1>6, <1>9, <1>10, <1>11, <2>1, QueueAssumption DEF Distance
  <2>2. \A i \in Index : Used(h, i) < Used(h, t) => responses[i][1] = conn
    BY <1>7 DEF Inv, Answered, Fresh, h
  <2>3. ASSUME NEW i \in Index, Used(h, i) < Used(h, u)
        PROVE  responses'[i][1] = conn
    <3>1. CASE Used(t, i) < Writes
      <4>1. responses'[i] = <<conn, written + (Used(t, i) + 1)>>  BY <1>8, <3>1
      <4> QED  BY <4>1
    <3>2. CASE ~(Used(t, i) < Writes)
      BY <1>8, <2>1, <2>2, <2>3, <3>2
    <3> QED  BY <3>1, <3>2
  <2> QED  BY <1>0, <1>1, <1>7, <2>3 DEF Fresh
<1>13. ASSUME ~tight' PROVE Intact'
  <2>0. ~tight /\ ~(Writes >= Room)  BY <1>0, <1>13, Zenon
  <2>r. Room \in 1 .. QueueSize - 1  BY WritesFit DEF Inv
  <2>1. ~tight /\ Writes < Room
    BY <1>6, <2>0, <2>r, QueueAssumption
  <2>2. /\ written = read + Used(h, t)
        /\ Used(h, t) <= Used(hdr.respHead, t)
        /\ \A i \in Index : Used(h, i) < Used(h, t) =>
             responses[i] = <<conn, read + 1 + Used(h, i)>>
    BY <1>3, <1>7, <2>1 DEF Inv, Answered, Intact, h, t
  <2>3. Used(hdr.respHead, t) \in Distance  BY <1>6, UsedIsDistance
  <2>4. Used(hdr.respHead, t) + Writes < QueueSize - 1
    BY <1>6, <2>1, <2>3, QueueAssumption DEF Room, Empty, Distance, t
  <2>5. Used(h, t) + Writes < QueueSize - 1
    BY <1>6, <1>9, <2>2, <2>3, <2>4, QueueAssumption DEF Distance
  <2>6. /\ Used(h, u) = Used(h, t) + Writes
        /\ Used(hdr.respHead, u) = Used(hdr.respHead, t) + Writes
    BY <1>6, <1>11, <2>4, <2>5
  <2>7. written' = read + Used(h, u)
    BY <1>0, <1>6, <1>9, <2>2, <2>6, QueueAssumption DEF Distance
  <2>8. Used(h, u) <= Used(hdr.respHead, u)
    BY <1>6, <1>9, <2>2, <2>3, <2>6, QueueAssumption DEF Distance
  <2>9. ASSUME NEW i \in Index, Used(h, i) < Used(h, u)
        PROVE  responses'[i] = <<conn, read + 1 + Used(h, i)>>
    <3>1. CASE Used(h, i) < Used(h, t)
      <4>1. ~(Used(t, i) < Writes)
        BY <1>6, <1>9, <1>10, <2>5, <3>1, QueueAssumption DEF Distance
      <4> QED  BY <1>8, <2>2, <3>1, <4>1
    <3>2. CASE ~(Used(h, i) < Used(h, t))
      <4>1. Used(t, i) = Used(h, i) - Used(h, t)
        BY <1>6, <1>9, <1>10, <3>2, QueueAssumption DEF Distance
      <4>2. /\ Used(t, i) < Writes
            /\ written + (Used(t, i) + 1) = read + 1 + Used(h, i)
        BY <1>6, <1>9, <2>2, <2>6, <2>9, <4>1, QueueAssumption DEF Distance
      <4> QED  BY <1>8, <4>2
    <3> QED  BY <3>1, <3>2
  <2> QED  BY <1>0, <1>1, <1>7, <2>7, <2>8, <2>9 DEF Intact
<1> QED  BY <1>12, <1>13 DEF Answered

LEMMA InvAlways == Spec => []Inv
<1>1. Inv /\ [Next]_vars => Inv'
  <2> SUFFICES ASSUME Inv, [Next]_vars PROVE Inv'  OBVIOUS
  <2>t. Typed'  BY NextTyped DEF Inv
  <2>1. CASE UNCHANGED vars
    <3>1. Working' = Working /\ Looping' = Looping
      BY <2>1 DEF vars, handler, Working, Looping
    <3>2. Looping' => sm.version = "DEFAULT"  BY <3>1 DEF Inv, CopyGood
    <3> QED
      BY <2>t, <2>1, <3>1, <3>2, QuietStep DEF vars, memory, bits, hosts, handler, history
  <2>2. CASE Handler \/ Notify
    BY <2>t, <2>2, QuietInv, CopyInv, CheckInv, TakeInv, SendInv
    DEF Handler
  <2>3. CASE HostStep
    BY <2>t, <2>3, QuietInv, ConnectInv, HostPostInv, HostReadInv DEF HostStep
  <2> QED  BY <2>1, <2>2, <2>3 DEF Next, HostStep
<1> QED  BY <1>1, InvInit, PTL DEF Spec

-----------------------------------------------------------------------------
(* The handler takes the requests of a connection in the order posted, and *)
(* again only those it had no memory to answer, however often the ring     *)
(* goes around, whatever the host posts while the handler works from an    *)
(* old copy, and even when the host has started over; except when it has   *)
(* read the header again since, in the loop, and found no version in it.   *)
THEOREM RequestsTakenInOrder == Spec => []RequestsInOrder
<1>1. Inv => RequestsInOrder
  <2> DEFINE h == sm.reqHead
             c == hdr.reqHead
             t == hdr.reqTail
  <2> SUFFICES ASSUME Inv, pc = "read", c # t, hdr.pfVersion = "DEFAULT"
               PROVE  requests[c] = <<epoch, handled + 1 + Used(h, c)>>
    BY DEF RequestsInOrder
  <2>1. h \in Index /\ c \in Index /\ t \in Index
    BY DEF Inv, Typed, TypeOK, SmHeader, Header
  <2>2. Working /\ Looping  BY DEF Working, Looping
  <2>3. hdr.smVersion = "DEFAULT"  BY <2>2 DEF Inv, CopyGood
  <2>4. /\ Used(h, c) <= Used(h, t)
        /\ \A i \in Index : Used(h, i) < Used(h, t) =>
             requests[i] = <<epoch, handled + 1 + Used(h, i)>>
    BY <2>2, <2>3 DEF Inv, Burst
  <2> HIDE DEF h, c, t
  <2>5. Used(h, c) # Used(h, t)
    <3>1. Ahead(h, Used(h, c)) = c /\ Ahead(h, Used(h, t)) = t
      BY <2>1, AheadUsed
    <3> QED  BY <3>1
  <2>6. Used(h, c) < Used(h, t)
    BY <2>1, <2>4, <2>5, UsedIsDistance, QueueAssumption DEF Distance
  <2> QED  BY <2>1, <2>4, <2>6
<1> QED  BY <1>1, InvAlways, PTL

(* A connected host finds no response to its predecessor, although the     *)
(* rings are not cleared and the handler may still have been writing when  *)
(* the host started over.                                                  *)
THEOREM NothingStaleEver == Spec => []NothingStale
<1>1. Inv => NothingStale
  <2> SUFFICES ASSUME Inv, host = "up",
                      NEW k \in 1 .. Used(pf.respHead, sm.respTail)
               PROVE  responses[Ahead(pf.respHead, k - 1)][1] = conn
    BY DEF NothingStale
  <2> DEFINE h == pf.respHead
             i == Ahead(h, k - 1)
  <2>1. h \in Index /\ sm.respTail \in Index
    BY DEF Inv, Typed, TypeOK, PfHeader, SmHeader
  <2>2. Used(h, sm.respTail) \in Distance  BY <2>1, UsedIsDistance
  <2>3. k - 1 \in Distance /\ k - 1 < Used(h, sm.respTail)
    BY <2>2, QueueAssumption DEF Distance
  <2>4. i \in Index /\ Used(h, i) = k - 1  BY <2>1, <2>3, AheadUsed
  <2>5. Agreed  BY DEF Inv, HostState, Agreed
  <2> QED  BY <2>3, <2>4, <2>5 DEF Inv, Answered, Fresh
<1> QED  BY <1>1, InvAlways, PTL

(* While no message has filled the ring, a connected host reads all that   *)
(* it was sent, in order: the head from which the handler computes the     *)
(* room is old, but an old head only makes the room seem smaller.          *)
THEOREM IntactAlways == Spec => []IntactWhileRoom
<1>1. Inv => IntactWhileRoom
  <2> SUFFICES ASSUME Inv, host = "up", ~tight
               PROVE  LET unread == Used(pf.respHead, sm.respTail)
                      IN  /\ written = read + unread
                          /\ \A k \in 1 .. unread :
                               responses[Ahead(pf.respHead, k - 1)] = <<conn, read + k>>
    BY DEF IntactWhileRoom
  <2> DEFINE h == pf.respHead
  <2>1. h \in Index /\ sm.respTail \in Index /\ read \in Nat
    BY DEF Inv, Typed, TypeOK, PfHeader, SmHeader
  <2>2. Used(h, sm.respTail) \in Distance  BY <2>1, UsedIsDistance
  <2>3. Agreed  BY DEF Inv, HostState, Agreed
  <2>4. Intact  BY <2>3 DEF Inv, Answered
  <2>5. ASSUME NEW k \in 1 .. Used(h, sm.respTail)
        PROVE  responses[Ahead(h, k - 1)] = <<conn, read + k>>
    <3>1. k - 1 \in Distance /\ k - 1 < Used(h, sm.respTail)
      BY <2>2, QueueAssumption DEF Distance
    <3>2. Ahead(h, k - 1) \in Index /\ Used(h, Ahead(h, k - 1)) = k - 1
      BY <2>1, <3>1, AheadUsed
    <3>3. read + 1 + (k - 1) = read + k  BY <2>1, <2>2 DEF Distance
    <3> QED  BY <2>4, <3>1, <3>2, <3>3 DEF Intact
  <2> QED  BY <2>4, <2>5 DEF Intact
<1> QED  BY <1>1, InvAlways, PTL
=============================================================================
