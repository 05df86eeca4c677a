------------------------------ MODULE Mailbox -------------------------------
(***************************************************************************)
(* The mailbox of one PEP, src/api/fm10000/fm10000_api_mailbox.c: a ring of *)
(* requests the host (the PF) fills, a ring of responses the switch        *)
(* manager (the SM) fills, a control header for each of the two in the     *)
(* memory they share, and a bit each way that asks for attention.          *)
(*                                                                         *)
(* The switch manager runs one handler at a time, under the mailbox lock:  *)
(* an interrupt, or a notification it sends on its own.  It works from a   *)
(* copy of the control header taken when the handler starts.  A write to   *)
(* the memory or to PCIE_GMBX is a step; the entries of a message become   *)
(* visible with the tail and are one step with it.  A request is one entry *)
(* of its ring, with the transaction flag.  A message for which there is   *)
(* no memory is not written.  The host is not in this repository: it does  *)
(* what the handlers expect of it, may start over at any time, and never   *)
(* leaves an index out of range.                                           *)
(***************************************************************************)
EXTENDS Integers, FiniteSets

CONSTANTS QueueSize,  \* FM10000_MAILBOX_QUEUE_SIZE
          Data,       \* the data entries a response may have
          PvidData,   \* those of the message about a port's default VLAN
          MaxPosted,  \* bound: requests per connection
          MaxConn,    \* bound: how often the host connects
          MaxNotify,  \* bound: notifications
          MaxFailures,  \* bound: messages for which there is no memory
          RingsAgain  \* does the host repeat a ring that had no effect?

ASSUME QueueAssumption == QueueSize \in Nat /\ QueueSize > 2
ASSUME DataAssumption == Data \subseteq Nat /\ PvidData \in Nat
ASSUME BoundsAssumption ==
  /\ MaxPosted \in Nat /\ MaxConn \in Nat \ {0} /\ MaxNotify \in Nat
  /\ MaxFailures \in Nat
ASSUME RingsAssumption == RingsAgain \in BOOLEAN

Index == 1 .. QueueSize - 1            \* entry 0 is the control header
Version == {"RESET", "DEFAULT"}
NoEntry == <<0, 0>>

VARIABLES
  pf,          \* the host's control header
  sm,          \* the switch manager's control header
  requests, responses,   \* the rings: <<connection, number in it>>
  req, ack,    \* GlobalReqInterrupt and GlobalAckInterrupt of PCIE_GMBX
  irq,         \* Mailbox in PCIE_IP
  host,        \* external: how far the host is
  owes,        \* external: the bits the host still has to set
  conn, posted, read,    \* connections begun, requests and entries in this one
  pc, job,     \* where the handler is, and what for
  hdr,         \* its copy of the control headers
  dataEntries, entriesSent,
  epoch, handled, written,  \* history: the connection the two agreed on last,
                            \* requests done with, as the head in memory
                            \* says, and entries written since
  tight,       \* history: has a message filled the ring since?
  notified, failures   \* history: notifications, messages without memory

memory  == <<pf, sm, requests, responses>>
bits    == <<req, ack, irq>>
hosts   == <<host, owes, conn, posted, read>>
message == <<dataEntries, entriesSent>>
history == <<epoch, handled, written, tight, notified, failures>>
handler == <<pc, job, hdr, dataEntries, entriesSent>>
vars == <<memory, bits, hosts, handler, history>>

PfHeader == [version : Version, respHead : Index, reqTail : Index]
SmHeader == [version : Version, respTail : Index, reqHead : Index]
Header == [pfVersion : Version, smVersion : Version, respHead : Index,
           reqTail : Index, respTail : Index, reqHead : Index]
NoHeader == [pfVersion |-> "RESET", smVersion |-> "RESET", respHead |-> 1,
             reqTail |-> 1, respTail |-> 1, reqHead |-> 1]
Entry == (0 .. MaxConn) \X Nat

TypeOK ==
  /\ pf \in PfHeader /\ sm \in SmHeader /\ hdr \in Header
  /\ requests \in [Index -> Entry] /\ responses \in [Index -> Entry]
  /\ req \in BOOLEAN /\ ack \in BOOLEAN /\ irq \in BOOLEAN
  /\ host \in {"resetting", "connecting", "up"}
  /\ owes \subseteq {"req", "ack"}
  /\ conn \in 1 .. MaxConn /\ epoch \in 0 .. MaxConn
  /\ posted \in 0 .. MaxPosted /\ read \in Nat
  /\ pc \in {"idle", "gmbx", "header", "check", "dismiss", "signal", "read",
             "send", "await", "clear", "pvid", "reread", "ack", "return"}
  /\ job \in {"request", "create", "pvid", "failing", "notify"}
  /\ dataEntries \in Data \cup {0, PvidData} /\ entriesSent \in Int
  /\ handled \in Nat /\ written \in Nat /\ tight \in BOOLEAN
  /\ notified \in 0 .. MaxNotify /\ failures \in 0 .. MaxFailures

(* The mailbox has been used before and the PEP came out of a reset: the   *)
(* switch manager has withdrawn its version, the host begins to connect.   *)
Init ==
  /\ pf = [version |-> "RESET", respHead |-> 1, reqTail |-> 1]
  /\ sm = [version |-> "RESET", respTail |-> 1, reqHead |-> 1]
  /\ requests = [i \in Index |-> NoEntry]
  /\ responses = [i \in Index |-> NoEntry]
  /\ req = FALSE /\ ack = FALSE /\ irq = FALSE
  /\ host = "resetting" /\ owes = {"req"}
  /\ conn = 1 /\ posted = 0 /\ read = 0
  /\ pc = "idle" /\ job = "request"
  /\ hdr = NoHeader /\ dataEntries = 0 /\ entriesSent = 0
  /\ epoch = 0 /\ handled = 0 /\ written = 0 /\ tight = FALSE
  /\ notified = 0 /\ failures = 0

-----------------------------------------------------------------------------
(* INCREMENT_QUEUE_INDEX, k times over, at most once around the ring.      *)
\* Mutant: off by one.
AheadOffByOne(i, k) == IF i + k > QueueSize THEN i + k - (QueueSize - 1) ELSE i + k
Ahead(i, k) == IF i + k >= QueueSize THEN i + k - (QueueSize - 1) ELSE i + k
NextIndex(i) == Ahead(i, 1)

(* CALCULATE_USED_QUEUE_ELEMENTS and CALCULATE_EMPTY_QUEUE_ELEMENTS.  A    *)
(* ring whose tail is at its head counts as empty.                         *)
\* Mutant: entry 0 is counted.
UsedWithIndexZero(head, tail) ==
  IF tail >= head THEN tail - head ELSE (QueueSize - head) + tail
Used(head, tail) == IF tail >= head THEN tail - head
                                    ELSE (QueueSize - head) + (tail - 1)
Empty(head, tail) == QueueSize - (Used(head, tail) + 1)

(* SignalRequestRead: clears the host's bit; the PFAck it sets is not read *)
(* here.                                                                   *)
SignalRequestRead == req' = FALSE /\ UNCHANGED <<ack, irq>>

(* A handler that is finished: the interrupt is no longer masked, and what *)
(* it worked on is gone.                                                   *)
Return ==
  /\ pc = "return"
  /\ pc' = "idle" /\ job' = "request" /\ hdr' = NoHeader
  /\ dataEntries' = 0 /\ entriesSent' = 0
  /\ UNCHANGED <<memory, bits, hosts, history>>

(* fm10000PCIeMailboxInterruptHandler: the interrupt is cleared, and       *)
(* masked until the handler is idle again, before PCIE_GMBX is read.       *)
Interrupt ==
  /\ pc = "idle" /\ irq
  /\ irq' = FALSE
  /\ pc' = "gmbx"
  /\ UNCHANGED <<memory, req, ack, hosts, job, hdr, message, history>>

ReadGmbx ==
  /\ pc = "gmbx"
  /\ \/ req /\ pc' = "header"
     \/ ~req /\ ack /\ pc' = "ack"
     \/ ~req /\ ~ack /\ pc' = "return"
  /\ UNCHANGED <<memory, bits, hosts, job, hdr, message, history>>

(* PCIeMailboxProcessGlobalAck.                                            *)
ProcessGlobalAck ==
  /\ pc = "ack"
  /\ ack' = FALSE
  /\ pc' = "return"
  /\ UNCHANGED <<memory, req, irq, hosts, job, hdr, message, history>>

(* fm10000ReadMailboxControlHdr.                                           *)
HeaderRead == [pfVersion |-> pf.version, smVersion |-> sm.version,
               respHead |-> pf.respHead, reqTail |-> pf.reqTail,
               respTail |-> sm.respTail, reqHead |-> sm.reqHead]

ReadHeader ==
  /\ pc = "header"
  /\ hdr' = HeaderRead
  /\ pc' = "check"
  /\ UNCHANGED <<memory, bits, hosts, job, message, history>>

(* CheckMailboxVersion: the host starts over, ...                          *)
\* Mutant: the host that starts over is not answered.
WithdrawIgnored ==
  /\ hdr.pfVersion = "RESET"
  /\ pc' = "dismiss"
  /\ UNCHANGED <<hdr, sm, history, job, message>>
Withdraw ==
  /\ hdr.pfVersion = "RESET"
  /\ hdr' = [hdr EXCEPT !.smVersion = "RESET"]
  /\ sm' = [sm EXCEPT !.version = "RESET"]
  /\ pc' = "dismiss"
  /\ UNCHANGED <<history, job, message>>

(* ... the two agree on a version and on empty rings, ...                  *)
\* Mutant: the indices are left from the connection before.
SynchronizeVersionOnly ==
  /\ hdr.pfVersion = "DEFAULT" /\ hdr.smVersion = "RESET"
  /\ hdr' = [hdr EXCEPT !.smVersion = hdr.pfVersion]
  /\ sm' = [sm EXCEPT !.version = hdr.pfVersion]
  /\ pc' = "dismiss"
  /\ epoch' = conn /\ handled' = 0 /\ written' = 0 /\ tight' = FALSE
  /\ UNCHANGED <<notified, failures, job, message>>
Synchronize ==
  /\ hdr.pfVersion = "DEFAULT" /\ hdr.smVersion = "RESET"
  /\ hdr' = [hdr EXCEPT !.smVersion = hdr.pfVersion, !.reqHead = 1,
                        !.respTail = 1]
  /\ sm' = [version |-> hdr.pfVersion, respTail |-> 1, reqHead |-> 1]
  /\ pc' = "dismiss"
  /\ epoch' = conn /\ handled' = 0 /\ written' = 0 /\ tight' = FALSE
  /\ UNCHANGED <<notified, failures, job, message>>

(* ... or they have agreed already.                                        *)
Accept ==
  /\ hdr.pfVersion = hdr.smVersion /\ hdr.pfVersion = "DEFAULT"
  /\ sm' = [sm EXCEPT !.reqHead = hdr.reqHead]
  /\ pc' = "signal"
  /\ UNCHANGED <<hdr, history, job, message>>

Check ==
  /\ pc = "check"
  /\ Withdraw \/ Synchronize \/ Accept
  /\ UNCHANGED <<pf, requests, responses, bits, hosts>>

Dismiss ==
  /\ pc = "dismiss"
  /\ SignalRequestRead
  /\ pc' = "return"
  /\ UNCHANGED <<memory, hosts, job, hdr, message, history>>

(* What a handler goes on with when the message of a job has been sent or  *)
(* given up.                                                               *)
After(j) == [request |-> "read", create |-> "pvid", pvid |-> "reread",
             failing |-> "return", notify |-> "return"][j]

(* fm10000WriteResponseMessage: the data of a message, for which there may *)
(* be no memory.  A request then goes unanswered; instead of another       *)
(* message an error may be sent, and a loop that it was sent from ends.    *)
Build(j, data) ==
  /\ entriesSent' = 0
  /\ \/ /\ pc' = "send" /\ job' = j /\ dataEntries' \in data
        /\ UNCHANGED failures
     \/ /\ failures < MaxFailures /\ failures' = failures + 1
        /\ \/ /\ pc' = IF j = "pvid" THEN "return" ELSE After(j)
              /\ job' = j /\ dataEntries' = 0
           \/ /\ j \in {"pvid", "notify"}
              /\ pc' = "send" /\ job' = "failing" /\ dataEntries' \in Data

(* PCIeMailboxProcessRequest: the bit is cleared, and requests are taken   *)
(* up to the tail the handler has a copy of.  A request that fails is      *)
(* answered like another and ends the loop; one may create ports.          *)
Signal ==
  /\ pc = "signal"
  /\ SignalRequestRead
  /\ pc' = "read"
  /\ UNCHANGED <<memory, hosts, job, hdr, message, history>>

Take == /\ pc = "read" /\ hdr.reqHead # hdr.reqTail
        /\ hdr' = [hdr EXCEPT !.reqHead = NextIndex(hdr.reqHead)]
        /\ UNCHANGED <<memory, bits, hosts, epoch, handled, written, tight, notified>>

ReadRequest ==
  /\ requests[hdr.reqHead] # NoEntry
  /\ Take
  /\ \E j \in {"request", "create", "failing"} : Build(j, Data)

(* An entry never written has no transaction flag.                         *)
SkipEntry ==
  /\ requests[hdr.reqHead] = NoEntry
  /\ Take
  /\ UNCHANGED <<pc, job, message, failures>>

NoMoreRequests ==
  /\ pc = "read" /\ hdr.reqHead = hdr.reqTail
  /\ pc' = "return"
  /\ UNCHANGED <<memory, bits, hosts, job, hdr, message, history>>

(* WriteResponseData: how many data entries go into the next part of the   *)
(* message; two headers come before them.                                  *)
Room == Empty(hdr.respHead, hdr.respTail)
EntriesToSend ==
  IF dataEntries > 0 /\ dataEntries - entriesSent + 2 > Room
  THEN Room - 2 ELSE dataEntries - entriesSent

(* WriteDataToQueue writes the headers whatever the room, and no data when *)
(* there are to be fewer than none; fm10000UpdateSmHeader then saves the   *)
(* tail of the responses and the head of the requests.                     *)
Writes == IF EntriesToSend > 0 THEN EntriesToSend + 2 ELSE 2

Fill(n) == [i \in Index |->
  IF \E k \in 1 .. n : i = Ahead(hdr.respTail, k - 1)
  THEN <<epoch, written + (CHOOSE k \in 1 .. n : i = Ahead(hdr.respTail, k - 1))>>
  ELSE responses[i]]

\* Mutant: the head of the requests is not saved.
SaveTailOnly(tail) == [sm EXCEPT !.respTail = tail]
SaveIndices(tail) == [sm EXCEPT !.respTail = tail, !.reqHead = hdr.reqHead]

Send ==
  /\ pc = "send"
  /\ responses' = Fill(Writes)
  /\ written' = written + Writes
  /\ handled' = handled + Used(sm.reqHead, hdr.reqHead)
  /\ tight' = (tight \/ Writes >= Room)
  /\ LET tail == Ahead(hdr.respTail, Writes)
     IN  hdr' = [hdr EXCEPT !.respTail = tail] /\ sm' = SaveIndices(tail)
  /\ entriesSent' = entriesSent + EntriesToSend
  /\ pc' = IF entriesSent' < dataEntries THEN "await" ELSE After(job)
  /\ UNCHANGED <<pf, requests, bits, hosts, job, dataEntries, epoch, notified,
                 failures>>

(* The wait for the host to have read a part: its bit, or a timeout.  The  *)
(* head of the responses is not read again.                                *)
PartRead ==
  /\ pc = "await" /\ ack
  /\ pc' = "clear"
  /\ UNCHANGED <<memory, bits, hosts, job, hdr, message, history>>

ClearAck ==
  /\ pc = "clear"
  /\ ack' = FALSE
  /\ pc' = "send"
  /\ UNCHANGED <<memory, req, irq, hosts, job, hdr, message, history>>

\* Mutant: without a limit to the retries.
GiveUpNever == pc = "await" /\ ~ack /\ UNCHANGED vars
GiveUp ==
  /\ pc = "await" /\ ~ack
  /\ pc' = After(job)
  /\ UNCHANGED <<memory, bits, hosts, job, hdr, message, history>>

(* fmNotifyPvidUpdate: a message no request asked for, from a copy of the  *)
(* header of its own.  It is sent for a port whose default VLAN changes,   *)
(* ...                                                                     *)
Notify ==
  /\ pc = "idle" /\ notified < MaxNotify
  /\ pc' = "pvid" /\ job' = "notify"
  /\ notified' = notified + 1
  /\ UNCHANGED <<memory, bits, hosts, hdr, message, epoch, handled, written, tight,
                 failures>>

NotifyPvid ==
  /\ pc = "pvid"
  /\ hdr' = HeaderRead
  /\ \/ job = "notify" /\ Build("notify", {PvidData})
     \/ job = "create" /\ Build("pvid", {PvidData})
  /\ UNCHANGED <<memory, bits, hosts, epoch, handled, written, tight, notified>>

(* ... and by fmCreateLportProcess for new ports, in the loop of the       *)
(* requests: this goes on with the header as it is then, whatever the      *)
(* version in it; the copy it had is not used before.                      *)
ReadAgain ==
  /\ pc = "reread"
  /\ hdr' = HeaderRead
  /\ pc' = "read"
  /\ UNCHANGED <<memory, bits, hosts, job, message, history>>

-----------------------------------------------------------------------------
(* External: the host.  It starts over, offers a version when the switch   *)
(* manager has withdrawn its own, and is up when that is answered.         *)
HostReset ==
  /\ conn < MaxConn
  /\ pf' = [version |-> "RESET", respHead |-> 1, reqTail |-> 1]
  /\ host' = "resetting" /\ owes' = {"req"}
  /\ conn' = conn + 1 /\ posted' = 0 /\ read' = 0
  /\ UNCHANGED <<sm, requests, responses, bits, handler, history>>

HostConnect ==
  /\ host = "resetting" /\ sm.version = "RESET"
  /\ pf' = [pf EXCEPT !.version = "DEFAULT"]
  /\ host' = "connecting" /\ owes' = owes \cup {"req"}
  /\ UNCHANGED <<sm, requests, responses, bits, conn, posted, read, handler,
                 history>>

HostConnected ==
  /\ host = "connecting" /\ sm.version = "DEFAULT"
  /\ host' = "up"
  /\ UNCHANGED <<memory, bits, owes, conn, posted, read, handler, history>>

HostPost ==
  /\ host = "up" /\ posted < MaxPosted
  /\ NextIndex(pf.reqTail) # sm.reqHead
  /\ requests' = [requests EXCEPT ![pf.reqTail] = <<conn, posted + 1>>]
  /\ pf' = [pf EXCEPT !.reqTail = NextIndex(pf.reqTail)]
  /\ posted' = posted + 1 /\ owes' = owes \cup {"req"}
  /\ UNCHANGED <<sm, responses, bits, host, conn, read, handler, history>>

(* The host takes all the responses there are, then says so.               *)
HostRead ==
  /\ host = "up" /\ pf.respHead # sm.respTail
  /\ read' = read + Used(pf.respHead, sm.respTail)
  /\ pf' = [pf EXCEPT !.respHead = sm.respTail]
  /\ owes' = owes \cup {"ack"}
  /\ UNCHANGED <<sm, requests, responses, bits, host, conn, posted, handler,
                 history>>

HostAck ==
  /\ "ack" \in owes
  /\ ack' = TRUE /\ irq' = TRUE
  /\ owes' = owes \ {"ack"}
  /\ UNCHANGED <<memory, req, host, conn, posted, read, handler, history>>

HostRing ==
  /\ \/ "req" \in owes
     \/ RingsAgain /\ ~req /\ (host # "up" \/ sm.reqHead # pf.reqTail)
  /\ req' = TRUE /\ irq' = TRUE
  /\ owes' = owes \ {"req"}
  /\ UNCHANGED <<memory, ack, host, conn, posted, read, handler, history>>

-----------------------------------------------------------------------------
Handler == \/ Interrupt \/ Return \/ ReadGmbx \/ ProcessGlobalAck \/ ReadHeader
           \/ Check \/ Dismiss \/ Signal \/ ReadRequest \/ SkipEntry
           \/ NoMoreRequests \/ Send \/ PartRead \/ ClearAck \/ GiveUp
           \/ NotifyPvid \/ ReadAgain
Connects == HostConnect \/ HostConnected
Next == \/ Handler \/ Notify \/ Connects \/ HostRing
        \/ HostReset \/ HostPost \/ HostRead \/ HostAck

(* The handler runs to its end, and its wait ends; the host pursues its    *)
(* connection and sets the bit it owes.  It need not read or post.         *)
Spec == /\ Init /\ [][Next]_vars
        /\ WF_vars(Handler) /\ WF_vars(Connects) /\ WF_vars(HostRing)

-----------------------------------------------------------------------------
(* Requests are taken in the order posted, the first of them the first for *)
(* which no answer has been written, as the head in memory says: one is    *)
(* taken again only when there was no memory for its answer.  This is so   *)
(* even when the host has started over since, unless the handler has read  *)
(* the header again and found no version in it: it does not look, and      *)
(* takes what the ring still holds up to the new tail.                     *)
RequestsInOrder ==
  pc = "read" /\ hdr.reqHead # hdr.reqTail /\ hdr.pfVersion = "DEFAULT" =>
    requests[hdr.reqHead] = <<epoch, handled + 1 + Used(sm.reqHead, hdr.reqHead)>>

(* A host that is connected finds no response to its predecessor.          *)
NothingStale ==
  host = "up" =>
    \A k \in 1 .. Used(pf.respHead, sm.respTail) :
      responses[Ahead(pf.respHead, k - 1)][1] = conn

(* As long as every message left a slot free, what the host has still to   *)
(* read is what it was sent, in order and with nothing missing.            *)
IntactWhileRoom ==
  host = "up" /\ ~tight =>
    LET unread == Used(pf.respHead, sm.respTail)
    IN  /\ written = read + unread
        /\ \A k \in 1 .. unread :
             responses[Ahead(pf.respHead, k - 1)] = <<conn, read + k>>

(* Whenever it starts over, and whatever was in progress, a host that      *)
(* repeats its ring gets connected.                                        *)
Reconnects == (host # "up") ~> (host = "up")

(* And what it posts is answered, unless it starts over first.             *)
RequestsServed ==
  \A n \in 1 .. MaxPosted :
    (host = "up" /\ posted = n) ~> (host # "up" \/ handled >= n)

=============================================================================
