------------------------------ MODULE MacPurge ------------------------------
(***************************************************************************)
(* The flushing of the MAC address table on the FM10000.  Callers of       *)
(* fmFlushAddresses, the deletion of a LAG and the sweeper that ages       *)
(* addresses enter requests in a list that has an entry for the whole      *)
(* switch and one for a port, which merges what it can                     *)
(* (fm_api_event_mac_purge_table.c).  The maintenance thread               *)
(* (fm_api_event_mac_maint.c) takes one purge at a time from the list and  *)
(* visits every cell of the table (fm10000_api_mac_purge_table.c); the     *)
(* logical port of a deleted LAG is freed by a callback when its addresses *)
(* are gone.                                                               *)
(*                                                                         *)
(* A request is a record [port, vid1, statics], -1 for every port or VLAN: *)
(* fmCommonCheckFlushRequest lets no other mode through on this chip.  An  *)
(* address is the cell it is stored in, of a fixed port and VLAN; OLD is   *)
(* not told from YOUNG, and no cell holds an entry of a tunnel, which a    *)
(* purge of one port passes by.                                            *)
(*                                                                         *)
(* fmEnqueueMAPurge may run out of memory.  Where it has no entry yet it   *)
(* changes nothing; later it leaves the purge marked as pending and does   *)
(* not wake the thread.                                                    *)
(***************************************************************************)
EXTENDS Integers, Sequences, Sublists

CONSTANTS
  Lags,        \* logical ports of LAGs; port 0 is the CPU's
  Vlans,
  Home,        \* the port and VLAN of the address in each cell
  Targets,     \* the ports, or All, that callers flush
  Statics,     \* the values callers give to fm_flushParams.statics
  MaxRequests  \* bound: requests that callers enter

ASSUME LagsAssumption == Lags \subseteq Nat \ {0}
ASSUME VlansAssumption == Vlans \subseteq Nat
ASSUME HomeAssumption == Home \in Seq([port : Lags \cup {0}, vlan : Vlans])
ASSUME StaticsAssumption == Statics \subseteq BOOLEAN
ASSUME TargetsAssumption == Targets \subseteq Lags \cup {0, -1}
ASSUME MaxRequestsAssumption == MaxRequests \in Nat

Ports == Lags \cup {0}
Cells == DOMAIN Home

VARIABLES
  table,         \* maTable: the state of each cell
  port,          \* of each LAG: "alive", "deleting" or "freed"
  list,          \* the fm_maPurgeListEntry's; the first is the global one
  scan,          \* scanEntry, as an index of list
  flushExpired,
  callbacks,     \* callbackList
  nextSeq,
  request,       \* the purge taken last
  active,        \* is purgeState FM_PURGE_STATE_ACTIVE?
  index,         \* entryIndex of PerformPurge
  flag,          \* is FM_MAC_MAINT_HANDLE_PURGE in pPendingWorkList?
  work,          \* and in the list the thread has taken?
  semaphore,     \* macTableMaintSemaphore, binary
  pc,            \* of the maintenance thread
  numExpired,    \* is usedTableNumExpired above zero?
  requests,      \* how many requests were entered
  owed           \* the addresses some request is still to remove

\* What became of requests, which no action reads.
VARIABLES
  unannounced,   \* a purge was marked as pending and the thread not called
  forsaken,      \* LAGs whose deletion was accepted without its callback
  excused        \* addresses that the end of a deletion need not wait for

purgeVars == <<list, scan, flushExpired, nextSeq>>
threadVars == <<request, active, index, work, pc>>
wakeVars == <<flag, semaphore, unannounced>>
lagVars == <<port, callbacks, forsaken>>
cellVars == <<table, owed, excused>>
vars == <<cellVars, lagVars, purgeVars, threadVars, wakeVars, numExpired,
          requests>>

All == -1
Entry(p) == [port |-> p, exists |-> TRUE, all |-> FALSE, vlans |-> {},
             statics |-> FALSE]
NoRequest == [port |-> 0, vid1 |-> 0, statics |-> FALSE, expired |-> FALSE,
              seq |-> 0]

Init ==
  /\ table = [c \in Cells |-> "invalid"]
  /\ port = [l \in Lags |-> "alive"]
  /\ list = <<Entry(All)>> /\ scan = 1
  /\ flushExpired = FALSE
  /\ callbacks = <<>> /\ nextSeq = 1
  /\ request = NoRequest /\ active = FALSE /\ index = 1
  /\ flag = FALSE /\ work = FALSE /\ semaphore = FALSE
  /\ pc = "wait"
  /\ numExpired = FALSE
  /\ requests = 0
  /\ owed = {}
  /\ unannounced = FALSE /\ forsaken = {} /\ excused = {}

Exists(p) == p # 0 => port[p] # "freed"
-----------------------------------------------------------------------------
(* The list of pending purges *)

Pending(e) == e.all \/ e.vlans # {}
Orphan(e) == e.port # All /\ ~e.exists

IsAnotherPurgePendingHead(l) == Pending(l[1]) \* mutant: the global entry only
\* fmIsAnotherPurgePending
IsAnotherPurgePending(l) == \E i \in DOMAIN l : Pending(l[i])

MaybeDestroyNot(l, visited) == l \* mutant: no entry is destroyed
\* fmMaybeDestroyMAPurgeListEntry, of the entries in visited
MaybeDestroy(l, visited) ==
  Sublist(l, {i \in DOMAIN l : i \in visited /\ Orphan(l[i]) => Pending(l[i])})
RescanKept(before, after) == scan \* mutant: scanEntry is not reset
Rescan(before, after) == IF Len(after) < Len(before) THEN 1 ELSE scan

At(l, p) == CHOOSE i \in DOMAIN l : l[i].port = p /\ l[i].exists
GetPurgeEntry(p) ==
  IF \E i \in DOMAIN list : list[i].port = p /\ list[i].exists
    THEN list ELSE Append(list, Entry(p))

\* mutant: any VLAN pending on the switch suppresses the request
IsMergedByAny(l, p, v) == LET e == l[At(l, p)] IN
  \/ e.all \/ v \in e.vlans
  \/ p # All /\ Pending(l[1])
\* Is the request a duplicate, or suppressed by a wider one?
IsMerged(l, p, v) == LET e == l[At(l, p)] IN
  \/ e.all \/ v \in e.vlans
  \/ p # All /\ (l[1].all \/ v \in l[1].vlans)

CancelAllPurgeEntries(l) ==
  MaybeDestroy([i \in DOMAIN l |->
    IF l[i].port # All /\ l[i].all THEN [l[i] EXCEPT !.all = FALSE]
                                   ELSE [l[i] EXCEPT !.vlans = {}]], DOMAIN l)

CancelVlan(l, v) ==
  MaybeDestroy([i \in DOMAIN l |->
    IF l[i].port = All THEN l[i] ELSE [l[i] EXCEPT !.vlans = @ \ {v}]],
    DOMAIN l)

Merge(l, p, v) == LET i == At(l, p) IN
  IF IsMerged(l, p, v) THEN l ELSE
  CASE v = All /\ p = All -> CancelAllPurgeEntries([l EXCEPT ![i].all = TRUE])
    [] v = All /\ p # All -> [l EXCEPT ![i].all = TRUE, ![i].vlans = {}]
    [] v # All /\ p = All -> CancelVlan([l EXCEPT ![i].vlans = @ \cup {v}], v)
    [] OTHER              -> [l EXCEPT ![i].vlans = @ \cup {v}]

\* fmTriggerMAPurge
Trigger == flag' = TRUE /\ semaphore' = TRUE /\ unannounced' = FALSE
\* fmEnqueueMAPurge goes to ABORT before it.
NoTrigger == unannounced' = TRUE /\ UNCHANGED <<flag, semaphore>>

Marked(p, statics) ==
  LET found == GetPurgeEntry(p) IN [found EXCEPT ![At(found, p)].statics = statics]

Enter(p, v, statics) ==
  LET marked == Marked(p, statics)
  IN  /\ list' = Merge(marked, p, v)
      /\ scan' = Rescan(marked, list')
      /\ UNCHANGED <<flushExpired, nextSeq>>

\* No memory for the bits of the VLANs whose purges are to be cancelled.
EnterAborts(p, statics) ==
  LET marked == Marked(p, statics)
  IN  /\ ~IsMerged(marked, p, All)
      /\ list' = [marked EXCEPT ![At(marked, p)].all = TRUE]
      /\ UNCHANGED <<scan, flushExpired, nextSeq>>
      /\ NoTrigger

EnqueueFlush(p, v, statics) == Enter(p, v, statics) /\ Trigger

\* A flush of expired addresses passes zeroed data, hence port 0.
EnqueueExpired ==
  /\ list' = Marked(0, FALSE)
  /\ flushExpired' = TRUE
  /\ UNCHANGED <<scan, nextSeq>>
  /\ Trigger
-----------------------------------------------------------------------------
(* What a purge removes *)

MeetsPurgeCriteria(r, c) ==
  /\ table[c] # "invalid"
  /\ table[c] = "locked" => r.statics
  /\ \/ table[c] = "expired"
     \/ /\ ~r.expired
        /\ r.port \in {All, Home[c].port}
        /\ r.vid1 \in {All, Home[c].vlan}

Asked(p, v, statics) ==
  {c \in Cells : MeetsPurgeCriteria([port |-> p, vid1 |-> v,
                     statics |-> statics, expired |-> FALSE], c)}
-----------------------------------------------------------------------------
(* The callers *)

Flush(p, v, statics) ==
  /\ requests < MaxRequests
  /\ p # All => Exists(p)
  /\ requests' = requests + 1
  /\ EnqueueFlush(p, v, statics)
  /\ owed' = owed \cup Asked(p, v, statics)
  /\ UNCHANGED <<table, excused, lagVars, threadVars, numExpired>>

\* The status is FM_ERR_NO_MEM for the whole switch, but FM_OK for a port.
FlushAborts(p, statics) ==
  /\ requests < MaxRequests
  /\ p # All => Exists(p)
  /\ requests' = requests + 1
  /\ EnterAborts(p, statics)
  /\ owed' = IF p = All THEN owed ELSE owed \cup Asked(p, All, statics)
  /\ UNCHANGED <<table, excused, lagVars, threadVars, numExpired>>

\* The callback of a LAG whose deletion is under way is found again.
HasCallback(p) == \E i \in DOMAIN callbacks : callbacks[i].port = p
Register(p) == LET cb == [port |-> p, vlan |-> 0, seq |-> nextSeq] IN
  IF HasCallback(p)
    THEN [i \in DOMAIN callbacks |->
            IF callbacks[i].port = p THEN cb ELSE callbacks[i]]
    ELSE Append(callbacks, cb)

DeleteLag(p) ==
  /\ requests < MaxRequests
  /\ Exists(p)
  /\ port' = [port EXCEPT ![p] = "deleting"]
  /\ requests' = requests + 1
  /\ EnqueueFlush(p, All, FALSE)
  /\ callbacks' = Register(p)
  /\ forsaken' = forsaken \ {p}
  /\ owed' = owed \cup Asked(p, All, FALSE)
  /\ UNCHANGED <<table, excused, threadVars, numExpired>>

\* No memory for the bits: the deletion is accepted all the same.
DeleteLagAborts(p) ==
  /\ requests < MaxRequests
  /\ Exists(p)
  /\ port' = [port EXCEPT ![p] = "deleting"]
  /\ requests' = requests + 1
  /\ EnterAborts(p, FALSE)
  /\ forsaken' = IF HasCallback(p) THEN forsaken ELSE forsaken \cup {p}
  /\ owed' = owed \cup Asked(p, All, FALSE)
  /\ UNCHANGED <<table, excused, callbacks, threadVars, numExpired>>

\* No memory for the callback: the deletion is refused, its purge stays.
DeleteLagRefused(p) ==
  /\ requests < MaxRequests
  /\ Exists(p) /\ ~HasCallback(p)
  /\ requests' = requests + 1
  /\ Enter(p, All, FALSE)
  /\ NoTrigger
  /\ UNCHANGED <<cellVars, lagVars, threadVars, numExpired>>

CreateLag(p) ==
  /\ port[p] = "freed"
  /\ port' = [port EXCEPT ![p] = "alive"]
  /\ excused' = {c \in excused : Home[c].port # p}
  /\ UNCHANGED <<table, owed, callbacks, forsaken, purgeVars, threadVars,
                 wakeVars, numExpired, requests>>

Store(c, state) ==
  /\ table[c] = "invalid" /\ Exists(Home[c].port)
  /\ table' = [table EXCEPT ![c] = state]
  /\ UNCHANGED <<owed, lagVars, purgeVars, threadVars, wakeVars, numExpired,
                 requests>>

\* A caller may add an address to a LAG that is being deleted.
AddAddress(c) ==
  /\ \E state \in {"young", "locked"} : Store(c, state)
  /\ excused' = IF Home[c].port # 0 /\ port[Home[c].port] = "deleting"
                  THEN excused \cup {c} ELSE excused

Remove(c) ==
  /\ table' = [table EXCEPT ![c] = "invalid"]
  /\ owed' = owed \ {c} /\ excused' = excused \ {c}

DeleteAddress(c) ==
  /\ table[c] # "invalid"
  /\ Remove(c)
  /\ UNCHANGED <<lagVars, purgeVars, threadVars, wakeVars, numExpired, requests>>
-----------------------------------------------------------------------------
(* The sweeper, in the fast maintenance thread *)

\* How long ago an address was used, and in which order the sweep comes to the
\* cells, is not in the model.
SweepCell(c) ==
  /\ table[c] = "young"
  /\ table' = [table EXCEPT ![c] = "expired"]
  /\ numExpired' = TRUE
  /\ UNCHANGED <<owed, excused, lagVars, purgeVars, threadVars, wakeVars, requests>>

\* The end of a sweep that has found something; the next one counts from zero.
SweepEnd ==
  /\ numExpired
  /\ numExpired' = FALSE
  /\ EnqueueExpired
  /\ owed' = owed \cup {c \in Cells : table[c] = "expired"}
  /\ UNCHANGED <<table, excused, lagVars, threadVars, requests>>

\* No memory for an entry of port 0: what expired is not counted again.
SweepEndFails ==
  /\ numExpired /\ \A i \in DOMAIN list : list[i].port = 0 => ~list[i].exists
  /\ numExpired' = FALSE
  /\ UNCHANGED <<cellVars, lagVars, purgeVars, threadVars, wakeVars, requests>>
-----------------------------------------------------------------------------
(* fmTableMaintenanceHandler *)

Wait ==
  /\ pc = "wait" /\ semaphore
  /\ semaphore' = FALSE
  /\ pc' = "take"
  /\ UNCHANGED <<cellVars, lagVars, purgeVars, request, active, index, work,
                 flag, unannounced, numExpired, requests>>

\* The wait times out: the thread polls its work.
WaitTimeout ==
  /\ pc = "wait" /\ ~semaphore
  /\ pc' = "take"
  /\ UNCHANGED <<cellVars, lagVars, purgeVars, request, active, index, work,
                 wakeVars, numExpired, requests>>

TakeWork ==
  /\ pc = "take"
  /\ work' = flag /\ flag' = FALSE
  /\ pc' = "fifo"
  /\ UNCHANGED <<cellVars, lagVars, purgeVars, request, active, index,
                 semaphore, unannounced, numExpired, requests>>

\* HandleMACTableEvents: the addresses that the chip has learned.
Learn(c) == pc = "fifo" /\ Store(c, "young") /\ UNCHANGED excused

FifoDone ==
  /\ pc = "fifo"
  /\ pc' = IF work THEN "next" ELSE "wait"
  /\ work' = FALSE
  /\ UNCHANGED <<cellVars, lagVars, purgeVars, request, active, index,
                 wakeVars, numExpired, requests>>

\* fmGetNextPurgeRequest: the first entry with a purge, scanned from scanEntry
\* round the list, and its purge of everything or of the lowest VLAN.
ScanDistance(i) == (i - scan) % Len(list)
NextEntry == CHOOSE i \in DOMAIN list :
               /\ Pending(list[i])
               /\ \A j \in DOMAIN list :
                    Pending(list[j]) => ScanDistance(i) <= ScanDistance(j)

\* RemovePendingPurgeEntryData: an entry may keep VLANs of its own.
RemovePending(e, v) == IF v = All THEN [e EXCEPT !.all = FALSE]
                           ELSE [e EXCEPT !.vlans = @ \ {v}]

GetNextPurgeRequest ==
  LET i == NextEntry
      e == list[i]
      v == IF e.all THEN All ELSE CHOOSE w \in e.vlans : \A x \in e.vlans : w <= x
      left == [list EXCEPT ![i] = RemovePending(e, v)]
  IN  IF IsAnotherPurgePending(list)
        THEN /\ request' = [port |-> e.port, vid1 |-> v, statics |-> e.statics,
                            expired |-> FALSE, seq |-> nextSeq]
             /\ nextSeq' = nextSeq + 1
             /\ list' = MaybeDestroy(left, {i})
             /\ scan' = IF Len(list') < Len(left) THEN 1 ELSE i
        ELSE /\ request' = IF flushExpired THEN [NoRequest EXCEPT !.expired = TRUE]
                                           ELSE request
             /\ UNCHANGED <<list, scan, nextSeq>>

HandlePurgeRequest ==
  /\ pc = "next"
  /\ IF active
       THEN pc' = "wait" /\ UNCHANGED <<purgeVars, request, active, index>>
       ELSE /\ GetNextPurgeRequest
            /\ flushExpired' = FALSE
            /\ index' = 1
            /\ active' = (IsAnotherPurgePending(list) \/ flushExpired)
            /\ pc' = IF active' THEN "purge" ELSE "wait"
  /\ unannounced' = (unannounced /\ ~active')
  /\ UNCHANGED <<cellVars, lagVars, work, flag, semaphore, numExpired, requests>>

PurgeCell ==
  /\ pc = "purge" /\ index \in Cells
  /\ IF MeetsPurgeCriteria(request, index)
       THEN Remove(index)
       ELSE UNCHANGED cellVars
  /\ index' = index + 1
  /\ UNCHANGED <<lagVars, purgeVars, request, active, work, pc, wakeVars,
                 numExpired, requests>>

\* mutants: any purge answers; the purge that was asked for does not
AnswersAnySeq(cb) ==
  /\ request.vid1 \in {All, cb.vlan}
  /\ request.port \in {All, cb.port}
AnswersLater(cb) == request.seq > cb.seq /\ AnswersAnySeq(cb)
\* fmProcessPurgeCallbacks: which callbacks the purge answers, one of VLAN 0 those
\* of deletions.
Answers(cb) ==
  /\ request.seq >= cb.seq
  /\ request.vid1 \in {All, cb.vlan}
  /\ request.port \in {All, cb.port}

\* fm10000DeleteLagCallback, and what fmCommonFreeLogicalPort does with the
\* entry of each port it frees.
Disown(l, freed) ==
  LET disowned == {i \in DOMAIN l : l[i].port \in freed /\ l[i].exists}
  IN  MaybeDestroy([i \in DOMAIN l |->
        IF i \in disowned THEN [l[i] EXCEPT !.exists = FALSE] ELSE l[i]], disowned)

FinishPurge ==
  LET freed == {callbacks[i].port : i \in {j \in DOMAIN callbacks :
                                           Answers(callbacks[j])}}
  IN  /\ pc = "purge" /\ index = Len(Home) + 1
      /\ port' = [l \in Lags |-> IF l \in freed THEN "freed" ELSE port[l]]
      /\ callbacks' = Sublist(callbacks, {i \in DOMAIN callbacks : ~Answers(callbacks[i])})
      /\ nextSeq' = IF callbacks' = <<>> THEN 1 ELSE nextSeq
      /\ list' = Disown(list, freed)
      /\ scan' = Rescan(list, list')
      /\ active' = FALSE
      /\ request' = NoRequest /\ index' = 1   \* not read any more
      /\ IF IsAnotherPurgePending(list') THEN Trigger ELSE UNCHANGED wakeVars
      /\ pc' = "wait"
      /\ excused' = IF request.vid1 = All THEN excused
                     ELSE excused \cup {c \in Cells : Home[c].port \in freed}
      /\ UNCHANGED <<table, flushExpired, forsaken, work, numExpired, requests, owed>>
-----------------------------------------------------------------------------

Requests ==
  \/ \E p \in Targets, statics \in Statics :
       FlushAborts(p, statics) \/ \E v \in Vlans \cup {All} : Flush(p, v, statics)
  \/ \E p \in Lags :
       DeleteLag(p) \/ DeleteLagAborts(p) \/ DeleteLagRefused(p) \/ CreateLag(p)
  \/ \E c \in Cells : AddAddress(c) \/ DeleteAddress(c)

Sweeper == SweepEnd \/ SweepEndFails \/ \E c \in Cells : SweepCell(c)

Maintenance ==
  Wait \/ TakeWork \/ FifoDone \/ HandlePurgeRequest \/ PurgeCell \/ FinishPurge

Next == \/ Requests \/ Sweeper \/ Maintenance \/ WaitTimeout
        \/ \E c \in Cells : Learn(c)

Spec == Init /\ [][Next]_vars

\* The maintenance thread runs: the wait may but need not time out.
LiveSpec == Spec /\ WF_vars(Maintenance)
-----------------------------------------------------------------------------
\* The list has the global entry first, one live entry at most for a port, and
\* scanEntry points into it.
TypeOK ==
  /\ table \in [Cells -> {"invalid", "young", "expired", "locked"}]
  /\ port \in [Lags -> {"alive", "deleting", "freed"}]
  /\ list # <<>> /\ list[1].port = All
  /\ \A i \in DOMAIN list :
       /\ list[i].vlans \subseteq Vlans
       /\ list[i].exists => \A j \in DOMAIN list :
            list[j].exists /\ list[i].port = list[j].port => i = j
  /\ scan \in DOMAIN list
  /\ \A i \in DOMAIN callbacks : callbacks[i].port \in Lags
  /\ request.port \in Ports \cup {All}
  /\ pc \in {"wait", "take", "fifo", "next", "purge"}
  /\ active <=> pc = "purge"
  /\ index \in 1..Len(Home) + 1

\* Would a purge that is pending or in progress still remove the address?
Covered(c) ==
  \/ \E i \in DOMAIN list : \E v \in list[i].vlans \cup {All} :
       /\ v = All => list[i].all
       /\ MeetsPurgeCriteria([port |-> list[i].port, vid1 |-> v,
                             statics |-> list[i].statics, expired |-> FALSE], c)
  \/ flushExpired /\ table[c] = "expired"
  \/ active /\ index <= c /\ MeetsPurgeCriteria(request, c)

\* However the requests are merged, suppressed and cancelled by one another, an
\* address that one of them is to remove stays in the scope of a purge that
\* will reach its cell.
OwedIsCovered == \A c \in owed : table[c] # "locked" => Covered(c)

\* A purge that is pending is not forgotten: the thread is in a purge, after which
\* it looks again, or has the work, or finds it when it next takes its work, and it
\* does not wait on the semaphore with work to do.  Only a request that ran out of
\* memory after it was marked leaves a purge that the thread is not called for, until
\* any other request or purge.
PurgeIsTriggered ==
  LET coming == flag \/ work \/ pc = "next"
  IN  /\ (\E i \in DOMAIN list : Pending(list[i])) => coming \/ active \/ unannounced
      /\ flushExpired => coming
      /\ flag /\ pc = "wait" => semaphore

\* The entry of a logical port that is no more is kept for its purges only.
NoOrphans == \A i \in DOMAIN list : Orphan(list[i]) => Pending(list[i])

\* The callback that frees a deleted LAG's port comes after the purge that it
\* was registered for: no dynamic address is left on a port that is freed, unless a
\* purge of VLAN 0 answered the callback or a caller added the address while the LAG
\* was being deleted.
NoStaleAddress ==
  \A c \in Cells : table[c] \in {"young", "expired"} =>
    Exists(Home[c].port) \/ c \in excused

\* Does the list ask for every address of the port?
AsksWhole(l, p) == \E i \in DOMAIN l : l[i].all /\ l[i].port \in {All, p}

\* A purge that will answer the callback is pending or in progress.
Awaited(cb) == AsksWhole(list, cb.port) \/ (active /\ Answers(cb))

\* While a LAG is being deleted its callback is kept, and with it a purge that will
\* answer it: no merge, suppression or cancellation, and no end of another purge,
\* leaves the LAG's port without the one or the other.  The callback is missing only
\* where it was never made, for want of memory.
DeletionAwaited ==
  \A l \in Lags : port[l] = "deleting" /\ l \notin forsaken =>
    \E i \in DOMAIN callbacks : callbacks[i].port = l /\ Awaited(callbacks[i])

\* The flush that the deletion of a LAG asks for comes to its end, whatever other
\* requests it is merged with, and the callback, if it was made, frees the LAG's port.
LagFreed ==
  \A l \in Lags : port[l] = "deleting" /\ l \notin forsaken ~> port[l] = "freed"
=============================================================================
