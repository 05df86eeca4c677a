# A verification of the concurrent core of IES

IES is the switch API of the FM10000 family: a C library that runs several
threads in one process, talks to switch hardware, and reports to its
application through events. This directory holds TLA+ models of the parts in
which those threads meet, the TLC configurations that check them on small
instances, and theorems about them that TLAPS proves for every size.

Paths below are those of the repository; its top level has a directory `src`,
so the files of the library are under `src/src` and `src/include`.

## The system

| Component | State | Operations | What is hard |
|---|---|---|---|
| Event queue, `alos/linux/fm_alos_event_queue.c` | list, counter, back pointer of each event | initialize, add, get, peek, remove, count | the counter is read without the lock |
| Thread events, `alos/linux/fm_alos_threads.c` | a queue, a mutex and a condition per thread | send, get with a timeout, signal | lost and spurious wakeups, withdrawal |
| Event pool, `api/fm_api_event_mgmt.c` | free queue of `FM_MAX_EVENTS`, semaphore, two thresholds | allocate at two priorities, release, ask to be told of a free event | counts that are stale when used, a gate that must reopen |
| Link change events, `api/fm10000/fm10000_api_event_port.c` | what was last reported of each port, ports waiting for an event | report a change, retry | two threads and an unlocked word, retries owed |
| Timer tasks, `alos/linux/fm_alos_time.c` | timers, list of active timers, a thread per task | create, start, stop, delete; two loops | the lock is dropped for each callback, pointers kept across a sleep |
| Semaphores, `alos/linux/fm_alos_sem.c` | a POSIX semaphore | capture, release, wait, signal | a binary semaphore that counts |
| Reader-writer locks, `alos/linux/fm_alos_rwlock.c` | counters under a mutex, two semaphores, an entry per thread, promotion bits | capture for reading or writing, nested or not, release | the post comes after the mutex was given up; upgrades |
| Event dispatch, `api/fm_api_event_handler.c` | a list of processes with a mask and a queue each, the event in hand | distribute, handle globally and locally, join, leave | an event is copied while another is held; chains of buffers change owner; processes leave |
| Interrupts, `api/fm_api_event_intr.c` | masks and sources per switch | wait, dispatch, unmask | switches that come and go |
| MAC maintenance and purge, `api/fm_api_event_mac_*.c` | pending purges with their callbacks, two work lists, a binary semaphore | enter, merge, take, complete, sweep | merging must lose nothing; a wakeup per request; a table that changes while it is walked |
| Mailbox, `api/fm10000/fm10000_api_mailbox.c` | two rings and two control headers in shared memory, three bits | interrupt, connect, take requests, send in fragments, notify | two sides write one memory; the handler works from a copy; the host starts over |
| Packets and buffers, `platforms/common/packet`, `platforms/common/buffers` | rings and chains of buffers | send, receive, retry | limits and retries |
| State machine engine, `common/fm_state_machine.c` | tables of transitions | notify | callbacks that notify |
| Switch life cycle, `api/fm_api_init.c` | state of each switch | insert, up, down, remove | threads that work on a switch that goes |
| Everything else: tables of VLANs, ACLs, routes, SerDes tuning, board support | registers and their images | configuration | mostly data |

An event starts in the pool. `fmAllocateEvent` takes it, a driver, the interrupt
handler or a port state machine fills it and calls `fmSendThreadEvent` on the
global event thread, whose handler takes it with `fmGetThreadEvent`,
passes copies of it to the processes and gives it back with
`fmReleaseEvent`. A release wakes low-priority allocations and calls
`EventFreeHandler` of a switch that could not report a link change for want of
an event. Timer tasks run the state machines of ports, which is where link changes
come from. The reader-writer lock is what protects the state of each switch; the
maintenance of the MAC table and the handler of the mailbox are two of the
threads that take it.

`PROJECT.json` lists every component with its status and every hazard with the
line at which it bites.

## The modules

| Module | Models | Composed with |
|---|---|---|
| `EventQueue` | the queue as a value, one operator for what each function does under `accessLock` | used by `ThreadEvents` |
| `EventChannel` | what a queue promises: first in first out, once, eventually | implemented by `ThreadEvents` |
| `ThreadEvents` | `fmSendThreadEvent`, `fmGetThreadEvent`, `fmSignalThreadEventHandler`, `fmEventQueueRemove` by a sender | |
| `ThreadEvents_proofs` | its theorems | extends `ThreadEvents` |
| `EventPool`, `MCEventPool` | `fmEventHandlingInitialize`, `fmAllocateEvent`, `fmReleaseEvent`, and the semaphore | |
| `EventPool_proofs` | its theorems | extends `EventPool` |
| `LinkNotify`, `MCLinkNotify` | `fm10000SendLinkUpDownEventV2`, `EventFreeHandler`, `fmAddEventFreeNotify`, the loop over switches in `fmReleaseEvent`, the two callers | has the pool as a counter |
| `LinkNotify_proofs` | its theorems | extends `LinkNotify` |
| `EventDispatch` | `fmGlobalEventHandler`, `fmDistributeEvent`, `fmLocalEventHandler`, `fmSetProcessEventMask`, a process that joins and leaves | has the pool and the queues as values |
| `EventDispatch_proofs` | its theorems | extends `EventDispatch` |
| `Sublists` | what a walk of a list that removes nodes on its way leaves of it | used by `TimerTask` and `MacPurge` |
| `AlarmClock` | what timers promise: they ring when due, the earliest first, as often as asked | implemented by `TimerTask` |
| `TimerTask`, `MCTimerTask` | one task: `PeriodicTimerLoop` or `EventDrivenTimerLoop`, `fmCreateTimer`, `fmStartTimer`, `fmStopTimer`, `fmDeleteTimer`, `fmDeleteTimerTask` | |
| `TimerTask_proofs` | its theorems | extends `TimerTask` |
| `ReaderWriterLock` | what a lock promises: who may read and write, and no more | implemented by `RWLock` |
| `RWLock` | `fmCaptureReadLock`, `fmCaptureWriteLock`, `fmReleaseReadLock`, `fmReleaseWriteLock`, and what they share | |
| `RWLock_proofs` | its theorems | extends `RWLock` |
| `MacPurge`, `MCMacPurge` | the list of pending purges, the maintenance thread, the sweeper, flushes, the deletion of a LAG and its callback | |
| `MacPurge_proofs` | its theorems | extends `MacPurge` |
| `Mailbox` | the interrupt handler of one PEP's mailbox, connection, requests, responses in fragments, notifications | the host is external |
| `Mailbox_proofs` | its theorems | extends `Mailbox` |

### How state and actions correspond to the code

A step is what no other thread can see the middle of. Code between a capture and
a release of one lock is a step; a read of shared memory outside of a lock is
a step of its own, so that whatever follows from it may follow from a stale
value. A variable such as `spc`, `hpc`, `pc`, `lpc`, `cpc` or `dpc` says where a
thread is in the function. Definitions named mutants (`AddCleared`,
`RecountOffByOne`, ...) are plausible bugs, used only to show that the property
they are written for can fail; no specification refers to them.

*ThreadEvents.* `queue` is `thread->events`. `CheckFull` and `CheckRoom` are the
two outcomes of the test of `q->size` before the lock in `fmEventQueueAdd`; `Add`
and `AddNoMem` are what happens under it. The waiter mutex is not a variable:
the handler holds it exactly in its labels `get` and `sleep` (`WaiterFree`), and
a sender takes it, signals and releases it in the one step `Signal`. `WakeHandler` is
`pthread_cond_signal`, which only a handler in `wait` notices.
`WakeUnsignalled` is a timeout or a spurious wakeup. After any of them the code
looks at the queue once more and returns what it finds (`GetAgain`).

*EventPool.* Which event a thread gets does not matter, so the free queue is its
counter `free`; `out` counts events in use and threads in `put` and
`insert` carry those on their way back. Any thread may release any event that
is out. `InsertNoMem` is a release that finds no memory for the node of the queue: the
event is in no queue any more, which `lost` counts. `Capture` is the loop of `sem_trywait` in `fmCaptureSemaphore`, which
empties a binary semaphore, `Wake` and `TimeOut` are the ends of
`sem_timedwait`, and `Post` is `sem_post`, which neither looks at the value nor
stops at one; it fails at `SEM_VALUE_MAX` and its failure is ignored.

*LinkNotify.* The thread `link` runs the port state machines; the thread `event`
releases events and so runs `EventFreeHandler`. Both run
`fm10000SendLinkUpDownEventV2`, statement by statement. The update of
`portStateEventNotifications` is a read and a write of one word.  The two reads of
`eventFreeNotifyHndlr` in `fmReleaseEvent` are one step, as they are one load in
the build (`-O1`, `src/Makefile.am`). `FarLoopback` is the branch of
`fm10000NotifyApiPortUp` for a port in loopback.

*TimerTask.* `mode` says which of the two loops the task runs. One client per timer calls the API. Stopping and starting under the
lock are the steps `StopTimer` and `StartTimer`, with the removal or the
insertion and the signal they include. `Serve` is one round of the inner
loops: the timer is counted, ended or put back, and the lock is dropped for `Callback`.
`Suspend` is the top of the loop. `timeout` is the *timer* the thread's
pointer points into, so that its `end` is read when it is read in the code. `since`
records what clients did to the timer being served since the lock was
dropped. `began` remembers the first `start`, for `NoDrift`. `now` is the clock, in ticks.
For the refinement a timer's alarm is made of its fields while it runs and its task
is in use (`Alarm`), and a timer rings while its callback is still to be called (`ringing`).

*RWLock.* A function is one step from `TAKE_ACCESS` to `GIVE_ACCESS`. `numReaders` and
`numWriters` are the fields of a thread's entry in the `userList`, `used` the
threads that have one. A thread that waits is in `waitRead` or `waitWrite`; the
releasing thread counts it as active before it wakes, as in the code, and
`Admitted` is the end of its `sem_wait`. A post for a writer is a step of
its own (`post`), since it comes after the mutex; which waiter takes it is open.
The bits of `readerToBePromoted` are the set `promoted`, read without the mutex
into `copy` and cleared later (`clear`). With `Upgrades` a thread that reads may ask to
write.

*MacPurge.* An `Entry` of `list` is one `fm_maPurgeListEntry`, the first is the
global one, and `scan` is `scanEntry`. Entering a request is one step under the
lock of the switch: merging it, marking the pending work (`flag`) and posting
the semaphore. The thread is in `wait`, `take` (it has the semaphore),
`fifo` (the work list is taken), `next` (it looks for a purge) or
`purge`, where it visits one cell of the table a step, so that addresses come and go
while it walks. `NextEntry` is the first entry with something pending at or
after `scan`, around the list. A request may run out of memory at the three places where
it allocates: for an entry it does not have yet, where nothing has changed (for callers
no step, for the sweeper `SweepEndFails`); for the bits of the VLANs it is to
cancel (`EnterAborts`, in `FlushAborts` and `DeleteLagAborts`); and for the callback
(`DeleteLagRefused`). After the last two its purge is marked and the thread is not called
(`NoTrigger`). A deletion may be asked for again while one is under way, and an address added
while it is. Four variables are not in the code. `owed` holds every
address present when a request that covers it was entered and accepted; `unannounced`, `forsaken` and
`excused` record what the properties have to except: a purge marked by a request that ran out of
memory, LAGs whose deletion was accepted without a callback, and addresses that a deletion does not
wait for.

*EventDispatch.* `gpc`, `lpc` and `tpc` say where `fmGlobalEventHandler`, the
`fmLocalEventHandler` of a process and its `fmTerminate` are. `delivery` is the snapshot of
the list, process and mask of each entry, that `fmDistributeEvent` takes under the lock and
works through after it, skipping (`Skip`) those that do not want the type. The loops that retry an allocation or a full queue every so
often are guards of the steps they retry. An event is a record with the chain
of buffers it carries, and `chains` counts the chains in use. A release may find no memory
(`Release`, `SendFails`), and `ExitThread` destroys a queue with all that is in it:
`lost` counts the events, `leaked` the chains. Every event is of a switch that exists.

*Mailbox.* `pf` and `sm` are the two control headers, `hdr` the copy that the
handler reads when it starts and works from, `req` and `ack` two bits of
`PCIE_GMBX`, `irq` the bit of `PCIE_IP`. A write to the shared memory or to a
register is a step. `job` is what the message at hand is for: a request like any other, one that
creates ports, one that fails and so ends the loop, the default VLAN of ports just
created, or of a port somebody changed. `Build` makes its data, for which there may be no memory: then
nothing is written, or an error in its place. It goes out in fragments as far as the
ring has room (`Send`), with waits for the host to read on (`PartRead`) or to give up
(`GiveUp`), and `After` is where the handler goes on. A request that creates ports
(`fmCreateLportProcess`) is followed by the message about their VLAN, from a copy of its own
(`NotifyPvid`), and the loop goes on with the header read again (`ReadAgain`), whatever version
it has by then. `SkipEntry` is the `continue` for an entry without the transaction flag. What the host does is external: it connects, posts, reads, rings,
and starts over whenever it likes, as the handlers expect and no worse.
`epoch`, `handled`, `written`, `tight`, `notified` and `failures` are history; `handled` counts the
requests that the head in memory has gone past, which it does only with an answer.
`Init` has the indices at 1 and the versions reset: a mailbox that was in use
before and was initialized again.

## What is checked

`PROJECT.json` gives for each run the module, the configuration and the
properties, and for each property the mutant that breaks it.

| Run | Bounds | Shows |
|---|---|---|
| `thread_events` | 2 senders, 4 events, room for 2 | `QueueCoherent`, `OneOwner`, `NoLostWakeup`; `ImplementsChannel`: the code refines `EventChannel`, liveness included |
| `event_pool` | 4 threads, 5 events, thresholds 2 and 3, any release may find no memory; 46 550 states | `EventsConserved`, `GateReopens` |
| `link_notify` | 2 switches with 2 ports and 1, 2 events; 904 315 states | `RetryOwed` |
| `link_stranded` | 1 switch, 2 events | `WaitingIsNotStranded` fails: the handler may be registered after the last release |
| `event_dispatch` | 2 processes, 4 events of which 3 in reserve, queues of 1, 3 events sent, 1 of them at high priority, 1 change of mask; 276 934 states | `EventsConserved`, `ChainsOwned`, `InOrder`, and `EveryEventFinishes` |
| `dispatch_terminate` | the same | `TerminateReturns` fails: the process signals its thread once, perhaps before the thread waits |
| `timer_task` | both loops, 2 timers, timeouts 1 and 2, period 1, 2 repetitions, 2 ticks; 884 435 states | `ActiveListCoherent`, `NoOversleep`, `NoDrift`, and `ServedWhenDue`; `ImplementsAlarmClock`: the code refines `AlarmClock` |
| `timer_early_callback` | 1 timer, event-driven | `CallbackAtEndOfRepetition` fails: the callback is read after the lock was dropped |
| `rw_lock` | 4 threads, 3 entries, captures nested 3 deep | `NoneStranded`; `ImplementsLock`: the code refines `ReaderWriterLock`; `WriterAdmitted` |
| `rw_upgrade` | 3 threads that may upgrade | `WriterIsAlone` fails: a writer is admitted while others read |
| `mac_purge` | 1 LAG and the CPU's port, VLANs 0 and 1, 1 address, flushes of the LAG or of all ports, 3 requests, any of them without memory; 328 344 states | `OwedIsCovered`, `PurgeIsTriggered`, `NoOrphans`, `NoStaleAddress`, `DeletionAwaited`, and `LagFreed` |
| `mailbox` | a ring of 5, messages of 0 and 2 entries of data, 2 requests a connection, 2 connections, 1 notification, 1 message without memory; 479 127 states | `RequestsInOrder`, `NothingStale`, `IntactWhileRoom`, and `Reconnects`, `RequestsServed` |

Every passing run checks the module's `TypeOK` as well.

### Why the bounds are enough to be interesting

Two senders are what an unlocked test needs to be passed twice, and four events
let both hold one while the queue is full and the handler has another. In the
pool, four threads put one thread in each of: waiting, carrying an event,
counting, posting; `Block = 2` and `Unblock = 3` are different, and of five events
one may be lost before the gate stays shut for good, the case that `GateReopens` excepts. In `LinkNotify` two events let both threads send at once and an empty
pool is two steps away; two ports on one switch let a pass over the ports stop in the
middle, and a second switch has to wait for another release. In
`EventDispatch` two processes make the difference between a copy and the
original, queues of one are full at once, and four events with a reserve of three
close the pool to senders while the event thread still copies, with one of the reserve lost or
taken by a burst. In the
timer task two ticks with timeouts of one and two let a timer be inserted before, after
and level with another, be served late and be put back.
Four threads for three entries run the lock out of entries, and
nesting of three is one more than the code's special cases tell apart. Three requests
for the LAG, the whole switch (and, from the sweeper, port 0) and two VLANs reach every row of the merging: a port, then a VLAN of
it, then everything; `Targets` leaves out flushes of port 0, whose address is not in the table. One
of the VLANs is 0, which is that of the callback of a deletion. The ring of 5 has four slots, so a message of two entries and its
two headers fits once and otherwise comes in fragments, and what does not fill the
ring are messages of the two headers alone. (With messages of one entry of data TLC passes as well, just short
of the time a run may take.) Two connections let
everything of the first be stale in the second, and one failure lets a request be taken
again.

The bounds that cut behaviours off are named in the modules. `MaxTime` stops the
clock of `TimerTask`, not its threads; `MaxSent`, `MaxRequests`, `MaxPosted`,
`MaxConn` and `MaxNotify` end the calls of the outside, `MaxFailures` the messages of
the mailbox that find no memory. The pool's `SemMax` is above
the number of posts at which a property could change.

Deadlock is checked everywhere but in `TimerTask`, `MacPurge` and `Mailbox`, which
have nothing left to do when the clock, the callers or the host have stopped.

### Fairness

POSIX threads are scheduled, so a thread that can go on does. What is assumed of whom:

* `ThreadEvents`: a sender on its way and the handler. Nothing of
  `WakeUnsignalled`, so delivery is never owed to a lucky spurious wakeup, nor of
  `Begin` and `Withdraw`, which are choices of the callers.
* `TimerTask`: the thread of the task alone. Neither time nor any caller has to move.
* `RWLock`: a thread admitted leaves its `sem_wait`; a thread that holds the lock
  releases what it holds, at every depth (strong fairness, because in between it may
  capture again). No thread has to ask for the lock.
* `MacPurge`: the maintenance thread. The sweeper and the callers do as they like. `LagFreed` is
  about a LAG whose callers have stopped to ask for its deletion, which `MaxRequests` sees to: each time
  renews the number that its purge must reach.
* `EventDispatch`: the event thread, the local threads, and the steps of a process that
  is leaving. The event thread tries again for as long as a local queue has no room or memory, and
  that memory comes back is part of the fairness.
* `Mailbox`: the handler (an interrupt that is pending is served), a host that
  connects goes on with it, and a host sets the bits it owes and rings again while it is
  not connected or a request is not taken. The last is an assumption about
  software outside this repository, `RingsAgain`: without it TLC finds
  `Reconnects` and `RequestsServed` violated, for the reason given below.

`EventPool` and `LinkNotify` state safety only.

## What is proved

`EventPool_proofs` proves, for any finite set of threads, any `MaxEvents`, any
`SemMax >= 1` and any thresholds with `Block <= Unblock < MaxEvents` (what
`fmEventHandlingInitialize` demands, assumption `Thresholds`):

* `TypeCorrect`: `Spec => []TypeOK`, inductive as it stands.
* `Conservation`: `Spec => []EventsConserved`. The argument is a count: each
  step moves one thread between labels (`MoveCounts`, `GotoCounts`) and one event
  between `free`, `out`, `lost` and the threads that carry one. The release that finds the
  queue full would break it, and cannot happen: its own event is missing from the queue.
* `ReleaseFindsRoom`: of the statuses of `fmEventQueueAdd` that `fmReleaseEvent` ignores, the full
  queue does not occur. The other, missing memory, does, and loses the event.
* `GateNeverStuck`: `Spec => []GateReopens`. A caller gets behind the gate
  only when it saw fewer than `Block` free events, and a release skips the post only
  when it saw at most `Unblock` of them. In both cases events are missing from the
  queue, and as long as fewer are lost than `MaxEvents - Unblock` somebody has one
  of them by conservation (`MissingEventIsSomewhere`). With as many lost the free events never exceed
  `Unblock` and no release posts any more. That
  is why the invariant is inductive relative to `EventsConserved`, and it is
  the reason for `Unblock < MaxEvents`.

`ThreadEvents_proofs` proves, for any events, senders, size and timeouts:

* `TypeCorrect`: `TypeOK` is not inductive; the proof strengthens it with
  `Holding`, which ties what a sender and the handler hold to where they are.
* `WakeupNotLost`: `Spec => []NoLostWakeup`, inductive with the type
  invariant. The step that matters is `Signal`, which cannot happen between the
  handler's test of the queue and its wait, because of the mutex.
* `QueueAlwaysCoherent` and `EveryEventHasOneOwner`: no event is queued twice, and each is with a
  sender, in the queue or with the handler. Inductive together (`OwnerInv`): a get
  leaves an event ownerless unless the list had it once.
* `ChannelSafety`: every step maps to a step of `EventChannel` or to none.

`LinkNotify_proofs` proves, for any switches, ports, wiring and pool,
`TypeCorrect` and `RetryNeverForgotten`: a port that waits for a free event is on a switch whose
handler is registered, or a thread is about to register or to run it.

`RWLock_proofs` proves, for any finite set of threads, any number of entries and any depth of
nesting, without upgrades:

* `TypeCorrect`, `NobodyIsStranded`: as long as somebody waits, somebody holds the
  lock or has a post under way.
* `LockImplemented`: `RWLock` refines `ReaderWriterLock`.

The invariant is `LockInv`: no promotion is under way; a thread has an entry
exactly while it holds or waits; the counters of active threads are the numbers of
threads that hold the lock, those admitted and not yet awake included; a writer
excludes all others; and the pending counters are the numbers of threads that wait
without having been admitted. Each of the counters is a cardinality, so each step
is an argument of one thread changing sets. `~Upgrades` is assumed because an upgrade
does break it: that is `rw_upgrade`.

`TimerTask_proofs` proves, for any timers, modes, period, timeouts and repetitions:

* `ActiveListAlwaysCoherent`: the list of active timers is ordered by `end`, without
  repetition, and holds the running timers of the task.
* `NeverOversleeps`: a thread that sleeps is to wake no later than the first timer ends.
* `NeverDrifts`: a timer's `end` is its first `start` plus a whole number of its timeouts.

They are inductive together (`TimerInv`). The work is in `InsertPosition`: `Insert` counts the
timers that end earlier, and in an ordered list those are an initial segment.

* `TypeCorrect`: `TimerInv` is about a task in use, so the types need also that
  `fmDeleteTimerTask` leaves nothing to serve (`CleanedUp`): the list it empties holds
  only timers that exist and run, or some would stay on it (`CleanupEmpties`).
* `AlarmClockImplemented`: each step is one of `AlarmClock` or none. Starting a timer
  sets its alarm, stopping it or cleaning up takes it away, and a round of a loop rings
  the head of the list (`ServeRings`): the head is due, since a loop goes by a time that
  has been (`TimeHasBeen`), and it is the earliest of all the timers that run, since the list is
  ordered and holds them all. Its next alarm is one timeout after this one, unless this was
  the last.

`MacPurge_proofs` proves, for any LAGs, VLANs, table, static addresses and number of requests, all the
safety that `mac_purge` checks:

* `PurgeAlwaysTriggered`: as long as a purge is pending, the thread is at work on one or will be
  told, unless the request that marked it ran out of memory and there was none since. `WakeInv` ties the work lists and the semaphore to where the thread is.
* `TypeCorrect` and `NeverOrphaned`, from `BaseInv`: the entry of the switch is first, a port
  has one live entry at most, an entry of a LAG that is gone has something pending (`ListInv`), and a
  callback is of a LAG that is being deleted, one for each LAG, with a number below the next
  (`CallbacksOK`).
* `NothingLost`: `Spec => []OwedIsCovered`. What has to be shown of each function that changes
  the list is that it is `Good`: the list stays well formed, and whatever address a pending
  purge reached before, or the new request reaches, a pending purge reaches after. Each
  row of the merging is a lemma (`MergedGood`, `PortGood`, `VlanAdded`, `AllGood`, `CancelGood`), and so is
  what a list loses when a purge is taken (`TakenGood`: what it reached, the request now reaches) or
  a LAG is disowned (`DisownGood`). `OwedIsCovered` needs in addition that nobody owes an
  invalid address, so that one learned again owes nothing (`OwedInv`).
* `NeverStale`: `Spec => []NoStaleAddress`, with `Visited`: while a purge is at work, the cells
  before `index` hold no address of a LAG whose callback it answers. It is the sequence number that makes this
  inductive: a callback entered after the purge was taken is not answered by it. `Visited` cannot be had of
  a purge of VLAN 0, which answers the callback of a deletion as well, nor of an address added to
  the LAG while it is being deleted: these are the cells in `excused`.
* `DeletionNeverForgotten`: `Spec => []DeletionAwaited`, the safety that `LagFreed` rests on: a LAG that is being
  deleted has a callback, and for it a purge of the whole port is pending or the one at work answers it.
  `Good` says for this that what asked for all of a port still does. A purge taken from the
  list has a number not below that of any callback, so it answers all those it is for
  (`HandleAwaits`).

Removing entries is by position: `SublistFacts` says that a list which lost some of its elements
holds the others in their order, by counting for each position how many of those kept come
before it. Where the first of several has to be found, `Least` gives a least number of a set of natural
numbers, which takes the place of an induction.

`EventDispatch_proofs` proves, for any finite set of processes, any pool, queues and
number of events, without an assumption about who joins, leaves or changes masks:

* `TypeCorrect`, from `Sound`: what the event thread and the handlers hold is tied to where
  they are (`InHand`), and `pktDeliveryCount` is the number of entries of the snapshot that
  are still to get the packet (`CountsDown`), which is why the last of them, and only it,
  gets the original chain.
* `Conservation` and `ChainsAlwaysOwned`: both count the events of a set in all the places
  where one may be, and those lost by a release without memory or with the queue of a
  process that left, so one lemma per place (`SeqCount`, `Queued`, `Handled`) says what
  a step adds or takes away, for the set of all events and for that of events with a chain.
* `OrderKept`: `Spec => []InOrder`, inductive with `Ordered`. The queue of the event
  thread is in order and behind the event in its hands; a process is in the list once, so in a
  snapshot once (`ListedOnce`), or it would get an event twice; and what a process has got is
  in order and not behind what is still to come (`ProcessInOrder`).

`Mailbox_proofs` proves, for a ring of any size greater than 2, messages of any length and any number
of requests, connections and notifications:

* `TypeCorrect`, with `Typed`: a message without data has sent none, or a message could
  go around the ring.
* `RequestsTakenInOrder`, `NothingStaleEver` and `IntactAlways`, all three from `Inv`. Where
  an entry is in a ring is said by `Used`, its distance from a head, so going around the
  ring is arithmetic of distances (`UsedAhead`, `UsedFrom`) and needs no induction. Of what the host sees nothing is
  claimed while the two disagree on a version (`Agreed`); the handler that makes them agree
  does nothing after it, so every copy of the header used while they agree is of this
  connection (`CopyGood`). An old copy of the host's tail hides requests, and an old copy
  of its head hides room, and neither invents any (`Requested`, `Answered`). What the handler takes it
  takes in order even when the host has started over, since the requests in front of an
  old tail are still in the ring (`Burst`); a copy read in the middle of the burst without a version
  in it is not `Burst`'s, and there the order is lost. In the run the ring
  of requests never goes around; in the theorem it does.

Every invariant of every passing run is stated by a theorem, and so are the refinements of
`ReaderWriterLock` and `AlarmClock`, and that of `EventChannel` but for its liveness. Only checked by TLC
are the properties that need fairness, which TLAPS does not reach: `ServedWhenDue`, `WriterAdmitted`,
`LagFreed`, `EveryEventFinishes`, `Reconnects`, `RequestsServed`, and the liveness part of
`ImplementsChannel`. The theorems about locks say nothing of upgrades, and those about the mailbox nothing
of the responses once a message has filled the ring, because there the code does not keep the property.

## Where the code and its documentation differ

The runs expected to find a violation are listed above; `PROJECT.json` quotes the line
each contradicts. These were met on the way and have no run.

Events, threads and timers:

* `fmEventQueueAdd` (`fm_alos_event_queue.c:163`) tests the size before it takes the
  lock, so that two senders can fill a queue past its maximum.
* `fmReleaseEvent` (`fm_api_event_mgmt.c:248`) ignores the status of `fmEventQueueAdd`: without
  memory for the node (`fm_alos_event_queue.c:183`) the event is lost, and once
  `FM_MAX_EVENTS - eventUnblockThreshold` are lost the semaphore is not posted again.
* A post of the pool's semaphore can outlive the shortage it ended
  (`fm_api_event_mgmt.c:181`): a low-priority caller may then pass a gate that is closed.
* `fm10000_api_event_port.c:91` sets the bit of a port without its switch, where the
  comment at line 88 speaks of the port's last state: switches share the word.
* Two calls of `fmStartTimer` before the task is initialized wait on one binary
  semaphore that is posted once (`fm_alos_time.c:1928`).
* `fm10000NotifyApiPortUp` (`fm10000_api_port_actions.c:2373`) passes the logical
  port of a port in loopback where `fm10000SendLinkUpDownEvent` documents the
  physical one.
* `portStateEventNotifications` is written after the event was sent
  (`fm10000_api_event_port.c:295`), so the retry can compare with the older value
  even on one switch.
* `fmGetThreadEvent` with `FM_WAIT_FOREVER` returns
  `FM_ERR_NO_EVENTS_AVAILABLE` after a signal without an event or a spurious wakeup.
* `fmGetTimerState` (`fm_alos_time.c:2183`) returns the repetitions to go with the
  opposite sign.
* `CleanupAllTimers` takes the timers of a task off its lists and leaves them
  running and allocated, where `fmDeleteTimerTask` is said to stop and delete them.
* A task deleted before its thread has initialized is not deleted: the thread sets
  `initialized` after `fmDeleteTimerTask` cleared it, and the deletion waits for ever.
* `EventDrivenTimerLoop` keeps a pointer into the first timer across its sleep,
  which `fmDeleteTimer` may free.

Locks and dispatch:

* An upgrade of a read lock decrements `numPendingWriters` for a thread that was never
  counted, against the assertion at `fm_alos_rwlock.c:1780`.
* A process that leaves while it is in the snapshot of `fmDistributeEvent`
  (`fm_api_event_handler.c:302`) has the event thread wait for room in a queue nobody empties.
* A burst of high-priority events as long as the reserve leaves the event thread
  without an event to copy into, waiting for releases that are its own; events lost by releases
  add up to the same.
* `fmExitThread` (`fm_alos_threads.c:584`) destroys the queue of a process that leaves with the
  events in it, which nobody releases, and their buffers.

MAC addresses:

* A request writes its `statics` over that of the purges it joins
  (`fm_api_event_mac_purge_table.c:1572`), so that static addresses somebody asked to
  flush may stay and others go, where `fm_api_addr.h` says "Flush static MACs along with the
  dynamic MACs." The run leaves static addresses out.
* A request without memory for the bits of the VLANs to cancel, or for its callback, goes to its end
  past `fmTriggerMAPurge` with its purge marked (`fm_api_event_mac_purge_table.c:713`, 1615, 2769); the
  purge waits for the next request.
* Of these the one for all of a port returns `FM_OK` (1624), so that
  `fm10000DeleteLagFromSwitch` goes on to mark the LAG's port "delete pending"
  (`fm10000_api_lag.c:1811`), and nothing will ever free it. `DeletionAwaited` and `LagFreed` except it
  (`forsaken`).
* A deletion registers its callback with VLAN 0 of cleared data, and
  `fmProcessPurgeCallbacks` compares "...and the purge covered the callback's VLAN..."
  (`fm_api_event_mac_purge_table.c:3473`): a flush of VLAN 0, which `fmFlushAddresses` accepts, answers
  it, and the LAG is freed with the addresses of its other VLANs in the table.
* `fmValidateAddressPort` (`fm_api_addr.c:2250`) takes a port that is pending deletion, so
  that an address can be added behind the purge that frees the port. `NoStaleAddress` excepts both
  (`excused`).
* When the sweeper's flush fails (`fm10000_api_event_fast_maint.c:395`) what has expired is not counted
  again, and is flushed only when more expires.

Mailbox (`fm10000_api_mailbox.c` unless said otherwise):

* A request posted between the read of the header (1396) and the clearing of the bit (1431) is
  forgotten unless the host rings again.
* A request that fails ends the loop, and the requests after it wait for another ring.
* A request for whose answer there is no memory is not answered. Unless another answer saves the
  head of the ring after it, the request is taken again with the next ring.
* `fmCreateLportProcess` sends a second message and then reads the control header again
  (`fm_api_mailbox.c:3474`), without a look at the version, and the loop goes on with it. If the
  host has started over in between, the head is that of the old connection and the tail is 1, so the loop
  takes what the ring still holds from there on, around it, and answers requests of the
  connection before. `RequestsInOrder` excepts this case, and without the exception TLC finds it.
* A response of which a fragment fills the ring leaves the tail equal to the head, which
  reads as empty: `CALCULATE_EMPTY_QUEUE_ELEMENTS` counts one slot too many
  (`fm10000_api_mailbox_int.h:80`), and `respHead` is not read again before the next fragment (1244).
* The test for the END flag leaves the two headers out (1255), and a length that does not fit makes
  `entriesToSend` negative (1263).
* The status of an index out of range is overwritten after the abort (348).
* A notification before the first connection writes at index 0, the control header.

## What is not modelled, and why

Peeking, counting and destroying a queue, the registries for debugging, time
stamps and statistics change nothing the properties speak of. Functions that only
fail on an invalid argument, a failing mutex or a failing access to the chip are modelled as succeeding. Where
memory runs out is modelled for an event put into a queue, a copy of a packet, a request for a
purge and a message of the mailbox; not in `LinkNotify`, where the pool is a counter: there a failing
`fmSendThreadEvent` (`fm10000_api_event_port.c:284`) would make the sender release the event itself, and
several threads release events, where the model has one. Timers are created in one step and deleted in two,
though their two locks differ (`timerTasksLock` for the one, `fm_alos_time.c:1723`, the task's for the other, 1826),
so a list of timers corrupted between the two is not shown. The table
of timer tasks (`SearchExistingTimerTask`) and several tasks at once add no interaction: tasks share
nothing else. Reading the clock is taken to be monotonic. Link debouncing and the
management port of a remote switch in `fm10000SendLinkUpDownEventV2` return
before they touch the state modelled here. Of the event
thread, what it does to a switch for each type of event is left out, and with it the queue of priority buffers
and the packets of a SWAG; of the purge, the requests by
second VLAN and remote identifier that the chip refuses, entries of tunnels, which a purge of one port
passes by, its statistics, and the updates reported to
the application; of the mailbox, what each request does to the switch, the loopback
of host services, and FIBM. The switch is up throughout. A reset of the PEP, which
withdraws the version without the lock of the mailbox while `fm10000UpdateSmHeader` (`fm10000_api_mailbox.c:8740`)
may be between its read and its write, is only in `Init`; and where the PEP stays in reset the interrupt of
the mailbox stays masked (9662), for which there is no step here. The plain lock is a recursive POSIX mutex and is taken as
the atomicity it gives; precedence of locks is only logged by the code.

The library is large (its register definitions alone are a good part of it), and
most of it compiles tables of VLANs, ACLs, routes, tunnels, multicast groups and SerDes
settings into registers, in one thread and under one lock: data and hardware, whose
correctness is a matter of values that a small instance does not show. They are listed as
components with that reason.

## Plan

What would come next, in this order:

1. Abstract specifications of the event pool and of the mailbox, and proofs that the code
   implements them.
2. `StateMachine`: registration, and callbacks that notify the machine they run in.
3. `Interrupts`: masks and sources of switches that come and go.
4. `PacketTx` and `Buffers`: the queue of packets to transmit and its retry.
5. The repair of parity errors and the counter rate monitor.
