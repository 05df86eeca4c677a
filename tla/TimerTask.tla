----------------------------- MODULE TimerTask ------------------------------
(***************************************************************************)
(* One timer task of src/alos/linux/fm_alos_time.c: the thread that runs   *)
(* EventDrivenTimerLoop or PeriodicTimerLoop, and the threads that create, *)
(* start, stop and delete its timers, one such client for each timer.      *)
(*                                                                         *)
(* What runs under task->lock is one step: the lock is held across steps   *)
(* only while an event-driven task starts.  What is done without the lock, *)
(* reading timer->running and task->initialized, calling the callback and  *)
(* freeing a timer, is a step of its own.                                  *)
(***************************************************************************)
EXTENDS Integers, Sequences, Sublists

CONSTANTS Timers,      \* the timers, and their clients
          NoTimer,     \* a NULL fm_timer pointer
          Modes,       \* the modes a task may have
          Period,      \* task->period, in ticks
          Timeouts,    \* the timeouts clients start timers with, in ticks
          Repetitions, \* the numbers of repetitions they ask for
          MaxTime      \* bound of the model: the last tick

EventDriven == "FM_TIMER_TASK_MODE_EVENT_DRIVEN"
Periodic    == "FM_TIMER_TASK_MODE_PERIODIC"
Forever     == -1  \* FM_TIMER_REPEAT_FOREVER

ASSUME NoTimerIsNoTimer == NoTimer \notin Timers
ASSUME ModesAssumption  == Modes \subseteq {EventDriven, Periodic}
ASSUME TimesAssumption  == /\ Timeouts \subseteq Nat /\ Period \in Nat \ {0}
                           /\ MaxTime \in Nat
ASSUME RepetitionsAssumption == Repetitions \subseteq (Nat \ {0}) \cup {Forever}

VARIABLES
  mode,         \* task->mode
  now,          \* fmGetTime
  initialized,  \* task->initialized
  sem,          \* the value of task->sem
  active,       \* the list of active timers, from firstActiveTimer
  lpc,          \* where the timer thread is
  timeout,      \* event-driven: the timer whose end the local "timeout" points to
  wakeAt,       \* the absolute time the timer thread sleeps until
  signalled,    \* task->cond was signalled since the thread began to wait
  curTime,      \* the time the loop compares ends with
  firing,       \* the local "timer", whose callback is to be called
  since,        \* what clients did to that timer since the lock was released
  exists,       \* the timers allocated
  running, end, duration, nrRepetitions, soFar, \* the fields of each timer
  began,        \* when each timer was started (its first timer->start)
  cpc,          \* where each timer's client is
  dpc           \* where fmDeleteTimerTask is

taskVars   == <<initialized, sem, active>>
threadVars == <<lpc, timeout, wakeAt, curTime, firing>>
fieldVars  == <<running, end, duration, nrRepetitions, soFar, began>>
vars == <<mode, now, taskVars, threadVars, signalled, since, exists, fieldVars, cpc, dpc>>

TypeOK ==
  /\ mode \in Modes /\ now \in 0..MaxTime
  /\ initialized \in BOOLEAN /\ sem \in 0..1 /\ signalled \in BOOLEAN
  /\ active \in Seq(Timers)
  /\ lpc \in {"start", "init", "wait", "callback", "relock", "exited"}
  /\ timeout \in Timers \cup {NoTimer} /\ wakeAt \in Nat /\ curTime \in Nat
  /\ firing \in Timers \cup {NoTimer}
  /\ since \in {"nothing", "stopped", "restarted", "freed"}
  /\ exists \subseteq Timers
  /\ running \in [Timers -> BOOLEAN]
  /\ end \in [Timers -> Nat] /\ began \in [Timers -> Nat]
  /\ duration \in [Timers -> Timeouts \cup {0}]
  /\ nrRepetitions \in [Timers -> Repetitions \cup {0}]
  /\ soFar \in [Timers -> Nat]
  /\ cpc \in [Timers -> {"idle", "restart", "ready", "waitSem", "insert", "stop",
                         "stopDelete", "unlink", "free"}]
  /\ dpc \in {"none", "wake", "join", "deleted"}

\* fmCreateTimerTask has started the thread; the timers exist or not.
Init ==
  /\ mode \in Modes
  /\ now = 0 /\ initialized = FALSE /\ sem = 0 /\ active = << >>
  /\ lpc = "start" /\ timeout = NoTimer /\ wakeAt = 0 /\ signalled = FALSE
  /\ curTime = 0 /\ firing = NoTimer /\ since = "nothing"
  /\ exists = {}
  /\ running = [t \in Timers |-> FALSE]
  /\ end = [t \in Timers |-> 0] /\ began = [t \in Timers |-> 0]
  /\ duration = [t \in Timers |-> 0]
  /\ nrRepetitions = [t \in Timers |-> 0] /\ soFar = [t \in Timers |-> 0]
  /\ cpc = [t \in Timers |-> "idle"]
  /\ dpc = "none"

Tick == now < MaxTime /\ now' = now + 1
        /\ UNCHANGED <<mode, taskVars, threadVars, signalled, since, exists, fieldVars,
                       cpc, dpc>>

\* task->lock is free: EventDrivenTimerLoop takes it before it initializes.
LockFree == ~(mode = EventDriven /\ lpc = "init")

\* pthread_cond_signal of task->cond, which only a waiting thread notices.
Wakeup == signalled' = (signalled \/ lpc = "wait")
WakeupIf(cond) == IF mode = EventDriven /\ cond THEN Wakeup ELSE UNCHANGED signalled

First(list) == IF list = << >> THEN NoTimer ELSE Head(list)

\* Mutant: the timer goes to the end of the list.
InsertLast(list, t, ends) == Append(list, t)

\* AddActiveTimerToTask: before the first timer that does not end earlier.
Insert(list, t, ends) ==
  LET later == {i \in 1..Len(list) : ends[t] <= ends[list[i]]}
      pos   == IF later = {} THEN Len(list) + 1
               ELSE CHOOSE i \in later : \A j \in later : i <= j
  IN SubSeq(list, 1, pos - 1) \o <<t>> \o SubSeq(list, pos, Len(list))

\* FM_DLL_REMOVE_NODE of the timer, if the list has it.
Without(list, t) ==
  IF \E i \in 1..Len(list) : list[i] = t
  THEN LET i == CHOOSE j \in 1..Len(list) : list[j] = t
       IN  SubSeq(list, 1, i - 1) \o SubSeq(list, i + 1, Len(list))
  ELSE list
-----------------------------------------------------------------------------
(* The clients *)

Client(t, from, to) == cpc[t] = from /\ cpc' = [cpc EXCEPT ![t] = to]

FiringTimer(t, event) == since' = IF t = firing THEN event ELSE since

\* fmCreateTimer.
CreateTimer(t) ==
  /\ t \notin exists /\ dpc = "none"
  /\ Client(t, "idle", "idle")
  /\ exists' = exists \cup {t}
  /\ UNCHANGED <<mode, now, taskVars, threadVars, signalled, since, fieldVars, dpc>>

\* fmStartTimer, fmStopTimer or fmDeleteTimer reads timer->running unlocked.
Call(t, ifRunning, ifNot) ==
  /\ t \in exists /\ dpc = "none"
  /\ Client(t, "idle", IF running[t] THEN ifRunning ELSE ifNot)
  /\ UNCHANGED <<mode, now, taskVars, threadVars, signalled, since, exists, fieldVars, dpc>>

CallStart(t)  == Call(t, "restart", "ready")
CallStop(t)   == Call(t, "stop", "idle")
CallDelete(t) == Call(t, "stopDelete", "unlink")

StopTimer(t) ==
  /\ LockFree
  /\ \/ Client(t, "restart", "ready")
     \/ Client(t, "stop", "idle")
     \/ Client(t, "stopDelete", "unlink")
  /\ active' = Without(active, t)
  /\ running' = [running EXCEPT ![t] = FALSE]
  /\ WakeupIf(First(active) = t)
  /\ FiringTimer(t, "stopped")
  /\ UNCHANGED <<mode, now, initialized, sem, threadVars, exists, end, duration,
                 nrRepetitions, soFar, began, dpc>>

\* fmStartTimer: if the timer task hasn't completed initialization, wait.
CheckInitialized(t) ==
  /\ Client(t, "ready", IF initialized THEN "insert" ELSE "waitSem")
  /\ UNCHANGED <<mode, now, taskVars, threadVars, signalled, since, exists, fieldVars, dpc>>

\* Mutant: the semaphore is taken without being waited for.
WaitSemUnposted(t) ==
  /\ sem' = sem - 1
  /\ Client(t, "waitSem", "insert")
  /\ UNCHANGED <<mode, now, initialized, active, threadVars, signalled, since, exists,
                 fieldVars, dpc>>

WaitSem(t) ==
  /\ sem = 1
  /\ sem' = 0
  /\ Client(t, "waitSem", "insert")
  /\ UNCHANGED <<mode, now, initialized, active, threadVars, signalled, since, exists,
                 fieldVars, dpc>>

\* Mutant: the timer thread is not woken.
StartTimerSilent(t) ==
  /\ LockFree
  /\ Client(t, "insert", "idle")
  /\ \E d \in Timeouts, n \in Repetitions :
       /\ running' = [running EXCEPT ![t] = TRUE]
       /\ soFar' = [soFar EXCEPT ![t] = 0]
       /\ nrRepetitions' = [nrRepetitions EXCEPT ![t] = n]
       /\ duration' = [duration EXCEPT ![t] = d]
       /\ began' = [began EXCEPT ![t] = now]
       /\ end' = [end EXCEPT ![t] = now + d]
  /\ active' = Insert(active, t, end')
  /\ FiringTimer(t, "restarted")
  /\ UNCHANGED <<mode, now, initialized, sem, threadVars, signalled, exists, dpc>>

\* fmStartTimer, under the lock.
StartTimer(t) ==
  /\ LockFree
  /\ Client(t, "insert", "idle")
  /\ \E d \in Timeouts, n \in Repetitions :
       /\ running' = [running EXCEPT ![t] = TRUE]
       /\ soFar' = [soFar EXCEPT ![t] = 0]
       /\ nrRepetitions' = [nrRepetitions EXCEPT ![t] = n]
       /\ duration' = [duration EXCEPT ![t] = d]
       /\ began' = [began EXCEPT ![t] = now]
       /\ end' = [end EXCEPT ![t] = now + d]
  /\ active' = Insert(active, t, end')
  /\ WakeupIf(First(active') = t)
  /\ FiringTimer(t, "restarted")
  /\ UNCHANGED <<mode, now, initialized, sem, threadVars, exists, dpc>>

\* fmDeleteTimer: unlinks the timer under the lock, frees it after.  (Freed
\* memory is given the zeros that the next fmCreateTimer fills it with.)
UnlinkTimer(t) ==
  /\ LockFree
  /\ Client(t, "unlink", "free")
  /\ UNCHANGED <<mode, now, taskVars, threadVars, signalled, since, exists, fieldVars, dpc>>

FreeTimer(t) ==
  /\ Client(t, "free", "idle")
  /\ exists' = exists \ {t}
  /\ FiringTimer(t, "freed")
  /\ end' = [end EXCEPT ![t] = 0] /\ began' = [began EXCEPT ![t] = 0]
  /\ duration' = [duration EXCEPT ![t] = 0]
  /\ nrRepetitions' = [nrRepetitions EXCEPT ![t] = 0]
  /\ soFar' = [soFar EXCEPT ![t] = 0]
  /\ UNCHANGED <<mode, now, taskVars, threadVars, signalled, running, dpc>>
-----------------------------------------------------------------------------
(* The timer thread *)

\* An event-driven task takes the lock; a periodic one fixes its first period.
SignalInit ==
  /\ lpc = "start"
  /\ sem' = 1
  /\ lpc' = "init"
  /\ wakeAt' = IF mode = Periodic THEN now + Period ELSE 0
  /\ UNCHANGED <<mode, now, initialized, active, timeout, signalled, curTime,
                 firing, since, exists, fieldVars, cpc, dpc>>

\* Mutant: the next repetition is counted from the time the loop got to it.
ServeFromNow ==
  LET t == Head(active) IN
  /\ soFar' = [soFar EXCEPT ![t] = @ + 1]
  /\ IF nrRepetitions[t] # Forever /\ soFar[t] + 1 >= nrRepetitions[t]
     THEN /\ running' = [running EXCEPT ![t] = FALSE]
          /\ active' = Tail(active)
          /\ UNCHANGED end
     ELSE /\ end' = [end EXCEPT ![t] = now + duration[t]]
          /\ active' = Insert(Tail(active), t, end')
          /\ UNCHANGED running
  /\ firing' = t
  /\ since' = "nothing"
  /\ lpc' = "callback"
  /\ UNCHANGED <<timeout, wakeAt, signalled, began>>

\* The first timer to expire is taken off the list, and put back if it has
\* repetitions left; the lock is released for its callback.
Serve ==
  LET t == Head(active) IN
  /\ soFar' = [soFar EXCEPT ![t] = @ + 1]
  /\ IF nrRepetitions[t] # Forever /\ soFar[t] + 1 >= nrRepetitions[t]
     THEN /\ running' = [running EXCEPT ![t] = FALSE]
          /\ active' = Tail(active)
          /\ UNCHANGED end
     ELSE /\ end' = [end EXCEPT ![t] = end[t] + duration[t]]
          /\ active' = Insert(Tail(active), t, end')
          /\ UNCHANGED running
  /\ firing' = t
  /\ since' = "nothing"
  /\ lpc' = "callback"
  /\ UNCHANGED <<timeout, wakeAt, signalled, began>>

\* The top of the loop: SuspendTimerTask until the end of the first timer, or
\* fmDelayUntil of the next period; the thread exits when the task is deleted
\* (a periodic one that reads task->initialized before it releases the lock, as
\* here, does so a period later than one that reads it after, at the most).
Suspend(isInitialized, next) ==
  /\ IF isInitialized
     THEN /\ lpc' = "wait"
          /\ IF mode = EventDriven
             THEN /\ timeout' = First(active)
                  /\ wakeAt' = IF active = << >> THEN 0 ELSE end[Head(active)]
             ELSE wakeAt' = next /\ UNCHANGED timeout
          /\ signalled' = FALSE
     ELSE lpc' = "exited" /\ UNCHANGED <<timeout, wakeAt, signalled>>
  /\ curTime' = 0
  /\ firing' = NoTimer
  /\ since' = "nothing"
  /\ UNCHANGED <<active, running, end, soFar, began>>

Initialize == /\ lpc = "init"
              /\ initialized' = TRUE
              /\ Suspend(TRUE, wakeAt)
              /\ UNCHANGED <<mode, now, sem, exists, duration, nrRepetitions, cpc, dpc>>

\* Mutant: whoever is woken serves the first timer, due or not.
ProcessUndue(time) ==
  IF active # << >>
  THEN Serve /\ curTime' = time
  ELSE Suspend(initialized, time + Period)

\* Serve the timers that end by the time given, then sleep again.
Process(time) ==
  IF active # << >> /\ time >= end[Head(active)]
  THEN Serve /\ curTime' = time
  ELSE Suspend(initialized, time + Period)

\* pthread_cond_wait or pthread_cond_timedwait returns: the deadline has passed,
\* the condition was signalled, or neither, as POSIX allows.  A timeout that was
\* NULL or has not expired only leads to the new one.  The end of a timer freed
\* meanwhile reads as anything.
Awake(mayWake) ==
  /\ lpc = "wait" /\ mode = EventDriven
  /\ mayWake
  /\ \/ /\ timeout # NoTimer
        /\ timeout \in exists => now >= end[timeout]
        /\ Process(now)
     \/ /\ timeout \in exists => now < end[timeout]
        /\ Suspend(initialized, 0)
  /\ UNCHANGED <<mode, now, initialized, sem, exists, duration, nrRepetitions, cpc, dpc>>

WakeUp           == Awake(signalled \/ (timeout # NoTimer /\ now >= wakeAt))
WakeUnsignalled  == Awake(~signalled)

\* PeriodicTimerLoop: fmDelayUntil returns.
PeriodElapsed ==
  /\ lpc = "wait" /\ mode = Periodic
  /\ now >= wakeAt
  /\ Process(wakeAt)
  /\ UNCHANGED <<mode, now, initialized, sem, exists, duration, nrRepetitions, cpc, dpc>>

\* The callback runs without the lock.
Callback ==
  /\ lpc = "callback"
  /\ lpc' = "relock"
  /\ UNCHANGED <<mode, now, taskVars, timeout, wakeAt, signalled, curTime, firing, since,
                 exists, fieldVars, cpc, dpc>>

Continue ==
  /\ lpc = "relock"
  /\ Process(curTime)
  /\ UNCHANGED <<mode, now, initialized, sem, exists, duration, nrRepetitions, cpc, dpc>>
-----------------------------------------------------------------------------
(* fmDeleteTimerTask, called once the clients are done with the task *)

Cleanup ==
  /\ dpc = "none" /\ LockFree
  /\ \A t \in Timers : cpc[t] = "idle"
  /\ active' = Sublist(active, {i \in 1..Len(active) : active[i] \notin exists \/ ~running[active[i]]})
  /\ initialized' = FALSE
  /\ dpc' = "wake"
  /\ UNCHANGED <<mode, now, sem, threadVars, signalled, since, exists, fieldVars, cpc>>

WakeToExit == /\ dpc = "wake"
              /\ WakeupIf(TRUE)
              /\ dpc' = "join"
              /\ UNCHANGED <<mode, now, taskVars, threadVars, since, exists, fieldVars, cpc>>

\* fmWaitThreadExit, then the resources of the task go.
Join == /\ dpc = "join"
        /\ lpc = "exited"
        /\ dpc' = "deleted"
        /\ UNCHANGED <<mode, now, taskVars, threadVars, signalled, since, exists, fieldVars, cpc>>
-----------------------------------------------------------------------------
ClientStep(t) == \/ StopTimer(t) \/ CheckInitialized(t) \/ WaitSem(t)
                 \/ StartTimer(t) \/ UnlinkTimer(t) \/ FreeTimer(t)

ThreadStep == \/ SignalInit \/ Initialize \/ WakeUp \/ PeriodElapsed
              \/ Callback \/ Continue

DeleteTaskStep == WakeToExit \/ Join

Next == \/ Tick
        \/ \E t \in Timers : \/ CreateTimer(t) \/ CallStart(t) \/ CallStop(t)
                             \/ CallDelete(t) \/ ClientStep(t)
        \/ ThreadStep \/ WakeUnsignalled
        \/ Cleanup \/ DeleteTaskStep

\* The timer thread runs.  Nobody has to call the API, or to go on with a call.
Fairness == WF_vars(ThreadStep)

Spec == Init /\ [][Next]_vars /\ Fairness
-----------------------------------------------------------------------------
InUse == dpc = "none"

\* The list of active timers holds exactly the running timers, once each, in
\* the order they end, and none that has used up its repetitions: the loops
\* serve only the head, and StopTimer gives up on a timer it does not find.
ActiveListCoherent ==
  InUse =>
    /\ \A i, j \in 1..Len(active) : i < j => /\ active[i] # active[j]
                                            /\ end[active[i]] <= end[active[j]]
    /\ \A t \in Timers :
         /\ running[t] <=> \E i \in 1..Len(active) : active[i] = t
         /\ running[t] => t \in exists /\ (\/ nrRepetitions[t] = Forever
                                         \/ soFar[t] < nrRepetitions[t])

\* An event-driven task does not sleep past the end of its first timer:
\* whoever changes the head of the list while it sleeps signals it.
NoOversleep ==
  InUse /\ mode = EventDriven /\ lpc = "wait" /\ active # << >> /\ ~signalled =>
    timeout # NoTimer /\ wakeAt <= end[Head(active)]

\* Repetitions are counted from the start, not from when they were served: a
\* timer thread that is late does not make a periodic timer drift.
NoDrift ==
  \A t \in Timers :
    InUse /\ running[t] => end[t] = began[t] + (soFar[t] + 1) * duration[t]

\* A timer whose time has come is served, or stopped: no wakeup is missed, and
\* a timer due in the meantime is not overlooked.  A periodic task is at most a
\* period late.
Lateness == IF mode = Periodic THEN Period ELSE 0
Due(t) == running[t] /\ end[t] + Lateness <= now
ServedWhenDue == \A t \in Timers : (Due(t) /\ InUse) ~> (~Due(t) \/ ~InUse)

\* The alarms that the timers are, by their fields, and the callback that the
\* loop is about to call.
Left(t) == IF nrRepetitions[t] = Forever THEN Forever ELSE nrRepetitions[t] - soFar[t]
Alarm(t) == IF InUse /\ running[t]
            THEN [due |-> end[t], every |-> duration[t], left |-> Left(t)]
            ELSE [due |-> 0, every |-> 0, left |-> 0]
alarms  == [t \in Timers |-> Alarm(t)]
ringing == IF lpc = "callback" THEN firing ELSE NoTimer

Clock == INSTANCE AlarmClock WITH time <- now, alarm <- alarms

\* Both loops ring one timer at a time, due and the earliest of all that are set,
\* as often as was asked for, though they look only at the head of a list that
\* clients change whenever the lock is free and go by a time that was read before
\* the last callback.
ImplementsAlarmClock == Clock!ACSpec

\* "timerCallback is the callback function invoked at the end of each
\* repetition" (fmStartTimer).  The callback, read from the timer after the
\* lock is released, is neither that of a start whose first repetition has just
\* begun nor read from a timer deleted meanwhile.
CallbackAtEndOfRepetition == lpc = "callback" => since \notin {"restarted", "freed"}
=============================================================================
