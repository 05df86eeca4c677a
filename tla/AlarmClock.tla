----------------------------- MODULE AlarmClock -----------------------------
(***************************************************************************)
(* What the timers of src/alos/linux/fm_alos_time.c promise their callers: *)
(* alarms that ring the number of times asked for, one at a time and the   *)
(* earliest first, none before it is due, until they are stopped.          *)
(***************************************************************************)
EXTENDS Integers

CONSTANTS Timers, NoTimer, Timeouts, Repetitions, Forever

VARIABLES time,
          alarm,   \* when each timer is due, how often, how many times still
          ringing  \* the timer whose callback is to be called

Off == [due |-> 0, every |-> 0, left |-> 0]
IsSet(t) == alarm[t].left # 0

ACInit == /\ time = 0
          /\ alarm = [t \in Timers |-> Off]
          /\ ringing = NoTimer

Pass == time' = time + 1 /\ UNCHANGED <<alarm, ringing>>

Set(t) == /\ ~IsSet(t) /\ IsSet(t)'
          /\ \E d \in Timeouts, n \in Repetitions :
               alarm' = [alarm EXCEPT ![t] = [due |-> time + d, every |-> d, left |-> n]]
          /\ UNCHANGED <<time, ringing>>

Unset(t) == /\ IsSet(t) /\ ~IsSet(t)'
            /\ alarm' = [alarm EXCEPT ![t] = Off]
            /\ UNCHANGED <<time, ringing>>

UnsetAll == /\ alarm' = [t \in Timers |-> Off]
            /\ UNCHANGED <<time, ringing>>

\* The alarm of one repetition after another, until there is none left.
Again(a) == IF a.left = 1 THEN Off
            ELSE [due |-> a.due + a.every, every |-> a.every,
                  left |-> IF a.left = Forever THEN Forever ELSE a.left - 1]

Ring(t) == /\ ringing = NoTimer /\ ringing' = t
           /\ IsSet(t) /\ alarm[t].due <= time
           /\ \A u \in Timers : IsSet(u) => alarm[t].due <= alarm[u].due
           /\ alarm' = [alarm EXCEPT ![t] = Again(@)]
           /\ UNCHANGED time

Silence == ringing # NoTimer /\ ringing' = NoTimer /\ UNCHANGED <<time, alarm>>

ACNext == \/ Pass \/ Silence
          \/ \E t \in Timers : Ring(t) \/ Set(t) \/ Unset(t)
          \/ UnsetAll

ACSpec == ACInit /\ [][ACNext]_<<time, alarm, ringing>>
=============================================================================
