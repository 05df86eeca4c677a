---------------------------- MODULE MCTimerTask -----------------------------
(* The modes and the numbers of repetitions for the model checking of       *)
(* TimerTask.                                                               *)
EXTENDS TimerTask

BothModes       == {EventDriven, Periodic}
EventDrivenOnly == {EventDriven}
Twice           == {2}
=============================================================================
