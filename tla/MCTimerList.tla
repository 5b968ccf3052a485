---------------------------- MODULE MCTimerList -----------------------------
(***************************************************************************)
(* Instances of TimerList for TLC.                                         *)
(***************************************************************************)
EXTENDS TimerList

\* A deadline may have passed by the time it is set, may be the very moment,
\* or lie ahead.
McDelays == {-1, 0, 1}
=============================================================================
