------------------------------- MODULE MCRtc --------------------------------
(***************************************************************************)
(* The instance of Rtc for TLC: a minute of two seconds.                   *)
(***************************************************************************)
EXTENDS Rtc

McCalendar ==
  [f \in Field |-> [s \in Seconds |-> IF f = "SEC" THEN s % 2 ELSE (s \div 2) % 2]]
=============================================================================
