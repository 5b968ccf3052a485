----------------------------- MODULE MCPwmTimer -----------------------------
(***************************************************************************)
(* The instance of PwmTimer for TLC: timer 0 with all its bits and its own *)
(* interval, timer 4 reloading whenever it is started.                     *)
(***************************************************************************)
EXTENDS PwmTimer

Fast == [i \in Chan |-> 1]
Slow == [i \in Chan |-> IF i = 0 THEN 2 ELSE 1]
McTcfgs == {Fast, Slow}
McTcons ==
  {c \in [start : SUBSET Chan, reload : SUBSET Chan, update : SUBSET Chan] :
     4 \in c.start <=> 4 \in c.reload}
=============================================================================
