----------------------------- MODULE TimerQueue -----------------------------
(***************************************************************************)
(* What timer.c promises its callers: timers fire in the order of their    *)
(* deadlines, those with the same deadline in the order they were armed,   *)
(* and a pass over the expired timers leaves none that was due when the    *)
(* pass began.  The list that does it is in TimerList.                     *)
(***************************************************************************)
EXTENDS Integers

CONSTANTS
  Timer,
  Deadline

VARIABLES
  deadline,  \* The deadlines of the armed timers.
  before,    \* <<t, u>>: of the same deadline, and t was armed first.
  now,
  limit      \* The time the pass in progress began, or NoPass.

queueVars == <<deadline, before, now, limit>>

NoPass == -1

QueueInit ==
  /\ deadline = [t \in {} |-> 0]
  /\ before = {}
  /\ now = 0
  /\ limit = NoPass

Armed == DOMAIN deadline

Without(t) == {p \in before : t \notin {p[1], p[2]}}

Arm(t, e) ==
  /\ deadline' = [u \in Armed \cup {t} |-> IF u = t THEN e ELSE deadline[u]]
  /\ before' = Without(t) \cup {<<u, t>> : u \in {v \in Armed \ {t} : deadline[v] = e}}
  /\ UNCHANGED <<now, limit>>

Remove(t) ==
  /\ deadline' = [u \in Armed \ {t} |-> deadline[u]]
  /\ before' = Without(t)
  /\ UNCHANGED <<now, limit>>

Fire(t) ==
  /\ t \in Armed
  /\ limit # NoPass /\ deadline[t] <= limit
  /\ \A u \in Armed : deadline[t] <= deadline[u] /\ <<u, t>> \notin before
  /\ Remove(t)

BeginPass == limit = NoPass /\ limit' = now /\ UNCHANGED <<deadline, before, now>>

EndPass ==
  /\ \A t \in Armed : deadline[t] > limit
  /\ limit' = NoPass
  /\ UNCHANGED <<deadline, before, now>>

ClockAdvances == now' > now /\ UNCHANGED <<deadline, before, limit>>

QueueNext ==
  \/ \E t \in Timer, e \in Deadline : Arm(t, e)
  \/ \E t \in Timer : Remove(t) \/ Fire(t)
  \/ BeginPass \/ EndPass \/ ClockAdvances

QueueSpec == QueueInit /\ [][QueueNext]_queueVars
=============================================================================
