----------------------------- MODULE TimerList ------------------------------
(***************************************************************************)
(* One of the two timer lists of timer.c and the pass over its expired     *)
(* timers.  The list is the sequence of the timers linked into it.  The    *)
(* code that runs between two passes and the callbacks of a pass may arm   *)
(* and remove any timer, the one called included.                          *)
(***************************************************************************)
EXTENDS Integers, Sequences

CONSTANTS
  Timer,
  NoTimer,
  Delays,   \* Deadlines are set this far from the clock; below 0 in the past.
  MaxTime   \* Bound on the clock.

VARIABLES
  list,
  expires,  \* The expires field, also of a timer that is on no list.
  now,
  limit,    \* current_time of x49gp_run_timers, or NoPass.
  calling   \* The timer whose callback runs, or NoTimer.

vars == <<list, expires, now, limit, calling>>

ASSUME TimerAssumption ==
  /\ NoTimer \notin Timer
  /\ Delays \subseteq Int
  /\ MaxTime \in Nat

NoPass == -1

Linked(l) == {l[i] : i \in DOMAIN l}
Ahead(l, t, u) == \E i, j \in DOMAIN l : i < j /\ l[i] = t /\ l[j] = u

(***************************************************************************)
(* x49gp_del_timer                                                         *)
(***************************************************************************)
Unlink(l, t) ==
  IF t \in Linked(l)
  THEN LET k == CHOOSE i \in DOMAIN l : l[i] = t
       IN SubSeq(l, 1, k - 1) \o SubSeq(l, k + 1, Len(l))
  ELSE l

(***************************************************************************)
(* The walk of x49gp_mod_timer: t goes in front of the first timer that    *)
(* expires later.                                                          *)
(***************************************************************************)
\* Variations: in front of the timers with the same deadline; at the end.
InsertFirst(l, exp, t, e) ==
  LET k == CHOOSE i \in 1..(Len(l) + 1) :
             /\ i <= Len(l) => exp[l[i]] >= e
             /\ \A j \in 1..(i - 1) : exp[l[j]] < e
  IN SubSeq(l, 1, k - 1) \o <<t>> \o SubSeq(l, k, Len(l))
InsertLast(l, exp, t, e) == Append(l, t)

Insert(l, exp, t, e) ==
  LET k == CHOOSE i \in 1..(Len(l) + 1) :
             /\ i <= Len(l) => exp[l[i]] > e
             /\ \A j \in 1..(i - 1) : exp[l[j]] <= e
  IN SubSeq(l, 1, k - 1) \o <<t>> \o SubSeq(l, k, Len(l))

Init ==
  /\ list = <<>>
  /\ expires = [t \in Timer |-> 0]
  /\ now = 0
  /\ limit = NoPass
  /\ calling = NoTimer

\* The thread is in the caller of x49gp_run_timers or in a callback.
CallerRuns == limit = NoPass \/ calling # NoTimer

\* Variation: a timer on the list is not taken off it first.
ModLinked ==
  \E t \in Timer, d \in Delays :
    /\ CallerRuns
    /\ list' = Insert(list, expires, t, now + d)
    /\ expires' = [expires EXCEPT ![t] = now + d]
    /\ UNCHANGED <<now, limit, calling>>

\* x49gp_mod_timer
Mod ==
  \E t \in Timer, d \in Delays :
    /\ CallerRuns
    /\ list' = Insert(Unlink(list, t), expires, t, now + d)
    /\ expires' = [expires EXCEPT ![t] = now + d]
    /\ UNCHANGED <<now, limit, calling>>

Del ==
  \E t \in Timer :
    /\ CallerRuns
    /\ list' = Unlink(list, t)
    /\ UNCHANGED <<expires, now, limit, calling>>

(***************************************************************************)
(* x49gp_run_timers                                                        *)
(***************************************************************************)
RunTimers ==
  /\ limit = NoPass
  /\ limit' = now
  /\ UNCHANGED <<list, expires, now, calling>>

\* Variation: the timer called stays on the list.
CallLinked ==
  /\ limit # NoPass /\ calling = NoTimer
  /\ list # <<>> /\ expires[Head(list)] <= limit
  /\ calling' = Head(list)
  /\ UNCHANGED <<list, expires, now, limit>>

Call ==
  /\ limit # NoPass /\ calling = NoTimer
  /\ list # <<>> /\ expires[Head(list)] <= limit
  /\ list' = Tail(list)
  /\ calling' = Head(list)
  /\ UNCHANGED <<expires, now, limit>>

Return ==
  /\ calling # NoTimer
  /\ calling' = NoTimer
  /\ UNCHANGED <<list, expires, now, limit>>

\* Variation: the pass ends without waiting for the callback.
DoneEarly ==
  /\ limit # NoPass
  /\ list # <<>> => expires[Head(list)] > limit
  /\ limit' = NoPass
  /\ UNCHANGED <<list, expires, now, calling>>

Done ==
  /\ limit # NoPass /\ calling = NoTimer
  /\ list # <<>> => expires[Head(list)] > limit
  /\ limit' = NoPass
  /\ UNCHANGED <<list, expires, now, calling>>

\* x49gp_get_clock, taken not to run backwards.
Tick ==
  /\ now < MaxTime
  /\ now' = now + 1
  /\ UNCHANGED <<list, expires, limit, calling>>

Next == Mod \/ Del \/ RunTimers \/ Call \/ Return \/ Done \/ Tick

Spec == Init /\ [][Next]_vars

\* The loop runs its lists again and again, and callbacks return.
FairSpec == Spec /\ WF_vars(RunTimers) /\ WF_vars(Call) /\ WF_vars(Return) /\ WF_vars(Done)

-----------------------------------------------------------------------------
(***************************************************************************)
(* Properties.                                                             *)
(***************************************************************************)
ListTypes ==
  /\ list \in Seq(Timer)
  /\ expires \in [Timer -> Int]
  /\ now \in 0..MaxTime
  /\ limit \in (0..MaxTime) \cup {NoPass} /\ limit <= now
  /\ calling \in Timer \cup {NoTimer}
  /\ calling # NoTimer => limit # NoPass

\* The list never holds a timer twice: the next pointers would form a cycle.
NoCycle == \A i, j \in DOMAIN list : list[i] = list[j] => i = j

\* A callback runs only in a pass, and whatever it and the callers arm and
\* remove, the list is one.
TypeOK == ListTypes /\ NoCycle

Due(t) == t \in Linked(list) /\ expires[t] <= now

\* SIGALRM looks at the head of a list alone (x49gp_timer_expired): if any
\* timer on the list is due, the head is.
AlarmSeesDue ==
  (\E t \in Timer : Due(t)) => expires[Head(list)] <= now

\* The list is in order of the deadlines.
Sorted == \A i, j \in DOMAIN list : i < j => expires[list[i]] <= expires[list[j]]

\* A due timer is called, or whoever armed it takes it back, unless timers
\* are armed for ever at or before the time of the clock: the pass then may
\* never end.
ArmedAhead ==
  \A t \in Linked(list') : t \notin Linked(list) \/ expires'[t] # expires[t]
                             => expires'[t] > now
DueTimersFire == <>[][ArmedAhead]_vars => \A t \in Timer : Due(t) ~> ~Due(t)

(***************************************************************************)
(* The list implements the queue of TimerQueue.                            *)
(***************************************************************************)
deadline == [t \in Linked(list) |-> expires[t]]
before == {p \in Linked(list) \X Linked(list) :
             expires[p[1]] = expires[p[2]] /\ Ahead(list, p[1], p[2])}
Deadline == {n + d : n \in 0..MaxTime, d \in Delays}

Queue == INSTANCE TimerQueue

QueueSpec == Queue!QueueSpec
=============================================================================
