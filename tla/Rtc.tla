-------------------------------- MODULE Rtc ---------------------------------
(***************************************************************************)
(* The real-time clock of s3c2410_rtc.c: its tick and its alarm, each a    *)
(* timer on the REALTIME list of timer.c.  gettimeofday and x49gp_get_clock *)
(* are the same host clock, read one after the other.                      *)
(***************************************************************************)
EXTENDS Integers

CONSTANTS
  Second,     \* Units of the clock to a second.
  Interval,   \* The tick intervals of the values of TICNT the guest writes.
  Field,      \* The fields of the time an alarm may compare.
  Calendar,   \* Calendar[f][s]: what localtime has in f in second s.
  Value,      \* What the guest writes to the alarm registers.
  Late,       \* Bound: how far behind a deadline a pass over the list runs.
  Lag,        \* Bound: how far the clock moves while a callback runs.
  MaxTime     \* Bound on the clock.

VARIABLES
  now,
  rtc,        \* The registers; TICNT is its interval, or 0 if not enabled.
  expires,    \* The phase of the tick.
  timers,     \* The deadlines of tick_timer and alarm_timer, or NoTimer.
  begun,      \* History: when the tick was programmed,
  ticks,      \*   how often it came since,
  settled,    \*   the last change to the registers of the alarm,
  rung        \*   and the last second INT_RTC was asserted in, or -1.

rtcVars == <<now, rtc, expires, timers, begun, ticks, settled, rung>>

NoTimer == -1
SecondOf(t) == t \div Second
Seconds == 0..SecondOf(MaxTime)

ASSUME RtcAssumption ==
  /\ Second \in Nat \ {0} /\ MaxTime \in Nat
  /\ Interval \subseteq Nat \ {0}
  /\ Calendar \in [Field -> [Seconds -> Value]]
  /\ Late \in Nat /\ Lag \in Nat

\* The loop is timely enough for every deadline to be seen before the next.
ASSUME TimelyAssumption ==
  /\ Late + Lag < Second
  /\ \A i \in Interval : Late + Lag < i

Registers ==
  [ticnt : Interval \cup {0}, rtcalm : [on : BOOLEAN, compare : SUBSET Field],
   alarm : [Field -> Value]]

ResetAlarm(r) ==
  [r EXCEPT !.rtcalm = [on |-> FALSE, compare |-> {}],
            !.alarm = [f \in Field |-> CHOOSE v \in Value : TRUE]]

\* No timer is kept waiting longer than Late.
Timely(t) ==
  /\ t <= MaxTime
  /\ \A k \in DOMAIN timers : timers[k] # NoTimer => t <= timers[k] + Late

\* The clock moves on while the code runs; the other timer k is no exception.
Meanwhile(k) ==
  /\ now' \in now..now + Lag /\ now' <= MaxTime
  /\ timers[k] # NoTimer => now' <= timers[k] + Late

ClockAdvances ==
  /\ now' = now + 1 /\ Timely(now')
  /\ UNCHANGED <<rtc, expires, timers, begun, ticks, settled, rung>>

(***************************************************************************)
(* The tick.                                                               *)
(***************************************************************************)
\* Variation: the interval counts from when the pass came.
NextTickDrifts(t) == t + rtc.ticnt

\* The loop of s3c2410_rtc_timeout: the next deadline on the old phase.
NextTick(t) == expires + ((t - expires) \div rtc.ticnt + 1) * rtc.ticnt

\* s3c2410_rtc_timeout
TickTimeout ==
  /\ timers.tick # NoTimer /\ timers.tick <= now
  /\ IF rtc.ticnt = 0
     THEN timers' = [timers EXCEPT !.tick = NoTimer] /\ UNCHANGED <<now, expires, ticks>>
     ELSE /\ ticks' = ticks + 1
          /\ Meanwhile("alarm")
          /\ expires' = NextTick(now')
          /\ timers' = [timers EXCEPT !.tick = expires']
  /\ UNCHANGED <<rtc, begun, settled, rung>>

\* s3c2410_rtc_set_ticnt, at time t.
SetTicnt(ticnt, t) ==
  /\ expires' = (IF ticnt = 0 THEN expires ELSE t + ticnt)
  /\ begun' = t /\ ticks' = 0

TickTimer(ticnt, t) == IF ticnt = 0 THEN NoTimer ELSE t + ticnt

WriteTICNT ==
  \E i \in Interval \cup {0} :
    /\ rtc' = [rtc EXCEPT !.ticnt = i]
    /\ SetTicnt(i, now)
    /\ timers' = [timers EXCEPT !.tick = TickTimer(i, now)]
    /\ UNCHANGED <<now, settled, rung>>

(***************************************************************************)
(* The alarm.                                                              *)
(***************************************************************************)
Matches(r, s) == \A f \in r.rtcalm.compare : Calendar[f][s] = r.alarm[f]

\* Variations: a whole second from now; the next look at the clock.
NextAlarmWhole(t, u) == u + Second
NextAlarmSoon(t, u) == u + 1

\* The time to the next second at t, from when the clock is read again.
NextAlarm(t, u) == u + Second - (t % Second)

\* s3c2410_rtc_alarm
AlarmTimeout ==
  /\ timers.alarm # NoTimer /\ timers.alarm <= now
  /\ IF ~rtc.rtcalm.on
     THEN timers' = [timers EXCEPT !.alarm = NoTimer] /\ UNCHANGED <<now, rung>>
     ELSE /\ rung' = (IF Matches(rtc, SecondOf(now)) THEN SecondOf(now) ELSE rung)
          /\ Meanwhile("tick")
          /\ timers' = [timers EXCEPT !.alarm = NextAlarm(now, now')]
  /\ UNCHANGED <<rtc, expires, begun, ticks, settled>>

\* Variation: the alarm is armed whether it is on or not.
AlarmTimerAlways(r, t, u) == NextAlarm(t, u)

\* s3c2410_rtc_set_rtcalm
AlarmTimer(r, t, u) == IF r.rtcalm.on THEN NextAlarm(t, u) ELSE NoTimer

WriteRTCALM ==
  \E on \in BOOLEAN, c \in SUBSET Field :
    /\ rtc' = [rtc EXCEPT !.rtcalm = [on |-> on, compare |-> c]]
    /\ Meanwhile("tick")
    /\ timers' = [timers EXCEPT !.alarm = AlarmTimer(rtc', now, now')]
    /\ settled' = now
    /\ UNCHANGED <<expires, begun, ticks, rung>>

\* ALMSEC to ALMYEAR: the timer is left as it is.
WriteAlarm ==
  \E f \in Field, v \in Value :
    /\ rtc' = [rtc EXCEPT !.alarm[f] = v]
    /\ settled' = now
    /\ UNCHANGED <<now, expires, timers, begun, ticks, rung>>

(***************************************************************************)
(* s3c2410_rtc_reset ends before RTCALM: the alarm outlives every reset.   *)
(***************************************************************************)
RtcReset ==
  /\ rtc' = [rtc EXCEPT !.ticnt = 0]
  /\ SetTicnt(0, now)
  /\ timers' = [timers EXCEPT !.tick = NoTimer]
  /\ UNCHANGED <<now, settled, rung>>

\* s3c2410_rtc_load in a new process, some time later; if a register is missing
\* from the state file, one of the RTC's or of another module, a reset follows.
RtcRestart(complete) ==
  /\ now' \in now + 1..MaxTime
  /\ rtc' \in IF complete THEN {rtc}
              ELSE {[r EXCEPT !.ticnt = 0] : r \in {rtc, ResetAlarm(rtc)}}
  /\ SetTicnt(rtc'.ticnt, now')
  /\ timers' = [tick |-> TickTimer(rtc'.ticnt, now'), alarm |-> AlarmTimer(rtc', now', now')]
  /\ settled' = now'
  /\ UNCHANGED rung

RtcInit ==
  /\ now = 0
  /\ \E r \in Registers : rtc = [ResetAlarm(r) EXCEPT !.ticnt = 0]
  /\ expires = 0 /\ timers = [tick |-> NoTimer, alarm |-> NoTimer]
  /\ begun = 0 /\ ticks = 0 /\ settled = 0 /\ rung = -1

RtcNext ==
  \/ ClockAdvances \/ TickTimeout \/ AlarmTimeout
  \/ WriteTICNT \/ WriteRTCALM \/ WriteAlarm
  \/ RtcReset \/ \E complete \in BOOLEAN : RtcRestart(complete)

RtcSpec == RtcInit /\ [][RtcNext]_rtcVars

-----------------------------------------------------------------------------
(***************************************************************************)
(* Properties.                                                             *)
(***************************************************************************)
RtcTypeOK ==
  /\ now \in 0..MaxTime /\ rtc \in Registers
  /\ expires \in Nat /\ begun \in Nat /\ ticks \in Nat /\ settled \in Nat
  /\ timers \in [tick : Nat \cup {NoTimer}, alarm : Nat \cup {NoTimer}]
  /\ rung \in Nat \cup {-1}

\* An alarm or a tick that is switched on has its timer, one that is not has
\* none, and the timer is due within its period: neither is ever dead while
\* the guest believes it armed.
TimersArmed ==
  /\ RtcTypeOK
  /\ rtc.rtcalm.on <=> timers.alarm # NoTimer
  /\ rtc.ticnt # 0 <=> timers.tick # NoTimer
  /\ timers.alarm <= now + Second /\ timers.tick <= now + rtc.ticnt

\* A second that matches the alarm does not end without the interrupt, if it
\* began after the guest last touched the alarm's registers, however late the
\* passes over the timers run within their bounds.
AlarmRings ==
  LET last == SecondOf(now) - 1
  IN /\ rtc.rtcalm.on /\ last * Second > settled
     /\ Matches(rtc, last)
     => rung >= last

\* The guest counts the ticks to keep time: since it set TICNT there was one
\* for every interval that is over, but for the last if its pass is still to
\* come; late passes do not add up.
TicksKeepTime ==
  rtc.ticnt # 0 =>
    LET due == (now - begun) \div rtc.ticnt IN ticks \in {due - 1, due}

\* One second rings at most once, though the alarm is set again within it.
OneRingPerSecond ==
  [][AlarmTimeout /\ rtc.rtcalm.on /\ Matches(rtc, SecondOf(now))
       => SecondOf(now) > rung]_rtcVars
=============================================================================
