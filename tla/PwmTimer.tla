------------------------------ MODULE PwmTimer ------------------------------
(***************************************************************************)
(* The PWM timers of s3c2410_timer.c.  They count in PCLKs, their          *)
(* deadlines are in units of the clock, and the PCLK by which the one is   *)
(* made into the other is that of the moment.  Time is relative: left[i]   *)
(* is what the deadline of a pending timer is ahead of the clock, below 0  *)
(* if the pass over the VIRTUAL list comes late.  The compare registers    *)
(* have no effect and are left out.                                        *)
(***************************************************************************)
EXTENDS Integers

CONSTANTS
  Chan,      \* Timers in use, of 0..4.
  MaxCount,  \* Bound on what the guest writes to TCNTB, 65535 in the chip.
  WordSize,  \* 2^32: TCNTO is what fits a word.
  ClockRate, \* Units of the clock in a second, a million.
  Pclks,     \* The frequencies the clock registers make of PCLK.
  StartPclk, \* The PCLK of a program that has just started.
  Tcons,     \* What the guest writes to TCON.
  Tcfgs,     \* What TCFG0 and TCFG1 may hold: the intervals they make.
  ResetTcfg, \* The intervals of TCFG0 = TCFG1 = 0.
  MaxLate    \* Bound on the delay of an expired timer.

VARIABLES
  pwm,       \* s3c2410_timer_t, and x49gp->PCLK.
  spent,     \* History: timers that ran out without reload, and whose start
             \*   bit the guest has not written as 0 since;
  scaled     \*   timers that were running when PCLK changed, and did not
             \*   count anew from TCNTB since.

pwmVars == <<pwm, spent, scaled>>

ASSUME PwmAssumption ==
  /\ MaxCount \in Nat /\ MaxLate \in Nat
  /\ WordSize \in Nat /\ MaxCount < WordSize
  /\ ClockRate \in Nat \ {0} /\ Pclks \subseteq Nat \ {0} /\ StartPclk \in Pclks
  /\ Tcons \subseteq [start : SUBSET Chan, reload : SUBSET Chan, update : SUBSET Chan]
  /\ Tcfgs \subseteq [Chan -> Nat \ {0}] /\ ResetTcfg \in [Chan -> Nat \ {0}]

\* What count intervals take by the clock, and how many of them what is left
\* makes.
Period(count, interval, pclk) == (ClockRate * count * interval) \div pclk
Count(left, interval, pclk) == ((left * pclk) \div (ClockRate * interval)) % WordSize

\* TCON is the set of timers with each of its three bits; prev is the start
\* bits of prev_tcon, of which no others are looked at.
PwmState ==
  [start : SUBSET Chan, reload : SUBSET Chan, update : SUBSET Chan,
   prev : SUBSET Chan, tcntb : [Chan -> 0..MaxCount],
   tcnt : [Chan -> 0..(WordSize - 1)], interval : [Chan -> Nat \ {0}],
   pending : SUBSET Chan, left : [Chan -> Int], pclk : Pclks]

\* x49gp_mod_timer to a deadline count intervals ahead.
Ahead(s, i, count) == Period(count, s.interval[i], s.pclk)

ResetRegs(s) ==
  [s EXCEPT !.start = {}, !.reload = {}, !.update = {},
            !.tcntb = [i \in Chan |-> 0], !.tcnt = [i \in Chan |-> 0],
            !.interval = ResetTcfg]

\* Variation: timers that run keep the deadline of the old interval.
UpdateTcfgLazy(s) == s

\* s3c2410_update_tcfg: a running timer starts over from tcnt, which is the
\* count it began with unless TCNTO was read meanwhile.
UpdateTcfg(s) ==
  [s EXCEPT !.left = [i \in Chan |-> IF i \in s.pending THEN Ahead(s, i, s.tcnt[i])
                                     ELSE @[i]]]

\* Variation: only rising edges count.
UpdateTconRising(s) ==
  LET count == [i \in Chan |-> IF i \in s.update THEN s.tcntb[i] ELSE s.tcnt[i]]
      started == s.start \ s.prev
  IN [s EXCEPT !.prev = s.start, !.tcnt = count, !.pending = @ \cup started,
               !.left = [i \in Chan |-> IF i \in started THEN Ahead(s, i, count[i])
                                        ELSE @[i]]]

\* s3c2410_update_tcon: timers start and stop at the edges of their bits.
UpdateTcon(s) ==
  LET count == [i \in Chan |-> IF i \in s.update THEN s.tcntb[i] ELSE s.tcnt[i]]
      started == s.start \ s.prev
      stopped == s.prev \ s.start
  IN [s EXCEPT !.prev = s.start, !.tcnt = count,
               !.pending = (@ \cup started) \ stopped,
               !.left = [i \in Chan |-> IF i \in started THEN Ahead(s, i, count[i])
                                        ELSE IF i \in stopped THEN 0 ELSE @[i]]]

PwmInit ==
  /\ pwm = [start |-> {}, reload |-> {}, update |-> {}, prev |-> {},
            tcntb |-> [i \in Chan |-> 0], tcnt |-> [i \in Chan |-> 0],
            interval |-> ResetTcfg, pending |-> {}, left |-> [i \in Chan |-> 0],
            pclk |-> StartPclk]
  /\ spent = {} /\ scaled = {}

(***************************************************************************)
(* s3c2410_timer_timeout, in the order of the deadlines.  The timer is off *)
(* the list when it is called.  Every expiry asserts the timer's line of   *)
(* the controller (Assert of Intc), with no effect here.                   *)
(***************************************************************************)
OffList(s, i) == [s EXCEPT !.pending = @ \ {i}, !.left[i] = 0]

\* Variation: with reload the count starts over, the timer does not.
TimeoutOnce(s, i) ==
  IF i \in s.reload THEN [OffList(s, i) EXCEPT !.tcnt[i] = s.tcntb[i]]
  ELSE [OffList(s, i) EXCEPT !.start = @ \ {i}]

Timeout(s, i) ==
  IF i \in s.reload
  THEN [s EXCEPT !.tcnt[i] = s.tcntb[i], !.left[i] = Ahead(s, i, s.tcntb[i])]
  ELSE [OffList(s, i) EXCEPT !.start = @ \ {i}]

Expire(i) ==
  /\ i \in pwm.pending /\ pwm.left[i] <= 0
  /\ \A j \in pwm.pending : pwm.left[i] <= pwm.left[j]
  /\ pwm' = Timeout(pwm, i)
  /\ IF i \in pwm.reload THEN scaled' = scaled \ {i} /\ UNCHANGED spent
     ELSE spent' = spent \cup {i} /\ UNCHANGED scaled

ExpireFirst == \E i \in Chan : Expire(i)

Tick ==
  /\ \A i \in pwm.pending : pwm.left[i] > -MaxLate
  /\ pwm' = [pwm EXCEPT !.left = [i \in Chan |-> IF i \in pwm.pending THEN @[i] - 1
                                                 ELSE @[i]]]
  /\ UNCHANGED <<spent, scaled>>

(***************************************************************************)
(* The guest.                                                              *)
(***************************************************************************)
WriteTCON ==
  \E c \in Tcons :
    /\ pwm' = UpdateTcon([pwm EXCEPT !.start = c.start, !.reload = c.reload,
                                     !.update = c.update])
    /\ spent' = spent \cap c.start
    /\ scaled' = {i \in scaled : i \in c.update => i \in c.start \cap pwm.prev}

WriteTCFG ==
  /\ \E f \in Tcfgs : pwm' = UpdateTcfg([pwm EXCEPT !.interval = f])
  /\ UNCHANGED <<spent, scaled>>

WriteTCNTB ==
  /\ \E i \in Chan, n \in 0..MaxCount : pwm' = [pwm EXCEPT !.tcntb[i] = n]
  /\ UNCHANGED <<spent, scaled>>

\* s3c2410_read_tcnt: the remaining count by the PCLK of now is kept.
ReadTCNTO ==
  /\ \E i \in pwm.pending :
       /\ i \in pwm.start /\ pwm.left[i] > 0
       /\ pwm' = [pwm EXCEPT !.tcnt[i] = Count(pwm.left[i], pwm.interval[i], pwm.pclk)]
  /\ UNCHANGED <<spent, scaled>>

\* s3c2410_power_write to a register of the clock: the timers are not told.
WriteClock ==
  /\ \E p \in Pclks :
       /\ pwm' = [pwm EXCEPT !.pclk = p]
       /\ scaled' = IF p = pwm.pclk THEN scaled ELSE scaled \cup pwm.pending
  /\ UNCHANGED spent

\* s3c2410_power_reset gives the clock registers new values, not PCLK.
PwmReset ==
  /\ pwm' = UpdateTcfg(UpdateTcon(ResetRegs(pwm)))
  /\ spent' = {} /\ scaled' = {}

\* Variation: the start bits of the file count as seen.
PwmRestartSeen ==
  /\ pwm' = UpdateTcfg(UpdateTcon([pwm EXCEPT !.prev = pwm.start, !.pending = {},
                                              !.left = [i \in Chan |-> 0],
                                              !.pclk = StartPclk]))
  /\ spent' = {} /\ UNCHANGED scaled

\* s3c2410_timer_save, and s3c2410_timer_load in a new process: no timer is
\* on a list and no start bit has been seen yet.  PCLK is that of main() still:
\* s3c2410_power_load gives s3c2410_power_write an address for an offset, which
\* is out of its range.
PwmRestart ==
  /\ pwm' = UpdateTcfg(UpdateTcon([pwm EXCEPT !.prev = {}, !.pending = {},
                                              !.left = [i \in Chan |-> 0],
                                              !.pclk = StartPclk]))
  /\ spent' = {} /\ UNCHANGED scaled

PwmNext ==
  \/ ExpireFirst \/ Tick
  \/ WriteTCON \/ WriteTCFG \/ WriteTCNTB \/ ReadTCNTO \/ WriteClock
  \/ PwmReset \/ PwmRestart

PwmSpec == PwmInit /\ [][PwmNext]_pwmVars

\* The clock runs, and the loop runs the expired timers of its list.
FairPwm == PwmSpec /\ WF_pwmVars(Tick) /\ WF_pwmVars(ExpireFirst)

-----------------------------------------------------------------------------
(***************************************************************************)
(* Properties.                                                             *)
(***************************************************************************)
\* The registers and the history.
PwmTypes == pwm \in PwmState /\ spent \subseteq Chan /\ scaled \subseteq Chan

\* A timer the guest has stopped, that ran out, or that a reset caught, is on
\* no list: it never interrupts.
StoppedIsOff == pwm.pending \subseteq pwm.start

\* A timer whose start bit is set runs, after resets and restarts too, but for
\* one that ran out and was set again without a 0 in between: its bit then is
\* no edge to s3c2410_update_tcon.
StartedRuns == pwm.start \ spent \subseteq pwm.pending

\* What TCNTO reads is no more than TCNTB may hold, through expiries, reads,
\* changes of TCFG, resets and restarts: only a timer that was running when
\* PCLK changed has a deadline that may make more of it.
CountFits ==
  \A i \in Chan \ scaled :
    /\ pwm.tcnt[i] <= MaxCount
    /\ i \in pwm.pending => pwm.left[i] <= Ahead(pwm, i, MaxCount)
PwmTypeOK == PwmTypes /\ CountFits

\* A timer that stays started with reload interrupts again and again, unless
\* writes to TCFG or restarts set its deadline for ever anew.
DeadlineKept(i) == pwm'.left[i] \in {pwm.left[i], pwm.left[i] - 1} \/ Expire(i)
PeriodicFires ==
  \A i \in Chan :
    <>[](i \in (pwm.start \cap pwm.reload) \ spent) /\ <>[][DeadlineKept(i)]_pwmVars
      => []<><<Expire(i)>>_pwmVars
=============================================================================
