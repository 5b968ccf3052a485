\* Three timers armed, moved and removed between passes and from callbacks.
CONSTANTS
  Timer = {lcd, pwm, wdt}
  NoTimer = none
  Delays <- McDelays
  MaxTime = 2
SPECIFICATION FairSpec
INVARIANTS TypeOK AlarmSeesDue
PROPERTIES QueueSpec DueTimersFire
