\* Ticks and alarms with passes up to a unit late and a clock that moves while
\* callbacks run.
CONSTANTS
  Second = 4
  Interval = {3}
  Field = {"SEC", "MIN"}
  Calendar <- McCalendar
  Value = {0, 1}
  Late = 1
  Lag = 1
  MaxTime = 14
SPECIFICATION RtcSpec
INVARIANTS TimersArmed AlarmRings TicksKeepTime
PROPERTY OneRingPerSecond
