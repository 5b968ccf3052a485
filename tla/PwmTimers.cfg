\* Two timers, every register, changes of PCLK, resets and restarts.
CONSTANTS
  Chan = {0, 4}
  MaxCount = 1
  WordSize = 4
  ClockRate = 1
  Pclks = {1, 2}
  StartPclk = 2
  Tcons <- McTcons
  Tcfgs <- McTcfgs
  ResetTcfg <- Fast
  MaxLate = 1
SPECIFICATION FairPwm
INVARIANTS PwmTypeOK StoppedIsOff StartedRuns
PROPERTY PeriodicFires
