\* EINT0, routable to FIQ, and UART 2 with two of its sub-sources; no resets.
CONSTANTS
  Irq = {0, 15}
  SubIrq = {6, 7}
  GuestRegs = {"SRCPND", "INTMOD", "INTMSK", "INTPND", "SUBSRCPND", "INTSUBMSK"}
  FiqSets <- McFiqSets
  Priorities = {}
  Resets = {}
SPECIFICATION Spec
INVARIANTS TypeOK OffsetNamesPending NoLostInterrupt HeldLevelIsLatched SubLevelReachesParent
PROPERTY GrantIsEligible
