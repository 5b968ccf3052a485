\* ON and the shared port line without FIQ, under every kind of reset.
CONSTANTS
  Irq = {0, 5}
  SubIrq = {}
  GuestRegs = {"SRCPND", "INTMSK", "PRIORITY", "INTPND"}
  FiqSets <- NoFiq
  Priorities <- McPriorities
  Resets = {"WATCHDOG", "RELOAD", "POWER_ON", "POWER_OFF"}
SPECIFICATION Spec
PROPERTIES IrqLineFollowsIntpnd FixedPriority
CONSTRAINT FreshImage
