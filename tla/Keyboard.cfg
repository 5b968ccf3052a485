\* The matrix and ON from cold ports, under watchdog resets and restarts.
CONSTANTS
  Irq = {0, 5}
  SubIrq = {}
  GuestRegs = {"SRCPND", "INTMSK", "INTPND"}
  FiqSets = {}
  Priorities <- McPriorities
  Resets = {"WATCHDOG", "RELOAD"}
  Row = {1, 2}
  Col = {1, 2}
  FLine = {0}
  Keys <- MatrixKeys
  GpgCons <- WaitOrRead
  GpgDats <- AllLow
  GpfCons <- Inputs
  GpfDats <- AllLow
  ExtInt0s <- Low
  ExtInt1s <- Falling
  StartPorts <- Cold
SPECIFICATION PortSpec
INVARIANTS ScanFindsKeys KeyReachesCore HeldSourceHasLine
PROPERTY OneEdgePerPress
CONSTRAINTS FixedArbitration OnIsPolled OnAlone
