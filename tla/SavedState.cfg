\* Saves that are refused, torn or killed, and starts from what they leave.
CONSTANTS
  Layout <- McLayout
  Names = {"flash"}
  Held <- McHeld
  Derived = {"SRCPND", "halted"}
  Kept = {"SRCPND"}
  Val = {0, 1}
  Reset <- McReset
  Memory = {0, 1}
SPECIFICATION StateSpec
INVARIANTS CleanQuitReadsBack OnlySavesLose
PROPERTY OneStateStarts
