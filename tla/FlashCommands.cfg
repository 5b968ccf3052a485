\* Every byte, halfword and word access in any order.
CONSTANTS
  Addr <- McAddr
  Bit = {b}
SPECIFICATION Spec
INVARIANTS CommandsWork TwoResetsReturn
PROPERTY ArraySpec
