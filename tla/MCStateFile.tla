---------------------------- MODULE MCStateFile -----------------------------
(***************************************************************************)
(* The instance of StateFile for TLC: the flash's name, a register of the  *)
(* processor, SRCPND with what is held of it, a cell that every start      *)
(* sets, and a register of the SPI.                                        *)
(***************************************************************************)
EXTENDS StateFile

McLayout == <<"flash", "arm", "SRCPND", "halted", "spi">>
McHeld == [k \in {"SRCPND"} |-> "src_pending"]
McReset == [c \in Cell |-> 0]
=============================================================================
