----------------------------- MODULE FlashArray -----------------------------
(***************************************************************************)
(* What the flash memory promises: its contents change only by the write   *)
(* cycle that completes a program or an erase command, all of whose unlock *)
(* cycles came right before it, no read or reset among them.  How flash.c  *)
(* keeps track of the commands is in Flash.                                *)
(***************************************************************************)
EXTENDS FlashBus

VARIABLES
  data,
  recent

arrayVars == <<data, recent>>

ProgramUnlocked == recent[3] = "unlock1" /\ recent[4] = "unlock2" /\ recent[5] = "program"
EraseUnlocked ==
  /\ recent[1] = "unlock1" /\ recent[2] = "unlock2" /\ recent[3] = "erase"
  /\ recent[4] = "unlock1" /\ recent[5] = "unlock2"

ArrayInit == data \in Contents /\ recent = None

\* Programming clears bits of one halfword.
ProgramCycle ==
  /\ ProgramUnlocked
  /\ \E a \in Addr : \E v \in SUBSET data[a] : data' = [data EXCEPT ![a] = v]

EraseCycle ==
  /\ EraseUnlocked
  /\ \E a \in Addr : \E area \in Areas(a) : data' = Erased(data, area)

WriteCycle ==
  /\ \E k \in Kinds : recent' = Shift(recent, k)
  /\ UNCHANGED data \/ ProgramCycle \/ EraseCycle

Interrupt == recent' = None /\ UNCHANGED data

ArraySpec == ArrayInit /\ [][WriteCycle \/ Interrupt]_arrayVars
=============================================================================
