------------------------------ MODULE FlashBus ------------------------------
(***************************************************************************)
(* Halfword write cycles to the SST29VF160 of flash.c and what its two     *)
(* kinds of command do to the contents.  Of a halfword the low byte is     *)
(* what commands are told by; of its high byte the model keeps some bits,  *)
(* which programming ands and erasing sets like all the others.            *)
(***************************************************************************)
EXTENDS Integers

CONSTANTS
  Addr,  \* The halfword addresses in use, the two unlock addresses among them.
  Bit    \* The bits of a halfword's high byte.

\* offset >> 1 of the unlock cycles: 0x5555 and 0x2aaa.
ADDR1 == 21845
ADDR2 == 10922

ASSUME FlashAssumption ==
  /\ Addr \subseteq 0..1048575
  /\ {ADDR1, ADDR2} \subseteq Addr

\* "00" is any byte that is no command.
LowByte == {"aa", "55", "a0", "80", "90", "98", "f0", "10", "30", "50", "00"}

Cycle == [addr : Addr, low : LowByte, high : SUBSET Bit]

Kinds == {"unlock1", "unlock2", "program", "erase", "id", "cfi", "exit", "reset", "other"}

\* What the comparisons of flash_put_halfword tell apart.
Kind(c) ==
  IF c.addr = ADDR1 /\ c.low = "aa" THEN "unlock1"
  ELSE IF c.addr = ADDR2 /\ c.low = "55" THEN "unlock2"
  ELSE IF c.addr = ADDR1 /\ c.low = "a0" THEN "program"
  ELSE IF c.addr = ADDR1 /\ c.low = "80" THEN "erase"
  ELSE IF c.addr = ADDR1 /\ c.low = "90" THEN "id"
  ELSE IF c.addr = ADDR1 /\ c.low = "98" THEN "cfi"
  ELSE IF c.low = "f0" THEN (IF c.addr = ADDR1 THEN "exit" ELSE "reset")
  ELSE "other"

Contents == [Addr -> SUBSET Bit]

Programmed(data, c) == [data EXCEPT ![c.addr] = @ \cap c.high]

\* SST29VF160_SECTOR_SIZE and SST29VF160_BLOCK_SIZE, in halfwords.
SectorOf(a) == a \div 2048
BlockOf(a) == a \div 32768

\* The three areas an erase command may name at address a.
Areas(a) == {Addr, {x \in Addr : SectorOf(x) = SectorOf(a)},
                   {x \in Addr : BlockOf(x) = BlockOf(a)}}

ErasedBy(c) ==
  {a \in Addr : \/ c.low = "10"
                \/ c.low = "30" /\ SectorOf(a) = SectorOf(c.addr)
                \/ c.low = "50" /\ BlockOf(a) = BlockOf(c.addr)}

Erased(data, area) == [a \in Addr |-> IF a \in area THEN Bit ELSE data[a]]

(***************************************************************************)
(* The history of write cycles: the kinds of the last five, the latest     *)
(* last, forgotten at a cycle that belongs to no program or erase command. *)
(***************************************************************************)
None == [i \in 1..5 |-> "none"]

Shift(r, k) ==
  IF k \in {"unlock1", "unlock2", "program", "erase"}
  THEN [i \in 1..5 |-> IF i = 5 THEN k ELSE r[i + 1]]
  ELSE None
=============================================================================
