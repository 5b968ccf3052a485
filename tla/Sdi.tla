-------------------------------- MODULE Sdi ---------------------------------
(***************************************************************************)
(* The SD interface of s3c2410_sdi.c and the card behind it, a file or a   *)
(* block device.  One buffer holds the block that is read and one the      *)
(* block that is written.  Left out are the registers that only report     *)
(* (SDICSTA, SDIRSP0..3, SDIDSTA, SDIDCNT, SDIFSTA), and with them the     *)
(* commands that only answer.                                              *)
(***************************************************************************)
EXTENDS Integers, Sequences

CONSTANTS
  Byte, Width, Address, BlockSize,
  Words,      \* The words the guest writes to SDIDAT.
  Cards,      \* The images at the start.
  CardLimit   \* The longest image the host has room for.

VARIABLES
  sd,         \* The state of s3c2410_sdi_t.
  present,    \* fd or bs of s3c2410_sdi_t is open.
  card,       \* The contents of the file.
  access      \* History: the last access was a "command", or a word of "data".

sdiVars == <<sd, present, card, access>>

ASSUME SdiAssumption ==
  /\ Byte \subseteq Nat /\ 0 \in Byte
  /\ Width \in Nat \ {0} /\ Words \subseteq [1..Width -> Byte]
  /\ Address \subseteq Nat /\ BlockSize \subseteq 0..4095
  /\ 0 \in Address /\ 0 \in BlockSize
  /\ Cards \subseteq Seq(Byte) /\ CardLimit \in Nat

NULL == <<>>  \* No buffer.
Junk == -1    \* A byte of a buffer nobody has written.

\* The block that s3c2410_sdi_read and s3c2410_sdi_write are in the middle of.
NoBlock == [at |-> 0, size |-> 0, bytes |-> NULL]
Reading(s) ==
  IF s.read_index = s.nr_read_data THEN NoBlock
  ELSE [at |-> s.read_offset, size |-> s.nr_read_data,
        bytes |-> SubSeq(s.read_data, s.read_index + 1, s.nr_read_data)]
Writing(s) ==
  IF s.write_index = s.nr_write_data THEN NoBlock
  ELSE [at |-> s.write_offset, size |-> s.nr_write_data,
        bytes |-> SubSeq(s.write_data, 1, s.write_index)]

Blocks == INSTANCE SdCard WITH
  reading <- Reading(sd), writing <- Writing(sd), more <- sd.multiple_block

ResetRegs(s) == [s EXCEPT !.sdicarg = 0, !.sdibsize = 0]

\* What s3c2410_sdi_data_init leaves, and a new process starts with.
NoTransfer ==
  [sdicarg |-> 0, sdibsize |-> 0,
   read_data |-> NULL, nr_read_data |-> 0, read_offset |-> 0, read_index |-> 0,
   write_data |-> NULL, nr_write_data |-> 0, write_offset |-> 0, write_index |-> 0,
   multiple_block |-> FALSE]

\* Variation: the count is taken back only when there is no card.
SdcardReadKeeps(s) ==
  IF ~present THEN {[s EXCEPT !.nr_read_data = 0, !.read_index = 0]}
  ELSE {[s EXCEPT !.read_data = NULL, !.read_index = 0]}
       \cup (IF s.read_offset + s.nr_read_data <= Len(card)
             THEN {[s EXCEPT !.read_index = 0,
                     !.read_data = SubSeq(card, s.read_offset + 1, s.read_offset + s.nr_read_data)]}
             ELSE {})

\* sdcard_read: no memory, an error or the end of the file leaves no block.
SdcardRead(s) ==
  IF ~present THEN {[s EXCEPT !.nr_read_data = 0, !.read_index = 0]}
  ELSE {[s EXCEPT !.read_data = NULL, !.nr_read_data = 0, !.read_index = 0]}
       \cup (IF s.read_offset + s.nr_read_data <= Len(card)
             THEN {[s EXCEPT !.read_index = 0,
                     !.read_data = SubSeq(card, s.read_offset + 1, s.read_offset + s.nr_read_data)]}
             ELSE {})

SdcardWritePrepare(s) ==
  IF ~present THEN {[s EXCEPT !.nr_write_data = 0, !.write_index = 0]}
  ELSE {[s EXCEPT !.write_data = NULL, !.nr_write_data = 0, !.write_index = 0],
        [s EXCEPT !.write_data = [i \in 1..s.nr_write_data |-> Junk], !.write_index = 0]}

\* The file after sdcard_write: the write may fail, at once or on its way, and
\* the host may have no more room.
SdcardWrite(s) ==
  {Blocks!Patch(card, s.write_offset, SubSeq(s.write_data, 1, n)) :
     n \in {k \in 0..s.nr_write_data :
              k > 0 => present /\ s.write_offset + k <= Blocks!Greater(CardLimit, Len(card))}}

(***************************************************************************)
(* SDIDAT: a word moves as many bytes as the block still has room for.     *)
(***************************************************************************)
Fetched(s) ==
  [s EXCEPT !.read_index = @ + Blocks!Lesser(Width, s.nr_read_data - @)]

Stored(s, w) ==
  LET n == Blocks!Lesser(Width, s.nr_write_data - s.write_index)
  IN [s EXCEPT !.write_index = @ + n,
        !.write_data = [i \in DOMAIN @ |->
          IF i \in s.write_index + 1 .. s.write_index + n THEN w[i - s.write_index] ELSE @[i]]]

\* Variation: the offset stays.
AfterBlockReadStays(s) ==
  LET freed == [s EXCEPT !.read_index = 0, !.read_data = NULL]
  IN IF s.multiple_block THEN SdcardRead(freed)
     ELSE {[freed EXCEPT !.nr_read_data = 0]}

\* The last byte of a block was read, or written.
AfterBlockRead(s) ==
  LET freed == [s EXCEPT !.read_index = 0, !.read_data = NULL]
  IN IF s.multiple_block
     THEN SdcardRead([freed EXCEPT !.read_offset = @ + s.nr_read_data])
     ELSE {[freed EXCEPT !.nr_read_data = 0]}

AfterBlockWritten(s) ==
  LET freed == [s EXCEPT !.write_index = 0, !.write_data = NULL]
  IN IF s.multiple_block
     THEN SdcardWritePrepare([freed EXCEPT !.write_offset = @ + s.nr_write_data])
     ELSE {[freed EXCEPT !.nr_write_data = 0]}

ReadSDIDAT ==
  /\ sd.read_index # sd.nr_read_data
  /\ LET s == Fetched(sd)
     IN sd' \in IF s.read_index >= s.nr_read_data THEN AfterBlockRead(s) ELSE {s}
  /\ access' = "data"
  /\ UNCHANGED <<present, card>>

\* Bound: a guest that goes on where the host has no room is not followed.
WriteSDIDAT(w) ==
  /\ sd.write_index # sd.nr_write_data
  /\ sd.write_offset <= CardLimit
  /\ LET s == Stored(sd, w)
     IN IF s.write_index >= s.nr_write_data
        THEN card' \in SdcardWrite(s) /\ sd' \in AfterBlockWritten(s)
        ELSE sd' = s /\ UNCHANGED card
  /\ access' = "data"
  /\ UNCHANGED present

(***************************************************************************)
(* Commands with their start bit and an answer, and the registers they     *)
(* take their arguments from.                                              *)
(***************************************************************************)
CommandRead(multiple) ==
  /\ sd' \in SdcardRead([sd EXCEPT !.read_offset = sd.sdicarg,
                              !.nr_read_data = sd.sdibsize,
                              !.multiple_block = multiple \/ @])
  /\ access' = "command"
  /\ UNCHANGED <<present, card>>

CommandWrite(multiple) ==
  /\ sd' \in SdcardWritePrepare([sd EXCEPT !.write_offset = sd.sdicarg,
                                   !.nr_write_data = sd.sdibsize,
                                   !.multiple_block = multiple \/ @])
  /\ access' = "command"
  /\ UNCHANGED <<present, card>>

CMD12 ==
  /\ sd' = [sd EXCEPT !.multiple_block = FALSE]
  /\ access' = "command"
  /\ UNCHANGED <<present, card>>
CMD17 == CommandRead(FALSE)
CMD18 == CommandRead(TRUE)
CMD24 == CommandWrite(FALSE)
CMD25 == CommandWrite(TRUE)

WriteRegister(s) == sd' = s /\ UNCHANGED <<present, card, access>>
WriteSDICARG == \E a \in Address : WriteRegister([sd EXCEPT !.sdicarg = a])
WriteSDIBSIZE == \E n \in BlockSize : WriteRegister([sd EXCEPT !.sdibsize = n])

(***************************************************************************)
(* s3c2410_sdi_reset has the registers' values only: a transfer goes on.   *)
(***************************************************************************)
SdiReset ==
  /\ sd' = ResetRegs(sd)
  /\ UNCHANGED <<present, card, access>>

\* s3c2410_sdi_load in a new process.
SdiLoad(s) ==
  [NoTransfer EXCEPT !.sdicarg = s.sdicarg, !.sdibsize = s.sdibsize]

\* The program is quit and started, perhaps without the card.  If a register
\* is missing from the state file every module is reset after the load.
SdiRestart(complete) ==
  /\ present' \in BOOLEAN
  /\ sd' = (IF complete THEN SdiLoad(sd) ELSE NoTransfer)
  /\ UNCHANGED <<card, access>>

SdiInit ==
  /\ present \in BOOLEAN
  /\ sd = NoTransfer
  /\ card \in Cards
  /\ access = "command"

SdiNext ==
  \/ ReadSDIDAT \/ \E w \in Words : WriteSDIDAT(w)
  \/ CMD12 \/ CMD17 \/ CMD18 \/ CMD24 \/ CMD25
  \/ WriteSDICARG \/ WriteSDIBSIZE
  \/ SdiReset \/ \E complete \in BOOLEAN : SdiRestart(complete)

SdiSpec == SdiInit /\ [][SdiNext]_sdiVars

-----------------------------------------------------------------------------
(***************************************************************************)
(* Properties.                                                             *)
(***************************************************************************)
SdiTypeOK ==
  /\ sd \in [sdicarg : Address, sdibsize : BlockSize,
             read_data : Seq(Byte), nr_read_data : Nat, read_offset : Nat, read_index : Nat,
             write_data : Seq(Byte \cup {Junk}), nr_write_data : Nat, write_offset : Nat,
             write_index : Nat, multiple_block : BOOLEAN]
  /\ sd.read_index <= sd.nr_read_data /\ sd.write_index <= sd.nr_write_data
  /\ present \in BOOLEAN
  /\ card \in Seq(Byte)
  /\ access \in {"command", "data"}

\* As long as s3c2410_sdi_read and s3c2410_sdi_write find a byte of a block
\* left to move, the buffer is there and has all of the block: no order of
\* commands, failures of the host, resets and restarts has them touch a buffer
\* that was freed or never allocated.
BuffersBacked ==
  /\ SdiTypeOK
  /\ sd.read_index # sd.nr_read_data => Len(sd.read_data) = sd.nr_read_data
  /\ sd.write_index # sd.nr_write_data => Len(sd.write_data) = sd.nr_write_data

\* The driver reads blocks as they are on the card, and the card changes by
\* whole blocks the driver wrote, at the addresses that follow from the last
\* command, whatever fails in between (SdCard).
CardSpec == Blocks!CardSpec
=============================================================================
