------------------------------- MODULE Flash --------------------------------
(***************************************************************************)
(* The flash memory of flash.c: the state machine behind its writes and    *)
(* reads.  In FLASH_STATE_NORMAL the memory is mapped for direct reading,  *)
(* so no read reaches the code; in the other states every access does.     *)
(***************************************************************************)
EXTENDS FlashBus

VARIABLES
  flash,  \* state and data of x49gp_flash_t; the data is a shared file map.
  half,   \* The lower half of a word being written, or NoHalf.
  recent  \* History of the write cycles (see FlashBus).

vars == <<flash, half, recent>>

NoHalf == -1

States ==
  {"NORMAL", "UNLOCK1", "UNLOCK2", "ERASE1", "ERASE2", "ERASE3",
   "SOFTWARE_EXIT1", "SOFTWARE_EXIT2", "CFI_QUERY_EXIT1", "CFI_QUERY_EXIT2",
   "SOFTWARE_ID", "CFI_QUERY", "WORD_PROG"}

(***************************************************************************)
(* The switch of flash_put_halfword.                                       *)
(***************************************************************************)
Edges ==
  { <<"NORMAL", "unlock1", "UNLOCK1">>,
    <<"UNLOCK1", "unlock2", "UNLOCK2">>,
    <<"UNLOCK2", "program", "WORD_PROG">>,
    <<"UNLOCK2", "erase", "ERASE1">>,
    <<"UNLOCK2", "id", "SOFTWARE_ID">>,
    <<"UNLOCK2", "cfi", "CFI_QUERY">>,
    <<"ERASE1", "unlock1", "ERASE2">>,
    <<"ERASE2", "unlock2", "ERASE3">>,
    <<"SOFTWARE_ID", "unlock1", "SOFTWARE_EXIT1">>,
    <<"SOFTWARE_EXIT1", "unlock2", "SOFTWARE_EXIT2">>,
    <<"SOFTWARE_EXIT2", "exit", "NORMAL">>,
    <<"CFI_QUERY", "unlock1", "CFI_QUERY_EXIT1">>,
    <<"CFI_QUERY_EXIT1", "unlock2", "CFI_QUERY_EXIT2">>,
    <<"CFI_QUERY_EXIT2", "exit", "NORMAL">> }
  \cup ({"SOFTWARE_ID", "CFI_QUERY"} \X {"exit", "reset"} \X {"NORMAL"})

\* Variation: a broken exit sequence goes on where it stands.
FallbackStays(s) == IF s \in {"SOFTWARE_EXIT1", "SOFTWARE_EXIT2"} THEN s ELSE "NORMAL"

\* Where a cycle leads that continues no command.
Fallback(s) ==
  IF s \in {"SOFTWARE_ID", "SOFTWARE_EXIT1", "SOFTWARE_EXIT2"} THEN "SOFTWARE_ID"
  ELSE IF s \in {"CFI_QUERY", "CFI_QUERY_EXIT1", "CFI_QUERY_EXIT2"} THEN "CFI_QUERY"
  ELSE "NORMAL"

NextState(s, k) ==
  LET hits == {e \in Edges : e[1] = s /\ e[2] = k}
  IN IF hits = {} THEN Fallback(s) ELSE (CHOOSE e \in hits : TRUE)[3]

\* Variations: the program command without the second unlock cycle; erase
\* commands that do nothing.
PutUnlocked(f, c) ==
  [state |-> IF f.state = "UNLOCK1" /\ Kind(c) = "program" THEN "WORD_PROG"
             ELSE NextState(f.state, Kind(c)),
   data |-> IF f.state = "WORD_PROG" THEN Programmed(f.data, c) ELSE f.data]
PutNoErase(f, c) ==
  [state |-> NextState(f.state, Kind(c)),
   data |-> IF f.state = "WORD_PROG" THEN Programmed(f.data, c) ELSE f.data]

\* flash_put_halfword
Put(f, c) ==
  [state |-> NextState(f.state, Kind(c)),
   data |-> IF f.state = "WORD_PROG" THEN Programmed(f.data, c)
            ELSE IF f.state = "ERASE3" THEN Erased(f.data, ErasedBy(c))
            ELSE f.data]

\* flash_get_halfword, as far as it changes the flash.
Get(f) ==
  IF f.state \in {"SOFTWARE_ID", "CFI_QUERY"} THEN f
  ELSE [f EXCEPT !.state = "NORMAL"]

(***************************************************************************)
(* The accesses of the guest.                                              *)
(***************************************************************************)
Init ==
  /\ flash \in [state : {"NORMAL"}, data : Contents]
  /\ half = NoHalf
  /\ recent = None

WriteCycle(c) ==
  /\ flash' = Put(flash, c)
  /\ recent' = Shift(recent, Kind(c))

\* flash_writew
WriteHalf ==
  /\ half = NoHalf
  /\ \E c \in Cycle : WriteCycle(c)
  /\ UNCHANGED half

\* flash_writeb puts its byte into a halfword of zeros.
WriteByte ==
  /\ half = NoHalf
  /\ \E c \in Cycle : (c.low = "00" \/ c.high = {}) /\ WriteCycle(c)
  /\ UNCHANGED half

\* flash_writel: two calls, the upper half first, and nothing in between.
WriteWordUpper ==
  /\ half = NoHalf
  /\ \E c \in Cycle :
       /\ c.addr % 2 = 1 /\ c.addr - 1 \in Addr
       /\ WriteCycle(c)
       /\ half' = c.addr - 1

WriteWordLower ==
  /\ half # NoHalf
  /\ \E c \in Cycle : c.addr = half /\ WriteCycle(c)
  /\ half' = NoHalf

\* flash_readb and flash_readw; flash_readl reads twice, the second time in
\* the state the first read left.
Read ==
  /\ half = NoHalf
  /\ flash.state # "NORMAL"
  /\ flash' = Get(flash)
  /\ recent' = None
  /\ UNCHANGED half

\* flash_reset; also a new run of the program on the same file.
Reset ==
  /\ half = NoHalf
  /\ flash' = [flash EXCEPT !.state = "NORMAL"]
  /\ recent' = None
  /\ UNCHANGED half

Next == WriteHalf \/ WriteByte \/ WriteWordUpper \/ WriteWordLower \/ Read \/ Reset

Spec == Init /\ [][Next]_vars

-----------------------------------------------------------------------------
(***************************************************************************)
(* Properties.                                                             *)
(***************************************************************************)
FlashTypeOK ==
  /\ flash \in [state : States, data : Contents]
  /\ half \in Addr \cup {NoHalf}
  /\ recent \in [1..5 -> Kinds \cup {"none"}]

\* The contents change only by complete commands, whatever accesses of any
\* width, reads and resets come between (see FlashArray).
Array == INSTANCE FlashArray WITH data <- flash.data
ArraySpec == Array!ArraySpec

Put2(f, c, d) == Put(Put(f, c), d)
Unlock1 == [addr |-> ADDR1, low |-> "aa", high |-> {}]
Unlock2 == [addr |-> ADDR2, low |-> "55", high |-> {}]
At1(low) == [addr |-> ADDR1, low |-> low, high |-> {}]

\* A flash that is read directly takes the commands of its data sheet, and is
\* read directly again after them.
CommandsWork ==
  flash.state = "NORMAL" =>
    LET unlocked == Put2(flash, Unlock1, Unlock2)
        program == Put(unlocked, At1("a0"))
        erase == Put2(Put(unlocked, At1("80")), Unlock1, Unlock2)
    IN \A c \in Cycle :
         /\ Put(program, c) = [flash EXCEPT !.data = Programmed(flash.data, c)]
         /\ Put(erase, c) = [flash EXCEPT !.data = Erased(flash.data, ErasedBy(c))]

\* Software that lost track gets the contents back: two F0 writes to any
\* address, or a read and one F0 write, end every command and every mode.
TwoResetsReturn ==
  \A a \in Addr : LET f0 == [addr |-> a, low |-> "f0", high |-> Bit]
                  IN /\ Put2(flash, f0, f0).state = "NORMAL"
                     /\ Put(Get(flash), f0).state = "NORMAL"
=============================================================================
