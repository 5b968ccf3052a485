------------------------------- MODULE SdCard -------------------------------
(***************************************************************************)
(* What the SD interface promises a driver: a block read arrives as it was *)
(* on the card when it was opened, a block written reaches the card whole, *)
(* at the address it was opened at, when its last byte is there, and       *)
(* nothing else changes the card.  A block follows on the next one as long *)
(* as a command for multiple blocks is not stopped.  The buffers and       *)
(* counters that do it are in Sdi.                                         *)
(***************************************************************************)
EXTENDS Integers, Sequences

CONSTANTS
  Byte,
  Width,      \* The bytes of a word of SDIDAT.
  Address, BlockSize  \* What a driver may command, natural numbers.

VARIABLES
  card,       \* The image, a sequence of bytes.
  reading,    \* The block that is read: where, how long, and what is left.
  writing,    \* The block that is written, and what there is of it.
  more,       \* A block is followed by the next.
  access      \* The driver's last access: a "command" or a word of "data".

cardVars == <<card, reading, writing, more, access>>

Lesser(a, b) == IF a <= b THEN a ELSE b
Greater(a, b) == IF a >= b THEN a ELSE b

Closed == [at |-> 0, size |-> 0, bytes |-> <<>>]
IsOpen(b) == b # Closed

\* The image with s at a: a gap the image did not reach is zeros.
Patch(c, a, s) ==
  [i \in 1..(IF s = <<>> THEN Len(c) ELSE Greater(Len(c), a + Len(s))) |->
     IF i \in a + 1 .. a + Len(s) THEN s[i - a]
     ELSE IF i <= Len(c) THEN c[i] ELSE 0]

\* A block that is opened for reading may fail, and must at the end of the card.
ReadBlocks(a, n) ==
  {Closed} \cup
  (IF n > 0 /\ a + n <= Len(card)
     THEN {[at |-> a, size |-> n, bytes |-> SubSeq(card, a + 1, a + n)]} ELSE {})

WriteBlocks(a, n) ==
  {Closed} \cup (IF n > 0 THEN {[at |-> a, size |-> n, bytes |-> <<>>]} ELSE {})

CardInit ==
  /\ card \in Seq(Byte)
  /\ reading = Closed /\ writing = Closed /\ more = FALSE
  /\ access = "command"

OpenRead(a, n, m) ==
  /\ reading' \in ReadBlocks(a, n)
  /\ more' = (m \/ more)
  /\ access' = "command"
  /\ UNCHANGED <<card, writing>>

OpenWrite(a, n, m) ==
  /\ writing' \in WriteBlocks(a, n)
  /\ more' = (m \/ more)
  /\ access' = "command"
  /\ UNCHANGED <<card, reading>>

\* What is under way goes on to the end of its block.
Stop == more' = FALSE /\ access' = "command" /\ UNCHANGED <<card, reading, writing>>

FetchPart ==
  /\ Len(reading.bytes) > Width
  /\ reading' = [reading EXCEPT !.bytes = SubSeq(@, Width + 1, Len(@))]
  /\ access' = "data"
  /\ UNCHANGED <<card, writing, more>>

FetchRest ==
  /\ IsOpen(reading) /\ Len(reading.bytes) <= Width
  /\ reading' \in IF more THEN ReadBlocks(reading.at + reading.size, reading.size)
                  ELSE {Closed}
  /\ access' = "data"
  /\ UNCHANGED <<card, writing, more>>

PutPart(w) ==
  /\ Len(writing.bytes) + Width < writing.size
  /\ writing' = [writing EXCEPT !.bytes = @ \o w]
  /\ access' = "data"
  /\ UNCHANGED <<card, reading, more>>

\* The last word of a block: a write that fails leaves what went before it.
PutRest(w) ==
  /\ IsOpen(writing) /\ Len(writing.bytes) + Width >= writing.size
  /\ LET rest == SubSeq(w, 1, writing.size - Len(writing.bytes))
         block == writing.bytes \o rest
     IN \E n \in 0..Len(block) : card' = Patch(card, writing.at, SubSeq(block, 1, n))
  /\ writing' \in IF more THEN WriteBlocks(writing.at + writing.size, writing.size)
                  ELSE {Closed}
  /\ access' = "data"
  /\ UNCHANGED <<reading, more>>

\* The program starts again.
PowerCycle ==
  /\ reading' = Closed /\ writing' = Closed /\ more' = FALSE
  /\ UNCHANGED <<card, access>>

CardNext ==
  \/ \E a \in Address, n \in BlockSize, m \in BOOLEAN :
       OpenRead(a, n, m) \/ OpenWrite(a, n, m)
  \/ Stop \/ FetchPart \/ FetchRest
  \/ \E w \in [1..Width -> Byte] : PutPart(w) \/ PutRest(w)
  \/ PowerCycle

CardSpec == CardInit /\ [][CardNext]_cardVars
=============================================================================
