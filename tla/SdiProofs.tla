----------------------------- MODULE SdiProofs ------------------------------
(***************************************************************************)
(* The SD interface stays inside its buffers, and implements SdCard, for   *)
(* any card, blocks, words and failures of the host.                       *)
(***************************************************************************)
EXTENDS Sdi, SequenceTheorems, TLAPS

Transfer ==
  [sdicarg : Address, sdibsize : BlockSize,
   read_data : Seq(Byte), nr_read_data : Nat, read_offset : Nat, read_index : Nat,
   write_data : Seq(Byte \cup {Junk}), nr_write_data : Nat, write_offset : Nat,
   write_index : Nat, multiple_block : BOOLEAN]

ReadBacked(s) ==
  /\ s.read_index <= s.nr_read_data
  /\ s.read_index # s.nr_read_data => Len(s.read_data) = s.nr_read_data

WriteBacked(s) ==
  /\ s.write_index <= s.nr_write_data
  /\ s.write_index # s.nr_write_data => Len(s.write_data) = s.nr_write_data
  /\ \A i \in 1..s.write_index : s.write_data[i] \in Byte

\* The half of the state a read, or a write, leaves alone.
SameRead(s, t) ==
  /\ t.read_data = s.read_data /\ t.nr_read_data = s.nr_read_data
  /\ t.read_offset = s.read_offset /\ t.read_index = s.read_index

SameWrite(s, t) ==
  /\ t.write_data = s.write_data /\ t.nr_write_data = s.nr_write_data
  /\ t.write_offset = s.write_offset /\ t.write_index = s.write_index

SdiInv ==
  /\ sd \in Transfer /\ ReadBacked(sd) /\ WriteBacked(sd)
  /\ present \in BOOLEAN /\ card \in Seq(Byte) /\ access \in {"command", "data"}

\* What reads depend on is untouched.
LEMMA SameReadBacked ==
  ASSUME NEW s, NEW t, SameRead(s, t)
  PROVE  ReadBacked(t) = ReadBacked(s) /\ Reading(t) = Reading(s)
BY DEF SameRead, ReadBacked, Reading

\* What writes depend on is untouched.
LEMMA SameWriteBacked ==
  ASSUME NEW s, NEW t, SameWrite(s, t)
  PROVE  WriteBacked(t) = WriteBacked(s) /\ Writing(t) = Writing(s)
BY DEF SameWrite, WriteBacked, Writing

\* Without a transfer no block is open.
LEMMA NoTransferIsQuiet ==
  /\ NoTransfer \in Transfer /\ ReadBacked(NoTransfer) /\ WriteBacked(NoTransfer)
  /\ Reading(NoTransfer) = NoBlock /\ Writing(NoTransfer) = NoBlock
<1>1. NULL \in Seq(Byte) /\ NULL \in Seq(Byte \cup {Junk})
  BY DEF NULL
<1>2. 0 \in Address /\ 0 \in BlockSize /\ 0 \in Nat
  BY SdiAssumption
<1>3. NoTransfer \in Transfer
  BY <1>1, <1>2 DEF NoTransfer, Transfer
<1> QED BY <1>3 DEF NoTransfer, ReadBacked, WriteBacked, Reading, Writing

\* s3c2410_sdi_load takes two registers from the state file.
LEMMA LoadIsQuiet ==
  ASSUME NEW s \in Transfer
  PROVE  LET t == SdiLoad(s) IN
         /\ t \in Transfer /\ ReadBacked(t) /\ WriteBacked(t)
         /\ Reading(t) = NoBlock /\ Writing(t) = NoBlock
         /\ t.multiple_block = FALSE
<1> DEFINE t == SdiLoad(s)
<1>1. s.sdicarg \in Address /\ s.sdibsize \in BlockSize
  BY DEF Transfer
<1>2. t = [NoTransfer EXCEPT !.sdicarg = s.sdicarg, !.sdibsize = s.sdibsize]
  BY DEF SdiLoad
<1>3. t \in Transfer
  BY <1>1, <1>2, NoTransferIsQuiet DEF Transfer
<1>4. SameRead(NoTransfer, t) /\ SameWrite(NoTransfer, t)
  BY <1>2, NoTransferIsQuiet DEF Transfer, SameRead, SameWrite
<1>5. t.multiple_block = FALSE
  BY <1>2 DEF NoTransfer
<1> QED BY <1>3, <1>4, <1>5, NoTransferIsQuiet, SameReadBacked, SameWriteBacked

\* sdcard_read leaves the whole block at its beginning, or none.
LEMMA SdcardReadOpens ==
  ASSUME NEW s \in Transfer, card \in Seq(Byte), NEW t \in SdcardRead(s)
  PROVE  /\ t \in Transfer /\ ReadBacked(t)
         /\ SameWrite(s, t) /\ t.multiple_block = s.multiple_block
         /\ Reading(t) \in Blocks!ReadBlocks(s.read_offset, s.nr_read_data)
<1> DEFINE bytes == SubSeq(card, s.read_offset + 1, s.read_offset + s.nr_read_data)
<1>1. bytes \in Seq(Byte) \/ ~(s.read_offset + s.nr_read_data <= Len(card))
  <2> SUFFICES ASSUME s.read_offset + s.nr_read_data <= Len(card)
               PROVE  bytes \in Seq(Byte)
    OBVIOUS
  <2>1. s.read_offset \in Nat /\ s.nr_read_data \in Nat /\ Len(card) \in Nat
    BY DEF Transfer
  <2>2. \A i \in s.read_offset + 1 .. s.read_offset + s.nr_read_data : card[i] \in Byte
    BY <2>1
  <2> QED BY <2>1, <2>2, SubSeqProperties
<1>2. ASSUME t = [s EXCEPT !.nr_read_data = 0, !.read_index = 0]
             \/ t = [s EXCEPT !.read_data = NULL, !.nr_read_data = 0, !.read_index = 0]
      PROVE  /\ t \in Transfer /\ ReadBacked(t)
             /\ SameWrite(s, t) /\ t.multiple_block = s.multiple_block
             /\ Reading(t) \in Blocks!ReadBlocks(s.read_offset, s.nr_read_data)
  <2>1. NULL \in Seq(Byte)
    BY DEF NULL
  <2>2. t \in Transfer /\ t.nr_read_data = 0 /\ t.read_index = 0
    <3>1. CASE t = [s EXCEPT !.nr_read_data = 0, !.read_index = 0]
      BY <3>1 DEF Transfer
    <3>2. CASE t = [s EXCEPT !.read_data = NULL, !.nr_read_data = 0, !.read_index = 0]
      BY <2>1, <3>2 DEF Transfer
    <3> QED BY <1>2, <3>1, <3>2
  <2>3. SameWrite(s, t) /\ t.multiple_block = s.multiple_block
    BY <1>2 DEF Transfer, SameWrite
  <2>4. ReadBacked(t) /\ Reading(t) = NoBlock
    BY <2>2 DEF ReadBacked, Reading
  <2>5. NoBlock \in Blocks!ReadBlocks(s.read_offset, s.nr_read_data)
    BY DEF NoBlock, NULL, Blocks!ReadBlocks, Blocks!Closed
  <2> QED BY <2>2, <2>3, <2>4, <2>5
<1>3. ASSUME s.read_offset + s.nr_read_data <= Len(card),
             t = [s EXCEPT !.read_index = 0, !.read_data = bytes]
      PROVE  /\ t \in Transfer /\ ReadBacked(t)
             /\ SameWrite(s, t) /\ t.multiple_block = s.multiple_block
             /\ Reading(t) \in Blocks!ReadBlocks(s.read_offset, s.nr_read_data)
  <2>1. s.read_offset \in Nat /\ s.nr_read_data \in Nat /\ Len(card) \in Nat
    BY DEF Transfer
  <2>2. bytes \in Seq(Byte)
    BY <1>1, <1>3
  <2>3. \A i \in s.read_offset + 1 .. s.read_offset + s.nr_read_data : card[i] \in Byte
    BY <1>3, <2>1
  <2>4. s.nr_read_data > 0 => Len(bytes) = s.nr_read_data
    BY <2>1, <2>3, SubSeqProperties
  <2> HIDE DEF bytes
  <2>5. /\ t \in Transfer /\ t.read_index = 0 /\ t.read_data = bytes
        /\ t.nr_read_data = s.nr_read_data /\ t.read_offset = s.read_offset
    BY <1>3, <2>2 DEF Transfer
  <2>6. SameWrite(s, t) /\ t.multiple_block = s.multiple_block
    BY <1>3 DEF Transfer, SameWrite
  <2>7. ReadBacked(t)
    BY <2>1, <2>4, <2>5 DEF ReadBacked
  <2>8. Reading(t) \in Blocks!ReadBlocks(s.read_offset, s.nr_read_data)
    <3>1. CASE s.nr_read_data = 0
      BY <2>5, <3>1 DEF Reading, NoBlock, NULL, Blocks!ReadBlocks, Blocks!Closed
    <3>2. CASE s.nr_read_data > 0
      <4>1. SubSeq(bytes, 1, s.nr_read_data) = bytes
        BY <2>2, <2>4, <3>2, SubSeqFull
      <4>2. Reading(t) = [at |-> s.read_offset, size |-> s.nr_read_data, bytes |-> bytes]
        <5>1. t.read_index # t.nr_read_data /\ t.read_index + 1 = 1
          BY <2>1, <2>5, <3>2
        <5> QED BY <2>5, <4>1, <5>1 DEF Reading
      <4> QED BY <1>3, <3>2, <4>2 DEF Blocks!ReadBlocks, bytes
    <3> QED BY <2>1, <3>1, <3>2
  <2> QED BY <2>5, <2>6, <2>7, <2>8
<1> HIDE DEF bytes
<1>4. CASE ~present
  BY <1>2, <1>4 DEF SdcardRead
<1>5. CASE present
  <2>1. \/ t = [s EXCEPT !.read_data = NULL, !.nr_read_data = 0, !.read_index = 0]
        \/ s.read_offset + s.nr_read_data <= Len(card)
           /\ t = [s EXCEPT !.read_index = 0, !.read_data = bytes]
    BY <1>5 DEF SdcardRead, bytes
  <2> QED BY <1>2, <1>3, <2>1
<1> QED BY <1>4, <1>5

\* sdcard_write_prepare leaves room for the whole block, or none.
LEMMA SdcardWritePrepareOpens ==
  ASSUME NEW s \in Transfer, NEW t \in SdcardWritePrepare(s)
  PROVE  /\ t \in Transfer /\ WriteBacked(t)
         /\ SameRead(s, t) /\ t.multiple_block = s.multiple_block
         /\ Writing(t) \in Blocks!WriteBlocks(s.write_offset, s.nr_write_data)
<1> DEFINE room == [i \in 1..s.nr_write_data |-> Junk]
<1>1. s.nr_write_data \in Nat /\ s.write_offset \in Nat
  BY DEF Transfer
<1>2. room \in Seq(Byte \cup {Junk}) /\ Len(room) = s.nr_write_data
  <2>1. \A i \in 1..s.nr_write_data : Junk \in Byte \cup {Junk}
    OBVIOUS
  <2> QED BY <1>1, <2>1
<1>3. NULL \in Seq(Byte \cup {Junk})
  BY DEF NULL
<1> HIDE DEF room
<1>4. \/ t = [s EXCEPT !.nr_write_data = 0, !.write_index = 0]
      \/ t = [s EXCEPT !.write_data = NULL, !.nr_write_data = 0, !.write_index = 0]
      \/ t = [s EXCEPT !.write_data = room, !.write_index = 0]
  BY DEF SdcardWritePrepare, room
<1>5. t \in Transfer
  <2>1. CASE t = [s EXCEPT !.nr_write_data = 0, !.write_index = 0]
    BY <2>1 DEF Transfer
  <2>2. CASE t = [s EXCEPT !.write_data = NULL, !.nr_write_data = 0, !.write_index = 0]
    BY <1>3, <2>2 DEF Transfer
  <2>3. CASE t = [s EXCEPT !.write_data = room, !.write_index = 0]
    BY <1>2, <2>3 DEF Transfer
  <2> QED BY <1>4, <2>1, <2>2, <2>3
<1>6. SameRead(s, t) /\ t.multiple_block = s.multiple_block
  BY <1>4 DEF Transfer, SameRead
<1>7. /\ t.write_index = 0
      /\ \/ t.nr_write_data = 0
         \/ /\ t.nr_write_data = s.nr_write_data /\ t.write_offset = s.write_offset
            /\ t.write_data = room
  BY <1>4 DEF Transfer
<1>8. WriteBacked(t)
  BY <1>1, <1>2, <1>7 DEF WriteBacked
<1>9. Writing(t) \in Blocks!WriteBlocks(s.write_offset, s.nr_write_data)
  <2>1. CASE t.nr_write_data = 0
    BY <1>7, <2>1 DEF Writing, NoBlock, NULL, Blocks!WriteBlocks, Blocks!Closed
  <2>2. CASE t.nr_write_data # 0
    <3>1. SubSeq(room, 1, 0) = <<>>
      BY SubSeqEmpty
    <3>2. Writing(t) = [at |-> s.write_offset, size |-> s.nr_write_data, bytes |-> <<>>]
      BY <1>7, <2>2, <3>1 DEF Writing
    <3>3. s.nr_write_data > 0
      BY <1>1, <1>7, <2>2
    <3> QED BY <3>2, <3>3 DEF Blocks!WriteBlocks
  <2> QED BY <2>1, <2>2
<1> QED BY <1>5, <1>6, <1>8, <1>9

-----------------------------------------------------------------------------
(***************************************************************************)
(* Reading SDIDAT.                                                         *)
(***************************************************************************)
\* At the end of a block the next one is opened, or none.
LEMMA AfterBlockReadOpens ==
  ASSUME NEW s \in Transfer, card \in Seq(Byte), NEW t \in AfterBlockRead(s)
  PROVE  /\ t \in Transfer /\ ReadBacked(t)
         /\ SameWrite(s, t) /\ t.multiple_block = s.multiple_block
         /\ Reading(t) \in IF s.multiple_block
                          THEN Blocks!ReadBlocks(s.read_offset + s.nr_read_data, s.nr_read_data)
                          ELSE {NoBlock}
<1> DEFINE freed == [s EXCEPT !.read_index = 0, !.read_data = NULL]
           next == [freed EXCEPT !.read_offset = @ + s.nr_read_data]
<1>1. NULL \in Seq(Byte)
  BY DEF NULL
<1>2. freed \in Transfer
  BY <1>1 DEF Transfer
<1>3. /\ SameWrite(s, freed) /\ freed.multiple_block = s.multiple_block
      /\ freed.read_offset = s.read_offset /\ freed.nr_read_data = s.nr_read_data
      /\ freed.read_index = 0
  BY DEF Transfer, SameWrite
<1>4. t \in IF s.multiple_block THEN SdcardRead(next) ELSE {[freed EXCEPT !.nr_read_data = 0]}
  BY DEF AfterBlockRead
<1> HIDE DEF freed
<1>5. CASE s.multiple_block
  <2>1. s.read_offset + s.nr_read_data \in Nat
    BY DEF Transfer
  <2>2. next \in Transfer
    BY <1>2, <1>3, <2>1 DEF Transfer
  <2>3. /\ SameWrite(freed, next) /\ next.multiple_block = freed.multiple_block
        /\ next.read_offset = s.read_offset + s.nr_read_data
        /\ next.nr_read_data = s.nr_read_data
    BY <1>2, <1>3 DEF Transfer, SameWrite
  <2>4. t \in SdcardRead(next)
    BY <1>4, <1>5
  <2> HIDE DEF next
  <2>5. /\ t \in Transfer /\ ReadBacked(t)
        /\ SameWrite(next, t) /\ t.multiple_block = next.multiple_block
        /\ Reading(t) \in Blocks!ReadBlocks(next.read_offset, next.nr_read_data)
    BY <2>2, <2>4, SdcardReadOpens
  <2>6. SameWrite(s, t)
    BY <1>3, <2>3, <2>5 DEF SameWrite
  <2> QED BY <1>3, <1>5, <2>3, <2>5, <2>6
<1>6. CASE ~s.multiple_block
  <2>1. t = [freed EXCEPT !.nr_read_data = 0]
    BY <1>4, <1>6
  <2>2. t \in Transfer /\ t.nr_read_data = 0 /\ t.read_index = 0
    BY <1>2, <1>3, <2>1 DEF Transfer
  <2>3. SameWrite(s, t) /\ t.multiple_block = s.multiple_block
    BY <1>2, <1>3, <2>1 DEF Transfer, SameWrite
  <2>4. ReadBacked(t) /\ Reading(t) = NoBlock
    BY <2>2 DEF ReadBacked, Reading
  <2> QED BY <1>6, <2>2, <2>3, <2>4
<1> QED BY <1>5, <1>6

\* The parts of a transfer a word moves.
LEMMA TransferFields ==
  ASSUME NEW s \in Transfer
  PROVE  /\ s.read_index \in Nat /\ s.nr_read_data \in Nat /\ s.read_offset \in Nat
         /\ s.write_index \in Nat /\ s.nr_write_data \in Nat /\ s.write_offset \in Nat
         /\ s.read_data \in Seq(Byte) /\ s.write_data \in Seq(Byte \cup {Junk})
BY DEF Transfer

LEMMA WidthIsPositive == Width \in Nat /\ Width > 0
BY SdiAssumption

\* A word moves its whole width, or the rest of the block.
LEMMA WordFits ==
  ASSUME NEW i \in Nat, NEW size \in Nat, i < size, NEW k \in Nat
  PROVE  LET n == IF k <= size - i THEN k ELSE size - i IN
         /\ n \in Nat /\ n <= k
         /\ i + n \in Nat /\ i + n <= size
         /\ i + n = IF size - i <= k THEN size ELSE i + k
OBVIOUS

\* A word takes the bytes it has room for off the block.
LEMMA FetchedTakes ==
  ASSUME NEW s \in Transfer, ReadBacked(s), s.read_index # s.nr_read_data
  PROVE  LET t == Fetched(s) IN
         /\ t \in Transfer /\ ReadBacked(t)
         /\ SameWrite(s, t) /\ t.multiple_block = s.multiple_block
         /\ t.read_data = s.read_data /\ t.nr_read_data = s.nr_read_data
         /\ t.read_offset = s.read_offset
         /\ t.read_index = IF s.nr_read_data - s.read_index <= Width THEN s.nr_read_data
                           ELSE s.read_index + Width
<1> DEFINE t == Fetched(s)
           n == IF Width <= s.nr_read_data - s.read_index THEN Width
                ELSE s.nr_read_data - s.read_index
<1>1. s.read_index \in Nat /\ s.nr_read_data \in Nat /\ Width \in Nat
      /\ s.read_index < s.nr_read_data
  <2>1. s.read_index <= s.nr_read_data
    BY DEF ReadBacked
  <2> QED BY <2>1, TransferFields, WidthIsPositive
<1>2. t = [s EXCEPT !.read_index = s.read_index + n]
  BY DEF Fetched, Blocks!Lesser
<1>3. s.read_index + n \in Nat /\ s.read_index + n <= s.nr_read_data
      /\ s.read_index + n = IF s.nr_read_data - s.read_index <= Width THEN s.nr_read_data
                           ELSE s.read_index + Width
  BY <1>1, WordFits
<1> HIDE DEF n, t
<1>4. t \in Transfer /\ t.read_index = s.read_index + n
  BY <1>2, <1>3 DEF Transfer
<1>5. /\ SameWrite(s, t) /\ t.multiple_block = s.multiple_block
      /\ t.read_data = s.read_data /\ t.nr_read_data = s.nr_read_data
      /\ t.read_offset = s.read_offset
  BY <1>2 DEF Transfer, SameWrite
<1>6. ReadBacked(t)
  BY <1>1, <1>3, <1>4, <1>5 DEF ReadBacked
<1> QED BY <1>3, <1>4, <1>5, <1>6 DEF t

\* The elements of f behind the i-th, up to the n-th.
LEMMA Behind ==
  ASSUME NEW S, NEW f, NEW i \in Nat, NEW n \in Nat, i < n,
         \A j \in i + 1 .. n : f[j] \in S
  PROVE  /\ SubSeq(f, i + 1, n) \in Seq(S)
         /\ Len(SubSeq(f, i + 1, n)) = n - i
         /\ \A j \in 1 .. n - i : SubSeq(f, i + 1, n)[j] = f[i + j]
<1>1. i + 1 \in Int /\ n \in Int /\ n - (i + 1) + 1 = n - i /\ i + 1 <= n
  OBVIOUS
<1>2. /\ SubSeq(f, i + 1, n) \in Seq(S)
      /\ Len(SubSeq(f, i + 1, n)) = IF i + 1 <= n THEN n - (i + 1) + 1 ELSE 0
      /\ \A j \in 1 .. n - (i + 1) + 1 : SubSeq(f, i + 1, n)[j] = f[i + 1 + j - 1]
  BY <1>1, SubSeqProperties
<1>3. \A j \in 1 .. n - i : i + 1 + j - 1 = i + j
  OBVIOUS
<1> QED BY <1>1, <1>2, <1>3

\* What a suffix leaves when its first k elements are taken off.
LEMMA RestOfRest ==
  ASSUME NEW S, NEW q \in Seq(S), NEW i \in Nat, NEW k \in Nat, NEW n \in Nat,
         i + k < n, n <= Len(q)
  PROVE  SubSeq(SubSeq(q, i + 1, n), k + 1, n - i) = SubSeq(q, i + k + 1, n)
<1> DEFINE r == SubSeq(q, i + 1, n)
           left == SubSeq(r, k + 1, n - i)
           rest == SubSeq(q, i + k + 1, n)
<1>1. i < n /\ i + k \in Nat /\ n - i \in Nat /\ k < n - i
  OBVIOUS
<1>2. \A j \in i + 1 .. n : q[j] \in S
  OBVIOUS
<1>3. /\ r \in Seq(S) /\ Len(r) = n - i
      /\ \A j \in 1 .. n - i : r[j] = q[i + j]
  BY <1>1, <1>2, Behind
<1> HIDE DEF r
<1>4. \A j \in k + 1 .. n - i : r[j] \in S
  BY <1>3
<1>5. /\ left \in Seq(S) /\ Len(left) = n - i - k
      /\ \A j \in 1 .. n - i - k : left[j] = r[k + j]
  BY <1>1, <1>4, Behind
<1>6. \A j \in i + k + 1 .. n : q[j] \in S
  OBVIOUS
<1>7. /\ rest \in Seq(S) /\ Len(rest) = n - (i + k)
      /\ \A j \in 1 .. n - (i + k) : rest[j] = q[i + k + j]
  BY <1>1, <1>6, Behind
<1> HIDE DEF left, rest
<1>8. n - (i + k) = n - i - k
  OBVIOUS
<1>9. \A j \in 1 .. n - i - k : k + j \in 1 .. n - i /\ i + (k + j) = i + k + j
  OBVIOUS
<1>10. \A j \in 1 .. n - i - k : left[j] = rest[j]
  BY <1>3, <1>5, <1>7, <1>8, <1>9
<1>11. left = rest
  BY <1>5, <1>7, <1>8, <1>10, SeqEqual
<1> QED BY <1>11 DEF r, left, rest

\* s3c2410_sdi_read takes a part of a block, or the rest of it.
LEMMA ReadSDIDATKeeps ==
  ASSUME SdiInv, ReadSDIDAT
  PROVE  SdiInv' /\ (Blocks!FetchPart \/ Blocks!FetchRest)
<1> DEFINE s == Fetched(sd)
<1>1. /\ sd \in Transfer /\ ReadBacked(sd) /\ WriteBacked(sd) /\ card \in Seq(Byte)
      /\ sd.read_index # sd.nr_read_data
      /\ access' = "data" /\ UNCHANGED <<present, card>>
  BY DEF SdiInv, ReadSDIDAT
<1>2. sd' \in IF s.read_index >= s.nr_read_data THEN AfterBlockRead(s) ELSE {s}
  BY DEF ReadSDIDAT
<1>3. /\ s \in Transfer /\ ReadBacked(s)
      /\ SameWrite(sd, s) /\ s.multiple_block = sd.multiple_block
      /\ s.read_data = sd.read_data /\ s.nr_read_data = sd.nr_read_data
      /\ s.read_offset = sd.read_offset
      /\ s.read_index = IF sd.nr_read_data - sd.read_index <= Width THEN sd.nr_read_data
                        ELSE sd.read_index + Width
  BY <1>1, FetchedTakes
<1> HIDE DEF s
<1>4. /\ sd.read_index \in Nat /\ sd.nr_read_data \in Nat /\ Width \in Nat
      /\ sd.read_index < sd.nr_read_data
      /\ sd.read_data \in Seq(Byte) /\ Len(sd.read_data) = sd.nr_read_data
  <2>1. sd.read_index <= sd.nr_read_data /\ Len(sd.read_data) = sd.nr_read_data
    BY <1>1 DEF ReadBacked
  <2> QED BY <1>1, <2>1, TransferFields, WidthIsPositive
<1> DEFINE left == SubSeq(sd.read_data, sd.read_index + 1, sd.nr_read_data)
<1>5. left \in Seq(Byte) /\ Len(left) = sd.nr_read_data - sd.read_index
  <2>1. \A i \in sd.read_index + 1 .. sd.nr_read_data : sd.read_data[i] \in Byte
    BY <1>4
  <2> QED BY <1>4, <2>1, SubSeqProperties
<1>6. Reading(sd) = [at |-> sd.read_offset, size |-> sd.nr_read_data, bytes |-> left]
  BY <1>1 DEF Reading
<1>7. CASE sd.nr_read_data - sd.read_index <= Width
  <2>1. sd' \in AfterBlockRead(s)
    BY <1>2, <1>3, <1>4, <1>7
  <2>2. /\ sd' \in Transfer /\ ReadBacked(sd')
        /\ SameWrite(s, sd') /\ sd'.multiple_block = s.multiple_block
        /\ Reading(sd') \in IF s.multiple_block
                           THEN Blocks!ReadBlocks(s.read_offset + s.nr_read_data, s.nr_read_data)
                           ELSE {NoBlock}
    BY <1>1, <1>3, <2>1, AfterBlockReadOpens
  <2>3. WriteBacked(sd') /\ Writing(sd') = Writing(sd)
    BY <1>1, <1>3, <2>2, SameWriteBacked
  <2>4. SdiInv'
    BY <1>1, <2>2, <2>3 DEF SdiInv
  <2>5. Reading(sd) # NoBlock
    <3>1. sd.nr_read_data # 0
      BY <1>4
    <3> QED BY <1>6, <3>1 DEF NoBlock
  <2> HIDE DEF left
  <2>6. Reading(sd).bytes = left /\ Reading(sd).at = sd.read_offset
        /\ Reading(sd).size = sd.nr_read_data
    BY <1>6
  <2>7. Blocks!IsOpen(Reading(sd)) /\ NoBlock = Blocks!Closed
    BY <2>5 DEF Blocks!IsOpen, Blocks!Closed, NoBlock, NULL
  <2>8. Reading(sd') \in
          IF sd.multiple_block
          THEN Blocks!ReadBlocks(Reading(sd).at + Reading(sd).size, Reading(sd).size)
          ELSE {Blocks!Closed}
    BY <1>3, <2>2, <2>6, <2>7
  <2>9. Blocks!FetchRest
    BY <1>1, <1>3, <1>5, <1>7, <2>2, <2>3, <2>6, <2>7, <2>8 DEF Blocks!FetchRest
  <2> QED BY <2>4, <2>9
<1>8. CASE ~(sd.nr_read_data - sd.read_index <= Width)
  <2>1. sd' = s
    BY <1>2, <1>3, <1>4, <1>8
  <2>2. WriteBacked(sd') /\ Writing(sd') = Writing(sd)
    BY <1>1, <1>3, <2>1, SameWriteBacked
  <2>3. SdiInv'
    BY <1>1, <1>3, <2>1, <2>2 DEF SdiInv
  <2>4. SubSeq(left, Width + 1, Len(left))
        = SubSeq(sd.read_data, sd.read_index + Width + 1, sd.nr_read_data)
    <3>1. sd.read_index + Width < sd.nr_read_data /\ sd.nr_read_data <= Len(sd.read_data)
      BY <1>4, <1>8
    <3>2. SubSeq(left, Width + 1, sd.nr_read_data - sd.read_index)
          = SubSeq(sd.read_data, sd.read_index + Width + 1, sd.nr_read_data)
      <4>1. \A q \in Seq(Byte), i \in Nat, k \in Nat, n \in Nat :
              i + k < n /\ n <= Len(q) =>
              SubSeq(SubSeq(q, i + 1, n), k + 1, n - i) = SubSeq(q, i + k + 1, n)
        BY RestOfRest
      <4> QED BY <1>4, <3>1, <4>1
    <3> HIDE DEF left
    <3> QED BY <1>5, <3>2
  <2> HIDE DEF left
  <2>5. Reading(sd') = [at |-> sd.read_offset, size |-> sd.nr_read_data,
                        bytes |-> SubSeq(left, Width + 1, Len(left))]
    <3>1. s.read_index # s.nr_read_data /\ s.read_index + 1 = sd.read_index + Width + 1
      BY <1>3, <1>4, <1>8
    <3> QED BY <1>3, <2>1, <2>4, <3>1 DEF Reading
  <2>6. Reading(sd') = [Reading(sd) EXCEPT !.bytes = SubSeq(@, Width + 1, Len(@))]
    <3>1. Reading(sd).bytes = left
      BY <1>6
    <3>2. [Reading(sd) EXCEPT !.bytes = SubSeq(left, Width + 1, Len(left))]
          = [at |-> sd.read_offset, size |-> sd.nr_read_data,
             bytes |-> SubSeq(left, Width + 1, Len(left))]
      <4> DEFINE rest == SubSeq(left, Width + 1, Len(left))
      <4> HIDE DEF rest
      <4>1. PICK r : r = Reading(sd)
        OBVIOUS
      <4>2. [r EXCEPT !.bytes = rest]
            = [at |-> sd.read_offset, size |-> sd.nr_read_data, bytes |-> rest]
        BY <1>6, <4>1
      <4>3. [Reading(sd) EXCEPT !.bytes = rest]
            = [at |-> sd.read_offset, size |-> sd.nr_read_data, bytes |-> rest]
        BY <4>1, <4>2
      <4> QED BY <4>3 DEF rest
    <3> QED BY <2>5, <3>1, <3>2
  <2>7. Len(Reading(sd).bytes) > Width
    BY <1>4, <1>5, <1>6, <1>8
  <2>8. Blocks!FetchPart
    BY <1>1, <1>3, <2>1, <2>2, <2>6, <2>7 DEF Blocks!FetchPart
  <2> QED BY <2>3, <2>8
<1> QED BY <1>7, <1>8

-----------------------------------------------------------------------------
(***************************************************************************)
(* Writing SDIDAT.                                                         *)
(***************************************************************************)
\* At the end of a block there is room for the next one, or no more room.
LEMMA AfterBlockWrittenOpens ==
  ASSUME NEW s \in Transfer, NEW t \in AfterBlockWritten(s)
  PROVE  /\ t \in Transfer /\ WriteBacked(t)
         /\ SameRead(s, t) /\ t.multiple_block = s.multiple_block
         /\ Writing(t) \in IF s.multiple_block
                          THEN Blocks!WriteBlocks(s.write_offset + s.nr_write_data, s.nr_write_data)
                          ELSE {NoBlock}
<1> DEFINE freed == [s EXCEPT !.write_index = 0, !.write_data = NULL]
           next == [freed EXCEPT !.write_offset = @ + s.nr_write_data]
<1>1. NULL \in Seq(Byte \cup {Junk})
  BY DEF NULL
<1>2. freed \in Transfer
  BY <1>1 DEF Transfer
<1>3. /\ SameRead(s, freed) /\ freed.multiple_block = s.multiple_block
      /\ freed.write_offset = s.write_offset /\ freed.nr_write_data = s.nr_write_data
      /\ freed.write_index = 0
  BY DEF Transfer, SameRead
<1>4. t \in IF s.multiple_block THEN SdcardWritePrepare(next)
            ELSE {[freed EXCEPT !.nr_write_data = 0]}
  BY DEF AfterBlockWritten
<1> HIDE DEF freed
<1>5. CASE s.multiple_block
  <2>1. s.write_offset + s.nr_write_data \in Nat
    BY DEF Transfer
  <2>2. next \in Transfer
    BY <1>2, <1>3, <2>1 DEF Transfer
  <2>3. /\ SameRead(freed, next) /\ next.multiple_block = freed.multiple_block
        /\ next.write_offset = s.write_offset + s.nr_write_data
        /\ next.nr_write_data = s.nr_write_data
    BY <1>2, <1>3 DEF Transfer, SameRead
  <2>4. t \in SdcardWritePrepare(next)
    BY <1>4, <1>5
  <2> HIDE DEF next
  <2>5. /\ t \in Transfer /\ WriteBacked(t)
        /\ SameRead(next, t) /\ t.multiple_block = next.multiple_block
        /\ Writing(t) \in Blocks!WriteBlocks(next.write_offset, next.nr_write_data)
    BY <2>2, <2>4, SdcardWritePrepareOpens
  <2>6. SameRead(s, t)
    BY <1>3, <2>3, <2>5 DEF SameRead
  <2> QED BY <1>3, <1>5, <2>3, <2>5, <2>6
<1>6. CASE ~s.multiple_block
  <2>1. t = [freed EXCEPT !.nr_write_data = 0]
    BY <1>4, <1>6
  <2>2. t \in Transfer /\ t.nr_write_data = 0 /\ t.write_index = 0
    BY <1>2, <1>3, <2>1 DEF Transfer
  <2>3. SameRead(s, t) /\ t.multiple_block = s.multiple_block
    BY <1>2, <1>3, <2>1 DEF Transfer, SameRead
  <2>4. WriteBacked(t) /\ Writing(t) = NoBlock
    BY <2>2 DEF WriteBacked, Writing
  <2> QED BY <1>6, <2>2, <2>3, <2>4
<1> QED BY <1>5, <1>6

\* A function on 1..n is a sequence of n elements.
LEMMA FunctionIsSeq ==
  ASSUME NEW S, NEW n \in Nat, NEW f \in [1..n -> S]
  PROVE  f \in Seq(S) /\ Len(f) = n /\ \A i \in 1..n : f[i] \in S
OBVIOUS

\* The beginning of what has n elements of S.
LEMMA PrefixOf ==
  ASSUME NEW S, NEW f, NEW n \in Nat, \A i \in 1..n : f[i] \in S
  PROVE  LET p == SubSeq(f, 1, n) IN
         p \in Seq(S) /\ Len(p) = n /\ \A i \in 1..n : p[i] = f[i]
<1>1. 1 \in Int /\ n \in Int /\ n - 1 + 1 = n /\ (1 <= n \/ n = 0)
  OBVIOUS
<1>2. /\ SubSeq(f, 1, n) \in Seq(S)
      /\ Len(SubSeq(f, 1, n)) = IF 1 <= n THEN n - 1 + 1 ELSE 0
      /\ \A i \in 1 .. n - 1 + 1 : SubSeq(f, 1, n)[i] = f[1 + i - 1]
  BY <1>1, SubSeqProperties
<1> QED BY <1>1, <1>2

\* A word puts the bytes the block has room for behind those that are there.
LEMMA StoredPuts ==
  ASSUME NEW s \in Transfer, WriteBacked(s), s.write_index # s.nr_write_data,
         NEW w \in [1..Width -> Byte]
  PROVE  LET t == Stored(s, w) IN
         /\ t \in Transfer /\ WriteBacked(t)
         /\ SameRead(s, t) /\ t.multiple_block = s.multiple_block
         /\ t.nr_write_data = s.nr_write_data /\ t.write_offset = s.write_offset
         /\ Len(t.write_data) = s.nr_write_data
         /\ t.write_index = IF s.nr_write_data - s.write_index <= Width THEN s.nr_write_data
                            ELSE s.write_index + Width
         /\ SubSeq(t.write_data, 1, t.write_index)
            = SubSeq(s.write_data, 1, s.write_index)
              \o SubSeq(w, 1, t.write_index - s.write_index)
<1> DEFINE t == Stored(s, w)
           n == IF Width <= s.nr_write_data - s.write_index THEN Width
                ELSE s.nr_write_data - s.write_index
           d == s.write_data
           e == [i \in DOMAIN d |->
                   IF i \in s.write_index + 1 .. s.write_index + n
                   THEN w[i - s.write_index] ELSE d[i]]
<1>1. /\ s.write_index \in Nat /\ s.nr_write_data \in Nat /\ Width \in Nat
      /\ s.write_index < s.nr_write_data
      /\ d \in Seq(Byte \cup {Junk}) /\ Len(d) = s.nr_write_data
      /\ \A i \in 1..s.write_index : d[i] \in Byte
  <2>1. /\ s.write_index <= s.nr_write_data /\ Len(d) = s.nr_write_data
        /\ \A i \in 1..s.write_index : d[i] \in Byte
    BY DEF WriteBacked
  <2> QED BY <2>1, TransferFields, WidthIsPositive
<1>2. t = [s EXCEPT !.write_index = s.write_index + n, !.write_data = e]
  BY DEF Stored, Blocks!Lesser
<1>3. /\ n \in Nat /\ n <= Width
      /\ s.write_index + n \in Nat /\ s.write_index + n <= s.nr_write_data
      /\ s.write_index + n = IF s.nr_write_data - s.write_index <= Width THEN s.nr_write_data
                            ELSE s.write_index + Width
  BY <1>1, WordFits
<1> HIDE DEF n, t
<1>4. /\ e \in Seq(Byte \cup {Junk}) /\ Len(e) = s.nr_write_data
      /\ \A i \in 1..s.write_index : e[i] = d[i]
      /\ \A i \in s.write_index + 1 .. s.write_index + n : e[i] = w[i - s.write_index]
  <2>1. DOMAIN d = 1..s.nr_write_data
    BY <1>1
  <2>2. \A i \in 1..s.nr_write_data :
          e[i] = IF i \in s.write_index + 1 .. s.write_index + n
                 THEN w[i - s.write_index] ELSE d[i]
    BY <2>1
  <2>3. \A i \in s.write_index + 1 .. s.write_index + n : w[i - s.write_index] \in Byte
    BY <1>1, <1>3
  <2>4. \A i \in 1..s.nr_write_data : e[i] \in Byte \cup {Junk}
    BY <1>1, <2>2, <2>3
  <2>5. e \in [1..s.nr_write_data -> Byte \cup {Junk}]
    BY <2>1, <2>4
  <2>6. \A i \in 1..s.write_index :
          i \in 1..s.nr_write_data /\ i \notin s.write_index + 1 .. s.write_index + n
    BY <1>1, <1>3
  <2>7. \A i \in s.write_index + 1 .. s.write_index + n : i \in 1..s.nr_write_data
    BY <1>1, <1>3
  <2> HIDE DEF e, d
  <2>8. e \in Seq(Byte \cup {Junk}) /\ Len(e) = s.nr_write_data
    BY <1>1, <2>5, FunctionIsSeq
  <2> QED BY <2>2, <2>6, <2>7, <2>8
<1>5. \A i \in s.write_index + 1 .. s.write_index + n :
        i - s.write_index \in 1..Width /\ w[i - s.write_index] \in Byte
  BY <1>1, <1>3
<1> HIDE DEF e
<1>6. \A i \in 1..s.write_index + n : e[i] \in Byte
  <2> SUFFICES ASSUME NEW i \in 1..s.write_index + n
               PROVE  e[i] \in Byte
    OBVIOUS
  <2>1. CASE i \in 1..s.write_index
    BY <1>1, <1>4, <2>1
  <2>2. CASE i \in s.write_index + 1 .. s.write_index + n
    BY <1>4, <1>5, <2>2
  <2> QED BY <1>1, <1>3, <2>1, <2>2
<1>7. t \in Transfer
  BY <1>2, <1>3, <1>4 DEF Transfer
<1>8. t.write_index = s.write_index + n /\ t.write_data = e
  BY <1>2 DEF Transfer
<1>9. /\ SameRead(s, t) /\ t.multiple_block = s.multiple_block
      /\ t.nr_write_data = s.nr_write_data /\ t.write_offset = s.write_offset
  BY <1>2 DEF Transfer, SameRead
<1>10. WriteBacked(t)
  BY <1>3, <1>4, <1>6, <1>8, <1>9 DEF WriteBacked
<1>11. SubSeq(e, 1, s.write_index + n)
       = SubSeq(d, 1, s.write_index) \o SubSeq(w, 1, n)
  <2> DEFINE whole == SubSeq(e, 1, s.write_index + n)
             head == SubSeq(d, 1, s.write_index)
             tail == SubSeq(w, 1, n)
  <2> HIDE DEF d
  <2>1. /\ whole \in Seq(Byte) /\ Len(whole) = s.write_index + n
        /\ \A i \in 1..s.write_index + n : whole[i] = e[i]
    BY <1>3, <1>6, PrefixOf
  <2>2. /\ head \in Seq(Byte) /\ Len(head) = s.write_index
        /\ \A i \in 1..s.write_index : head[i] = d[i]
    BY <1>1, PrefixOf
  <2>3. tail \in Seq(Byte) /\ Len(tail) = n /\ \A i \in 1..n : tail[i] = w[i]
    <3>1. \A i \in 1..n : w[i] \in Byte
      BY <1>1, <1>3
    <3> QED BY <1>3, <3>1, PrefixOf
  <2> HIDE DEF whole, head, tail
  <2>4. /\ head \o tail \in Seq(Byte) /\ Len(head \o tail) = s.write_index + n
        /\ \A i \in 1..s.write_index + n :
              (head \o tail)[i] = IF i <= s.write_index THEN head[i]
                                 ELSE tail[i - s.write_index]
    <3>1. /\ head \o tail \in Seq(Byte) /\ Len(head \o tail) = Len(head) + Len(tail)
          /\ \A i \in 1..Len(head) + Len(tail) :
                (head \o tail)[i] = IF i <= Len(head) THEN head[i] ELSE tail[i - Len(head)]
      <4>1. head \in Seq(Byte) /\ tail \in Seq(Byte)
        BY <2>2, <2>3
      <4> QED BY <4>1, ConcatProperties
    <3>2. Len(head) = s.write_index /\ Len(tail) = n
      BY <2>2, <2>3
    <3> QED BY <3>1, <3>2
  <2>5. \A i \in 1..s.write_index + n : whole[i] = (head \o tail)[i]
    <3> SUFFICES ASSUME NEW i \in 1..s.write_index + n
                 PROVE  whole[i] = (head \o tail)[i]
      OBVIOUS
    <3>1. CASE i <= s.write_index
      <4>1. i \in 1..s.write_index
        BY <3>1
      <4> QED BY <1>4, <2>1, <2>2, <2>4, <3>1, <4>1
    <3>2. CASE ~(i <= s.write_index)
      <4>1. i \in s.write_index + 1 .. s.write_index + n /\ i - s.write_index \in 1..n
        BY <1>1, <1>3, <3>2
      <4> QED BY <1>4, <2>1, <2>3, <2>4, <3>2, <4>1
    <3> QED BY <3>1, <3>2
  <2>6. whole = head \o tail
    BY <2>1, <2>4, <2>5, SeqEqual
  <2> QED BY <2>6 DEF whole, head, tail
<1>12. t.write_index - s.write_index = n
  BY <1>1, <1>3, <1>8
<1> QED BY <1>3, <1>4, <1>7, <1>8, <1>9, <1>10, <1>11, <1>12 DEF t

\* A write, whole or in part, leaves bytes on the card.
LEMMA PatchIsBytes ==
  ASSUME NEW c \in Seq(Byte), NEW a \in Nat, NEW q \in Seq(Byte)
  PROVE  Blocks!Patch(c, a, q) \in Seq(Byte)
<1> DEFINE n == IF q = <<>> THEN Len(c) ELSE Blocks!Greater(Len(c), a + Len(q))
<1>1. n \in Nat
  BY DEF Blocks!Greater
<1>2. ASSUME NEW i \in 1..n
      PROVE  (IF i \in a + 1 .. a + Len(q) THEN q[i - a]
              ELSE IF i <= Len(c) THEN c[i] ELSE 0) \in Byte
  <2>1. CASE i \in a + 1 .. a + Len(q)
    <3>1. i - a \in 1..Len(q)
      BY <2>1
    <3> QED BY <2>1, <3>1
  <2>2. CASE i \notin a + 1 .. a + Len(q)
    <3>1. i <= Len(c) => i \in 1..Len(c)
      BY <1>1
    <3> QED BY <2>2, <3>1, SdiAssumption
  <2> QED BY <2>1, <2>2
<1>3. Blocks!Patch(c, a, q)
      = [i \in 1..n |-> IF i \in a + 1 .. a + Len(q) THEN q[i - a]
                        ELSE IF i <= Len(c) THEN c[i] ELSE 0]
  BY DEF Blocks!Patch
<1> HIDE DEF n
<1>4. Blocks!Patch(c, a, q) \in [1..n -> Byte]
  BY <1>2, <1>3
<1> QED BY <1>1, <1>4, FunctionIsSeq

\* s3c2410_sdi_write takes a part of a block, or the rest of it.
LEMMA WriteSDIDATKeeps ==
  ASSUME SdiInv, NEW w \in [1..Width -> Byte], WriteSDIDAT(w)
  PROVE  SdiInv' /\ (Blocks!PutPart(w) \/ Blocks!PutRest(w))
<1> DEFINE s == Stored(sd, w)
           size == sd.nr_write_data
           had == SubSeq(sd.write_data, 1, sd.write_index)
<1>1. /\ sd \in Transfer /\ ReadBacked(sd) /\ WriteBacked(sd) /\ card \in Seq(Byte)
      /\ sd.write_index # size
      /\ access' = "data" /\ UNCHANGED present
  BY DEF SdiInv, WriteSDIDAT
<1>2. IF s.write_index >= s.nr_write_data
      THEN card' \in SdcardWrite(s) /\ sd' \in AfterBlockWritten(s)
      ELSE sd' = s /\ UNCHANGED card
  BY DEF WriteSDIDAT
<1>3. /\ s \in Transfer /\ WriteBacked(s)
      /\ SameRead(sd, s) /\ s.multiple_block = sd.multiple_block
      /\ s.nr_write_data = size /\ s.write_offset = sd.write_offset
      /\ Len(s.write_data) = size
      /\ s.write_index = IF size - sd.write_index <= Width THEN size
                         ELSE sd.write_index + Width
      /\ SubSeq(s.write_data, 1, s.write_index)
         = had \o SubSeq(w, 1, s.write_index - sd.write_index)
  BY <1>1, StoredPuts
<1> HIDE DEF s
<1>4. /\ sd.write_index \in Nat /\ size \in Nat /\ Width \in Nat /\ Width > 0
      /\ sd.write_index < size /\ sd.write_offset \in Nat
      /\ \A i \in 1..sd.write_index : sd.write_data[i] \in Byte
  <2>1. /\ sd.write_index <= size
        /\ \A i \in 1..sd.write_index : sd.write_data[i] \in Byte
    BY <1>1 DEF WriteBacked
  <2> QED BY <1>1, <2>1, TransferFields, WidthIsPositive
<1>5. had \in Seq(Byte) /\ Len(had) = sd.write_index
  BY <1>4, PrefixOf
<1>6. Writing(sd) = [at |-> sd.write_offset, size |-> size, bytes |-> had]
  BY <1>1 DEF Writing
<1> HIDE DEF had, size
<1>7. Writing(sd).bytes = had /\ Writing(sd).at = sd.write_offset /\ Writing(sd).size = size
  BY <1>6
<1>8. CASE size - sd.write_index <= Width
  <2>1. s.write_index = size /\ card' \in SdcardWrite(s) /\ sd' \in AfterBlockWritten(s)
    BY <1>2, <1>3, <1>4, <1>8
  <2>2. /\ sd' \in Transfer /\ WriteBacked(sd')
        /\ SameRead(s, sd') /\ sd'.multiple_block = s.multiple_block
        /\ Writing(sd') \in IF s.multiple_block
                           THEN Blocks!WriteBlocks(s.write_offset + s.nr_write_data, s.nr_write_data)
                           ELSE {NoBlock}
    BY <1>3, <2>1, AfterBlockWrittenOpens
  <2>3. ReadBacked(sd') /\ Reading(sd') = Reading(sd)
    <3>1. ReadBacked(s) /\ Reading(s) = Reading(sd)
      BY <1>1, <1>3, SameReadBacked
    <3> QED BY <2>2, <3>1, SameReadBacked
  <2> DEFINE block == had \o SubSeq(w, 1, size - sd.write_index)
  <2>4. \A i \in 1..size : s.write_data[i] \in Byte
    BY <1>3, <2>1 DEF WriteBacked
  <2>5. s.write_data = block /\ s.write_data \in Seq(Byte) /\ Len(block) = size
    <3>1. s.write_data \in Seq(Byte \cup {Junk})
      BY <1>3 DEF Transfer
    <3>2. SubSeq(s.write_data, 1, size) = s.write_data
      BY <1>3, <3>1, SubSeqFull
    <3>3. s.write_data = block
      BY <1>3, <2>1, <3>2
    <3>4. SubSeq(s.write_data, 1, size) \in Seq(Byte)
      BY <1>4, <2>4, PrefixOf
    <3> QED BY <1>3, <3>2, <3>3, <3>4
  <2> HIDE DEF block
  <2>6. PICK n \in 0..size : card' = Blocks!Patch(card, sd.write_offset, SubSeq(block, 1, n))
    BY <1>3, <2>1, <2>5 DEF SdcardWrite
  <2>7. card' \in Seq(Byte)
    <3>1. n \in Nat /\ \A i \in 1..n : block[i] \in Byte
      BY <1>4, <2>4, <2>5, <2>6
    <3>2. SubSeq(block, 1, n) \in Seq(Byte)
      BY <3>1, PrefixOf
    <3> QED BY <1>1, <1>4, <2>6, <3>2, PatchIsBytes
  <2>8. SdiInv'
    BY <1>1, <2>2, <2>3, <2>7 DEF SdiInv
  <2>9. Blocks!IsOpen(Writing(sd)) /\ NoBlock = Blocks!Closed
    <3>1. size # 0
      BY <1>4
    <3> QED BY <1>7, <3>1 DEF Blocks!IsOpen, Blocks!Closed, NoBlock, NULL
  <2>10. Writing(sd') \in
           IF sd.multiple_block
           THEN Blocks!WriteBlocks(Writing(sd).at + Writing(sd).size, Writing(sd).size)
           ELSE {Blocks!Closed}
    BY <1>3, <1>7, <2>2, <2>9
  <2>11. LET rest == SubSeq(w, 1, Writing(sd).size - Len(Writing(sd).bytes))
             b == Writing(sd).bytes \o rest
         IN \E m \in 0..Len(b) : card' = Blocks!Patch(card, Writing(sd).at, SubSeq(b, 1, m))
    <3>1. Writing(sd).bytes \o SubSeq(w, 1, Writing(sd).size - Len(Writing(sd).bytes)) = block
      BY <1>5, <1>7 DEF block
    <3> QED BY <1>7, <2>5, <2>6, <3>1
  <2>12. Len(Writing(sd).bytes) + Width >= Writing(sd).size
    BY <1>4, <1>5, <1>7, <1>8
  <2>13. Blocks!PutRest(w)
    BY <1>1, <1>3, <2>2, <2>3, <2>9, <2>10, <2>11, <2>12 DEF Blocks!PutRest
  <2> QED BY <2>8, <2>13
<1>9. CASE ~(size - sd.write_index <= Width)
  <2>1. sd' = s /\ UNCHANGED card /\ s.write_index = sd.write_index + Width
    BY <1>2, <1>3, <1>4, <1>9
  <2>2. ReadBacked(sd') /\ Reading(sd') = Reading(sd)
    BY <1>1, <1>3, <2>1, SameReadBacked
  <2>3. SdiInv'
    BY <1>1, <1>3, <2>1, <2>2 DEF SdiInv
  <2>4. SubSeq(w, 1, s.write_index - sd.write_index) = w
    <3>1. w \in Seq(Byte) /\ Len(w) = Width
      BY <1>4, FunctionIsSeq
    <3>2. s.write_index - sd.write_index = Width
      BY <1>4, <2>1
    <3> QED BY <3>1, <3>2, SubSeqFull
  <2>5. Writing(sd') = [at |-> sd.write_offset, size |-> size, bytes |-> had \o w]
    <3>1. s.write_index # s.nr_write_data
      BY <1>3, <1>4, <1>9
    <3> QED BY <1>3, <2>1, <2>4, <3>1 DEF Writing
  <2>6. Writing(sd') = [Writing(sd) EXCEPT !.bytes = @ \o w]
    <3>1. PICK b : b = Writing(sd)
      OBVIOUS
    <3> DEFINE more == had \o w
    <3> HIDE DEF more
    <3>2. [b EXCEPT !.bytes = more] = [at |-> sd.write_offset, size |-> size, bytes |-> more]
      BY <1>6, <3>1
    <3> QED BY <1>7, <2>5, <3>1, <3>2 DEF more
  <2>7. Len(Writing(sd).bytes) + Width < Writing(sd).size
    BY <1>4, <1>5, <1>7, <1>9
  <2>8. Blocks!PutPart(w)
    BY <1>1, <1>3, <2>1, <2>2, <2>6, <2>7 DEF Blocks!PutPart
  <2> QED BY <2>3, <2>8
<1> QED BY <1>8, <1>9

-----------------------------------------------------------------------------
(***************************************************************************)
(* Commands, registers, resets and restarts.                               *)
(***************************************************************************)
\* The registers hold natural numbers.
LEMMA AddressesAreNat == Address \subseteq Nat /\ BlockSize \subseteq Nat
<1>1. \A n \in 0..4095 : n \in Nat
  OBVIOUS
<1> QED BY <1>1, SdiAssumption

\* CMD17 and CMD18 open a block at SDICARG, or none.
LEMMA CommandReadKeeps ==
  ASSUME SdiInv, NEW m \in BOOLEAN, CommandRead(m)
  PROVE  SdiInv' /\ \E a \in Address, n \in BlockSize : Blocks!OpenRead(a, n, m)
<1> DEFINE s == [sd EXCEPT !.read_offset = sd.sdicarg, !.nr_read_data = sd.sdibsize,
                           !.multiple_block = m \/ @]
<1>1. /\ sd \in Transfer /\ ReadBacked(sd) /\ WriteBacked(sd) /\ card \in Seq(Byte)
      /\ sd' \in SdcardRead(s)
      /\ access' = "command" /\ UNCHANGED <<present, card>>
  BY DEF SdiInv, CommandRead
<1>2. /\ sd.sdicarg \in Address /\ sd.sdicarg \in Nat
      /\ sd.sdibsize \in BlockSize /\ sd.sdibsize \in Nat
      /\ (m \/ sd.multiple_block) \in BOOLEAN
  <2>1. sd.sdicarg \in Address /\ sd.sdibsize \in BlockSize
    BY <1>1 DEF Transfer
  <2>2. sd.sdicarg \in Nat /\ sd.sdibsize \in Nat
    BY <2>1, AddressesAreNat
  <2>3. (m \/ sd.multiple_block) \in BOOLEAN
    OBVIOUS
  <2> QED BY <2>1, <2>2, <2>3
<1>3. /\ s \in Transfer /\ SameWrite(sd, s)
      /\ s.read_offset = sd.sdicarg /\ s.nr_read_data = sd.sdibsize
      /\ s.multiple_block = (m \/ sd.multiple_block)
  BY <1>1, <1>2 DEF Transfer, SameWrite
<1> HIDE DEF s
<1>4. /\ sd' \in Transfer /\ ReadBacked(sd')
      /\ SameWrite(s, sd') /\ sd'.multiple_block = s.multiple_block
      /\ Reading(sd') \in Blocks!ReadBlocks(s.read_offset, s.nr_read_data)
  BY <1>1, <1>3, SdcardReadOpens
<1>5. WriteBacked(sd') /\ Writing(sd') = Writing(sd)
  <2>1. WriteBacked(s) /\ Writing(s) = Writing(sd)
    BY <1>1, <1>3, SameWriteBacked
  <2> QED BY <1>4, <2>1, SameWriteBacked
<1>6. SdiInv'
  BY <1>1, <1>4, <1>5 DEF SdiInv
<1>7. Blocks!OpenRead(sd.sdicarg, sd.sdibsize, m)
  BY <1>1, <1>3, <1>4, <1>5 DEF Blocks!OpenRead
<1> QED BY <1>2, <1>6, <1>7

\* CMD24 and CMD25 make room for a block at SDICARG, or for none.
LEMMA CommandWriteKeeps ==
  ASSUME SdiInv, NEW m \in BOOLEAN, CommandWrite(m)
  PROVE  SdiInv' /\ \E a \in Address, n \in BlockSize : Blocks!OpenWrite(a, n, m)
<1> DEFINE s == [sd EXCEPT !.write_offset = sd.sdicarg, !.nr_write_data = sd.sdibsize,
                           !.multiple_block = m \/ @]
<1>1. /\ sd \in Transfer /\ ReadBacked(sd) /\ WriteBacked(sd) /\ card \in Seq(Byte)
      /\ sd' \in SdcardWritePrepare(s)
      /\ access' = "command" /\ UNCHANGED <<present, card>>
  BY DEF SdiInv, CommandWrite
<1>2. /\ sd.sdicarg \in Address /\ sd.sdicarg \in Nat
      /\ sd.sdibsize \in BlockSize /\ sd.sdibsize \in Nat
      /\ (m \/ sd.multiple_block) \in BOOLEAN
  <2>1. sd.sdicarg \in Address /\ sd.sdibsize \in BlockSize
    BY <1>1 DEF Transfer
  <2>2. sd.sdicarg \in Nat /\ sd.sdibsize \in Nat
    BY <2>1, AddressesAreNat
  <2>3. (m \/ sd.multiple_block) \in BOOLEAN
    OBVIOUS
  <2> QED BY <2>1, <2>2, <2>3
<1>3. /\ s \in Transfer /\ SameRead(sd, s)
      /\ s.write_offset = sd.sdicarg /\ s.nr_write_data = sd.sdibsize
      /\ s.multiple_block = (m \/ sd.multiple_block)
  BY <1>1, <1>2 DEF Transfer, SameRead
<1> HIDE DEF s
<1>4. /\ sd' \in Transfer /\ WriteBacked(sd')
      /\ SameRead(s, sd') /\ sd'.multiple_block = s.multiple_block
      /\ Writing(sd') \in Blocks!WriteBlocks(s.write_offset, s.nr_write_data)
  BY <1>1, <1>3, SdcardWritePrepareOpens
<1>5. ReadBacked(sd') /\ Reading(sd') = Reading(sd)
  <2>1. ReadBacked(s) /\ Reading(s) = Reading(sd)
    BY <1>1, <1>3, SameReadBacked
  <2> QED BY <1>4, <2>1, SameReadBacked
<1>6. SdiInv'
  BY <1>1, <1>4, <1>5 DEF SdiInv
<1>7. Blocks!OpenWrite(sd.sdicarg, sd.sdibsize, m)
  BY <1>1, <1>3, <1>4, <1>5 DEF Blocks!OpenWrite
<1> QED BY <1>2, <1>6, <1>7

\* CMD12 lets the block that is under way go on to its end.
LEMMA CMD12Keeps ==
  ASSUME SdiInv, CMD12
  PROVE  SdiInv' /\ Blocks!Stop
<1>1. sd \in Transfer /\ sd' = [sd EXCEPT !.multiple_block = FALSE]
  BY DEF SdiInv, CMD12
<1>2. /\ sd' \in Transfer /\ sd'.multiple_block = FALSE
      /\ SameRead(sd, sd') /\ SameWrite(sd, sd')
  BY <1>1 DEF Transfer, SameRead, SameWrite
<1>3. /\ ReadBacked(sd') = ReadBacked(sd) /\ Reading(sd') = Reading(sd)
      /\ WriteBacked(sd') = WriteBacked(sd) /\ Writing(sd') = Writing(sd)
  BY <1>2, SameReadBacked, SameWriteBacked
<1>4. SdiInv'
  BY <1>2, <1>3 DEF SdiInv, CMD12
<1> QED BY <1>2, <1>3, <1>4 DEF CMD12, Blocks!Stop

\* A register is written, and a reset writes them all: no block sees it.
LEMMA RegistersKeep ==
  ASSUME SdiInv, WriteSDICARG \/ WriteSDIBSIZE \/ SdiReset
  PROVE  SdiInv' /\ UNCHANGED Blocks!cardVars
<1>1. sd \in Transfer /\ UNCHANGED <<present, card, access>>
  BY DEF SdiInv, WriteSDICARG, WriteSDIBSIZE, WriteRegister, SdiReset
<1>2. \/ \E a \in Address : sd' = [sd EXCEPT !.sdicarg = a]
      \/ \E n \in BlockSize : sd' = [sd EXCEPT !.sdibsize = n]
      \/ sd' = [sd EXCEPT !.sdicarg = 0, !.sdibsize = 0]
  BY DEF WriteSDICARG, WriteSDIBSIZE, WriteRegister, SdiReset, ResetRegs
<1>3. /\ sd' \in Transfer /\ sd'.multiple_block = sd.multiple_block
      /\ SameRead(sd, sd') /\ SameWrite(sd, sd')
  <2>1. CASE \E a \in Address : sd' = [sd EXCEPT !.sdicarg = a]
    BY <1>1, <2>1 DEF Transfer, SameRead, SameWrite
  <2>2. CASE \E n \in BlockSize : sd' = [sd EXCEPT !.sdibsize = n]
    BY <1>1, <2>2 DEF Transfer, SameRead, SameWrite
  <2>3. CASE sd' = [sd EXCEPT !.sdicarg = 0, !.sdibsize = 0]
    <3>1. 0 \in Address /\ 0 \in BlockSize
      BY SdiAssumption
    <3> QED BY <1>1, <2>3, <3>1 DEF Transfer, SameRead, SameWrite
  <2> QED BY <1>2, <2>1, <2>2, <2>3
<1>4. /\ ReadBacked(sd') = ReadBacked(sd) /\ Reading(sd') = Reading(sd)
      /\ WriteBacked(sd') = WriteBacked(sd) /\ Writing(sd') = Writing(sd)
  BY <1>3, SameReadBacked, SameWriteBacked
<1> QED BY <1>1, <1>3, <1>4 DEF SdiInv, Blocks!cardVars

\* A new process has no block under way.
LEMMA SdiRestartKeeps ==
  ASSUME SdiInv, NEW complete \in BOOLEAN, SdiRestart(complete)
  PROVE  SdiInv' /\ Blocks!PowerCycle
<1>1. /\ sd \in Transfer /\ (sd' = SdiLoad(sd) \/ sd' = NoTransfer)
      /\ present' \in BOOLEAN /\ UNCHANGED <<card, access>>
  BY DEF SdiInv, SdiRestart
<1>2. /\ sd' \in Transfer /\ ReadBacked(sd') /\ WriteBacked(sd')
      /\ Reading(sd') = NoBlock /\ Writing(sd') = NoBlock
      /\ sd'.multiple_block = FALSE
  <2>1. CASE sd' = SdiLoad(sd)
    BY <1>1, <2>1, LoadIsQuiet
  <2>2. CASE sd' = NoTransfer
    BY <2>2, NoTransferIsQuiet DEF NoTransfer
  <2> QED BY <1>1, <2>1, <2>2
<1>3. SdiInv'
  BY <1>1, <1>2 DEF SdiInv
<1>4. Blocks!PowerCycle
  BY <1>1, <1>2 DEF Blocks!PowerCycle, NoBlock, NULL, Blocks!Closed
<1> QED BY <1>3, <1>4

-----------------------------------------------------------------------------
(***************************************************************************)
(* The interface as a whole.                                               *)
(***************************************************************************)
\* The machine starts without a transfer.
LEMMA SdiInitKeeps == SdiInit => SdiInv /\ Blocks!CardInit
<1> SUFFICES ASSUME SdiInit
             PROVE  SdiInv /\ Blocks!CardInit
  OBVIOUS
<1>1. sd = NoTransfer /\ card \in Seq(Byte)
  BY SdiAssumption DEF SdiInit
<1>2. SdiInv
  BY <1>1, NoTransferIsQuiet DEF SdiInv, SdiInit
<1>3. Reading(sd) = Blocks!Closed /\ Writing(sd) = Blocks!Closed /\ sd.multiple_block = FALSE
  BY <1>1, NoTransferIsQuiet DEF NoBlock, NULL, Blocks!Closed, NoTransfer
<1> QED BY <1>1, <1>2, <1>3 DEF SdiInit, Blocks!CardInit

\* Every step keeps the invariant and is a step of SdCard, or none.
LEMMA SdiNextKeeps ==
  SdiInv /\ [SdiNext]_sdiVars => SdiInv' /\ [Blocks!CardNext]_(Blocks!cardVars)
<1> SUFFICES ASSUME SdiInv, [SdiNext]_sdiVars
             PROVE  SdiInv' /\ [Blocks!CardNext]_(Blocks!cardVars)
  OBVIOUS
<1>1. CASE ReadSDIDAT
  BY <1>1, ReadSDIDATKeeps DEF Blocks!CardNext
<1>2. CASE \E w \in Words : WriteSDIDAT(w)
  <2>1. PICK w \in [1..Width -> Byte] : WriteSDIDAT(w)
    BY <1>2, SdiAssumption
  <2>2. SdiInv' /\ (Blocks!PutPart(w) \/ Blocks!PutRest(w))
    BY <2>1, WriteSDIDATKeeps
  <2> QED BY <2>2 DEF Blocks!CardNext
<1>3. CASE CMD17 \/ CMD18
  <2>1. PICK m \in BOOLEAN : CommandRead(m)
    BY <1>3 DEF CMD17, CMD18
  <2>2. SdiInv' /\ \E a \in Address, n \in BlockSize : Blocks!OpenRead(a, n, m)
    BY <2>1, CommandReadKeeps
  <2> QED BY <2>2 DEF Blocks!CardNext
<1>4. CASE CMD24 \/ CMD25
  <2>1. PICK m \in BOOLEAN : CommandWrite(m)
    BY <1>4 DEF CMD24, CMD25
  <2>2. SdiInv' /\ \E a \in Address, n \in BlockSize : Blocks!OpenWrite(a, n, m)
    BY <2>1, CommandWriteKeeps
  <2> QED BY <2>2 DEF Blocks!CardNext
<1>5. CASE CMD12
  BY <1>5, CMD12Keeps DEF Blocks!CardNext
<1>6. CASE WriteSDICARG \/ WriteSDIBSIZE \/ SdiReset
  BY <1>6, RegistersKeep
<1>7. CASE \E complete \in BOOLEAN : SdiRestart(complete)
  BY <1>7, SdiRestartKeeps DEF Blocks!CardNext
<1>8. CASE UNCHANGED sdiVars
  BY <1>8 DEF sdiVars, SdiInv, ReadBacked, WriteBacked, Blocks!cardVars, Reading, Writing
<1> QED BY <1>1, <1>2, <1>3, <1>4, <1>5, <1>6, <1>7, <1>8 DEF SdiNext

\* The buffers are backed in every reachable state.
LEMMA SdiInvHolds == SdiSpec => []SdiInv
BY SdiInitKeeps, SdiNextKeeps, PTL DEF SdiSpec

\* s3c2410_sdi_read and s3c2410_sdi_write stay inside a buffer that is there,
\* for any block sizes and words and whatever the host refuses.
THEOREM BuffersBackedTheorem == SdiSpec => []BuffersBacked
<1>1. ASSUME SdiInv PROVE BuffersBacked
  BY <1>1 DEF SdiInv, Transfer, ReadBacked, WriteBacked, BuffersBacked, SdiTypeOK
<1> QED BY <1>1, SdiInvHolds, PTL

\* The buffers, counters and offsets of s3c2410_sdi.c deliver and store whole
\* blocks in order, for any card, words, failures of the host and restarts.
THEOREM SdiImplementsCard == SdiSpec => CardSpec
BY SdiInitKeeps, SdiNextKeeps, SdiInvHolds, PTL DEF SdiSpec, CardSpec, Blocks!CardSpec
=============================================================================
