---------------------------- MODULE FlashProofs -----------------------------
(***************************************************************************)
(* Proofs about the flash for any set of addresses and bits: its contents  *)
(* change only by complete commands.  The invariant says which cycles of   *)
(* the history each state of the command machine stands for.               *)
(***************************************************************************)
EXTENDS Flash, TLAPS

Stands(s, r) ==
  /\ s = "UNLOCK1" => r[5] = "unlock1"
  /\ s = "UNLOCK2" => r[4] = "unlock1" /\ r[5] = "unlock2"
  /\ s = "WORD_PROG" => r[3] = "unlock1" /\ r[4] = "unlock2" /\ r[5] = "program"
  /\ s = "ERASE1" => r[3] = "unlock1" /\ r[4] = "unlock2" /\ r[5] = "erase"
  /\ s = "ERASE2" => /\ r[2] = "unlock1" /\ r[3] = "unlock2" /\ r[4] = "erase"
                     /\ r[5] = "unlock1"
  /\ s = "ERASE3" => /\ r[1] = "unlock1" /\ r[2] = "unlock2" /\ r[3] = "erase"
                     /\ r[4] = "unlock1" /\ r[5] = "unlock2"

FlashInv == FlashTypeOK /\ Stands(flash.state, recent)

-----------------------------------------------------------------------------
\* A cycle follows an edge of the switch or falls back.
LEMMA NextStateIs ==
  ASSUME NEW s, NEW k
  PROVE  NextState(s, k) = Fallback(s) \/ <<s, k, NextState(s, k)>> \in Edges
<1> DEFINE hits == {e \in Edges : e[1] = s /\ e[2] = k}
<1>1. CASE hits = {} BY <1>1 DEF NextState
<1>2. CASE hits # {}
  <2>1. PICK e \in hits : NextState(s, k) = e[3] BY <1>2 DEF NextState
  <2>2. \A x \in Edges : x = <<x[1], x[2], x[3]>> BY DEF Edges
  <2> QED BY <2>1, <2>2
<1> QED BY <1>1, <1>2

LEMMA KindIsKind == ASSUME NEW c PROVE Kind(c) \in Kinds
BY DEF Kind, Kinds

\* One write cycle keeps the machine and the history in step.
LEMMA CycleKeeps ==
  ASSUME NEW s \in States, NEW k \in Kinds,
         NEW r \in [1..5 -> Kinds \cup {"none"}], Stands(s, r)
  PROVE  /\ NextState(s, k) \in States
         /\ Shift(r, k) \in [1..5 -> Kinds \cup {"none"}]
         /\ Stands(NextState(s, k), Shift(r, k))
<1> DEFINE t == NextState(s, k)
           h == Shift(r, k)
<1>1. t = Fallback(s) \/ <<s, k, t>> \in Edges BY NextStateIs
<1>2. t \in States BY <1>1 DEF Fallback, Edges, States
<1>3. h \in [1..5 -> Kinds \cup {"none"}]
  <2>1. None \in [1..5 -> Kinds \cup {"none"}] BY DEF None
  <2>2. \A i \in 1..5 : i # 5 => i + 1 \in 1..5 OBVIOUS
  <2> QED BY <2>1, <2>2 DEF Shift
<1>4. k \in {"unlock1", "unlock2", "program", "erase"} =>
        h[1] = r[2] /\ h[2] = r[3] /\ h[3] = r[4] /\ h[4] = r[5] /\ h[5] = k
  BY DEF Shift
<1>5. Fallback(s) \in {"NORMAL", "SOFTWARE_ID", "CFI_QUERY"} BY DEF Fallback
<1>6. Stands(t, h)
  <2>1. ASSUME <<s, k, t>> \in Edges
        PROVE  /\ t = "UNLOCK1" => s = "NORMAL" /\ k = "unlock1"
               /\ t = "UNLOCK2" => s = "UNLOCK1" /\ k = "unlock2"
               /\ t = "WORD_PROG" => s = "UNLOCK2" /\ k = "program"
               /\ t = "ERASE1" => s = "UNLOCK2" /\ k = "erase"
               /\ t = "ERASE2" => s = "ERASE1" /\ k = "unlock1"
               /\ t = "ERASE3" => s = "ERASE2" /\ k = "unlock2"
    BY <2>1 DEF Edges
  <2> HIDE DEF t, h
  <2>2. CASE t = Fallback(s) BY <1>5, <2>2 DEF Stands
  <2>3. CASE <<s, k, t>> \in Edges BY <1>4, <2>1, <2>3 DEF Stands
  <2> QED BY <1>1, <2>2, <2>3
<1> QED BY <1>2, <1>3, <1>6

LEMMA PutData ==
  ASSUME NEW f \in [state : States, data : Contents], NEW c \in Cycle
  PROVE  /\ Put(f, c).data \in Contents
         /\ Put(f, c).state = NextState(f.state, Kind(c))
         /\ Put(f, c) \in [state : {NextState(f.state, Kind(c))}, data : Contents]
<1>1. Programmed(f.data, c) \in Contents
  BY DEF Programmed, Contents, Cycle
<1>2. \A area : Erased(f.data, area) \in Contents
  BY DEF Erased, Contents
<1> QED BY <1>1, <1>2 DEF Put

LEMMA WriteCycleKeeps ==
  ASSUME FlashInv, NEW c \in Cycle, WriteCycle(c)
  PROVE  /\ flash' \in [state : States, data : Contents]
         /\ recent' \in [1..5 -> Kinds \cup {"none"}]
         /\ Stands(flash.state, recent)'
<1>1. /\ flash \in [state : States, data : Contents]
      /\ recent \in [1..5 -> Kinds \cup {"none"}] /\ Stands(flash.state, recent)
  BY DEF FlashInv, FlashTypeOK
<1>2. flash' = Put(flash, c) /\ recent' = Shift(recent, Kind(c)) BY DEF WriteCycle
<1>3. Kind(c) \in Kinds BY KindIsKind
<1>4. /\ NextState(flash.state, Kind(c)) \in States
      /\ recent' \in [1..5 -> Kinds \cup {"none"}]
      /\ Stands(NextState(flash.state, Kind(c)), recent')
  BY <1>1, <1>2, <1>3, CycleKeeps
<1>5. /\ flash'.state = NextState(flash.state, Kind(c))
      /\ flash' \in [state : {NextState(flash.state, Kind(c))}, data : Contents]
  BY <1>1, <1>2, PutData
<1> QED BY <1>4, <1>5

LEMMA FlashInvInductive == FlashInv /\ [Next]_vars => FlashInv'
<1> SUFFICES ASSUME FlashInv, [Next]_vars PROVE FlashInv' OBVIOUS
<1>1. /\ flash \in [state : States, data : Contents]
      /\ half \in Addr \cup {NoHalf}
      /\ recent \in [1..5 -> Kinds \cup {"none"}] /\ Stands(flash.state, recent)
  BY DEF FlashInv, FlashTypeOK
<1>2. None \in [1..5 -> Kinds \cup {"none"}] BY DEF None
<1>3. CASE WriteHalf
  BY <1>1, <1>3, WriteCycleKeeps DEF WriteHalf, FlashInv, FlashTypeOK
<1>4. CASE WriteByte
  BY <1>1, <1>4, WriteCycleKeeps DEF WriteByte, FlashInv, FlashTypeOK
<1>5. CASE WriteWordUpper
  BY <1>1, <1>5, WriteCycleKeeps DEF WriteWordUpper, FlashInv, FlashTypeOK
<1>6. CASE WriteWordLower
  BY <1>1, <1>6, WriteCycleKeeps DEF WriteWordLower, FlashInv, FlashTypeOK
<1>7. CASE Read
  BY <1>1, <1>2, <1>7 DEF Read, Get, FlashInv, FlashTypeOK, States, Stands
<1>8. CASE Reset
  BY <1>1, <1>2, <1>8 DEF Reset, FlashInv, FlashTypeOK, States, Stands
<1>9. CASE UNCHANGED vars
  BY <1>1, <1>9 DEF vars, FlashInv, FlashTypeOK
<1> QED BY <1>3, <1>4, <1>5, <1>6, <1>7, <1>8, <1>9 DEF Next

LEMMA FlashInvHolds == Spec => []FlashInv
<1>1. Init => FlashInv
  BY DEF Init, FlashInv, FlashTypeOK, States, Stands, None, Kinds
<1> QED BY <1>1, FlashInvInductive, PTL DEF Spec

\* The flash stays in a state of its switch, whatever the guest accesses.
THEOREM FlashTypeCorrect == Spec => []FlashTypeOK
<1>1. FlashInv => FlashTypeOK BY DEF FlashInv
<1> QED BY <1>1, FlashInvHolds, PTL

-----------------------------------------------------------------------------
(***************************************************************************)
(* The flash implements FlashArray.                                        *)
(***************************************************************************)
LEMMA WriteCycleIsArrayStep ==
  ASSUME FlashInv, NEW c \in Cycle, WriteCycle(c)
  PROVE  Array!WriteCycle
<1> USE DEF Array!WriteCycle
<1>1. /\ flash \in [state : States, data : Contents] /\ Stands(flash.state, recent)
  BY DEF FlashInv, FlashTypeOK
<1>2. flash' = Put(flash, c) /\ recent' = Shift(recent, Kind(c)) BY DEF WriteCycle
<1>3. Kind(c) \in Kinds BY KindIsKind
<1>4. \E k \in Array!Kinds : recent' = Array!Shift(recent, k)
  BY <1>2, <1>3 DEF Shift, Array!Shift, None, Array!None, Kinds, Array!Kinds
<1>5. CASE flash.state = "WORD_PROG"
  <2>1. flash'.data = Programmed(flash.data, c) BY <1>2, <1>5 DEF Put
  <2>2. c.addr \in Addr /\ flash.data[c.addr] \cap c.high \in SUBSET flash.data[c.addr]
    BY DEF Cycle
  <2>3. \E a \in Addr : \E v \in SUBSET flash.data[a] :
          flash'.data = [flash.data EXCEPT ![a] = v]
    BY <2>1, <2>2 DEF Programmed
  <2>4. Array!ProgramUnlocked BY <1>1, <1>5 DEF Stands, Array!ProgramUnlocked
  <2> QED BY <1>4, <2>3, <2>4 DEF Array!ProgramCycle
<1>6. CASE flash.state = "ERASE3"
  <2>1. flash'.data = Erased(flash.data, ErasedBy(c)) BY <1>2, <1>6 DEF Put
  <2>2. c.addr \in Addr BY DEF Cycle
  <2>3. CASE c.low \in {"10", "30", "50"}
    <3>1. ErasedBy(c) \in Areas(c.addr)
      <4>1. CASE c.low = "10"
        <5>1. ErasedBy(c) = Addr BY <4>1 DEF ErasedBy
        <5> QED BY <5>1 DEF Areas
      <4>2. CASE c.low = "30"
        <5>1. ErasedBy(c) = {x \in Addr : SectorOf(x) = SectorOf(c.addr)}
          BY <4>2 DEF ErasedBy
        <5> QED BY <5>1 DEF Areas
      <4>3. CASE c.low = "50"
        <5>1. ErasedBy(c) = {x \in Addr : BlockOf(x) = BlockOf(c.addr)}
          BY <4>3 DEF ErasedBy
        <5> QED BY <5>1 DEF Areas
      <4> QED BY <2>3, <4>1, <4>2, <4>3
    <3>2. Areas(c.addr) = Array!Areas(c.addr)
      BY DEF Areas, Array!Areas, SectorOf, Array!SectorOf, BlockOf, Array!BlockOf
    <3>3. flash'.data = Array!Erased(flash.data, ErasedBy(c))
      BY <2>1 DEF Erased, Array!Erased
    <3>4. Array!EraseUnlocked BY <1>1, <1>6 DEF Stands, Array!EraseUnlocked
    <3>5. Array!EraseCycle BY <2>2, <3>1, <3>2, <3>3, <3>4 DEF Array!EraseCycle
    <3> QED BY <1>4, <3>5
  <2>4. CASE c.low \notin {"10", "30", "50"}
    <3>1. ErasedBy(c) = {} BY <2>4 DEF ErasedBy
    <3>2. flash'.data = flash.data BY <1>1, <2>1, <3>1 DEF Erased, Contents
    <3> QED BY <1>4, <3>2
  <2> QED BY <2>3, <2>4
<1>7. CASE flash.state \notin {"WORD_PROG", "ERASE3"}
  <2>1. flash'.data = flash.data BY <1>2, <1>7 DEF Put
  <2> QED BY <1>4, <2>1
<1> QED BY <1>5, <1>6, <1>7

\* The contents change only by the cycle that completes a program or erase
\* command, its unlock cycles right before it, whatever bytes, halfwords and
\* words are written and read and whenever the machine is reset.
THEOREM FlashImplementsArray == Spec => ArraySpec
<1>1. Init => Array!ArrayInit
  BY DEF Init, Array!ArrayInit, Contents, Array!Contents, None, Array!None
<1>2. FlashInv /\ [Next]_vars
        => [Array!WriteCycle \/ Array!Interrupt]_(Array!arrayVars)
  <2> SUFFICES ASSUME FlashInv, [Next]_vars
               PROVE  \/ Array!WriteCycle \/ Array!Interrupt
                      \/ UNCHANGED <<flash.data, recent>>
    BY DEF Array!arrayVars
  <2>1. CASE WriteHalf BY <2>1, WriteCycleIsArrayStep DEF WriteHalf
  <2>2. CASE WriteByte BY <2>2, WriteCycleIsArrayStep DEF WriteByte
  <2>3. CASE WriteWordUpper BY <2>3, WriteCycleIsArrayStep DEF WriteWordUpper
  <2>4. CASE WriteWordLower BY <2>4, WriteCycleIsArrayStep DEF WriteWordLower
  <2>5. CASE Read
    BY <2>5 DEF Read, Get, FlashInv, FlashTypeOK, Array!Interrupt, None, Array!None
  <2>6. CASE Reset
    BY <2>6 DEF Reset, FlashInv, FlashTypeOK, Array!Interrupt, None, Array!None
  <2>7. CASE UNCHANGED vars BY <2>7 DEF vars
  <2> QED BY <2>1, <2>2, <2>3, <2>4, <2>5, <2>6, <2>7 DEF Next
<1> QED BY <1>1, <1>2, FlashInvHolds, PTL DEF Spec, ArraySpec, Array!ArraySpec

\* From any state two F0 writes, or a read and one, lead back to the contents.
THEOREM TwoResetsReturnTheorem == Spec => []TwoResetsReturn
<1>1. FlashInv => TwoResetsReturn
  <2> SUFFICES ASSUME FlashInv, NEW a \in Addr
               PROVE  LET f0 == [addr |-> a, low |-> "f0", high |-> Bit]
                      IN /\ Put2(flash, f0, f0).state = "NORMAL"
                         /\ Put(Get(flash), f0).state = "NORMAL"
    BY DEF TwoResetsReturn
  <2> DEFINE f0 == [addr |-> a, low |-> "f0", high |-> Bit]
  <2>1. Kind(f0) \in {"exit", "reset"} BY DEF Kind
  <2>2. flash.state \in States BY DEF FlashInv, FlashTypeOK
  <2>3. ASSUME NEW s \in States
        PROVE  /\ s \in {"SOFTWARE_ID", "CFI_QUERY"} => NextState(s, Kind(f0)) = "NORMAL"
               /\ s \in {"SOFTWARE_EXIT1", "SOFTWARE_EXIT2"}
                    => NextState(s, Kind(f0)) \in {"SOFTWARE_ID", "NORMAL"}
               /\ s \in {"CFI_QUERY_EXIT1", "CFI_QUERY_EXIT2"}
                    => NextState(s, Kind(f0)) \in {"CFI_QUERY", "NORMAL"}
               /\ s \notin {"SOFTWARE_ID", "SOFTWARE_EXIT1", "SOFTWARE_EXIT2",
                            "CFI_QUERY", "CFI_QUERY_EXIT1", "CFI_QUERY_EXIT2"}
                    => NextState(s, Kind(f0)) = "NORMAL"
    <3> DEFINE k == Kind(f0)
               t == NextState(s, k)
    <3>1. k \in {"exit", "reset"} BY <2>1
    <3> HIDE DEF k
    <3>2. t = Fallback(s) \/ <<s, k, t>> \in Edges BY NextStateIs
    <3>3. s \in {"SOFTWARE_ID", "CFI_QUERY"} => t = "NORMAL"
      <4> SUFFICES ASSUME s \in {"SOFTWARE_ID", "CFI_QUERY"} PROVE t = "NORMAL" OBVIOUS
      <4>1. <<s, k, "NORMAL">> \in {e \in Edges : e[1] = s /\ e[2] = k}
        BY <3>1 DEF Edges
      <4>2. \A e \in Edges : e[1] = s /\ e[2] = k => e[3] = "NORMAL"
        BY <3>1 DEF Edges
      <4> QED BY <4>1, <4>2 DEF NextState
    <3>4. <<s, k, t>> \in Edges =>
            s \in {"SOFTWARE_ID", "CFI_QUERY", "SOFTWARE_EXIT2", "CFI_QUERY_EXIT2"}
              /\ t = "NORMAL"
      BY <3>1 DEF Edges
    <3> HIDE DEF t
    <3> QED BY <3>2, <3>3, <3>4 DEF Fallback, k, t
  <2>4. \A f, c : Put(f, c).state = NextState(f.state, Kind(c)) BY DEF Put
  <2>5. NextState(NextState(flash.state, Kind(f0)), Kind(f0)) = "NORMAL"
    <3>1. NextState(flash.state, Kind(f0)) \in {"NORMAL", "SOFTWARE_ID", "CFI_QUERY"}
      BY <2>2, <2>3
    <3> HIDE DEF f0
    <3> QED BY <2>3, <3>1 DEF States
  <2>6. Get(flash).state \in {"NORMAL", "SOFTWARE_ID", "CFI_QUERY"}
    BY DEF Get, FlashInv, FlashTypeOK
  <2>7. NextState(Get(flash).state, Kind(f0)) = "NORMAL"
    <3> HIDE DEF f0
    <3> QED BY <2>3, <2>6 DEF States
  <2> QED BY <2>4, <2>5, <2>7 DEF Put2
<1> QED BY <1>1, FlashInvHolds, PTL

\* A cycle that continues a command takes the edge of the switch, of which
\* there is one for each state and kind.
LEMMA NextStateAlong ==
  ASSUME NEW s, NEW k, NEW t, <<s, k, t>> \in Edges
  PROVE  NextState(s, k) = t
<1> DEFINE hits == {e \in Edges : e[1] = s /\ e[2] = k}
<1>1. \A e \in Edges : e[1] = s /\ e[2] = k => e[3] = t BY DEF Edges
<1>2. <<s, k, t>> \in hits OBVIOUS
<1>3. (CHOOSE e \in hits : TRUE) \in hits BY <1>2
<1> QED BY <1>1, <1>2, <1>3 DEF NextState

\* WORD_PROG and ERASE3 end with the cycle that carries the command out.
LEMMA LastCycle ==
  ASSUME NEW s \in {"WORD_PROG", "ERASE3"}, NEW k
  PROVE  NextState(s, k) = "NORMAL"
<1>1. \A e \in Edges : e[1] # s BY DEF Edges
<1> QED BY <1>1 DEF NextState, Fallback

\* The cycles of the unlock sequences leave the contents alone.
LEMMA PutAlong ==
  ASSUME NEW d, NEW s, NEW c, NEW t, <<s, Kind(c), t>> \in Edges
  PROVE  Put([state |-> s, data |-> d], c) = [state |-> t, data |-> d]
<1>1. s \notin {"WORD_PROG", "ERASE3"} BY DEF Edges
<1> QED BY <1>1, NextStateAlong DEF Put

\* What the data sheet calls the program and the erase command: from direct
\* reading the unlock cycles, the command and its last cycle do what it says
\* to any contents, and the flash is read directly again (flash_put_halfword).
THEOREM CommandsWorkTheorem == Spec => []CommandsWork
<1>1. FlashInv => CommandsWork
  <2> SUFFICES ASSUME FlashInv, flash.state = "NORMAL", NEW c \in Cycle
               PROVE  LET unlocked == Put2(flash, Unlock1, Unlock2)
                          program == Put(unlocked, At1("a0"))
                          erase == Put2(Put(unlocked, At1("80")), Unlock1, Unlock2)
                      IN /\ Put(program, c) = [flash EXCEPT !.data = Programmed(flash.data, c)]
                         /\ Put(erase, c)
                              = [flash EXCEPT !.data = Erased(flash.data, ErasedBy(c))]
    BY DEF CommandsWork
  <2> DEFINE In(s) == [state |-> s, data |-> flash.data]
  <2>1. flash \in [state : States, data : Contents] BY DEF FlashInv, FlashTypeOK
  <2>2. flash = In("NORMAL") BY <2>1
  <2>3. /\ Kind(Unlock1) = "unlock1" /\ Kind(Unlock2) = "unlock2"
        /\ Kind(At1("a0")) = "program" /\ Kind(At1("80")) = "erase"
    BY DEF Kind, Unlock1, Unlock2, At1, ADDR1, ADDR2
  <2>4. /\ <<"NORMAL", "unlock1", "UNLOCK1">> \in Edges
        /\ <<"UNLOCK1", "unlock2", "UNLOCK2">> \in Edges
        /\ <<"UNLOCK2", "program", "WORD_PROG">> \in Edges
        /\ <<"UNLOCK2", "erase", "ERASE1">> \in Edges
        /\ <<"ERASE1", "unlock1", "ERASE2">> \in Edges
        /\ <<"ERASE2", "unlock2", "ERASE3">> \in Edges
    BY DEF Edges
  <2>5. ASSUME NEW s, NEW x, NEW t, <<s, Kind(x), t>> \in Edges
        PROVE  Put(In(s), x) = In(t)
    BY <2>5, PutAlong
  <2>6. Put2(flash, Unlock1, Unlock2) = In("UNLOCK2")
    <3>1. Put(In("NORMAL"), Unlock1) = In("UNLOCK1") BY <2>3, <2>4, <2>5
    <3>2. Put(In("UNLOCK1"), Unlock2) = In("UNLOCK2") BY <2>3, <2>4, <2>5
    <3> QED BY <2>2, <3>1, <3>2 DEF Put2
  <2>7. Put(In("UNLOCK2"), At1("a0")) = In("WORD_PROG") BY <2>3, <2>4, <2>5
  <2>8. Put2(Put(In("UNLOCK2"), At1("80")), Unlock1, Unlock2) = In("ERASE3")
    <3>1. Put(In("UNLOCK2"), At1("80")) = In("ERASE1") BY <2>3, <2>4, <2>5
    <3>2. Put(In("ERASE1"), Unlock1) = In("ERASE2") BY <2>3, <2>4, <2>5
    <3>3. Put(In("ERASE2"), Unlock2) = In("ERASE3") BY <2>3, <2>4, <2>5
    <3> QED BY <3>1, <3>2, <3>3 DEF Put2
  <2>9. Put(In("WORD_PROG"), c) = [flash EXCEPT !.data = Programmed(flash.data, c)]
    BY <2>2, LastCycle DEF Put
  <2>10. Put(In("ERASE3"), c) = [flash EXCEPT !.data = Erased(flash.data, ErasedBy(c))]
    BY <2>2, LastCycle DEF Put
  <2> HIDE DEF In
  <2> QED BY <2>6, <2>7, <2>8, <2>9, <2>10
<1> QED BY <1>1, FlashInvHolds, PTL
=============================================================================
