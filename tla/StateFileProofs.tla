-------------------------- MODULE StateFileProofs ---------------------------
(***************************************************************************)
(* What a start finds in the state file, for any keys, values and memories *)
(* and any number of runs, failures and crashes.                           *)
(***************************************************************************)
EXTENDS StateFile, TLAPS

Last == Layout[Len(Layout)]
Whole(text) == \A k \in Reg : text[k] # Absent
Holds(text, w) == \A k \in Reg : text[k] = w[k]
\* What a save writes of the cells r.
Written(r) == [k \in Reg |-> r[Home(k)]]

\* Where the program is says what file and configuration have: they are those
\* of the start until the file is truncated.
Program ==
  /\ phase \in {"running", "collected"} => Usable(file)
  /\ phase \in {"collected", "truncated"} =>
       /\ Holds(config, Written(reg))
       /\ \A k \in Names : config[k] # Absent
  /\ phase = "truncated" => given = Written(reg) /\ interrupted /\ quit = None

\* What the file has of the last save that got to it: all, or a part in which
\* only the last value may differ and stand.
Saved ==
  /\ ~interrupted => Usable(file) /\ Holds(file.text, given)
  /\ Usable(file) /\ Whole(file.text) =>
       \A k \in Reg \ {Last} : file.text[k] = given[k]

Quitted ==
  phase = "down" /\ quit # None =>
    ~interrupted /\ Written(quit.reg) = given /\ quit.mem = mem

StateInv == StateTypeOK /\ Program /\ Saved /\ Quitted

-----------------------------------------------------------------------------
(***************************************************************************)
(* What the operators of StateFile do.                                     *)
(***************************************************************************)
\* Registers and names are the two kinds of keys.
LEMMA KeysAreOfLayout ==
  /\ Reg \subseteq Key /\ Names \subseteq Key /\ Reg \cap Names = {}
  /\ Key = Reg \cup Names
  /\ Last \in Key
BY StateAssumption DEF Reg, Key, Last

\* A missing key is told from any value.
LEMMA AbsentIsNoValue == Absent \notin Val
BY StateAssumption DEF Absent

\* What stands for a register is a cell, which the file has the value of.
LEMMA HomesAreCells ==
  /\ Reg \subseteq Cell
  /\ \A k \in Reg : Home(k) \in Cell
  /\ \A r \in [Cell -> Val] : Written(r) \in [Reg -> Val]
<1>1. Reg \subseteq Cell BY DEF Cell
<1>2. \A k \in Reg : Home(k) \in Cell BY DEF Cell, Home
<1>3. ASSUME NEW r \in [Cell -> Val] PROVE Written(r) \in [Reg -> Val]
  BY <1>2 DEF Written
<1> QED BY <1>1, <1>2, <1>3

\* A save puts what a register stands for in its place, and changes no more.
LEMMA SavingWrites ==
  ASSUME NEW r \in [Cell -> Val]
  PROVE  /\ Saving(r) \in [Cell -> Val]
         /\ \A k \in Reg : Saving(r)[k] = Saving(r)[Home(k)]
<1>1. ASSUME NEW c \in Cell
      PROVE  (IF c \in DOMAIN Held THEN r[Held[c]] ELSE r[c]) \in Val
  BY DEF Cell
<1>2. Saving(r) \in [Cell -> Val] BY <1>1 DEF Saving
<1>3. ASSUME NEW k \in Reg PROVE Saving(r)[k] = Saving(r)[Home(k)]
  <2>1. CASE k \in DOMAIN Held
    <3>1. Held[k] \in Cell /\ Held[k] \notin DOMAIN Held
      BY <2>1, StateAssumption DEF Cell, Reg
    <3>2. Saving(r)[k] = r[Held[k]] BY <2>1, HomesAreCells DEF Saving
    <3>3. Saving(r)[Held[k]] = r[Held[k]] BY <3>1 DEF Saving
    <3> QED BY <2>1, <3>2, <3>3 DEF Home
  <2>2. CASE k \notin DOMAIN Held BY <2>2 DEF Home
  <2> QED BY <2>1, <2>2
<1> QED BY <1>2, <1>3

\* A text that has all registers is loaded as it is.
LEMMA StartedWhole ==
  ASSUME NEW text \in Text, NEW r \in [Reg -> Val], Holds(text, r)
  PROVE  Started(text) = r
<1>1. \A k \in Reg : text[k] # Absent
  BY AbsentIsNoValue DEF Holds
<1>2. Loaded(text) = [k \in Reg |-> r[k]]
  BY <1>1 DEF Loaded, Holds
<1> QED BY <1>1, <1>2 DEF Started

\* The place of a key is where the layout has it.
LEMMA PlaceOfKey ==
  ASSUME NEW k \in Key
  PROVE  Place(k) \in DOMAIN Layout /\ Layout[Place(k)] = k
BY DEF Place, Key

\* The last key of the layout is at its end.
LEMMA PlaceOfLast == Place(Last) = Len(Layout)
<1>1. Layout \in Seq(Key) /\ Len(Layout) \in DOMAIN Layout
  BY StateAssumption
<1>2. Place(Last) \in DOMAIN Layout /\ Layout[Place(Last)] = Layout[Len(Layout)]
  BY PlaceOfKey, KeysAreOfLayout DEF Last
<1> QED BY <1>1, <1>2, StateAssumption

\* A torn text that has every key differs in the last value alone.
LEMMA TornText ==
  ASSUME NEW text \in Text, NEW t \in Torn(text)
  PROVE  /\ t \in Text
         /\ (\A k \in Key : t[k] # Absent) =>
              \A k \in Key \ {Last} : t[k] = text[k]
<1>1. PICK n \in DOMAIN Layout, v \in Val \cup {Absent} : t = Cut(text, n, v)
  BY DEF Torn
<1>2. t \in Text
  BY <1>1 DEF Cut, Text
<1>3. ASSUME \A k \in Key : t[k] # Absent, NEW k \in Key \ {Last}
      PROVE  t[k] = text[k]
  <2>1. n \in 1..Len(Layout) /\ Len(Layout) \in Nat
    BY <1>1, StateAssumption
  <2>2. Len(Layout) <= n
    <3>1. t[Last] # Absent
      BY <1>3, KeysAreOfLayout
    <3>2. t[Last] = IF Place(Last) < n THEN text[Last]
                    ELSE IF Place(Last) = n THEN v ELSE Absent
      BY <1>1, KeysAreOfLayout DEF Cut
    <3> QED BY <2>1, <3>1, <3>2, PlaceOfLast
  <2>3. Place(k) \in 1..Len(Layout) /\ Place(k) # Len(Layout)
    BY <2>1, PlaceOfKey, StateAssumption DEF Last
  <2> QED BY <1>1, <2>1, <2>2, <2>3 DEF Cut
<1> QED BY <1>2, <1>3

-----------------------------------------------------------------------------
(***************************************************************************)
(* The invariant.                                                          *)
(***************************************************************************)
\* The first start finds a reset machine and no state, or a usable one.
LEMMA StateInitInv == StateInit => StateInv
<1> SUFFICES ASSUME StateInit PROVE StateInv
  OBVIOUS
<1>1. PICK v \in Val : file = [parses |-> TRUE, text |-> FreshText(v)]
  BY DEF StateInit
<1>2. FreshText(v) \in Text /\ Empty \in Text
  BY DEF FreshText, Text, Empty
<1>3. Reset \in [Cell -> Val] /\ [k \in Reg |-> Reset[k]] \in [Reg -> Val]
  BY StateAssumption, HomesAreCells
<1>4. StateTypeOK
  BY <1>1, <1>2, <1>3 DEF StateInit, StateTypeOK, Phases
<1>5. Program
  BY DEF StateInit, Program
<1>6. Saved
  BY <1>1, KeysAreOfLayout DEF StateInit, Saved, FreshText, Whole
<1>7. Quitted
  BY DEF StateInit, Quitted
<1> QED BY <1>4, <1>5, <1>6, <1>7 DEF StateInv

\* As long as the file and what was given are the same, so is what it has.
LEMMA SavedStays ==
  ASSUME Saved, UNCHANGED <<file, given, interrupted>>
  PROVE  Saved'
BY DEF Saved, Usable, Whole, Holds

\* A start, the main loop and a save up to the truncation.
LEMMA RunningKeepsInv ==
  ASSUME StateInv, Start \/ Run \/ Collect
  PROVE  StateInv'
<1> USE DEF StateInv
<1>1. UNCHANGED <<file, given, interrupted>>
  BY DEF Start, Run, Collect
<1>2. Saved'
  BY <1>1, SavedStays
<1>3. Usable(file)' = Usable(file)
  BY <1>1 DEF Usable
<1>4. Quitted'
  BY DEF Quitted, Start, Run, Collect
<1>5. CASE Start
  <2>2. StateTypeOK'
    BY <1>5 DEF Start, StateTypeOK, Phases, Machines
  <2>3. Program'
    BY <1>3, <1>5 DEF Start, Program
  <2> QED BY <1>2, <1>4, <2>2, <2>3
<1>6. CASE Run
  <2>1. StateTypeOK'
    BY <1>6 DEF Run, StateTypeOK
  <2>2. Program'
    BY <1>3, <1>6 DEF Run, Program
  <2> QED BY <1>2, <1>4, <2>1, <2>2
<1>7. CASE Collect
  <2>1. config' = [k \in Key |-> IF k \in Names THEN file.text[k] ELSE reg'[k]]
    BY <1>7 DEF Collect, Collected
  <2>2. /\ file.text \in Text /\ reg' \in [Cell -> Val]
        /\ \A k \in Reg : reg'[k] = reg'[Home(k)]
    BY <1>7, SavingWrites DEF StateTypeOK, Collect
  <2>3. \A k \in Key : config'[k] \in Val \cup {Absent}
    BY <2>1, <2>2, KeysAreOfLayout, HomesAreCells DEF Text
  <2>4. StateTypeOK'
    BY <1>7, <2>1, <2>2, <2>3 DEF Collect, StateTypeOK, Phases, Text
  <2>5. Holds(config, Written(reg))'
    BY <2>1, <2>2, KeysAreOfLayout DEF Holds, Written
  <2>6. phase = "running" /\ phase' = "collected"
    BY <1>7 DEF Collect
  <2>7. \A k \in Names : config'[k] # Absent
    BY <2>1, <2>6, KeysAreOfLayout DEF Program, Usable
  <2>8. Program'
    BY <1>3, <2>5, <2>6, <2>7 DEF Program
  <2> QED BY <1>2, <1>4, <2>4, <2>8
<1> QED BY <1>5, <1>6, <1>7

\* What ends the program without touching the file.
LEMMA EndingKeepsInv ==
  ASSUME StateInv, CollectFails \/ OpenFails \/ Crash
  PROVE  StateInv'
<1> USE DEF StateInv
<1>1. UNCHANGED <<file, given, interrupted>>
  BY DEF CollectFails, OpenFails, Crash
<1>2. Saved'
  BY <1>1, SavedStays
<1>3. phase' = "down" /\ quit' = None /\ UNCHANGED <<reg, mem, file, config, given, interrupted>>
  BY DEF CollectFails, OpenFails, Crash
<1>4. StateTypeOK'
  BY <1>3 DEF StateTypeOK, Phases
<1>5. Program' /\ Quitted'
  BY <1>3 DEF Program, Quitted
<1> QED BY <1>2, <1>4, <1>5

\* The file is emptied: from here to the end of the write nothing is promised.
LEMMA TruncateKeepsInv ==
  ASSUME StateInv, Truncate
  PROVE  StateInv'
<1> USE DEF StateInv
<1>1. phase = "collected" /\ phase' = "truncated" /\ interrupted' = TRUE
      /\ quit' = None /\ UNCHANGED <<reg, mem, config>>
  BY DEF Truncate
<1>2. file' \in [parses : BOOLEAN, text : Text] /\ file'.text = Empty
  BY DEF Truncate, Empty, Text
<1>3. given' = Written(reg) /\ given' \in [Reg -> Val]
  <2>1. Written(reg) \in [Reg -> Val]
    BY HomesAreCells DEF StateTypeOK
  <2>2. given' = [k \in Reg |-> config[k]]
    BY DEF Truncate
  <2> QED BY <1>1, <2>1, <2>2 DEF Program, Holds
<1>4. StateTypeOK'
  BY <1>1, <1>2, <1>3 DEF StateTypeOK, Phases
<1>5. Program'
  BY <1>1, <1>3 DEF Program, Holds, Written
<1>6. Saved'
  BY <1>1, <1>2, KeysAreOfLayout DEF Saved, Whole, Empty
<1>7. Quitted'
  BY <1>1 DEF Quitted
<1> QED BY <1>4, <1>5, <1>6, <1>7

\* A complete write makes the file hold the registers again.
LEMMA WriteKeepsInv ==
  ASSUME StateInv, Write
  PROVE  StateInv'
<1> USE DEF StateInv
<1>1. phase = "truncated" /\ phase' = "down" /\ interrupted' = FALSE
      /\ file' = [parses |-> TRUE, text |-> config]
      /\ quit' = [reg |-> reg, mem |-> mem] /\ UNCHANGED <<reg, mem, config, given>>
  BY DEF Write
<1>2. StateTypeOK'
  BY <1>1 DEF StateTypeOK, Phases
<1>3. Program'
  BY <1>1 DEF Program
<1>4. Usable(file)' /\ Holds(file.text, given)'
  BY <1>1 DEF Program, Usable, Holds
<1>5. Saved'
  BY <1>4 DEF Saved, Holds
<1>6. Quitted'
  BY <1>1 DEF Quitted, Program
<1> QED BY <1>2, <1>3, <1>5, <1>6

\* A write that is cut off leaves a part of the text.
LEMMA WriteTornKeepsInv ==
  ASSUME StateInv, WriteTorn
  PROVE  StateInv'
<1> USE DEF StateInv
<1>1. phase = "truncated" /\ phase' = "down"
      /\ UNCHANGED <<reg, mem, config, given, interrupted, quit>>
  BY DEF WriteTorn
<1>2. file' \in [parses : BOOLEAN, text : Torn(config)] /\ config \in Text
  BY DEF WriteTorn, StateTypeOK
<1>3. file'.text \in Torn(config) /\ file'.parses \in BOOLEAN
      /\ file' = [parses |-> file'.parses, text |-> file'.text]
  BY <1>2
<1>4. file'.text \in Text
  BY <1>2, <1>3, TornText
<1>5. StateTypeOK'
  BY <1>1, <1>3, <1>4 DEF StateTypeOK, Phases
<1>6. Program' /\ Quitted'
  BY <1>1 DEF Program, Quitted
<1>7. ASSUME Usable(file)', Whole(file.text)', NEW k \in Reg \ {Last}
      PROVE  file'.text[k] = given'[k]
  <2>1. \A j \in Key : file'.text[j] # Absent
    BY <1>7, KeysAreOfLayout DEF Usable, Whole
  <2>2. file'.text[k] = config[k]
    BY <1>2, <1>3, <2>1, TornText, KeysAreOfLayout
  <2>3. config[k] = given[k]
    BY <1>1 DEF Program, Holds
  <2> QED BY <1>1, <2>2, <2>3
<1>8. Saved'
  BY <1>1, <1>7 DEF Saved, Program
<1> QED BY <1>5, <1>6, <1>8

\* A fresh file starts a machine that was reset.
LEMMA NewConfigKeepsInv ==
  ASSUME StateInv, NewConfig
  PROVE  StateInv'
<1> USE DEF StateInv
<1>1. PICK v \in Val : file' = [parses |-> TRUE, text |-> FreshText(v)]
  BY DEF NewConfig
<1>2. phase = "down" /\ given' = [k \in Reg |-> Reset[k]] /\ interrupted' = TRUE /\ quit' = None
      /\ UNCHANGED <<phase, reg, mem, config>>
  BY DEF NewConfig
<1>3. FreshText(v) \in Text /\ [k \in Reg |-> Reset[k]] \in [Reg -> Val]
  BY StateAssumption, HomesAreCells DEF FreshText, Text
<1>4. StateTypeOK'
  BY <1>1, <1>2, <1>3 DEF StateTypeOK, Phases
<1>5. Program' /\ Quitted'
  BY <1>2 DEF Program, Quitted
<1>6. Saved'
  BY <1>1, <1>2, KeysAreOfLayout DEF Saved, FreshText, Whole
<1> QED BY <1>4, <1>5, <1>6

\* Every step of module.c keeps the invariant.
LEMMA StateNextKeeps == StateInv /\ [StateNext]_stateVars => StateInv'
<1> SUFFICES ASSUME StateInv, [StateNext]_stateVars PROVE StateInv'
  OBVIOUS
<1>1. CASE Start \/ Run \/ Collect
  BY <1>1, RunningKeepsInv
<1>2. CASE CollectFails \/ OpenFails \/ Crash
  BY <1>2, EndingKeepsInv
<1>3. CASE Truncate
  BY <1>3, TruncateKeepsInv
<1>4. CASE Write
  BY <1>4, WriteKeepsInv
<1>5. CASE WriteTorn
  BY <1>5, WriteTornKeepsInv
<1>6. CASE NewConfig
  BY <1>6, NewConfigKeepsInv
<1>7. CASE UNCHANGED stateVars
  BY <1>7 DEF stateVars, StateInv, StateTypeOK, Program, Saved, Quitted, Usable, Whole, Holds, Written
<1> QED BY <1>1, <1>2, <1>3, <1>4, <1>5, <1>6, <1>7 DEF StateNext

\* At every point of load, run and save, what the file, the configuration and
\* the registers hold is what module.c has got to.
THEOREM StateInvariant == StateSpec => []StateInv
BY StateInitInv, StateNextKeeps, PTL DEF StateSpec

-----------------------------------------------------------------------------
\* A program that ended its save hands the next start, key by key, what it had in
\* the cells the keys stand for (x49gp_modules_save, x49gp_modules_load), with the
\* memories as they were.
THEOREM CleanQuitReadsBackTheorem == StateSpec => []CleanQuitReadsBack
<1>1. ASSUME StateInv PROVE CleanQuitReadsBack
  <2> SUFFICES ASSUME phase = "down", quit # None
               PROVE  /\ Usable(file) /\ mem = quit.mem
                      /\ \A k \in Reg : Started(file.text)[k] = quit.reg[Home(k)]
    BY DEF CleanQuitReadsBack
  <2>1. ~interrupted /\ Written(quit.reg) = given /\ quit.mem = mem
    BY <1>1 DEF StateInv, Quitted
  <2>2. Usable(file) /\ Holds(file.text, given)
    BY <1>1, <2>1 DEF StateInv, Saved
  <2>3. file.text \in Text /\ given \in [Reg -> Val]
    BY <1>1 DEF StateInv, StateTypeOK
  <2>4. Started(file.text) = Written(quit.reg)
    BY <2>1, <2>2, <2>3, StartedWhole
  <2> QED BY <2>1, <2>2, <2>4 DEF Written
<1> QED BY <1>1, StateInvariant, PTL

\* No failure of module.c before the truncation, no kill of the program and no
\* run of it costs the state of the last save.
THEOREM OnlySavesLoseTheorem == StateSpec => []OnlySavesLose
<1>1. ASSUME StateInv PROVE OnlySavesLose
  <2>1. StateTypeOK
    BY <1>1 DEF StateInv
  <2>2. ASSUME ~interrupted
        PROVE  Usable(file) /\ Started(file.text) = given
    <3>1. Usable(file) /\ Holds(file.text, given)
      BY <1>1, <2>2 DEF StateInv, Saved
    <3>2. file.text \in Text /\ given \in [Reg -> Val]
      BY <2>1 DEF StateTypeOK
    <3> QED BY <3>1, <3>2, StartedWhole
  <2> QED BY <2>1, <2>2 DEF OnlySavesLose
<1> QED BY <1>1, StateInvariant, PTL

\* Wherever the writing of the file was cut off, main.c starts the machine with
\* the registers of one save or with those of a reset, but for the exceptions
\* the property names.
THEOREM OneStateStartsTheorem == StateSpec => OneStateStarts
<1> DEFINE OneState ==
      phase = "down" /\ phase' = "running" =>
        \/ \A k \in Reg \ {Layout[Len(Layout)]} :
             Home(k) \notin Derived => reg'[Home(k)] = given[k]
        \/ \A k \in Reg \ (Kept \cup Derived) : reg'[k] = Reset[k]
<1>1. ASSUME StateInv, StateNext PROVE OneState
  <2> SUFFICES ASSUME phase = "down", phase' = "running"
               PROVE  \/ \A k \in Reg \ {Last} :
                           Home(k) \notin Derived => reg'[Home(k)] = given[k]
                      \/ \A k \in Reg \ (Kept \cup Derived) : reg'[k] = Reset[k]
    BY DEF Last
  <2>1. Start
    BY <1>1 DEF StateNext, Start, Run, Collect, CollectFails, Truncate, OpenFails,
       Write, WriteTorn, Crash, NewConfig
  <2>2. /\ Usable(file)
        /\ \A k \in Reg : Home(k) \notin Derived => reg'[Home(k)] = Started(file.text)[k]
    BY <2>1 DEF Start, Machines
  <2>3. CASE Whole(file.text)
    <3>1. \A k \in Reg : Started(file.text)[k] = file.text[k]
      BY <2>3 DEF Started, Loaded, Whole
    <3>2. \A k \in Reg \ {Last} : file.text[k] = given[k]
      BY <1>1, <2>2, <2>3 DEF StateInv, Saved
    <3> QED BY <2>2, <3>1, <3>2
  <2>4. CASE ~Whole(file.text)
    <3>1. Started(file.text) = ModulesReset(Loaded(file.text))
      BY <2>4 DEF Started, Whole
    <3>2. \A k \in Reg \ Kept : Started(file.text)[k] = Reset[k]
      BY <3>1 DEF ModulesReset
    <3>3. \A k \in Reg \ Kept : Home(k) = k
      BY StateAssumption DEF Home
    <3> QED BY <2>2, <3>2, <3>3
  <2> QED BY <2>3, <2>4
<1>2. ASSUME StateInv, UNCHANGED stateVars PROVE OneState
  BY <1>2 DEF stateVars
<1>3. StateInv /\ [StateNext]_stateVars => [OneState]_stateVars
  BY <1>1, <1>2
<1> QED BY <1>3, StateInvariant, PTL DEF StateSpec, OneStateStarts
=============================================================================
