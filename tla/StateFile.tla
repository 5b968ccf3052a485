----------------------------- MODULE StateFile ------------------------------
(***************************************************************************)
(* The life of the emulated machine across runs of the program: main.c     *)
(* loads the registers of every module from the state file, and saves them *)
(* to it when the main loop ends (module.c).  The flash and the SRAM are   *)
(* shared mappings of files of their own, whose names the state file has.  *)
(***************************************************************************)
EXTENDS Integers, Sequences

CONSTANTS
  Layout,     \* The keys of the state file, in their order in the file.
  Names,      \* Those that name the files of the memories.
  Held,       \* Held[k] is what the file has for register k in its place: the
              \*   sources held active, for SRCPND and SUBSRCPND.
  Derived,    \* The cells a start makes of its own what they are: SRCPND, halted,
              \*   exception_index, what else loads write behind the reading.
  Kept,       \* What no reset touches: the registers of the RTC's alarm, and
              \*   what is held.
  Val, Reset, \* The values of cells; Reset[k] is the reset value of k.
  Memory      \* The contents of flash and SRAM.

VARIABLES
  phase,      \* Where the program is in main().
  reg, mem,   \* The cells of all modules, the contents of the memories.
  file,       \* The state file: whether it parses, and a value for each key.
  config,     \* The GKeyFile the save writes.
  given,      \* History: what the last save that got to the file wrote,
  interrupted,\*   whether it was left unfinished,
  quit        \*   and the machine as it was when last saved in whole, or None.

stateVars == <<phase, reg, mem, file, config, given, interrupted, quit>>

Key == {Layout[i] : i \in DOMAIN Layout}
Reg == Key \ Names
Cell == Reg \cup {Held[k] : k \in DOMAIN Held}
Home(k) == IF k \in DOMAIN Held THEN Held[k] ELSE k
Absent == -1
None == <<>>

ASSUME StateAssumption ==
  /\ Layout \in Seq(Key) /\ Layout # <<>>
  /\ \A i, j \in DOMAIN Layout : Layout[i] = Layout[j] => i = j
  /\ Names \subseteq Key
  /\ DOMAIN Held \subseteq Reg /\ \A k \in DOMAIN Held : Held[k] \notin Key
  /\ \A j, k \in DOMAIN Held : Held[j] = Held[k] => j = k
  /\ DOMAIN Held \subseteq Derived \cap Kept /\ Derived \subseteq Cell /\ Kept \subseteq Reg
  /\ Val \subseteq Nat /\ Reset \in [Cell -> Val]

Text == [Key -> Val \cup {Absent}]
Phases == {"down", "running", "collected", "truncated"}

(***************************************************************************)
(* Loading.  A key that is missing or has no number for a value counts as  *)
(* absent: the register gets its reset value and the load goes on.         *)
(***************************************************************************)
Loaded(text) == [k \in Reg |-> IF text[k] = Absent THEN Reset[k] ELSE text[k]]

\* x49gp_modules_reset
ModulesReset(r) == [k \in Reg |-> IF k \in Kept THEN r[k] ELSE Reset[k]]

\* Variation: no reset after an incomplete load.
StartedLenient(text) == Loaded(text)

\* What main() gives the machine from the file: after an incomplete load,
\* everything is reset.
Started(text) ==
  IF \A k \in Reg : text[k] # Absent THEN Loaded(text) ELSE ModulesReset(Loaded(text))

\* The machines these values are found in.  The loads move what was held out of
\* SRCPND, start counts, lines and the core's exception anew, and main() ends
\* with x49gp_set_idle: those cells are as each module makes them.
Machines(s) ==
  {r \in [Cell -> Val] : \A k \in Reg : Home(k) \notin Derived => r[Home(k)] = s[k]}

\* Without a memory's file, or with a state file that does not parse, the
\* program exits, and the files are as they were.
Usable(f) == f.parses /\ \A k \in Names : f.text[k] # Absent

Start ==
  /\ phase = "down" /\ Usable(file)
  /\ phase' = "running" /\ reg' \in Machines(Started(file.text))
  /\ UNCHANGED <<mem, file, config, given, interrupted, quit>>

\* The main loop.  The memories are shared with their files: what the guest
\* writes is there whatever becomes of the program.
Run ==
  /\ phase = "running"
  /\ \/ \E c \in Cell, v \in Val : reg' = [reg EXCEPT ![c] = v] /\ UNCHANGED mem
     \/ mem' \in Memory /\ UNCHANGED reg
  /\ UNCHANGED <<phase, file, config, given, interrupted, quit>>

(***************************************************************************)
(* Saving.                                                                 *)
(***************************************************************************)
\* Variation: the registers are saved as they are.
SavingAsIs(r) == r

\* The modules' save functions: s3c2410_intc_save puts what is held in the
\* place of the registers it came from.
Saving(r) == [c \in Cell |-> IF c \in DOMAIN Held THEN r[Held[c]] ELSE r[c]]

\* The GKeyFile after them: it still has the keys that were loaded and are
\* nobody's register.
Collected(f, r) == [k \in Key |-> IF k \in Names THEN f.text[k] ELSE r[k]]

\* The loop of x49gp_modules_save: a memory that cannot be synchronised ends it
\* and the save, and main() does not look at the error.
Collect ==
  /\ phase = "running" /\ phase' = "collected"
  /\ reg' = Saving(reg)
  /\ config' = Collected(file, reg')
  /\ UNCHANGED <<mem, file, given, interrupted, quit>>

\* Variation: the file is opened, and truncated, before the modules save.
CollectFailsOpened ==
  /\ phase = "running" /\ phase' = "down"
  /\ file' \in [parses : BOOLEAN, text : {[k \in Key |-> Absent]}]
  /\ quit' = None
  /\ UNCHANGED <<reg, mem, config, given, interrupted>>

CollectFails ==
  /\ phase = "running" /\ phase' = "down"
  /\ quit' = None
  /\ UNCHANGED <<reg, mem, file, config, given, interrupted>>

\* The texts of which the file has the first part only, up to the n-th value.
\* If the end is in the middle of a value, what is there may be a number, too.
Place(k) == CHOOSE i \in DOMAIN Layout : Layout[i] = k
Cut(text, n, v) ==
  [k \in Key |-> IF Place(k) < n THEN text[k] ELSE IF Place(k) = n THEN v ELSE Absent]
Torn(text) ==
  {Cut(text, n, Absent) : n \in DOMAIN Layout}
  \cup {Cut(text, n, v) : n \in {i \in DOMAIN Layout : Layout[i] \in Reg}, v \in Val}

Empty == [k \in Key |-> Absent]

\* open() truncates the file.
Truncate ==
  /\ phase = "collected" /\ phase' = "truncated"
  /\ file' \in [parses : BOOLEAN, text : {Empty}]
  /\ given' = [k \in Reg |-> config[k]]
  /\ interrupted' = TRUE /\ quit' = None
  /\ UNCHANGED <<reg, mem, config>>

OpenFails ==
  /\ phase = "collected" /\ phase' = "down"
  /\ quit' = None
  /\ UNCHANGED <<reg, mem, file, config, given, interrupted>>

Write ==
  /\ phase = "truncated" /\ phase' = "down"
  /\ file' = [parses |-> TRUE, text |-> config]
  /\ interrupted' = FALSE
  /\ quit' = [reg |-> reg, mem |-> mem]
  /\ UNCHANGED <<reg, mem, config, given>>

\* The disk is full, or the host stops.
WriteTorn ==
  /\ phase = "truncated" /\ phase' = "down"
  /\ file' \in [parses : BOOLEAN, text : Torn(config)]
  /\ UNCHANGED <<reg, mem, config, given, interrupted, quit>>

\* The program is killed.
Crash ==
  /\ phase # "down" /\ phase' = "down"
  /\ quit' = None
  /\ UNCHANGED <<reg, mem, file, config, given, interrupted>>

\* newconfig: the user makes a state file with the names and no registers.
FreshText(v) == [k \in Key |-> IF k \in Names THEN v ELSE Absent]
NewConfig ==
  /\ phase = "down"
  /\ \E v \in Val : file' = [parses |-> TRUE, text |-> FreshText(v)]
  /\ given' = [k \in Reg |-> Reset[k]] /\ interrupted' = TRUE /\ quit' = None
  /\ UNCHANGED <<phase, reg, mem, config>>

StateInit ==
  /\ phase = "down"
  /\ reg = Reset /\ mem \in Memory
  /\ \E v \in Val : file = [parses |-> TRUE, text |-> FreshText(v)]
  /\ config = Empty
  /\ given = [k \in Reg |-> Reset[k]] /\ interrupted = TRUE /\ quit = None

StateNext ==
  \/ Start \/ Run \/ Collect \/ CollectFails \/ Truncate \/ OpenFails
  \/ Write \/ WriteTorn \/ Crash \/ NewConfig

StateSpec == StateInit /\ [][StateNext]_stateVars

-----------------------------------------------------------------------------
(***************************************************************************)
(* Properties.                                                             *)
(***************************************************************************)
StateTypeOK ==
  /\ phase \in Phases
  /\ reg \in [Cell -> Val] /\ given \in [Reg -> Val] /\ mem \in Memory
  /\ file \in [parses : BOOLEAN, text : Text] /\ config \in Text
  /\ interrupted \in BOOLEAN
  /\ quit \in [reg : [Cell -> Val], mem : Memory] \cup {None}

\* The machine never starts with the registers of two different states: what
\* the file gives it is of the last save that touched the file, or all of it has
\* the reset values.  Excepted are the cells a start makes anew, those no reset
\* touches, and the value the file ends with: cut short it is a number, and
\* nothing is missing.
OneStateStarts ==
  [][phase = "down" /\ phase' = "running" =>
       \/ \A k \in Reg \ {Layout[Len(Layout)]} :
            Home(k) \notin Derived => reg'[Home(k)] = given[k]
       \/ \A k \in Reg \ (Kept \cup Derived) : reg'[k] = Reset[k]]_stateVars

\* After a save that came to its end the next start reads back, key by key, what
\* was in the cells the keys stand for, and the memories are as they were.
CleanQuitReadsBack ==
  phase = "down" /\ quit # None =>
    /\ Usable(file) /\ mem = quit.mem
    /\ \A k \in Reg : Started(file.text)[k] = quit.reg[Home(k)]

\* Only a save that got to the file can cost the state of an earlier one: as
\* long as none was left unfinished, whatever else fails, the file holds one.
OnlySavesLose ==
  /\ StateTypeOK
  /\ ~interrupted => Usable(file) /\ Started(file.text) = given
=============================================================================
