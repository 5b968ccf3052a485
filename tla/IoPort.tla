------------------------------- MODULE IoPort -------------------------------
(***************************************************************************)
(* The keyboard: the buttons of ui.c, the key matrix and the pins and      *)
(* external interrupts of s3c2410_io_port.c, composed with the interrupt   *)
(* controller they assert.  Of port G the model has rows 1..7, which       *)
(* interrupt as EINT9..15, and columns 0..7, pins 8..15; of port F the     *)
(* pins with a key of their own: ON at 0, and three on the shared EINT4_7. *)
(* A register of one field per pin is a function, one of a bit per pin the *)
(* set of the bits that are 1.                                             *)
(***************************************************************************)
EXTENDS Intc

CONSTANTS
  Row, Col,   \* Rows and columns in use.
  FLine,      \* Pins of port F in use.
  Keys,       \* The keys of the matrix, as <<column, row>>.
  GpgCons, GpgDats, GpfCons, GpfDats, \* What the guest writes to GPGCON, ...
  ExtInt0s, ExtInt1s,
  StartPorts  \* The registers at the start: reset values, or a state file's.

VARIABLES
  io,         \* The registers of s3c2410_io_port_t that matter here.
  keys,       \* keybycol and keybyrow of x49gp_t.
  down,       \* The matrix buttons that are down, and the pins of port F
  fdown,      \*   whose button is.
  releasing,  \* x49gp_ui_button_release is in its loop over the buttons.
  missed,     \* History: lines the guest unmasked in EINTMASK when they were
              \*   pending already.
  outlived    \* History: shared lines held since before a reset or restart.

buttons == <<keys, down, fdown>>
portVars == <<m, io, keys, down, fdown, releasing, missed, outlived>>

ColPin(c) == c + 8
Pin == Row \cup {ColPin(c) : c \in Col}
RowEint(r) == r + 8
Eint == {RowEint(r) : r \in Row} \cup (FLine \ 0..3)
Modes == {"in", "out", "int"}
Triggers == {"low", "high", "falling", "rising", "both"}

ASSUME PortAssumption ==
  /\ Row \subseteq 1..7 /\ Col \subseteq 0..7 /\ Row \subseteq Col
  /\ FLine \subseteq {0, 4, 5, 6}
  /\ Keys \subseteq Col \X Row
  /\ FLine \cap 0..3 \subseteq Irq
  /\ FLine \cap 4..7 # {} => EINT4_7 \in Irq
  /\ Row # {} => EINT8_23 \in Irq
  /\ GpgCons \subseteq [Pin -> Modes] /\ GpgDats \subseteq SUBSET Pin
  /\ GpfCons \subseteq [FLine -> Modes] /\ GpfDats \subseteq SUBSET FLine
  /\ ExtInt0s \subseteq [FLine -> Triggers] /\ ExtInt1s \subseteq [Row -> Triggers]

\* The lines of EINTPEND behind a shared source.
Group(src) == IF src = EINT4_7 THEN Eint \cap 4..7 ELSE Eint \cap 8..23

Ports ==
  [gpgcon : [Pin -> Modes], gpgdat : SUBSET Pin,
   gpfcon : [FLine -> Modes], gpfdat : SUBSET FLine,
   extint0 : [FLine -> Triggers], extint1 : [Row -> Triggers],
   eintmask : SUBSET Eint, eintpend : SUBSET Eint]

\* The reset values of s3c2410_io_port_data_init.
ResetPorts ==
  [gpgcon |-> [p \in Pin |-> "in"], gpgdat |-> Pin,
   gpfcon |-> [n \in FLine |-> "in"], gpfdat |-> {},
   extint0 |-> [n \in FLine |-> "low"], extint1 |-> [r \in Row |-> "low"],
   eintmask |-> Eint, eintpend |-> {}]

NoKeys == [bycol |-> [c \in Col |-> {}], byrow |-> [r \in Row |-> {}]]

\* A file saved while a line was pending is what PortRestart starts from.
ASSUME StartAssumption == StartPorts \subseteq {p \in Ports : p.eintpend = {}}

(***************************************************************************)
(* s3c2410_scan_keys: what the pins of port G read.  A pin nobody drives   *)
(* is high unless a pressed key ties it to an output that is low; a low    *)
(* row output pulls its columns down even if they are outputs themselves.  *)
(***************************************************************************)
LowCols(p) == {c \in Col : p.gpgcon[ColPin(c)] = "out" /\ ColPin(c) \notin p.gpgdat}
LowRows(p) == {r \in Row : p.gpgcon[r] = "out" /\ r \notin p.gpgdat}

ScanKeys(p, k) ==
  {r \in Row : IF p.gpgcon[r] = "out" THEN r \in p.gpgdat
               ELSE \A c \in LowCols(p) : r \notin k.bycol[c]}
  \cup
  {ColPin(c) : c \in
     {x \in Col : /\ p.gpgcon[ColPin(x)] = "out" => ColPin(x) \in p.gpgdat
                  /\ \A r \in LowRows(p) : x \notin k.byrow[r]}}

(***************************************************************************)
(* A pin that is an interrupt input goes from one level to another.        *)
(***************************************************************************)
Fires(trigger, from, to) ==
  \/ trigger = "low" /\ ~to
  \/ trigger = "high" /\ to
  \/ trigger = "falling" /\ from /\ ~to
  \/ trigger = "rising" /\ ~from /\ to
  \/ trigger = "both" /\ from # to

WithBit(dat, n, value) == IF value THEN dat \cup {n} ELSE dat \ {n}

\* The port and the controller, which one call changes together.
Pair(p, s) == [io |-> p, m |-> s]

\* Variation: the shared source is asserted as an edge.
PendEdge(p, s, line, src) ==
  LET pend == [p EXCEPT !.eintpend = @ \cup {line}]
  IN Pair(pend, IF pend.eintpend \ pend.eintmask = {} THEN s ELSE Assert(s, src, 0))

\* EINTPEND of a line behind a shared source: the test is over all lines.
Pend(p, s, line, src) ==
  LET pend == [p EXCEPT !.eintpend = @ \cup {line}]
  IN Pair(pend, IF pend.eintpend \ pend.eintmask = {} THEN s ELSE Assert(s, src, 1))

\* s3c2410_io_port_g_set_bit.  The column it takes the key's level from is
\* the one whose number is that of the row.
GSetBit(p, s, k, n, set) ==
  LET dat == ScanKeys(p, k)
      value == ~(set /\ p.gpgcon[ColPin(n)] = "out" /\ ColPin(n) \notin dat)
      moved == [p EXCEPT !.gpgdat = WithBit(dat, n, value)]
  IN IF p.gpgcon[n] = "out" THEN Pair([p EXCEPT !.gpgdat = dat], s)
     ELSE IF p.gpgcon[n] = "int" /\ Fires(p.extint1[n], n \in dat, value)
          THEN Pend(moved, s, RowEint(n), EINT8_23)
     ELSE Pair(moved, s)

\* s3c2410_io_port_f_set_bit
FSetBit(p, s, n, value) ==
  LET moved == [p EXCEPT !.gpfdat = WithBit(@, n, value)]
      level == IF p.extint0[n] \in {"low", "high"} THEN 1 ELSE 0
  IN IF p.gpfcon[n] = "out" THEN Pair(p, s)
     ELSE IF p.gpfcon[n] = "int" /\ Fires(p.extint0[n], n \in p.gpfdat, value)
          THEN IF n \in 0..3 THEN Pair(moved, Assert(s, n, level))
               ELSE Pend(moved, s, n, EINT4_7)
     ELSE Pair(moved, s)

\* Variation: only the lower group is released.
EintpendPutLower(p, s, d) ==
  LET left == p.eintpend \ d
  IN Pair([p EXCEPT !.eintpend = left],
          IF left \cap 4..7 = {} THEN Deassert(s, EINT4_7) ELSE s)

\* The write to EINTPEND: a shared source is released with its last line.
EintpendPut(p, s, d) ==
  LET left == p.eintpend \ d
      lower == IF left \cap 4..7 = {} THEN Deassert(s, EINT4_7) ELSE s
  IN Pair([p EXCEPT !.eintpend = left],
          IF left \cap 8..23 = {} THEN Deassert(lower, EINT8_23) ELSE lower)

(***************************************************************************)
(* The actions.  The history follows whatever the code did: a line is no   *)
(* longer missed when it is acknowledged, a held source has outlived a     *)
(* reset until it is released.                                             *)
(***************************************************************************)
Becomes(w) ==
  /\ io' = w.io /\ m' = w.m
  /\ missed' = missed \cap w.io.eintpend
  /\ outlived' = outlived \cap w.m.src_pending

PortInit ==
  /\ m \in {PriorityPut(ColdMachine, p) : p \in Priorities}
  /\ io \in StartPorts /\ keys = NoKeys
  /\ down = {} /\ fdown = {} /\ releasing = FALSE
  /\ missed = {} /\ outlived = {}

\* Variation: the matrix is brought up to date first.
PressMatrixFirst(k) ==
  LET c == k[1]  r == k[2]
  IN /\ keys' = [keys EXCEPT !.bycol[c] = @ \cup {r}, !.byrow[r] = @ \cup {c}]
     /\ Becomes(GSetBit(io, m, keys', r, TRUE))
     /\ down' = down \cup {k}
     /\ UNCHANGED <<fdown, releasing>>

\* x49gp_ui_button_press; the host's keyboard repeats the press of a key that
\* is held.
PressMatrix(k) ==
  LET c == k[1]  r == k[2]
  IN /\ Becomes(GSetBit(io, m, keys, r, TRUE))
     /\ keys' = [keys EXCEPT !.bycol[c] = @ \cup {r}, !.byrow[r] = @ \cup {c}]
     /\ down' = down \cup {k}
     /\ UNCHANGED <<fdown, releasing>>

PressF(n) ==
  /\ Becomes(FSetBit(io, m, n, TRUE))
  /\ fdown' = fdown \cup {n}
  /\ UNCHANGED <<keys, down, releasing>>

Press == /\ ~releasing
         /\ (\E k \in Keys : PressMatrix(k)) \/ (\E n \in FLine : PressF(n))

\* x49gp_ui_button_release, of whichever button: every button that is down
\* goes up, one after the other, before anything else happens.
Release ==
  /\ ~releasing /\ releasing' = TRUE
  /\ UNCHANGED <<m, io, keys, down, fdown, missed, outlived>>

\* Variation: the row is not cleared.
ReleaseMatrixOnce(k) ==
  /\ Becomes(GSetBit(io, m, keys, k[2], FALSE))
  /\ keys' = [keys EXCEPT !.bycol[k[1]] = @ \ {k[2]}]
  /\ down' = down \ {k}
  /\ UNCHANGED <<fdown, releasing>>

ReleaseMatrix(k) ==
  LET c == k[1]  r == k[2]
  IN /\ Becomes(GSetBit(io, m, keys, r, FALSE))
     /\ keys' = [keys EXCEPT !.bycol[c] = @ \ {r}, !.byrow[r] = @ \ {c}]
     /\ down' = down \ {k}
     /\ UNCHANGED <<fdown, releasing>>

ReleaseF(n) ==
  /\ Becomes(FSetBit(io, m, n, FALSE))
  /\ fdown' = fdown \ {n}
  /\ UNCHANGED <<keys, down, releasing>>

ReleaseOne ==
  /\ releasing
  /\ (\E k \in down : ReleaseMatrix(k)) \/ (\E n \in fdown : ReleaseF(n))

Released ==
  /\ releasing /\ down = {} /\ fdown = {} /\ releasing' = FALSE
  /\ UNCHANGED <<m, io, keys, down, fdown, missed, outlived>>

\* The guest's accesses to the port.
GuestPort(w) == ~releasing /\ Becomes(w) /\ UNCHANGED <<buttons, releasing>>

WriteGPGCON == \E v \in GpgCons : GuestPort(Pair([io EXCEPT !.gpgcon = v], m))
WriteGPGDAT == \E v \in GpgDats : GuestPort(Pair([io EXCEPT !.gpgdat = v], m))
ReadGPGDAT == GuestPort(Pair([io EXCEPT !.gpgdat = ScanKeys(io, keys)], m))
WriteGPFCON == \E v \in GpfCons : GuestPort(Pair([io EXCEPT !.gpfcon = v], m))
WriteGPFDAT == \E v \in GpfDats : GuestPort(Pair([io EXCEPT !.gpfdat = v], m))
WriteEXTINT0 == \E v \in ExtInt0s : GuestPort(Pair([io EXCEPT !.extint0 = v], m))
WriteEXTINT1 == \E v \in ExtInt1s : GuestPort(Pair([io EXCEPT !.extint1 = v], m))
WriteEINTPEND == \E d \in SUBSET Eint : GuestPort(EintpendPut(io, m, d))

\* The default case of s3c2410_io_port_write: nothing is looked at again.
WriteEINTMASK ==
  /\ ~releasing
  /\ \E v \in SUBSET Eint :
       /\ io' = [io EXCEPT !.eintmask = v]
       /\ missed' = missed \cup ((io.eintpend \cap io.eintmask) \ v)
  /\ UNCHANGED <<m, buttons, releasing, outlived>>

\* The guest's accesses to the interrupt controller, FIQ aside.
WriteIntc ==
  \/ \E d \in SUBSET Irq : GuestPort(Pair(io, SrcpndPut(m, d)))
  \/ \E d \in SUBSET Irq : GuestPort(Pair(io, IntmskPut(m, d)))
  \/ \E d \in SUBSET Irq : GuestPort(Pair(io, IntpndPut(m, d)))

\* The reset values of the port; the buttons and the matrix stay, and so do
\* the levels in the controller.
PortWatchdogReset ==
  /\ ~releasing
  /\ m' = CpuReset(ModulesReset(m, "WATCHDOG"))
  /\ io' = ResetPorts
  /\ missed' = {}
  /\ outlived' = m'.src_pending \cap Shared
  /\ UNCHANGED <<buttons, releasing>>

\* The program is quit and started again: no button is down any more.
PortRestart ==
  /\ ~releasing
  /\ m' = SetIdle(Reload(m), RUN)
  /\ keys' = NoKeys /\ down' = {} /\ fdown' = {}
  /\ outlived' = m'.src_pending \cap Shared
  /\ UNCHANGED <<io, releasing, missed>>

\* For switching off the port's reset returns at once, as the controller's does:
\* no register of the port changes, and the kind is left to MainLoop.
PortReset ==
  \/ "WATCHDOG" \in Resets /\ PortWatchdogReset
  \/ "RELOAD" \in Resets /\ PortRestart

PortNext ==
  \/ Press \/ Release \/ ReleaseOne \/ Released
  \/ WriteGPGCON \/ WriteGPGDAT \/ ReadGPGDAT \/ WriteGPFCON \/ WriteGPFDAT
  \/ WriteEXTINT0 \/ WriteEXTINT1 \/ WriteEINTMASK \/ WriteEINTPEND
  \/ WriteIntc \/ PortReset

PortSpec == PortInit /\ [][PortNext]_portVars

-----------------------------------------------------------------------------
(***************************************************************************)
(* Properties.                                                             *)
(***************************************************************************)
PortTypeOK ==
  /\ m \in Machine
  /\ io \in Ports
  /\ keys \in [bycol : [Col -> SUBSET Row], byrow : [Row -> SUBSET Col]]
  /\ down \subseteq Keys /\ fdown \subseteq FLine
  /\ releasing \in BOOLEAN
  /\ missed \subseteq io.eintpend /\ outlived \subseteq Shared \cap m.src_pending

\* Whatever was pressed, repeated, released and reset before, a guest that
\* drives one column low and lets the rows float reads the rows of exactly
\* the keys that are down in it, and the same with rows and columns swapped.
Scanning(pin, outs) ==
  [io EXCEPT !.gpgcon = [p \in Pin |-> IF p \in outs THEN "out" ELSE "in"],
             !.gpgdat = Pin \ {pin}]
ScanFindsKeys ==
  /\ \A c \in Col :
       Row \ ScanKeys(Scanning(ColPin(c), Pin \ Row), keys) = {r \in Row : <<c, r>> \in down}
  /\ \A r \in Row :
       {c \in Col : ColPin(c) \notin ScanKeys(Scanning(r, Row), keys)}
         = {c \in Col : <<c, r>> \in down}

\* A key line that is pending, unmasked in EINTMASK when it came, and
\* unmasked in INTMSK, keeps the core's IRQ or FIQ line up: no order of
\* acknowledgements, masks and further keys loses it.  Excepted is a source
\* whose level was already held when the machine was reset or restarted.
KeyReachesCore ==
  \A src \in Shared \ (m.intmsk \cup outlived) :
    (io.eintpend \cap Group(src)) \ (io.eintmask \cup missed) # {} => m.irq \/ m.fiq

\* A shared source held in the controller has a pending line of its own to
\* acknowledge, or the guest could never release it knowingly.
HeldSourceHasLine ==
  \A src \in (Shared \cap m.src_pending) \ outlived : io.eintpend \cap Group(src) # {}

\* While the port waits for keys as interrupts (columns driven low, the row an
\* edge-triggered input), the press of a key in a free row makes the row
\* pending, and the host's repeats of the press raise nothing more.
Waiting(r) ==
  /\ LowCols(io) = Col /\ LowRows(io) = {}
  /\ io.gpgcon[r] = "int" /\ io.extint1[r] \in {"falling", "both"}
OneEdgePerPress ==
  [][ \A k \in Keys : Waiting(k[2]) =>
        /\ (k \in down' \ down /\ \A x \in down : x[2] # k[2])
             => RowEint(k[2]) \in io'.eintpend
        /\ (k \in down /\ k \in down' /\ PressMatrix(k)) => UNCHANGED m /\ io'.eintpend = io.eintpend ]_portVars
=============================================================================
