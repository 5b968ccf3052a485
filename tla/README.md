# Verification of x49gp

x49gp emulates the HP 49g+ calculator: the devices of an S3C2410 system on a
chip, written for this emulator, around QEMU's ARM core. This directory holds
TLA+ models of the parts with control of their own, the TLC runs that check
them on small instances, and proofs, checked by TLAPS, of what holds for every
instance. Paths are relative to the repository.

## 1. Inventory

Everything runs in one thread: the main loop calls QEMU's `cpu_exec`, whose
translated code calls the devices back on every register access, then runs
expired timers, whose callbacks call the devices too, GTK's event handlers
among them. Two signals cut in: SIGALRM every millisecond and SIGINT.

| Component | State it keeps | Operations | Calls |
|---|---|---|---|
| Interrupt controller, `s3c2410_intc.c` | SRCPND, INTMSK, INTPND and their kin; the levels devices hold; position of the seven arbiters | register reads and writes; assert and deassert, of sources and sub-sources; reset, save, load | the core's two lines; `x49gp_set_idle` |
| Main loop and power, `timer.c`, `main.c`, `s3c2410_power.c` | `arm_idle`, `arm_exit`; the core's `halted` and `exit_request`; CLKCON | one pass of the loop; stop, switch off, wake; signals | `cpu_exec`, both timer lists, `x49gp_modules_reset` |
| Timer lists, `timer.c` | two linked lists in order of deadlines | new, mod, del, pending, expired; the pass over expired timers | callbacks of devices and of the user interface |
| Watchdog, `s3c2410_watchdog.c` | WTCON, WTDAT, WTCNT; its timer | tick, register writes, reset | interrupt controller, reset of all modules |
| Keyboard and port, `ui.c`, `s3c2410_io_port.c` | buttons; the key matrix, in two copies; GPxCON, GPxDAT, EXTINTx, EINTMASK, EINTPEND | press, release, scan; register accesses; reset, save, load | interrupt controller, on EINT0 and the shared EINT4_7 and EINT8_23 |
| Flash, `flash.c` | state of the command machine; contents, a shared file mapping | byte, halfword and word accesses; reset | maps itself for direct reading |
| PWM timers, `s3c2410_timer.c` | TCON and its last value; a count and a timer each | expiry, register writes, reset, load | interrupt controller, timer list |
| Clock, `s3c2410_rtc.c` | TICNT, RTCALM, alarm registers; two timers | tick, alarm, register writes | interrupt controller, timer list |
| UARTs, `s3c2410_uart.c` | registers, levels of three sub-sources each | reads and writes | sub-sources |
| SD interface, `s3c2410_sdi.c` | registers; one block read, one written | commands, data port, reset, load | card image, port F |
| Modules, `module.c`, `main.c` | list of modules; key file; the state file on disk | init, reset, load, save in order of registration | every module |
| Memories, `s3c2410_sram.c`, `sram.c` | shared mappings of files | load, save (`msync`) | |
| LCD, NAND, USB, ADC, SPI, memory controller | registers | accesses that complete at once | interrupt controller (ADC, SPI) |
| QEMU core, block layer, GDB stub | third-party | | |

What is hard here, and what each part must therefore get right:

* **Order of acknowledgements.** A source passes three registers (EINTPEND,
  SRCPND, INTPND), each with its mask, and the guest writes them in any order
  between edges and levels. *Correct:* an eligible source keeps a line of the
  core up; INTPND names one source, the one INTOFFSET gives; the port holds a
  shared source exactly as long as there is a line to acknowledge.
* **Stopping a running core.** A register write stops or resets the core under
  the block that did it; the request to leave `cpu_exec` is one bit, which a
  reset of the core clears and a signal sets. *Correct:* a stopped core leaves,
  a core that is off stands at its vector with both lines down, window events
  are handled and a request to quit is obeyed in every power state.
* **Waking up.** Only some events end a stop; a held level is not latched
  again; a reset masks everything. *Correct:* ON, pressed again and again,
  wakes a calculator that is off; a timer ends IDLE; a core that was reset runs.
* **Callbacks in a pass.** Callbacks arm and remove timers of the list being
  walked. *Correct:* the list stays sorted and acyclic; timers fire in order;
  SIGALRM, which looks at heads alone, misses none; due timers fire.
* **Unlock sequences.** Commands of the flash nest, and any access may cut them
  short. *Correct:* contents change only by complete commands, complete
  commands work, and lost software can get back.
* **Edges of the start bits.** The PWM timers start and stop at changes of
  TCON, which a one-shot timer changes itself. *Correct:* what the guest has
  stopped never interrupts, what it has started runs, through resets and
  restarts; what TCNTO reads is no more than TCNTB may hold while PCLK stays as it
  is; reload goes on.
* **Wall-clock time.** Tick and alarm of the clock are deadlines on a list whose
  passes come late, and are computed from a clock that moves meanwhile.
  *Correct:* every second that matches rings, and once; ticks keep their phase;
  what is switched on has its timer.
* **Blocks of the SD card.** Commands, data, failures of the host and resets
  meet in the middle of a block, with one buffer and one flag for all of them.
  *Correct:* no access leaves a buffer; the driver sees whole blocks at the
  addresses that follow from its commands.
* **The state file.** It is truncated and written anew at every exit; a save may
  fail before, in or after that. *Correct:* what a save that ended wrote
  is read back, only one that got to the file costs an earlier state, and no start
  mixes two.
* **Reset and restart.** A reset writes registers, not what lies behind them;
  a restart loads levels, not latches; switching off resets the core but not the
  controller. *Correct:* lines and registers agree from the next arbitration on; what
  does not survive is known (section 6).

## 2. Modules

| Module | Models | Extends |
|---|---|---|
| `Intc` | the interrupt controller, with the bits of the core it drives | |
| `Watchdog` | the watchdog and what a bite does to controller and core | `Intc` |
| `MainLoop` | loop, power states, signals, composed with controller and watchdog | `Watchdog` |
| `TimerQueue` | abstract: what `timer.c` promises | |
| `TimerList` | the list and the pass; implements `TimerQueue` | |
| `FlashBus` | write cycles, commands, sectors | |
| `FlashArray` | abstract: what the flash promises | `FlashBus` |
| `Flash` | the command machine; implements `FlashArray` | `FlashBus` |
| `IoPort` | buttons, matrix and port, composed with the controller | `Intc` |
| `PwmTimer` | the PWM timers and their deadlines | |
| `Rtc` | tick and alarm of the real-time clock, with the host's clock | |
| `SdCard` | abstract: what the SD interface promises a driver | |
| `Sdi` | the SD interface and its card; implements `SdCard` | |
| `StateFile` | starts, saves, crashes: registers, memories and the state file | |
| `MC...` | instances for TLC | |
| `IntcProofs`, `TimerListProofs`, `FlashProofs`, `SdiProofs`, `StateFileProofs` | proofs | the module, `TLAPS` |
| `IoPortProofs`, `MainLoopProofs` | proofs | the module, `IntcProofs` |
| `ClockProofs` | proofs about the PWM timers and the real-time clock | `PwmTimer`, `Rtc`, `TLAPS` |

**Intc.** The variable `m` is one record, because every operation of the C code
is a function from the state of the controller to the next, called by several
parts: `GenInt` is `s3c2410_intc_gen_int`, `Assert` is `s3c2410_intc_assert`,
`SrcpndPut` the write to SRCPND, and so on. A register is the set of its bits.
`m` also has the lines of the core, `halted`, `exit_request` and `arm_idle`
(`idle`), which `gen_int` changes through `x49gp_set_idle`. The two levels of
arbiters are kept in full (`ArbReq`, `ArbOrder` are the tables). PRIORITY
exists twice as in the code: the register image and the live arbiters, which
agree only when the guest reads or writes the register. `ResetKinds` are the kinds
of `x49gp_reset_t` and a new process. `PowerOffReset` resets the core alone, since
the controller's reset returns at once for that kind. `Reload` is a save
followed by a load in a new process: the levels are what is written as SRCPND.

**MainLoop.** `pc` is the place in `x49gp_main_loop`. Timer deadlines are not
modelled here: any callback may run in the phase of its list, which covers
every timing. One guest instruction is one action; `TailWrites` says whether
the block that stopped the core goes on to use devices, as a translated block
may.

**TimerList.** `next` pointers are a sequence. A call of the pass takes the
head off, the callback then runs step by step as any caller does.

**Flash.** Of a halfword the model keeps which of the eleven command bytes the
low byte is, and the set of the 1 bits of the high byte. `recent` is history,
the last five cycles, and is what the abstract `FlashArray` judges by.

**IoPort.** A register of two bits per pin is a function from pins to modes.
The port is told of a press before the matrix has the key, as in the C code.
Releasing any button releases all of them, one after the other; `releasing`
keeps everything else out meanwhile. The history variables `missed` and
`outlived` name the two exceptions the properties make (section 3).
Its resets are those of watchdog and power-on; for switching off the port's reset
returns at once like the controller's, and `MainLoop` has what that does to the core.
`s3c2410_io_port_g_set_bit` takes the level of a pressed key from the column
numbered like its *row*; the model does the same.

**PwmTimer.** TCON is three sets of timers, one per kind of bit; of
`prev_tcon` only the start bits matter (`prev`). `pending` are the timers on
the list of `timer.c`, and `left` is how far a deadline is ahead of the clock,
in units of the clock, below 0 when the pass is late: with relative time the state
space is finite without a bound on the clock. The interval the two TCFG registers
make is kept in their place. `Period` makes counts into time and `Count` time into
counts, each with the PCLK of the moment, which is where the code reads it, with the
rounding of the code and the width of the register. `WriteClock` is the write of
`s3c2410_power.c` that changes PCLK: no timer is told. A reset gives the clock
registers new values and PCLK none; a new process has that of `main.c`. A load runs `s3c2410_update_tcon`
before any interval is known; the model's restart has the old interval there,
which makes no difference, since `s3c2410_update_tcfg` follows and sets every
deadline anew. History variable `spent`: one-shot timers that ran out and whose
start bit the guest has not written as 0 since; `scaled`: timers that ran while PCLK
changed and have not counted anew from TCNTB since. The compare registers and
`s3c2410_timer_next_interrupt`, which nothing calls, are left out.

**Rtc.** The host's clock is `now`, in units of which `Second` make a second. A
timer runs at most `Late` units after its deadline, the main loop's
timeliness, and the clock moves by up to `Lag` while a callback runs
(`Meanwhile`), so that the second read of the clock in `s3c2410_rtc_alarm` is
not the first. TICNT is the interval it stands for; `localtime` is the constant
`Calendar`. History: `begun` is when TICNT was written and `ticks` counts since,
`rung` is the last second that rang, `settled` the last change of the alarm's
registers.

**Sdi.** A buffer is a sequence, `NULL` the empty one; `Junk` is a byte of a
buffer nobody wrote since `malloc`. The words of SDIDAT have `Width` bytes. A
read of the host fails or gives the whole block; a write may leave any first
part, since its result is thrown away. `SdCard` knows blocks, not buffers: the
refinement mapping (`Blocks`) takes the bytes that are left of the block that
is read, and those there are of the block that is written.

**StateFile.** The state file is one value per key, in the order of the keys in
the file, because a write that is cut off leaves a first part of it. The machine
is a value per cell: `Home(k)` is the cell key `k` stands for, the register of that
name but for SRCPND and SUBSRCPND (`Held`), in whose place `s3c2410_intc_save` puts
the levels that are held, and from which `s3c2410_intc_load` takes them again.
`Started` is what is read, and reset if a key is missing; `Machines` are the machines
it is found in. Loads and `main` go on from there: SRCPND becomes 0,
`exception_index` -1, `halted` 0 with `arm_idle` (`x49gp_set_idle` in `main`, behind
the load); timers take TCNTB if their update bit is set; the lines of the core follow
INTPND; the load of the SD interface writes pin 3 of port F, and with it perhaps
EINTPEND, the controller and what it holds of EINT3. These cells are `Derived`: a start may
give them any value here, and no property speaks of what they were. What becomes of them is in `Intc`
(`Reload`), `IoPort`, `PwmTimer` and `Rtc` (their restarts). Saving is
in steps (`Collect`, `Truncate`, `Write`) between which the program may be
killed. The memories are shared mappings: what the guest writes is in their
files at once. `given` is history, what the last save that got to the file wrote;
`quit` the machine at the last save that ended.

Each module's definitions are mapped to lines of the source in `PROJECT.json`.
Definitions marked *Variation* are what the mutants there put in a definition's
place: a plausible slip that the property must notice.

## 3. Runs

All passing runs search their whole state space, `Keyboard` and `IntcReset` the
part their constraints leave (below).

| Run | Instance | Distinct states | Question |
|---|---|---|---|
| `IntcCore` | EINT0 (may go to FIQ), UART 2 with two sub-sources; no resets | 450 000 | Is an eligible source ever left with both lines down, a held level unlatched, an ineligible one granted? |
| `IntcReset` | two sources, rotation on and off, resets of all kinds, restarts, cold starts | 442 000 | Does the IRQ line follow INTPND, but where switching off lowers it? Is fixed priority by number? |
| `LoopLive` | ON and watchdog, all three ways to stop the core, blocks that go on; fairness | 61 000 | Does a stopped core leave, is one that is off reset and silent, does quitting end, are events handled, does ON wake? |
| `LoopWatchdog` | watchdog programmed by the guest, a PWM timer on its source, a key, IDLE and WFI; fairness | 215 000 | Is the watchdog armed exactly while enabled, does a timer end IDLE even if its interrupt came before the stop, does a reset core boot? |
| `LoopStuck` | watchdog, IDLE | 12 000 | The finding of section 6 |
| `TimerLists` | three timers, deadlines before, at and after the clock | 21 000 | No cycle, the alarm, refinement of `TimerQueue`, due timers fire |
| `FlashCommands` | three addresses, one data bit, every access | 58 000 | Refinement of `FlashArray`; commands work; two resets return |
| `Keyboard` | three keys on two rows and two columns, and ON, polled; resets and restarts | 370 000 | Do scans find the keys, makes a press one edge, does it reach the core? |
| `PwmTimers` | timers 0 and 4, counts to 1, two intervals of timer 0, two PCLKs, passes late by 1 | 112 000 | Does what is stopped stay silent, what is started run, reload go on, and what TCNTO reads fit? |
| `SdBlocks` | two bytes to a word, blocks of three bytes, a card of five and room on the host for six | 355 000 | Is every access inside its buffer? Refinement of `SdCard` |
| `RtcTimers` | seconds of four units, a tick of three, minutes of two seconds, passes late by 1 | 1 306 000 | Does every matching second ring, once? Do ticks keep time? Is what is on armed? |
| `SavedState` | five keys: a memory's name, two plain registers, SRCPND with what is held, `halted` | 677 000 | What does a start find after saves that ended, failed or were cut off? |

**Why the bounds are enough to be worth it.** The operations of the controller
treat sources alike but for arbitration, so two sources
show interference of a source with itself, with another, and of a parent with
its sub-sources. Arbitration with two sources uses both slots of one arbiter
or two arbiters; the general case is proved. `MaxCount = 1` in `LoopLive` lets
the watchdog count, bark and bite; larger counts only repeat the first.
`MaxCount = 0` in `LoopWatchdog`, where the guest writes WTCNT and WTDAT, is the
edge: every tick barks. Three timers are
the least with one before, one between and one behind. The flash needs both
unlock addresses and one whose word holds one of them; one high bit shows
programming (1 to 0) and erasing (0 to 1). In `Keyboard` the keys form an L, so
that keys share a row, share a column, and share neither.
In `PwmTimers` a count of 1 with two intervals and two PCLKs is the least at which a
change of TCFG or of PCLK can leave a deadline too far away, and two timers the least of
which one can start or stop beside a running one; timer 4 reloads whenever it is
started (`Tcons`), timer 0 has all its bits. TCNTO is a word of two bits
(`WordSize`).
A tick of three in seconds of four units puts ticks and alarms in every phase to
each other, and `Late + Lag` is less than either period, as the code needs
(`TimelyAssumption`): SIGALRM ends `cpu_exec` within a millisecond of a
deadline, and the shortest tick is 7.8 ms. A pass later than that would skip
ticks. Blocks of three bytes end inside a word, the card ends inside a
block, and the host's room at the end of one. In `SavedState` a cut falls before, in and behind
each kind of key.
`MaxTime`, `MaxCount`, `WordSize`, `MaxLate`, `CardLimit`, `Late`, `Lag`, `Delays` and the sets of registers the guest may write
are the bounds, `Wtcons` among them: in `LoopWatchdog` the guest writes five of
the eight values of WTCON, the watchdog off, and on with each of its two consequences,
both or none; in `LoopLive` and `LoopStuck` it leaves the watchdog alone.

`IntcReset` has a state constraint, `FreshImage`: of the register image of PRIORITY the part of
arbiter 1 is 0 or what the arbiter has. An older value differs from it for the next read of PRIORITY only,
which makes it new, or for a restart.

`Keyboard` has three state constraints. `FixedArbitration` keeps the guest's choice
of fixed priority: a restart after a reset loads the rotating PRIORITY of the
reset registers, which multiplies states by the arbiters' positions without
touching the port; `IntcReset` explores rotation. `OnIsPolled` keeps ON's source
masked, as a guest that polls it does, and `OnAlone` keeps ON from being held
together with keys of the matrix: the two share no register and no source. The
theorems of `IoPortProofs` need none of the three.

**Where runs start.** From a first start (`ColdMachine`, `ResetPorts`). Constants let
the ports start as any state file has them (`StartPorts`), which the theorems of
`IoPortProofs` cover: the two shared sources EINT4_7 and EINT8_23 side by side
and ON as an interrupt are theirs, not a run's.

**Exceptions the properties make.** `AlarmRings` speaks of seconds that began after
the guest's last write to the alarm: writing RTCALM moves the timer to the next
second and skips the present one. `OneStateStarts` excepts the cells a start makes anew, the registers no
reset touches and the last key of the file (section 6). `StartedRuns` excepts `spent` timers, `PwmTypeOK`
the count and deadline of `scaled` ones: TCNTO may read more than TCNTB held there (section 6).
`NoLostInterrupt` and `HeldLevelIsLatched`
are checked without resets: a reset clears SRCPND but not the levels, and they
do not hold after one. `KeyReachesCore` does include resets, and excepts lines
the guest unmasked in EINTMASK when they were pending already (`missed`: the
write does not look at them) and sources held since before a reset
(`outlived`). `FixedPriority` speaks of arbiters with rotation off and all
ARB_SEL at 0, and excepts sources folded from sub-sources that were not latched
before: the fold arbitrates after each of its four tests, UART 0 (source 28) before
UART 1 (23), so that a lower one may be latched after the grant. `IntcReset` has no
such source and checks the strong form. `IrqLineFollowsIntpnd` speaks of a guest that uses no FIQ, as the
calculator's firmware does not, and of steps: each ends with line and INTPND in agreement, but for the
one that switches off, and those behind it that leave both as they are, until the controller
arbitrates again.

## 4. Fairness

`LoopFairness` is weak fairness of the loop's own steps: the thread is
scheduled, `cpu_exec` leaves at a block boundary once asked, and a pass over a
list ends. `Alarm` is fair because the interval timer of `main.c` runs all the
time, and the 30 ms timer of `x49gp_gtk_timer` guarantees that an alarm finds
an expired timer. Nothing is assumed of guest, keys or devices; where a
property needs the user or a device it says so as a premise: `OnPressed`
(the user keeps pressing ON) in `OnKeyWakes`, `TimerRuns` (a PWM timer runs)
in `TimerEndsSleep`. Both are strong fairness since the phase in which a key or
a timer can come recurs but does not last. `TimerLists` assumes that the loop
runs its lists and that callbacks return; `DueTimersFire` has as premise that
callers do not for ever arm timers at or before the present
(`ArmedAhead`): the pass goes on while the head is due, so that the code
itself does not guarantee more.

`FairPwm` is what this amounts to for the PWM timers: the clock runs, and the
pass runs the timers that are due. `PeriodicFires` has two premises about the
guest: the timer stays started with reload, and its deadline is not set anew
for ever (`DeadlineKept`), since each write to TCFG makes the running timers
start over. It is the ground on which `MainLoop` may assume `TimerRuns`.

## 5. Proofs

All theorems hold for every value of the constants that satisfies the named
assumptions of the modules (sources exist in the chip, sub-sources have their
parents, keys are on rows and columns in use).

* **IntcProofs.** The arguments run along `GenIntEffect`: from *any* state,
  arbitration leaves no eligible source without a line (`Served`), grants one
  source which INTOFFSET names (`OneOffset`), and with no FIQ makes the line
  follow INTPND (`LineFollows`). `IrqLineTheorem` has two parts: the line is never up
  without INTPND, an invariant, and each operation either arbitrates or
  moves neither (`LineMoves`), which is the action property. Under it lie `SelectIntSelects` (an arbiter
  that sees a request lets one through, whatever its position) and
  `EverySourceHasSlot` (the tables wire every source). Each operation then
  keeps the invariants (`Keeps`, `KeepsServed`); `NextKeeps` has a case per
  action. `NoLostInterrupt` is not inductive alone: a write to SRCPND puts
  held levels back without arbitrating, so `Held` is needed with it.

  `SubLevelReachesParent` needs two parts, that levels of sub-sources are
  latched (`SubLatched`) and that an unmasked one holds its parent (`SubHeld`). The work is
  in the fold: its four tests run one after the other over one set computed at
  the start, and the test of one parent must not release another's source.
  `FixedPriority` goes through `GrantIsLowest`: a first-slot choice in every arbiter
  of the lower level and then in the upper one is the lowest number, because the
  rows of the tables ascend (`RowsAscend`) and so do the arbiters behind them.
  `Ranks` is the property of one operation, kept by each; a restart grants nothing
  while priorities are loaded (`ReloadGrantsNothing`), since SRCPND is empty then.
* **MainLoopProofs.** The invariant `LoopInv` joins the two properties on watchdog and
  core with `Quiet` (off means both lines down) and `Returned` (between `cpu_exec` and
  the test behind it `prev_idle` is still RUN, and behind the test a core that is
  off has been reset). The controller enters through one relation, `Drives`: no call of
  it stops the core, lowers an exit request, or raises a line while leaving the core off.
  `StoppedCoreLeaves` then rests on the order in `x49gp_set_idle`: POWER_OFF resets the
  core, which clears the request, before it raises the request.

  A second invariant, `CoreInv`, is about the core and its sources. `Named`: INTPND holds
  at most the source INTOFFSET names, and does while the IRQ line is up (only the
  one direction: POWER_OFF lowers the line and keeps INTPND). `HeldByKeys`: only the
  port drives levels, so that a PWM timer's or the watchdog's `Assert` never finds its source
  held and always arbitrates. `Fresh`: a reset core does not wait for an interrupt.
  Its relation for the controller's calls is `Serves`. From it come `LoopDispatchTheorem`
  and the three theorems on what liveness rests on: `WakersWake` (the step
  waited for does wake the core), `QuitGoesOn` (the loop never turns back once asked to
  quit), `ResetCoreIsReady`. The last has the hypothesis `TailWrites = FALSE` of its run: the
  rest of a block behind POWER_OFF might wake the machine and then wait for an interrupt.
* **TimerListProofs.** The invariant is: types, `NoCycle` (both `TypeOK`),
  `Sorted`.
  `Insert` and `Unlink` are characterised index by index. The refinement is
  step simulation: `Mod` maps to `Arm`, `Call` to `Fire`, and so on.
  `DueKeepsItsPlace` and `CallsTakeTurns` are the two halves of the counting argument
  behind `DueTimersFire`: the timers in front of a due one only become fewer, and
  each call takes one of them or is its own.
* **FlashProofs.** The invariant `FlashInv` says which of the last five cycles
  each state of the command machine stands for (`Stands`); with it a change of
  the contents implies the abstract command's unlock cycles. `CommandsWork` is the
  converse, along the edges of the switch: each is the only one for its state and
  kind of cycle (`NextStateAlong`).
* **IoPortProofs.** `Sound` has three parts. *Carried*: a line that counts as
  pending holds its source; *Latched*: a held source has reached the core;
  *Caused*: a held source has a line. `KeyReachesCore` is Carried and Latched.
  `KeepsReached` is the counterpart of `KeepsServed` source by source, which
  is what makes the theorem hold across resets, after which other sources may
  be held unlatched. `Matrix` (both copies are the relation of the buttons
  that are down) gives `ScanFindsKeys`, and `OneEdgePerPress` by `WaitingRow`: the pin
  of a waiting row was high before the press exactly if no key of its row was down.
  `StepsSoundly` says of a step of the port what `NextKeeps` says of one of the controller: a
  `set_bit` function asserts once at most (`SetsBit`), a write to EINTPEND releases
  up to twice, and so the controller's own theorems hold of the composition
  (`PortDispatchTheorem`, `PortGrantTheorem`).
* **ClockProofs, the PWM timers.** The invariant says that `prev` is the start bits and the
  spent timers, that the timers on the list are those started and not spent
  (`OnList`), and that but for the timers a change of PCLK caught the count is one of TCNTB
  (`CountsTo`) and no deadline is further than a full count by the PCLK of now (`EndsBy`); the
  last two are `CountFits` in `PwmTypeOK`. Reading keeps them because the two conversions fit
  each other: `CountIsWord` (what is left of at most `MaxCount` counts makes at most so many,
  whatever is rounded off) and `PeriodGrows`. Both rest on a few facts of division
  (`Division`, `QuotientAtMost`).
  `StoppedIsOff` and `StartedRuns` are its two halves. Reset and load share one
  step, <1>9 of `PwmNextKeeps`: whatever the registers are set to, if before it
  the timers on the list are among the bits seen, then afterwards exactly the
  started ones are on it. `EndsBy` does not survive `s3c2410_update_tcon` there
  and is restored by the `s3c2410_update_tcfg` that follows.
* **ClockProofs, the real-time clock.** The four properties rest on one invariant,
  `RtcInv`, which TLC checked first. `OnTime`: no deadline is overdue by more than `Late`.
  `Armed`: a timer is there exactly while it is switched on. `OnPhase`: the tick's
  deadline is a whole number of intervals from when TICNT was written, one more
  than the ticks so far. `AlarmState`: the alarm is aimed at a second that has not
  rung, no further than `Lag` into it, and every matching second before that one,
  from the last change of the registers on, has rung. Here `TimelyAssumption` is needed: a
  deadline up to `Lag` into a second and a pass `Late` after it still see that
  second (`SecondIs`). Seconds are `now \div Second`; the prover is given the few facts
  of multiplication it cannot find (`Products`, `Quotient`).
* **SdiProofs.** The invariant `SdiInv` is that while there is a byte of a block
  left to read, or to write, the buffer has the length of the block
  (`ReadBacked`, `WriteBacked`), and that the bytes of a block to be written
  are bytes the guest wrote up to the index: without that last part a block
  could reach the card with bytes nobody wrote. The refinement is step simulation;
  `RestOfRest` (a suffix of a suffix) is why a block read in words is the block
  on the card, `StoredPuts` its counterpart for writing. A write to a register and a
  reset map to a stutter.
* **StateFileProofs.** The properties speak of starts, the code that makes them
  true of saves: the invariant therefore follows a save through its steps.
  `Program` says what file and configuration have at each step, `Saved` what
  of the last save is in the file: all of it, or a part in which only the last value
  may differ and stand, since a cut anywhere else loses a whole key (`TornText`).
  `SavingWrites` is why the file has what is held under the name of SRCPND.
  `CleanQuitReadsBack` is about the keys, not about a machine that goes on as if nothing had been:
  the cells in `Derived` are any.

Every safety property of the runs is stated by a theorem. Four hold under a
hypothesis on the constants, as in their runs: without resets (`Resets = {}`) for
`NoLostInterrupt`, `HeldLevelIsLatched` and `SubLevelReachesParent`, without FIQ for
`IrqLineFollowsIntpnd`.

Model-checked only: the liveness properties, since fairness and ENABLED are beyond
the prover: `QuitEnds`, `EventsAreHandled`, `OnKeyWakes`, `TimerEndsSleep`,
`BootsAfterReset`, `DueTimersFire`, `PeriodicFires`. What is proved of five of them
is their safety part, that the step waited for does what it is waited for and that nothing
undoes it: `QuitGoesOn`, `WakersWake` (for `OnKeyWakes` and `TimerEndsSleep`),
`ResetCoreIsReady`, and `DueKeepsItsPlace` with `CallsTakeTurns`. That the steps are
taken at all is what fairness adds and TLC checks.

## 6. What the checks show

* `LoopStuck`: a watchdog bite does not set `arm_idle`. If the guest had
  stopped the core through CLKCON, the reset masks every source and the core
  never executes its reset vector: "assert internal RESET" in
  `s3c2410_watchdog.c` does not restart the machine. `BootsAfterReset` checks
  that in all other cases it does.
* After a reset or a restart a shared source may stay held with SRCPND empty,
  and is not latched again until the guest writes EINTPEND or SRCPND;
  `outlived` shows these to be the only lines lost.
* Unmasking a pending line in EINTMASK asserts nothing (`missed`).
* The bound of the flash's CFI table counts halfwords and is compared with
  bytes: its upper half reads as zero. Not part of the model.
* A one-shot PWM timer that ran out clears its start bit in TCON but not in
  `prev_tcon`. If the guest sets the bit again without writing it as 0 first,
  there is no edge and the timer does not run (`spent`).
* Each write to TCFG0 or TCFG1 starts all running PWM timers over, the other
  prescaler's too; a guest that writes often enough hears from none.
* The column a key's level is taken from is the one numbered like its row. It
  makes no difference while all columns are driven alike, which is the case
  `OneEdgePerPress` states.
* A reset clears the registers of the SD interface, not its transfer: the next
  access to SDIDAT goes on with the block of before. It stays inside its buffer
  (`BuffersBacked`), and what the driver then sees is in `SdCard`: no action
  there closes a block but its end or a new process.
* CMD12 clears the flag for multiple blocks and leaves the block under way; CMD17
  and CMD24 do not clear the flag.
* The result of `sdcard_write` is thrown away: the guest is told of success
  whatever the host did. `PutRest` therefore leaves any first part of a block.
* The alarm's registers survive every reset (`s3c2410_rtc_reset` ends before
  RTCALM), and its timer with them (`TimersArmed`).
* A state file that is cut off inside its last value loads as a complete one,
  without a reset; anywhere else a key is missing and everything is reset, but
  for the alarm's registers, which keep what the file had.
* A memory that cannot be synchronised ends the save before the file is touched;
  `main` does not look at the result. The old state stays (`OnlySavesLose`).
* After a crash the next start has old registers and newer memory; nothing in the
  program notices.
* GPFDAT's reset value says that a card is present: after a reset the guest sees
  one whether there is one or not.
* `s3c2410_power_load` means to recompute the clocks through a write to CLKDIVN,
  but passes an address the range check rejects: until the guest writes a clock
  register, PCLK is that of `main.c`. A reset does not recompute them either.
* A PWM timer's deadline is made with the PCLK of the moment it is armed and TCNTO is
  read back with that of the read. After a write to MPLLCON, CLKSLOW or CLKDIVN in between TCNTO is off by
  the ratio of the two, more than TCNTB perhaps, and what was read is kept as the
  count a later write to TCFG starts the timer over with (`scaled`).
* Switching off lowers the IRQ line and keeps INTPND: the two differ until the next
  arbitration of the controller.
* The state file does not keep SRCPND, the pending exception, whether the core was
  stopped, or the positions of rotating arbiters since PRIORITY was last read: a machine that slept when
  the program ended runs when it starts.
* A write to SRCPND that clears a source routed to FIQ does not arbitrate: the FIQ
  line stays up until another register is written.

## 7. Not modelled

Registers without behaviour (LCD but for its refresh, NAND, USB, memory
controller), devices that complete at once (ADC, SPI), the contents of the
memories, the drawing of the user interface, QEMU's translator, the block layer,
the GDB stub (compiled in, never started). These third-party parts are most of
the lines of the repository. Ports A to E and H have no consequence for other
parts. The clock is taken not to run backwards. The byte offsets of the card are
numbers: that they wrap at 4 GB is left out. Data a read returns is modelled
only where it decides control (a scan of the keys) or is the point (a block of
the card).

Of the UARTs only what they do to the sub-sources of the controller is modelled
(`UartAssert`, `UartDeassert` of `Intc`, in any order): the three modules
register the same window of addresses, so that the last serves for all, nothing
is attached to them, and which level a register selects is data.

## 8. Plan

Done, in this order: `Intc` with proofs; `Watchdog` and `MainLoop`;
`TimerQueue`, `TimerList` with refinement and proofs; `FlashBus`, `FlashArray`,
`Flash` with refinement and proofs; `IoPort` with proofs; `PwmTimer` with
proofs; `SdCard`, `Sdi` with refinement and proofs; `Rtc`; `StateFile` with
proofs; proofs of `MainLoop` with the watchdog and of `Rtc`; the rest of the
safety properties of `Intc`, `Flash` and `IoPort`; the controller's theorems for
its compositions, and the safety part of the liveness properties.

Left for another time:

1. `PwmTimer` and `Rtc` composed with `TimerList`, whose `Mod`, `Del` and pass
   they use, and with `MainLoop`, which leaves open which timers have expired.
2. `FixedPriority` and `NoLostInterrupt` for the compositions; after resets the latter
   holds source by source only, as `IoPortProofs` has it for the shared lines.
3. The safety part of `PeriodicFires` as one theorem (`StartedRuns` and `EndsBy`
   are its parts), and of `EventsAreHandled`.
