# Verification of open-socemu

open-socemu simulates systems on chip built around an ARM processor: an
instruction set simulator (ISS) for ARM cores, the buses, memories and
peripherals of several chips as SystemC/TLM modules, and a GDB stub that lets a
debugger control the simulated processor. This directory models the parts where
several actors meet (bus arbitration, timers, interrupts, the transmitter, the
flash interface and other peripherals with threads, the caches and the write
buffer, the TLB, the debugger), the register banks of the processor and its
arithmetic in TLA+, checks the models with TLC, and proves the invariants of the
buses, the peripherals and the register banks, and the correctness of the
arithmetic instructions, for all parameters with TLAPS.

Paths are relative to the root of the repository, in which the code is under
`src/`. `Mpa.h:141` is a line of the file of that name.

## 1. The system

### Execution model

All models rest on how the SystemC kernel (`thirdparty/systemc-2.2.0`, external)
schedules threads:

- Threads are cooperative. A thread runs until it calls `wait()`, so the stretch
  between two waits is one action. Everything a handler does in the stretch, the
  callbacks into other modules included, belongs to that action.
- `sc_event::notify()` makes runnable the threads that wait on the event at that
  moment and nobody else: a notification to a thread that is elsewhere is lost.
  It also replaces a pending timed notification. `notify(t)` triggers the event
  after `t`; `cancel()` takes back a notification that is pending, not one whose
  waiters have already been made runnable.
- Runnable threads run in an order nobody may rely on. When none is left, delta
  notifications are delivered; when none of those is left either, simulated time
  advances to the next timed notification.
- A register access of a peripheral waits for its delay first (100 ns,
  `BusSlave.h:58`, `:68`) and takes effect after it, so an instant has at most
  one access to a bus, but the access may come before or after the threads
  woken at the same instant.
- `TLM_ERR` and a failed `assert` end the simulation. Models that can meet one
  have a flag for it, after which nothing happens.

### Inventory

| Component | State | Operations | Meets | What makes it correct |
|---|---|---|---|---|
| Multi port arbiter, `Generic/Mpa/Mpa.h` | a pending mark and an event per port, `m_one_pending`, `m_free` | `bus_s_b_transport` of each port, in three stretches | CPU and DMA controller above, address decoder below | one transaction at a time, no request forgotten, hand over by priority, no starvation of the two ports Bob has |
| Bus of the top platform, `Top/Bus/Bus.h` | the same, and base and mask of each target | `set_range`, `targ_b_transport`, `decode_address`, `compose_address` | initiators, targets | ranges are aligned blocks, every request is served |
| Address decoder, `Generic/AddrDec/AddrDec.h` | a list of ranges that every access reorders | `bind`, transport, debug transport | every platform's slaves, the ELF loader and the debugger | no range lost or duplicated, a debug access does what single accesses would |
| Watchdog SP805, `Arm/PrimeCells/Sp805/Sp805.h` | registers, a timed event, `m_inted`, `m_stopped` | register accesses, the thread | interrupt controller, the end of the simulation | the first expiry interrupts, the second one resets and comes a period later |
| Dual timer SP804, `Arm/PrimeCells/Sp804/Sp804.h` | registers, an event and a thread per timer | register accesses, the threads | interrupt controller | expiries when due, no stale interrupt, time goes on |
| Vectored interrupt controller PL190, `Arm/PrimeCells/Pl190/Pl190.h`, with `IntMaster.h`, `IntSlave.h` and `Cpu.h` | raw lines, enables, vectors, the CPU's lines, the CPU's wait | lines up and down, register writes, `wfi` | timers, watchdog, DMA controller, CPU | status, vector and lines never stale, no lost wake-up |
| UART of the MC13224V, `Mc13224v/Uart/Uart.cpp` | registers, the transmit queue, the thread | register accesses, the thread | interrupt controller | no character stranded, the line agrees with the queue |
| Interrupt controller ITC, `Mc13224v/Itc/Itc.cpp` | enables, types, mask, pending sets, two lines, two vectors | lines, register writes | the devices and the CPU | pending as configured, one line up, highest vector |
| Data path of the ARM926EJ-S, `iss/arch/arm/arm926ejs.cpp`, `mmu/cache.cpp`, `mmu/wb.cpp` | two caches with dirty halves, a write buffer, the enable | load, store, fetch, drain, clean, invalidate | the bus | a load returns the last store |
| TLB, `mmu/tlb.cpp` | entries, the next one to replace | translate, invalidate | page tables in memory | translations agree with the tables |
| Instruction loop, breakpoints, GDB stub, `iss/arch/arm/base`, `iss/gdbserver` | pipeline, breakpoints, `m_Emulate`, `m_PCChanged`, packet buffers | an instruction, a poll, each command | the debugger over TCP | stops where asked, answers what is asked, executes what is at the PC |
| Instruction semantics, `armemu.cpp`, `thumbemu.cpp`, `armsupp.cpp`, `armvirt.cpp` | registers, banks, modes, flags | each instruction | - | the ARM architecture |
| Random bits `Bob/Rbg`, power management `Bob/Pmu`, Bluetooth PHY `Bob/Phy` | registers, a thread each | register accesses, the thread | - | no start is lost on a busy thread, what was started ends |
| SPI flash interface SPIF, `Mc13224v/Spif/Spif.cpp` | registers, the command the flash is replying to, the thread | register accesses, the thread | interrupt controller | the flash replies to the accesses that were started; the interrupt is that of the last one |
| Advanced interrupt controller AIC, `At91sam9261/Aic/Aic.cpp` | pending, enabled and fast sources, vectors, the current one | register writes, lines | the CPU | lines, current source and vectors never stale |
| DMA controller PL081, `Arm/PrimeCells/Pl081/Pl081.h` | channels, the thread | register accesses, the thread | the arbiter | not written yet in the code: the copy is a comment |
| SPI, CRM | registers, a thread in SPI | register accesses, the thread | interrupt controllers | an operation started ends |
| Register banks, memories, ROM, SMC, OR gate, simple interrupt controller | registers or an array | read, write | - | they store what is written |
| Platforms, configuration reader, ELF loader | - | construction | - | the address maps and the wiring |
| Older CPU models and GDB servers, other cores | - | - | - | not used by the platforms, or subsumed by the modelled one |

`PROJECT.json` lists every component with its files and with what is modelled of
it. What is hard to test in this code, line by line, is under `hazards` there:
mostly lost notifications, threads that run after a register write of the same
instant, summaries that go stale (`m_one_pending`, vectors, lines, `m_inted`),
lists and buffers reordered by every access, and pipeline or packet contents that
outlive the event that should discard them.

## 2. Modules

| Module | Models | State and actions |
|---|---|---|
| `Arbiter` | nothing in the code: the abstract prioritised arbiter a master may rely on | `owner` and `queue`; `Take`, `Enqueue`, `Release`, `HandOver` |
| `Mpa` | `Mpa.h:96`-`:190` | `pc[p]` is where the thread of port p is; `is_pending`, `m_one_pending`, `m_free` as in the code. `RequestFree`, `RequestBusy` (up to the wait), `Resume` (from the notification into the target), `Finish` (from the target's return to the end, the scheduling loop included) |
| `MpaProofs` | - | the theorems about `Mpa` |
| `ArmModes` | the modes, their banks, the exceptions: `armsupp.cpp:9`, `:405`, `arm.h:733` | operators |
| `RegisterFile` | nothing in the code: the registers as software sees them, a place for every register of every bank | `Execute`, `Transfer`, `Enter`, `Leave`, `SetStatus`, `SetSaved` |
| `Banks` | the array `m_Reg`, the matrix `m_RegBank` and the moves between them: `armsupp.cpp:29`-`:306`, `:405`, `armemu.cpp:3204`, `:3329`, `:3733` | `cpsr` is `m_Mode` and the mask flags, which the code puts together in `ARMul_GetCPSR`; an action per way an instruction or an exception changes the registers or a status |
| `BanksAborted` | `Banks` with the data aborts of block transfers with `^` | three more actions |
| `Bus` | `Bus.h:170`-`:230`, the arbitration | as `Mpa`; the bus is marked free before the notified thread runs, so two transactions can overlap |
| `BusDecode` | `Bus.h:70`-`:160`, the address map | `Configure` is a `set_range` call with any base and mask on W bits; decoding and composing are operators; C's bitwise operators are a recursive function over the bits, since the library's could not be used in a proof |
| `TopBus` | the two together: configured first, then used | |
| `BusProofs` | - | the theorems about `Bus`, `BusDecode` and `TopBus` |
| `AddrDec` | `AddrDec.h` | the list as a sequence of ranges; `Bind`, `BTransport` and `GetDirectMemPtr` (with the move to the front), `DbgTransport` (a fold over its words) |
| `Sp805`, `Sp804` | the watchdog and the timers | registers, `armed` (periods until the event), `ready` (triggered, the thread has yet to run), `elapsed`; register writes, `Expire` (the thread), `Tick` |
| `Vic` | PL190, the interrupt sockets, and the CPU's wait for an interrupt | sources, enables, slots, lines; the CPU is running, about to wait, or waiting |
| `Rbg` | the random bit generator: warm-up and count in STATUS, restarted by a read | `rbgAt` is where the thread is; a notification is lost elsewhere than at its wait |
| `Pmu`, `Phy` | a measurement and a serial access that a register write starts and a thread ends | the register, the result or the bit, and where the thread is |
| `Aic` | the AIC with its lines and vectors | every register write and line change ends in `AicCheckInt` |
| `SerialFlash` | nothing in the code: a serial flash as its users see it, the next bit with every clock | `request`, `stream` (the command and the bit it has come to), `reply` |
| `Spif` | the SPIF registers and `thread_flash` | `active` and the registers the thread reads when the clocks have passed; `started` is a history variable |
| `MachineWords` | words modulo 4 * Quarter, `AddCarry`, `SubCarry`, `AddOverflow`, `SubOverflow` (`armsupp.cpp:115`-`:185`) | operators |
| `Arithmetic`, `Products`, `Shifts` | nothing in the code: what additions, multiplications and shifted operands promise, in terms of integers | fetch, execute |
| `DataProcessing` | the additions, subtractions, comparisons and saturating instructions of `ARMul_Emulate32` and their flags | one operator per instruction; `DpExecute` |
| `Multiplier` | `Multiply64`, `MultiplyAdd64`, `MUL`, `MLA` and the half word products | as above |
| `Shifter` | `GetDPRegRHS`, `GetDPSRegRHS`, `GetLSRegRHS`, immediate operands | as above |
| `MCBlocks` | puts the blocks that run by themselves or interrupt the CPU (`Sp805` to `Spif` of this table), `AddrDec` and `Mpa` side by side | see below |
| `BlocksProofs` | - | the theorems about these blocks |
| `MCIss` | puts `Banks`, `Tlb`, `DataProcessing`, `Multiplier` and `Shifter` side by side | |
| `Uart`, `Itc` | UART transmitter, ITC | queue length, thread, line; enables, pending sets, lines, vectors |
| `Mc13224v` | `Mc13224v.cpp`: UART line to the ITC | a step of the UART that ends in `check_int` and the ITC's reaction are one step |
| `Mc13224vProofs` | - | the theorems about `Uart`, `Itc` and the two together |
| `Memory` | nothing in the code: a memory as a program sees it | `content`, `result`; `Load`, `Store` |
| `DataPath` | ARM926EJ-S accesses through caches and write buffer | ways with dirty halves, the buffer as a sequence; one action per access or maintenance operation |
| `Lemmas` | - | what the proofs share: induction, division, powers of two, and what a fold computes, step by step |
| `DataPathProofs` | - | the theorems about `DataPath` |
| `Tlb` | TLB against page tables that software changes | entries, next entry, tables; `stale` is a history variable |
| `IssProofs` | - | the theorems about `Banks`, `Tlb`, `DataProcessing`, `Multiplier` and `Shifter` |
| `Debugger` | instruction loop, breakpoints, GDB stub, connection, and a debugger at its other end, which may go away at any point | `pipe`, `flush`, `pc`; `at` is where the thread is in the stub; `toServer` and `toClient` are the connection |
| `DebuggerProofs` | - | the theorems about `Debugger` |

Each `MC` module, or the configuration of a module that needs none, says what its
bounds are for. Mutated operators that stand
before a definition with the comment "Slip:" are plausible mistakes in it; they
are named in `PROJECT.json` with the property each must break, and are used
nowhere else.

### What is abstracted

- Values: words, characters and registers that are only moved are members of
  small sets. Time is counted in periods. Addresses are words or pages of a small
  window.
- Logging, wording and packet formatting are left out. A packet is sent and read
  as a whole.
- The debugger, the devices behind interrupt lines, and the software are the
  environment: they do anything the code accepts, in any order, apart from the
  assumptions named below.

- The mask bits of `Debugger` are one flag: an FIQ directly after an IRQ, which the
  CPU would take, is left out. Both leave the pipeline to be flushed, and no property
  tells them apart.

## 3. Runs

| Run | Checks | Bounds |
|---|---|---|
| `top_bus` | the ranges left by `set_range` are blocks that decode and compose back (`MapInv`); then no request is stranded (`IInv`, the inductive invariant) and the first initiator is always served (`FirstServed`) although transactions overlap | 3 initiators, 2 targets, 3-bit addresses: every base and mask in every order |
| `bus_overlap` | finding 5 | 2 targets, 3-bit addresses |
| `addrdec_gap` | finding 1 | |
| `blocks` | the arbiter: `MutualExclusion`, `IInv` (the inductive invariant, with `NoStrandedRequest` as a conjunct), `TwoHighestServed`, and that `Mpa` implements `Arbiter` (`ImplementsArbiter`); `TimerInv`, `WdogInv`, `VicInv`, `AicInv`, `SpifInv`, `NoStartLost`: the invariants of the other blocks; `TimePassesForTimer`: time passes; `WatchdogBites`: an unattended watchdog resets; `WakesUp`: a waiting CPU wakes up; `StartsEnd`: a random number, a measurement, a serial access and a flash access come to an end; `ImplementsFlash`: `Spif` implements `SerialFlash`; `Disjoint`, `NoSlaveLost`: the decoder's list stays disjoint and complete; `DebugAgrees`: a debug access agrees with the map up to the first gap | 5 ports, where Bob has 2: port 2 and above can starve, so liveness is stated for two ports and the others compete. Timer values up to 3 (2 in 16 bit mode), prescalers 1 and 2; watchdog values up to 3; 2 interrupts, 2 slots. Every relation of reload value, prescaler, stop and expiry occurs within two periods. 3 slaves anywhere in 6 words, accesses up to 4: gaps before, between and behind. Numbers of 2 bits after a warm-up of one step; 3 sources and 2 vectors; flash accesses of 1 to 40 clocks: commands alone, replies alone, both, too long a reply, a command cut short, ends within a byte, on a byte and on a whole identity |
| `watchdog_kick` | finding 2 | |
| `mc13224v` | `UartInv` (no character stranded, the line agrees with the queue), `ItcInv`, `ReachesCpu`: what the UART asks for reaches the CPU; `KeepsSending`; `HandsBack`: a normal interrupt silenced by a fast one is handed back | a FIFO of 2 and one character more than fits, thresholds on both sides, characters that take no time or two units, a second interrupt with a higher number |
| `datapath` | `IInv`: clean halves agree with memory; `ImplementsMemory`: the path implements `Memory` for the lines that are not fetched from | a data and a code line that compete for one way, 2 halves, 2 buffer entries, all combinations of cacheable and bufferable, 2 values (symmetric) |
| `iss` | `Banks` implements `RegisterFile`, its inductive invariant `BanksInv`; `TlbInv`: translations that were not made stale agree with the tables, one entry matches at most; the additions, multiplications and shifts of the emulator implement `Arithmetic`, `Products` and `Shifts` | registers 8 and 14 (banked in the FIQ mode only, and in all modes), FIQ, SVC, user and mode 0, one mask bit, 2 words (symmetric); 2 sections of 2 pages, 3 entries: fewer than there are mappings, so entries are replaced. Additions on all words of 4 bits, which have all carries and overflows; products of 2, 7, 8 and 11 as such words: the most negative one, one whose partial products carry, one of either sign; shifts of all words of 6 bits by 0 to 13: fewer, as many, more, twice as many |
| `banks_aborted` | finding 4 | |
| `debugger` | `IInv`: breakpoints as inserted; `ExecutesAtPc`; `BreakpointsHonoured`; `Answered`: commands are, and the target does not stay halted when the debugger goes away | 3 addresses (the pipeline depth), 2 breakpoints |
| `debugger_races` | `ExecutesAtPc` when a loss of the connection and stop requests race everything | 1 breakpoint, 1 stop request |
| `debugger_step` | finding 3 | |

`blocks` and `iss` explore one part at a time: the parts share no variable, no
property relates two of them, and a behaviour of all of them restricted to the
variables of one is a behaviour of that one with stuttering. So
choosing the part at the start loses nothing and adds the state spaces instead
of multiplying them.

### Fairness

Weak fairness is assumed of what the kernel does by itself: a thread that has
been notified runs, a target's delay ends, a delta cycle is delivered, time
advances when nothing is runnable. (In `MCBlocks` the threads of different blocks
are under one WF: only one block moves in a behaviour, so fairness of the
disjunction is that of each; and the arbiter lets one master's thread run at a time,
so fairness of `MpaThread` is `Fairness` of `Mpa`.) That the timer lets
time pass and that the watchdog bites is stated of the behaviours in which they are
the block that moves; elsewhere time stands still. Requests of masters, register writes,
interrupt lines and the debugger's commands are optional and unfair. In
`Debugger` the simulator's thread runs, and the debugger reads what has arrived
and acknowledges it, which is what the protocol asks of it.

### Assumptions on the environment

- One access per instant on a bus (see the execution model).
- `DataPath`: software drains and cleans before it turns the data cache off, and
  invalidates it before it turns it on, as the architecture asks.
- `Tlb`, `BreakBeforeMake`: software unmaps and invalidates before it maps. With
  FALSE, mapping a section over a page leaves two matching entries, and
  invalidating the address drops only one of them.
- `Debugger`, `PcAtConnect` and `Spurious`: the debugger does not set the PC
  before the target has run for the first time, and removes only breakpoints it
  has inserted. With TRUE, the pipeline filled at reset is executed instead of
  the new PC, and the last breakpoint is dropped in the place of the unknown one.
- `Banks`: software puts no reserved mode in a status register (it would get the
  dummy bank, in which registers read 0), and does not write back the base of a
  block transfer of the user's registers, which the architecture leaves
  unpredictable. The debugger's write of the CPSR is left out.
- `Itc`: interrupts are numbered 1 to 10, as the platform connects them.
- `Rbg`: software leaves STATUS alone while the thread counts in it (the thread
  tests for equality, `Rbg.cpp:134`, and would run past its end). `Pmu`: software
  does not write the result register.
- `Spif`: a command of the wrong length, an unaligned address, or a reply of more
  than 32 bits ends the simulation, and with it the behaviour. `Aic`: the platform connects no source yet; the
  model lets any source go up and down.
  Software ends an access that leaves the flash selected on a whole byte of a read,
  or on both bytes of the identity. The address is counted in bytes
  (`Spif.cpp:108`) and the identity starts anew with every access (`:100`), so after
  another end the next access repeats bits. `SerialFlash` promises nothing there until
  the next deselection; the accesses themselves are in the model.
- `Multiplier`: the registers of a multiplication differ where the architecture
  requires it. Instructions are those whose condition holds, and R15 is left out.

## 4. Proofs

`MpaProofs` proves, for every N > 0:

- `Invariance`: `Spec => []IInv`. `MutualExclusion` is not inductive: a thread
  that has been notified enters the target without looking at `m_free`, so one
  needs that at most one port is *granted* (notified or in the target) and that
  the bus is free exactly when none is (`OneGrant`); and `Finish` decides from
  `m_one_pending`, so one needs that the marks tell where the threads are
  (`PendingMarks`): a port is marked from its wait until it runs again, not
  until it is notified. `NoStrandedRequest` follows the same argument: the owner's
  `Finish` finds a marked port whenever there is one, because the summary is
  the disjunction of the marks.
- `Exclusion`, `NoLostRequest`: the two safety properties, from the invariant.
- `Priority`: a released thread has the highest priority of those blocked, from
  the scheduling loop's order and `PendingMarks`.
- `Implementation`: `Mpa` implements `Arbiter`, with the owner being the granted
  port and the queue the blocked ones. `Resume` is a stutter.

Each step of `Next` has a lemma, and each lemma has one step per conjunct of the
invariant. The only assumption is `NAssumption`.

`IssProofs` proves of the register banks, for any modes with their banks, registers, words and masks
(the assumptions of `ArmModes`):

- `BanksInvariance`: `BanksSpec => []BanksInv`. The types and `BankOfMode` are
  inductive; `StoresUser` follows from them.
- `BanksImplementation`: `Banks` implements `RegisterFile`. The mapping takes the
  place of a register from the array if it is the place the bank in use has for
  it, and from the matrix if not. Every handler is made of moves and writes: a
  move that starts from the bank in use leaves all places as they are
  (`SwitchContents`: a register moves exactly if it has different places in the
  two banks), a write changes the places of the bank in use (`WithContents`). A
  handler that moves from a bank that is not the one in use breaks the argument,
  which is what `banks_aborted` shows.

It proves of the data processing instructions, for words of any size
4 * Quarter > 0:

- `ArithmeticTyping`: results stay words and flags stay flags.
- `ArithmeticImplementation`: `DataProcessing` implements `Arithmetic`. The lemmas compare
  the flags told from three highest bits with the exact sum or difference, and
  show that the tests by which the code skips the computation of carry and
  overflow (`armemu.cpp:677`, `:760`) skip it only where both are false; from
  these the reversed and the carrying forms follow, and for the saturating
  instructions that the overflow of the doubling and of the addition are told
  from the right operands.

It proves of the multiplications, for half words of any even number of values:

- `MultiplierImplementation`: `Multiplier` implements `Products`. The product of two
  words is an equation between integers in which each carry of `Multiply64`
  is accounted for (`MultipliedExact`); that the upper word never carries out
  is told from the size of the exact product. Everything else is about numbers
  that differ by a multiple of the size of the result (`Apart`), which sums and
  products keep: signs taken off and put back, halves extended to 32 or 64
  bits, an upper half cut off after and not before the division
  (`HighOfLong`). Q is set exactly if the sum overflows, because a product of
  halves fits in a word (`ProductBounds`).

It proves of the shifted operands, for words of any even number of bits, any
amounts and any immediate bytes:

- `ShifterImplementation`: `Shifter` implements `Shifts`. `AtOnce` is what the
  operators of C give, in closed form; one more single bit of the instruction set
  takes it from n to n + 1 (`AtOnceSteps`: nothing is lost at the top to the left,
  copies of the sign go on as the sign, a rotation comes round after as many bits
  as there are), so it is what shifting bit by bit leaves (`ShiftedIs`), and each
  case of the code - none, fewer than a word has, as many, more - is `AtOnce` where
  the instruction set means it (`ConstantIs`, `AllBitsIs`, `RegisterIs`,
  `ThroughCarry`, `PositionIs`).

`BlocksProofs` proves, for any constants that satisfy the modules' assumptions:

- `TimerInvariance`, `WdogInvariance`, `VicInvariance`, `AicInvariance`,
  `SpifInvariance`: the invariants of `blocks`, which are inductive. The timer's
  says that what is armed and what has elapsed make up the period of the
  configuration the timer runs under; the watchdog's that the flag for the
  second stage, the interrupt and the event agree; those of the interrupt
  controllers that everything derived is what a fresh computation would give,
  for which the loops of the code must have found the first source
  (`LeastElement`, by well-foundedness of the numbers).
- `RbgInvariance`, `PmuInvariance`, `PhyInvariance`, and from them
  `StartsAreHeard`: no start that matters is lost on a thread that is not at its
  wait. For the random bits one needs that the count in STATUS is less than a
  whole number as long as the thread is counting, which is arithmetic on the
  fields of the register (`NumberCounted`).
- `FlashImplementation`: `Spif` implements `SerialFlash`, from `SpifInv`: an access
  left alone is made with the registers, the clocks and the selection it was
  started with, so what the thread reads when the clocks have passed is the
  access that was begun (`EndStep`). `SerialFlash` counts bits and `Spif` the bytes of
  the address: that the two agree over accesses that end on whole bytes is
  arithmetic (`BytesFurther`).
- `RangesAreDisjoint`, `DebugReadsTheMap`, `SlavesAreKept`: the decoder. A move to the
  head permutes the list (`MoveElements`), so nothing depends on its order; a
  debug access is a loop that reorders the list at every word, and after each
  of its words the list is a permutation of the one it began with and the words
  read are those of the map or stand behind a gap (`Served`, `ServeNext`, and
  `Lemmas` for the loop).

`BusProofs` proves of the bus of Top:

- `BusInvariance`, for any number of initiators: `IInv` of `Bus`.
- `MapInvariance`, for addresses of any width and any number of targets: `MapInv`.
  Inductive is what `set_range` has checked (`MapIInv`). That
  the mask check lets through ones followed by zeros only is shown bit by bit,
  from the lowest: `t & (t - 1)` is zero for t zero or with one bit set, so `mask ^
  (mask << 1)` shows at most one change between neighbouring bits, and where there
  is none the bits are all alike (`NoChange`, `OneChange`). With such a mask "and" takes
  the remainder of a power of two away or leaves it (`AndBlock`), and the rest is
  division.
- `TopInvariance`: both, of the platform that first builds its map and then runs.
Unlike that of `Mpa` it cannot say that one transaction is going on. That no
request is stranded is not inductive by itself: a request that finds the bus
busy must have somebody ahead of it who will look at the marks, which is
`BusyIsServed`, and a `Finish` that marks the bus free must leave no mark or
notify one.

`Mc13224vProofs` proves `UartInvariance` for any thresholds and character times,
`ItcInvariance` for any set of interrupts, and `SystemInvariance`: with the UART
connected to any of them, `UartInv`, `ItcInv` and `ReachesCpu` hold of the two
together. `ReachesCpu` needs two facts about the composition: the controller's
source bit is the UART's line (`Wired`), and the pending sets are those of the
configuration (`Checked`); the UART's line is its condition whenever the thread
waits (`LineAgrees`).

`IssProofs` also proves `TlbInvariance`, for any numbers of sections, pages and
entries, under `BreakBeforeMake`: what is not stale agrees with the tables, and
one entry matches an address at most. The second part is the one that needs
more: a walk loads an entry only where nothing matched, but a section covers
many addresses. `StaleUnmapped` says that stale translations are of addresses
that are not mapped any more, so that a walk that succeeds loads its entry
beside none that matches.

`Lemmas` proves what the provers do not know of division and powers (that a power of
two doubles is taken from the number of subsets the library counts with it), and
`FoldResults`: a fold along a sequence is the last of the results its operator gives
one after the other. No prover computes a fold, whose
definition is a function over the subsets of the positions; from `FoldResults`
what a loop leaves follows by an induction in the form of a set of numbers that
contains 0 and the successor of each of its members (`Inductive`). It is
instantiated with the operator of a loop, one instance per loop.

`DataPathProofs` proves, for any lines, values, ways and size of the write buffer:

- `DataPathInvariance`: `Spec => []IInv`. The part that matters is `CleanAgrees`: a
  half of a data line that is not dirty is what memory holds. It is not
  inductive without `Pending` (a line that waits in the write buffer is not in the
  data cache, so a drain does not change memory under it) and `FetchedOnly` (the instruction
  cache, whose halves a store dirties too, holds code lines only, so that its
  write-backs cannot overtake a store to a data line).
- `DataPathImplementation`: the path implements `Memory` for the lines that are
  not fetched from. A fill, an eviction and a drain change no value a load would
  return; a store changes that of its address only. What a drain leaves in memory
  is told by the last entry of each address (`DrainPuts`), from which what a new
  entry, a full buffer and a write-back change follows by comparing last entries
  instead of whole loops; an action's parts (write-back, fill, update) are taken
  one by one, each as a map from values to values (`Coherent`).

The only assumption beyond types is `NoneAssumption`: no line has the tag of an
empty way, as the tag of a line in use has its valid flag set.

`DebuggerProofs` proves, for any addresses and number of breakpoints:

- `PipelineInvariance`: `ExecutesAtPc`, under `~PcAtConnect`, with stop requests in
  any number. The pipeline holds the instructions behind the one at the PC unless
  it is about to be flushed, and only what flushes it changes the PC otherwise.
- `SessionInvariance`: `IInv` without stop requests and without removals of
  breakpoints that are not there (`MaxStops = 0`, `~Spurious`). What is under way in
  the connection must agree with where both ends are: a command with no answer
  yet, an answer not acknowledged yet, or nothing; the step of a debugger that
  left may still have to end. With stop requests it is false: `put_packet` takes
  a stop request for an acknowledgement, and a command may be answered twice.
- `BreakpointsAreHonoured`: from it, since the array of the stub is that of the
  debugger.

The hypotheses are about the debugger's behaviour and are those of the runs.

Only model-checked: liveness (`TwoHighestServed` and the other properties under
fairness), which is out of the prover's reach. Every invariant and every action
property of the passing runs, and every refinement, is stated by a theorem.

## 5. What the code does otherwise than it says

Shown by a run that must find the violation:

1. `addrdec_gap`: `find_next_closest_range` (`AddrDec.h:381`) always returns
   NULL, so a debug access that meets a gap fills up to its end, mapped words
   included.
2. `watchdog_kick`: a kick at the instant of an expiry that runs ahead of the
   thread cannot cancel it, and the expiry counts as the first one of the new
   cycle: one period until the reset instead of two.
3. `debugger_step`: a step right after the connection or after the PC was set
   stops again before an instruction has been executed.
4. `banks_aborted`: a block transfer with `^` that is aborted (`armemu.cpp:3391`,
   `:3793`) enters the exception while the user's bank is in place: the r13 and
   r14 of the mode it was executed in become the user's, and after a load the
   user's become those of the abort mode.
5. `bus_overlap`: the last check of `set_range` (`Bus.h:102`), which by its comment
   (`:99`) checks that a range is "not conflicting with others", tests the new base
   against the ranges there are and not their bases against the new range. A larger
   range is accepted over a smaller one, and if its target has the lower id,
   addresses of the other one decode to it.

Modelled as the code has it, and stated by no property:

- `Bus.h:202`: the bus is marked free while a notified initiator is about to
  enter: two transactions can overlap. The top platform has one initiator.
- `AddrDec.h:130`: with a decoding mask, an alias is forwarded with an offset
  outside the slave; no platform passes a mask.
- `Sp804.h:117`: the status of timer 2 is taken from timer 1. `Sp804.h:163`:
  nothing clears the stopped flags, so VALUE is read from the register for ever
  after the first stop; `:180`: a stop after a one-shot expiry subtracts the
  elapsed time again, and VALUE wraps.
- `Sp805.h:162`: the second expiry does not re-arm the event when the reset is
  disabled. A watchdog left without an event that has its reset enabled later never
  bites; `WatchdogBites` is about one whose event is armed.
- `Uart.cpp:227`: `!m_tx.fifo.size() < 32` is always true, so the FIFO is
  unbounded. `Uart.cpp:73`: TXE is tested a delta cycle before the character is
  taken.
- `Spif.cpp:43`: the thread reads word, length and selection when the clocks have
  passed, so a register written during an access changes the access.
  `Spif.cpp:100`: a reply without a bit shifts a 32 bit word by 32, which C leaves
  undefined: the model only says that the word received is some other one.
  `:100`, `:108`: an access that leaves the flash selected within a byte, or between
  the two bytes of the identity, is followed by one that repeats bits.
- `Rbg.cpp:134`: the end of the warm-up and of the count are tested for equality.
- `arm926ejs.cpp:379`: a store dirties the instruction cache line too, which is
  written back although parts of it may be older than memory.
- `tlb.cpp:308`: invalidating an address drops the first matching entry only.
- `armemu.cpp:3397`: a load with the program counter and `^` that is aborted
  restores the saved status at once, so the handler runs in the mode of the
  instruction (`ReturnAborted`).
- `gdbserver.cpp:149`: a stop request read while waiting for an acknowledgement
  is dropped. `:465`: after a disconnection nobody else can connect, and
  what is sent to the closed connection, for a breakpoint that is still there,
  can end the program by SIGPIPE (`Killed`).
- `Pl081.h:216`: a channel that reaches the copy loops without waiting, and
  simulated time stops.
- `sc_main.cpp:258`-`:279`: the platform objects live in blocks that end before
  `sc_start()`.

## 6. Not modelled

- Instructions other than data processing, multiplications, and what the
  debugger and the register banks meet: loads and stores with write-back, the
  Thumb decoder, coprocessors, conditions. Their operands are enumerated, not
  decoded.
- Of the TLB, other page sizes, domains and permissions (`check_perms` is a
  placeholder that takes every access for a privileged one, `tlb.cpp:41`); byte
  and half word accesses to memories.
- The receiver of the UART, whose event queue nothing feeds; SPI, which is `Spif`
  without the flash; CRM, whose events nothing sets; SMC, which forwards
  accesses; the simple interrupt controller of the top platform, whose wait
  suspends the CPU's thread without an event; the OR gate, which no platform
  instantiates; the DMA controller, whose copy is not written.
- Another debugger after the first; watchpoints, system calls; file formats and command line; generated
  register accessors, which are most of the files of some blocks and store what
  is written; older CPU models and GDB servers and the other ARM cores, which no
  platform uses; third party code, of which the SystemC kernel appears as the
  environment.

## 7. Plan

1. (done) `Mpa`, `Bus`, `AddrDec`, `Sp805`, `Sp804`, `Vic`, `Uart`, `Itc`,
   `DataPath`, `Tlb`, `Debugger`, `Banks`.
2. (done) `Rbg`, `Pmu`, `Phy`, `Aic`, `Spif` with `SerialFlash`; `DataProcessing`,
   `Multiplier`, `Shifter` with what they promise.
3. Loads, stores and block transfers with write-back and aborts, the Thumb
   decoder against the instructions it stands for.
4. `Spi` and `Crm` joined to `mc13224v`; larger pages in the TLB.
5. Composition: Bob's masters above `Mpa` and `AddrDec` below.

Theorems: (done) `Mpa`, `Banks`, `DataProcessing`, `Bus`, the blocks, the UART
with the interrupt controller, `Tlb`, `DataPath`, `Debugger`, `Multiplier`,
`Shifter`, `BusDecode`, `TopBus`. Left: the same for what 3 to 5 add.
