-------------------------------- MODULE Vic ---------------------------------
(***************************************************************************)
(* The interrupt path of the Bob platform: interrupt lines of the devices, *)
(* the vectored interrupt controller                                       *)
(* (src/src/tlm_blocks/Arm/PrimeCells/Pl190/Pl190.h), and the two lines of *)
(* the CPU with its wait-for-interrupt loop (src/src/tlm_blocks/Cpu).      *)
(*                                                                         *)
(* Setting or clearing a line is a chain of calls that ends in the CPU     *)
(* without a wait, so it is one step.  The controller's registers are sets *)
(* of interrupts; a handler's address is the slot it comes from.           *)
(***************************************************************************)
EXTENDS Integers

CONSTANTS
  Ints,  \* interrupt numbers (0 .. 31), 0 among them
  Slots  \* the number of vector slots (16)

ASSUME SlotsAssumption == Slots \in Nat
ASSUME IntsAssumption == 0 \in Ints

VARIABLES
  source,               \* m_vicintsource
  soft, enable, select, \* SOFTINT, INTENABLE, INTSELECT
  vector,               \* VECTCNTL: for a slot, its enable and its interrupt
  irqStatus, fiqStatus, \* IRQSTATUS, FIQSTATUS
  vectAddr,             \* VECTADDR: the slot it comes from, Slots for DEFVECTADDR
  irq, fiq,             \* ~m_NirqSig, ~m_NfiqSig of the CPU
  cpu                   \* "running", or in the wait of wfi: "waiting", "woken"

config == <<soft, enable, select, vector>>
derived == <<irqStatus, fiqStatus, vectAddr, irq, fiq>>
vicVars == <<source, config, derived, cpu>>

Slot == 0 .. Slots-1
Default == Slots
VectCntl == [on : BOOLEAN, int : Ints]

VicInit ==
  /\ source = {} /\ soft = {} /\ enable = {} /\ select = {}
  /\ vector = [s \in Slot |-> [on |-> FALSE, int |-> 0]]
  /\ irqStatus = {} /\ fiqStatus = {}
  /\ vectAddr = Default
  /\ irq = FALSE /\ fiq = FALSE
  /\ cpu = "running"

-----------------------------------------------------------------------------

Raw == source \union soft
Irqs == (Raw \intersect enable) \ select
Fiqs == Raw \intersect enable \intersect select

Hit(s) == vector[s].on /\ vector[s].int \in Irqs

\* The first slot whose interrupt is up.
Vectored ==
  IF \E s \in Slot : Hit(s)
  THEN CHOOSE s \in Slot : Hit(s) /\ \A r \in 0 .. s-1 : ~Hit(r)
  ELSE Default

\* Cpu::interrupt_set and interrupt_clr notify m_interrupt in either case.
\* Only a thread in its wait hears it.
Notify == cpu' = IF cpu = "waiting" THEN "woken" ELSE cpu

\* update_int, and the calls that fiq.set/clear and irq.set/clear lead to.
VicUpdateInt ==
  /\ irqStatus' = Irqs' /\ fiqStatus' = Fiqs'
  /\ vectAddr' = Vectored'
  /\ fiq' = (Fiqs' # {}) /\ irq' = (Irqs' # {})
  /\ Notify

IntSet(i) ==
  /\ source' = source \union {i}
  /\ UNCHANGED config
  /\ VicUpdateInt

IntClr(i) ==
  /\ source' = source \ {i}
  /\ UNCHANGED config
  /\ VicUpdateInt

WriteIntEnable(v) ==
  /\ enable' = v
  /\ UNCHANGED <<source, soft, select, vector>>
  /\ VicUpdateInt

WriteIntEnClear(v) ==
  /\ enable' = enable \ v
  /\ UNCHANGED <<source, soft, select, vector>>
  /\ VicUpdateInt

WriteSoftInt(v) ==
  /\ soft' = v
  /\ UNCHANGED <<source, enable, select, vector>>
  /\ VicUpdateInt

WriteSoftIntClear(v) ==
  /\ soft' = soft \ v
  /\ UNCHANGED <<source, enable, select, vector>>
  /\ VicUpdateInt

WriteIntSelect(v) ==
  /\ select' = v
  /\ UNCHANGED <<source, soft, enable, vector>>
  /\ VicUpdateInt

\* Slip: the registers of the vector block only take the value.
WriteVectCntlOnly(s, c) ==
  /\ vector' = [vector EXCEPT ![s] = c]
  /\ UNCHANGED <<source, soft, enable, select, derived, cpu>>

WriteVectCntl(s, c) ==
  /\ vector' = [vector EXCEPT ![s] = c]
  /\ UNCHANGED <<source, soft, enable, select>>
  /\ VicUpdateInt

-----------------------------------------------------------------------------

\* Slip: only the IRQ line is looked at.
IrqOnly == irq

Interrupted == irq \/ fiq

\* Slip: the thread waits first and looks at the lines afterwards.
WfiWaitsFirst ==
  /\ cpu = "running"
  /\ cpu' = "waiting"
  /\ UNCHANGED <<source, config, derived>>

\* wfi up to its wait, or to its end.
Wfi ==
  /\ cpu = "running"
  /\ cpu' = IF Interrupted THEN "running" ELSE "waiting"
  /\ UNCHANGED <<source, config, derived>>

\* The loop from the end of the wait to the next wait, or to its end.
Wake ==
  /\ cpu = "woken"
  /\ cpu' = IF Interrupted THEN "running" ELSE "waiting"
  /\ UNCHANGED <<source, config, derived>>

\* The wait has a timeout, to poll the debugger.
Timeout ==
  /\ cpu = "waiting"
  /\ cpu' = "woken"
  /\ UNCHANGED <<source, config, derived>>

VicRegisters ==
  \/ \E v \in SUBSET Ints :
       \/ WriteIntEnable(v) \/ WriteIntEnClear(v)
       \/ WriteSoftInt(v) \/ WriteSoftIntClear(v)
       \/ WriteIntSelect(v)
  \/ \E s \in Slot, c \in VectCntl : WriteVectCntl(s, c)

VicNext ==
  \/ \E i \in Ints : IntSet(i) \/ IntClr(i)
  \/ VicRegisters
  \/ Wfi \/ Wake \/ Timeout

VicSpec == VicInit /\ [][VicNext]_vicVars

\* A runnable thread runs.
VicFairSpec == VicSpec /\ WF_vicVars(Wake)

-----------------------------------------------------------------------------

VicTypeOK ==
  /\ source \subseteq Ints /\ soft \subseteq Ints
  /\ enable \subseteq Ints /\ select \subseteq Ints
  /\ vector \in [Slot -> VectCntl]
  /\ irqStatus \subseteq Ints /\ fiqStatus \subseteq Ints
  /\ vectAddr \in 0 .. Slots
  /\ irq \in BOOLEAN /\ fiq \in BOOLEAN
  /\ cpu \in {"running", "waiting", "woken"}

\* What the software reads and the CPU sees is never behind the devices and
\* the configuration.
UpToDate ==
  /\ irqStatus = Irqs /\ fiqStatus = Fiqs
  /\ irq = (Irqs # {}) /\ fiq = (Fiqs # {})

(***************************************************************************)
(* A handler read from VECTADDR while the IRQ line is up is that of an     *)
(* interrupt which is pending now, and no enabled slot before it has its   *)
(* interrupt pending.  The default handler is read only when no slot's     *)
(* interrupt is pending.                                                   *)
(***************************************************************************)
HandlerIsPending ==
  IF vectAddr = Default
  THEN \A s \in Slot : vector[s].on => vector[s].int \notin irqStatus
  ELSE /\ vector[vectAddr].on /\ vector[vectAddr].int \in irqStatus
       /\ \A s \in 0 .. vectAddr-1 : vector[s].on => vector[s].int \notin irqStatus

(***************************************************************************)
(* A pending, enabled interrupt raises exactly one of the two lines.       *)
(***************************************************************************)
OneLineEach == irqStatus \intersect fiqStatus = {}

(***************************************************************************)
(* No wake-up is lost between the test of the lines and the wait, whoever  *)
(* raises a line (a device, a software interrupt, a configuration write by *)
(* another master): the CPU does not sleep, unnotified, with a line up.    *)
(***************************************************************************)
NoLostWakeUp == cpu = "waiting" => ~irq /\ ~fiq

(***************************************************************************)
(* The inductive invariant: nothing software reads or the CPU waits for is *)
(* stale.                                                                  *)
(***************************************************************************)
VicInv == VicTypeOK /\ UpToDate /\ HandlerIsPending /\ OneLineEach /\ NoLostWakeUp

(***************************************************************************)
(* A line that stays up gets the CPU out of its wait for good.             *)
(***************************************************************************)
WakesUp == <>[](irq \/ fiq) => []<>(cpu = "running")
=============================================================================
