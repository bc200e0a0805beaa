--------------------------------- MODULE Itc ---------------------------------
(***************************************************************************)
(* The interrupt controller of the MC13224V platform                       *)
(* (src/src/tlm_blocks/Mc13224v/Itc): interrupts of sixteen numbers, each  *)
(* normal or fast, a priority mask for the normal ones, and the two lines  *)
(* of the CPU, of which the fast one silences the other.                   *)
(*                                                                         *)
(* Everything happens in calls without a wait, so a change of a line or a  *)
(* register write is one step.                                             *)
(***************************************************************************)
EXTENDS Integers, FiniteSetsExt

CONSTANT Ints \* the connected interrupts (1, 2, 3, 6 and 10)

\* The numbers the search for the highest pending interrupt looks at.
ASSUME IntsAssumption == Ints \subseteq 1 .. 10

VARIABLES
  source, enable, type, \* INTSRC, INTENABLE, INTTYPE (fast) as sets
  nimask,               \* NIMASK
  nipend, fipend,       \* NIPEND, FIPEND
  nivector, fivector,   \* NIVECTOR, FIVECTOR
  irq, fiq              \* the lines of the CPU

config == <<source, enable, type, nimask>>
derived == <<nipend, fipend, nivector, fivector, irq, fiq>>
itcVars == <<config, derived>>

NumInt == 16
NoInt == 15

ItcInit ==
  /\ source = {} /\ enable = {} /\ type = {} /\ nimask = 0
  /\ nipend = {} /\ fipend = {} /\ nivector = 0 /\ fivector = 0
  /\ irq = FALSE /\ fiq = FALSE

-----------------------------------------------------------------------------

Active == source \intersect enable

Unmasked == IF nimask < NumInt THEN {i \in Ints : i > nimask} ELSE Ints

\* Slip: the search goes upwards.
Lowest(s) == IF s = {} THEN NoInt ELSE Min(s)

Highest(s) == IF s = {} THEN NoInt ELSE Max(s)

\* check_int
ItcCheckInt ==
  /\ fipend' = (Active \intersect type)'
  /\ nipend' = ((Active \ type) \intersect Unmasked)'
  /\ nivector' = Highest(nipend') /\ fivector' = Highest(fipend')
  /\ fiq' = (fipend' # {})
  /\ irq' = (fipend' = {} /\ nipend' # {})

InterruptSet(i) ==
  /\ source' = source \union {i}
  /\ UNCHANGED <<enable, type, nimask>>
  /\ ItcCheckInt

\* Slip: a fast interrupt that ends does not give way to the normal ones.
InterruptClrFast(i) ==
  /\ source' = source \ {i}
  /\ UNCHANGED <<enable, type, nimask>>
  /\ fipend' = fipend \ {i} /\ fivector' = Highest(fipend')
  /\ fiq' = (fipend' # {})
  /\ nipend' = nipend \ {i} /\ nivector' = Highest(nipend')
  /\ irq' = (irq /\ nipend' # {})

InterruptClr(i) ==
  /\ source' = source \ {i}
  /\ UNCHANGED <<enable, type, nimask>>
  /\ ItcCheckInt

WriteIntEnable(v) ==
  /\ enable' = v
  /\ UNCHANGED <<source, type, nimask>>
  /\ ItcCheckInt

WriteIntEnNum(i) ==
  /\ enable' = enable \union {i}
  /\ UNCHANGED <<source, type, nimask>>
  /\ ItcCheckInt

WriteIntDisNum(i) ==
  /\ enable' = enable \ {i}
  /\ UNCHANGED <<source, type, nimask>>
  /\ ItcCheckInt

WriteIntType(v) ==
  /\ type' = v
  /\ UNCHANGED <<source, enable, nimask>>
  /\ ItcCheckInt

WriteNiMask(n) ==
  /\ nimask' = n
  /\ UNCHANGED <<source, enable, type>>
  /\ ItcCheckInt

Lines == \E i \in Ints : InterruptSet(i) \/ InterruptClr(i)

ItcRegisters ==
  \/ \E v \in SUBSET Ints : WriteIntEnable(v) \/ WriteIntType(v)
  \/ \E i \in Ints : WriteIntEnNum(i) \/ WriteIntDisNum(i)
  \/ \E n \in Ints \union {0, NumInt, 31} : WriteNiMask(n)

ItcNext == Lines \/ ItcRegisters

ItcSpec == ItcInit /\ [][ItcNext]_itcVars

-----------------------------------------------------------------------------

ItcTypeOK ==
  /\ source \subseteq Ints /\ enable \subseteq Ints /\ type \subseteq Ints
  /\ nimask \in Ints \union {0, NumInt, 31}
  /\ nipend \subseteq Ints /\ fipend \subseteq Ints
  /\ nivector \in Ints \union {0, NoInt} /\ fivector \in Ints \union {0, NoInt}
  /\ irq \in BOOLEAN /\ fiq \in BOOLEAN

\* An enabled interrupt that is up is pending as what it was configured to
\* be, unless it is normal and the mask holds it back.
PendingOnce ==
  /\ nipend \intersect fipend = {}
  /\ nipend \union fipend \subseteq Active
  /\ \A i \in Active \ (nipend \union fipend) : i \notin type /\ i =< nimask

\* While anything is pending one line is up, and it is the fast one as long
\* as a fast interrupt is.
OneLine ==
  /\ ~(irq /\ fiq)
  /\ fiq <=> fipend # {}
  /\ irq \/ fiq <=> nipend \union fipend # {}

\* The vector read when a line is up is that of the highest interrupt pending
\* for it.
VectorIsHighest ==
  /\ irq => nivector \in nipend /\ \A i \in nipend : i =< nivector
  /\ fiq => fivector \in fipend /\ \A i \in fipend : i =< fivector

(***************************************************************************)
(* What the CPU sees and the handlers read is never behind the devices and *)
(* the configuration.                                                      *)
(***************************************************************************)
ItcInv == ItcTypeOK /\ PendingOnce /\ OneLine /\ VectorIsHighest

(***************************************************************************)
(* A normal interrupt that a fast one silences is not forgotten: the line  *)
(* drops under a pending interrupt only for a fast one, and is raised      *)
(* again by the step that ends the last fast one.                          *)
(***************************************************************************)
HandsBack ==
  [][/\ irq /\ ~irq' /\ nipend' # {} => fiq'
     /\ fiq /\ ~fiq' /\ nipend' # {} => irq']_itcVars
=============================================================================
