------------------------------ MODULE ArmModes ------------------------------
(***************************************************************************)
(* The modes of an ARM processor, the bank of registers each of them uses  *)
(* and the exceptions that change them (src/src/iss/arch/arm/base).        *)
(*                                                                         *)
(* Registers 0 to 7 are the same in all modes and the program counter      *)
(* belongs to none: neither is modelled.  A status register is its mode    *)
(* and the interrupts it masks.                                            *)
(***************************************************************************)
EXTENDS Integers

CONSTANTS
  Modes, \* the modes used
  Regs,  \* the registers told apart
  Words, \* what a register can hold
  Masks  \* the mask bits told apart

\* Mode 0 is what a saved status register that was never written holds.
ASSUME ModesAssumption ==
  /\ {"usr26", "usr", "svc"} \subseteq Modes
  /\ Modes \subseteq {"usr26", "usr", "sys", "fiq", "irq", "svc", "abt", "und"}
ASSUME RegsAssumption == 14 \in Regs /\ Regs \subseteq 8 .. 14
ASSUME WordsAssumption == Words # {}
ASSUME MasksAssumption == Masks \subseteq {"I", "F"}

\* ModeToBank.  Software puts no reserved mode in a status register.
BankOf(m) == IF m \in {"usr26", "usr", "sys"} THEN "usr" ELSE m

Bank == {BankOf(m) : m \in Modes}

\* BANK_CAN_ACCESS_SPSR
SavingBank == Bank \ {"usr"}

\* The place of register r while bank b is in use.
Home(b, r) == <<IF r \in {13, 14} \/ b = "fiq" THEN b ELSE "usr", r>>

\* The columns of the matrix that are used, r8 to r12 of the user always.
Slot == {Home(b, r) : b \in Bank, r \in Regs}

Status == [mode : Modes, masks : SUBSET Masks]

ResetStatus == [mode |-> "svc", masks |-> Masks]
NoStatus == [mode |-> "usr26", masks |-> {}]

\* The words that an instruction writes to some registers.
Write == UNION {[D -> Words] : D \in SUBSET Regs}

-----------------------------------------------------------------------------

EntryMode ==
  [undef |-> "und", swi |-> "svc", pabt |-> "abt", dabt |-> "abt",
   irq |-> "irq", fiq |-> "fiq"]

Exception == {e \in DOMAIN EntryMode : EntryMode[e] \in Modes}

\* The masks an exception adds.
EntryMasks(e) == (IF e = "fiq" THEN {"I", "F"} ELSE {"I"}) \intersect Masks

\* The line of an interrupt is looked at only when it is not masked.
Accepted(e, p) ==
  /\ e = "irq" => "I" \notin p.masks
  /\ e = "fiq" => "F" \notin p.masks

EntryStatus(e, p) ==
  [mode |-> EntryMode[e], masks |-> p.masks \union EntryMasks(e)]
=============================================================================
