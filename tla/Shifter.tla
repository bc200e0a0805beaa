------------------------------ MODULE Shifter -------------------------------
(***************************************************************************)
(* The shifted operands of the instruction emulation                       *)
(* (src/src/iss/arch/arm/base/armemu.cpp, armemu.h, arm.cpp): registers    *)
(* shifted by a register or a constant, immediate operands, and addresses. *)
(***************************************************************************)
EXTENDS Integers

CONSTANTS
  Bits,    \* of a word: 32
  Amounts, \* the numbers the lowest byte of a register can be: up to 255
  Bytes    \* the numbers an immediate operand is rotated from

ASSUME ShifterAssumption ==
  /\ Bits \in Nat \ {0} /\ Bits % 2 = 0
  /\ Amounts \subseteq Nat /\ Bytes \subseteq 0 .. 2 ^ Bits - 1

VARIABLES
  shift,    \* the instruction to be executed, or Idle
  operand,  \* the register that is shifted, and the destination
  carry     \* CFLAG

shifterVars == <<shift, operand, carry>>

Barrel == INSTANCE Shifts

ShifterInit == Barrel!ShiftsInit

ShifterFetch ==
  /\ shift = Barrel!Idle
  /\ shift' \in Barrel!Instructions
  /\ UNCHANGED <<operand, carry>>

-----------------------------------------------------------------------------

\* The operators of C on an unsigned word, by less than its number of bits.
Values == 2 ^ Bits
LeftBy(w, n) == (w * 2 ^ n) % Values
RightBy(w, n) == w \div 2 ^ n
Bit(w, n) == RightBy(w, n) % 2
SignOf(w) == Bit(w, Bits-1)

\* And on a signed one, which shifts in copies of the sign.
SignedRightBy(w, n) ==
  LET value == IF SignOf(w) = 1 THEN w - Values ELSE w IN (value \div 2 ^ n) % Values

\* Of words that have no bit in common, "or" is the sum.
Rotated(w, n) == LeftBy(w, Bits - n) + RightBy(w, n)

\* By a constant: ASR by the number of bits is by one less, and ROR by none
\* goes through the carry.
ByConstant(kind, w, n) ==
  CASE kind = "LSL" -> LeftBy(w, n)
    [] kind = "LSR" -> IF n = 0 THEN 0 ELSE RightBy(w, n)
    [] kind = "ASR" -> SignedRightBy(w, IF n = 0 THEN Bits-1 ELSE n)
    [] kind = "ROR" -> IF n = 0 THEN RightBy(w, 1) + LeftBy(carry, Bits-1) ELSE Rotated(w, n)

ConstantCarry(kind, w, n) ==
  CASE kind = "LSL" -> Bit(w, Bits - n)
    [] kind \in {"LSR", "ASR"} -> IF n = 0 THEN SignOf(w) ELSE Bit(w, n - 1)
    [] kind = "ROR" -> IF n = 0 THEN w % 2 ELSE Bit(w, n - 1)

\* By a register that holds n, which may be more than there are bits.
ByRegister(kind, w, n) ==
  IF n = 0 THEN w
  ELSE CASE kind = "LSL" -> IF n >= Bits THEN 0 ELSE LeftBy(w, n)
         [] kind = "LSR" -> IF n >= Bits THEN 0 ELSE RightBy(w, n)
         [] kind = "ASR" -> SignedRightBy(w, IF n >= Bits THEN Bits-1 ELSE n)
         [] kind = "ROR" -> IF n % Bits = 0 THEN w ELSE Rotated(w, n % Bits)

\* Slip: the last bit is looked for in shifts by more than a word as well.
RegisterCarryAlways(kind, w, n) ==
  CASE kind = "LSL" -> IF n >= Bits THEN w % 2 ELSE Bit(w, Bits - n)
    [] kind = "LSR" -> IF n >= Bits THEN SignOf(w) ELSE Bit(w, n - 1)
    [] kind = "ASR" -> IF n >= Bits THEN SignOf(w) ELSE Bit(w, n - 1)
    [] kind = "ROR" -> IF n % Bits = 0 THEN SignOf(w) ELSE Bit(w, (n % Bits) - 1)

\* The carry for n > 0.
RegisterCarry(kind, w, n) ==
  CASE kind = "LSL" -> IF n > Bits THEN 0 ELSE IF n = Bits THEN w % 2 ELSE Bit(w, Bits - n)
    [] kind = "LSR" -> IF n > Bits THEN 0 ELSE IF n = Bits THEN SignOf(w) ELSE Bit(w, n - 1)
    [] kind = "ASR" -> IF n >= Bits THEN SignOf(w) ELSE Bit(w, n - 1)
    [] kind = "ROR" -> IF n % Bits = 0 THEN SignOf(w) ELSE Bit(w, (n % Bits) - 1)

-----------------------------------------------------------------------------

Execution(by, s) ==
  /\ shift # Barrel!Idle /\ shift.by = by /\ shift.s = s
  /\ shift' = Barrel!Idle

\* A register and no shift is told from bits 4 to 11 and not computed.
Unshifted == shift.by # "register" /\ shift.kind = "LSL" /\ shift.amount = 0

GetDPRegRHS ==
  /\ \/ Execution("register", FALSE) /\ operand' = ByRegister(shift.kind, operand, shift.amount)
     \/ /\ Execution("constant", FALSE)
        /\ operand' = IF Unshifted THEN operand
                      ELSE ByConstant(shift.kind, operand, shift.amount)
  /\ UNCHANGED carry

\* The carry is computed before it is overwritten.
GetDPSRegRHS ==
  \/ /\ Execution("register", TRUE)
     /\ operand' = ByRegister(shift.kind, operand, shift.amount)
     /\ carry' = IF shift.amount = 0 THEN carry
                 ELSE RegisterCarry(shift.kind, operand, shift.amount)
  \/ /\ Execution("constant", TRUE)
     /\ IF Unshifted THEN UNCHANGED <<operand, carry>>
        ELSE /\ operand' = ByConstant(shift.kind, operand, shift.amount)
             /\ carry' = ConstantCarry(shift.kind, operand, shift.amount)

\* The index of a load or a store.
GetLSRegRHS ==
  /\ Execution("address", FALSE)
  /\ operand' = IF Unshifted THEN operand ELSE ByConstant(shift.kind, operand, shift.amount)
  /\ UNCHANGED carry

\* Immediate operands are looked up in a table of rotated bytes.
ImmedTable(w, n) == IF n = 0 THEN w ELSE Rotated(w, n)

DPImmRHS ==
  /\ Execution("position", FALSE)
  /\ operand' = ImmedTable(shift.byte, shift.amount)
  /\ UNCHANGED carry

DPSImmRHS ==
  /\ Execution("position", TRUE)
  /\ operand' = ImmedTable(shift.byte, shift.amount)
  /\ carry' = IF shift.amount > 0 THEN SignOf(operand') ELSE carry

ShifterNext ==
  \/ ShifterFetch
  \/ GetDPRegRHS \/ GetDPSRegRHS \/ GetLSRegRHS \/ DPImmRHS \/ DPSImmRHS

ShifterSpec == ShifterInit /\ [][ShifterNext]_shifterVars

(***************************************************************************)
(* Every way of shifting an operand shifts it by as many single bits as    *)
(* are meant, with the carry that the last of them leaves: at the limits   *)
(* where C does not shift, and where zero stands for something else.       *)
(***************************************************************************)
ImplementsShifts == Barrel!ShiftsSpec
=============================================================================
