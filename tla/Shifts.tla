------------------------------- MODULE Shifts -------------------------------
(***************************************************************************)
(* What the shifted operands of an ARM processor promise: the operand is   *)
(* shifted by one bit as often as the instruction says, and the carry is   *)
(* the last bit that fell out, or what it was if nothing was shifted.      *)
(***************************************************************************)
EXTENDS Integers

CONSTANTS
  Bits,    \* of a word
  Amounts, \* the numbers a register can hold that counts the bits
  Bytes    \* the numbers an immediate operand is rotated from

Size == 2 ^ Bits

VARIABLES
  shift,    \* the instruction to be executed, or Idle
  operand,  \* the register that is shifted, and the destination
  carry

shiftVars == <<shift, operand, carry>>

\* By a register, by a constant or by the position of an immediate operand;
\* the address of a load or a store is shifted by a constant and sets no flags.
Idle == [by |-> "nothing"]
Kinds == {"LSL", "LSR", "ASR", "ROR"}
Instructions ==
  [by : {"register"}, kind : Kinds, amount : Amounts, s : BOOLEAN] \union
  [by : {"constant"}, kind : Kinds, amount : 0 .. Bits-1, s : BOOLEAN] \union
  [by : {"address"}, kind : Kinds, amount : 0 .. Bits-1, s : {FALSE}] \union
  [by : {"position"}, kind : {"ROR"}, amount : {2 * i : i \in 0 .. (Bits \div 2) - 1},
   byte : Bytes, s : BOOLEAN]

ShiftsInit == shift = Idle /\ operand = 0 /\ carry = 0

Fetch == shift = Idle /\ shift' \in Instructions /\ UNCHANGED <<operand, carry>>

-----------------------------------------------------------------------------

Bottom(w) == w % 2
Top(w) == w \div (Size \div 2)

\* A word and a carry after one more bit.
OneBit(kind, x) ==
  CASE kind = "LSL" -> [w |-> (2 * x.w) % Size, c |-> Top(x.w)]
    [] kind = "LSR" -> [w |-> x.w \div 2, c |-> Bottom(x.w)]
    [] kind = "ASR" -> [w |-> x.w \div 2 + Top(x.w) * (Size \div 2), c |-> Bottom(x.w)]
    [] kind = "ROR" -> [w |-> x.w \div 2 + Bottom(x.w) * (Size \div 2), c |-> Bottom(x.w)]
    [] kind = "RRX" -> [w |-> x.w \div 2 + x.c * (Size \div 2), c |-> Bottom(x.w)]

Start == [w |-> IF shift.by = "position" THEN shift.byte ELSE operand, c |-> carry]

\* After n bits.
Shifted(kind, n) ==
  LET after[i \in 0 .. n] == IF i = 0 THEN Start ELSE OneBit(kind, after[i-1])
  IN  after[n]

\* A constant of zero stands for as many bits as a word has where shifting by
\* none would be the same as LSL by none, and for a rotation through the carry.
Meant ==
  IF shift.by \in {"constant", "address"} /\ shift.amount = 0
  THEN CASE shift.kind = "LSL" -> Shifted("LSL", 0)
         [] shift.kind = "ROR" -> Shifted("RRX", 1)
         [] OTHER -> Shifted(shift.kind, Bits)
  ELSE Shifted(shift.kind, shift.amount)

Execute ==
  /\ shift # Idle /\ shift' = Idle
  /\ operand' = Meant.w
  /\ carry' = IF shift.s THEN Meant.c ELSE carry

ShiftsNext == Fetch \/ Execute

ShiftsSpec == ShiftsInit /\ [][ShiftsNext]_shiftVars
=============================================================================
