---------------------------- MODULE MachineWords ----------------------------
(***************************************************************************)
(* The words of the emulated processor                                     *)
(* (src/src/iss/arch/arm/base/armsupp.cpp): numbers modulo a multiple of   *)
(* four, whose highest bit is a sign, and the flags told from the highest  *)
(* bits of the operands and the result of an addition or a subtraction.    *)
(***************************************************************************)
EXTENDS Integers

CONSTANT Quarter \* of the number of values of a word: 2^30

ASSUME QuarterAssumption == Quarter \in Nat \ {0}

Size == 4 * Quarter
Half == 2 * Quarter
Word == 0 .. Size-1

NEG(a) == a >= Half
POS(a) == a < Half

AddCarry(a, b, d) ==
  (NEG(a) /\ NEG(b)) \/ (NEG(a) /\ POS(d)) \/ (NEG(b) /\ POS(d))
SubCarry(a, b, d) ==
  (NEG(a) /\ POS(b)) \/ (NEG(a) /\ POS(d)) \/ (POS(b) /\ POS(d))
AddOverflow(a, b, d) == (NEG(a) /\ NEG(b) /\ POS(d)) \/ (POS(a) /\ POS(b) /\ NEG(d))
SubOverflow(a, b, d) == (NEG(a) /\ POS(b) /\ POS(d)) \/ (POS(a) /\ NEG(b) /\ NEG(d))
=============================================================================
