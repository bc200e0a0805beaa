------------------------------ MODULE Products ------------------------------
(***************************************************************************)
(* What the multiplications of an ARM processor promise, in terms of       *)
(* integers: the exact product, of signed or unsigned words or of signed   *)
(* halves of words, with what is accumulated, modulo the size of the       *)
(* result.                                                                 *)
(***************************************************************************)
EXTENDS Integers

CONSTANTS
  Words,     \* the number of values of a word
  HalfWords, \* and of a half word
  Operands   \* the words that are multiplied

VARIABLES
  mul,        \* the instruction to be executed, or Idle
  rdHi, rdLo, \* its destination; one of the two if the result is a word
  multFlags   \* N, Z and Q

prodVars == <<mul, rdHi, rdLo, multFlags>>

Idle == [op |-> "idle"]
Instructions ==
  [op : {"MUL", "MLA", "UMULL", "SMULL", "UMLAL", "SMLAL"}, s : BOOLEAN,
   rm : Operands, rs : Operands] \union
  [op : {"SMULxy", "SMLAxy", "SMULWy", "SMLAWy", "SMLALxy"}, x : BOOLEAN, y : BOOLEAN,
   rm : Operands, rs : Operands]

Signed(a) == IF 2 * a >= Words THEN a - Words ELSE a

\* The upper or the lower half of a word, a signed number.
SignedHalf(a, upper) ==
  LET h == IF upper THEN a \div HalfWords ELSE a % HalfWords
  IN  IF 2 * h >= HalfWords THEN h - HalfWords ELSE h

Double == rdHi * Words + rdLo

ProdInit ==
  /\ mul = Idle
  /\ rdHi = 0 /\ rdLo = 0
  /\ multFlags = [n |-> FALSE, z |-> FALSE, q |-> FALSE]

Fetch == mul = Idle /\ mul' \in Instructions /\ UNCHANGED <<rdHi, rdLo, multFlags>>

-----------------------------------------------------------------------------

\* Results of the size of a word, with N and Z or with Q, and of two words.
Delivers(x) ==
  /\ rdHi' = x % Words /\ UNCHANGED rdLo
  /\ multFlags' = IF mul.s
                  THEN [multFlags EXCEPT !.n = Signed(x % Words) < 0, !.z = x % Words = 0]
                  ELSE multFlags

DeliversChecked(x) ==
  /\ rdHi' = x % Words /\ UNCHANGED rdLo
  /\ multFlags' = [multFlags EXCEPT !.q = @ \/ 2 * x < -Words \/ 2 * x >= Words]

DeliversDouble(x) ==
  LET d == x % (Words * Words) IN rdHi' = d \div Words /\ rdLo' = d % Words

DeliversLong(x) ==
  LET d == x % (Words * Words)
  IN  /\ DeliversDouble(x)
      /\ multFlags' = IF mul.s
                      THEN [multFlags EXCEPT !.n = 2 * d >= Words * Words, !.z = d = 0]
                      ELSE multFlags

Multiply ==
  \/ mul.op = "MUL" /\ Delivers(mul.rm * mul.rs)
  \/ mul.op = "MLA" /\ Delivers(mul.rm * mul.rs + rdLo)
  \/ mul.op = "UMULL" /\ DeliversLong(mul.rm * mul.rs)
  \/ mul.op = "SMULL" /\ DeliversLong(Signed(mul.rm) * Signed(mul.rs))
  \/ mul.op = "UMLAL" /\ DeliversLong(mul.rm * mul.rs + Double)
  \/ mul.op = "SMLAL" /\ DeliversLong(Signed(mul.rm) * Signed(mul.rs) + Double)

\* The product of two halves fits in a word; that of a word and a half is
\* divided by the size of a half.
MultiplyHalves ==
  LET xy == SignedHalf(mul.rm, mul.x) * SignedHalf(mul.rs, mul.y)
      wy == (Signed(mul.rm) * SignedHalf(mul.rs, mul.y)) \div HalfWords
  IN  \/ mul.op = "SMULxy" /\ DeliversChecked(xy)
      \/ mul.op = "SMLAxy" /\ DeliversChecked(xy + Signed(rdLo))
      \/ mul.op = "SMULWy" /\ DeliversChecked(wy)
      \/ mul.op = "SMLAWy" /\ DeliversChecked(wy + Signed(rdLo))
      \/ mul.op = "SMLALxy" /\ DeliversDouble(xy + Double) /\ UNCHANGED multFlags

Execute == mul # Idle /\ mul' = Idle /\ (Multiply \/ MultiplyHalves)

ProdNext == Fetch \/ Execute

ProdSpec == ProdInit /\ [][ProdNext]_prodVars
=============================================================================
