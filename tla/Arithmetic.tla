----------------------------- MODULE Arithmetic -----------------------------
(***************************************************************************)
(* What the arithmetic instructions of an ARM processor promise, in terms  *)
(* of integers: the result is the exact one modulo the size of a word, C   *)
(* says whether the exact result on unsigned numbers is one, V whether the *)
(* exact result on signed numbers is none, N and Z are those of the        *)
(* result; the saturating instructions deliver the nearest number and      *)
(* remember in Q that it was not the exact one.                            *)
(***************************************************************************)
EXTENDS Integers

CONSTANT Words \* the number of values of a word

VARIABLES
  instr, \* the instruction to be executed, or None
  acc, flags

arithVars == <<instr, acc, flags>>

Unsigned == 0 .. Words-1

\* Operation, S bit, operand, and the carry of the shifter.
None == [op |-> "none"]
Operations == {"ADD", "ADC", "CMN", "SUB", "SBC", "RSB", "RSC", "CMP", "LOGIC", "TEST",
               "QADD", "QSUB", "QDADD", "QDSUB"}
Instructions == [op : Operations, s : BOOLEAN, r : Unsigned, c : BOOLEAN]

Flags == [n : BOOLEAN, z : BOOLEAN, c : BOOLEAN, v : BOOLEAN, q : BOOLEAN]

\* The signed number a word stands for, and whether an integer is one.
Signed(a) == IF 2 * a >= Words THEN a - Words ELSE a

IsUnsigned(x) == 0 =< x /\ x < Words
IsSigned(x) == -Words =< 2 * x /\ 2 * x < Words

ArithInit ==
  /\ instr = None
  /\ acc = 0
  /\ flags = [n |-> FALSE, z |-> FALSE, c |-> FALSE, v |-> FALSE, q |-> FALSE]

Fetch == instr = None /\ instr' \in Instructions /\ UNCHANGED <<acc, flags>>

-----------------------------------------------------------------------------

\* The flags that tell of a result d.
Result(d, c, v) == [n |-> Signed(d) < 0, z |-> d = 0, c |-> c, v |-> v, q |-> flags.q]

\* An instruction with a result, and the flags it sets with the S bit.
Computes(d, f) == acc' = d /\ flags' = IF instr.s THEN f ELSE flags

Compares(f) == acc' = acc /\ flags' = f

Carry == IF flags.c THEN 1 ELSE 0
Borrow == 1 - Carry

\* The flags of sums and differences of words.
Sum(l, r, c) ==
  Result((l + r + c) % Words, ~IsUnsigned(l + r + c), ~IsSigned(Signed(l) + Signed(r) + c))

Difference(l, r, b) ==
  Result((l - r - b) % Words, IsUnsigned(l - r - b), ~IsSigned(Signed(l) - Signed(r) - b))

Arithmetical(r) ==
  \/ instr.op = "ADD" /\ Computes((acc + r) % Words, Sum(acc, r, 0))
  \/ instr.op = "ADC" /\ Computes((acc + r + Carry) % Words, Sum(acc, r, Carry))
  \/ instr.op = "CMN" /\ Compares(Sum(acc, r, 0))
  \/ instr.op = "SUB" /\ Computes((acc - r) % Words, Difference(acc, r, 0))
  \/ instr.op = "SBC" /\ Computes((acc - r - Borrow) % Words, Difference(acc, r, Borrow))
  \/ instr.op = "RSB" /\ Computes((r - acc) % Words, Difference(r, acc, 0))
  \/ instr.op = "RSC" /\ Computes((r - acc - Borrow) % Words, Difference(r, acc, Borrow))
  \/ instr.op = "CMP" /\ Compares(Difference(acc, r, 0))

\* A logical instruction, by its result, takes C from the shifter.
Logical(r) ==
  \/ instr.op = "LOGIC" /\ Computes(r, Result(r, instr.c, flags.v))
  \/ instr.op = "TEST" /\ Compares(Result(r, instr.c, flags.v))

-----------------------------------------------------------------------------

\* The signed number nearest to x.
Nearest(x) ==
  IF IsSigned(x) THEN x ELSE IF x < 0 THEN -(Words \div 2) ELSE Words \div 2 - 1

\* The result nearest to x, which was computed from y.
Saturates(x, y) ==
  /\ acc' \in Unsigned /\ Signed(acc') = Nearest(x)
  /\ flags' = [flags EXCEPT !.q = @ \/ ~IsSigned(x) \/ ~IsSigned(y)]

Saturating(r) ==
  LET a == Signed(acc)
      b == Signed(r)
  IN  \/ instr.op = "QADD" /\ Saturates(a + b, b)
      \/ instr.op = "QSUB" /\ Saturates(a - b, b)
      \/ instr.op = "QDADD" /\ Saturates(a + Nearest(2 * b), 2 * b)
      \/ instr.op = "QDSUB" /\ Saturates(a - Nearest(2 * b), 2 * b)

Execute ==
  /\ instr # None /\ instr' = None
  /\ Arithmetical(instr.r) \/ Logical(instr.r) \/ Saturating(instr.r)

ArithNext == Fetch \/ Execute

ArithSpec == ArithInit /\ [][ArithNext]_arithVars
=============================================================================
