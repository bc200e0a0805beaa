--------------------------- MODULE DataProcessing ---------------------------
(***************************************************************************)
(* The arithmetic of the instruction emulation                             *)
(* (src/src/iss/arch/arm/base/armemu.cpp, armsupp.cpp): data processing    *)
(* instructions on one register and any operand, the flags they set, and   *)
(* the saturating additions.                                               *)
(***************************************************************************)
EXTENDS MachineWords

VARIABLES
  instr, \* the instruction to be executed, or None
  acc,   \* the register that is the first operand and the destination
  flags  \* NFLAG, ZFLAG, CFLAG, VFLAG and SFLAG

dpVars == <<instr, acc, flags>>

Arith == INSTANCE Arithmetic WITH Words <- Size

DpInit == Arith!ArithInit

\* An instruction comes to be decoded, with the value of its operand.
DpFetch ==
  /\ instr = Arith!None
  /\ instr' \in Arith!Instructions
  /\ UNCHANGED <<acc, flags>>

-----------------------------------------------------------------------------

NZCV(n, z, c, v) == [n |-> n, z |-> z, c |-> c, v |-> v, q |-> flags.q]

NegZero(f, d) == NZCV(NEG(d), d = 0, f.c, f.v)

\* After an addition: unless one of the two highest bits of the operands is
\* set, there is nothing to set but Z.
AddFlags(a, b, d) ==
  IF a >= Quarter \/ b >= Quarter
  THEN NZCV(NEG(d), d = 0, AddCarry(a, b, d), AddOverflow(a, b, d))
  ELSE NZCV(FALSE, d = 0, FALSE, FALSE)

\* Slip: nothing is borrowed unless the second operand is the larger one.
SubFlagsBelow(a, b, d) ==
  NZCV(NEG(d), d = 0, a >= b, SubOverflow(a, b, d))

\* After a subtraction: unless nothing is borrowed or one of the operands has
\* the highest bit set, there is nothing to set.
SubFlags(a, b, d) ==
  IF a >= b \/ NEG(a) \/ NEG(b)
  THEN NZCV(NEG(d), d = 0, SubCarry(a, b, d), SubOverflow(a, b, d))
  ELSE NZCV(NEG(d), d = 0, FALSE, FALSE)

-----------------------------------------------------------------------------

\* WRITEDEST, or WRITESDEST for the instructions that set the flags.
WriteDest(d, f) == acc' = d /\ flags' = IF instr.s THEN f ELSE flags

CFLAG == IF flags.c THEN 1 ELSE 0

AddSum(a, b, carry) ==
  LET d == (a + b + carry) % Size
  IN  WriteDest(d, NegZero(AddFlags(a, b, d), d))

SubtractFrom(a, b, borrow) ==
  LET d == (a - b - borrow) % Size
  IN  WriteDest(d, SubFlags(a, b, d))

\* One case of the decoder each.
ADD == instr.op = "ADD" /\ AddSum(acc, instr.r, 0)
ADC == instr.op = "ADC" /\ AddSum(acc, instr.r, CFLAG)
SUB == instr.op = "SUB" /\ SubtractFrom(acc, instr.r, 0)
SBC == instr.op = "SBC" /\ SubtractFrom(acc, instr.r, 1 - CFLAG)
RSB == instr.op = "RSB" /\ SubtractFrom(instr.r, acc, 0)
RSC == instr.op = "RSC" /\ SubtractFrom(instr.r, acc, 1 - CFLAG)

CMN == /\ instr.op = "CMN"
       /\ flags' = AddFlags(acc, instr.r, (acc + instr.r) % Size)
       /\ UNCHANGED acc

CMP == /\ instr.op = "CMP"
       /\ flags' = SubFlags(acc, instr.r, (acc - instr.r) % Size)
       /\ UNCHANGED acc

\* AND, EOR, ORR, MOV, BIC and MVN, and TST and TEQ, by their result; the
\* shifter has set C before if the flags are set.
LOGIC == /\ instr.op = "LOGIC"
         /\ WriteDest(instr.r, NZCV(NEG(instr.r), instr.r = 0, instr.c, flags.v))

TEST == /\ instr.op = "TEST"
        /\ flags' = NZCV(NEG(instr.r), instr.r = 0, instr.c, flags.v)
        /\ UNCHANGED acc

-----------------------------------------------------------------------------

\* A result that has overflowed has the sign of the other end.
Saturated(overflow, d) == IF ~overflow THEN d ELSE IF POS(d) THEN Half ELSE Half - 1

\* The result d is saturated if it overflowed, its operand if that had.
Saturate(d, overflow, before) ==
  /\ acc' = Saturated(overflow, d)
  /\ flags' = [flags EXCEPT !.q = @ \/ before \/ overflow]

QSum(b, before) ==
  LET d == (acc + b) % Size IN Saturate(d, AddOverflow(acc, b, d), before)

QDifference(b, before) ==
  LET d == (acc - b) % Size IN Saturate(d, SubOverflow(acc, b, d), before)

\* Twice the operand.
op2d == (instr.r + instr.r) % Size
DoubleOverflows == AddOverflow(instr.r, instr.r, op2d)

QADD == instr.op = "QADD" /\ QSum(instr.r, FALSE)
QSUB == instr.op = "QSUB" /\ QDifference(instr.r, FALSE)
QDADD == instr.op = "QDADD" /\ QSum(Saturated(DoubleOverflows, op2d), DoubleOverflows)
QDSUB == instr.op = "QDSUB" /\ QDifference(Saturated(DoubleOverflows, op2d), DoubleOverflows)

DpExecute ==
  /\ instr # Arith!None /\ instr' = Arith!None
  /\ \/ ADD \/ ADC \/ CMN \/ SUB \/ SBC \/ RSB \/ RSC \/ CMP \/ LOGIC \/ TEST
     \/ QADD \/ QSUB \/ QDADD \/ QDSUB

DpNext == DpFetch \/ DpExecute

DpSpec == DpInit /\ [][DpNext]_dpVars

DpTypeOK ==
  /\ instr \in Arith!Instructions \union {Arith!None}
  /\ acc \in Word /\ flags \in Arith!Flags

(***************************************************************************)
(* The flags and results are the exact ones for every pair of operands and *)
(* every carry, through all the shortcuts that skip computing them, so     *)
(* that sequences of instructions compute on longer numbers.               *)
(***************************************************************************)
ImplementsArithmetic == Arith!ArithSpec
=============================================================================
