----------------------------- MODULE Multiplier -----------------------------
(***************************************************************************)
(* The multiplications of the instruction emulation                        *)
(* (src/src/iss/arch/arm/base/armemu.cpp, arm.h): products of two words    *)
(* are put together from four products of half words that fit in a word,   *)
(* on the absolute values, and products of half words are computed with    *)
(* unsigned numbers of 32 and of 64 bits.                                  *)
(***************************************************************************)
EXTENDS MachineWords

CONSTANTS
  HalfWord, \* the number of values of a half word: 2^16
  Operands  \* the words that are multiplied

ASSUME MultiplierAssumption ==
  /\ HalfWord \in Nat /\ HalfWord * HalfWord = Size /\ HalfWord % 2 = 0
  /\ Operands \subseteq Word

VARIABLES
  mul,        \* the instruction to be executed, or Idle
  rdHi, rdLo, \* its destination and accumulator, bits 16-19 and 12-15
  multFlags   \* NFLAG, ZFLAG and SFLAG

multVars == <<mul, rdHi, rdLo, multFlags>>

Exact == INSTANCE Products WITH Words <- Size, HalfWords <- HalfWord

MultInit == Exact!ProdInit

\* An instruction whose registers are different ones comes to be decoded.
MultFetch ==
  /\ mul = Exact!Idle
  /\ mul' \in Exact!Instructions
  /\ UNCHANGED <<rdHi, rdLo, multFlags>>

Low(w) == w % HalfWord
High(w) == w \div HalfWord

-----------------------------------------------------------------------------

\* A sum of words, and its carry.
Add32(a1, a2) == (a1 + a2) % Size

Carry32(a1, a2) ==
  IF (IF Add32(a1, a2) = a1 THEN a2 # 0 ELSE Add32(a1, a2) < a1) THEN 1 ELSE 0

\* The product of two words, as two words.
Multiplied(rm, rs) ==
  LET lo   == Low(rs) * Low(rm)
      mid1 == Low(rs) * High(rm)
      mid2 == High(rs) * Low(rm)
      hi   == High(rs) * High(rm)
      up1  == (mid1 * HalfWord) % Size
      up2  == (mid2 * HalfWord) % Size
      sum  == Add32(lo, up1)
  IN  [lo |-> Add32(sum, up2),
       hi |-> (Carry32(lo, up1) + Carry32(sum, up2) + High(mid1) + High(mid2) + hi) % Size]

Magnitude(w) == IF NEG(w) THEN (-w) % Size ELSE w

\* Slip: the upper word is complemented whatever is carried from the lower.
NegatedWithoutCarry(d) == [lo |-> (-d.lo) % Size, hi |-> Size-1 - d.hi]

\* The complement plus one, with a carry if the lower word wraps around.
Negated(d) ==
  LET lo == Size-1 - d.lo
      hi == Size-1 - d.hi
  IN  IF lo = Size-1 THEN [lo |-> 0, hi |-> (hi + 1) % Size] ELSE [lo |-> lo + 1, hi |-> hi]

\* Multiply64 before it writes the destination.
Product64(msigned) ==
  IF ~msigned THEN Multiplied(mul.rm, mul.rs)
  ELSE LET d == Multiplied(Magnitude(mul.rm), Magnitude(mul.rs))
       IN  IF NEG(mul.rm) # NEG(mul.rs) THEN Negated(d) ELSE d

\* The flags of two words: the lower one is halved so as not to look negative.
LongFlags(d) ==
  IF mul.s
  THEN [multFlags EXCEPT !.n = NEG(d.hi), !.z = d.hi = 0 /\ High(d.lo) = 0 /\ Low(d.lo) = 0]
  ELSE multFlags

WriteLong(d) == rdLo' = d.lo /\ rdHi' = d.hi /\ multFlags' = LongFlags(d)

Multiply64(msigned) == WriteLong(Product64(msigned))

MultiplyAdd64(msigned) ==
  LET p == Product64(msigned)
  IN  WriteLong([lo |-> Add32(rdLo, p.lo), hi |-> (rdHi + p.hi + Carry32(rdLo, p.lo)) % Size])

\* MUL and MLA, with or without flags.
WriteProduct(d) ==
  /\ rdHi' = d /\ UNCHANGED rdLo
  /\ multFlags' = IF mul.s THEN [multFlags EXCEPT !.n = NEG(d), !.z = d = 0] ELSE multFlags

MUL == mul.op = "MUL" /\ WriteProduct((mul.rm * mul.rs) % Size)
MLA == mul.op = "MLA" /\ WriteProduct((mul.rm * mul.rs + rdLo) % Size)

MULL ==
  \/ mul.op = "UMULL" /\ Multiply64(FALSE)
  \/ mul.op = "SMULL" /\ Multiply64(TRUE)
  \/ mul.op = "UMLAL" /\ MultiplyAdd64(FALSE)
  \/ mul.op = "SMLAL" /\ MultiplyAdd64(TRUE)

-----------------------------------------------------------------------------

LongSize == Size * Size

\* Sign extension of a half of a word, and of a word, to the width of size.
Extended(w, upper, size) ==
  LET h == IF upper THEN High(w) ELSE Low(w)
  IN  IF 2 * h >= HalfWord THEN (h - HalfWord) % size ELSE h

Accumulate(d, accumulates) ==
  LET sum == (d + rdLo) % Size
  IN  /\ UNCHANGED rdLo
      /\ IF accumulates
         THEN /\ rdHi' = sum
              /\ multFlags' = [multFlags EXCEPT !.q = @ \/ AddOverflow(d, rdLo, sum)]
         ELSE rdHi' = d /\ UNCHANGED multFlags

SMULxy ==
  LET d == (Extended(mul.rm, mul.x, Size) * Extended(mul.rs, mul.y, Size)) % Size
  IN  \/ mul.op = "SMULxy" /\ Accumulate(d, FALSE)
      \/ mul.op = "SMLAxy" /\ Accumulate(d, TRUE)

\* The result is shifted as an unsigned number and then cut off.
SMULWy ==
  LET op1 == IF NEG(mul.rm) THEN (mul.rm - Size) % LongSize ELSE mul.rm
      d   == High((op1 * Extended(mul.rs, mul.y, LongSize)) % LongSize) % Size
  IN  \/ mul.op = "SMULWy" /\ Accumulate(d, FALSE)
      \/ mul.op = "SMLAWy" /\ Accumulate(d, TRUE)

SMLALxy ==
  LET xy == Extended(mul.rm, mul.x, LongSize) * Extended(mul.rs, mul.y, LongSize)
      d  == (rdHi * Size + rdLo + xy) % LongSize
  IN  /\ mul.op = "SMLALxy"
      /\ rdLo' = d % Size /\ rdHi' = d \div Size
      /\ UNCHANGED multFlags

MultExecute ==
  /\ mul # Exact!Idle /\ mul' = Exact!Idle
  /\ MUL \/ MLA \/ MULL \/ SMULxy \/ SMULWy \/ SMLALxy

MultNext == MultFetch \/ MultExecute

MultSpec == MultInit /\ [][MultNext]_multVars

(***************************************************************************)
(* Long products, signed or not, accumulated or not, are exact for every   *)
(* pair of operands, with the carries between the four partial products,   *)
(* and the flags are those of both words; products of halves are exact as  *)
(* well, and Q remembers every accumulation that was not.                  *)
(***************************************************************************)
ImplementsProducts == Exact!ProdSpec
=============================================================================
