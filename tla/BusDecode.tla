----------------------------- MODULE BusDecode ------------------------------
(***************************************************************************)
(* The address map of the Top platform's bus (Top/Bus/Bus.h): set_range,   *)
(* decode_address and compose_address over W-bit addresses.  The platform  *)
(* calls set_range once per target while it is built; the model lets the   *)
(* calls come in any order and with any base and mask, repeated ones too.  *)
(***************************************************************************)
EXTENDS Integers

CONSTANTS
  W,  \* width of an address in bits (64 in the code)
  T   \* N_TARGETS

ASSUME WAssumption == W \in Nat \ {0}
ASSUME TAssumption == T \in Nat \ {0}

VARIABLES
  base,   \* m_targ_range[i].base
  mask,   \* m_targ_range[i].mask
  error   \* what the last set_range returned

mapVars == <<base, mask, error>>

Target == 0 .. T-1

Address == 0 .. 2^W - 1

AllOnes == 2^W - 1

\* A fresh target decodes the last address only.
MapInit ==
  /\ base = [i \in Target |-> AllOnes]
  /\ mask = [i \in Target |-> AllOnes]
  /\ error = FALSE

-----------------------------------------------------------------------------

\* A bitwise operator of C, from what it does with two bits: the function for
\* numbers of n bits, the lowest bit apart.
BitByBit(table) ==
  LET combined[n \in 0 .. W] ==
        [a \in Nat |-> [b \in Nat |->
           IF n = 0 THEN 0
           ELSE 2 * combined[n-1][a \div 2][b \div 2] + table[a % 2][b % 2]]]
  IN  combined

And(a, b) == BitByBit([p \in {0, 1} |-> [q \in {0, 1} |-> p * q]])[W][a][b]
Xor(a, b) == BitByBit([p \in {0, 1} |-> [q \in {0, 1} |-> (p + q) % 2]])[W][a][b]
Complement(a) == AllOnes - a

\* The mask check: mask ^ (mask << 1) has at most one bit set.
LeftBitsOnly(m) ==
  LET t == Xor(m, (2 * m) % 2^W)
  IN  t = 0 \/ And(t, t - 1) = 0

Matches(i, a) == And(a, mask[i]) = base[i]

\* decode_address: the first matching target, T when there is none.
Decode(a) ==
  IF \E i \in Target : Matches(i, a)
  THEN CHOOSE i \in Target :
         Matches(i, a) /\ \A j \in Target : Matches(j, a) => i =< j
  ELSE T

\* The address decode_address hands to target i.
Masked(i, a) == And(a, Complement(mask[i]))

Compose(i, a) == (a + base[i]) % 2^W

\* Slip: the base is not tested against its own mask.
AcceptableUnaligned(b, m) ==
  /\ LeftBitsOnly(m)
  /\ \A i \in Target : ~Matches(i, b)

\* The three checks of set_range, in the order of the code.
Acceptable(b, m) ==
  /\ LeftBitsOnly(m)
  /\ And(b, m) = b
  /\ \A i \in Target : ~Matches(i, b)

SetRange(i, b, m) ==
  IF Acceptable(b, m)
  THEN /\ base' = [base EXCEPT ![i] = b]
       /\ mask' = [mask EXCEPT ![i] = m]
       /\ error' = FALSE
  ELSE /\ error' = TRUE
       /\ UNCHANGED <<base, mask>>

Configure == \E i \in Target, b, m \in Address : SetRange(i, b, m)

MapSpec == MapInit /\ [][Configure]_mapVars

-----------------------------------------------------------------------------

(***************************************************************************)
(* The mask check accepts exactly the masks that are ones followed by      *)
(* zeros, so a target's range is an aligned block of 2^k addresses that    *)
(* starts at its base.                                                     *)
(***************************************************************************)
RangesAreBlocks ==
  \A i \in Target : \E k \in 0 .. W :
    /\ mask[i] = 2^W - 2^k
    /\ base[i] % 2^k = 0
    /\ {a \in Address : Matches(i, a)} = base[i] .. base[i] + 2^k - 1

(***************************************************************************)
(* What decoding takes apart, compose_address puts together again: DMI     *)
(* bounds and invalidations reported by a target come back at the          *)
(* initiator as the addresses it used.                                     *)
(***************************************************************************)
DecodeRoundTrip ==
  \A a \in Address :
    LET i == Decode(a) IN i # T => Compose(i, Masked(i, a)) = a

(***************************************************************************)
(* The map decodes and composes back whatever calls it was built by.       *)
(***************************************************************************)
MapInv == RangesAreBlocks /\ DecodeRoundTrip

\* A target whose range set_range has set; a fresh one has no range yet.
Configured(i) == <<base[i], mask[i]>> # <<AllOnes, AllOnes>>

(***************************************************************************)
(* The comment on the last check of set_range: "check that the range       *)
(* setting is not conflicting with others".  No address is in the ranges   *)
(* of two targets.                                                         *)
(***************************************************************************)
RangesDoNotConflict ==
  \A i, j \in Target : i # j /\ Configured(i) /\ Configured(j) =>
    \A a \in Address : ~(Matches(i, a) /\ Matches(j, a))
=============================================================================
