-------------------------------- MODULE MCIss -------------------------------
(***************************************************************************)
(* Model checking of the parts of the simulated processor that share no    *)
(* variable: a behaviour acts on one of them.                              *)
(*                                                                         *)
(* Registers 8 and 14 stand for the two ways in which registers are        *)
(* banked, and the modes for a bank that has all of them, one that has     *)
(* some, the user's bank, and the two modes that use it without and with   *)
(* privileges.  The buffer translates two sections of two pages over two   *)
(* frames and has fewer entries than there are pages, so that entries are  *)
(* replaced.                                                               *)
(*                                                                         *)
(* Words of four bits have all the carries and overflows; the words that   *)
(* are multiplied are the most negative one, an odd one of either sign     *)
(* whose lower halves' product carries, and a small one.  Words are        *)
(* shifted in a register of six bits, by fewer, as many, more and twice as *)
(* many bits.                                                              *)
(***************************************************************************)
EXTENDS Banks, Tlb, DataProcessing, Multiplier, Shifter, TLC

VARIABLE part \* the part acted on

issVars == <<part, banksVars, tlbVars, dpVars, multVars, shifterVars>>

OnBanks(A) ==
  part = "banks" /\ A /\ UNCHANGED <<part, tlbVars, dpVars, multVars, shifterVars>>
OnTlb(A) ==
  part = "tlb" /\ A /\ UNCHANGED <<part, banksVars, dpVars, multVars, shifterVars>>
OnArithmetic(A) ==
  part = "arithmetic" /\ A /\ UNCHANGED <<part, banksVars, tlbVars, multVars, shifterVars>>
OnMultiplier(A) ==
  part = "multiplier" /\ A /\ UNCHANGED <<part, banksVars, tlbVars, dpVars, shifterVars>>
OnShifter(A) ==
  part = "shifter" /\ A /\ UNCHANGED <<part, banksVars, tlbVars, dpVars, multVars>>

Init ==
  /\ part \in {"banks", "tlb", "arithmetic", "multiplier", "shifter"}
  /\ BanksInit /\ TlbInit /\ DpInit /\ MultInit /\ ShifterInit

Next ==
  \/ OnBanks(BanksNext)
  \/ OnTlb(TlbNext)
  \/ OnArithmetic(DpNext)
  \/ OnMultiplier(MultNext)
  \/ OnShifter(ShifterNext)

Spec == Init /\ [][Next]_issVars

Symmetry == Permutations(Words) \union Permutations(Frames)
=============================================================================
