---------------------------- MODULE BanksAborted ----------------------------
(***************************************************************************)
(* Banks with the data aborts of block transfers with ^                    *)
(* (src/src/iss/arch/arm/base/armemu.cpp:3329-3424 and :3733-3794), which  *)
(* are taken while the user's bank is in place.  Modes must contain "abt". *)
(*                                                                         *)
(* BanksAborted.cfg has one privileged mode besides, whose own registers   *)
(* such a transfer mixes with the user's.                                  *)
(***************************************************************************)
EXTENDS Banks

\* SETABORT, when the CPU's status is p and the registers become f.
TakeAbort(f, p) ==
  /\ Become(f)
  /\ cpsr' = p
  /\ m_Spsr' = [m_Spsr EXCEPT !["abt"] = cpsr]

\* An LDM without the program counter, aborted after it has written w.  The
\* bank is "restored" from the abort mode.
LoadSMultAborted(w, link) ==
  TakeAbort(Restore(Entered(With(UserBank, w), "dabt", link), "abt"),
            EntryStatus("dabt", cpsr))

\* An LDM with the program counter, aborted after it has written w.  As
\* ARMul_Abort has cleared m_Aborted, the status saved is restored at once.
ReturnAborted(w, link) ==
  TakeAbort(Altered(Entered(With(File, w), "dabt", link), "abt", cpsr), cpsr)

\* An STM, aborted.
StoreSMultAborted(link) ==
  TakeAbort(Entered(UserBank, "dabt", link), EntryStatus("dabt", cpsr))

TransferAborted ==
  \E link \in Words :
    \/ \E w \in Write : LoadSMultAborted(w, link)
    \/ StoreSMultAborted(link)

AbortedNext ==
  \/ BanksNext
  \/ TransferAborted
  \/ \E w \in Write, link \in Words : ReturnAborted(w, link)

AbortedSpec == BanksInit /\ [][AbortedNext]_banksVars

-----------------------------------------------------------------------------

(***************************************************************************)
(* What the comment before the second SwitchMode says ("Restore the        *)
(* correct bank"): a block transfer of the user's registers leaves those   *)
(* of every other bank alone, but for the return address if it is aborted. *)
(***************************************************************************)
CorrectBankRestored ==
  [][TransferAborted =>
       \A s \in Slot :
         s \notin {Home("usr", r) : r \in Regs} \union {<<"abt", 14>>} =>
           Physical'[s] = Physical[s]]_banksVars
=============================================================================
