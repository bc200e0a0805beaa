------------------------------- MODULE Banks --------------------------------
(***************************************************************************)
(* The register banks of the instruction set simulator                     *)
(* (src/src/iss/arch/arm/base): one array with the registers of the        *)
(* current mode, a matrix with those of the others, and words moved        *)
(* between the two when the mode changes.                                  *)
(*                                                                         *)
(* Data aborts of block transfers of the user's registers are in           *)
(* BanksAborted.  Writing back the base of such a transfer is              *)
(* unpredictable by the architecture and left out.                         *)
(***************************************************************************)
EXTENDS ArmModes

VARIABLES
  m_Reg,     \* the registers in use
  m_RegBank, \* m_RegBank[s]: the word kept in place s, stale while s is in use
  m_Bank,    \* the bank in use
  cpsr,      \* m_Mode and IFFLAGS, to which ARMul_GetCPSR puts them together
  m_Spsr     \* m_Spsr[b]: the saved status of bank b

regs == <<m_Reg, m_RegBank, m_Bank>>
banksVars == <<m_Reg, m_RegBank, m_Bank, cpsr, m_Spsr>>

\* The registers, as one value that goes through the steps of a handler.
File == [reg |-> m_Reg, banks |-> m_RegBank, bank |-> m_Bank]

Become(f) == m_Reg' = f.reg /\ m_RegBank' = f.banks /\ m_Bank' = f.bank

BanksInit ==
  /\ \E w \in Words :
       /\ m_Reg = [r \in Regs |-> w]
       /\ m_RegBank = [s \in Slot |-> w]
  /\ m_Bank = BankOf("svc")
  /\ cpsr = ResetStatus
  /\ m_Spsr = [b \in SavingBank |-> NoStatus]

-----------------------------------------------------------------------------

\* Slip: r8 to r12 are not moved when the FIQ mode is left.
MovesOnEntry(from, to, r) == from # to /\ (r \in {13, 14} \/ to = "fiq")

\* The registers that have another place in bank "to" than in bank "from".
Moves(from, to, r) == from # to /\ (r \in {13, 14} \/ "fiq" \in {from, to})

\* ARMul_SwitchMode
SwitchMode(f, oldmode, newmode) ==
  LET from == BankOf(oldmode)
      to   == BankOf(newmode)
      kept == [s \in Slot |->
                 IF Moves(from, to, s[2]) /\ s = Home(from, s[2])
                 THEN f.reg[s[2]] ELSE f.banks[s]]
  IN  [reg   |-> [r \in Regs |->
                    IF Moves(from, to, r) THEN kept[Home(to, r)] ELSE f.reg[r]],
       banks |-> kept,
       bank  |-> to]

\* ARMul_CPSRAltered, after the status has become p in mode old.
Altered(f, old, p) ==
  IF p.mode # old THEN SwitchMode(f, old, p.mode) ELSE f

\* The registers of w are written.
With(f, w) ==
  [f EXCEPT !.reg =
     [r \in Regs |-> IF r \in DOMAIN w THEN w[r] ELSE f.reg[r]]]

\* Slip: the address to return to is written before the bank is changed.
EnteredAfterLink(f, e, link) ==
  Altered(With(f, [r \in {14} |-> link]), cpsr.mode, EntryStatus(e, cpsr))

\* The registers after SETABORT, from registers f.
Entered(f, e, link) ==
  With(Altered(f, cpsr.mode, EntryStatus(e, cpsr)), [r \in {14} |-> link])

\* Block transfers with ^ put the user's bank in place, and the bank of
\* mode m back.
UserBank ==
  IF m_Bank # "usr" THEN SwitchMode(File, cpsr.mode, "usr26") ELSE File

Restore(f, m) ==
  IF m \in {"usr26", "usr"} THEN f ELSE SwitchMode(f, "usr26", m)

-----------------------------------------------------------------------------

\* An instruction, or the debugger, writes registers of the current mode.
WriteRegs(w) ==
  /\ Become(With(File, w))
  /\ UNCHANGED <<cpsr, m_Spsr>>

\* ARMul_Abort
Abort(e, link) ==
  /\ Accepted(e, cpsr)
  /\ cpsr' = EntryStatus(e, cpsr)
  /\ m_Spsr' = [m_Spsr EXCEPT ![EntryMode[e]] = cpsr]
  /\ Become(Entered(File, e, link))

\* MSR to the CPSR: in user mode only the flags change.
FixCPSR(p) ==
  /\ cpsr.mode # "usr"
  /\ cpsr' = p
  /\ Become(Altered(File, cpsr.mode, p))
  /\ UNCHANGED m_Spsr

\* MSR to the SPSR.
FixSPSR(p) ==
  /\ m_Bank # "usr"
  /\ m_Spsr' = [m_Spsr EXCEPT ![m_Bank] = p]
  /\ UNCHANGED <<regs, cpsr>>

\* WriteSR15, and LDM with the program counter and ^, which loads first.
Return(w) ==
  /\ m_Bank # "usr"
  /\ cpsr' = m_Spsr[m_Bank]
  /\ Become(Altered(With(File, w), cpsr.mode, cpsr'))
  /\ UNCHANGED m_Spsr

\* LDM with ^ and without the program counter.
LoadSMult(w) ==
  /\ Become(Restore(With(UserBank, w), cpsr.mode))
  /\ UNCHANGED <<cpsr, m_Spsr>>

\* STM with ^, which reads registers of UserBank.
StoreSMult ==
  /\ Become(Restore(UserBank, cpsr.mode))
  /\ UNCHANGED <<cpsr, m_Spsr>>

BanksNext ==
  \/ \E w \in Write : WriteRegs(w) \/ Return(w) \/ LoadSMult(w)
  \/ \E e \in Exception, link \in Words : Abort(e, link)
  \/ \E p \in Status : FixCPSR(p) \/ FixSPSR(p)
  \/ StoreSMult

BanksSpec == BanksInit /\ [][BanksNext]_banksVars

-----------------------------------------------------------------------------

BanksTypeOK ==
  /\ m_Reg \in [Regs -> Words]
  /\ m_RegBank \in [Slot -> Words]
  /\ m_Bank \in Bank
  /\ cpsr \in Status
  /\ m_Spsr \in [SavingBank -> Status]

(***************************************************************************)
(* The bank in use is the one of the mode, although block transfers of the *)
(* user's registers change it behind the mode's back.  Which bank is saved *)
(* is decided from the mode, which SPSR is used from the bank.             *)
(***************************************************************************)
BankOfMode == m_Bank = BankOf(cpsr.mode)

\* What the places of the matrix hold, the words in use among them.
Contents(f) ==
  [s \in Slot |-> IF s = Home(f.bank, s[2]) THEN f.reg[s[2]] ELSE f.banks[s]]

Physical == Contents(File)

(***************************************************************************)
(* A block store with ^ stores the user's registers, from every mode: also *)
(* r8 to r12 from the FIQ mode, and those an exception left in place.      *)
(***************************************************************************)
StoresUser == \A r \in Regs : UserBank.reg[r] = Physical[Home("usr", r)]

(***************************************************************************)
(* The inductive invariant.                                                *)
(***************************************************************************)
BanksInv == BanksTypeOK /\ BankOfMode /\ StoresUser

(***************************************************************************)
(* The array, the matrix and the moves between them are the registers as   *)
(* software sees them: whatever the order of exceptions, returns and mode  *)
(* changes, no word of a mode is lost, shown in another mode, or changed   *)
(* by an instruction that does not name it, and user mode is left by       *)
(* exceptions only.                                                        *)
(***************************************************************************)
Abstract == INSTANCE RegisterFile
              WITH register <- Physical, status <- cpsr, saved <- m_Spsr

ImplementsRegisterFile == Abstract!FileSpec
=============================================================================
