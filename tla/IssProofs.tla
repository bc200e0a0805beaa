------------------------------- MODULE IssProofs -------------------------------
(*****************************************************************************)
(* Proofs about the emulated processor: its register banks, its translation  *)
(* lookaside buffer, its data processing instructions, multiplications and   *)
(* shifted operands.                                                         *)
(*****************************************************************************)
EXTENDS Banks, Tlb, DataProcessing, Multiplier, Shifter, TLAPS

\* The lemmas about numbers, which are not about what is folded.
Plus(a, b) == a + b
Numbers == INSTANCE Lemmas WITH Op <- Plus

-------------------------------------------------------------------------------
(*****************************************************************************)
(* The register banks, for any modes, registers and words.                   *)
(*                                                                           *)
(* Every handler is a sequence of moves between the array and the matrix     *)
(* and of writes to the array.  A move from the bank in use changes no       *)
(* place of the register file (SwitchContents), a write changes the places   *)
(* the bank in use gives to its registers (WithContents); the rest follows   *)
(* from the bank being the mode's whenever a handler starts.                 *)
(*****************************************************************************)

\* The values SwitchMode is used on: the registers while bank b is in use.
FileOf(b) ==
  {f \in [reg : [Regs -> Words], banks : [Slot -> Words], bank : Bank] : f.bank = b}

\* The places of contents c after bank b has been given the words w.
Updated(c, b, w) ==
  [s \in Slot |->
     IF s[2] \in DOMAIN w /\ s = Home(b, s[2]) THEN w[s[2]] ELSE c[s]]

-----------------------------------------------------------------------------

LEMMA BankOfType == \A m \in Modes : BankOf(m) \in Bank
  BY DEF Bank

LEMMA UserBankType == "usr" \in Bank /\ "usr26" \in Modes /\ BankOf("usr26") = "usr"
  BY ModesAssumption DEF Bank, BankOf

LEMMA HomeType ==
  ASSUME NEW b \in Bank, NEW r \in Regs
  PROVE  Home(b, r) \in Slot /\ Home(b, r)[2] = r
  BY DEF Slot, Home

LEMMA SlotRegister == \A s \in Slot : s[2] \in Regs
  BY DEF Slot, Home

\* A register that does not move has one place in both banks, one that moves
\* has two.
LEMMA MovesApart ==
  ASSUME NEW from \in Bank, NEW to \in Bank, NEW r \in Regs
  PROVE  Moves(from, to, r) <=> Home(from, r) # Home(to, r)
  BY RegsAssumption DEF Moves, Home

LEMMA EntryType ==
  ASSUME NEW e \in Exception, NEW p \in Status
  PROVE  /\ EntryMode[e] \in Modes
         /\ BankOf(EntryMode[e]) = EntryMode[e]
         /\ EntryMode[e] \in SavingBank
         /\ EntryStatus(e, p) \in Status
         /\ EntryStatus(e, p).mode = EntryMode[e]
<1>1. EntryMode[e] \in Modes
  BY DEF Exception
<1>2. EntryMode[e] \in {"und", "svc", "abt", "irq", "fiq"}
  BY DEF Exception, EntryMode
<1>3. BankOf(EntryMode[e]) = EntryMode[e]
  BY <1>2 DEF BankOf
<1>4. EntryMode[e] \in SavingBank
  BY <1>1, <1>2, <1>3 DEF SavingBank, Bank
<1>5. p.masks \union EntryMasks(e) \in SUBSET Masks
  BY DEF Status, EntryMasks
<1>6. EntryStatus(e, p) \in Status /\ EntryStatus(e, p).mode = EntryMode[e]
  BY <1>1, <1>5 DEF EntryStatus, Status
<1> QED
  BY <1>1, <1>3, <1>4, <1>6

-----------------------------------------------------------------------------

(***************************************************************************)
(* Moving the words to another bank leaves every place as it was.          *)
(***************************************************************************)
LEMMA SwitchContents ==
  ASSUME NEW old \in Modes, NEW new \in Modes, NEW f \in FileOf(BankOf(old))
  PROVE  /\ SwitchMode(f, old, new) \in FileOf(BankOf(new))
         /\ Contents(SwitchMode(f, old, new)) = Contents(f)
<1> DEFINE from == BankOf(old)
           to   == BankOf(new)
           kept == [s \in Slot |->
                      IF Moves(from, to, s[2]) /\ s = Home(from, s[2])
                      THEN f.reg[s[2]] ELSE f.banks[s]]
           reg  == [r \in Regs |->
                      IF Moves(from, to, r) THEN kept[Home(to, r)] ELSE f.reg[r]]
           g    == [reg |-> reg, banks |-> kept, bank |-> to]
<1>1. SwitchMode(f, old, new) = g
  BY DEF SwitchMode
<1>2. from \in Bank /\ to \in Bank
  BY BankOfType
<1>3. f.reg \in [Regs -> Words] /\ f.banks \in [Slot -> Words] /\ f.bank = from
  BY DEF FileOf
<1>4. kept \in [Slot -> Words]
  BY <1>3, SlotRegister
<1>5. reg \in [Regs -> Words]
  BY <1>2, <1>3, <1>4, HomeType
<1>6. g \in FileOf(to)
  BY <1>2, <1>4, <1>5 DEF FileOf
<1>7. ASSUME NEW s \in Slot
      PROVE  (IF s = Home(to, s[2]) THEN reg[s[2]] ELSE kept[s])
               = (IF s = Home(from, s[2]) THEN f.reg[s[2]] ELSE f.banks[s])
  <2> DEFINE r == s[2]
  <2>1. r \in Regs
    BY SlotRegister
  <2>2. Moves(from, to, r) <=> Home(from, r) # Home(to, r)
    BY <1>2, <2>1, MovesApart
  <2>3. Home(to, r) \in Slot /\ Home(to, r)[2] = r
    BY <1>2, <2>1, HomeType
  <2>4. kept[s] = IF Moves(from, to, r) /\ s = Home(from, r)
                  THEN f.reg[r] ELSE f.banks[s]
    OBVIOUS
  <2>5. reg[r] = IF Moves(from, to, r) THEN kept[Home(to, r)] ELSE f.reg[r]
    BY <2>1
  <2> HIDE DEF kept, reg
  <2> QED
    BY <2>2, <2>3, <2>4, <2>5
<1>8. Contents(g) = Contents(f)
  BY <1>3, <1>7 DEF Contents
<1> QED
  BY <1>1, <1>6, <1>8

(***************************************************************************)
(* Writing registers changes the places the bank in use has for them.      *)
(***************************************************************************)
LEMMA WithContents ==
  ASSUME NEW b \in Bank, NEW f \in FileOf(b), NEW w \in Write
  PROVE  /\ With(f, w) \in FileOf(b)
         /\ Contents(With(f, w)) = Updated(Contents(f), b, w)
<1> DEFINE reg == [r \in Regs |-> IF r \in DOMAIN w THEN w[r] ELSE f.reg[r]]
<1>1. PICK D \in SUBSET Regs : w \in [D -> Words]
  BY DEF Write
<1>2. f.reg \in [Regs -> Words] /\ f.banks \in [Slot -> Words] /\ f.bank = b
  BY DEF FileOf
<1>3. With(f, w).reg = reg /\ With(f, w).banks = f.banks /\ With(f, w).bank = b
  BY <1>2 DEF With, FileOf
<1>4. reg \in [Regs -> Words]
  BY <1>1, <1>2
<1>5. With(f, w) \in FileOf(b)
  <2>1. With(f, w) = [reg |-> reg, banks |-> f.banks, bank |-> b]
    BY <1>2 DEF With, FileOf
  <2> QED
    BY <2>1, <1>2, <1>4 DEF FileOf
<1>6. ASSUME NEW s \in Slot
      PROVE  Contents(With(f, w))[s] = Updated(Contents(f), b, w)[s]
  <2>1. s[2] \in Regs
    BY SlotRegister
  <2>2. Contents(With(f, w))[s] = IF s = Home(b, s[2]) THEN reg[s[2]] ELSE f.banks[s]
    BY <1>3 DEF Contents
  <2>3. reg[s[2]] = IF s[2] \in DOMAIN w THEN w[s[2]] ELSE f.reg[s[2]]
    BY <2>1
  <2>4. Contents(f)[s] = IF s = Home(b, s[2]) THEN f.reg[s[2]] ELSE f.banks[s]
    BY <1>2 DEF Contents
  <2> HIDE DEF reg
  <2> QED
    BY <2>2, <2>3, <2>4 DEF Updated
<1>7. Contents(With(f, w)) = Updated(Contents(f), b, w)
  BY <1>6 DEF Contents, Updated
<1> QED
  BY <1>5, <1>7

LEMMA AlteredContents ==
  ASSUME NEW old \in Modes, NEW p \in Status, NEW f \in FileOf(BankOf(old))
  PROVE  /\ Altered(f, old, p) \in FileOf(BankOf(p.mode))
         /\ Contents(Altered(f, old, p)) = Contents(f)
<1>1. p.mode \in Modes
  BY DEF Status
<1>2. CASE p.mode # old
  BY <1>1, <1>2, SwitchContents DEF Altered
<1>3. CASE p.mode = old
  BY <1>3 DEF Altered
<1> QED
  BY <1>2, <1>3

LEMMA RestoreContents ==
  ASSUME NEW m \in Modes, NEW f \in FileOf("usr")
  PROVE  /\ Restore(f, m) \in FileOf(BankOf(m))
         /\ Contents(Restore(f, m)) = Contents(f)
<1>1. CASE m \in {"usr26", "usr"}
  BY <1>1 DEF Restore, BankOf
<1>2. CASE m \notin {"usr26", "usr"}
  BY <1>2, UserBankType, SwitchContents DEF Restore
<1> QED
  BY <1>1, <1>2

-----------------------------------------------------------------------------

(***************************************************************************)
(* The invariant without StoresUser, which follows from it.                *)
(***************************************************************************)
Consistent == BanksTypeOK /\ BankOfMode

LEMMA FileType ==
  ASSUME Consistent
  PROVE  /\ cpsr.mode \in Modes
         /\ File \in FileOf(BankOf(cpsr.mode))
         /\ Physical = Contents(File)
  BY DEF Consistent, BanksTypeOK, BankOfMode, FileOf, File, Status, Physical

LEMMA UserBankContents ==
  ASSUME Consistent
  PROVE  UserBank \in FileOf("usr") /\ Contents(UserBank) = Physical
<1>1. CASE m_Bank # "usr"
  BY <1>1, FileType, UserBankType, SwitchContents DEF UserBank
<1>2. CASE m_Bank = "usr"
  BY <1>2, FileType DEF UserBank, Consistent, BankOfMode
<1> QED
  BY <1>1, <1>2

LEMMA UserStored ==
  ASSUME Consistent
  PROVE  StoresUser
<1> SUFFICES ASSUME NEW r \in Regs
             PROVE  UserBank.reg[r] = Physical[Home("usr", r)]
  BY DEF StoresUser
<1>1. Home("usr", r) \in Slot /\ Home("usr", r)[2] = r
  BY UserBankType, HomeType
<1>2. UserBank.bank = "usr" /\ Contents(UserBank) = Physical
  BY UserBankContents DEF FileOf
<1>3. Contents(UserBank)[Home("usr", r)] = UserBank.reg[r]
  BY <1>1, <1>2 DEF Contents
<1> QED
  BY <1>2, <1>3

\* A handler that ends with registers f leaves the bank and the places of f.
LEMMA BecomeFile ==
  ASSUME NEW b \in Bank, NEW f \in FileOf(b), Become(f)
  PROVE  /\ m_Reg' \in [Regs -> Words]
         /\ m_RegBank' \in [Slot -> Words]
         /\ m_Bank' \in Bank /\ m_Bank' = b
         /\ Physical' = Contents(f)
  BY DEF Become, FileOf, Physical, Contents, File

-----------------------------------------------------------------------------

\* The definitions of ArmModes are the same in the register file.
LEMMA SameModes ==
  /\ Abstract!Slot = Slot
  /\ Abstract!Status = Status
  /\ Abstract!SavingBank = SavingBank
  /\ Abstract!Exception = Exception
  /\ Abstract!Write = Write
  /\ Abstract!EntryMode = EntryMode
  BY DEF Abstract!Slot, Slot, Abstract!Home, Home, Abstract!Bank, Bank,
         Abstract!BankOf, BankOf, Abstract!Status, Status, Abstract!SavingBank,
         SavingBank, Abstract!Exception, Exception, Abstract!EntryMode, EntryMode,
         Abstract!Write, Write

\* What Put of the register file says of the places.
LEMMA PutUpdated ==
  ASSUME NEW b, NEW w, Physical' = Updated(Physical, b, w)
  PROVE  Abstract!Put(b, w)
  BY SameModes DEF Abstract!Put, Updated, Abstract!Home, Home

LEMMA WriteRegsStep ==
  ASSUME Consistent, NEW w \in Write, WriteRegs(w)
  PROVE  Consistent' /\ Abstract!Execute(w)
<1>1. /\ With(File, w) \in FileOf(BankOf(cpsr.mode))
      /\ Contents(With(File, w)) = Updated(Physical, BankOf(cpsr.mode), w)
  BY FileType, BankOfType, WithContents
<1>2. Become(With(File, w)) /\ cpsr' = cpsr /\ m_Spsr' = m_Spsr
  BY DEF WriteRegs
<1>3. Consistent'
  BY <1>1, <1>2, FileType, BankOfType, BecomeFile
  DEF Consistent, BanksTypeOK, BankOfMode
<1>4. Physical' = Updated(Physical, BankOf(cpsr.mode), w)
  BY <1>1, <1>2, FileType, BankOfType, BecomeFile
<1>5. Abstract!Put(Abstract!BankOf(cpsr.mode), w)
  BY <1>4, PutUpdated DEF Abstract!BankOf, BankOf
<1> QED
  BY <1>2, <1>3, <1>5 DEF Abstract!Execute

\* Return loads into the bank it leaves and only then changes the mode.
LEMMA ReturnStep ==
  ASSUME Consistent, NEW w \in Write, Return(w)
  PROVE  Consistent' /\ Abstract!Leave(w)
<1> DEFINE b == BankOf(cpsr.mode)
           f == With(File, w)
<1>1. b \in Bank /\ b = m_Bank /\ b # "usr"
  BY FileType, BankOfType DEF Consistent, BankOfMode, Return
<1>2. cpsr' = m_Spsr[b] /\ cpsr' \in Status /\ cpsr'.mode \in Modes /\ m_Spsr' = m_Spsr
  BY <1>1 DEF Return, Consistent, BanksTypeOK, SavingBank, Status
<1>3. f \in FileOf(b) /\ Contents(f) = Updated(Physical, b, w)
  BY <1>1, FileType, WithContents
<1>4. /\ Altered(f, cpsr.mode, cpsr') \in FileOf(BankOf(cpsr'.mode))
      /\ Contents(Altered(f, cpsr.mode, cpsr')) = Contents(f)
  BY <1>2, <1>3, FileType, AlteredContents
<1>5. Become(Altered(f, cpsr.mode, cpsr'))
  BY DEF Return
<1>6. Consistent'
  BY <1>2, <1>4, <1>5, BankOfType, BecomeFile DEF Consistent, BanksTypeOK, BankOfMode
<1>7. Physical' = Updated(Physical, b, w)
  BY <1>2, <1>3, <1>4, <1>5, BankOfType, BecomeFile
<1>8. Abstract!BankOf(cpsr.mode) = b
  BY DEF Abstract!BankOf, BankOf
<1>9. Abstract!Put(Abstract!BankOf(cpsr.mode), w)
  BY <1>7, <1>8, PutUpdated
<1> QED
  BY <1>1, <1>2, <1>6, <1>8, <1>9 DEF Abstract!Leave

\* An exception's return address is written after the bank has changed.
LEMMA AbortStep ==
  ASSUME Consistent, NEW e \in Exception, NEW link \in Words, Abort(e, link)
  PROVE  Consistent' /\ Abstract!Enter(e, link)
<1> DEFINE p == EntryStatus(e, cpsr)
           b == EntryMode[e]
           f == Altered(File, cpsr.mode, p)
           w == [r \in {14} |-> link]
<1>1. cpsr \in Status
  BY DEF Consistent, BanksTypeOK
<1>2. b \in SavingBank /\ b \in Bank /\ p \in Status /\ BankOf(p.mode) = b
  BY <1>1, EntryType DEF SavingBank
<1>3. f \in FileOf(b) /\ Contents(f) = Physical
  BY <1>2, FileType, AlteredContents
<1>4. w \in Write
  <2>1. {14} \in SUBSET Regs /\ w \in [{14} -> Words]
    BY RegsAssumption
  <2> QED
    BY <2>1 DEF Write
<1>5. /\ With(f, w) \in FileOf(b)
      /\ Contents(With(f, w)) = Updated(Physical, b, w)
  BY <1>2, <1>3, <1>4, WithContents
<1>6. Become(With(f, w)) /\ cpsr' = p /\ m_Spsr' = [m_Spsr EXCEPT ![b] = cpsr]
  BY DEF Abort, Entered
<1>7. m_Spsr' \in [SavingBank -> Status]
  BY <1>1, <1>2, <1>6 DEF Consistent, BanksTypeOK
<1>8. Consistent'
  BY <1>2, <1>5, <1>6, <1>7, BecomeFile DEF Consistent, BanksTypeOK, BankOfMode
<1>9. Physical' = Updated(Physical, b, w)
  BY <1>2, <1>5, <1>6, BecomeFile
<1>10. Abstract!Put(b, w)
  BY <1>9, PutUpdated
<1>11. Abstract!Accepted(e, cpsr) /\ Abstract!EntryStatus(e, cpsr) = p
  BY SameModes DEF Abort, Abstract!Accepted, Accepted, Abstract!EntryStatus, EntryStatus,
     Abstract!EntryMasks, EntryMasks
<1> QED
  BY <1>6, <1>8, <1>10, <1>11, SameModes DEF Abstract!Enter

LEMMA FixCPSRStep ==
  ASSUME Consistent, NEW p \in Status, FixCPSR(p)
  PROVE  Consistent' /\ Abstract!SetStatus(p)
<1>1. p.mode \in Modes
  BY DEF Status
<1>2. /\ Altered(File, cpsr.mode, p) \in FileOf(BankOf(p.mode))
      /\ Contents(Altered(File, cpsr.mode, p)) = Physical
  BY FileType, AlteredContents
<1>3. /\ cpsr.mode # "usr" /\ cpsr' = p /\ m_Spsr' = m_Spsr
      /\ Become(Altered(File, cpsr.mode, p))
  BY DEF FixCPSR
<1>4. Consistent'
  BY <1>1, <1>2, <1>3, BankOfType, BecomeFile DEF Consistent, BanksTypeOK, BankOfMode
<1>5. Physical' = Physical
  BY <1>1, <1>2, <1>3, BankOfType, BecomeFile
<1> QED
  BY <1>3, <1>4, <1>5 DEF Abstract!SetStatus

LEMMA FixSPSRStep ==
  ASSUME Consistent, NEW p \in Status, FixSPSR(p)
  PROVE  Consistent' /\ Abstract!SetSaved(p)
<1>1. m_Bank \in SavingBank /\ BankOf(cpsr.mode) = m_Bank /\ m_Bank # "usr"
  BY DEF FixSPSR, Consistent, BanksTypeOK, BankOfMode, SavingBank
<1>2. /\ m_Spsr' = [m_Spsr EXCEPT ![m_Bank] = p] /\ cpsr' = cpsr
      /\ m_Reg' = m_Reg /\ m_RegBank' = m_RegBank /\ m_Bank' = m_Bank
  BY DEF FixSPSR, regs
<1>3. Consistent'
  BY <1>1, <1>2 DEF Consistent, BanksTypeOK, BankOfMode
<1>4. Physical' = Physical
  BY <1>2 DEF Physical, Contents, File
<1>5. Abstract!BankOf(cpsr.mode) = m_Bank
  BY <1>1 DEF Abstract!BankOf, BankOf
<1> QED
  BY <1>1, <1>2, <1>3, <1>4, <1>5 DEF Abstract!SetSaved

\* A load of the user's registers: in a mode without a bank of its own they
\* are the registers in use.
LEMMA LoadSMultStep ==
  ASSUME Consistent, NEW w \in Write, LoadSMult(w)
  PROVE  Consistent' /\ (Abstract!Execute(w) \/ Abstract!Transfer(w))
<1> DEFINE f == With(UserBank, w)
           b == BankOf(cpsr.mode)
<1>1. f \in FileOf("usr") /\ Contents(f) = Updated(Physical, "usr", w)
  BY UserBankType, UserBankContents, WithContents
<1>2. b \in Bank /\ Restore(f, cpsr.mode) \in FileOf(b)
      /\ Contents(Restore(f, cpsr.mode)) = Updated(Physical, "usr", w)
  BY <1>1, FileType, BankOfType, RestoreContents
<1>3. Become(Restore(f, cpsr.mode)) /\ cpsr' = cpsr /\ m_Spsr' = m_Spsr
  BY DEF LoadSMult
<1>4. Consistent'
  BY <1>2, <1>3, BecomeFile DEF Consistent, BanksTypeOK, BankOfMode
<1>5. Physical' = Updated(Physical, "usr", w)
  BY <1>2, <1>3, BecomeFile
<1>6. Abstract!Put("usr", w)
  BY <1>5, PutUpdated
<1>7. CASE cpsr.mode = "usr"
  <2>1. Abstract!BankOf(cpsr.mode) = "usr"
    BY <1>7 DEF Abstract!BankOf
  <2> QED
    BY <1>3, <1>4, <1>6, <2>1 DEF Abstract!Execute
<1>8. CASE cpsr.mode # "usr"
  BY <1>3, <1>4, <1>6, <1>8 DEF Abstract!Transfer
<1> QED
  BY <1>7, <1>8

\* A store leaves every place alone.
LEMMA StoreSMultStep ==
  ASSUME Consistent, StoreSMult
  PROVE  Consistent' /\ UNCHANGED <<Physical, cpsr, m_Spsr>>
<1> DEFINE f == Restore(UserBank, cpsr.mode)
           b == BankOf(cpsr.mode)
<1>1. b \in Bank /\ f \in FileOf(b) /\ Contents(f) = Physical
  BY FileType, BankOfType, UserBankContents, RestoreContents
<1>2. Become(f) /\ cpsr' = cpsr /\ m_Spsr' = m_Spsr
  BY DEF StoreSMult
<1>3. Consistent'
  BY <1>1, <1>2, BecomeFile DEF Consistent, BanksTypeOK, BankOfMode
<1>4. Physical' = Physical
  BY <1>1, <1>2, BecomeFile
<1> QED
  BY <1>2, <1>3, <1>4

-----------------------------------------------------------------------------

LEMMA InitConsistent == BanksInit => Consistent /\ Abstract!FileInit
<1> SUFFICES ASSUME BanksInit
             PROVE  Consistent /\ Abstract!FileInit
  OBVIOUS
<1>1. PICK w \in Words : m_Reg = [r \in Regs |-> w] /\ m_RegBank = [s \in Slot |-> w]
  BY DEF BanksInit
<1>2. cpsr = ResetStatus /\ m_Bank = BankOf("svc") /\ m_Spsr = [b \in SavingBank |-> NoStatus]
  BY DEF BanksInit
<1>3. ResetStatus \in Status /\ ResetStatus.mode = "svc" /\ NoStatus \in Status
  BY ModesAssumption DEF ResetStatus, NoStatus, Status
<1>4. BankOf("svc") \in Bank
  BY ModesAssumption, BankOfType
<1>5. m_Reg \in [Regs -> Words] /\ m_RegBank \in [Slot -> Words]
  BY <1>1
<1>6. m_Spsr \in [SavingBank -> Status]
  BY <1>2, <1>3
<1>7. Consistent
  BY <1>2, <1>3, <1>4, <1>5, <1>6 DEF Consistent, BanksTypeOK, BankOfMode
<1>8. Physical = [s \in Slot |-> w]
  BY <1>1, SlotRegister DEF Physical, Contents, File
<1>9. Abstract!ResetStatus = ResetStatus /\ Abstract!NoStatus = NoStatus
  BY DEF Abstract!ResetStatus, ResetStatus, Abstract!NoStatus, NoStatus
<1> QED
  BY <1>2, <1>7, <1>8, <1>9, SameModes DEF Abstract!FileInit

\* Every step keeps the invariant and is a step of the register file.
LEMMA NextConsistent ==
  ASSUME Consistent, [BanksNext]_banksVars
  PROVE  Consistent' /\ [Abstract!FileNext]_(Abstract!fileVars)
<1>1. ASSUME NEW w \in Write, WriteRegs(w)
      PROVE  Consistent' /\ Abstract!FileNext
  BY <1>1, WriteRegsStep, SameModes DEF Abstract!FileNext
<1>2. ASSUME NEW w \in Write, Return(w)
      PROVE  Consistent' /\ Abstract!FileNext
  BY <1>2, ReturnStep, SameModes DEF Abstract!FileNext
<1>3. ASSUME NEW w \in Write, LoadSMult(w)
      PROVE  Consistent' /\ Abstract!FileNext
  BY <1>3, LoadSMultStep, SameModes DEF Abstract!FileNext
<1>4. ASSUME NEW e \in Exception, NEW link \in Words, Abort(e, link)
      PROVE  Consistent' /\ Abstract!FileNext
  BY <1>4, AbortStep, SameModes DEF Abstract!FileNext
<1>5. ASSUME NEW p \in Status, FixCPSR(p)
      PROVE  Consistent' /\ Abstract!FileNext
  BY <1>5, FixCPSRStep, SameModes DEF Abstract!FileNext
<1>6. ASSUME NEW p \in Status, FixSPSR(p)
      PROVE  Consistent' /\ Abstract!FileNext
  BY <1>6, FixSPSRStep, SameModes DEF Abstract!FileNext
<1>7. CASE StoreSMult
  BY <1>7, StoreSMultStep DEF Abstract!fileVars
<1>8. CASE UNCHANGED banksVars
  BY <1>8 DEF banksVars, Consistent, BanksTypeOK, BankOfMode, Physical, Contents,
     File, Abstract!fileVars
<1> QED
  BY <1>1, <1>2, <1>3, <1>4, <1>5, <1>6, <1>7, <1>8 DEF BanksNext

(***************************************************************************)
(* Type correctness, the bank in use is the mode's, and a block store with *)
(* ^ finds the user's registers, in every reachable state.                 *)
(***************************************************************************)
THEOREM BanksInvariance == BanksSpec => []BanksInv
<1>1. BanksInit => Consistent
  BY InitConsistent
<1>2. Consistent /\ [BanksNext]_banksVars => Consistent'
  BY NextConsistent
<1>3. Consistent => BanksInv
  BY UserStored DEF Consistent, BanksInv
<1> QED
  BY <1>1, <1>2, <1>3, PTL DEF BanksSpec

(***************************************************************************)
(* The array and the matrix implement a register file in which every       *)
(* register of every bank has a place of its own: exceptions, returns,     *)
(* mode changes and transfers of the user's registers change the places    *)
(* they name and no other, in any order and for any modes.                 *)
(***************************************************************************)
THEOREM BanksImplementation == BanksSpec => ImplementsRegisterFile
<1>1. BanksInit => Consistent /\ Abstract!FileInit
  BY InitConsistent
<1>2. Consistent /\ [BanksNext]_banksVars
        => Consistent' /\ [Abstract!FileNext]_(Abstract!fileVars)
  BY NextConsistent
<1> QED
  BY <1>1, <1>2, PTL DEF BanksSpec, ImplementsRegisterFile, Abstract!FileSpec

-------------------------------------------------------------------------------
(*****************************************************************************)
(* The translation lookaside buffer, for any numbers of sections, pages and  *)
(* entries.                                                                  *)
(*****************************************************************************)

\* Division by the pages of a section.
LEMMA Divides ==
  ASSUME NEW a \in Nat, NEW p \in Nat \ {0}
  PROVE  /\ a \div p \in Nat /\ a % p \in 0 .. p-1
         /\ a = p * (a \div p) + (a % p)
  OBVIOUS

\* The first address of a section.
LEMMA Multiple ==
  ASSUME NEW q \in Nat, NEW p \in Nat \ {0}
  PROVE  (q * p) \div p = q
<1> DEFINE b == q * p
<1>1. b \in Nat
  OBVIOUS
<1>2. b = p * (b \div p) + (b % p) /\ b % p \in 0 .. p-1 /\ b \div p \in Nat
  BY <1>1, Divides
<1> QED
  BY <1>2

\* An address, its section and its page.
LEMMA SectionFacts ==
  ASSUME NEW a \in Addr
  PROVE  /\ SectionOf(a) \in Section /\ a % Pages \in Page
         /\ SectionOf(a) * Pages \in Addr
         /\ SectionOf(SectionOf(a) * Pages) = SectionOf(a)
         /\ a \in AddrsOf(SectionOf(a))
<1> DEFINE q == a \div Pages
           r == a % Pages
<1>1. a \in Nat /\ Pages \in Nat \ {0} /\ Sections \in Nat \ {0} /\ a < Sections * Pages
      /\ Sections * Pages \in Nat
  BY SizesAssumption DEF Addr
<1>2. q \in Nat /\ r \in 0 .. Pages-1 /\ a = Pages * q + r
  BY <1>1, Divides
<1>3. q * Pages =< a
  BY <1>1, <1>2
<1>4. q < Sections
  <2> HIDE DEF q, r
  <2> SUFFICES ASSUME q >= Sections
               PROVE  FALSE
    BY <1>1, <1>2
  <2>1. q * Pages >= Sections * Pages
    BY <1>1, <1>2
  <2> QED
    BY <1>1, <1>2, <1>3, <2>1
<1>5. (q * Pages) \div Pages = q
  BY <1>1, <1>2, Multiple
<1> QED
  BY <1>1, <1>2, <1>3, <1>4, <1>5 DEF SectionOf, Section, Page, Addr, AddrsOf
\* Software that unmaps before it maps leaves nothing stale that is mapped.
StaleUnmapped == \A a \in stale : table[SectionOf(a)] = Fault

\* A walk gives an entry that matches the address, and any other it matches
\* has the same walk.
LEMMA WalkGives ==
  ASSUME TlbTypeOK, NEW a \in Addr, Walk(a) # Fault
  PROVE  /\ Walk(a) \in Entry
         /\ table[SectionOf(a)] # Fault
         /\ Walk(a).mapping = "page" => Walk(a).virt = a
         /\ Walk(a).mapping = "section" => SectionOf(Walk(a).virt) = SectionOf(a)
         /\ Walk(a).mapping \in {"page", "section"}
         /\ \A b \in Addr : Matches(Walk(a), b) => Walk(b) = Walk(a)
<1> DEFINE d == table[SectionOf(a)]
           v == SectionOf(a) * Pages
<1>1. /\ SectionOf(a) \in Section /\ a % Pages \in Page
      /\ v \in Addr /\ SectionOf(v) = SectionOf(a)
  BY SectionFacts
<1>2. d \in Descriptor
  BY <1>1, Zenon DEF TlbTypeOK
<1>3. d # Fault
  BY DEF Walk, Fault
<1>4. \/ d \in [kind : {"section"}, frame : Frames]
      \/ d \in [kind : {"pages"}, frame : [Page -> Frames \union {Fault}]]
  BY <1>2, <1>3, Zenon DEF Descriptor
<1>5. CASE d \in [kind : {"section"}, frame : Frames]
  <2>1. d.kind = "section" /\ d.frame \in Frames
    BY <1>5
  <2>2. Walk(a) = [mapping |-> "section", virt |-> v, frame |-> d.frame]
    BY <2>1 DEF Walk
  <2>3. Walk(a) \in Entry
    BY <1>1, <2>1, <2>2 DEF Entry
  <2>4. \A b \in Addr : Matches(Walk(a), b) => SectionOf(b) = SectionOf(a)
    BY <1>1, <2>2 DEF Matches
  <2>5. \A b \in Addr : SectionOf(b) = SectionOf(a) => Walk(b) = Walk(a)
    BY <2>1 DEF Walk
  <2> HIDE DEF d, v
  <2> QED
    BY <1>1, <1>3, <2>2, <2>3, <2>4, <2>5 DEF d
<1>6. CASE d \in [kind : {"pages"}, frame : [Page -> Frames \union {Fault}]]
  <2>1. d.kind = "pages" /\ d.frame[a % Pages] \in Frames \union {Fault}
    BY <1>1, <1>6
  <2>2. d.frame[a % Pages] # Fault
    BY <2>1 DEF Walk
  <2>3. Walk(a) = [mapping |-> "page", virt |-> a, frame |-> d.frame[a % Pages]]
    BY <2>1, <2>2 DEF Walk
  <2>4. Walk(a) \in Entry
    BY <2>1, <2>2, <2>3 DEF Entry
  <2>5. \A b \in Addr : Matches(Walk(a), b) => b = a
    BY <2>3 DEF Matches
  <2> HIDE DEF d, v
  <2> QED
    BY <1>3, <2>3, <2>4, <2>5 DEF d
<1> QED
  BY <1>4, <1>5, <1>6

\* The least of one is that one.
LEMMA OnlyOne ==
  ASSUME NEW S \in SUBSET Nat, NEW i \in S, \A j \in S : j = i
  PROVE  (CHOOSE k \in S : \A j \in S : k =< j) = i
<1>1. \A j \in S : i =< j
  OBVIOUS
<1> QED
  BY <1>1, Zenon

\* With one match, the search finds it.
LEMMA SearchFinds ==
  ASSUME TlbTypeOK, OneMatch, NEW a \in Addr, NEW i \in Hits(a)
  PROVE  Search(a) = i
<1>1. Hits(a) \in SUBSET Nat
  BY DEF Hits, TlbTypeOK
<1>2. \A j \in Hits(a) : j = i
  BY Zenon DEF OneMatch
<1> QED
  BY <1>1, <1>2, OnlyOne, Zenon DEF Search

\* An entry is loaded only if none matches, and then none matches for any
\* other address the new one is for: it would be up to date, and for both.
LEMMA TranslateKept ==
  ASSUME TlbInv, StaleUnmapped, NEW a \in Addr, Translate(a)
  PROVE  TlbInv' /\ StaleUnmapped'
<1> DEFINE w == Walk(a)
<1>0. TlbTypeOK /\ Fresh /\ OneMatch
  BY Zenon DEF TlbInv
<1>1. /\ Hits(a) = {} /\ w # Fault
      /\ entries' = [entries EXCEPT ![cycle] = w]
      /\ cycle' = (cycle + 1) % Num
      /\ table' = table /\ stale' = stale
  BY DEF Translate
<1>2. /\ w \in Entry /\ table[SectionOf(a)] # Fault
      /\ w.mapping = "page" => w.virt = a
      /\ w.mapping = "section" => SectionOf(w.virt) = SectionOf(a)
      /\ w.mapping \in {"page", "section"}
      /\ \A b \in Addr : Matches(w, b) => Walk(b) = w
  BY <1>0, <1>1, WalkGives
<1>3. TlbTypeOK'
  <2>1. cycle' \in 0 .. Num-1
    BY <1>0, <1>1, SizesAssumption DEF TlbTypeOK
  <2> QED
    BY <1>0, <1>1, <1>2, <2>1 DEF TlbTypeOK
<1>4. /\ DOMAIN entries' = 0 .. Num-1 /\ DOMAIN entries = 0 .. Num-1 /\ cycle \in 0 .. Num-1
      /\ entries'[cycle] = w
      /\ \A i \in 0 .. Num-1 : i # cycle => entries'[i] = entries[i]
  BY <1>0, <1>1 DEF TlbTypeOK
<1> HIDE DEF w
<1>5. ASSUME NEW b \in Addr, Matches(w, b)
      PROVE  Hits(b) = {}
  <2> SUFFICES ASSUME NEW j \in Hits(b)
               PROVE  FALSE
    OBVIOUS
  <2>1. Walk(b) = w
    BY <1>2, <1>5
  <2>2. table[SectionOf(b)] # Fault
    BY <1>0, <1>1, <2>1, WalkGives
  <2>3. b \notin stale
    BY <2>2, Zenon DEF StaleUnmapped
  <2>4. entries[j].mapping = w.mapping
    BY <1>0, <2>1, <2>3, SearchFinds, Zenon DEF Fresh
  <2>5. Matches(entries[j], b) /\ j \in DOMAIN entries
    BY DEF Hits
  <2>6. Matches(entries[j], a)
    BY <1>2, <1>5, <2>4, <2>5 DEF Matches
  <2> QED
    BY <1>1, <2>5, <2>6 DEF Hits
<1>6. ASSUME NEW b \in Addr
      PROVE  /\ Matches(w, b) => Hits(b)' = {cycle}
             /\ ~Matches(w, b) => Hits(b)' = Hits(b) \ {cycle}
  <2>1. Hits(b)' = {i \in 0 .. Num-1 : Matches(entries'[i], b)}
    BY <1>4 DEF Hits, Matches
  <2>2. Hits(b) = {i \in 0 .. Num-1 : Matches(entries[i], b)}
    BY <1>4 DEF Hits
  <2>3. Matches(w, b) => Hits(b) = {}
    BY <1>5
  <2> QED
    BY <1>4, <2>1, <2>2, <2>3
<1>7. OneMatch'
  BY <1>0, <1>6 DEF OneMatch
<1>8. ASSUME NEW b \in Addr, b \notin stale, Hits(b)' # {}
      PROVE  /\ Walk(b) # Fault
             /\ entries'[Search(b)'].frame = Walk(b).frame
             /\ entries'[Search(b)'].mapping = Walk(b).mapping
  <2> PICK i \in Hits(b)' : TRUE
    BY <1>8
  <2>1. Hits(b)' \in SUBSET Nat
    BY <1>4 DEF Hits
  <2>2. \A j \in Hits(b)' : j = i
    BY <1>7, Zenon DEF OneMatch
  <2>3. Search(b)' = i
    BY <2>1, <2>2, OnlyOne, Zenon DEF Search
  <2>4. CASE Matches(w, b)
    <3>1. i = cycle /\ Walk(b) = w
      BY <1>2, <1>6, <2>4
    <3> QED
      BY <1>1, <1>4, <2>3, <3>1, Zenon DEF w
  <2>5. CASE ~Matches(w, b)
    <3>1. i \in Hits(b) /\ i # cycle
      BY <1>6, <2>5
    <3>2. entries'[i] = entries[i]
      BY <1>4, <3>1 DEF Hits
    <3>3. Search(b) = i
      BY <1>0, <3>1, SearchFinds
    <3> QED
      BY <1>0, <1>8, <2>3, <3>1, <3>2, <3>3, Zenon DEF Fresh
  <2> QED
    BY <2>4, <2>5
<1>9. \A b \in Addr : Walk(b)' = Walk(b)
  BY <1>1 DEF Walk
<1>10. Fresh'
  BY <1>1, <1>8, <1>9, Zenon DEF Fresh
<1>11. StaleUnmapped'
  BY <1>1 DEF StaleUnmapped
<1> QED
  BY <1>3, <1>7, <1>10, <1>11, Zenon DEF TlbInv
\* The only entry for the address goes.
LEMMA InvalidateEntryKept ==
  ASSUME TlbInv, StaleUnmapped, NEW a \in Addr, InvalidateEntry(a)
  PROVE  TlbInv' /\ StaleUnmapped'
<1>0. TlbTypeOK /\ Fresh /\ OneMatch
  BY Zenon DEF TlbInv
<1>1. /\ table' = table /\ cycle' = cycle /\ stale' = stale \ {a}
      /\ entries' = IF Hits(a) = {} THEN entries
                    ELSE [entries EXCEPT ![Search(a)] = Invalid]
  BY DEF InvalidateEntry
<1>2. /\ DOMAIN entries' = 0 .. Num-1 /\ DOMAIN entries = 0 .. Num-1
      /\ entries' \in [0 .. Num-1 -> Entry]
  BY <1>0, <1>1 DEF TlbTypeOK, Entry
<1>3. \A i \in 0 .. Num-1 :
        \/ entries'[i] = entries[i]
        \/ entries'[i] = Invalid /\ Hits(a) # {} /\ i = Search(a)
  <2>1. CASE Hits(a) = {}
    BY <1>1, <2>1
  <2>2. CASE Hits(a) # {}
    <3> DEFINE k == Search(a)
    <3>1. entries' = [entries EXCEPT ![k] = Invalid] /\ entries \in [0 .. Num-1 -> Entry]
      BY <1>0, <1>1, <2>2, Zenon DEF TlbTypeOK
    <3> HIDE DEF k
    <3>2. \A i \in 0 .. Num-1 : entries'[i] = IF i = k THEN Invalid ELSE entries[i]
      BY <3>1
    <3> QED
      BY <2>2, <3>2, Zenon DEF k
  <2> QED
    BY <2>1, <2>2
<1>4. TlbTypeOK'
  BY <1>0, <1>1, <1>2 DEF TlbTypeOK
<1>5. \A b : ~Matches(Invalid, b)
  BY DEF Matches, Invalid
<1>6. ASSUME NEW b \in Addr, NEW i \in Hits(b)'
      PROVE  i \in Hits(b) /\ entries'[i] = entries[i]
  BY <1>2, <1>3, <1>5 DEF Hits, Matches
<1>7. OneMatch'
  BY <1>0, <1>6 DEF OneMatch
<1>8. Hits(a)' = {}
  <2> SUFFICES ASSUME NEW i \in Hits(a)'
               PROVE  FALSE
    OBVIOUS
  <2>1. i \in Hits(a) /\ entries'[i] = entries[i]
    BY <1>6
  <2>2. Search(a) = i
    BY <1>0, <2>1, SearchFinds
  <2>3. entries'[i] = Invalid
    BY <1>0, <1>1, <2>1, <2>2 DEF TlbTypeOK, Hits
  <2> QED
    BY <1>5, <2>3 DEF Hits, Matches
<1>9. ASSUME NEW b \in Addr, b \notin stale', Hits(b)' # {}
      PROVE  /\ Walk(b) # Fault
             /\ entries'[Search(b)'].frame = Walk(b).frame
             /\ entries'[Search(b)'].mapping = Walk(b).mapping
  <2> PICK i \in Hits(b)' : TRUE
    BY <1>9
  <2>1. Hits(b)' \in SUBSET Nat
    BY <1>2 DEF Hits
  <2>2. \A j \in Hits(b)' : j = i
    BY <1>7, Zenon DEF OneMatch
  <2>3. Search(b)' = i
    BY <2>1, <2>2, OnlyOne, Zenon DEF Search
  <2>4. b # a /\ b \notin stale
    BY <1>1, <1>8, <1>9
  <2>5. i \in Hits(b) /\ entries'[i] = entries[i]
    BY <1>6
  <2>6. Search(b) = i
    BY <1>0, <2>5, SearchFinds
  <2> QED
    BY <1>0, <2>3, <2>4, <2>5, <2>6, Zenon DEF Fresh
<1>10. \A b \in Addr : Walk(b)' = Walk(b)
  BY <1>1 DEF Walk
<1>11. Fresh'
  BY <1>9, <1>10, Zenon DEF Fresh
<1>12. StaleUnmapped'
  BY <1>1 DEF StaleUnmapped
<1> QED
  BY <1>4, <1>7, <1>11, <1>12, Zenon DEF TlbInv

LEMMA EmptyBuffer ==
  ASSUME entries = [i \in 0 .. Num-1 |-> Invalid], stale = {}
  PROVE  Fresh /\ OneMatch /\ StaleUnmapped
<1>1. \A a : Hits(a) = {}
  BY DEF Hits, Matches, Invalid
<1> QED
  BY <1>1, Zenon DEF Fresh, OneMatch, StaleUnmapped

LEMMA InvalidateAllKept ==
  ASSUME TlbInv, InvalidateAll
  PROVE  TlbInv' /\ StaleUnmapped'
<1>1. /\ entries' = [i \in 0 .. Num-1 |-> Invalid] /\ cycle' = 0 /\ stale' = {}
      /\ table' = table
  BY DEF InvalidateAll, TlbInv, TlbTypeOK
<1>2. TlbTypeOK'
  BY <1>1, SizesAssumption DEF TlbInv, TlbTypeOK, Entry
<1>3. \A a : Hits(a)' = {}
  BY <1>1 DEF Hits, Matches, Invalid
<1> QED
  BY <1>1, <1>2, <1>3, Zenon DEF TlbInv, Fresh, OneMatch, StaleUnmapped

\* Here the discipline is needed: nothing is stale where a mapping is made.
LEMMA RemapKept ==
  ASSUME BreakBeforeMake, TlbInv, StaleUnmapped,
         NEW s \in Section, NEW d \in Descriptor, Remap(s, d)
  PROVE  TlbInv' /\ StaleUnmapped'
<1>0. TlbTypeOK /\ Fresh /\ OneMatch
  BY Zenon DEF TlbInv
<1>1. /\ d # Fault => table[s] = Fault /\ stale \intersect AddrsOf(s) = {}
      /\ table' = [table EXCEPT ![s] = d]
      /\ stale' = stale \union {a \in AddrsOf(s) : Walk(a) # Fault \/ Hits(a) # {}}
      /\ entries' = entries /\ cycle' = cycle
  BY DEF Remap
<1>2. TlbTypeOK'
  BY <1>0, <1>1 DEF TlbTypeOK, AddrsOf
<1>3. \A a : Hits(a)' = Hits(a) /\ Search(a)' = Search(a)
  BY <1>1 DEF Hits, Search, Matches
<1>4. OneMatch'
  BY <1>0, <1>3 DEF OneMatch
<1>5. ASSUME NEW a \in Addr, SectionOf(a) # s
      PROVE  Walk(a)' = Walk(a) /\ table'[SectionOf(a)] = table[SectionOf(a)]
  <2>1. SectionOf(a) \in Section
    BY SectionFacts
  <2>2. table'[SectionOf(a)] = table[SectionOf(a)]
    BY <1>0, <1>1, <1>5, <2>1 DEF TlbTypeOK
  <2> QED
    BY <2>2 DEF Walk
<1>6. ASSUME NEW a \in Addr, a \notin stale', Hits(a) # {}
      PROVE  SectionOf(a) # s
  BY <1>1, <1>6 DEF AddrsOf
<1>7. Fresh'
  BY <1>0, <1>1, <1>3, <1>5, <1>6 DEF Fresh
<1>8. StaleUnmapped'
  <2> SUFFICES ASSUME NEW a \in stale'
               PROVE  table'[SectionOf(a)] = Fault
    BY DEF StaleUnmapped
  <2>0. a \in Addr
    BY <1>2 DEF TlbTypeOK
  <2>1. CASE SectionOf(a) # s
    BY <1>1, <1>5, <2>0, <2>1 DEF StaleUnmapped, AddrsOf
  <2>2. CASE SectionOf(a) = s /\ d = Fault
    BY <1>0, <1>1, <2>2 DEF TlbTypeOK
  <2>3. CASE SectionOf(a) = s /\ d # Fault
    <3>1. a \in AddrsOf(s) /\ table[s] = Fault
      BY <1>1, <2>0, <2>3, SectionFacts
    <3>2. Walk(a) = Fault
      BY <2>3, <3>1 DEF Walk, Fault
    <3>3. Hits(a) # {} /\ a \notin stale
      BY <1>1, <2>3, <3>1, <3>2
    <3> QED
      BY <1>0, <2>0, <3>2, <3>3, Zenon DEF Fresh
  <2> QED
    BY <2>1, <2>2, <2>3
<1> QED
  BY <1>2, <1>4, <1>7, <1>8, Zenon DEF TlbInv

(***************************************************************************)
(* Translations agree with the tables and one entry matches at most        *)
(* (mmu_tlb_search and translate of tlb.cpp), for any sections, pages and    *)
(* entries, if software unmaps and invalidates before it maps.             *)
(***************************************************************************)
THEOREM TlbInvariance == BreakBeforeMake => (TlbSpec => []TlbInv)
<1> SUFFICES ASSUME BreakBeforeMake
             PROVE  TlbSpec => []TlbInv
  OBVIOUS
<1>1. TlbInit => TlbInv /\ StaleUnmapped
  <2> SUFFICES ASSUME TlbInit
               PROVE  TlbInv /\ StaleUnmapped
    OBVIOUS
  <2>1. TlbTypeOK
    BY SizesAssumption DEF TlbInit, TlbTypeOK, Descriptor, Entry
  <2> QED
    BY <2>1, EmptyBuffer, Zenon DEF TlbInit, TlbInv
<1>2. TlbInv /\ StaleUnmapped /\ [TlbNext]_tlbVars => (TlbInv /\ StaleUnmapped)'
  <2> SUFFICES ASSUME TlbInv, StaleUnmapped, [TlbNext]_tlbVars
               PROVE  TlbInv' /\ StaleUnmapped'
    OBVIOUS
  <2>1. CASE UNCHANGED tlbVars
    <3>1. UNCHANGED <<table, entries, cycle, stale>>
      BY <2>1 DEF tlbVars
    <3>2. TlbTypeOK' /\ StaleUnmapped'
      BY <3>1 DEF TlbInv, TlbTypeOK, StaleUnmapped
    <3>3. \A a : Hits(a)' = Hits(a) /\ Search(a)' = Search(a) /\ Walk(a)' = Walk(a)
      BY <3>1 DEF Hits, Search, Walk, Matches
    <3> QED
      BY <3>1, <3>2, <3>3, Zenon DEF TlbInv, Fresh, OneMatch
  <2> QED
    BY <2>1, TranslateKept, InvalidateEntryKept, InvalidateAllKept, RemapKept, Zenon
    DEF TlbNext
<1> QED
  BY <1>1, <1>2, PTL DEF TlbSpec

-------------------------------------------------------------------------------
(*****************************************************************************)
(* Data processing, for words of any size that is a multiple of four: the    *)
(* emulation computes what Arithmetic promises.                              *)
(*****************************************************************************)

LEMMA SizePositive == Size \in Nat /\ Size > 0
BY QuarterAssumption DEF Size

\* A sum or a difference of words wraps around once at most.
LEMMA Wraps ==
  ASSUME NEW x \in Int, -Size =< x, x < 2 * Size
  PROVE  /\ x % Size \in Word
         /\ x % Size = IF x < 0 THEN x + Size ELSE IF x < Size THEN x ELSE x - Size
<1>1. Size \in Nat /\ Size > 0
  BY SizePositive
<1>2. CASE x < 0
  BY <1>1, <1>2 DEF Word
<1>3. CASE 0 =< x /\ x < Size
  BY <1>1, <1>3 DEF Word
<1>4. CASE Size =< x
  BY <1>1, <1>4 DEF Word
<1> QED
  BY <1>1, <1>2, <1>3, <1>4

\* The highest bit is the sign.
LEMMA Signs ==
  ASSUME NEW a \in Word
  PROVE  /\ NEG(a) <=> Arith!Signed(a) < 0
         /\ POS(a) <=> ~NEG(a)
         /\ Arith!Signed(a) = IF NEG(a) THEN a - Size ELSE a
BY QuarterAssumption DEF NEG, POS, Half, Size, Word, Arith!Signed

\* The flags computed from the highest bits of an addition are exact.
LEMMA AdditionFlags ==
  ASSUME NEW a \in Word, NEW b \in Word, NEW c \in {0, 1}, NEW d \in Word,
         d = (a + b + c) % Size
  PROVE  /\ AddCarry(a, b, d) <=> ~Arith!IsUnsigned(a + b + c)
         /\ AddOverflow(a, b, d) <=> ~Arith!IsSigned(Arith!Signed(a) + Arith!Signed(b) + c)
<1>1. a + b + c \in Int /\ 0 =< a + b + c /\ a + b + c < 2 * Size
  BY QuarterAssumption DEF Word, Size
<1>2. d = IF a + b + c < Size THEN a + b + c ELSE a + b + c - Size
  BY <1>1, Wraps, SizePositive
<1> QED
  BY <1>2, QuarterAssumption
  DEF AddCarry, AddOverflow, NEG, POS, Half, Size, Word,
      Arith!Signed, Arith!IsUnsigned, Arith!IsSigned

LEMMA SubtractionFlags ==
  ASSUME NEW a \in Word, NEW b \in Word, NEW c \in {0, 1}, NEW d \in Word,
         d = (a - b - c) % Size
  PROVE  /\ SubCarry(a, b, d) <=> Arith!IsUnsigned(a - b - c)
         /\ SubOverflow(a, b, d) <=> ~Arith!IsSigned(Arith!Signed(a) - Arith!Signed(b) - c)
<1>1. a - b - c \in Int /\ -Size =< a - b - c /\ a - b - c < Size
  BY QuarterAssumption DEF Word, Size
<1>2. d = IF a - b - c < 0 THEN a - b - c + Size ELSE a - b - c
  BY <1>1, Wraps, SizePositive
<1> QED
  BY <1>2, QuarterAssumption
  DEF SubCarry, SubOverflow, NEG, POS, Half, Size, Word,
      Arith!Signed, Arith!IsUnsigned, Arith!IsSigned

LEMMA AddFlagsExact ==
  ASSUME NEW a \in Word, NEW b \in Word, NEW c \in {0, 1}, NEW d \in Word,
         d = (a + b + c) % Size
  PROVE  /\ NegZero(AddFlags(a, b, d), d) = Arith!Sum(a, b, c)
         /\ c = 0 => AddFlags(a, b, d) = Arith!Sum(a, b, c)
<1>1. ASSUME a < Quarter, b < Quarter
      PROVE  ~AddCarry(a, b, d) /\ ~AddOverflow(a, b, d) /\ (c = 0 => ~NEG(d))
  <2>1. a + b + c \in Word
    BY <1>1, QuarterAssumption DEF Word, Size
  <2>2. d = a + b + c
    BY <2>1, Wraps, QuarterAssumption DEF Word, Size
  <2> QED
    BY <1>1, <2>2, QuarterAssumption
    DEF AddCarry, AddOverflow, NEG, POS, Half, Size, Word
<1>2. Arith!Sum(a, b, c) = NZCV(NEG(d), d = 0, AddCarry(a, b, d), AddOverflow(a, b, d))
  BY Signs, AdditionFlags
  DEF Arith!Sum, Arith!Result, NZCV, AddCarry, AddOverflow, NEG, Arith!IsUnsigned, Arith!IsSigned
<1>3. NegZero(AddFlags(a, b, d), d) =
        IF a >= Quarter \/ b >= Quarter
        THEN NZCV(NEG(d), d = 0, AddCarry(a, b, d), AddOverflow(a, b, d))
        ELSE NZCV(NEG(d), d = 0, FALSE, FALSE)
  BY DEF NegZero, AddFlags, NZCV
<1>4. CASE ~(a >= Quarter \/ b >= Quarter)
  <2>1. a < Quarter /\ b < Quarter
    BY <1>4, QuarterAssumption DEF Word, Size
  <2>2. AddCarry(a, b, d) = FALSE /\ AddOverflow(a, b, d) = FALSE /\ (c = 0 => NEG(d) = FALSE)
    BY <1>1, <2>1 DEF AddCarry, AddOverflow, NEG
  <2>3. AddFlags(a, b, d) = NZCV(FALSE, d = 0, FALSE, FALSE)
    BY <1>4, Zenon DEF AddFlags
  <2>4. NegZero(AddFlags(a, b, d), d) = NZCV(NEG(d), d = 0, FALSE, FALSE)
    BY <1>3, <1>4, Zenon
  <2> QED
    BY <1>2, <2>2, <2>3, <2>4, Zenon
<1>5. CASE a >= Quarter \/ b >= Quarter
  BY <1>2, <1>3, <1>5, Zenon DEF AddFlags
<1> QED
  BY <1>4, <1>5

LEMMA SubFlagsExact ==
  ASSUME NEW a \in Word, NEW b \in Word, NEW c \in {0, 1}, NEW d \in Word,
         d = (a - b - c) % Size
  PROVE  SubFlags(a, b, d) = Arith!Difference(a, b, c)
<1>1. ASSUME a < b, ~NEG(a), ~NEG(b)
      PROVE  ~SubCarry(a, b, d) /\ ~SubOverflow(a, b, d)
  <2>1. a - b - c \in Int /\ -Size =< a - b - c /\ a - b - c < 0
    BY <1>1, QuarterAssumption DEF Word, Size
  <2>2. d = a - b - c + Size
    BY <2>1, Wraps, SizePositive
  <2> QED
    BY <1>1, <2>2, QuarterAssumption
    DEF SubCarry, SubOverflow, NEG, POS, Half, Size, Word
<1>2. Arith!Difference(a, b, c) = NZCV(NEG(d), d = 0, SubCarry(a, b, d), SubOverflow(a, b, d))
  BY Signs, SubtractionFlags
  DEF Arith!Difference, Arith!Result, NZCV, SubCarry, SubOverflow, NEG, Arith!IsUnsigned,
      Arith!IsSigned
<1>3. CASE ~(a >= b \/ NEG(a) \/ NEG(b))
  <2>1. a < b /\ ~NEG(a) /\ ~NEG(b)
    BY <1>3, SizePositive DEF Word
  <2>2. SubCarry(a, b, d) = FALSE /\ SubOverflow(a, b, d) = FALSE
    BY <1>1, <2>1 DEF SubCarry, SubOverflow
  <2> QED
    BY <1>2, <1>3, <2>2, Zenon DEF SubFlags
<1>4. CASE a >= b \/ NEG(a) \/ NEG(b)
  BY <1>2, <1>4, Zenon DEF SubFlags
<1> QED
  BY <1>3, <1>4

-----------------------------------------------------------------------------

LEMMA SaturatedSum ==
  ASSUME NEW a \in Word, NEW b \in Word, NEW d \in Word, d = (a + b) % Size
  PROVE  /\ AddOverflow(a, b, d) = ~Arith!IsSigned(Arith!Signed(a) + Arith!Signed(b))
         /\ Saturated(AddOverflow(a, b, d), d) \in Word
         /\ Arith!Signed(Saturated(AddOverflow(a, b, d), d)) =
              Arith!Nearest(Arith!Signed(a) + Arith!Signed(b))
<1>1. d = IF a + b < Size THEN a + b ELSE a + b - Size
  <2>1. a + b \in Int /\ 0 =< a + b /\ a + b < 2 * Size
    BY QuarterAssumption DEF Word, Size
  <2> QED
    BY <2>1, Wraps, SizePositive
<1>2. AddOverflow(a, b, d) <=> ~Arith!IsSigned(Arith!Signed(a) + Arith!Signed(b))
  BY <1>1, QuarterAssumption
  DEF AddOverflow, NEG, POS, Half, Size, Word, Arith!Signed, Arith!IsSigned
<1>3. CASE ~AddOverflow(a, b, d)
  BY <1>1, <1>2, <1>3, QuarterAssumption
  DEF Saturated, AddOverflow, NEG, POS, Half, Size, Word, Arith!Signed, Arith!IsSigned,
      Arith!Nearest
<1>4. CASE AddOverflow(a, b, d)
  BY <1>1, <1>2, <1>4, QuarterAssumption
  DEF Saturated, AddOverflow, NEG, POS, Half, Size, Word, Arith!Signed, Arith!IsSigned,
      Arith!Nearest
<1> QED
  BY <1>2, <1>3, <1>4 DEF AddOverflow, Arith!IsSigned

LEMMA SaturatedDifference ==
  ASSUME NEW a \in Word, NEW b \in Word, NEW d \in Word, d = (a - b) % Size
  PROVE  /\ SubOverflow(a, b, d) = ~Arith!IsSigned(Arith!Signed(a) - Arith!Signed(b))
         /\ Saturated(SubOverflow(a, b, d), d) \in Word
         /\ Arith!Signed(Saturated(SubOverflow(a, b, d), d)) =
              Arith!Nearest(Arith!Signed(a) - Arith!Signed(b))
<1>1. d = IF a - b < 0 THEN a - b + Size ELSE a - b
  <2>1. a - b \in Int /\ -Size =< a - b /\ a - b < Size
    BY QuarterAssumption DEF Word, Size
  <2> QED
    BY <2>1, Wraps, SizePositive
<1>2. SubOverflow(a, b, d) <=> ~Arith!IsSigned(Arith!Signed(a) - Arith!Signed(b))
  BY <1>1, QuarterAssumption
  DEF SubOverflow, NEG, POS, Half, Size, Word, Arith!Signed, Arith!IsSigned
<1>3. CASE ~SubOverflow(a, b, d)
  BY <1>1, <1>2, <1>3, QuarterAssumption
  DEF Saturated, SubOverflow, NEG, POS, Half, Size, Word, Arith!Signed, Arith!IsSigned,
      Arith!Nearest
<1>4. CASE SubOverflow(a, b, d)
  BY <1>1, <1>2, <1>4, QuarterAssumption
  DEF Saturated, SubOverflow, NEG, POS, Half, Size, Word, Arith!Signed, Arith!IsSigned,
      Arith!Nearest
<1> QED
  BY <1>2, <1>3, <1>4 DEF SubOverflow, Arith!IsSigned

-----------------------------------------------------------------------------

LEMMA Doubled ==
  ASSUME instr.r \in Word
  PROVE  /\ op2d \in Word
         /\ Saturated(DoubleOverflows, op2d) \in Word
         /\ DoubleOverflows = ~Arith!IsSigned(2 * Arith!Signed(instr.r))
         /\ Arith!Signed(Saturated(DoubleOverflows, op2d)) =
              Arith!Nearest(2 * Arith!Signed(instr.r))
<1>1. op2d \in Word
  BY SizePositive DEF op2d, Word
<1>2. Arith!Signed(instr.r) + Arith!Signed(instr.r) = 2 * Arith!Signed(instr.r)
  BY SizePositive DEF Word, Arith!Signed
<1> QED
  BY <1>1, <1>2, SaturatedSum DEF op2d, DoubleOverflows

LEMMA TruthValues ==
  ASSUME NEW a, NEW b, NEW d
  PROVE  /\ AddCarry(a, b, d) \in BOOLEAN /\ AddOverflow(a, b, d) \in BOOLEAN
         /\ SubCarry(a, b, d) \in BOOLEAN /\ SubOverflow(a, b, d) \in BOOLEAN
         /\ NEG(d) \in BOOLEAN /\ (d = 0) \in BOOLEAN
BY DEF AddCarry, AddOverflow, SubCarry, SubOverflow, NEG

LEMMA FlagsTyped ==
  ASSUME flags \in Arith!Flags, NEW a, NEW b, NEW d
  PROVE  /\ AddFlags(a, b, d) \in Arith!Flags
         /\ SubFlags(a, b, d) \in Arith!Flags
         /\ NegZero(AddFlags(a, b, d), d) \in Arith!Flags
         /\ \A c, v \in BOOLEAN : NZCV(NEG(d), d = 0, c, v) \in Arith!Flags
<1>1. \A n, z, c, v \in BOOLEAN : NZCV(n, z, c, v) \in Arith!Flags
  BY DEF NZCV, Arith!Flags
<1>2. AddFlags(a, b, d) \in Arith!Flags
  <2>1. /\ AddCarry(a, b, d) \in BOOLEAN /\ AddOverflow(a, b, d) \in BOOLEAN
        /\ NEG(d) \in BOOLEAN /\ (d = 0) \in BOOLEAN /\ FALSE \in BOOLEAN
    BY TruthValues
  <2>2. /\ NZCV(NEG(d), d = 0, AddCarry(a, b, d), AddOverflow(a, b, d)) \in Arith!Flags
        /\ NZCV(FALSE, d = 0, FALSE, FALSE) \in Arith!Flags
    BY <1>1, <2>1, Zenon
  <2> QED
    BY <2>2, Zenon DEF AddFlags
<1>3. SubFlags(a, b, d) \in Arith!Flags
  <2>1. /\ SubCarry(a, b, d) \in BOOLEAN /\ SubOverflow(a, b, d) \in BOOLEAN
        /\ NEG(d) \in BOOLEAN /\ (d = 0) \in BOOLEAN /\ FALSE \in BOOLEAN
    BY TruthValues
  <2>2. /\ NZCV(NEG(d), d = 0, SubCarry(a, b, d), SubOverflow(a, b, d)) \in Arith!Flags
        /\ NZCV(NEG(d), d = 0, FALSE, FALSE) \in Arith!Flags
    BY <1>1, <2>1, Zenon
  <2> QED
    BY <2>2, Zenon DEF SubFlags
<1>4. AddFlags(a, b, d).c \in BOOLEAN /\ AddFlags(a, b, d).v \in BOOLEAN
  BY <1>2 DEF Arith!Flags
<1>5. NegZero(AddFlags(a, b, d), d) \in Arith!Flags
  BY <1>1, <1>4, TruthValues, Zenon DEF NegZero
<1> QED
  BY <1>1, <1>2, <1>3, <1>5, TruthValues, Zenon

\* The instructions keep to words and Boolean flags.
THEOREM ArithmeticTyping == DpSpec => []DpTypeOK
<1>1. DpInit => DpTypeOK
  BY SizePositive DEF DpInit, Arith!ArithInit, DpTypeOK, Word, Arith!Flags
<1>2. ASSUME DpTypeOK, [DpNext]_dpVars
      PROVE  DpTypeOK'
  <2> USE <1>2 DEF DpTypeOK
  <2>1. CASE UNCHANGED dpVars
    BY <2>1 DEF dpVars
  <2>2. CASE DpFetch
    BY <2>2 DEF DpFetch
  <2>3. ASSUME instr # Arith!None, DpExecute
        PROVE  DpTypeOK'
    <3>1. /\ instr \in Arith!Instructions /\ instr' = Arith!None
          /\ instr.r \in Word /\ instr.s \in BOOLEAN /\ instr.c \in BOOLEAN
      BY <2>3 DEF DpExecute, Arith!Instructions, Arith!Unsigned, Word
    <3>2. ASSUME NEW a \in Word, NEW b \in Word, NEW c \in {0, 1}
          PROVE  (a + b + c) % Size \in Word /\ (a - b - c) % Size \in Word
      BY SizePositive DEF Word
    <3>4. ASSUME NEW a \in Word, NEW b \in Word, NEW d \in Word
          PROVE  /\ AddFlags(a, b, d) \in Arith!Flags /\ SubFlags(a, b, d) \in Arith!Flags
                 /\ NegZero(AddFlags(a, b, d), d) \in Arith!Flags
      BY FlagsTyped
    <3>5. ASSUME NEW d \in Word, NEW f \in Arith!Flags, WriteDest(d, f)
          PROVE  acc' \in Word /\ flags' \in Arith!Flags
      BY <3>1, <3>5 DEF WriteDest
    <3>6. CASE ADD \/ ADC
      BY <3>1, <3>2, <3>4, <3>5, <3>6, SizePositive DEF ADD, ADC, AddSum, CFLAG, Word
    <3>7. CASE SUB \/ SBC \/ RSB \/ RSC
      BY <3>1, <3>2, <3>4, <3>5, <3>7, SizePositive
      DEF SUB, SBC, RSB, RSC, SubtractFrom, CFLAG, Word
    <3>8. CASE CMN \/ CMP
      BY <3>1, <3>2, <3>4, <3>8, SizePositive DEF CMN, CMP, Word
    <3>9. CASE LOGIC \/ TEST
      <4>1. NZCV(NEG(instr.r), instr.r = 0, instr.c, flags.v) \in Arith!Flags
        <5>1. flags.v \in BOOLEAN /\ flags \in Arith!Flags
          BY DEF Arith!Flags
        <5> QED
          BY <3>1, <5>1, FlagsTyped, Zenon
      <4> QED
        BY <3>1, <3>5, <3>9, <4>1 DEF LOGIC, TEST
    <3>10. CASE QADD \/ QSUB \/ QDADD \/ QDSUB
      <4>1. ASSUME NEW d, NEW o, NEW q, Saturate(d, o, q)
            PROVE  flags' \in Arith!Flags
        BY <4>1 DEF Saturate, Arith!Flags
      <4>2. op2d \in Word /\ Saturated(DoubleOverflows, op2d) \in Word
        BY <3>1, Doubled
      <4>3. ASSUME NEW b \in Word, NEW q, QSum(b, q) \/ QDifference(b, q)
            PROVE  acc' \in Word /\ flags' \in Arith!Flags
        <5>1. (acc + b) % Size \in Word /\ (acc - b) % Size \in Word
          BY SizePositive DEF Word
        <5> QED
          BY <4>1, <4>3, <5>1, SaturatedSum, SaturatedDifference
          DEF QSum, QDifference, Saturate
      <4> QED
        BY <3>1, <3>10, <4>2, <4>3 DEF QADD, QSUB, QDADD, QDSUB
    <3> QED
      BY <2>3, <3>1, <3>6, <3>7, <3>8, <3>9, <3>10 DEF DpExecute
  <2> QED
    BY <1>2, <2>1, <2>2, <2>3 DEF DpNext, DpExecute
<1> QED
  BY <1>1, <1>2, PTL DEF DpSpec

-----------------------------------------------------------------------------

LEMMA QImplements ==
  ASSUME acc \in Word, NEW b \in Word, NEW q \in BOOLEAN, NEW y,
         q = ~Arith!IsSigned(y)
  PROVE  /\ QSum(b, q) => Arith!Saturates(Arith!Signed(acc) + Arith!Signed(b), y)
         /\ QDifference(b, q) => Arith!Saturates(Arith!Signed(acc) - Arith!Signed(b), y)
<1>1. ASSUME NEW d \in Word, NEW o \in BOOLEAN, NEW x, o = ~Arith!IsSigned(x),
             Saturated(o, d) \in Word, Arith!Signed(Saturated(o, d)) = Arith!Nearest(x),
             Saturate(d, o, q)
      PROVE  Arith!Saturates(x, y)
  <2>1. acc' = Saturated(o, d) /\ flags' = [flags EXCEPT !.q = @ \/ q \/ o]
    BY <1>1, Zenon DEF Saturate
  <2>2. (flags.q \/ q \/ o) = (flags.q \/ ~Arith!IsSigned(x) \/ ~Arith!IsSigned(y))
    BY <1>1, Zenon
  <2>3. flags' = [flags EXCEPT !.q = @ \/ ~Arith!IsSigned(x) \/ ~Arith!IsSigned(y)]
    BY <2>1, <2>2, Zenon
  <2>4. acc' \in Arith!Unsigned /\ Arith!Signed(acc') = Arith!Nearest(x)
    BY <1>1, <2>1 DEF Word, Arith!Unsigned
  <2> QED
    BY <2>3, <2>4, Zenon DEF Arith!Saturates
<1>2. /\ (acc + b) % Size \in Word /\ (acc - b) % Size \in Word
  BY SizePositive DEF Word
<1>3. ASSUME QSum(b, q)
      PROVE  Arith!Saturates(Arith!Signed(acc) + Arith!Signed(b), y)
  <2> DEFINE d == (acc + b) % Size
  <2>1. AddOverflow(acc, b, d) \in BOOLEAN
    BY TruthValues
  <2>2. Saturate(d, AddOverflow(acc, b, d), q)
    BY <1>3 DEF QSum
  <2> QED
    BY <1>1, <1>2, <2>1, <2>2, SaturatedSum
<1>4. ASSUME QDifference(b, q)
      PROVE  Arith!Saturates(Arith!Signed(acc) - Arith!Signed(b), y)
  <2> DEFINE d == (acc - b) % Size
  <2>1. SubOverflow(acc, b, d) \in BOOLEAN
    BY TruthValues
  <2>2. Saturate(d, SubOverflow(acc, b, d), q)
    BY <1>4 DEF QDifference
  <2> QED
    BY <1>1, <1>2, <2>1, <2>2, SaturatedDifference
<1> QED
  BY <1>3, <1>4

\* Whatever the size of a word, every instruction computes the exact result
\* and flags, with all the shortcuts of the emulation: no sequence of them
\* can be told from one that computes on integers.
THEOREM ArithmeticImplementation == DpSpec => ImplementsArithmetic
<1>1. DpInit => Arith!ArithInit
  BY DEF DpInit
<1>2. ASSUME DpTypeOK, [DpNext]_dpVars
      PROVE  [Arith!ArithNext]_(Arith!arithVars)
  <2>1. CASE UNCHANGED dpVars
    BY <2>1 DEF dpVars, Arith!arithVars
  <2>2. CASE DpFetch
    BY <2>2 DEF DpFetch, Arith!Fetch, Arith!ArithNext
  <2>3. ASSUME DpExecute
        PROVE  Arith!Execute
    <3>1. /\ instr # Arith!None /\ instr' = Arith!None
          /\ instr.r \in Word /\ instr.s \in BOOLEAN /\ acc \in Word
          /\ flags \in Arith!Flags
      BY <1>2, <2>3 DEF DpExecute, DpTypeOK, Arith!Instructions, Arith!Unsigned, Word
    <3>2. ASSUME NEW a \in Word, NEW b \in Word, NEW c \in {0, 1}
          PROVE  /\ AddSum(a, b, c) => Arith!Computes((a + b + c) % Size, Arith!Sum(a, b, c))
                 /\ SubtractFrom(a, b, c) =>
                      Arith!Computes((a - b - c) % Size, Arith!Difference(a, b, c))
      <4>1. (a + b + c) % Size \in Word /\ (a - b - c) % Size \in Word
        BY SizePositive DEF Word
      <4>2. ASSUME AddSum(a, b, c)
            PROVE  Arith!Computes((a + b + c) % Size, Arith!Sum(a, b, c))
        <5> DEFINE d == (a + b + c) % Size
        <5>1. NegZero(AddFlags(a, b, d), d) = Arith!Sum(a, b, c)
          BY <4>1, AddFlagsExact
        <5> QED
          BY <4>2, <5>1, Zenon DEF AddSum, WriteDest, Arith!Computes
      <4>3. ASSUME SubtractFrom(a, b, c)
            PROVE  Arith!Computes((a - b - c) % Size, Arith!Difference(a, b, c))
        <5> DEFINE d == (a - b - c) % Size
        <5>1. SubFlags(a, b, d) = Arith!Difference(a, b, c)
          BY <4>1, SubFlagsExact
        <5> QED
          BY <4>3, <5>1, Zenon DEF SubtractFrom, WriteDest, Arith!Computes
      <4> QED
        BY <4>2, <4>3
    <3>3. CFLAG = Arith!Carry /\ 1 - CFLAG = Arith!Borrow /\ CFLAG \in {0, 1}
      BY DEF CFLAG, Arith!Carry, Arith!Borrow
    <3>4. ASSUME NEW a \in Word, NEW b \in Word
          PROVE  /\ AddSum(a, b, 0) => Arith!Computes((a + b) % Size, Arith!Sum(a, b, 0))
                 /\ SubtractFrom(a, b, 0) =>
                      Arith!Computes((a - b) % Size, Arith!Difference(a, b, 0))
                 /\ AddSum(a, b, CFLAG) =>
                      Arith!Computes((a + b + Arith!Carry) % Size, Arith!Sum(a, b, Arith!Carry))
                 /\ SubtractFrom(a, b, 1 - CFLAG) =>
                      Arith!Computes((a - b - Arith!Borrow) % Size,
                                     Arith!Difference(a, b, Arith!Borrow))
      <4>1. a + b + 0 = a + b /\ a - b - 0 = a - b
        BY DEF Word
      <4>2. Arith!Carry \in {0, 1} /\ Arith!Borrow \in {0, 1}
        BY DEF Arith!Carry, Arith!Borrow
      <4> QED
        BY <3>2, <3>3, <4>1, <4>2, Zenon
    <3>5. ASSUME ADD \/ ADC \/ SUB \/ SBC \/ RSB \/ RSC
          PROVE  Arith!Arithmetical(instr.r)
      BY <3>1, <3>4, <3>5, Zenon DEF ADD, ADC, SUB, SBC, RSB, RSC, Arith!Arithmetical
    <3>6. ASSUME CMN \/ CMP
          PROVE  Arith!Arithmetical(instr.r)
      <4>1. (acc + instr.r) % Size \in Word /\ (acc - instr.r) % Size \in Word
        BY <3>1, SizePositive DEF Word
      <4>2. /\ AddFlags(acc, instr.r, (acc + instr.r) % Size) = Arith!Sum(acc, instr.r, 0)
            /\ SubFlags(acc, instr.r, (acc - instr.r) % Size) = Arith!Difference(acc, instr.r, 0)
        <5>1. acc + instr.r + 0 = acc + instr.r /\ acc - instr.r - 0 = acc - instr.r
          BY <3>1 DEF Word
        <5> QED
          BY <3>1, <4>1, <5>1, AddFlagsExact, SubFlagsExact
      <4> QED
        BY <3>6, <4>2, Zenon DEF CMN, CMP, Arith!Compares, Arith!Arithmetical
    <3>7. ASSUME LOGIC \/ TEST
          PROVE  Arith!Logical(instr.r)
      <4>1. NEG(instr.r) = (Arith!Signed(instr.r) < 0)
        BY <3>1, Signs DEF NEG
      <4>2. NZCV(NEG(instr.r), instr.r = 0, instr.c, flags.v) =
              Arith!Result(instr.r, instr.c, flags.v)
        BY <4>1, Zenon DEF NZCV, Arith!Result
      <4> QED
        BY <3>7, <4>2, Zenon DEF LOGIC, TEST, WriteDest, Arith!Computes, Arith!Compares, Arith!Logical
    <3>8. ASSUME QADD \/ QSUB \/ QDADD \/ QDSUB
          PROVE  Arith!Saturating(instr.r)
      <4>1. FALSE = ~Arith!IsSigned(Arith!Signed(instr.r))
        BY <3>1, SizePositive DEF Word, Arith!Signed, Arith!IsSigned
      <4>2. DoubleOverflows \in BOOLEAN
        BY TruthValues DEF DoubleOverflows
      <4> DEFINE a == Arith!Signed(acc)
                 b == Arith!Signed(instr.r)
      <4>3. /\ QSum(instr.r, FALSE) => Arith!Saturates(a + b, b)
            /\ QDifference(instr.r, FALSE) => Arith!Saturates(a - b, b)
        BY <3>1, <4>1, QImplements
      <4>4. LET r == Saturated(DoubleOverflows, op2d)
            IN  /\ QSum(r, DoubleOverflows) => Arith!Saturates(a + Arith!Nearest(2 * b), 2 * b)
                /\ QDifference(r, DoubleOverflows) =>
                     Arith!Saturates(a - Arith!Nearest(2 * b), 2 * b)
        BY <3>1, <4>2, Doubled, QImplements
      <4> QED
        BY <3>8, <4>3, <4>4, Zenon DEF QADD, QSUB, QDADD, QDSUB, Arith!Saturating
    <3> QED
      BY <2>3, <3>1, <3>5, <3>6, <3>7, <3>8, Zenon DEF DpExecute, Arith!Execute
  <2> QED
    BY <1>2, <2>1, <2>2, <2>3 DEF DpNext, Arith!ArithNext
<1> QED
  BY <1>1, <1>2, ArithmeticTyping, PTL DEF DpSpec, ImplementsArithmetic, Arith!ArithSpec

-------------------------------------------------------------------------------
(*****************************************************************************)
(* Multiplications, for half words of any even number of values: the         *)
(* emulation computes what Products promises.                                *)
(*                                                                           *)
(* Two results are the same word, or the same two words, if they differ by   *)
(* a multiple of its size (Apart): sums and products keep that, so the       *)
(* signs that are taken off, put back or extended do not matter.  The long   *)
(* product itself is an equation between integers (MultipliedExact), in      *)
(* which every carry is accounted for.                                       *)
(*****************************************************************************)

\* Two numbers that differ by a multiple of n have the same remainder.
Apart(a, b, n) == \E k \in Int : a = b + k * n

LEMMA Congruence ==
  ASSUME NEW a \in Int, NEW b \in Int, NEW n \in Nat \ {0}
  PROVE  Apart(a, b, n) <=> a % n = b % n
<1> DEFINE d == b \div n
           m == b % n
           e == a \div n
           o == a % n
<1>1. d \in Int /\ m \in 0 .. n-1 /\ b = d * n + m
  BY Numbers!Division
<1>2. e \in Int /\ o \in 0 .. n-1 /\ a = e * n + o
  BY Numbers!Division
<1> HIDE DEF d, m, e, o
<1>3. ASSUME NEW k \in Int, a = b + k * n
      PROVE  o = m
  <2>1. a = (d + k) * n + m
    BY <1>1, <1>3
  <2>2. a % n = m
    BY <1>1, <2>1, Numbers!DivisionIs
  <2> QED
    BY <2>2 DEF o
<1>4. ASSUME o = m
      PROVE  Apart(a, b, n)
  <2>1. a = b + (e - d) * n /\ e - d \in Int
    BY <1>1, <1>2, <1>4
  <2> QED
    BY <2>1, Zenon DEF Apart
<1> QED
  BY <1>3, <1>4 DEF o, m, Apart

LEMMA CongruentProducts ==
  ASSUME NEW a \in Int, NEW b \in Int, NEW c \in Int, NEW d \in Int, NEW n \in Nat \ {0},
         Apart(a, c, n), Apart(b, d, n)
  PROVE  Apart(a * b, c * d, n)
<1>1. PICK k \in Int : a = c + k * n
  BY DEF Apart
<1>2. PICK l \in Int : b = d + l * n
  BY DEF Apart
<1>3. a * b = c * d + (c * l + k * d + k * n * l) * n
  <2>1. a * b = (c + k * n) * (d + l * n)
    BY <1>1, <1>2
  <2>2. (c + k * n) * (d + l * n) = c * d + (c * l + k * d + k * n * l) * n
    OBVIOUS
  <2> QED
    BY <2>1, <2>2
<1>4. c * l + k * d + k * n * l \in Int /\ a * b \in Int /\ c * d \in Int
  OBVIOUS
<1> QED
  BY <1>3, <1>4, Zenon DEF Apart

LEMMA CongruentSums ==
  ASSUME NEW a \in Int, NEW b \in Int, NEW c \in Int, NEW d \in Int, NEW n \in Nat \ {0},
         Apart(a, c, n), Apart(b, d, n)
  PROVE  Apart(a + b, c + d, n)
<1>1. PICK k \in Int : a = c + k * n
  BY DEF Apart
<1>2. PICK l \in Int : b = d + l * n
  BY DEF Apart
<1>3. a + b = (c + d) + (k + l) * n
  BY <1>1, <1>2
<1>4. a + b \in Int /\ c + d \in Int /\ k + l \in Int
  OBVIOUS
<1> QED
  BY <1>3, <1>4, Zenon DEF Apart

LEMMA RemainderCongruent ==
  ASSUME NEW a \in Int, NEW n \in Nat \ {0}
  PROVE  (a % n) % n = a % n
<1>1. a % n \in 0 .. n-1 /\ a % n = 0 * n + (a % n)
  OBVIOUS
<1>2. a % n \in Int /\ 0 \in Int
  OBVIOUS
<1> QED
  BY <1>1, <1>2, Numbers!DivisionIs, Zenon

-----------------------------------------------------------------------------

LEMMA Sizes ==
  /\ HalfWord \in Nat \ {0} /\ Size \in Nat \ {0} /\ HalfWord * HalfWord = Size
  /\ Size * Size \in Nat \ {0}
  /\ HalfWord % 2 = 0 /\ Size = 4 * Quarter /\ Half = 2 * Quarter /\ Quarter \in Nat \ {0}
BY SizePositive, QuarterAssumption, MultiplierAssumption DEF Size, Half

LEMMA HalvesOf ==
  ASSUME NEW w \in Word
  PROVE  /\ Low(w) \in 0 .. HalfWord-1 /\ High(w) \in 0 .. HalfWord-1
         /\ w = High(w) * HalfWord + Low(w)
<1>1. /\ Low(w) \in 0 .. HalfWord-1 /\ High(w) \in Int
      /\ w = High(w) * HalfWord + Low(w)
  BY Sizes, Numbers!Division DEF Low, High, Word
<1> DEFINE h == High(w)
           l == Low(w)
<1> HIDE DEF h, l
<1>2. ~(h >= HalfWord)
  <2>1. ASSUME h >= HalfWord
        PROVE  HalfWord * HalfWord =< h * HalfWord
    BY <1>1, <2>1, Sizes, Numbers!ProductOrder DEF h
  <2> QED
    BY <1>1, <2>1, Sizes DEF h, l, Word
<1>3. ~(h =< -1)
  <2>1. ASSUME h =< -1
        PROVE  h * HalfWord =< (-1) * HalfWord
    BY <1>1, <2>1, Sizes, Numbers!ProductOrder DEF h
  <2> QED
    BY <1>1, <2>1, Sizes DEF h, l, Word
<1> QED
  BY <1>1, <1>2, <1>3, Sizes DEF h

-----------------------------------------------------------------------------

Pair == [lo : Word, hi : Word]
Value(d) == d.hi * Size + d.lo

LEMMA CarryIs ==
  ASSUME NEW a1 \in Word, NEW a2 \in Word
  PROVE  /\ Add32(a1, a2) \in Word /\ Carry32(a1, a2) \in {0, 1}
         /\ a1 + a2 = Carry32(a1, a2) * Size + Add32(a1, a2)
<1>1. /\ Add32(a1, a2) \in Word
      /\ Add32(a1, a2) = IF a1 + a2 < Size THEN a1 + a2 ELSE a1 + a2 - Size
  <2> DEFINE s == a1 + a2
  <2>1. s \in Int /\ -Size =< s /\ s < 2 * Size /\ 0 =< s
    BY SizePositive DEF Word
  <2>2. Add32(a1, a2) = s % Size
    BY DEF Add32
  <2> HIDE DEF s
  <2>3. Add32(a1, a2) \in Word /\ Add32(a1, a2) = IF s < Size THEN s ELSE s - Size
    BY <2>1, <2>2, Wraps, SizePositive
  <2> QED
    BY <2>3, SizePositive DEF s, Word
<1>2. CASE a1 + a2 < Size
  BY <1>1, <1>2, Sizes DEF Carry32, Word
<1>3. CASE a1 + a2 >= Size
  BY <1>1, <1>3, Sizes DEF Carry32, Word
<1> QED
  BY <1>2, <1>3, Sizes DEF Word

LEMMA HalfProduct ==
  ASSUME NEW x \in 0 .. HalfWord-1, NEW y \in 0 .. HalfWord-1
  PROVE  x * y \in Word
<1>1. x * y =< HalfWord * y
  BY Sizes, Numbers!ProductOrder
<1>2. y * HalfWord =< (HalfWord-1) * HalfWord
  BY Sizes, Numbers!ProductOrder
<1>3. 0 * y =< x * y
  BY Sizes, Numbers!ProductOrder
<1>4. (HalfWord-1) * HalfWord = Size - HalfWord
  BY Sizes
<1>5. x * y \in Int /\ y * HalfWord = HalfWord * y /\ y * HalfWord \in Int
  BY Sizes
<1> QED
  BY <1>1, <1>2, <1>3, <1>4, <1>5, Sizes DEF Word

LEMMA ShiftedUp ==
  ASSUME NEW m \in Word
  PROVE  /\ (m * HalfWord) % Size = Low(m) * HalfWord
         /\ Low(m) * HalfWord \in Word
<1>1. /\ Low(m) \in 0 .. HalfWord-1 /\ High(m) \in 0 .. HalfWord-1
      /\ m = High(m) * HalfWord + Low(m)
  BY HalvesOf
<1> DEFINE h == High(m)
           l == Low(m)
<1> HIDE DEF h, l
<1>2. h \in Int /\ l \in 0 .. HalfWord-1 /\ m = h * HalfWord + l
  BY <1>1, Sizes DEF h, l
<1>3. l * HalfWord \in Word
  <2>1. l * HalfWord =< (HalfWord-1) * HalfWord /\ 0 * HalfWord =< l * HalfWord
    BY <1>2, Sizes, Numbers!ProductOrder
  <2>2. l * HalfWord \in Int /\ (HalfWord-1) * HalfWord = Size - HalfWord
    BY <1>2, Sizes
  <2> QED
    BY <2>1, <2>2, Sizes DEF Word
<1>4. m * HalfWord = h * Size + l * HalfWord
  BY <1>2, Sizes
<1>5. (m * HalfWord) % Size = l * HalfWord
  <2> DEFINE mh == m * HalfWord
             lh == l * HalfWord
  <2>1. mh \in Int /\ lh \in 0 .. Size-1 /\ mh = h * Size + lh
    BY <1>3, <1>4, Sizes DEF Word
  <2> HIDE DEF mh, lh
  <2>2. mh % Size = lh
    BY <1>2, <2>1, Sizes, Numbers!DivisionIs
  <2> QED
    BY <2>2 DEF mh, lh
<1> QED
  BY <1>3, <1>5 DEF l

\* A product put together from those of the halves is exact.
LEMMA MultipliedExact ==
  ASSUME NEW rm \in Word, NEW rs \in Word
  PROVE  Multiplied(rm, rs) \in Pair /\ Value(Multiplied(rm, rs)) = rm * rs
<1> DEFINE lo   == Low(rs) * Low(rm)
           mid1 == Low(rs) * High(rm)
           mid2 == High(rs) * Low(rm)
           hi   == High(rs) * High(rm)
           up1  == (mid1 * HalfWord) % Size
           up2  == (mid2 * HalfWord) % Size
           sum  == Add32(lo, up1)
           last == Add32(sum, up2)
           c1   == Carry32(lo, up1)
           c2   == Carry32(sum, up2)
           x    == c1 + c2 + High(mid1) + High(mid2) + hi
<1>1. Multiplied(rm, rs) = [lo |-> last, hi |-> x % Size]
  BY DEF Multiplied
<1>2. /\ Low(rs) \in 0 .. HalfWord-1 /\ High(rs) \in 0 .. HalfWord-1
      /\ Low(rm) \in 0 .. HalfWord-1 /\ High(rm) \in 0 .. HalfWord-1
      /\ rs = High(rs) * HalfWord + Low(rs) /\ rm = High(rm) * HalfWord + Low(rm)
  BY HalvesOf
<1>3. lo \in Word /\ mid1 \in Word /\ mid2 \in Word /\ hi \in Word
  BY <1>2, HalfProduct
<1>4. rm * rs = hi * Size + (mid1 + mid2) * HalfWord + lo
  <2> DEFINE rsl == Low(rs)
             rsh == High(rs)
             rml == Low(rm)
             rmh == High(rm)
  <2> HIDE DEF rsl, rsh, rml, rmh
  <2>1. rsl \in Int /\ rsh \in Int /\ rml \in Int /\ rmh \in Int
    BY <1>2, Sizes DEF rsl, rsh, rml, rmh
  <2>2. rs = rsh * HalfWord + rsl /\ rm = rmh * HalfWord + rml
    BY <1>2 DEF rsl, rsh, rml, rmh
  <2>3. rm * rs = (rsh * rmh) * (HalfWord * HalfWord) + (rsl * rmh + rsh * rml) * HalfWord + rsl * rml
    BY <2>1, <2>2, Sizes
  <2> QED
    BY <2>3, Sizes DEF rsl, rsh, rml, rmh
<1> HIDE DEF lo, mid1, mid2, hi
<1>5. /\ up1 \in Word /\ up1 = Low(mid1) * HalfWord
      /\ up2 \in Word /\ up2 = Low(mid2) * HalfWord
  BY <1>3, ShiftedUp
<1>6. /\ High(mid1) \in 0 .. HalfWord-1 /\ mid1 * HalfWord = High(mid1) * Size + up1
      /\ High(mid2) \in 0 .. HalfWord-1 /\ mid2 * HalfWord = High(mid2) * Size + up2
  <2>1. ASSUME NEW m \in Word, NEW up, up = Low(m) * HalfWord
        PROVE  High(m) \in 0 .. HalfWord-1 /\ m * HalfWord = High(m) * Size + up
    <3>1. /\ Low(m) \in 0 .. HalfWord-1 /\ High(m) \in 0 .. HalfWord-1
          /\ m = High(m) * HalfWord + Low(m)
      BY HalvesOf
    <3> DEFINE h == High(m)
               l == Low(m)
    <3> HIDE DEF h, l
    <3>2. h \in Int /\ l \in Int /\ m = h * HalfWord + l
      BY <3>1, Sizes DEF h, l
    <3>3. m * HalfWord = h * Size + l * HalfWord
      BY <3>2, Sizes
    <3> QED
      BY <2>1, <3>1, <3>3 DEF h, l
  <2> QED
    BY <1>3, <1>5, <2>1
<1> HIDE DEF up1, up2
<1>7. sum \in Word /\ c1 \in {0, 1} /\ lo + up1 = c1 * Size + sum
  BY <1>3, <1>5, CarryIs
<1> HIDE DEF sum, c1
<1>8. last \in Word /\ c2 \in {0, 1} /\ sum + up2 = c2 * Size + last
  BY <1>5, <1>7, CarryIs
<1> HIDE DEF last, c2
<1> DEFINE h1 == High(mid1)
           h2 == High(mid2)
<1> HIDE DEF h1, h2
<1>9. h1 \in 0 .. HalfWord-1 /\ h2 \in 0 .. HalfWord-1 /\ x = c1 + c2 + h1 + h2 + hi
  BY <1>6 DEF h1, h2
<1>10. mid1 * HalfWord = h1 * Size + up1 /\ mid2 * HalfWord = h2 * Size + up2
  BY <1>6 DEF h1, h2
<1> HIDE DEF x
<1>11. x \in Nat /\ x \in Int
  BY <1>3, <1>7, <1>8, <1>9, Sizes DEF Word
<1>12. rm * rs = x * Size + last
  <2>1. (mid1 + mid2) * HalfWord = mid1 * HalfWord + mid2 * HalfWord
    BY <1>3, Sizes DEF Word
  <2>2. x * Size = c1 * Size + c2 * Size + h1 * Size + h2 * Size + hi * Size
    BY <1>3, <1>7, <1>8, <1>9, Sizes DEF Word
  <2> QED
    BY <1>3, <1>4, <1>5, <1>7, <1>8, <1>9, <1>10, <2>1, <2>2, Sizes DEF Word
<1>13. x < Size
  <2>1. rm * rs =< (Size-1) * (Size-1)
    <3>1. rm * rs =< (Size-1) * rs
      BY Sizes, Numbers!ProductOrder DEF Word
    <3>2. rs * (Size-1) =< (Size-1) * (Size-1)
      BY Sizes, Numbers!ProductOrder DEF Word
    <3> QED
      BY <3>1, <3>2, Sizes DEF Word
  <2>2. (Size-1) * (Size-1) < Size * Size
    BY Sizes
  <2>3. ASSUME x >= Size
        PROVE  Size * Size =< x * Size
    BY <1>11, <2>3, Sizes, Numbers!ProductOrder
  <2> QED
    BY <1>8, <1>11, <1>12, <2>1, <2>2, <2>3, Sizes DEF Word
<1>14. x % Size = x
  BY <1>11, <1>13, Sizes
<1>15. x \in Word /\ Multiplied(rm, rs) = [lo |-> last, hi |-> x]
  BY <1>1, <1>11, <1>13, <1>14, Sizes DEF Word
<1> QED
  BY <1>8, <1>12, <1>15 DEF Pair, Value

-----------------------------------------------------------------------------

\* Two words are those of the number they stand for.
LEMMA PairIs ==
  ASSUME NEW d \in Pair
  PROVE  /\ Value(d) \in 0 .. Size * Size - 1
         /\ Value(d) % (Size * Size) = Value(d)
         /\ Value(d) \div Size = d.hi /\ Value(d) % Size = d.lo
<1> DEFINE h == d.hi
           l == d.lo
           v == Value(d)
<1>1. h \in Word /\ l \in Word /\ v = h * Size + l
  BY DEF Pair, Value
<1> HIDE DEF h, l, v
<1>2. h \in Int /\ v \in Int /\ l \in 0 .. Size-1
  BY <1>1, SizePositive DEF Word
<1>3. v \div Size = h /\ v % Size = l
  BY <1>1, <1>2, Sizes, Numbers!DivisionIs
<1>4. h * Size =< (Size-1) * Size /\ 0 * Size =< h * Size
  BY <1>1, <1>2, SizePositive, Numbers!ProductOrder DEF Word
<1>5. v \in 0 .. Size * Size - 1
  <2>1. (Size-1) * Size = Size * Size - Size
    BY SizePositive
  <2> QED
    BY <1>1, <1>2, <1>4, <2>1, Sizes DEF Word
<1>6. v % (Size * Size) = v
  BY <1>5, Sizes
<1> QED
  BY <1>3, <1>5, <1>6 DEF h, l, v

LEMMA NegatedIs ==
  ASSUME NEW d \in Pair
  PROVE  Negated(d) \in Pair /\ Value(Negated(d)) = (-Value(d)) % (Size * Size)
<1> DEFINE h == d.hi
           l == d.lo
           v == Value(d)
           nn == Size * Size
<1>1. h \in Word /\ l \in Word /\ v = h * Size + l
  BY DEF Pair, Value
<1>2. Negated(d) = IF Size-1 - l = Size-1
                   THEN [lo |-> 0, hi |-> (Size-1 - h + 1) % Size]
                   ELSE [lo |-> Size-1 - l + 1, hi |-> Size-1 - h]
  BY DEF Negated
<1>3. nn \in Nat \ {0} /\ nn = Size * Size
  BY Sizes
<1> HIDE DEF h, l, v, nn
<1>4. v \in Int /\ -v \in Int /\ h \in Int /\ l \in Int
  BY <1>1, SizePositive DEF Word
<1>5. CASE l # 0
  <2>1. Negated(d) = [lo |-> Size - l, hi |-> Size-1 - h]
    <3>1. Size-1 - l # Size-1 /\ Size-1 - l + 1 = Size - l
      BY <1>4, <1>5, SizePositive
    <3> QED
      BY <1>2, <3>1
  <2>2. Size - l \in Word /\ Size-1 - h \in Word
    BY <1>1, <1>5, SizePositive DEF Word
  <2>3. Negated(d) \in Pair /\ Value(Negated(d)) = (Size-1 - h) * Size + (Size - l)
    BY <2>1, <2>2 DEF Pair, Value
  <2>4. (Size-1 - h) * Size + (Size - l) = -v + 1 * nn
    BY <1>1, <1>3, <1>4, SizePositive
  <2>5. Apart(Value(Negated(d)), -v, nn) /\ Value(Negated(d)) \in Int
    <3>1. Value(Negated(d)) = -v + 1 * nn /\ 1 \in Int
      BY <2>3, <2>4
    <3>2. -v + 1 * nn \in Int
      BY <1>3, <1>4
    <3> QED
      BY <3>1, <3>2, Zenon DEF Apart
  <2>6. Value(Negated(d)) % nn = (-v) % nn
    BY <1>3, <1>4, <2>5, Congruence
  <2> QED
    BY <1>3, <2>3, <2>6, PairIs DEF v
<1>6. CASE l = 0 /\ h # 0
  <2>1. (Size-1 - h + 1) % Size = Size - h
    <3>1. Size-1 - h + 1 = Size - h /\ Size - h \in 0 .. Size-1
      BY <1>1, <1>6, SizePositive DEF Word
    <3> QED
      BY <3>1, SizePositive
  <2>2. Negated(d) = [lo |-> 0, hi |-> Size - h]
    BY <1>2, <1>6, <2>1, SizePositive
  <2>3. Size - h \in Word /\ 0 \in Word
    BY <1>1, <1>6, SizePositive DEF Word
  <2>4. Negated(d) \in Pair /\ Value(Negated(d)) = (Size - h) * Size + 0
    BY <2>2, <2>3 DEF Pair, Value
  <2>5. (Size - h) * Size + 0 = -v + 1 * nn
    BY <1>1, <1>3, <1>4, <1>6, SizePositive
  <2>6. Apart(Value(Negated(d)), -v, nn) /\ Value(Negated(d)) \in Int
    <3>1. Value(Negated(d)) = -v + 1 * nn /\ 1 \in Int
      BY <2>4, <2>5
    <3>2. -v + 1 * nn \in Int
      BY <1>3, <1>4
    <3> QED
      BY <3>1, <3>2, Zenon DEF Apart
  <2>7. Value(Negated(d)) % nn = (-v) % nn
    BY <1>3, <1>4, <2>6, Congruence
  <2> QED
    BY <1>3, <2>4, <2>7, PairIs DEF v
<1>7. CASE l = 0 /\ h = 0
  <2>1. (Size-1 - h + 1) % Size = 0 /\ Size-1 - l = Size-1
    <3>1. Size-1 - h + 1 = Size /\ Size % Size = 0 /\ Size-1 - l = Size-1
      BY <1>7, SizePositive
    <3> QED
      BY <3>1
  <2>2. Negated(d) = [lo |-> 0, hi |-> 0] /\ 0 \in Word
    BY <1>2, <2>1, SizePositive DEF Word
  <2>3. Negated(d) \in Pair /\ Value(Negated(d)) = 0
    <3>1. 0 * Size + 0 = 0
      BY SizePositive
    <3> QED
      BY <2>2, <3>1 DEF Pair, Value
  <2>4. v = 0 /\ (-v) % nn = 0
    BY <1>1, <1>3, <1>7, SizePositive
  <2> QED
    BY <1>3, <2>3, <2>4 DEF v
<1> QED
  BY <1>5, <1>6, <1>7, <1>3 DEF v

\* An absolute value, and the number it is the absolute value of.
LEMMA MagnitudeIs ==
  ASSUME NEW w \in Word
  PROVE  /\ Magnitude(w) \in Word
         /\ Exact!Signed(w) = IF NEG(w) THEN -Magnitude(w) ELSE Magnitude(w)
         /\ Exact!Signed(w) \in Int /\ Exact!Signed(w) = IF NEG(w) THEN w - Size ELSE w
         /\ NEG(w) = (Exact!Signed(w) < 0)
<1>1. Magnitude(w) = IF NEG(w) THEN Size - w ELSE w
  <2>1. ASSUME NEG(w)
        PROVE  (-w) % Size = Size - w
    <3>1. -w \in Int /\ -Size =< -w /\ -w < 2 * Size /\ -w < 0 /\ -w + Size = Size - w
      BY <2>1, Sizes DEF Word, NEG
    <3> QED
      BY <3>1, Wraps, SizePositive
  <2> QED
    BY <2>1 DEF Magnitude
<1> QED
  BY <1>1, Sizes DEF Word, NEG, Exact!Signed

LEMMA Product64Is ==
  ASSUME mul.rm \in Word, mul.rs \in Word
  PROVE  /\ Product64(FALSE) \in Pair /\ Product64(TRUE) \in Pair
         /\ Value(Product64(FALSE)) = mul.rm * mul.rs
         /\ Value(Product64(TRUE)) % (Size * Size) =
              (Exact!Signed(mul.rm) * Exact!Signed(mul.rs)) % (Size * Size)
<1>1. Product64(FALSE) \in Pair /\ Value(Product64(FALSE)) = mul.rm * mul.rs
  BY MultipliedExact DEF Product64
<1> DEFINE a == Magnitude(mul.rm)
           b == Magnitude(mul.rs)
           d == Multiplied(a, b)
           p == Exact!Signed(mul.rm) * Exact!Signed(mul.rs)
<1>2. a \in Word /\ b \in Word
  BY MagnitudeIs
<1>3. d \in Pair /\ Value(d) = a * b
  BY <1>2, MultipliedExact
<1>4. Product64(TRUE) = IF NEG(mul.rm) # NEG(mul.rs) THEN Negated(d) ELSE d
  BY DEF Product64
<1>5. p = IF NEG(mul.rm) # NEG(mul.rs) THEN -(a * b) ELSE a * b
  <2>1. /\ Exact!Signed(mul.rm) = IF NEG(mul.rm) THEN -a ELSE a
        /\ Exact!Signed(mul.rs) = IF NEG(mul.rs) THEN -b ELSE b
    BY MagnitudeIs
  <2>2. a \in Int /\ b \in Int
    BY <1>2, SizePositive DEF Word
  <2> HIDE DEF a, b
  <2>3. (-a) * b = -(a * b) /\ a * (-b) = -(a * b) /\ (-a) * (-b) = a * b
    BY <2>2
  <2>4. CASE NEG(mul.rm) /\ NEG(mul.rs)
    BY <2>1, <2>3, <2>4 DEF NEG
  <2>5. CASE NEG(mul.rm) /\ ~NEG(mul.rs)
    BY <2>1, <2>3, <2>5 DEF NEG
  <2>6. CASE ~NEG(mul.rm) /\ NEG(mul.rs)
    BY <2>1, <2>3, <2>6 DEF NEG
  <2>7. CASE ~NEG(mul.rm) /\ ~NEG(mul.rs)
    BY <2>1, <2>3, <2>7 DEF NEG
  <2> QED
    BY <2>4, <2>5, <2>6, <2>7
<1> HIDE DEF d, p
<1>6. CASE NEG(mul.rm) # NEG(mul.rs)
  <2>1. /\ Product64(TRUE) \in Pair
        /\ Value(Product64(TRUE)) = p % (Size * Size)
    BY <1>3, <1>4, <1>5, <1>6, NegatedIs
  <2> QED
    BY <1>1, <2>1, PairIs DEF p
<1>7. CASE ~(NEG(mul.rm) # NEG(mul.rs))
  BY <1>1, <1>3, <1>4, <1>5, <1>7 DEF p
<1> QED
  BY <1>6, <1>7

-----------------------------------------------------------------------------

MultFlags == [n : BOOLEAN, z : BOOLEAN, q : BOOLEAN]

MultTypeOK ==
  /\ mul \in Exact!Instructions \union {Exact!Idle}
  /\ rdHi \in Word /\ rdLo \in Word
  /\ multFlags \in MultFlags

\* What an instruction leaves behind.
DestinationOK == rdHi' \in Word /\ rdLo' \in Word /\ multFlags' \in MultFlags

LEMMA FlagsUpdated ==
  ASSUME multFlags \in MultFlags, NEW n \in BOOLEAN, NEW z \in BOOLEAN
  PROVE  /\ [multFlags EXCEPT !.n = n, !.z = z] \in MultFlags
         /\ [multFlags EXCEPT !.q = n] \in MultFlags
         /\ multFlags.q \in BOOLEAN /\ [multFlags EXCEPT !.q = multFlags.q] = multFlags
BY DEF MultFlags

\* The sign and the zeroes of two words.
LEMMA LongSigns ==
  ASSUME NEW d \in Pair
  PROVE  /\ NEG(d.hi) = (2 * Value(d) >= Size * Size)
         /\ (d.hi = 0 /\ High(d.lo) = 0 /\ Low(d.lo) = 0) = (Value(d) = 0)
<1> DEFINE h == d.hi
           l == d.lo
           v == Value(d)
<1>1. h \in Word /\ l \in Word /\ v = h * Size + l
  BY DEF Pair, Value
<1> HIDE DEF h, l, v
<1>2. h \in Int /\ v \in Int /\ l \in Int
  BY <1>1, SizePositive DEF Word
<1>3. Half * Size + Half * Size = Size * Size /\ Half \in Int /\ Half * Size \in Int
  BY Sizes
<1>4. ASSUME NEG(h)
      PROVE  2 * v >= Size * Size
  <2>1. Half * Size =< h * Size
    BY <1>2, <1>4, Sizes, Numbers!ProductOrder DEF NEG
  <2> QED
    BY <1>1, <1>2, <1>3, <1>4, <2>1, Sizes DEF Word, NEG
<1>5. ASSUME ~NEG(h)
      PROVE  2 * v < Size * Size
  <2>1. h * Size =< (Half-1) * Size
    BY <1>2, <1>3, <1>5, Sizes, Numbers!ProductOrder DEF NEG
  <2>2. (Half-1) * Size = Half * Size - Size
    BY <1>3, Sizes
  <2> QED
    BY <1>1, <1>2, <1>3, <1>5, <2>1, <2>2, Sizes DEF Word, NEG
<1>6. NEG(h) = (2 * v >= Size * Size)
  BY <1>2, <1>3, <1>4, <1>5 DEF NEG
<1>7. (High(l) = 0 /\ Low(l) = 0) <=> l = 0
  <2>1. /\ Low(l) \in 0 .. HalfWord-1 /\ High(l) \in 0 .. HalfWord-1
        /\ l = High(l) * HalfWord + Low(l)
    BY <1>1, HalvesOf
  <2>2. High(0) = 0 /\ Low(0) = 0
    BY Sizes DEF High, Low
  <2>3. 0 * HalfWord + 0 = 0
    BY Sizes
  <2> QED
    BY <2>1, <2>2, <2>3
<1>8. v = 0 <=> (h = 0 /\ l = 0)
  <2>1. ASSUME h # 0
        PROVE  1 * Size =< h * Size
    BY <1>1, <1>2, <2>1, SizePositive, Numbers!ProductOrder DEF Word
  <2>2. 0 * Size = 0
    BY SizePositive
  <2> QED
    BY <1>1, <1>2, <2>1, <2>2, SizePositive DEF Word
<1>9. (h = 0 /\ High(l) = 0 /\ Low(l) = 0) = (v = 0)
  BY <1>7, <1>8
<1> QED
  BY <1>6, <1>9 DEF h, l, v

\* Two words that stand for the result of the integers are what is promised.
LEMMA DeliversPair ==
  ASSUME NEW d \in Pair, NEW x \in Int, Value(d) = x % (Size * Size),
         multFlags \in MultFlags, WriteLong(d)
  PROVE  Exact!DeliversLong(x) /\ DestinationOK
<1>1. rdLo' = d.lo /\ rdHi' = d.hi /\ multFlags' = LongFlags(d)
  BY DEF WriteLong
<1>2. d.lo \in Word /\ d.hi \in Word
  BY DEF Pair
<1>3. Exact!DeliversDouble(x)
  BY <1>1, PairIs DEF Exact!DeliversDouble
<1> DEFINE n == NEG(d.hi)
           z == d.hi = 0 /\ High(d.lo) = 0 /\ Low(d.lo) = 0
           y == x % (Size * Size)
<1>4. multFlags' = IF mul.s THEN [multFlags EXCEPT !.n = n, !.z = z] ELSE multFlags
  BY <1>1 DEF LongFlags
<1>5. n = (2 * y >= Size * Size) /\ z = (y = 0)
  BY LongSigns
<1>6. n \in BOOLEAN /\ z \in BOOLEAN
  BY DEF NEG
<1> HIDE DEF n, z
<1>7. multFlags' = IF mul.s THEN [multFlags EXCEPT !.n = 2 * y >= Size * Size, !.z = y = 0]
                   ELSE multFlags
  BY <1>4, <1>5, Zenon
<1>8. multFlags' \in MultFlags
  <2>1. [multFlags EXCEPT !.n = n, !.z = z] \in MultFlags
    BY <1>6, FlagsUpdated, Zenon
  <2> QED
    BY <1>4, <2>1, Zenon
<1> QED
  BY <1>1, <1>2, <1>3, <1>7, <1>8, Zenon DEF Exact!DeliversLong, DestinationOK

LEMMA Accumulated64 ==
  ASSUME rdHi \in Word, rdLo \in Word, NEW p \in Pair
  PROVE  LET d == [lo |-> Add32(rdLo, p.lo),
                   hi |-> (rdHi + p.hi + Carry32(rdLo, p.lo)) % Size]
         IN  d \in Pair /\ Value(d) = (Value(p) + Exact!Double) % (Size * Size)
<1> DEFINE lo == Add32(rdLo, p.lo)
           c  == Carry32(rdLo, p.lo)
           x  == rdHi + p.hi + c
           k  == x \div Size
           m  == x % Size
           d  == [lo |-> lo, hi |-> m]
           nn == Size * Size
           sum == Value(p) + Exact!Double
<1>1. p.lo \in Word /\ p.hi \in Word /\ Value(p) = p.hi * Size + p.lo
  BY DEF Pair, Value
<1>2. lo \in Word /\ c \in {0, 1} /\ rdLo + p.lo = c * Size + lo
  BY <1>1, CarryIs
<1> HIDE DEF lo, c
<1>3. x \in Int
  BY <1>1, <1>2, SizePositive DEF Word
<1>4. k \in Int /\ m \in 0 .. Size-1 /\ x = k * Size + m
  BY <1>3, Sizes, Numbers!Division
<1>5. sum = (rdHi + p.hi) * Size + (rdLo + p.lo) /\ sum \in Int
  <2>1. Exact!Double = rdHi * Size + rdLo
    BY DEF Exact!Double
  <2> QED
    BY <1>1, <2>1, SizePositive DEF Word
<1>6. (rdHi + p.hi) * Size + c * Size = x * Size
  BY <1>1, <1>2, SizePositive DEF Word
<1> HIDE DEF k, m, x, sum
<1>7. m \in Word /\ d \in Pair /\ Value(d) = m * Size + lo
  BY <1>2, <1>4 DEF Word, Pair, Value
<1>8. sum = Value(d) + k * nn
  <2>1. sum = x * Size + lo
    <3> DEFINE a == (rdHi + p.hi) * Size
               e == c * Size
    <3>1. a \in Int /\ e \in Int /\ lo \in Int
      BY <1>1, <1>2, SizePositive DEF Word
    <3>2. sum = a + (e + lo) /\ a + e = x * Size
      BY <1>2, <1>5, <1>6
    <3> HIDE DEF a, e
    <3> QED
      BY <3>1, <3>2
  <2>2. x * Size = k * nn + m * Size
    BY <1>4, SizePositive
  <2>3. sum = k * nn + m * Size + lo
    BY <2>1, <2>2
  <2> HIDE DEF nn, d
  <2>4. k * nn \in Int /\ m * Size \in Int /\ lo \in Int
    BY <1>2, <1>4, Sizes DEF nn, Word
  <2> QED
    BY <1>7, <2>3, <2>4
<1> HIDE DEF d
<1>9. nn \in Nat \ {0} /\ Value(d) \in Int
  <2>1. Value(d) \in 0 .. Size * Size - 1
    BY <1>7, PairIs
  <2> QED
    BY <2>1, Sizes
<1>10. Apart(sum, Value(d), nn)
  BY <1>4, <1>8, Zenon DEF Apart
<1>11. sum % nn = Value(d) % nn
  BY <1>5, <1>9, <1>10, Congruence
<1>12. Value(d) = sum % nn
  BY <1>7, <1>11, PairIs
<1> QED
  BY <1>7, <1>12 DEF d, sum, lo, c, x, m

LEMMA LongProducts ==
  ASSUME MultTypeOK, mul.rm \in Word, mul.rs \in Word, MULL
  PROVE  Exact!Multiply /\ DestinationOK
<1> DEFINE u == mul.rm * mul.rs
           s == Exact!Signed(mul.rm) * Exact!Signed(mul.rs)
           nn == Size * Size
<1>1. /\ rdHi \in Word /\ rdLo \in Word /\ multFlags \in MultFlags
      /\ u \in Int /\ s \in Int /\ Exact!Double \in Int /\ nn \in Nat \ {0}
  <2>1. Exact!Signed(mul.rm) \in Int /\ Exact!Signed(mul.rs) \in Int
    BY MagnitudeIs
  <2> QED
    BY <2>1, Sizes DEF MultTypeOK, Word, Exact!Double
<1>2. /\ Product64(FALSE) \in Pair /\ Value(Product64(FALSE)) % nn = u % nn
      /\ Product64(TRUE) \in Pair /\ Value(Product64(TRUE)) % nn = s % nn
  BY Product64Is
<1>3. ASSUME NEW p \in Pair, NEW x \in Int, Value(p) % nn = x % nn
      PROVE  /\ WriteLong(p) => Exact!DeliversLong(x) /\ DestinationOK
             /\ WriteLong([lo |-> Add32(rdLo, p.lo),
                           hi |-> (rdHi + p.hi + Carry32(rdLo, p.lo)) % Size])
                  => Exact!DeliversLong(x + Exact!Double) /\ DestinationOK
  <2>1. Value(p) = x % nn
    BY <1>3, PairIs
  <2>2. WriteLong(p) => Exact!DeliversLong(x) /\ DestinationOK
    BY <1>1, <2>1, DeliversPair
  <2> DEFINE d == [lo |-> Add32(rdLo, p.lo),
                   hi |-> (rdHi + p.hi + Carry32(rdLo, p.lo)) % Size]
             y == x + Exact!Double
  <2>3. d \in Pair /\ Value(d) = (Value(p) + Exact!Double) % nn
    BY <1>1, Accumulated64
  <2>4. Value(p) \in Int
    <3>1. Value(p) \in 0 .. Size * Size - 1
      BY PairIs
    <3> QED
      BY <3>1, Sizes
  <2>5. (Value(p) + Exact!Double) % nn = y % nn
    <3> DEFINE v == Value(p)
               w == Exact!Double
    <3>1. v \in Int /\ w \in Int /\ nn \in Nat \ {0} /\ v % nn = x % nn
      BY <1>1, <1>3, <2>4
    <3> HIDE DEF v, w, nn
    <3>2. Apart(v, x, nn) /\ Apart(w, w, nn)
      BY <3>1, Congruence
    <3>3. Apart(v + w, x + w, nn)
      BY <3>1, <3>2, CongruentSums
    <3>4. (v + w) % nn = (x + w) % nn
      BY <3>1, <3>3, Congruence
    <3> QED
      BY <3>4 DEF v, w
  <2>6. y \in Int
    BY <1>1
  <2> HIDE DEF d, y
  <2>7. WriteLong(d) => Exact!DeliversLong(y) /\ DestinationOK
    BY <1>1, <2>3, <2>5, <2>6, DeliversPair
  <2> QED
    BY <2>2, <2>7 DEF d, y
<1>4. CASE mul.op = "UMULL" /\ Multiply64(FALSE)
  BY <1>1, <1>2, <1>3, <1>4, Zenon DEF Multiply64, Exact!Multiply
<1>5. CASE mul.op = "SMULL" /\ Multiply64(TRUE)
  BY <1>1, <1>2, <1>3, <1>5, Zenon DEF Multiply64, Exact!Multiply
<1>6. CASE mul.op = "UMLAL" /\ MultiplyAdd64(FALSE)
  BY <1>1, <1>2, <1>3, <1>6, Zenon DEF MultiplyAdd64, Exact!Multiply
<1>7. CASE mul.op = "SMLAL" /\ MultiplyAdd64(TRUE)
  BY <1>1, <1>2, <1>3, <1>7, Zenon DEF MultiplyAdd64, Exact!Multiply
<1> QED
  BY <1>4, <1>5, <1>6, <1>7, Zenon DEF MULL

LEMMA WordProducts ==
  ASSUME MultTypeOK, mul.rm \in Word, mul.rs \in Word, MUL \/ MLA
  PROVE  Exact!Multiply /\ DestinationOK
<1>1. rdHi \in Word /\ rdLo \in Word /\ multFlags \in MultFlags
  BY DEF MultTypeOK
<1>2. ASSUME NEW x \in Int, WriteProduct(x % Size)
      PROVE  Exact!Delivers(x) /\ DestinationOK
  <2> DEFINE d == x % Size
  <2>1. d \in Word
    BY Sizes, Numbers!Division DEF Word
  <2> HIDE DEF d
  <2>2. NEG(d) = (Exact!Signed(d) < 0) /\ (d = 0) \in BOOLEAN
    BY <2>1, MagnitudeIs
  <2>3. /\ rdHi' = d /\ rdLo' = rdLo
        /\ multFlags' = IF mul.s THEN [multFlags EXCEPT !.n = NEG(d), !.z = d = 0]
                        ELSE multFlags
    BY <1>2, Zenon DEF WriteProduct, d
  <2>4. multFlags' = IF mul.s
                     THEN [multFlags EXCEPT !.n = Exact!Signed(d) < 0, !.z = d = 0]
                     ELSE multFlags
    BY <2>2, <2>3, Zenon
  <2>5. [multFlags EXCEPT !.n = NEG(d), !.z = d = 0] \in MultFlags
    <3>1. NEG(d) \in BOOLEAN
      BY DEF NEG
    <3> QED
      BY <1>1, <2>2, <3>1, FlagsUpdated, Zenon
  <2>6. multFlags' \in MultFlags
    BY <1>1, <2>3, <2>5, Zenon
  <2> QED
    BY <1>1, <2>1, <2>3, <2>4, <2>6, Zenon DEF Exact!Delivers, DestinationOK, d
<1>3. mul.rm * mul.rs \in Int /\ mul.rm * mul.rs + rdLo \in Int
  BY <1>1, SizePositive DEF Word
<1> QED
  BY <1>2, <1>3, Zenon DEF MUL, MLA, Exact!Multiply

-----------------------------------------------------------------------------

\* A half of a word, extended by its sign to any size.
LEMMA ExtendedIs ==
  ASSUME NEW w \in Word, NEW u \in BOOLEAN, NEW size \in Nat \ {0}
  PROVE  /\ Exact!SignedHalf(w, u) \in Int
         /\ -HalfWord =< 2 * Exact!SignedHalf(w, u) /\ 2 * Exact!SignedHalf(w, u) < HalfWord
         /\ Extended(w, u, size) \in Int
         /\ Extended(w, u, size) % size = Exact!SignedHalf(w, u) % size
<1> DEFINE h == IF u THEN High(w) ELSE Low(w)
           e == h - HalfWord
<1>1. h \in 0 .. HalfWord-1
  BY HalvesOf
<1>2. Extended(w, u, size) = IF 2 * h >= HalfWord THEN e % size ELSE h
  BY DEF Extended
<1>3. Exact!SignedHalf(w, u) = IF 2 * h >= HalfWord THEN e ELSE h
  BY DEF Exact!SignedHalf, High, Low
<1>4. e \in Int /\ h \in Int /\ e % size \in Int
  BY <1>1, Sizes
<1>5. (e % size) % size = e % size
  BY <1>4, RemainderCongruent
<1> HIDE DEF h
<1> QED
  BY <1>1, <1>2, <1>3, <1>4, <1>5, Sizes

LEMMA ProductBounds ==
  ASSUME NEW a \in Int, NEW b \in Int, NEW m \in Nat, NEW n \in Nat,
         -m =< a, a =< m, -n =< b, b =< n
  PROVE  -(m * n) =< a * b /\ a * b =< m * n
<1>1. a * n =< m * n /\ (-a) * n =< m * n
  BY Numbers!ProductOrder
<1>2. a * n \in Int /\ (-a) * n = -(a * n) /\ a * b \in Int /\ m * n \in Int
  OBVIOUS
<1>3. CASE a >= 0
  <2>1. b * a =< n * a /\ (-n) * a =< b * a
    BY <1>3, Numbers!ProductOrder
  <2>2. b * a = a * b /\ n * a = a * n /\ (-n) * a = -(a * n)
    OBVIOUS
  <2> QED
    BY <1>1, <1>2, <2>1, <2>2
<1>4. CASE a < 0
  <2>1. b * (-a) =< n * (-a) /\ (-n) * (-a) =< b * (-a)
    BY <1>4, Numbers!ProductOrder
  <2>2. b * (-a) = -(a * b) /\ n * (-a) = -(a * n) /\ (-n) * (-a) = a * n
    OBVIOUS
  <2> QED
    BY <1>1, <1>2, <2>1, <2>2
<1> QED
  BY <1>3, <1>4

LEMMA HalfOfHalf ==
  \E k \in Nat \ {0} : HalfWord = 2 * k /\ k * k = Quarter
<1> DEFINE k == HalfWord \div 2
<1>1. k \in Int /\ HalfWord = 2 * k
  BY Sizes
<1> HIDE DEF k
<1>2. k \in Nat \ {0}
  BY <1>1, Sizes
<1>3. (2 * k) * (2 * k) = 4 * (k * k) /\ k * k \in Int
  BY <1>1
<1>4. k * k = Quarter
  BY <1>1, <1>3, Sizes
<1> QED
  BY <1>1, <1>2, <1>4

\* A sum with a number that fits in a word, with the overflow that Q remembers.
LEMMA DeliversAccumulated ==
  ASSUME rdLo \in Word, multFlags \in MultFlags,
         NEW x \in Int, -Half =< x, x < Half
  PROVE  /\ Accumulate(x % Size, FALSE) => Exact!DeliversChecked(x) /\ DestinationOK
         /\ Accumulate(x % Size, TRUE) =>
              Exact!DeliversChecked(x + Exact!Signed(rdLo)) /\ DestinationOK
<1> DEFINE d == x % Size
<1>1. d \in Word /\ d = IF x < 0 THEN x + Size ELSE x
  <2>1. -Size =< x /\ x < Size /\ x < 2 * Size
    BY Sizes
  <2> QED
    BY <2>1, Wraps, SizePositive
<1> HIDE DEF d
<1>2. ASSUME Accumulate(d, FALSE)
      PROVE  Exact!DeliversChecked(x) /\ DestinationOK
  <2>1. rdHi' = d /\ rdLo' = rdLo /\ multFlags' = multFlags
    BY <1>2 DEF Accumulate
  <2>2. (2 * x < -Size) = FALSE /\ (2 * x >= Size) = FALSE
    BY Sizes
  <2>3. multFlags.q = (multFlags.q \/ 2 * x < -Size \/ 2 * x >= Size)
    BY <2>2, FlagsUpdated, Zenon
  <2>4. multFlags' = [multFlags EXCEPT !.q = @ \/ 2 * x < -Size \/ 2 * x >= Size]
    BY <2>1, <2>3, FlagsUpdated, Zenon
  <2> QED
    BY <1>1, <2>1, <2>4, Zenon DEF Exact!DeliversChecked, DestinationOK, d
<1>3. ASSUME Accumulate(d, TRUE)
      PROVE  Exact!DeliversChecked(x + Exact!Signed(rdLo)) /\ DestinationOK
  <2> DEFINE sum == (d + rdLo) % Size
             y   == x + Exact!Signed(rdLo)
             o   == AddOverflow(d, rdLo, sum)
  <2>1. rdHi' = sum /\ rdLo' = rdLo /\ multFlags' = [multFlags EXCEPT !.q = @ \/ o]
    BY <1>3, Zenon DEF Accumulate
  <2>2. sum \in Word /\ sum = IF d + rdLo < Size THEN d + rdLo ELSE d + rdLo - Size
    <3> DEFINE s == d + rdLo
    <3>1. s \in Int /\ -Size =< s /\ s < 2 * Size /\ 0 =< s /\ sum = s % Size
      BY <1>1, SizePositive DEF Word
    <3> HIDE DEF s, sum
    <3>2. sum \in Word /\ sum = IF s < Size THEN s ELSE s - Size
      BY <3>1, Wraps, SizePositive
    <3> QED
      BY <1>1, <3>2, SizePositive DEF s, Word
  <2>3. y = (IF rdLo >= Half THEN x + rdLo - Size ELSE x + rdLo) /\ y \in Int
    BY MagnitudeIs, Sizes DEF NEG, Word
  <2>4. sum = y % Size
    <3>1. sum = IF y < 0 THEN y + Size ELSE IF y < Size THEN y ELSE y - Size
      BY <1>1, <2>2, <2>3, Sizes DEF Word
    <3>2. -Size =< y /\ y < 2 * Size
      BY <2>3, Sizes DEF Word
    <3> HIDE DEF sum, y
    <3> QED
      BY <2>3, <3>1, <3>2, Wraps, SizePositive
  <2>5. o = (2 * y < -Size \/ 2 * y >= Size)
    <3>1. o <=> (2 * y < -Size \/ 2 * y >= Size)
      <4> HIDE DEF sum, y
      <4> QED
        BY <1>1, <2>2, <2>3, Sizes DEF o, Word, AddOverflow, NEG, POS
    <3>2. o \in BOOLEAN
      BY DEF AddOverflow
    <3> HIDE DEF o, y
    <3> QED
      BY <3>1, <3>2, Zenon
  <2>6. multFlags' = [multFlags EXCEPT !.q = @ \/ 2 * y < -Size \/ 2 * y >= Size]
    <3>1. (multFlags.q \/ o) = (multFlags.q \/ 2 * y < -Size \/ 2 * y >= Size)
      BY <2>5, FlagsUpdated, Zenon
    <3> HIDE DEF o, y
    <3> QED
      BY <2>1, <3>1, Zenon
  <2>7. multFlags' \in MultFlags
    <3>1. (multFlags.q \/ o) \in BOOLEAN
      OBVIOUS
    <3> HIDE DEF o
    <3> QED
      BY <2>1, <3>1, FlagsUpdated, Zenon
  <2> HIDE DEF o, y, sum
  <2>8. Exact!DeliversChecked(y)
    BY <2>1, <2>4, <2>6, Zenon DEF Exact!DeliversChecked
  <2> QED
    BY <2>1, <2>2, <2>7, <2>8, Zenon DEF DestinationOK, y
<1> QED
  BY <1>2, <1>3 DEF d

\* The product of two halves, extended by their signs to any size.
LEMMA ExtendedProduct ==
  ASSUME NEW a \in Word, NEW b \in Word, NEW u \in BOOLEAN, NEW v \in BOOLEAN,
         NEW n \in Nat \ {0}
  PROVE  LET x == Exact!SignedHalf(a, u) * Exact!SignedHalf(b, v)
             y == Extended(a, u, n) * Extended(b, v, n)
         IN  /\ x \in Int /\ y \in Int /\ Apart(y, x, n)
             /\ -Half =< x /\ x < Half
<1> DEFINE p == Exact!SignedHalf(a, u)
           q == Exact!SignedHalf(b, v)
           e == Extended(a, u, n)
           f == Extended(b, v, n)
<1>1. /\ p \in Int /\ q \in Int /\ e \in Int /\ f \in Int
      /\ e % n = p % n /\ f % n = q % n
      /\ -HalfWord =< 2 * p /\ 2 * p < HalfWord /\ -HalfWord =< 2 * q /\ 2 * q < HalfWord
  BY ExtendedIs
<1> HIDE DEF p, q, e, f
<1>2. Apart(e, p, n) /\ Apart(f, q, n)
  BY <1>1, Congruence
<1>3. Apart(e * f, p * q, n)
  BY <1>1, <1>2, CongruentProducts
<1>4. PICK k \in Nat \ {0} : HalfWord = 2 * k /\ k * k = Quarter
  BY HalfOfHalf
<1>5. -(k * k) =< p * q /\ p * q =< k * k
  <2>1. -k =< p /\ p =< k /\ -k =< q /\ q =< k /\ k \in Nat
    BY <1>1, <1>4
  <2> QED
    BY <1>1, <2>1, ProductBounds
<1>6. p * q \in Int /\ e * f \in Int
  BY <1>1
<1> DEFINE pq == p * q
<1>7. -Half =< pq /\ pq < Half
  <2>1. -Quarter =< pq /\ pq =< Quarter /\ pq \in Int
    BY <1>4, <1>5, <1>6
  <2> HIDE DEF pq
  <2> QED
    BY <2>1, QuarterAssumption DEF Half
<1> QED
  BY <1>3, <1>6, <1>7 DEF p, q, e, f

LEMMA HalfProducts ==
  ASSUME MultTypeOK, mul.rm \in Word, mul.rs \in Word, mul.x \in BOOLEAN, mul.y \in BOOLEAN,
         SMULxy
  PROVE  Exact!MultiplyHalves /\ DestinationOK
<1> DEFINE x == Exact!SignedHalf(mul.rm, mul.x) * Exact!SignedHalf(mul.rs, mul.y)
           y == Extended(mul.rm, mul.x, Size) * Extended(mul.rs, mul.y, Size)
<1>1. x \in Int /\ y \in Int /\ Apart(y, x, Size) /\ -Half =< x /\ x < Half
  BY Sizes, ExtendedProduct
<1>2. \/ mul.op = "SMULxy" /\ Accumulate(y % Size, FALSE)
      \/ mul.op = "SMLAxy" /\ Accumulate(y % Size, TRUE)
  BY DEF SMULxy
<1>3. (\/ mul.op = "SMULxy" /\ Exact!DeliversChecked(x)
       \/ mul.op = "SMLAxy" /\ Exact!DeliversChecked(x + Exact!Signed(rdLo)))
        => Exact!MultiplyHalves
  BY Zenon DEF Exact!MultiplyHalves
<1> HIDE DEF x, y
<1>4. y % Size = x % Size
  BY <1>1, Sizes, Congruence
<1>5. /\ Accumulate(y % Size, FALSE) => Exact!DeliversChecked(x) /\ DestinationOK
      /\ Accumulate(y % Size, TRUE) =>
           Exact!DeliversChecked(x + Exact!Signed(rdLo)) /\ DestinationOK
  BY <1>1, <1>4, DeliversAccumulated DEF MultTypeOK
<1> QED
  BY <1>2, <1>3, <1>5, Zenon

LEMMA LongSizeIs == LongSize = Size * Size /\ LongSize \in Nat \ {0}
BY Sizes DEF LongSize

\* Cutting off the upper word of a product commutes with dividing it.
LEMMA HighOfLong ==
  ASSUME NEW p \in Int
  PROVE  High(p % LongSize) % Size = (p \div HalfWord) % Size /\ p \div HalfWord \in Int
<1> DEFINE k == p \div LongSize
           r == p % LongSize
           h == r \div HalfWord
           m == r % HalfWord
           t == p \div HalfWord
<1>1. k \in Int /\ r \in 0 .. LongSize-1 /\ p = k * LongSize + r
  BY LongSizeIs, Numbers!Division
<1> HIDE DEF k, r
<1>2. h \in Int /\ m \in 0 .. HalfWord-1 /\ r = h * HalfWord + m
  BY <1>1, LongSizeIs, Sizes, Numbers!Division
<1>3. LongSize = (Size * HalfWord) * HalfWord
  BY LongSizeIs, Sizes
<1> HIDE DEF h, m
<1>4. p = (k * (Size * HalfWord) + h) * HalfWord + m
  <2>1. k * LongSize = (k * (Size * HalfWord)) * HalfWord
    BY <1>1, <1>3, Sizes
  <2>2. k * (Size * HalfWord) \in Int
    BY <1>1, Sizes
  <2> QED
    BY <1>1, <1>2, <2>1, <2>2, Sizes
<1>5. t = k * (Size * HalfWord) + h
  <2> DEFINE q == k * (Size * HalfWord) + h
  <2>1. q \in Int /\ p = q * HalfWord + m
    BY <1>1, <1>2, <1>4, Sizes
  <2> HIDE DEF q
  <2>2. p \div HalfWord = q
    BY <1>2, <2>1, Sizes, Numbers!DivisionIs
  <2> QED
    BY <2>2 DEF q
<1>6. t = h + (k * HalfWord) * Size
  BY <1>1, <1>2, <1>5, Sizes
<1>7. k * HalfWord \in Int /\ t \in Int
  BY <1>1, <1>2, <1>5, Sizes
<1>8. Apart(t, h, Size)
  BY <1>6, <1>7, Zenon DEF Apart
<1>9. t % Size = h % Size
  BY <1>2, <1>7, <1>8, Sizes, Congruence
<1> QED
  BY <1>7, <1>9 DEF High, h, r

LEMMA QuotientBounds ==
  ASSUME NEW p \in Int, NEW m \in Nat, NEW n \in Nat \ {0}, -(m * n) =< p, p =< m * n
  PROVE  -m =< p \div n /\ p \div n =< m
<1> DEFINE q == p \div n
           r == p % n
           mn == m * n
<1>1. q \in Int /\ r \in 0 .. n-1 /\ p = q * n + r
  BY Numbers!Division
<1> HIDE DEF q, r
<1>2. ~(q >= m + 1)
  <2>1. ASSUME q >= m + 1
        PROVE  (m + 1) * n =< q * n
    BY <1>1, <2>1, Numbers!ProductOrder
  <2>2. (m + 1) * n = m * n + n
    OBVIOUS
  <2> QED
    BY <1>1, <2>1, <2>2
<1>3. ~(q =< -m - 1)
  <2>1. ASSUME q =< -m - 1
        PROVE  q * n =< (-m - 1) * n
    BY <1>1, <2>1, Numbers!ProductOrder
  <2>2. (-m - 1) * n = -(m * n) - n
    OBVIOUS
  <2> QED
    BY <1>1, <2>1, <2>2
<1> QED
  BY <1>1, <1>2, <1>3 DEF q

LEMMA WordByHalf ==
  ASSUME NEW a \in Word, NEW b \in Word, NEW v \in BOOLEAN
  PROVE  LET p   == Exact!Signed(a) * Exact!SignedHalf(b, v)
             op1 == IF NEG(a) THEN (a - Size) % LongSize ELSE a
             y   == op1 * Extended(b, v, LongSize)
         IN  /\ p \in Int /\ y \in Int /\ y % LongSize = p % LongSize
             /\ -Half =< p \div HalfWord /\ p \div HalfWord < Half
<1> DEFINE s == Exact!Signed(a)
           q == Exact!SignedHalf(b, v)
           f == Extended(b, v, LongSize)
           o == IF NEG(a) THEN (a - Size) % LongSize ELSE a
<1>1. /\ q \in Int /\ f \in Int /\ f % LongSize = q % LongSize
      /\ -HalfWord =< 2 * q /\ 2 * q < HalfWord
  BY LongSizeIs, ExtendedIs
<1>2. s \in Int /\ s = IF NEG(a) THEN a - Size ELSE a
  BY MagnitudeIs
<1>3. -Half =< s /\ s =< Half
  BY <1>2, Sizes DEF Word, NEG
<1>4. o \in Int /\ o % LongSize = s % LongSize
  <2>1. a \in Int /\ a - Size \in Int
    BY SizePositive DEF Word
  <2>2. (a - Size) % LongSize \in Int /\ ((a - Size) % LongSize) % LongSize = (a - Size) % LongSize
    <3> DEFINE c == a - Size
    <3>1. c \in Int
      BY <2>1
    <3> HIDE DEF c
    <3>2. c % LongSize \in Int /\ (c % LongSize) % LongSize = c % LongSize
      <4>1. c % LongSize \in Int
        BY <3>1, LongSizeIs
      <4> QED
        BY <3>1, <4>1, LongSizeIs, RemainderCongruent, Zenon
    <3> QED
      BY <3>2 DEF c
  <2> QED
    BY <1>2, <2>1, <2>2
<1> HIDE DEF s, q, f, o
<1>5. Apart(o * f, s * q, LongSize)
  <2>1. Apart(o, s, LongSize) /\ Apart(f, q, LongSize)
    BY <1>1, <1>2, <1>4, LongSizeIs, Congruence
  <2> QED
    BY <1>1, <1>2, <1>4, <2>1, LongSizeIs, CongruentProducts
<1>6. PICK k \in Nat \ {0} : HalfWord = 2 * k /\ k * k = Quarter
  BY HalfOfHalf
<1> DEFINE p == s * q
           y == o * f
<1>7. p \in Int /\ y \in Int
  BY <1>1, <1>2, <1>4
<1>8. y % LongSize = p % LongSize
  <2>1. Apart(y, p, LongSize)
    BY <1>5
  <2> HIDE DEF p, y
  <2> QED
    BY <1>7, <2>1, LongSizeIs, Congruence
<1>9. -(Half * k) =< p /\ p =< Half * k
  <2>1. -k =< q /\ q =< k /\ k \in Nat /\ Half \in Nat
    BY <1>1, <1>6, Sizes
  <2> QED
    BY <1>1, <1>2, <1>3, <2>1, ProductBounds
<1>10. Half * k = Quarter * HalfWord
  BY <1>6, Sizes
<1>11. -Quarter =< p \div HalfWord /\ p \div HalfWord =< Quarter
  <2>1. -(Quarter * HalfWord) =< p /\ p =< Quarter * HalfWord
    BY <1>9, <1>10
  <2> HIDE DEF p
  <2> QED
    BY <1>7, <2>1, Sizes, QuotientBounds
<1>12. -Half =< p \div HalfWord /\ p \div HalfWord < Half
  <2> HIDE DEF p
  <2>1. p \div HalfWord \in Int
    BY <1>7, Sizes
  <2> QED
    BY <1>11, <2>1, Sizes
<1> QED
  BY <1>7, <1>8, <1>12 DEF s, q, f, o

LEMMA WordByHalfProducts ==
  ASSUME MultTypeOK, mul.rm \in Word, mul.rs \in Word, mul.y \in BOOLEAN, SMULWy
  PROVE  Exact!MultiplyHalves /\ DestinationOK
<1> DEFINE p   == Exact!Signed(mul.rm) * Exact!SignedHalf(mul.rs, mul.y)
           wy  == p \div HalfWord
           op1 == IF NEG(mul.rm) THEN (mul.rm - Size) % LongSize ELSE mul.rm
           y   == op1 * Extended(mul.rs, mul.y, LongSize)
           d   == High(y % LongSize) % Size
<1>1. /\ p \in Int /\ y \in Int /\ y % LongSize = p % LongSize
      /\ -Half =< wy /\ wy < Half
  BY WordByHalf
<1>2. \/ mul.op = "SMULWy" /\ Accumulate(d, FALSE)
      \/ mul.op = "SMLAWy" /\ Accumulate(d, TRUE)
  BY DEF SMULWy
<1>3. (\/ mul.op = "SMULWy" /\ Exact!DeliversChecked(wy)
       \/ mul.op = "SMLAWy" /\ Exact!DeliversChecked(wy + Exact!Signed(rdLo)))
        => Exact!MultiplyHalves
  BY Zenon DEF Exact!MultiplyHalves
<1>4. d = wy % Size /\ wy \in Int
  <2> HIDE DEF p, y
  <2>1. High(p % LongSize) % Size = wy % Size /\ wy \in Int
    BY <1>1, HighOfLong
  <2> QED
    BY <1>1, <2>1
<1> HIDE DEF d, wy
<1>5. /\ Accumulate(d, FALSE) => Exact!DeliversChecked(wy) /\ DestinationOK
      /\ Accumulate(d, TRUE) =>
           Exact!DeliversChecked(wy + Exact!Signed(rdLo)) /\ DestinationOK
  BY <1>1, <1>4, DeliversAccumulated DEF MultTypeOK
<1> QED
  BY <1>2, <1>3, <1>5, Zenon

LEMMA LongHalfProducts ==
  ASSUME MultTypeOK, mul.rm \in Word, mul.rs \in Word, mul.x \in BOOLEAN, mul.y \in BOOLEAN,
         SMLALxy
  PROVE  Exact!MultiplyHalves /\ DestinationOK
<1> DEFINE x == Exact!SignedHalf(mul.rm, mul.x) * Exact!SignedHalf(mul.rs, mul.y)
           y == Extended(mul.rm, mul.x, LongSize) * Extended(mul.rs, mul.y, LongSize)
           s == rdHi * Size + rdLo + y
           t == x + Exact!Double
           d == s % LongSize
<1>1. x \in Int /\ y \in Int /\ Apart(y, x, LongSize)
  BY LongSizeIs, ExtendedProduct
<1>2. /\ mul.op = "SMLALxy" /\ multFlags' = multFlags
      /\ rdLo' = d % Size /\ rdHi' = d \div Size
  BY DEF SMLALxy
<1>3. mul.op = "SMLALxy" /\ Exact!DeliversDouble(t) /\ UNCHANGED multFlags
        => Exact!MultiplyHalves
  BY Zenon DEF Exact!MultiplyHalves
<1> HIDE DEF x, y
<1>4. Exact!Double \in Int /\ Exact!Double = rdHi * Size + rdLo
  BY SizePositive DEF MultTypeOK, Word, Exact!Double
<1>5. PICK k \in Int : y = x + k * LongSize
  BY <1>1 DEF Apart
<1>6. s = t + k * LongSize /\ s \in Int /\ t \in Int
  BY <1>1, <1>4, <1>5, LongSizeIs
<1> HIDE DEF s, t
<1>7. Apart(s, t, LongSize)
  BY <1>6, Zenon DEF Apart
<1>8. d = t % LongSize /\ d \in 0 .. LongSize-1
  <2>1. s % LongSize = t % LongSize
    BY <1>6, <1>7, LongSizeIs, Congruence
  <2>2. s % LongSize \in 0 .. LongSize-1
    BY <1>6, LongSizeIs
  <2> QED
    BY <2>1, <2>2
<1> HIDE DEF d
<1>9. Exact!DeliversDouble(t)
  BY <1>2, <1>8, LongSizeIs DEF Exact!DeliversDouble
<1>10. d % Size \in Word /\ d \div Size \in Word
  <2> DEFINE h == d \div Size
             l == d % Size
  <2>1. d \in Int
    BY <1>8, LongSizeIs
  <2>2. h \in Int /\ l \in 0 .. Size-1 /\ d = h * Size + l
    BY <2>1, Sizes, Numbers!Division
  <2> HIDE DEF h, l
  <2>3. ~(h >= Size)
    <3>1. ASSUME h >= Size
          PROVE  Size * Size =< h * Size
      BY <2>2, <3>1, Sizes, Numbers!ProductOrder
    <3> QED
      BY <1>8, <2>2, <3>1, LongSizeIs, Sizes
  <2>4. ~(h =< -1)
    <3>1. ASSUME h =< -1
          PROVE  h * Size =< (-1) * Size
      BY <2>2, <3>1, Sizes, Numbers!ProductOrder
    <3> QED
      BY <1>8, <2>2, <3>1, LongSizeIs, Sizes
  <2> QED
    BY <2>2, <2>3, <2>4, Sizes DEF h, l, Word
<1> QED
  BY <1>2, <1>3, <1>9, <1>10, Zenon DEF MultTypeOK, DestinationOK

-----------------------------------------------------------------------------

LEMMA Operations ==
  ASSUME mul \in Exact!Instructions
  PROVE  /\ mul.rm \in Word /\ mul.rs \in Word
         /\ SMULxy \/ SMULWy \/ SMLALxy => mul.x \in BOOLEAN /\ mul.y \in BOOLEAN
<1>1. mul.rm \in Operands /\ mul.rs \in Operands
  BY DEF Exact!Instructions
<1>2. mul.op \in {"SMULxy", "SMLAxy", "SMULWy", "SMLAWy", "SMLALxy"}
        => mul.x \in BOOLEAN /\ mul.y \in BOOLEAN
  BY DEF Exact!Instructions
<1>3. SMULxy \/ SMULWy \/ SMLALxy
        => mul.op \in {"SMULxy", "SMLAxy", "SMULWy", "SMLAWy", "SMLALxy"}
  BY DEF SMULxy, SMULWy, SMLALxy
<1> QED
  BY <1>1, <1>2, <1>3, MultiplierAssumption

LEMMA MultExecuteStep ==
  ASSUME MultTypeOK, MultExecute
  PROVE  Exact!Execute /\ MultTypeOK'
<1>1. mul \in Exact!Instructions /\ mul # Exact!Idle /\ mul' = Exact!Idle
  BY DEF MultTypeOK, MultExecute
<1>2. ASSUME DestinationOK
      PROVE  MultTypeOK'
  BY <1>1, <1>2 DEF DestinationOK, MultTypeOK
<1>3. mul.rm \in Word /\ mul.rs \in Word
  BY <1>1, Operations
<1>4. CASE MUL \/ MLA
  BY <1>1, <1>2, <1>3, <1>4, WordProducts DEF Exact!Execute
<1>5. CASE MULL
  BY <1>1, <1>2, <1>3, <1>5, LongProducts DEF Exact!Execute
<1>6. CASE SMULxy
  BY <1>1, <1>2, <1>3, <1>6, Operations, HalfProducts DEF Exact!Execute
<1>7. CASE SMULWy
  BY <1>1, <1>2, <1>3, <1>7, Operations, WordByHalfProducts DEF Exact!Execute
<1>8. CASE SMLALxy
  BY <1>1, <1>2, <1>3, <1>8, Operations, LongHalfProducts DEF Exact!Execute
<1> QED
  BY <1>4, <1>5, <1>6, <1>7, <1>8 DEF MultExecute

\* Whatever the size of a half word, the products put together from those of
\* halves, with their carries, signs, extensions and flags, are the exact ones.
THEOREM MultiplierImplementation == MultSpec => ImplementsProducts
<1>1. MultInit => MultTypeOK
  BY SizePositive DEF MultInit, Exact!ProdInit, MultTypeOK, MultFlags, Word
<1>2. ASSUME MultTypeOK, [MultNext]_multVars
      PROVE  MultTypeOK' /\ [Exact!ProdNext]_(Exact!prodVars)
  <2>1. CASE UNCHANGED multVars
    BY <1>2, <2>1 DEF multVars, MultTypeOK, Exact!prodVars
  <2>2. CASE MultFetch
    BY <1>2, <2>2 DEF MultFetch, MultTypeOK, Exact!Fetch, Exact!ProdNext
  <2>3. CASE MultExecute
    BY <1>2, <2>3, MultExecuteStep DEF Exact!ProdNext
  <2> QED
    BY <1>2, <2>1, <2>2, <2>3 DEF MultNext
<1>3. MultInit => Exact!ProdInit
  BY DEF MultInit
<1> QED
  BY <1>1, <1>2, <1>3, PTL DEF MultSpec, ImplementsProducts, Exact!ProdSpec

-------------------------------------------------------------------------------
(*****************************************************************************)
(* The shifted operands, for words of any even number of bits.               *)
(*                                                                           *)
(* AtOnce is what C computes with powers of two: one more bit is what the    *)
(* instruction set does to it (AtOnceSteps), so it is also what shifting bit *)
(* by bit leaves (ShiftedIs).  The rest matches the code's cases with it.    *)
(*****************************************************************************)

Operand == 0 .. Values-1

LEMMA BitsType ==
  /\ Bits \in Nat \ {0} /\ Bits-1 \in Nat
  /\ Values \in Nat \ {0} /\ Values = 2 * 2 ^ (Bits-1) /\ 2 ^ (Bits-1) \in Nat \ {0}
  /\ Barrel!Size = Values /\ Values \div 2 = 2 ^ (Bits-1) /\ Values = 2 ^ Bits
<1>1. Bits \in Nat \ {0} /\ Bits-1 \in Nat /\ (Bits-1) + 1 = Bits
  BY ShifterAssumption
<1>2. 2 ^ Bits = 2 * 2 ^ (Bits-1) /\ 2 ^ (Bits-1) \in Nat \ {0} /\ 2 ^ Bits \in Nat \ {0}
  BY <1>1, Numbers!PowerOfTwo
<1>3. Values = 2 ^ Bits /\ Barrel!Size = 2 ^ Bits
  BY DEF Values, Barrel!Size
<1>4. (2 * 2 ^ (Bits-1)) \div 2 = 2 ^ (Bits-1)
  BY <1>2
<1> QED
  BY <1>1, <1>2, <1>3, <1>4

LEMMA PowerSteps ==
  ASSUME NEW n \in Nat
  PROVE  /\ 2 ^ n \in Nat \ {0} /\ 2 ^ (n + 1) \in Nat \ {0}
         /\ 2 ^ (n + 1) = 2 * 2 ^ n /\ 2 ^ (n + 1) = 2 ^ n * 2
         /\ n =< Bits => 2 ^ n * 2 ^ (Bits - n) = Values /\ 2 ^ (Bits - n) \in Nat \ {0}
         /\ n >= Bits => 2 ^ n = 2 ^ (n - Bits) * Values /\ 2 ^ (n - Bits) \in Nat \ {0}
<1>1. 2 ^ n \in Nat \ {0} /\ 2 ^ (n + 1) \in Nat \ {0} /\ 2 ^ (n + 1) = 2 * 2 ^ n
  BY Numbers!PowerOfTwo
<1>2. ASSUME n =< Bits
      PROVE  2 ^ n * 2 ^ (Bits - n) = Values /\ 2 ^ (Bits - n) \in Nat \ {0}
  <2>1. Bits - n \in Nat /\ n + (Bits - n) = Bits
    BY <1>2, BitsType
  <2>2. 2 ^ (n + (Bits - n)) = 2 ^ n * 2 ^ (Bits - n)
    BY <2>1, Numbers!PowersAdd
  <2> QED
    BY <2>1, <2>2, BitsType, Numbers!PowerOfTwo
<1>3. ASSUME n >= Bits
      PROVE  2 ^ n = 2 ^ (n - Bits) * Values /\ 2 ^ (n - Bits) \in Nat \ {0}
  <2>1. n - Bits \in Nat /\ (n - Bits) + Bits = n /\ Bits \in Nat
    BY <1>3, BitsType
  <2>2. 2 ^ ((n - Bits) + Bits) = 2 ^ (n - Bits) * 2 ^ Bits
    BY <2>1, Numbers!PowersAdd
  <2> QED
    BY <2>1, <2>2, BitsType, Numbers!PowerOfTwo
<1>4. 2 * 2 ^ n = 2 ^ n * 2
  BY <1>1
<1> QED
  BY <1>1, <1>2, <1>3, <1>4

-----------------------------------------------------------------------------

\* To the right.
LEMMA RightSteps ==
  ASSUME NEW w \in Int, NEW n \in Nat
  PROVE  /\ w \div 2 ^ n \in Int
         /\ (w \div 2 ^ n) \div 2 = w \div 2 ^ (n + 1)
<1> DEFINE p == 2 ^ n
<1>1. p \in Nat \ {0} /\ 2 ^ (n + 1) = p * 2
  BY PowerSteps
<1> HIDE DEF p
<1>2. (w \div p) \div 2 = w \div (p * 2)
  <2>1. 2 \in Nat \ {0}
    OBVIOUS
  <2> QED
    BY <1>1, <2>1, Numbers!DivisionTwice, Zenon
<1>3. w \div p \in Int
  BY <1>1
<1> QED
  BY <1>1, <1>2, <1>3 DEF p

LEMMA QuotientRange ==
  ASSUME NEW w \in Int, NEW a \in Int, NEW b \in Int, NEW n \in Nat \ {0},
         a * n =< w, w < b * n
  PROVE  a =< w \div n /\ w \div n < b
<1> DEFINE q == w \div n
           r == w % n
<1>1. q \in Int /\ r \in 0 .. n-1 /\ w = q * n + r
  BY Numbers!Division
<1> HIDE DEF q, r
<1>2. ~(q >= b)
  <2>1. ASSUME q >= b
        PROVE  b * n =< q * n
    BY <1>1, <2>1, Numbers!ProductOrder
  <2> QED
    BY <1>1, <2>1
<1>3. ~(q =< a - 1)
  <2>1. ASSUME q =< a - 1
        PROVE  q * n =< (a - 1) * n
    BY <1>1, <2>1, Numbers!ProductOrder
  <2>2. (a - 1) * n = a * n - n
    OBVIOUS
  <2> QED
    BY <1>1, <2>1, <2>2
<1> QED
  BY <1>1, <1>2, <1>3 DEF q

LEMMA RightByIs ==
  ASSUME NEW w \in Operand, NEW n \in Nat
  PROVE  /\ RightBy(w, n) \in Operand
         /\ RightBy(w, n) \div 2 = RightBy(w, n + 1)
         /\ RightBy(w, n) % 2 = Bit(w, n) /\ Bit(w, n) \in {0, 1}
         /\ n >= Bits => RightBy(w, n) = 0 /\ Bit(w, n) = 0
<1> DEFINE p == 2 ^ n
<1>1. p \in Nat \ {0} /\ w \in Int /\ 0 =< w /\ w < Values /\ Values \in Nat
  BY BitsType, PowerSteps DEF Operand
<1>2. (w \div p) \div 2 = w \div 2 ^ (n + 1)
  BY <1>1, RightSteps
<1>3. n >= Bits => Values =< p
  <2>1. SUFFICES ASSUME n >= Bits
                 PROVE  Values =< p
    OBVIOUS
  <2> DEFINE e == 2 ^ (n - Bits)
  <2>2. p = e * Values /\ e \in Nat \ {0}
    BY <2>1, PowerSteps
  <2> HIDE DEF e, p
  <2>3. 1 * Values =< e * Values
    BY <1>1, <2>2, Numbers!ProductOrder
  <2> QED
    BY <1>1, <2>2, <2>3
<1> DEFINE q == w \div p
<1>4. q \in Int /\ 0 =< q /\ q < Values /\ (w < p => q = 0)
  <2> HIDE DEF p
  <2>1. (0 * p =< w /\ w < 1 * p) \/ w >= p
    BY <1>1
  <2>2. Values * 1 =< Values * p /\ p * Values = Values * p
    <3>1. 1 * Values =< p * Values
      BY <1>1, Numbers!ProductOrder
    <3> QED
      BY <1>1, <3>1
  <2>3. 0 * p =< w /\ w < Values * p
    BY <1>1, <2>2
  <2>4. 0 =< q /\ q < Values
    BY <1>1, <2>3, QuotientRange
  <2>5. w < p => q = 0
    BY <1>1
  <2> QED
    BY <1>1, <2>4, <2>5
<1>5. q % 2 \in {0, 1}
  <2> HIDE DEF q
  <2> QED
    BY <1>4
<1> QED
  BY <1>1, <1>2, <1>3, <1>4, <1>5 DEF RightBy, Bit, Operand

\* The highest bit is the sign.
LEMMA TopIs ==
  ASSUME NEW w \in Operand
  PROVE  /\ Barrel!Top(w) = SignOf(w) /\ SignOf(w) = Bit(w, Bits-1)
         /\ Barrel!Top(w) = IF w >= 2 ^ (Bits-1) THEN 1 ELSE 0
<1> DEFINE h == 2 ^ (Bits-1)
<1>1. h \in Nat \ {0} /\ Values = 2 * h /\ Barrel!Size \div 2 = h /\ w \in 0 .. Values-1
  BY BitsType DEF Operand
<1>2. Bit(w, Bits-1) = (w \div h) % 2 /\ Barrel!Top(w) = w \div h
  BY <1>1 DEF Bit, RightBy, Barrel!Top
<1> HIDE DEF h
<1>3. w \div h = IF w >= h THEN 1 ELSE 0
  <2>1. CASE w >= h
    <3> DEFINE r == w - h
    <3>1. r \in 0 .. h-1 /\ w \in Int /\ w = h + r
      BY <1>1, <2>1
    <3> HIDE DEF r
    <3>2. ASSUME NEW k \in Int, k = 1
          PROVE  w \div h = k
      <4>1. w = k * h + r
        BY <1>1, <3>1, <3>2
      <4> QED
        BY <1>1, <3>1, <4>1, Numbers!DivisionIs
    <3> QED
      BY <2>1, <3>2
  <2>2. CASE w < h
    BY <1>1, <2>2
  <2> QED
    BY <1>1, <2>1, <2>2
<1> QED
  BY <1>2, <1>3 DEF SignOf, h

-----------------------------------------------------------------------------

\* To the left.
LEMMA LeftBits ==
  ASSUME NEW w \in Operand, NEW n \in Nat
  PROVE  /\ LeftBy(w, n) \in Operand
         /\ (2 * LeftBy(w, n)) % Values = LeftBy(w, n + 1)
<1> DEFINE p == 2 ^ n
           x == w * p
<1>1. p \in Nat \ {0} /\ 2 ^ (n + 1) = 2 * p /\ w \in Int /\ Values \in Nat \ {0}
  BY BitsType, PowerSteps DEF Operand
<1>2. x \in Int /\ LeftBy(w, n) = x % Values
  BY <1>1 DEF LeftBy
<1>3. w * (2 * p) = 2 * x
  BY <1>1
<1> HIDE DEF x
<1>4. x % Values \in 0 .. Values-1 /\ x = (x \div Values) * Values + (x % Values)
      /\ x \div Values \in Int
  BY <1>1, <1>2, Numbers!Division
<1> DEFINE k == x \div Values
           y == x % Values
<1>5. k \in Int /\ y \in Int /\ x = k * Values + y
  BY <1>4
<1> HIDE DEF k, y
<1>6. 2 * x = 2 * y + (2 * k) * Values /\ 2 * k \in Int /\ 2 * x \in Int /\ 2 * y \in Int
  BY <1>1, <1>5
<1>7. Apart(2 * x, 2 * y, Values)
  BY <1>6, Zenon DEF Apart
<1>8. (2 * x) % Values = (2 * y) % Values
  BY <1>1, <1>6, <1>7, Congruence
<1>9. LeftBy(w, n + 1) = (2 * x) % Values
  BY <1>1, <1>3 DEF LeftBy
<1> QED
  BY <1>2, <1>4, <1>8, <1>9 DEF y, Operand

LEMMA LeftOut ==
  ASSUME NEW w \in Operand, NEW n \in Nat
  PROVE  Barrel!Top(LeftBy(w, n)) = IF n < Bits THEN Bit(w, Bits-1 - n) ELSE 0
<1> DEFINE p == 2 ^ n
           h == 2 ^ (Bits-1)
<1>1. /\ p \in Nat \ {0} /\ h \in Nat \ {0} /\ Values = 2 * h /\ Values \in Nat \ {0}
      /\ w \in Int /\ 0 =< w /\ w < Values
  BY BitsType, PowerSteps DEF Operand
<1>2. CASE n < Bits
  <2> DEFINE j == Bits-1 - n
             e == 2 ^ j
             q == w \div e
             r == w % e
             b == q % 2
             q2 == q \div 2
             t == r * p
  <2>1. j \in Nat /\ e \in Nat \ {0} /\ e * p = h
    <3>1. j \in Nat /\ j + n = Bits-1
      BY <1>2, BitsType
    <3> HIDE DEF j
    <3>2. 2 ^ (j + n) = 2 ^ j * 2 ^ n /\ 2 ^ j \in Nat \ {0}
      BY <3>1, Numbers!PowersAdd, PowerSteps
    <3> QED
      BY <3>1, <3>2
  <2>2. Bit(w, Bits-1 - n) = b
    BY DEF Bit, RightBy
  <2> HIDE DEF e, j, p, h
  <2>3. q \in Int /\ r \in 0 .. e-1 /\ w = q * e + r
    BY <1>1, <2>1, Numbers!Division
  <2> HIDE DEF q, r
  <2>4. q2 \in Int /\ b \in {0, 1} /\ q = 2 * q2 + b
    BY <2>3
  <2> HIDE DEF q2, b
  <2>5. t \in Int /\ 0 =< t /\ t < h
    <3>1. r * p =< (e-1) * p /\ 0 * p =< r * p
      BY <1>1, <2>1, <2>3, Numbers!ProductOrder
    <3>2. (e-1) * p = e * p - p /\ r * p \in Int
      BY <1>1, <2>1, <2>3
    <3> QED
      BY <1>1, <2>1, <3>1, <3>2
  <2>6. w * p = q2 * Values + (b * h + t)
    <3>1. w * p = (q * e) * p + t
      BY <1>1, <2>1, <2>3
    <3>2. (q * e) * p = q * h
      BY <1>1, <2>1, <2>3
    <3>3. q * h = q2 * Values + b * h
      BY <1>1, <2>4
    <3>4. q * h \in Int /\ q2 * Values \in Int /\ b * h \in Int
      BY <1>1, <2>3, <2>4
    <3> QED
      BY <2>5, <3>1, <3>2, <3>3, <3>4
  <2> HIDE DEF t
  <2>7. b * h + t \in 0 .. Values-1 /\ b * h + t \in Int
    BY <1>1, <2>4, <2>5
  <2>8. LeftBy(w, n) = b * h + t
    <3> DEFINE x == w * p
               y == b * h + t
    <3>1. x \in Int /\ y \in 0 .. Values-1 /\ x = q2 * Values + y /\ LeftBy(w, n) = x % Values
      BY <1>1, <2>6, <2>7 DEF LeftBy, p
    <3> HIDE DEF x, y
    <3>2. x % Values = y
      BY <1>1, <2>4, <3>1, Numbers!DivisionIs
    <3> QED
      BY <3>1, <3>2 DEF y
  <2>9. (b * h + t) \div h = b
    <3> DEFINE y == b * h + t
    <3>1. y \in Int /\ y = b * h + t /\ t \in 0 .. h-1 /\ b \in Int
      BY <1>1, <2>4, <2>5, <2>7
    <3> HIDE DEF y
    <3>2. y \div h = b
      BY <1>1, <3>1, Numbers!DivisionIs
    <3> QED
      BY <3>2 DEF y
  <2>10. Barrel!Size \div 2 = h
    BY BitsType DEF h
  <2> QED
    BY <1>2, <2>2, <2>8, <2>9, <2>10 DEF Barrel!Top
<1>3. CASE n >= Bits
  <2> DEFINE e == 2 ^ (n - Bits)
  <2>1. p = e * Values /\ e \in Nat \ {0}
    BY <1>3, PowerSteps
  <2>2. w * p = (w * e) * Values + 0 /\ w * e \in Int /\ w * p \in Int
    <3> HIDE DEF e, p
    <3> QED
      BY <1>1, <2>1
  <2>3. LeftBy(w, n) = 0
    <3> DEFINE x == w * p
               k == w * e
    <3>1. x \in Int /\ k \in Int /\ x = k * Values + 0 /\ 0 \in 0 .. Values-1
          /\ LeftBy(w, n) = x % Values
      BY <1>1, <2>2 DEF LeftBy
    <3> HIDE DEF x, k
    <3>2. x % Values = 0
      BY <1>1, <3>1, Numbers!DivisionIs
    <3> QED
      BY <3>1, <3>2
  <2>4. 0 \div h = 0 /\ Barrel!Size \div 2 = h
    BY <1>1, BitsType
  <2>5. ~(n < Bits)
    BY <1>3, BitsType
  <2> QED
    BY <2>3, <2>4, <2>5 DEF Barrel!Top
<1> QED
  BY <1>2, <1>3, BitsType

-----------------------------------------------------------------------------

\* To the right, with copies of the sign.
Valued(w) == IF SignOf(w) = 1 THEN w - Values ELSE w

LEMMA ValuedIs ==
  ASSUME NEW w \in Operand
  PROVE  /\ Valued(w) \in Int /\ -(2 ^ (Bits-1)) =< Valued(w) /\ Valued(w) < 2 ^ (Bits-1)
         /\ SignOf(w) = IF Valued(w) < 0 THEN 1 ELSE 0
<1>1. SignOf(w) = IF w >= 2 ^ (Bits-1) THEN 1 ELSE 0
  BY TopIs
<1> QED
  BY <1>1, BitsType DEF Valued, Operand

LEMMA SignedRange ==
  ASSUME NEW w \in Operand, NEW n \in Nat
  PROVE  LET u == Valued(w) \div 2 ^ n
         IN  /\ u \in Int /\ -(2 ^ (Bits-1)) =< u /\ u < 2 ^ (Bits-1)
             /\ n >= Bits-1 => u = IF Valued(w) < 0 THEN -1 ELSE 0
<1> DEFINE v == Valued(w)
           p == 2 ^ n
           h == 2 ^ (Bits-1)
           u == v \div p
<1>1. /\ v \in Int /\ -h =< v /\ v < h /\ p \in Nat \ {0} /\ h \in Nat \ {0}
  BY ValuedIs, BitsType, PowerSteps
<1>2. n >= Bits-1 => h =< p
  <2>1. SUFFICES ASSUME n >= Bits-1
                 PROVE  h =< p
    OBVIOUS
  <2> DEFINE j == n - (Bits-1)
  <2>2. j \in Nat /\ j + (Bits-1) = n /\ Bits-1 \in Nat
    BY <2>1, BitsType
  <2> HIDE DEF j
  <2>3. p = 2 ^ j * h /\ 2 ^ j \in Nat \ {0}
    BY <2>2, Numbers!PowersAdd, PowerSteps
  <2> DEFINE e == 2 ^ j
  <2>4. e \in Nat \ {0} /\ p = e * h
    BY <2>3
  <2> HIDE DEF e, p, h
  <2>5. 1 * h =< e * h
    BY <1>1, <2>4, Numbers!ProductOrder
  <2> QED
    BY <1>1, <2>4, <2>5
<1> HIDE DEF v, p, h
<1>3. u \in Int
  BY <1>1
<1>4. -h =< u /\ u < h
  <2>1. 1 * h =< p * h
    BY <1>1, Numbers!ProductOrder
  <2>2. (-h) * p =< v /\ v < h * p
    <3>1. p * h = h * p /\ (-h) * p = -(h * p) /\ h * p \in Int /\ 1 * h = h
      BY <1>1
    <3> QED
      BY <1>1, <2>1, <3>1
  <2> QED
    BY <1>1, <2>2, QuotientRange
<1>5. ASSUME n >= Bits-1
      PROVE  u = IF v < 0 THEN -1 ELSE 0
  <2>1. ASSUME NEW a \in Int, NEW b \in Int, a * p =< v, v < b * p
        PROVE  a =< u /\ u < b
    BY <1>1, <2>1, QuotientRange
  <2>2. (-1) * p =< v /\ 0 * p = 0 /\ v < 1 * p
    BY <1>1, <1>2, <1>5
  <2>3. CASE v < 0
    <3>1. v < 0 * p
      BY <2>2, <2>3
    <3>2. -1 =< u /\ u < 0
      BY <2>1, <2>2, <3>1
    <3> HIDE DEF u
    <3> QED
      BY <1>1, <1>3, <2>3, <3>2
  <2>4. CASE v >= 0
    <3>1. 0 * p =< v
      BY <2>2, <2>4
    <3>2. 0 =< u /\ u < 1
      BY <2>1, <2>2, <3>1
    <3> HIDE DEF u
    <3> QED
      BY <1>1, <1>3, <2>4, <3>2
  <2> QED
    BY <1>1, <2>3, <2>4
<1> QED
  BY <1>3, <1>4, <1>5 DEF v, p, h

LEMMA SignedRightIs ==
  ASSUME NEW w \in Operand, NEW n \in Nat
  PROVE  LET x == SignedRightBy(w, n)
         IN  /\ x \in Operand
             /\ x \div 2 + Barrel!Top(x) * (Barrel!Size \div 2) = SignedRightBy(w, n + 1)
             /\ x % 2 = IF n < Bits THEN Bit(w, n) ELSE SignOf(w)
             /\ n >= Bits-1 => x = SignedRightBy(w, Bits-1)
<1> DEFINE v == Valued(w)
           h == 2 ^ (Bits-1)
           x == SignedRightBy(w, n)
           u == v \div 2 ^ n
           y == v \div 2 ^ (n + 1)
<1>1. h \in Nat \ {0} /\ Values = 2 * h /\ Barrel!Size \div 2 = h /\ Values \in Nat \ {0}
  BY BitsType
<1>2. u \in Int /\ -h =< u /\ u < h
  BY SignedRange
<1>3. y \in Int /\ -h =< y /\ y < h
  BY SignedRange
<1>4. u \div 2 = y
  BY RightSteps, ValuedIs
<1>5. x = u % Values /\ SignedRightBy(w, n + 1) = y % Values
  BY DEF SignedRightBy, Valued
<1>6. n >= Bits-1 => x = SignedRightBy(w, Bits-1)
  <2>1. Bits-1 \in Nat /\ Bits-1 >= Bits-1
    BY BitsType
  <2>2. v \div 2 ^ (Bits-1) = IF v < 0 THEN -1 ELSE 0
    BY <2>1, SignedRange
  <2>3. n >= Bits-1 => u = IF v < 0 THEN -1 ELSE 0
    BY SignedRange
  <2>4. SignedRightBy(w, Bits-1) = (v \div 2 ^ (Bits-1)) % Values
    BY DEF SignedRightBy, Valued
  <2> QED
    BY <1>5, <2>2, <2>3, <2>4
<1>7. u % 2 = IF n < Bits THEN Bit(w, n) ELSE SignOf(w)
  <2>1. CASE n < Bits
    <3>1. CASE SignOf(w) # 1
      BY <2>1, <3>1 DEF Valued, Bit, RightBy
    <3>2. CASE SignOf(w) = 1
      <4> DEFINE p == 2 ^ n
                 j == Bits-1 - n
                 e == 2 ^ j
                 d == w \div p
                 r == w % p
      <4>1. p \in Nat \ {0} /\ e \in Nat \ {0} /\ Values = (2 * e) * p
        <5>1. j \in Nat /\ j + n = Bits-1
          BY <2>1, BitsType
        <5> HIDE DEF j
        <5>2. 2 ^ (j + n) = e * p /\ e \in Nat \ {0} /\ p \in Nat \ {0}
          BY <5>1, Numbers!PowersAdd, PowerSteps
        <5> QED
          BY <1>1, <5>1, <5>2
      <4>2. w \in Int
        BY BitsType DEF Operand
      <4> HIDE DEF p, e
      <4>3. d \in Int /\ r \in 0 .. p-1 /\ w = d * p + r
        BY <4>1, <4>2, Numbers!Division
      <4>4. Bit(w, n) = d % 2 /\ u = (w - Values) \div p
        BY <3>2 DEF Bit, RightBy, Valued, p
      <4> HIDE DEF d, r
      <4>5. u = d - 2 * e
        <5> DEFINE a == w - Values
                   q == d - 2 * e
        <5>1. a \in Int /\ q \in Int /\ a = q * p + r
          BY <1>1, <4>1, <4>2, <4>3
        <5> HIDE DEF a, q
        <5>2. a \div p = q
          BY <4>1, <4>3, <5>1, Numbers!DivisionIs
        <5> QED
          BY <4>4, <5>2 DEF a, q
      <4>6. u % 2 = d % 2
        <5> HIDE DEF u
        <5> QED
          BY <4>1, <4>3, <4>5
      <4> QED
        BY <2>1, <4>4, <4>6
    <3> QED
      BY <3>1, <3>2
  <2>2. CASE n >= Bits
    <3>1. u = IF v < 0 THEN -1 ELSE 0
      BY <2>2, BitsType, SignedRange
    <3>2. SignOf(w) = IF v < 0 THEN 1 ELSE 0
      BY ValuedIs
    <3>3. ~(n < Bits)
      BY <2>2, BitsType
    <3> HIDE DEF u, v
    <3> QED
      BY <3>1, <3>2, <3>3
  <2> QED
    BY <2>1, <2>2, BitsType
<1> HIDE DEF u, y, v, h
<1>8. x = IF u < 0 THEN u + Values ELSE u
  BY <1>1, <1>2, <1>5
<1>9. x \in Operand
  BY <1>1, <1>2, <1>8 DEF Operand
<1>10. Barrel!Top(x) = IF u < 0 THEN 1 ELSE 0
  <2>1. Barrel!Top(x) = IF x >= h THEN 1 ELSE 0
    BY <1>9, TopIs DEF h
  <2> HIDE DEF x
  <2> QED
    BY <1>1, <1>2, <1>8, <2>1
<1>11. x \div 2 + Barrel!Top(x) * (Barrel!Size \div 2) = y % Values
  <2>1. y % Values = IF y < 0 THEN y + Values ELSE y
    BY <1>1, <1>3
  <2>2. u = 2 * y \/ u = 2 * y + 1
    BY <1>2, <1>3, <1>4
  <2> HIDE DEF x
  <2>3. CASE u < 0
    <3>1. y < 0 /\ (x = 2 * (y + h) \/ x = 2 * (y + h) + 1)
      BY <1>1, <1>2, <1>3, <1>8, <2>2, <2>3
    <3>2. x \div 2 = y + h
      BY <1>1, <1>3, <3>1
    <3> QED
      BY <1>1, <1>3, <1>10, <2>1, <2>3, <3>1, <3>2
  <2>4. CASE u >= 0
    <3>1. y >= 0 /\ x = u
      BY <1>1, <1>2, <1>3, <1>8, <2>2, <2>4
    <3> QED
      BY <1>1, <1>2, <1>3, <1>4, <1>10, <2>1, <2>4, <3>1
  <2> QED
    BY <1>2, <2>3, <2>4
<1>12. x % 2 = u % 2
  <2> HIDE DEF x
  <2> QED
    BY <1>1, <1>2, <1>8
<1> QED
  BY <1>5, <1>6, <1>7, <1>9, <1>11, <1>12

-----------------------------------------------------------------------------

\* Around.
LEMMA RotatedIs ==
  ASSUME NEW w \in Operand, NEW i \in 0 .. Bits
  PROVE  LET q == w \div 2 ^ i
             r == w % 2 ^ i
         IN  /\ Rotated(w, i) = r * 2 ^ (Bits - i) + q
             /\ q \in Int /\ 0 =< q /\ r \in 0 .. 2 ^ i - 1 /\ w = q * 2 ^ i + r
             /\ Rotated(w, i) \in Operand
<1> DEFINE p == 2 ^ i
           e == 2 ^ (Bits - i)
           q == w \div p
           r == w % p
<1>1. /\ i \in Nat /\ p \in Nat \ {0} /\ e \in Nat \ {0} /\ p * e = Values
      /\ w \in Int /\ 0 =< w /\ w < Values /\ Values \in Nat \ {0}
  <2>1. i \in Nat /\ i =< Bits
    BY BitsType
  <2> QED
    BY <2>1, BitsType, PowerSteps DEF Operand
<1>2. LeftBy(w, Bits - i) = (w * e) % Values /\ RightBy(w, i) = q
  BY DEF LeftBy, RightBy
<1> HIDE DEF p, e
<1>3. q \in Int /\ r \in 0 .. p-1 /\ w = q * p + r
  BY <1>1, Numbers!Division
<1>4. 0 =< q /\ q < e
  <2>1. 0 * p =< w /\ w < e * p
    <3>1. e * p = p * e /\ 0 * p = 0
      BY <1>1
    <3> QED
      BY <1>1, <3>1
  <2> QED
    BY <1>1, <2>1, QuotientRange
<1> HIDE DEF q, r
<1> DEFINE re == r * e
           we == w * e
<1>5. re \in Int /\ 0 =< re /\ re =< Values - e
  <2>1. r * e =< (p-1) * e /\ 0 * e =< r * e
    BY <1>1, <1>3, Numbers!ProductOrder
  <2>2. (p-1) * e = p * e - e
    BY <1>1
  <2> QED
    BY <1>1, <1>3, <2>1, <2>2
<1>6. we \in Int /\ we = q * Values + re
  <2>1. (q * p + r) * e = q * (p * e) + r * e
    BY <1>1, <1>3
  <2> QED
    BY <1>1, <1>3, <2>1
<1> HIDE DEF re, we
<1>7. we % Values = re
  <2>1. re \in 0 .. Values-1
    BY <1>1, <1>5
  <2> QED
    BY <1>1, <1>3, <1>6, <2>1, Numbers!DivisionIs
<1>8. Rotated(w, i) = re + q
  BY <1>2, <1>7 DEF Rotated, we
<1>9. re + q \in Operand
  BY <1>1, <1>3, <1>4, <1>5 DEF Operand
<1> QED
  BY <1>3, <1>4, <1>8, <1>9 DEF q, r, p, e, re

LEMMA RotationSteps ==
  ASSUME NEW w \in Operand, NEW i \in 0 .. Bits-1
  PROVE  LET x == Rotated(w, i)
         IN  /\ x % 2 = Bit(w, i)
             /\ x \div 2 + Barrel!Bottom(x) * (Barrel!Size \div 2) = Rotated(w, i + 1)
<1> DEFINE p == 2 ^ i
           d == 2 ^ (Bits-1 - i)
           h == 2 ^ (Bits-1)
           q == w \div p
           r == w % p
           q2 == q \div 2
           b == q % 2
           x == Rotated(w, i)
<1>1. i \in Nat /\ i \in 0 .. Bits /\ i + 1 \in 0 .. Bits /\ Bits-1 - i \in Nat
  BY BitsType
<1>2. /\ p \in Nat \ {0} /\ d \in Nat \ {0} /\ h \in Nat \ {0} /\ p * d = h
      /\ 2 ^ (i + 1) = p * 2 /\ 2 ^ (Bits - i) = d * 2 /\ Bits - (i + 1) = Bits-1 - i
      /\ Barrel!Size \div 2 = h
  <2>1. i + (Bits-1 - i) = Bits-1 /\ (Bits-1 - i) + 1 = Bits - i /\ Bits - (i + 1) = Bits-1 - i
    BY <1>1, BitsType
  <2>2. 2 ^ (i + (Bits-1 - i)) = p * d
    BY <1>1, Numbers!PowersAdd
  <2>3. 2 ^ ((Bits-1 - i) + 1) = d * 2 /\ d \in Nat \ {0}
    BY <1>1, PowerSteps
  <2>4. 2 ^ (i + 1) = p * 2 /\ p \in Nat \ {0}
    BY <1>1, PowerSteps
  <2> QED
    BY <2>1, <2>2, <2>3, <2>4, BitsType
<1>3. /\ x = r * (d * 2) + q /\ q \in Int /\ r \in 0 .. p-1 /\ w = q * p + r
  BY <1>1, <1>2, RotatedIs
<1>4. Bit(w, i) = b
  BY DEF Bit, RightBy
<1>5. Rotated(w, i + 1) = (w % (p * 2)) * d + w \div (p * 2)
  BY <1>1, <1>2, RotatedIs
<1> HIDE DEF x, q, r, p, d, h
<1>6. q2 \in Int /\ b \in {0, 1} /\ q = 2 * q2 + b
  BY <1>3
<1> HIDE DEF q2, b
<1> DEFINE rd == r * d
           s == rd + q2
<1>7. rd \in Int /\ s \in Int
  BY <1>2, <1>3, <1>6
<1>8. x = 2 * s + b
  <2>1. r * (d * 2) = 2 * rd
    BY <1>2, <1>3
  <2> QED
    BY <1>3, <1>6, <1>7, <2>1
<1> HIDE DEF rd, s
<1>9. x % 2 = b /\ x \div 2 = s
  BY <1>6, <1>7, <1>8
<1>10. w \div (p * 2) = q2 /\ w % (p * 2) = b * p + r
  <2> DEFINE m == p * 2
             t == b * p + r
  <2>1. m \in Nat \ {0} /\ t \in 0 .. m-1 /\ w \in Int
    BY <1>2, <1>3, <1>6, BitsType DEF Operand
  <2>2. w = q2 * m + t
    <3>1. w = (2 * q2 + b) * p + r
      BY <1>3, <1>6
    <3>2. (2 * q2 + b) * p = q2 * (p * 2) + b * p
      BY <1>2, <1>6
    <3>3. q2 * (p * 2) \in Int /\ b * p \in Int /\ r \in Int
      BY <1>2, <1>3, <1>6
    <3> QED
      BY <3>1, <3>2, <3>3
  <2> HIDE DEF m, t
  <2>3. w \div m = q2 /\ w % m = t
    BY <1>6, <2>1, <2>2, Numbers!DivisionIs
  <2> QED
    BY <2>3 DEF m, t
<1>11. Rotated(w, i + 1) = s + b * h
  <2>1. (b * p + r) * d = b * (p * d) + rd
    BY <1>2, <1>3, <1>6 DEF rd
  <2>2. b * (p * d) = b * h /\ b * h \in Int
    BY <1>2, <1>6
  <2> QED
    BY <1>5, <1>6, <1>7, <1>10, <2>1, <2>2 DEF s
<1> QED
  BY <1>2, <1>4, <1>9, <1>11 DEF Barrel!Bottom, x

-----------------------------------------------------------------------------

\* Shifted at once by n bits, and the last of them.
ShiftedWord(kind, w, n) ==
  CASE kind = "LSL" -> LeftBy(w, n)
    [] kind = "LSR" -> RightBy(w, n)
    [] kind = "ASR" -> SignedRightBy(w, n)
    [] kind = "ROR" -> Rotated(w, n % Bits)

LastBit(kind, w, n) ==
  CASE kind = "LSL" -> IF n =< Bits THEN Bit(w, Bits - n) ELSE 0
    [] kind = "LSR" -> Bit(w, n - 1)
    [] kind = "ASR" -> IF n =< Bits THEN Bit(w, n - 1) ELSE SignOf(w)
    [] kind = "ROR" -> Bit(w, (n - 1) % Bits)

AtOnce(kind, w, c, n) ==
  [w |-> ShiftedWord(kind, w, n), c |-> IF n = 0 THEN c ELSE LastBit(kind, w, n)]

LEMMA UnshiftedIs ==
  ASSUME NEW w \in Operand
  PROVE  /\ LeftBy(w, 0) = w /\ RightBy(w, 0) = w /\ SignedRightBy(w, 0) = w
         /\ Rotated(w, 0) = w /\ Rotated(w, Bits) = w
<1>1. w \in Int /\ w \in 0 .. Values-1 /\ Values \in Nat \ {0} /\ Bits \in Nat /\ 2 ^ 0 = 1
      /\ 2 ^ Bits = Values
  BY BitsType, Numbers!PowerOfTwo DEF Operand
<1>2. w * 1 = w /\ w \div 1 = w /\ w % Values = w /\ w \div Values = 0
      /\ w * Values = w * Values + 0
  BY <1>1
<1>3. LeftBy(w, 0) = w /\ RightBy(w, 0) = w
  BY <1>1, <1>2 DEF LeftBy, RightBy
<1>4. SignedRightBy(w, 0) = w
  <2>1. Valued(w) \in Int /\ (Valued(w) = w \/ Valued(w) = w - Values)
    BY ValuedIs DEF Valued
  <2>2. SignedRightBy(w, 0) = (Valued(w) \div 1) % Values
    BY <1>1 DEF SignedRightBy, Valued
  <2>3. Valued(w) \div 1 = Valued(w)
    BY <2>1
  <2>4. (w - Values) % Values = w
    BY <1>1
  <2> QED
    BY <1>2, <2>1, <2>2, <2>3, <2>4
<1>5. LeftBy(w, Bits) = 0 /\ RightBy(w, Bits) = 0
  <2>1. LeftBy(w, Bits) = (w * Values) % Values
    BY <1>1 DEF LeftBy
  <2> DEFINE x == w * Values
  <2>2. x \in Int /\ x = w * Values + 0 /\ 0 \in 0 .. Values-1
    BY <1>1
  <2> HIDE DEF x
  <2>3. x % Values = 0
    BY <1>1, <2>2, Numbers!DivisionIs
  <2> QED
    BY <1>1, <1>2, <2>1, <2>3 DEF x, RightBy
<1>6. Bits - 0 = Bits /\ Bits - Bits = 0
  BY <1>1
<1> QED
  BY <1>1, <1>3, <1>4, <1>5, <1>6 DEF Rotated

LEMMA AroundSteps ==
  ASSUME NEW w \in Operand, NEW n \in Nat
  PROVE  /\ n % Bits \in 0 .. Bits-1
         /\ Rotated(w, (n % Bits) + 1) = Rotated(w, (n + 1) % Bits)
<1> DEFINE d == n \div Bits
           j == n % Bits
           m == n + 1
<1>1. d \in Int /\ j \in 0 .. Bits-1 /\ n = d * Bits + j /\ Bits \in Nat \ {0} /\ m \in Int
  BY BitsType, Numbers!Division
<1> HIDE DEF d, j
<1>2. CASE j + 1 < Bits
  <2>1. m = d * Bits + (j + 1) /\ j + 1 \in 0 .. Bits-1
    BY <1>1, <1>2
  <2> HIDE DEF m
  <2>2. m % Bits = j + 1
    BY <1>1, <2>1, Numbers!DivisionIs
  <2> QED
    BY <1>1, <2>2 DEF m, j
<1>3. CASE j + 1 = Bits
  <2>1. m = (d + 1) * Bits + 0 /\ 0 \in 0 .. Bits-1 /\ d + 1 \in Int
    <3>1. (d + 1) * Bits = d * Bits + Bits /\ d * Bits \in Int
      BY <1>1
    <3> QED
      BY <1>1, <1>3, <3>1
  <2> HIDE DEF m
  <2>2. m % Bits = 0
    BY <1>1, <2>1, Numbers!DivisionIs
  <2> QED
    BY <1>1, <1>3, <2>2, UnshiftedIs DEF m, j
<1> QED
  BY <1>1, <1>2, <1>3 DEF j

LEMMA AtOnceSteps ==
  ASSUME NEW kind \in Barrel!Kinds, NEW w \in Operand, NEW c, NEW n \in Nat
  PROVE  Barrel!OneBit(kind, AtOnce(kind, w, c, n)) = AtOnce(kind, w, c, n + 1)
<1> DEFINE x == AtOnce(kind, w, c, n)
           y == AtOnce(kind, w, c, n + 1)
<1>1. /\ x.w = ShiftedWord(kind, w, n) /\ y.w = ShiftedWord(kind, w, n + 1)
      /\ y.c = LastBit(kind, w, n + 1) /\ y = [w |-> y.w, c |-> y.c]
      /\ (n + 1) - 1 = n
  BY DEF AtOnce
<1> HIDE DEF x, y
<1>2. ASSUME kind = "LSL"
      PROVE  Barrel!OneBit(kind, x) = y
  <2>1. x.w = LeftBy(w, n) /\ y.w = LeftBy(w, n + 1)
    BY <1>1, <1>2 DEF ShiftedWord
  <2>2. (2 * x.w) % Barrel!Size = y.w
    BY <2>1, LeftBits, BitsType
  <2>3. Barrel!Top(x.w) = y.c
    <3>1. y.c = IF n + 1 =< Bits THEN Bit(w, Bits - (n + 1)) ELSE 0
      BY <1>1, <1>2 DEF LastBit
    <3>2. Bits - (n + 1) = Bits-1 - n /\ (n + 1 =< Bits <=> n < Bits)
      BY BitsType
    <3> QED
      BY <2>1, <3>1, <3>2, LeftOut
  <2> QED
    BY <1>1, <1>2, <2>2, <2>3 DEF Barrel!OneBit
<1>3. ASSUME kind = "LSR"
      PROVE  Barrel!OneBit(kind, x) = y
  <2>1. x.w = RightBy(w, n) /\ y.w = RightBy(w, n + 1) /\ y.c = Bit(w, n)
    BY <1>1, <1>3 DEF ShiftedWord, LastBit
  <2>2. x.w \div 2 = y.w /\ x.w % 2 = y.c
    BY <2>1, RightByIs
  <2> QED
    BY <1>1, <1>3, <2>2 DEF Barrel!OneBit, Barrel!Bottom
<1>4. ASSUME kind = "ASR"
      PROVE  Barrel!OneBit(kind, x) = y
  <2>1. /\ x.w = SignedRightBy(w, n) /\ y.w = SignedRightBy(w, n + 1)
        /\ y.c = IF n + 1 =< Bits THEN Bit(w, n) ELSE SignOf(w)
    BY <1>1, <1>4 DEF ShiftedWord, LastBit
  <2>2. n + 1 =< Bits <=> n < Bits
    BY BitsType
  <2>3. /\ x.w \div 2 + Barrel!Top(x.w) * (Barrel!Size \div 2) = y.w
        /\ x.w % 2 = y.c
    BY <2>1, <2>2, SignedRightIs
  <2> QED
    BY <1>1, <1>4, <2>3 DEF Barrel!OneBit, Barrel!Bottom
<1>5. ASSUME kind = "ROR"
      PROVE  Barrel!OneBit(kind, x) = y
  <2> DEFINE j == n % Bits
  <2>1. x.w = Rotated(w, j) /\ y.w = Rotated(w, (n + 1) % Bits) /\ y.c = Bit(w, j)
    BY <1>1, <1>5 DEF ShiftedWord, LastBit
  <2>2. j \in 0 .. Bits-1 /\ Rotated(w, j + 1) = y.w
    BY <2>1, AroundSteps
  <2> HIDE DEF j
  <2>3. /\ x.w \div 2 + Barrel!Bottom(x.w) * (Barrel!Size \div 2) = y.w
        /\ x.w % 2 = y.c
    BY <2>1, <2>2, RotationSteps
  <2> QED
    BY <1>1, <1>5, <2>3 DEF Barrel!OneBit, Barrel!Bottom
<1> QED
  BY <1>2, <1>3, <1>4, <1>5 DEF Barrel!Kinds, x, y

\* Bit by bit is at once.
LEMMA ShiftedIs ==
  ASSUME NEW kind \in Barrel!Kinds, NEW n \in Nat, NEW w \in Operand,
         Barrel!Start = [w |-> w, c |-> carry]
  PROVE  Barrel!Shifted(kind, n) = AtOnce(kind, w, carry, n)
<1> DEFINE Step(f, i) == IF i = 0 THEN Barrel!Start ELSE Barrel!OneBit(kind, f[i-1])
           IsAfter(f) == f = [i \in 0 .. n |-> Step(f, i)]
           after == CHOOSE f : IsAfter(f)
           g == [i \in 0 .. n |-> AtOnce(kind, w, carry, i)]
           G == {k \in 0 .. n : after[k] = AtOnce(kind, w, carry, k)}
<1>1. AtOnce(kind, w, carry, 0) = Barrel!Start
  <2>1. ShiftedWord(kind, w, 0) = w
    <3>1. 0 % Bits = 0
      BY BitsType
    <3> QED
      BY <3>1, UnshiftedIs DEF ShiftedWord, Barrel!Kinds
  <2> QED
    BY <2>1 DEF AtOnce
<1>2. IsAfter(g)
  <2>1. ASSUME NEW i \in 0 .. n
        PROVE  g[i] = Step(g, i)
    <3>1. CASE i = 0
      BY <1>1, <3>1
    <3>2. CASE i # 0
      <4>1. i-1 \in Nat /\ i-1 \in 0 .. n /\ (i-1) + 1 = i
        BY <3>2
      <4>2. Barrel!OneBit(kind, AtOnce(kind, w, carry, i-1)) = AtOnce(kind, w, carry, (i-1) + 1)
        BY <4>1, AtOnceSteps
      <4> QED
        BY <3>2, <4>1, <4>2
    <3> QED
      BY <3>1, <3>2
  <2>2. g = [i \in 0 .. n |-> g[i]]
    OBVIOUS
  <2> QED
    BY <2>1, <2>2
<1>3. IsAfter(after)
  <2> HIDE DEF g, IsAfter
  <2> QED
    BY <1>2, Zenon
<1>4. Barrel!Shifted(kind, n) = after[n]
  BY DEF Barrel!Shifted
<1> HIDE DEF after, g
<1>5. \A i \in 0 .. n : after[i] = Step(after, i)
  BY <1>3
<1>6. 0 \in G
  BY <1>1, <1>5
<1>7. ASSUME NEW k \in 1 .. n, k-1 \in G
      PROVE  k \in G
  <2>1. k \in 0 .. n /\ k-1 \in Nat /\ (k-1) + 1 = k /\ k # 0
    BY <1>7
  <2>2. after[k] = Barrel!OneBit(kind, AtOnce(kind, w, carry, k-1))
    BY <1>5, <1>7, <2>1
  <2> QED
    BY <2>1, <2>2, AtOnceSteps
<1>8. n \in G
  <2> HIDE DEF G
  <2> QED
    BY <1>6, <1>7, Numbers!Inductive
<1> QED
  BY <1>4, <1>8


-----------------------------------------------------------------------------

LEMMA AtOnceType ==
  ASSUME NEW kind \in Barrel!Kinds, NEW w \in Operand, NEW c \in {0, 1}, NEW n \in Nat
  PROVE  /\ AtOnce(kind, w, c, n).w = ShiftedWord(kind, w, n)
         /\ AtOnce(kind, w, c, n).c = IF n = 0 THEN c ELSE LastBit(kind, w, n)
         /\ ShiftedWord(kind, w, n) \in Operand
         /\ AtOnce(kind, w, c, n).c \in {0, 1}
<1>1. /\ AtOnce(kind, w, c, n).w = ShiftedWord(kind, w, n)
      /\ AtOnce(kind, w, c, n).c = IF n = 0 THEN c ELSE LastBit(kind, w, n)
  BY DEF AtOnce
<1>2. n % Bits \in 0 .. Bits
  BY AroundSteps, BitsType
<1>3. ShiftedWord(kind, w, n) \in Operand
  <2>1. /\ LeftBy(w, n) \in Operand /\ RightBy(w, n) \in Operand /\ SignedRightBy(w, n) \in Operand
        /\ Rotated(w, n % Bits) \in Operand
    BY <1>2, LeftBits, RightByIs, SignedRightIs, RotatedIs
  <2> QED
    BY <2>1 DEF ShiftedWord, Barrel!Kinds
<1>4. ASSUME n # 0
      PROVE  LastBit(kind, w, n) \in {0, 1}
  <2>1. \A i \in Nat : Bit(w, i) \in {0, 1}
    BY RightByIs
  <2>2. n - 1 \in Nat /\ (n - 1) % Bits \in Nat /\ Bits-1 \in Nat /\ (n =< Bits => Bits - n \in Nat)
    BY <1>4, AroundSteps, BitsType
  <2> QED
    BY <2>1, <2>2 DEF LastBit, SignOf, Barrel!Kinds
<1> QED
  BY <1>1, <1>3, <1>4

LEMMA LeftAway ==
  ASSUME NEW w \in Operand, NEW n \in Nat, n >= Bits
  PROVE  LeftBy(w, n) = 0
<1> DEFINE p == 2 ^ n
           e == 2 ^ (n - Bits)
           x == w * p
           k == w * e
<1>1. p = e * Values /\ e \in Nat \ {0} /\ w \in Int /\ Values \in Nat \ {0}
  BY PowerSteps, BitsType DEF Operand
<1>2. LeftBy(w, n) = x % Values
  BY DEF LeftBy
<1> HIDE DEF e, p
<1>3. x \in Int /\ k \in Int /\ x = k * Values + 0 /\ 0 \in 0 .. Values-1
  BY <1>1
<1> HIDE DEF x, k
<1>4. x % Values = 0
  BY <1>1, <1>3, Numbers!DivisionIs
<1> QED
  BY <1>2, <1>4

LEMMA AroundBefore ==
  ASSUME NEW n \in Nat \ {0}
  PROVE  /\ (n - 1) % Bits = IF n % Bits = 0 THEN Bits-1 ELSE (n % Bits) - 1
         /\ n < Bits => n % Bits = n
<1> DEFINE d == n \div Bits
           j == n % Bits
           m == n - 1
<1>1. /\ d \in Int /\ j \in 0 .. Bits-1 /\ n = d * Bits + j /\ Bits \in Nat \ {0} /\ m \in Int
      /\ m = n - 1 /\ d * Bits \in Int
  BY BitsType, Numbers!Division
<1> HIDE DEF d, j, m
<1>2. CASE j = 0
  <2>1. (d - 1) * Bits = d * Bits - Bits
    BY <1>1
  <2>2. m = (d - 1) * Bits + (Bits-1) /\ Bits-1 \in 0 .. Bits-1 /\ d - 1 \in Int
    BY <1>1, <1>2, <2>1
  <2>3. m % Bits = Bits-1
    BY <1>1, <2>2, Numbers!DivisionIs
  <2> QED
    BY <1>1, <1>2, <2>3 DEF m, j
<1>3. CASE j # 0
  <2>1. m = d * Bits + (j - 1) /\ j - 1 \in 0 .. Bits-1
    BY <1>1, <1>3
  <2>2. m % Bits = j - 1
    BY <1>1, <2>1, Numbers!DivisionIs
  <2>3. n < Bits => n % Bits = n
    BY <1>1
  <2> QED
    BY <1>3, <2>2, <2>3 DEF m, j
<1> QED
  BY <1>2, <1>3

\* One bit through the carry.
LEMMA ThroughCarry ==
  ASSUME NEW w \in Operand, carry \in {0, 1}, Barrel!Start = [w |-> w, c |-> carry]
  PROVE  /\ Barrel!Shifted("RRX", 1).w = RightBy(w, 1) + LeftBy(carry, Bits-1)
         /\ Barrel!Shifted("RRX", 1).c = w % 2
         /\ Barrel!Shifted("RRX", 1).w \in Operand /\ w % 2 \in {0, 1}
<1> DEFINE Step(f, i) == IF i = 0 THEN Barrel!Start ELSE Barrel!OneBit("RRX", f[i-1])
           IsAfter(f) == f = [i \in 0 .. 1 |-> Step(f, i)]
           after == CHOOSE f : IsAfter(f)
           g == [i \in 0 .. 1 |-> IF i = 0 THEN Barrel!Start ELSE Barrel!OneBit("RRX", Barrel!Start)]
           h == 2 ^ (Bits-1)
<1>1. IsAfter(g)
  <2>1. \A i \in 0 .. 1 : i # 0 => i-1 = 0
    OBVIOUS
  <2>2. g[0] = Barrel!Start
    OBVIOUS
  <2>3. \A i \in 0 .. 1 : g[i] = Step(g, i)
    BY <2>1, <2>2
  <2>4. g = [i \in 0 .. 1 |-> g[i]]
    OBVIOUS
  <2> QED
    BY <2>3, <2>4
<1>2. IsAfter(after)
  <2> HIDE DEF g, IsAfter
  <2> QED
    BY <1>1, Zenon
<1>3. Barrel!Shifted("RRX", 1) = after[1]
  BY DEF Barrel!Shifted
<1> HIDE DEF after
<1>4. \A i \in 0 .. 1 : after[i] = Step(after, i)
  BY <1>2
<1>5. after[1] = Barrel!OneBit("RRX", Barrel!Start)
  <2>1. after[0] = Barrel!Start
    BY <1>4
  <2>2. 1 \in 0 .. 1 /\ 1 # 0 /\ 1 - 1 = 0
    OBVIOUS
  <2>3. after[1] = Barrel!OneBit("RRX", after[1 - 1])
    BY <1>4, <2>2
  <2> QED
    BY <2>1, <2>2, <2>3
<1>6. after[1] = [w |-> w \div 2 + carry * (Barrel!Size \div 2), c |-> w % 2]
  BY <1>5 DEF Barrel!OneBit, Barrel!Bottom
<1>7. h \in Nat \ {0} /\ Values = 2 * h /\ Barrel!Size \div 2 = h /\ w \in 0 .. Values-1
      /\ 2 ^ 1 = 2
  <2>1. 2 ^ (0 + 1) = 2 * 2 ^ 0 /\ 2 ^ 0 = 1
    BY Numbers!PowerOfTwo
  <2>2. 2 ^ 1 = 2
    BY <2>1
  <2> QED
    BY <2>2, BitsType DEF Operand
<1>8. RightBy(w, 1) = w \div 2 /\ LeftBy(carry, Bits-1) = (carry * h) % Values
  BY <1>7 DEF RightBy, LeftBy
<1> HIDE DEF h
<1>9. (carry * h) % Values = carry * h /\ carry * h \in 0 .. h
  BY <1>7
<1>10. w \div 2 \in 0 .. h-1 /\ w % 2 \in {0, 1}
  BY <1>7
<1>11. w \div 2 + carry * h \in Operand
  <2> DEFINE a == w \div 2
             b == carry * h
  <2>1. a \in 0 .. h-1 /\ b \in 0 .. h /\ h \in Nat /\ Values = 2 * h
    BY <1>7, <1>9, <1>10
  <2> HIDE DEF a, b
  <2>2. a + b \in 0 .. Values-1
    BY <2>1
  <2> QED
    BY <2>2 DEF a, b, Operand
<1>12. after[1].w = w \div 2 + carry * h /\ after[1].c = w % 2
  BY <1>6, <1>7
<1>13. RightBy(w, 1) + LeftBy(carry, Bits-1) = w \div 2 + carry * h
  BY <1>8, <1>9, Zenon
<1> QED
  BY <1>3, <1>10, <1>11, <1>12, <1>13, Zenon

-----------------------------------------------------------------------------

LEMMA ConstantIs ==
  ASSUME NEW w \in Operand, carry \in {0, 1}, Barrel!Start = [w |-> w, c |-> carry],
         NEW kind \in Barrel!Kinds, NEW n \in 1 .. Bits-1
  PROVE  LET x == Barrel!Shifted(kind, n)
         IN  /\ x.w = ByConstant(kind, w, n) /\ x.c = ConstantCarry(kind, w, n)
             /\ x.w \in Operand /\ x.c \in {0, 1}
<1>1. n \in Nat \ {0} /\ n - 1 \in Nat /\ n < Bits /\ n =< Bits
  BY BitsType
<1>2. n % Bits = n /\ (n - 1) % Bits = n - 1
  BY <1>1, AroundBefore
<1>3. Barrel!Shifted(kind, n) = AtOnce(kind, w, carry, n)
  BY <1>1, ShiftedIs
<1>4. /\ ShiftedWord(kind, w, n) = ByConstant(kind, w, n)
      /\ LastBit(kind, w, n) = ConstantCarry(kind, w, n)
  BY <1>1, <1>2 DEF ShiftedWord, LastBit, ByConstant, ConstantCarry, Barrel!Kinds
<1> QED
  BY <1>1, <1>3, <1>4, AtOnceType

\* As many bits as there are.
LEMMA AllBitsIs ==
  ASSUME NEW w \in Operand, carry \in {0, 1}, Barrel!Start = [w |-> w, c |-> carry],
         NEW kind \in {"LSR", "ASR"}
  PROVE  LET x == Barrel!Shifted(kind, Bits)
         IN  /\ x.w = ByConstant(kind, w, 0) /\ x.c = ConstantCarry(kind, w, 0)
             /\ x.w \in Operand /\ x.c \in {0, 1}
<1>1. Bits \in Nat \ {0} /\ Bits >= Bits-1 /\ Bits >= Bits /\ kind \in Barrel!Kinds
  BY BitsType DEF Barrel!Kinds
<1>2. Barrel!Shifted(kind, Bits) = AtOnce(kind, w, carry, Bits)
  BY <1>1, ShiftedIs
<1>3. RightBy(w, Bits) = 0 /\ SignedRightBy(w, Bits) = SignedRightBy(w, Bits-1)
  BY <1>1, RightByIs, SignedRightIs
<1>4. /\ ShiftedWord(kind, w, Bits) = ByConstant(kind, w, 0)
      /\ LastBit(kind, w, Bits) = ConstantCarry(kind, w, 0)
  BY <1>1, <1>3 DEF ShiftedWord, LastBit, ByConstant, ConstantCarry, SignOf
<1> QED
  BY <1>1, <1>2, <1>4, AtOnceType

LEMMA RegisterIs ==
  ASSUME NEW w \in Operand, carry \in {0, 1}, Barrel!Start = [w |-> w, c |-> carry],
         NEW kind \in Barrel!Kinds, NEW n \in Nat
  PROVE  LET x == Barrel!Shifted(kind, n)
         IN  /\ x.w = ByRegister(kind, w, n)
             /\ x.c = IF n = 0 THEN carry ELSE RegisterCarry(kind, w, n)
             /\ x.w \in Operand /\ x.c \in {0, 1}
<1>1. Barrel!Shifted(kind, n) = AtOnce(kind, w, carry, n)
  BY ShiftedIs
<1>2. ShiftedWord(kind, w, n) = ByRegister(kind, w, n)
  <2>1. CASE n = 0
    <3>1. 0 % Bits = 0
      BY BitsType
    <3> QED
      BY <2>1, <3>1, UnshiftedIs DEF ShiftedWord, ByRegister, Barrel!Kinds
  <2>2. CASE n # 0
    <3>1. n >= Bits => /\ LeftBy(w, n) = 0 /\ RightBy(w, n) = 0
                       /\ SignedRightBy(w, n) = SignedRightBy(w, Bits-1)
      <4>1. n >= Bits => n >= Bits-1
        BY BitsType
      <4> QED
        BY <4>1, LeftAway, RightByIs, SignedRightIs
    <3>2. n % Bits = 0 => Rotated(w, n % Bits) = w
      BY UnshiftedIs
    <3> QED
      BY <2>2, <3>1, <3>2 DEF ShiftedWord, ByRegister, Barrel!Kinds
  <2> QED
    BY <2>1, <2>2
<1>3. ASSUME n # 0
      PROVE  LastBit(kind, w, n) = RegisterCarry(kind, w, n)
  <2>1. Bits \in Nat \ {0} /\ n - 1 \in Nat /\ (n > Bits => n - 1 >= Bits /\ ~(n =< Bits))
        /\ (n = Bits => n =< Bits /\ n - 1 = Bits-1 /\ Bits - n = 0 /\ n >= Bits)
        /\ (n < Bits => n =< Bits /\ ~(n >= Bits) /\ ~(n > Bits) /\ n # Bits)
        /\ (n > Bits => n >= Bits)
        /\ (n > Bits \/ n = Bits \/ n < Bits) /\ ~(Bits > Bits)
    BY <1>3, BitsType
  <2>2. Bit(w, 0) = w % 2 /\ SignOf(w) = Bit(w, Bits-1)
    BY UnshiftedIs DEF Bit, SignOf
  <2>3. n > Bits => Bit(w, n - 1) = 0
    BY <2>1, RightByIs
  <2>4. (n - 1) % Bits = IF n % Bits = 0 THEN Bits-1 ELSE (n % Bits) - 1
    BY <1>3, AroundBefore
  <2>5. kind = "LSL" => LastBit(kind, w, n) = RegisterCarry(kind, w, n)
    BY <2>1, <2>2 DEF LastBit, RegisterCarry
  <2>6. kind = "LSR" => LastBit(kind, w, n) = RegisterCarry(kind, w, n)
    BY <2>1, <2>2, <2>3 DEF LastBit, RegisterCarry
  <2>7. kind = "ASR" => LastBit(kind, w, n) = RegisterCarry(kind, w, n)
    BY <2>1, <2>2 DEF LastBit, RegisterCarry
  <2>8. kind = "ROR" => LastBit(kind, w, n) = RegisterCarry(kind, w, n)
    BY <2>2, <2>4 DEF LastBit, RegisterCarry
  <2> QED
    BY <2>5, <2>6, <2>7, <2>8 DEF Barrel!Kinds
<1> QED
  BY <1>1, <1>2, <1>3, AtOnceType

\* The carry of a rotation is the sign of what it leaves.
LEMMA PositionIs ==
  ASSUME NEW w \in Operand, carry \in {0, 1}, Barrel!Start = [w |-> w, c |-> carry],
         NEW n \in 0 .. Bits-1
  PROVE  LET x == Barrel!Shifted("ROR", n)
         IN  /\ x.w = ImmedTable(w, n)
             /\ x.c = IF n > 0 THEN SignOf(ImmedTable(w, n)) ELSE carry
             /\ x.w \in Operand /\ x.c \in {0, 1}
<1> DEFINE kind == "ROR"
<1>1. n \in Nat /\ n < Bits /\ kind \in Barrel!Kinds /\ (n > 0 <=> n # 0)
  BY BitsType DEF Barrel!Kinds
<1>2. Barrel!Shifted(kind, n) = AtOnce(kind, w, carry, n)
  BY <1>1, ShiftedIs
<1>3. n % Bits = n
  BY <1>1, BitsType
<1>4. ShiftedWord(kind, w, n) = ImmedTable(w, n) /\ ImmedTable(w, n) = Rotated(w, n)
  BY <1>3, UnshiftedIs DEF ShiftedWord, ImmedTable
<1>5. ASSUME n # 0
      PROVE  LastBit(kind, w, n) = SignOf(ImmedTable(w, n))
  <2> DEFINE i == n - 1
             x == Rotated(w, i)
             y == Rotated(w, n)
             h == 2 ^ (Bits-1)
  <2>1. i \in 0 .. Bits-1 /\ i \in 0 .. Bits /\ i + 1 = n /\ n \in 0 .. Bits
    BY <1>1, <1>5, BitsType
  <2>2. LastBit(kind, w, n) = Bit(w, i)
    <3>1. (n - 1) % Bits = i
      BY <2>1, BitsType
    <3> QED
      BY <3>1 DEF LastBit
  <2>3. x % 2 = Bit(w, i) /\ x \div 2 + (x % 2) * (Barrel!Size \div 2) = y
    <3> HIDE DEF i
    <3> QED
      BY <2>1, RotationSteps DEF Barrel!Bottom
  <2>4. x \in Operand /\ y \in Operand
    <3> HIDE DEF i
    <3> QED
      BY <2>1, RotatedIs
  <2>5. SignOf(y) = IF y >= h THEN 1 ELSE 0
    <3> HIDE DEF y
    <3> QED
      BY <2>4, TopIs
  <2>6. Barrel!Size \div 2 = h /\ h \in Nat \ {0} /\ Values = 2 * h
    BY BitsType
  <2> HIDE DEF x, y, h
  <2>7. x % 2 = SignOf(y)
    <3>1. x \div 2 \in 0 .. h-1 /\ x % 2 \in {0, 1}
      BY <2>4, <2>6 DEF Operand
    <3>2. x \div 2 + (x % 2) * h = y
      BY <2>3, <2>6
    <3>3. (x % 2) * h = IF x % 2 = 1 THEN h ELSE 0
      BY <2>6, <3>1
    <3> QED
      BY <2>5, <2>6, <3>1, <3>2, <3>3
  <2> QED
    BY <1>4, <2>2, <2>3, <2>7 DEF y
<1> QED
  BY <1>1, <1>2, <1>4, <1>5, AtOnceType


-----------------------------------------------------------------------------

\* Nothing but words and bits.
ShifterInv ==
  /\ shift \in Barrel!Instructions \union {Barrel!Idle}
  /\ operand \in Operand /\ carry \in {0, 1}

LEMMA InstructionTypes ==
  ASSUME NEW i \in Barrel!Instructions
  PROVE  /\ i # Barrel!Idle /\ i.kind \in Barrel!Kinds /\ i.s \in BOOLEAN
         /\ i.by = "register" => i.amount \in Nat
         /\ i.by \in {"constant", "address"} => i.amount \in 0 .. Bits-1
         /\ i.by = "address" => i.s = FALSE
         /\ i.by = "position" => i.amount \in 0 .. Bits-1 /\ i.byte \in Operand
<1>1. Amounts \subseteq Nat /\ Bytes \subseteq Operand
  BY ShifterAssumption, BitsType DEF Operand
<1>2. \A n \in 0 .. (Bits \div 2) - 1 : 2 * n \in 0 .. Bits-1
  <2>1. Bits \in Nat \ {0} /\ Bits \div 2 \in Int /\ 2 * (Bits \div 2) =< Bits
    BY BitsType
  <2> DEFINE k == Bits \div 2
  <2>2. k \in Int /\ 2 * k =< Bits
    BY <2>1
  <2> HIDE DEF k
  <2>3. \A n \in 0 .. k - 1 : 2 * n \in 0 .. Bits-1
    BY <2>1, <2>2
  <2> QED
    BY <2>3 DEF k
<1>3. i # Barrel!Idle /\ i.kind \in Barrel!Kinds /\ i.s \in BOOLEAN
  <2>1. \A j \in Barrel!Instructions : j.kind \in Barrel!Kinds /\ j.s \in BOOLEAN
    BY DEF Barrel!Instructions, Barrel!Kinds
  <2>2. \A j \in Barrel!Instructions : j.by # "nothing"
    BY DEF Barrel!Instructions
  <2>3. Barrel!Idle.by = "nothing"
    BY DEF Barrel!Idle
  <2> QED
    BY <2>1, <2>2, <2>3
<1>4. i.by = "register" => i.amount \in Amounts
  BY DEF Barrel!Instructions
<1>5. i.by \in {"constant", "address"} => i.amount \in 0 .. Bits-1
  BY DEF Barrel!Instructions
<1>6. i.by = "address" => i.s = FALSE
  BY DEF Barrel!Instructions
<1>7. i.by = "position" => i.amount \in {2 * n : n \in 0 .. (Bits \div 2) - 1} /\ i.byte \in Bytes
  BY DEF Barrel!Instructions
<1> QED
  BY <1>1, <1>2, <1>3, <1>4, <1>5, <1>6, <1>7

\* The three ways of giving the number of bits.
LEMMA RegisterMeant ==
  ASSUME ShifterInv, shift \in Barrel!Instructions, shift.by = "register"
  PROVE  /\ Barrel!Meant.w = ByRegister(shift.kind, operand, shift.amount)
         /\ Barrel!Meant.c = IF shift.amount = 0 THEN carry
                             ELSE RegisterCarry(shift.kind, operand, shift.amount)
         /\ Barrel!Meant.w \in Operand /\ Barrel!Meant.c \in {0, 1}
<1>1. shift.kind \in Barrel!Kinds /\ shift.amount \in Nat
  BY InstructionTypes
<1>2. Barrel!Start = [w |-> operand, c |-> carry]
  BY DEF Barrel!Start
<1>3. Barrel!Meant = Barrel!Shifted(shift.kind, shift.amount)
  BY DEF Barrel!Meant
<1> QED
  BY <1>1, <1>2, <1>3, RegisterIs DEF ShifterInv

LEMMA ConstantMeant ==
  ASSUME ShifterInv, shift \in Barrel!Instructions, shift.by \in {"constant", "address"}
  PROVE  /\ Barrel!Meant.w = IF Unshifted THEN operand
                             ELSE ByConstant(shift.kind, operand, shift.amount)
         /\ Barrel!Meant.c = IF Unshifted THEN carry
                             ELSE ConstantCarry(shift.kind, operand, shift.amount)
         /\ Barrel!Meant.w \in Operand /\ Barrel!Meant.c \in {0, 1}
<1> DEFINE kind == shift.kind
           n == shift.amount
<1>1. kind \in Barrel!Kinds /\ n \in 0 .. Bits-1 /\ shift.by # "register"
  BY InstructionTypes
<1>2. Barrel!Start = [w |-> operand, c |-> carry] /\ operand \in Operand /\ carry \in {0, 1}
  BY DEF Barrel!Start, ShifterInv
<1>3. Unshifted <=> kind = "LSL" /\ n = 0
  BY <1>1 DEF Unshifted
<1>4. Barrel!Meant = IF n = 0
                     THEN CASE kind = "LSL" -> Barrel!Shifted("LSL", 0)
                            [] kind = "ROR" -> Barrel!Shifted("RRX", 1)
                            [] OTHER -> Barrel!Shifted(kind, Bits)
                     ELSE Barrel!Shifted(kind, n)
  BY DEF Barrel!Meant
<1> HIDE DEF kind, n
<1>5. CASE n # 0
  <2>1. n \in 1 .. Bits-1
    BY <1>1, <1>5, BitsType
  <2> QED
    BY <1>1, <1>2, <1>3, <1>4, <1>5, <2>1, ConstantIs DEF kind, n
<1>6. CASE n = 0 /\ kind = "LSL"
  <2>1. Barrel!Meant = Barrel!Shifted("LSL", 0) /\ "LSL" \in Barrel!Kinds
    BY <1>4, <1>6 DEF Barrel!Kinds
  <2>2. Barrel!Shifted("LSL", 0) = AtOnce("LSL", operand, carry, 0)
    BY <1>2, <2>1, ShiftedIs
  <2>3. AtOnce("LSL", operand, carry, 0) = [w |-> operand, c |-> carry]
    BY <1>2, UnshiftedIs DEF AtOnce, ShiftedWord
  <2> QED
    BY <1>2, <1>3, <1>6, <2>1, <2>2, <2>3
<1>7. CASE n = 0 /\ kind = "ROR"
  <2>1. Barrel!Meant = Barrel!Shifted("RRX", 1) /\ ~Unshifted
    BY <1>3, <1>4, <1>7
  <2>2. /\ ByConstant(kind, operand, n) = RightBy(operand, 1) + LeftBy(carry, Bits-1)
        /\ ConstantCarry(kind, operand, n) = operand % 2
    BY <1>7 DEF ByConstant, ConstantCarry
  <2> QED
    BY <1>2, <2>1, <2>2, ThroughCarry DEF kind, n
<1>8. CASE n = 0 /\ kind \in {"LSR", "ASR"}
  <2>1. Barrel!Meant = Barrel!Shifted(kind, Bits) /\ ~Unshifted
    BY <1>3, <1>4, <1>8
  <2> QED
    BY <1>2, <1>8, <2>1, AllBitsIs DEF kind, n
<1> QED
  BY <1>1, <1>5, <1>6, <1>7, <1>8 DEF Barrel!Kinds

LEMMA PositionMeant ==
  ASSUME ShifterInv, shift \in Barrel!Instructions, shift.by = "position"
  PROVE  LET x == ImmedTable(shift.byte, shift.amount)
         IN  /\ shift.kind = "ROR" /\ Barrel!Meant.w = x
             /\ Barrel!Meant.c = IF shift.amount > 0 THEN SignOf(x) ELSE carry
             /\ Barrel!Meant.w \in Operand /\ Barrel!Meant.c \in {0, 1}
<1>1. shift.byte \in Operand /\ shift.amount \in 0 .. Bits-1
  BY InstructionTypes
<1>2. shift.kind = "ROR"
  BY DEF Barrel!Instructions
<1>3. Barrel!Start = [w |-> shift.byte, c |-> carry] /\ carry \in {0, 1}
  BY DEF Barrel!Start, ShifterInv
<1>4. Barrel!Meant = Barrel!Shifted("ROR", shift.amount)
  BY <1>2 DEF Barrel!Meant
<1> QED
  BY <1>1, <1>2, <1>3, <1>4, PositionIs

LEMMA ShifterSteps ==
  ASSUME ShifterInv, ShifterNext
  PROVE  Barrel!ShiftsNext /\ ShifterInv'
<1>1. ASSUME NEW by, NEW s, Execution(by, s)
      PROVE  /\ shift \in Barrel!Instructions /\ shift # Barrel!Idle /\ shift' = Barrel!Idle
             /\ shift.by = by /\ shift.s = s
  BY <1>1 DEF Execution, ShifterInv
<1>2. ASSUME shift # Barrel!Idle, shift' = Barrel!Idle,
             operand' = Barrel!Meant.w, carry' = IF shift.s THEN Barrel!Meant.c ELSE carry,
             Barrel!Meant.w \in Operand, Barrel!Meant.c \in {0, 1}
      PROVE  Barrel!ShiftsNext /\ ShifterInv'
  BY <1>2 DEF Barrel!ShiftsNext, Barrel!Execute, ShifterInv
<1>3. CASE ShifterFetch
  BY <1>3 DEF ShifterFetch, Barrel!ShiftsNext, Barrel!Fetch, ShifterInv
<1>4. CASE GetDPRegRHS
  <2>1. CASE Execution("register", FALSE) /\ operand' = ByRegister(shift.kind, operand, shift.amount)
    BY <1>1, <1>2, <1>4, <2>1, RegisterMeant DEF GetDPRegRHS
  <2>2. CASE /\ Execution("constant", FALSE)
             /\ operand' = IF Unshifted THEN operand
                           ELSE ByConstant(shift.kind, operand, shift.amount)
    BY <1>1, <1>2, <1>4, <2>2, ConstantMeant DEF GetDPRegRHS
  <2> QED
    BY <1>4, <2>1, <2>2 DEF GetDPRegRHS
<1>5. CASE GetDPSRegRHS
  <2>1. CASE Execution("register", TRUE)
    <3>1. /\ operand' = ByRegister(shift.kind, operand, shift.amount)
          /\ carry' = IF shift.amount = 0 THEN carry
                      ELSE RegisterCarry(shift.kind, operand, shift.amount)
      BY <1>5, <2>1 DEF GetDPSRegRHS, Execution
    <3> QED
      BY <1>1, <1>2, <2>1, <3>1, RegisterMeant
  <2>2. CASE Execution("constant", TRUE)
    <3>1. IF Unshifted THEN UNCHANGED <<operand, carry>>
          ELSE /\ operand' = ByConstant(shift.kind, operand, shift.amount)
               /\ carry' = ConstantCarry(shift.kind, operand, shift.amount)
      BY <1>5, <2>2 DEF GetDPSRegRHS, Execution
    <3> QED
      BY <1>1, <1>2, <2>2, <3>1, ConstantMeant
  <2> QED
    BY <1>5, <2>1, <2>2 DEF GetDPSRegRHS
<1>6. CASE GetLSRegRHS
  BY <1>1, <1>2, <1>6, ConstantMeant DEF GetLSRegRHS
<1>7. CASE DPImmRHS
  BY <1>1, <1>2, <1>7, PositionMeant DEF DPImmRHS
<1>8. CASE DPSImmRHS
  BY <1>1, <1>2, <1>8, PositionMeant DEF DPSImmRHS
<1> QED
  BY <1>3, <1>4, <1>5, <1>6, <1>7, <1>8 DEF ShifterNext

(***************************************************************************)
(* Every shifted operand is shifted by as many single bits as are meant,   *)
(* and the carry is the last of them, for words of any even number of      *)
(* bits: GetDPRegRHS, GetDPSRegRHS, GetLSRegRHS and the table of immediate *)
(* operands.                                                               *)
(***************************************************************************)
THEOREM ShifterImplementation == ShifterSpec => ImplementsShifts
<1>1. ShifterInit => Barrel!ShiftsInit /\ ShifterInv
  BY BitsType DEF ShifterInit, Barrel!ShiftsInit, ShifterInv, Operand
<1>2. ShifterInv /\ [ShifterNext]_shifterVars => ShifterInv' /\ [Barrel!ShiftsNext]_(Barrel!shiftVars)
  <2>1. ASSUME ShifterInv, ShifterNext
        PROVE  ShifterInv' /\ Barrel!ShiftsNext
    BY <2>1, ShifterSteps
  <2>2. ASSUME ShifterInv, UNCHANGED shifterVars
        PROVE  ShifterInv' /\ UNCHANGED Barrel!shiftVars
    BY <2>2 DEF shifterVars, Barrel!shiftVars, ShifterInv
  <2> QED
    BY <2>1, <2>2
<1> QED
  BY <1>1, <1>2, PTL DEF ShifterSpec, ImplementsShifts, Barrel!ShiftsSpec

===============================================================================
