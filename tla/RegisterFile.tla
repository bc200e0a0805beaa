---------------------------- MODULE RegisterFile ----------------------------
(***************************************************************************)
(* The registers of an ARM processor as software sees them: a place for    *)
(* each register of each bank, all of them there all the time.  An         *)
(* instruction names the registers of its mode, and of the user where it   *)
(* says so; what it does not name stays as it is.                          *)
(***************************************************************************)
EXTENDS ArmModes

VARIABLES
  register, \* register[s]: the word in place s
  status,   \* the current status
  saved     \* saved[b]: the saved status of bank b

fileVars == <<register, status, saved>>

\* The registers that w names, as bank b sees them, hold what it says.
Put(b, w) ==
  register' =
    [s \in Slot |->
       IF s[2] \in DOMAIN w /\ s = Home(b, s[2]) THEN w[s[2]] ELSE register[s]]

FileInit ==
  /\ \E w \in Words : register = [s \in Slot |-> w]
  /\ status = ResetStatus
  /\ saved = [b \in SavingBank |-> NoStatus]

\* An instruction writes registers of its own mode.
Execute(w) ==
  /\ UNCHANGED <<status, saved>>
  /\ Put(BankOf(status.mode), w)

\* A privileged one writes registers of the user.
Transfer(w) ==
  /\ status.mode # "usr"
  /\ UNCHANGED <<status, saved>>
  /\ Put("usr", w)

\* An exception saves the status and the address to return to in the bank
\* it enters.
Enter(e, link) ==
  /\ Accepted(e, status)
  /\ status' = EntryStatus(e, status)
  /\ saved' = [saved EXCEPT ![EntryMode[e]] = status]
  /\ Put(EntryMode[e], [r \in {14} |-> link])

\* A return restores the status, after a load of some registers.
Leave(w) ==
  /\ BankOf(status.mode) # "usr"
  /\ status' = saved[BankOf(status.mode)]
  /\ UNCHANGED saved
  /\ Put(BankOf(status.mode), w)

SetStatus(p) ==
  /\ status.mode # "usr"
  /\ status' = p
  /\ UNCHANGED <<saved, register>>

SetSaved(p) ==
  /\ BankOf(status.mode) # "usr"
  /\ saved' = [saved EXCEPT ![BankOf(status.mode)] = p]
  /\ UNCHANGED <<status, register>>

FileNext ==
  \/ \E w \in Write : Execute(w) \/ Transfer(w) \/ Leave(w)
  \/ \E e \in Exception, link \in Words : Enter(e, link)
  \/ \E p \in Status : SetStatus(p) \/ SetSaved(p)

FileSpec == FileInit /\ [][FileNext]_fileVars
=============================================================================
