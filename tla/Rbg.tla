--------------------------------- MODULE Rbg --------------------------------
(***************************************************************************)
(* The random bit generator of the Bob platform                            *)
(* (src/src/tlm_blocks/Bob/Rbg): a thread that warms up when it is         *)
(* enabled and then counts the bits of a number, again each time one has   *)
(* been read.                                                              *)
(*                                                                         *)
(* A thread waiting for m_event runs in the instant it is notified in,     *)
(* before the next register access, which takes time.  The timed waits of  *)
(* the warm-up and of the count end whenever they like, so that accesses   *)
(* come at any point of them.                                              *)
(***************************************************************************)
EXTENDS Integers

CONSTANTS
  WarmUpStart, \* STATUS when the warm-up begins (0x40000)
  WarmedUp,    \* STATUS when it is over (0xFFFFF)
  OneBit,      \* a bit in the count of bits (0x1000000)
  NumberBits,  \* bits of a number (32)
  StatusSize   \* the values of STATUS (2^32)

ASSUME StatusAssumption ==
  /\ {WarmUpStart, WarmedUp, OneBit, NumberBits, StatusSize} \subseteq Nat \ {0}
  /\ WarmUpStart < WarmedUp /\ WarmedUp < OneBit
  /\ StatusSize % OneBit = 0 /\ (NumberBits + 1) * OneBit =< StatusSize

VARIABLES
  rbgEnabled,  \* bit 0 of CONTROL
  rbgStatus,   \* STATUS
  rbgAt,       \* where thread_process is: waiting for m_event "idle" or
               \* "counted", or in the timed waits of "warming" or "counting"
  rbgNotified  \* m_event has made it runnable

rbgVars == <<rbgEnabled, rbgStatus, rbgAt, rbgNotified>>

NumberReady == NumberBits * OneBit + WarmedUp

RbgInit ==
  /\ rbgEnabled = FALSE /\ rbgStatus = 0
  /\ rbgAt = "idle" /\ rbgNotified = FALSE

-----------------------------------------------------------------------------

\* m_event.notify() is lost on a thread that is in a timed wait.
RbgNotify == rbgNotified' = (rbgAt \in {"idle", "counted"})

WriteRbgControl(on) ==
  /\ ~rbgNotified
  /\ rbgEnabled' = on
  /\ IF on # rbgEnabled THEN RbgNotify ELSE UNCHANGED rbgNotified
  /\ UNCHANGED <<rbgStatus, rbgAt>>

\* STATUS is stored as it is written.  Software leaves it alone while the
\* thread counts in it, where a write would make it miss its end.
WriteRbgStatus(v) ==
  /\ ~rbgNotified /\ ~rbgEnabled /\ rbgAt = "idle"
  /\ rbgStatus' = v
  /\ UNCHANGED <<rbgEnabled, rbgAt, rbgNotified>>

HasNumber ==
  /\ rbgEnabled
  /\ rbgStatus % OneBit = WarmedUp
  /\ rbgStatus \div OneBit = NumberBits

\* A read of RANDOM_NUM that returns a number; any other read returns 0 and
\* changes nothing.
ReadRandomNum ==
  /\ ~rbgNotified
  /\ HasNumber
  /\ RbgNotify
  /\ UNCHANGED <<rbgEnabled, rbgStatus, rbgAt>>

-----------------------------------------------------------------------------

\* The top of the loop that runs "as long as the peripheral is enabled".
NextCount ==
  IF rbgEnabled
  THEN rbgAt' = "counting" /\ rbgStatus' = WarmedUp
  ELSE rbgAt' = "idle" /\ UNCHANGED rbgStatus

\* Slip: the count of the last number is not reset.
RbgWakeKeepingCount ==
  /\ rbgNotified
  /\ rbgNotified' = FALSE
  /\ \/ rbgAt = "idle" /\ rbgAt' = "warming" /\ rbgStatus' = WarmUpStart
     \/ /\ rbgAt = "counted"
        /\ rbgAt' = IF rbgEnabled THEN "counting" ELSE "idle"
        /\ UNCHANGED rbgStatus
  /\ UNCHANGED rbgEnabled

\* thread_process from the event to a timed wait, or back to the event.
RbgWake ==
  /\ rbgNotified
  /\ rbgNotified' = FALSE
  /\ \/ rbgAt = "idle" /\ rbgAt' = "warming" /\ rbgStatus' = WarmUpStart
     \/ rbgAt = "counted" /\ NextCount
  /\ UNCHANGED rbgEnabled

WarmUp ==
  /\ rbgAt = "warming"
  /\ IF rbgStatus + 1 = WarmedUp
     THEN /\ rbgAt' = IF rbgEnabled THEN "counting" ELSE "idle"
          /\ rbgStatus' = WarmedUp
     ELSE rbgStatus' = (rbgStatus + 1) % StatusSize /\ UNCHANGED rbgAt
  /\ UNCHANGED <<rbgEnabled, rbgNotified>>

CountBit ==
  /\ rbgAt = "counting"
  /\ rbgStatus' = (rbgStatus + OneBit) % StatusSize
  /\ rbgAt' = IF rbgStatus' = NumberReady THEN "counted" ELSE rbgAt
  /\ UNCHANGED <<rbgEnabled, rbgNotified>>

RbgRegisters ==
  \/ \E on \in BOOLEAN : WriteRbgControl(on)
  \/ \E v \in 0 .. StatusSize-1 : WriteRbgStatus(v)
  \/ ReadRandomNum

RbgThread == RbgWake \/ WarmUp \/ CountBit

RbgNext == RbgRegisters \/ RbgThread

RbgSpec == RbgInit /\ [][RbgNext]_rbgVars

\* Timed waits end, and a thread that was notified runs.
RbgFairSpec == RbgSpec /\ WF_rbgVars(RbgThread)

-----------------------------------------------------------------------------

RbgTypeOK ==
  /\ rbgEnabled \in BOOLEAN /\ rbgNotified \in BOOLEAN
  /\ rbgStatus \in 0 .. StatusSize-1
  /\ rbgAt \in {"idle", "warming", "counting", "counted"}

\* "Here we should be in disabled", says the code of the wait for the
\* warm-up: enabling a generator whose thread is elsewhere notifies nobody.
IdleIsDisabled == rbgAt = "idle" /\ ~rbgNotified => ~rbgEnabled

\* Each number is counted: a number can be read only where the read will be
\* noticed, so it is not read twice.
ReadIsNoticed == HasNumber /\ ~rbgNotified => rbgAt = "counted"

CountEnds ==
  /\ rbgAt = "warming" => rbgStatus \in WarmUpStart .. WarmedUp-1
  /\ rbgAt = "counting" => \E k \in 0 .. NumberBits-1 : rbgStatus = WarmedUp + k * OneBit
  /\ rbgAt = "counted" => rbgStatus = NumberReady
  /\ rbgNotified => rbgAt \in {"idle", "counted"}

(***************************************************************************)
(* The inductive invariant: no notification that matters is lost, although *)
(* the thread hears only those given while it waits.                       *)
(***************************************************************************)
RbgInv == RbgTypeOK /\ IdleIsDisabled /\ ReadIsNoticed /\ CountEnds

(***************************************************************************)
(* A generator that stays enabled comes to the next number, however often  *)
(* it was enabled and disabled while it warmed up or counted.              *)
(***************************************************************************)
ServesNumbers == []<>(~rbgEnabled \/ HasNumber)
=============================================================================
