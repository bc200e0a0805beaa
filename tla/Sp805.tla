------------------------------- MODULE Sp805 --------------------------------
(***************************************************************************)
(* The watchdog of the Bob platform                                        *)
(* (src/src/tlm_blocks/Arm/PrimeCells/Sp805/Sp805.h): a counter, simulated *)
(* by a timed event and a thread waiting for it, that raises an interrupt  *)
(* when it expires once and ends the simulation when it expires again.     *)
(*                                                                         *)
(* Time is counted in periods of the counter.  The effect of a register    *)
(* access follows a delay of its own and accesses are serialised by the    *)
(* bus, so an instant has one access at most; but a process woken at that  *)
(* instant may run before or after the access, and an event that has been  *)
(* triggered can no longer be cancelled.                                   *)
(***************************************************************************)
EXTENDS Integers

CONSTANT WdogFull \* the largest counter value (0xFFFFFFFF)

ASSUME FullAssumption == WdogFull \in Nat \ {0}

VARIABLES
  load, value, \* WDOGLOAD, WDOGVALUE
  control,     \* WDOGCONTROL: bit 0 inten, bit 1 resen
  ris,         \* WDOGRIS
  wdogLine,        \* the interrupt line
  locked, inted, stopped, \* m_locked, m_inted, m_stopped
  armed,       \* periods left until m_event is triggered, or WdogOff
  ready,       \* m_event was triggered and the thread has yet to run
  elapsed,     \* now - m_starttime, modulo WdogFull + 1 as VALUE is
  wdogAccessed,    \* the instant's register access is done
  reset,       \* the watchdog has ended the simulation
  since        \* history: periods since the mechanism was last fully reset

counter == <<value, inted, stopped, armed, elapsed, since>>
wdogVars == <<load, control, ris, wdogLine, locked, counter, ready, wdogAccessed, reset>>

WdogOff == -1
WdogWidth == WdogFull + 1
SinceBound == 2 * WdogFull \* "since" stops counting there

WdogControl == [inten : BOOLEAN, resen : BOOLEAN]

\* Parameters left at their default, m_lock_enabled included.
WdogInit ==
  /\ load = WdogFull /\ value = WdogFull
  /\ control = [inten |-> FALSE, resen |-> FALSE]
  /\ ris = FALSE /\ wdogLine = FALSE
  /\ locked = TRUE /\ inted = FALSE /\ stopped = TRUE
  /\ armed = WdogOff /\ ready = FALSE /\ elapsed = 0
  /\ wdogAccessed = FALSE /\ reset = FALSE /\ since = 0

-----------------------------------------------------------------------------

WdogUpdateInt == wdogLine' = (control'.inten /\ ris')

\* Slip: the flag of the first expiry survives a reload.
ReloadKeepsInted(full) ==
  /\ elapsed' = 0
  /\ armed' = load'
  /\ UNCHANGED <<value, inted>>
  /\ IF full THEN stopped' = FALSE /\ since' = 0
             ELSE UNCHANGED <<stopped, since>>

\* reload_counter(reset)
ReloadCounter(full) ==
  /\ elapsed' = 0
  /\ armed' = load'
  /\ UNCHANGED value
  /\ IF full THEN inted' = FALSE /\ stopped' = FALSE /\ since' = 0
             ELSE UNCHANGED <<inted, stopped, since>>

StopCounter ==
  /\ stopped' = TRUE
  /\ armed' = WdogOff
  /\ value' = (load - elapsed) % WdogWidth
  /\ UNCHANGED <<inted, elapsed, since>>

\* A register access: no other at this instant, none after the end.
WdogAccess ==
  /\ ~wdogAccessed /\ ~reset
  /\ wdogAccessed' = TRUE
  /\ UNCHANGED <<ready, reset>>

\* The registers below are guarded by the lock, and a LOAD of 0 is refused:
\* the code ends the simulation instead of making the access.
WdogWriteLoad(v) ==
  /\ WdogAccess
  /\ ~locked
  /\ v # 0
  /\ load' = v
  /\ ReloadCounter(TRUE)
  /\ UNCHANGED <<control, ris, locked>>
  /\ WdogUpdateInt

WdogWriteControl(c) ==
  /\ WdogAccess
  /\ ~locked
  /\ control' = c
  /\ UNCHANGED <<load, ris, locked>>
  /\ \/ ~control.inten /\ c.inten /\ ReloadCounter(TRUE)
     \/ control.inten /\ ~c.inten /\ StopCounter
     \/ control.inten = c.inten /\ UNCHANGED counter
  /\ WdogUpdateInt

WdogWriteIntClr ==
  /\ WdogAccess
  /\ ~locked
  /\ ris' = FALSE
  /\ UNCHANGED <<load, control, locked>>
  /\ ReloadCounter(TRUE)
  /\ WdogUpdateInt

WriteLock(l) ==
  /\ WdogAccess
  /\ locked' = l
  /\ UNCHANGED <<load, control, ris, counter>>
  /\ WdogUpdateInt

\* Slip: the counter is not reloaded after its first expiry.
ExpireOnce ==
  /\ ready /\ ~reset
  /\ ready' = FALSE
  /\ inted' = TRUE
  /\ ris' = TRUE
  /\ reset' = (inted /\ control.resen)
  /\ UNCHANGED <<load, value, control, locked, stopped, armed, elapsed, since,
                 wdogAccessed>>
  /\ WdogUpdateInt

\* thread_process from the event to the next wait.
WdogExpire ==
  /\ ready /\ ~reset
  /\ ready' = FALSE
  /\ \/ /\ ~inted
        /\ inted' = TRUE
        /\ ris' = TRUE
        /\ elapsed' = 0
        /\ armed' = load
        /\ reset' = FALSE
     \/ /\ inted
        /\ reset' = control.resen
        /\ UNCHANGED <<inted, ris, elapsed, armed>>
  /\ UNCHANGED <<load, value, control, locked, stopped, since, wdogAccessed>>
  /\ WdogUpdateInt

\* Time passes when no process can run.
WdogTick ==
  /\ ~ready /\ ~reset
  /\ wdogAccessed' = FALSE
  /\ elapsed' = (elapsed + 1) % WdogWidth
  /\ since' = IF since < SinceBound THEN since + 1 ELSE since
  /\ armed' = IF armed \in {WdogOff, 1} THEN WdogOff ELSE armed - 1
  /\ ready' = (armed = 1)
  /\ UNCHANGED <<load, value, control, ris, wdogLine, locked, inted, stopped, reset>>

WdogWrite ==
  \/ \E v \in 0 .. WdogFull : WdogWriteLoad(v)
  \/ \E c \in WdogControl : WdogWriteControl(c)
  \/ WdogWriteIntClr
  \/ \E l \in BOOLEAN : WriteLock(l)

WdogNext == WdogWrite \/ WdogExpire \/ WdogTick

WdogSpec == WdogInit /\ [][WdogNext]_wdogVars

\* The simulation kernel runs every runnable process and then lets time pass.
WdogFairSpec == WdogSpec /\ WF_wdogVars(WdogExpire) /\ WF_wdogVars(WdogTick)

-----------------------------------------------------------------------------

WdogTypeOK ==
  /\ load \in 1 .. WdogFull /\ value \in 0 .. WdogFull
  /\ control \in WdogControl
  /\ ris \in BOOLEAN /\ wdogLine \in BOOLEAN /\ locked \in BOOLEAN
  /\ inted \in BOOLEAN /\ stopped \in BOOLEAN
  /\ armed \in {WdogOff} \union (1 .. WdogFull) /\ ready \in BOOLEAN
  /\ elapsed \in 0 .. WdogFull
  /\ wdogAccessed \in BOOLEAN /\ reset \in BOOLEAN
  /\ since \in 0 .. SinceBound

\* An armed event and the elapsed time make a period.
WdogPeriodConserved == armed # WdogOff => armed + elapsed = load

(***************************************************************************)
(* The second stage is never reached with the interrupt of the first       *)
(* cleared: whatever order register writes and expiries come in, at the    *)
(* same instant or not, m_inted is set only while WDOGRIS is.              *)
(***************************************************************************)
InterruptFirst == inted => ris

\* At least a period has passed since the mechanism was last fully reset
\* when the counter has already expired once and expires again.
PeriodPassed ==
  /\ inted /\ armed # WdogOff => since >= elapsed
  /\ inted /\ ready => since >= load
  /\ reset => since >= load

(***************************************************************************)
(* The inductive invariant: the interrupt line is the masked raw status,   *)
(* the pending period is conserved, and the simulation is reset only with  *)
(* the interrupt of the first expiry still pending, the reset enabled, and *)
(* a whole period at least after the last LOAD or INTCLR write or          *)
(* enabling.                                                               *)
(***************************************************************************)
WdogInv ==
  /\ WdogTypeOK
  /\ wdogLine = (control.inten /\ ris)
  /\ WdogPeriodConserved
  /\ InterruptFirst
  /\ PeriodPassed
  /\ reset => inted /\ control.resen

(***************************************************************************)
(* The comment on the INTCLR write: it shall "reset entirely the counting  *)
(* mechanism", so that the reset comes two periods later at the earliest.  *)
(***************************************************************************)
KickGivesTwoPeriods == reset => since >= 2 * load

(***************************************************************************)
(* A watchdog whose event is armed and whose reset is enabled ends the     *)
(* simulation unless software writes one of its registers again.           *)
(***************************************************************************)
Bites == [](armed # WdogOff /\ control.resen /\ [](~wdogAccessed) => <>reset)
=============================================================================
