--------------------------------- MODULE Pmu --------------------------------
(***************************************************************************)
(* The clock error measurement of the Bob platform's power management unit *)
(* (src/src/tlm_blocks/Bob/Pmu): a write of CR_ERR_EN starts a thread that *)
(* delivers the result 10 us later.  As in Rbg, a notified thread runs     *)
(* before the next register access.  Software does not write the result.   *)
(***************************************************************************)
EXTENDS Integers

VARIABLES
  errEn,     \* CR_ERR_EN, 0 or 1
  errResult, \* CR_ERR_RESULT has the result of a measurement
  pmuAt      \* thread_process: "waiting" for m_event, notified and "woken",
             \* or "measuring"

pmuVars == <<errEn, errResult, pmuAt>>

PmuInit == errEn = 0 /\ errResult = FALSE /\ pmuAt = "waiting"

-----------------------------------------------------------------------------

\* m_event.notify() is lost on a thread that is measuring.
PmuNotify == pmuAt' = IF pmuAt = "waiting" THEN "woken" ELSE pmuAt

\* Slip: only the first request starts the thread.
WriteErrEnOnce(v) ==
  /\ pmuAt # "woken"
  /\ errEn' = 1
  /\ errResult' = (errResult /\ v = 0)
  /\ IF errEn = 0 THEN PmuNotify ELSE UNCHANGED pmuAt

\* A 0 becomes a 1 at once and starts a measurement too, which keeps the old
\* result until then.  Other values end the simulation.
WriteErrEn(v) ==
  /\ pmuAt # "woken"
  /\ errEn' = 1
  /\ errResult' = (errResult /\ v = 0)
  /\ PmuNotify

\* thread_process from the event: CR_ERR_EN is 1, and never 0, when it runs.
StartMeasuring ==
  /\ pmuAt = "woken" /\ errEn = 1
  /\ pmuAt' = "measuring"
  /\ UNCHANGED <<errEn, errResult>>

Measured ==
  /\ pmuAt = "measuring"
  /\ pmuAt' = "waiting"
  /\ errResult' = TRUE
  /\ UNCHANGED errEn

PmuThread == StartMeasuring \/ Measured

PmuNext == PmuThread \/ \E v \in {0, 1} : WriteErrEn(v)

PmuSpec == PmuInit /\ [][PmuNext]_pmuVars

PmuFairSpec == PmuSpec /\ WF_pmuVars(PmuThread)

-----------------------------------------------------------------------------

PmuTypeOK ==
  /\ errEn \in {0, 1} /\ errResult \in BOOLEAN
  /\ pmuAt \in {"waiting", "woken", "measuring"}

(***************************************************************************)
(* A result that was asked for and is not there yet is being worked on,    *)
(* although a request made during a measurement notifies nobody: it gets   *)
(* the result of the measurement before it.                                *)
(***************************************************************************)
PmuInv == PmuTypeOK /\ (errEn = 1 /\ ~errResult => pmuAt # "waiting")

(***************************************************************************)
(* Every request gets its result.                                          *)
(***************************************************************************)
ResultsCome == []<>(errEn = 0 \/ errResult)
=============================================================================
