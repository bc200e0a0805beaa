-------------------------------- MODULE Bus ---------------------------------
(***************************************************************************)
(* The bus of the Top platform (src/src/tlm_blocks/Top/Bus/Bus.h):         *)
(* N_INITIATORS masters reach N_TARGETS targets through one b_transport    *)
(* that admits one transaction at a time.  Top builds it with one          *)
(* initiator; the template takes any number and so does the model.         *)
(*                                                                         *)
(* A request whose address decodes to no target returns at once and        *)
(* changes nothing, so it is a stutter here (see BusDecode).  Actions are  *)
(* the stretches between two waits, as in Mpa.                             *)
(***************************************************************************)
EXTENDS Integers

CONSTANT N \* N_INITIATORS

ASSUME NAssumption == N \in Nat \ {0}

VARIABLES
  pc,             \* where the thread of each initiator is
  is_pending,     \* m_pending[id].is_pending
  m_one_pending,
  m_free

vars == <<pc, is_pending, m_one_pending, m_free>>

Initiator == 0 .. N-1

\* "wait", "ready" and "forward" as in Mpa: blocked on its event, notified
\* but not run yet, and inside the target's b_transport.
Location == {"idle", "wait", "ready", "forward"}

Init ==
  /\ pc = [p \in Initiator |-> "idle"]
  /\ is_pending = [p \in Initiator |-> FALSE]
  /\ m_one_pending = FALSE
  /\ m_free = TRUE

-----------------------------------------------------------------------------

RequestFree(p) ==
  /\ pc[p] = "idle"
  /\ m_free
  /\ m_free' = FALSE
  /\ pc' = [pc EXCEPT ![p] = "forward"]
  /\ UNCHANGED <<is_pending, m_one_pending>>

RequestBusy(p) ==
  /\ pc[p] = "idle"
  /\ ~m_free
  /\ m_one_pending' = TRUE
  /\ is_pending' = [is_pending EXCEPT ![p] = TRUE]
  /\ pc' = [pc EXCEPT ![p] = "wait"]
  /\ UNCHANGED m_free

\* Slip: m_one_pending is cleared without a look at the other initiators.
ResumeForgetsOthers(p) ==
  /\ pc[p] = "ready"
  /\ is_pending' = [is_pending EXCEPT ![p] = FALSE]
  /\ m_one_pending' = FALSE
  /\ m_free' = FALSE
  /\ pc' = [pc EXCEPT ![p] = "forward"]

\* The notified thread does not look at m_free again.
Resume(p) ==
  /\ pc[p] = "ready"
  /\ is_pending' = [is_pending EXCEPT ![p] = FALSE]
  /\ m_one_pending' = \E q \in Initiator \ {p} : is_pending[q]
  /\ m_free' = FALSE
  /\ pc' = [pc EXCEPT ![p] = "forward"]

\* Slip: the scheduling loop runs from the last initiator down.
LastPending(q) ==
  /\ is_pending[q]
  /\ \A r \in Initiator : is_pending[r] => r =< q

FirstPending(q) ==
  /\ is_pending[q]
  /\ \A r \in Initiator : is_pending[r] => q =< r

\* The bus is marked as free first, then the first pending initiator, if
\* there is one, is notified.
FinishIdle(p) ==
  /\ pc[p] = "forward"
  /\ ~m_one_pending
  /\ m_free' = TRUE
  /\ pc' = [pc EXCEPT ![p] = "idle"]
  /\ UNCHANGED <<is_pending, m_one_pending>>

FinishNotify(p) ==
  /\ pc[p] = "forward"
  /\ m_one_pending
  /\ m_free' = TRUE
  /\ \E q \in Initiator :
        /\ FirstPending(q)
        /\ pc' = [pc EXCEPT ![p] = "idle",
                            ![q] = IF pc[q] = "wait" THEN "ready" ELSE @]
  /\ UNCHANGED <<is_pending, m_one_pending>>

Request(p) == RequestFree(p) \/ RequestBusy(p)

Finish(p) == FinishIdle(p) \/ FinishNotify(p)

Next == \E p \in Initiator : Request(p) \/ Resume(p) \/ Finish(p)

\* Runnable threads run and target delays are finite; requests are optional.
Fairness == \A p \in Initiator : WF_vars(Resume(p)) /\ WF_vars(Finish(p))

Spec == Init /\ [][Next]_vars

FairSpec == Spec /\ Fairness

-----------------------------------------------------------------------------

TypeOK ==
  /\ pc \in [Initiator -> Location]
  /\ is_pending \in [Initiator -> BOOLEAN]
  /\ m_one_pending \in BOOLEAN
  /\ m_free \in BOOLEAN

\* The marks the scheduling loop reads agree with where the threads are.
PendingMarks ==
  /\ \A p \in Initiator : is_pending[p] <=> pc[p] \in {"wait", "ready"}
  /\ m_one_pending <=> \E p \in Initiator : is_pending[p]

(***************************************************************************)
(* Although a notified thread and a newcomer can both enter, nobody is     *)
(* forgotten: whenever an initiator is blocked, some other is in service   *)
(* or about to be, and its Finish looks for the blocked one.               *)
(***************************************************************************)
NoStrandedRequest ==
  (\E p \in Initiator : pc[p] = "wait") =>
    \E q \in Initiator : pc[q] \in {"ready", "forward"}

\* A newcomer that finds the bus busy has somebody ahead of it.
BusyIsServed == ~m_free => \E q \in Initiator : pc[q] = "forward"

(***************************************************************************)
(* The inductive invariant: the state a Finish depends on, marks it can    *)
(* trust even when two transactions overlap, and nobody forgotten.         *)
(***************************************************************************)
IInv == TypeOK /\ PendingMarks /\ BusyIsServed /\ NoStrandedRequest

(***************************************************************************)
(* The first initiator is always served, whatever the others do.           *)
(***************************************************************************)
FirstServed == pc[0] = "wait" ~> pc[0] = "forward"
=============================================================================
