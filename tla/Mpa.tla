-------------------------------- MODULE Mpa ---------------------------------
(***************************************************************************)
(* The Multi Port Arbiter of the Bob platform                              *)
(* (src/src/tlm_blocks/Generic/Mpa/Mpa.h): N_MASTERS ports share one       *)
(* memory side.                                                            *)
(*                                                                         *)
(* SystemC threads are cooperative: a thread gives up the processor only   *)
(* in wait(), so an action is the stretch of bus_s_b_transport one thread  *)
(* runs between two waits.  sc_event::notify() makes runnable the threads  *)
(* that wait on the event at that moment, and is lost on any other; a      *)
(* runnable thread runs later, after any number of other runnable threads. *)
(***************************************************************************)
EXTENDS Integers

CONSTANT N \* N_MASTERS, the number of ports

ASSUME NAssumption == N \in Nat \ {0}

VARIABLES
  pc,             \* where the master thread of each port is
  is_pending,     \* m_pending[id].is_pending
  m_one_pending,
  m_free

vars == <<pc, is_pending, m_one_pending, m_free>>

Port == 0 .. N-1

(***************************************************************************)
(* "idle"    the master runs outside the arbiter, or waits elsewhere       *)
(* "wait"    blocked in wait(m_pending[id].event)                          *)
(* "ready"   notified, in the kernel's list of runnable threads            *)
(* "forward" inside bus_m_socket->b_transport(), where the target waits    *)
(***************************************************************************)
Location == {"idle", "wait", "ready", "forward"}

Init ==
  /\ pc = [p \in Port |-> "idle"]
  /\ is_pending = [p \in Port |-> FALSE]
  /\ m_one_pending = FALSE
  /\ m_free = TRUE

-----------------------------------------------------------------------------

\* Slip: the bus is not marked as busy when it is taken.
RequestLeavesFree(p) ==
  /\ pc[p] = "idle"
  /\ m_free
  /\ pc' = [pc EXCEPT ![p] = "forward"]
  /\ UNCHANGED <<is_pending, m_one_pending, m_free>>

\* A request that finds the bus free is forwarded without a wait.
RequestFree(p) ==
  /\ pc[p] = "idle"
  /\ m_free
  /\ m_free' = FALSE
  /\ pc' = [pc EXCEPT ![p] = "forward"]
  /\ UNCHANGED <<is_pending, m_one_pending>>

\* A request that finds the bus busy is recorded and waits to be scheduled.
RequestBusy(p) ==
  /\ pc[p] = "idle"
  /\ ~m_free
  /\ m_one_pending' = TRUE
  /\ is_pending' = [is_pending EXCEPT ![p] = TRUE]
  /\ pc' = [pc EXCEPT ![p] = "wait"]
  /\ UNCHANGED m_free

\* Slip: m_one_pending is cleared without a look at the other ports.
ResumeForgetsOthers(p) ==
  /\ pc[p] = "ready"
  /\ is_pending' = [is_pending EXCEPT ![p] = FALSE]
  /\ m_one_pending' = FALSE
  /\ m_free' = FALSE
  /\ pc' = [pc EXCEPT ![p] = "forward"]

\* A scheduled request clears its mark, looks for others and is forwarded.
Resume(p) ==
  /\ pc[p] = "ready"
  /\ is_pending' = [is_pending EXCEPT ![p] = FALSE]
  /\ m_one_pending' = \E q \in Port \ {p} : is_pending[q]
  /\ m_free' = FALSE
  /\ pc' = [pc EXCEPT ![p] = "forward"]

\* Slip: the scheduling loop runs from the last port down.
LastPending(q) ==
  /\ is_pending[q]
  /\ \A r \in Port : is_pending[r] => r =< q

\* q is the first port in the order of the scheduling loop.
FirstPending(q) ==
  /\ is_pending[q]
  /\ \A r \in Port : is_pending[r] => q =< r

\* The transaction is over and nobody waits: the bus becomes free.
FinishFree(p) ==
  /\ pc[p] = "forward"
  /\ ~m_one_pending
  /\ m_free' = TRUE
  /\ pc' = [pc EXCEPT ![p] = "idle"]
  /\ UNCHANGED <<is_pending, m_one_pending>>

\* Slip: the bus is marked as free even though it is handed over.
FinishNotifyFrees(p) ==
  /\ pc[p] = "forward"
  /\ m_one_pending
  /\ \E q \in Port :
        /\ FirstPending(q)
        /\ pc' = [pc EXCEPT ![p] = "idle",
                            ![q] = IF pc[q] = "wait" THEN "ready" ELSE @]
  /\ m_free' = TRUE
  /\ UNCHANGED <<is_pending, m_one_pending>>

\* The transaction is over and the first pending port is notified, which is
\* lost unless it is blocked in its wait.  The bus stays busy.
FinishNotify(p) ==
  /\ pc[p] = "forward"
  /\ m_one_pending
  /\ \E q \in Port :
        /\ FirstPending(q)
        /\ pc' = [pc EXCEPT ![p] = "idle",
                            ![q] = IF pc[q] = "wait" THEN "ready" ELSE @]
  /\ UNCHANGED <<is_pending, m_one_pending, m_free>>

Request(p) == RequestFree(p) \/ RequestBusy(p)

Finish(p) == FinishFree(p) \/ FinishNotify(p)

Next == \E p \in Port : Request(p) \/ Resume(p) \/ Finish(p)

(***************************************************************************)
(* The kernel runs every runnable thread, and a target's wait has a finite *)
(* delay.  A master need not make requests.                                *)
(***************************************************************************)
Fairness == \A p \in Port : WF_vars(Resume(p)) /\ WF_vars(Finish(p))

Spec == Init /\ [][Next]_vars

FairSpec == Spec /\ Fairness

-----------------------------------------------------------------------------

TypeOK ==
  /\ pc \in [Port -> Location]
  /\ is_pending \in [Port -> BOOLEAN]
  /\ m_one_pending \in BOOLEAN
  /\ m_free \in BOOLEAN

\* The ports the bus belongs to: the one being served, or the one that has
\* been notified and has not run yet.
Granted == {p \in Port : pc[p] \in {"ready", "forward"}}

(***************************************************************************)
(* The memory side serves one master at a time: the threads of two ports   *)
(* are never both inside bus_m_socket->b_transport().  A notified thread   *)
(* does not test m_free again, so this rests on Finish leaving the bus     *)
(* busy while it hands it over.                                            *)
(***************************************************************************)
MutualExclusion ==
  \A p, q \in Port : pc[p] = "forward" /\ pc[q] = "forward" => p = q

(***************************************************************************)
(* A waiting master is never forgotten: while one is blocked, the bus is   *)
(* granted to some other, whose Finish will look for it.                   *)
(***************************************************************************)
NoStrandedRequest ==
  (\E p \in Port : pc[p] = "wait") => ~m_free /\ Granted # {}

(***************************************************************************)
(* The bus is busy exactly while it is granted to one port.                *)
(***************************************************************************)
OneGrant ==
  /\ m_free <=> Granted = {}
  /\ \A p, q \in Granted : p = q

\* The marks the scheduling loop reads agree with where the threads are.
PendingMarks ==
  /\ \A p \in Port : is_pending[p] <=> pc[p] \in {"wait", "ready"}
  /\ m_one_pending <=> \E p \in Port : is_pending[p]

\* The inductive invariant.
IInv == TypeOK /\ PendingMarks /\ OneGrant /\ NoStrandedRequest

(***************************************************************************)
(* A thread is released from its wait only when no thread of a higher      *)
(* priority port is blocked: what "schedule the highest priority" says.    *)
(***************************************************************************)
PriorityOrder ==
  [][\A p, q \in Port :
        pc[p] = "wait" /\ pc'[p] = "ready" /\ pc[q] = "wait" => p =< q]_vars

(***************************************************************************)
(* The two highest priority ports are never starved, whatever the others   *)
(* do: port 1 is overtaken at most once, since port 0 is not waiting when  *)
(* its own transaction ends.  Bob has two masters, so every request of its *)
(* CPU and of its DMA controller is served.  Port 2 can starve.            *)
(***************************************************************************)
TwoHighestServed ==
  \A p \in Port : p < 2 => []<>(pc[p] \notin {"wait", "ready"})

-----------------------------------------------------------------------------

\* Mpa implements Arbiter: a port owns the bus from its notification on.
NoPort == -1

Owner ==
  IF Granted = {} THEN NoPort ELSE CHOOSE p \in Port : p \in Granted

A == INSTANCE Arbiter WITH
       owner <- Owner,
       queue <- {p \in Port : pc[p] = "wait"}

(***************************************************************************)
(* Every step of the arbiter is a step of Arbiter or a stutter: taking the *)
(* two marks, the per-port events and the kernel's run list for what they  *)
(* are, the masters see one owner and an immediate, prioritised hand over. *)
(***************************************************************************)
ImplementsArbiter == A!Spec
=============================================================================
