----------------------------- MODULE MpaProofs ------------------------------
(***************************************************************************)
(* Proofs about the Multi Port Arbiter, for any number of ports.           *)
(***************************************************************************)
EXTENDS Mpa, TLAPS

(***************************************************************************)
(* OneGrant and PendingMarks are inductive together: a thread is only made *)
(* ready by the Finish of the one owner, and m_one_pending tells that      *)
(* owner whether giving the bus back would forget somebody.                *)
(***************************************************************************)
LEMMA InitIInv == Init => IInv
  BY NAssumption
  DEF Init, IInv, TypeOK, PendingMarks, OneGrant, NoStrandedRequest, Granted,
      Location, Port

\* A request that finds the bus free becomes the one grant.
LEMMA RequestFreeIInv ==
  ASSUME IInv, NEW p \in Port, RequestFree(p)
  PROVE  IInv'
<1> USE DEF IInv
<1>1. TypeOK'
  BY DEF RequestFree, TypeOK, Location
<1>2. PendingMarks'
  BY DEF RequestFree, TypeOK, PendingMarks
<1>3. OneGrant'
  <2>1. Granted' = {p}
    BY DEF RequestFree, TypeOK, OneGrant, Granted
  <2> QED
    BY <2>1 DEF RequestFree, OneGrant
<1>4. NoStrandedRequest'
  <2>1. p \in Granted'
    BY DEF RequestFree, TypeOK, Granted
  <2> QED
    BY <2>1 DEF RequestFree, NoStrandedRequest
<1> QED
  BY <1>1, <1>2, <1>3, <1>4

\* A request that waits leaves the grant where it is.
LEMMA RequestBusyIInv ==
  ASSUME IInv, NEW p \in Port, RequestBusy(p)
  PROVE  IInv'
<1> USE DEF IInv
<1>1. TypeOK'
  BY DEF RequestBusy, TypeOK, Location
<1>2. PendingMarks'
  BY DEF RequestBusy, TypeOK, PendingMarks
<1>3. OneGrant'
  <2>1. Granted' = Granted
    BY DEF RequestBusy, TypeOK, Granted
  <2> QED
    BY <2>1 DEF RequestBusy, OneGrant
<1>4. NoStrandedRequest'
  <2>1. Granted' = Granted /\ Granted # {}
    BY DEF RequestBusy, TypeOK, OneGrant, Granted
  <2> QED
    BY <2>1 DEF RequestBusy, NoStrandedRequest
<1> QED
  BY <1>1, <1>2, <1>3, <1>4

\* The notified thread keeps the grant it was given.
LEMMA ResumeIInv ==
  ASSUME IInv, NEW p \in Port, Resume(p)
  PROVE  IInv'
<1> USE DEF IInv
<1>1. TypeOK'
  BY DEF Resume, TypeOK, Location
<1>2. PendingMarks'
  BY DEF Resume, TypeOK, PendingMarks
<1>3. OneGrant'
  <2>1. Granted' = Granted /\ p \in Granted
    BY DEF Resume, TypeOK, Granted
  <2> QED
    BY <2>1 DEF Resume, OneGrant
<1>4. NoStrandedRequest'
  <2>1. p \in Granted'
    BY DEF Resume, TypeOK, Granted
  <2> QED
    BY <2>1 DEF Resume, NoStrandedRequest
<1> QED
  BY <1>1, <1>2, <1>3, <1>4

\* Nobody is pending, so the grant disappears and the bus is free.
LEMMA FinishFreeIInv ==
  ASSUME IInv, NEW p \in Port, FinishFree(p)
  PROVE  IInv'
<1> USE DEF IInv
<1>1. TypeOK'
  BY DEF FinishFree, TypeOK, Location
<1>2. PendingMarks'
  BY DEF FinishFree, TypeOK, PendingMarks
<1>3. OneGrant'
  <2>1. Granted = {p}
    BY DEF FinishFree, OneGrant, Granted
  <2>2. Granted' = {}
    BY <2>1 DEF FinishFree, TypeOK, Granted
  <2> QED
    BY <2>2 DEF FinishFree, OneGrant
<1>4. NoStrandedRequest'
  BY DEF FinishFree, TypeOK, PendingMarks, NoStrandedRequest
<1> QED
  BY <1>1, <1>2, <1>3, <1>4

\* The first pending port q cannot have been notified before, for the grant
\* was p's: so q waits, the notification reaches it and the grant moves.
LEMMA FinishNotifyIInv ==
  ASSUME IInv, NEW p \in Port, FinishNotify(p)
  PROVE  IInv'
<1> USE DEF IInv
<1>1. PICK q \in Port :
        /\ FirstPending(q)
        /\ pc' = [pc EXCEPT ![p] = "idle",
                            ![q] = IF pc[q] = "wait" THEN "ready" ELSE @]
  BY DEF FinishNotify
<1>2. Granted = {p}
  BY DEF FinishNotify, OneGrant, Granted
<1>3. pc[q] = "wait" /\ q # p
  BY <1>1, <1>2 DEF FinishNotify, FirstPending, PendingMarks, Granted
<1>4. pc' = [pc EXCEPT ![p] = "idle", ![q] = "ready"]
  BY <1>1, <1>3 DEF TypeOK
<1>5. TypeOK'
  BY <1>4 DEF FinishNotify, TypeOK, Location
<1>6. PendingMarks'
  BY <1>3, <1>4 DEF FinishNotify, TypeOK, PendingMarks
<1>7. OneGrant'
  <2>1. Granted' = {q}
    BY <1>2, <1>3, <1>4 DEF TypeOK, Granted
  <2> QED
    BY <1>2, <2>1 DEF FinishNotify, OneGrant
<1>8. NoStrandedRequest'
  <2>1. q \in Granted'
    BY <1>4 DEF TypeOK, Granted
  <2>2. ~m_free
    BY <1>2 DEF OneGrant
  <2> QED
    BY <2>1, <2>2 DEF FinishNotify, NoStrandedRequest
<1> QED
  BY <1>5, <1>6, <1>7, <1>8

LEMMA NextIInv == IInv /\ [Next]_vars => IInv'
<1> SUFFICES ASSUME IInv, [Next]_vars
             PROVE  IInv'
  OBVIOUS
<1>1. CASE UNCHANGED vars
  BY <1>1
  DEF vars, IInv, TypeOK, PendingMarks, OneGrant, NoStrandedRequest, Granted
<1>2. ASSUME NEW p \in Port, Request(p) \/ Resume(p) \/ Finish(p)
      PROVE  IInv'
  BY <1>2, RequestFreeIInv, RequestBusyIInv, ResumeIInv, FinishFreeIInv,
     FinishNotifyIInv
  DEF Request, Finish
<1> QED
  BY <1>1, <1>2 DEF Next

(***************************************************************************)
(* The bus is always granted to at most one port, is free exactly when it  *)
(* is not, and the pending marks agree with the threads' places.           *)
(***************************************************************************)
THEOREM Invariance == Spec => []IInv
  BY InitIInv, NextIInv, PTL DEF Spec

(***************************************************************************)
(* For any number of masters, no two transactions are ever at the memory   *)
(* side together (bus_s_b_transport, Mpa.h:99).                            *)
(***************************************************************************)
THEOREM Exclusion == Spec => []MutualExclusion
<1>1. IInv => MutualExclusion
  BY DEF IInv, OneGrant, Granted, MutualExclusion
<1> QED
  BY <1>1, Invariance, PTL

(***************************************************************************)
(* For any number of masters, a blocked request always has a port ahead of *)
(* it that holds the bus and will notify on its way out (Mpa.h:139).       *)
(***************************************************************************)
THEOREM NoLostRequest == Spec => []NoStrandedRequest
<1>1. IInv => NoStrandedRequest
  BY DEF IInv
<1> QED
  BY <1>1, Invariance, PTL

-----------------------------------------------------------------------------

(***************************************************************************)
(* The scheduling loop never passes over a blocked port of higher priority *)
(* (the ascending loop at Mpa.h:141).                                      *)
(***************************************************************************)
THEOREM Priority == Spec => PriorityOrder
<1>1. IInv /\ [Next]_vars =>
        [\A p, q \in Port :
            pc[p] = "wait" /\ pc'[p] = "ready" /\ pc[q] = "wait" => p =< q]_vars
  <2> SUFFICES ASSUME IInv, Next, NEW p \in Port, NEW q \in Port,
                      pc[p] = "wait", pc'[p] = "ready", pc[q] = "wait"
               PROVE  p =< q
    BY DEF vars
  <2>1. PICK r \in Port : FinishNotify(r)
    BY DEF Next, Request, RequestFree, RequestBusy, Resume, Finish, FinishFree,
           IInv, TypeOK
  <2>2. FirstPending(p)
    BY <2>1 DEF FinishNotify, IInv, TypeOK
  <2> QED
    BY <2>2 DEF FirstPending, IInv, PendingMarks
<1> QED
  BY <1>1, Invariance, PTL DEF Spec, PriorityOrder

-----------------------------------------------------------------------------

\* With one grant, Owner is the port that has it.
LEMMA OwnerIsGrant ==
  ASSUME NEW p \in Port, Granted = {p}
  PROVE  Owner = p
  BY DEF Owner

LEMMA OwnerIsGrantNext ==
  ASSUME NEW p \in Port, Granted' = {p}
  PROVE  Owner' = p
  BY DEF Owner

LEMMA InitRefines == Init => A!Init
  BY DEF Init, A!Init, Owner, Granted

LEMMA StepRefines == IInv /\ [Next]_vars => [A!Next]_(A!vars)
<1> SUFFICES ASSUME IInv, [Next]_vars
             PROVE  [A!Next]_(A!vars)
  OBVIOUS
<1> DEFINE Waiting == {p \in Port : pc[p] = "wait"}
<1> USE DEF IInv
<1>0. Port = A!Port
  BY DEF Port, A!Port
<1>1. CASE UNCHANGED vars
  BY <1>1 DEF vars, A!vars, Owner, Granted
<1>2. ASSUME NEW p \in Port, RequestFree(p)
      PROVE  A!Take(p)
  <2>1. Granted = {} /\ Granted' = {p}
    BY <1>2 DEF RequestFree, TypeOK, OneGrant, Granted
  <2>2. Waiting' = Waiting
    BY <1>2 DEF RequestFree, TypeOK
  <2> QED
    BY <2>1, <2>2, OwnerIsGrantNext DEF A!Take, Owner
<1>3. ASSUME NEW p \in Port, RequestBusy(p)
      PROVE  A!Enqueue(p)
  <2>1. PICK o \in Port : Granted = {o}
    BY <1>3 DEF RequestBusy, OneGrant, Granted
  <2>2. Granted' = Granted /\ o # p
    BY <1>3, <2>1 DEF RequestBusy, TypeOK, Granted
  <2>3. Owner = o /\ Owner' = o
    BY <2>1, <2>2, OwnerIsGrant, OwnerIsGrantNext
  <2>4. Waiting' = Waiting \cup {p} /\ p \notin Waiting
    BY <1>3 DEF RequestBusy, TypeOK
  <2> QED
    BY <2>2, <2>3, <2>4 DEF A!Enqueue, NoPort, Port
<1>4. ASSUME NEW p \in Port, Resume(p)
      PROVE  UNCHANGED A!vars
  <2>1. Granted' = Granted
    BY <1>4 DEF Resume, TypeOK, Granted
  <2>2. Waiting' = Waiting
    BY <1>4 DEF Resume, TypeOK
  <2> QED
    BY <2>1, <2>2 DEF A!vars, Owner
<1>5. ASSUME NEW p \in Port, FinishFree(p)
      PROVE  A!Release
  <2>1. Granted = {p} /\ Waiting = {}
    BY <1>5 DEF FinishFree, OneGrant, PendingMarks, Granted
  <2>2. Granted' = {} /\ Waiting' = {}
    BY <1>5, <2>1 DEF FinishFree, TypeOK, Granted
  <2>3. Owner = p /\ Owner' = NoPort
    BY <2>1, <2>2, OwnerIsGrant DEF Owner
  <2> QED
    BY <2>1, <2>2, <2>3 DEF A!Release, NoPort, Port
<1>6. ASSUME NEW p \in Port, FinishNotify(p)
      PROVE  A!HandOver
  <2>1. Granted = {p}
    BY <1>6 DEF FinishNotify, OneGrant, Granted
  <2>2. PICK q \in Port :
          /\ FirstPending(q)
          /\ pc' = [pc EXCEPT ![p] = "idle",
                              ![q] = IF pc[q] = "wait" THEN "ready" ELSE @]
    BY <1>6 DEF FinishNotify
  <2>3. pc[q] = "wait" /\ q # p
    BY <1>6, <2>1, <2>2 DEF FinishNotify, FirstPending, PendingMarks, Granted
  <2>4. pc' = [pc EXCEPT ![p] = "idle", ![q] = "ready"]
    BY <2>2, <2>3 DEF TypeOK
  <2>5. Granted' = {q} /\ Waiting' = Waiting \ {q}
    BY <1>6, <2>1, <2>3, <2>4 DEF FinishNotify, TypeOK, Granted
  <2>6. q \in Waiting /\ \A r \in Waiting : q =< r
    BY <2>2, <2>3 DEF FirstPending, PendingMarks
  <2>7. A!Highest(Waiting) = q
    BY <2>6 DEF A!Highest, Port
  <2>8. Owner = p /\ Owner' = q
    BY <2>1, <2>5, OwnerIsGrant, OwnerIsGrantNext
  <2>9. Owner # NoPort /\ Waiting # {}
    BY <2>6, <2>8 DEF NoPort, Port
  <2>10. Owner' = A!Highest(Waiting) /\ Waiting' = Waiting \ {A!Highest(Waiting)}
    BY <2>5, <2>7, <2>8
  <2> QED
    BY <2>9, <2>10 DEF A!HandOver
<1> QED
  BY <1>0, <1>1, <1>2, <1>3, <1>4, <1>5, <1>6
  DEF Next, Request, Finish, A!Next

(***************************************************************************)
(* For any number of ports the arbiter implements Arbiter: one owner, an   *)
(* immediate hand over to the waiting port of highest priority, and no     *)
(* idle bus while a port waits.                                            *)
(***************************************************************************)
THEOREM Implementation == Spec => ImplementsArbiter
  BY InitRefines, StepRefines, Invariance, PTL
  DEF Spec, ImplementsArbiter, A!Spec
=============================================================================
