---------------------------- MODULE BlocksProofs ----------------------------
(***************************************************************************)
(* Proofs about the blocks that run by themselves or interrupt the CPU,    *)
(* each of its own specification and for any values of its constants: the  *)
(* invariants that TLC checks in MCBlocks.                                 *)
(***************************************************************************)
EXTENDS MCBlocks, SequenceTheorems, WellFoundedInduction, TLAPS

\* The loops of the interrupt controllers, which stop at the first source,
\* find the least one of a set of numbers.
LEMMA LeastElement ==
  ASSUME NEW S, S \subseteq Nat, S # {}
  PROVE  \E i \in S : \A j \in S : i =< j
<1> DEFINE Less == {ss \in Nat \X Nat : ss[1] < ss[2]}
<1>1. IsWellFoundedOn(Less, Nat)
  BY NatLessThanWellFounded DEF OpToRel
<1>2. PICK i \in S : \A j \in S : ~(<<j, i>> \in Less)
  <2> HIDE DEF Less
  <2> QED
    BY <1>1, WFMin
<1>3. ASSUME NEW j \in S
      PROVE  i =< j
  <2> DEFINE p == <<j, i>>
  <2>1. i \in Nat /\ j \in Nat
    OBVIOUS
  <2>2. p \in Nat \X Nat /\ p[1] = j /\ p[2] = i
    BY <2>1
  <2>3. p \notin Less
    BY <1>2
  <2>4. ~(p[1] < p[2])
    BY <2>2, <2>3, Zenon
  <2> QED
    BY <2>1, <2>2, <2>4
<1> QED
  BY <1>3

-----------------------------------------------------------------------------

\* check_int leaves the registers of a handler as the sources have them.
LEMMA AicCheckCurrent ==
  ASSUME AicTypeOK,
         ipr' \subseteq AicSources, imr' \subseteq AicSources, ffsr' \subseteq AicSources,
         svr' \in [AicSources -> Vectors],
         AicCheckInt
  PROVE  AicInv'
<1> DEFINE fast == Fast'
           norm == Normal'
<1>1. /\ fast \subseteq AicSources /\ norm \subseteq AicSources
      /\ fast \subseteq Nat /\ norm \subseteq Nat
  BY AicSourcesAssumption DEF Fast, Normal
<1>2. /\ ("NFIQ" \in cisr') = (fast # {})
      /\ ("NIRQ" \in cisr') = (norm # {})
      /\ cisr' \subseteq {"NFIQ", "NIRQ"}
  BY DEF AicCheckInt
<1>3. /\ fast # {} => Lowest(fast) \in fast /\ \A j \in fast : Lowest(fast) =< j
      /\ norm # {} => Lowest(norm) \in norm /\ \A j \in norm : Lowest(norm) =< j
  BY <1>1, LeastElement DEF Lowest
<1>4. /\ fast # {} => isr' = Lowest(fast) /\ fvr' = svr'[0]
      /\ norm # {} => ivr' = svr'[Lowest(norm)]
      /\ fast = {} /\ norm # {} => isr' = Lowest(norm)
      /\ fast = {} /\ norm = {} => isr' = isr
      /\ fast = {} => fvr' = fvr
      /\ norm = {} => ivr' = ivr
  BY DEF AicCheckInt
<1>5. AicTypeOK'
  BY <1>1, <1>2, <1>3, <1>4, AicSourcesAssumption DEF AicTypeOK
<1>6. fast = {i \in ipr' \intersect imr' : i \in ffsr' \union {0}}
  BY DEF Fast
<1>7. norm = {i \in ipr' \intersect imr' : i \notin ffsr' \union {0}}
  BY DEF Normal
<1>8. HandlerIsCurrent'
  <2> HIDE DEF fast, norm
  <2>1. ("NFIQ" \in cisr' <=> \E i \in ipr' \intersect imr' : i \in ffsr' \union {0})
    BY <1>2, <1>6
  <2>2. ("NIRQ" \in cisr' <=> \E i \in ipr' \intersect imr' : i \notin ffsr' \union {0})
    BY <1>2, <1>7
  <2>3. "NFIQ" \in cisr' =>
          /\ fvr' = svr'[0]
          /\ isr' \in fast
          /\ \A i \in ipr' \intersect imr' \intersect (ffsr' \union {0}) : isr' =< i
    BY <1>2, <1>3, <1>4, <1>6
  <2>4. "NIRQ" \in cisr' =>
          \E i \in norm : /\ ivr' = svr'[i]
                          /\ \A j \in (ipr' \intersect imr') \ (ffsr' \union {0}) : i =< j
    BY <1>2, <1>3, <1>4, <1>7
  <2>5. cisr' = {"NIRQ"} => ivr' = svr'[isr']
    BY <1>2, <1>4
  <2> QED
    BY <2>1, <2>2, <2>3, <2>4, <2>5 DEF HandlerIsCurrent, fast, norm
<1> QED
  BY <1>5, <1>8 DEF AicInv

\* Whatever the number of sources and the vectors: lines, current source and
\* vectors are those of a source that is pending, enabled, and the first of
\* its kind.
THEOREM AicInvariance == AicSpec => []AicInv
<1>1. AicInit => AicInv
  BY AicSourcesAssumption, VectorsAssumption
  DEF AicInit, AicInv, AicTypeOK, HandlerIsCurrent, Fast, Normal
<1>2. ASSUME AicInv, [AicNext]_aicVars
      PROVE  AicInv'
  <2>0. AicTypeOK
    BY <1>2 DEF AicInv
  <2>1. CASE UNCHANGED aicVars
    BY <1>2, <2>1 DEF aicVars, aicRegisters, AicInv, AicTypeOK, HandlerIsCurrent, Fast, Normal
  <2>2. ASSUME NEW i \in AicSources, AicInterruptSet(i) \/ AicInterruptClr(i)
        PROVE  AicInv'
    BY <2>0, <2>2, AicCheckCurrent DEF AicInterruptSet, AicInterruptClr, AicTypeOK
  <2>3. ASSUME NEW v \in AicMasks,
               WriteIecr(v) \/ WriteIdcr(v) \/ WriteFfer(v) \/ WriteFfdr(v) \/ WriteIpr(v)
        PROVE  AicInv'
    <3>1. v \subseteq AicSources
      BY AicMasksAssumption
    <3> QED
      BY <2>0, <2>3, <3>1, AicCheckCurrent
      DEF WriteIecr, WriteIdcr, WriteFfer, WriteFfdr, WriteIpr, AicTypeOK
  <2>4. ASSUME NEW i \in AicSources, NEW a \in Vectors, WriteSvr(i, a)
        PROVE  AicInv'
    BY <2>0, <2>4, AicCheckCurrent DEF WriteSvr, AicTypeOK
  <2> QED
    BY <1>2, <2>1, <2>2, <2>3, <2>4 DEF AicNext, AicRegisters
<1> QED
  BY <1>1, <1>2, PTL DEF AicSpec

-----------------------------------------------------------------------------

LEMMA StatusFacts ==
  /\ WarmUpStart \in Nat /\ WarmedUp \in Nat /\ OneBit \in Nat /\ NumberBits \in Nat
  /\ StatusSize \in Nat /\ 0 < WarmUpStart /\ WarmUpStart < WarmedUp /\ WarmedUp < OneBit
  /\ 0 < NumberBits /\ OneBit =< StatusSize
<1>1. OneBit =< (NumberBits + 1) * OneBit
  BY StatusAssumption
<1> QED
  BY <1>1, StatusAssumption

\* The values STATUS is set to, and counts through while it warms up.
LEMMA WarmUpRange ==
  /\ 0 \in 0 .. StatusSize-1 /\ WarmUpStart \in 0 .. StatusSize-1
  /\ WarmedUp \in 0 .. StatusSize-1 /\ WarmUpStart \in WarmUpStart .. WarmedUp-1
  /\ 0 \in 0 .. NumberBits-1 /\ WarmedUp = WarmedUp + 0 * OneBit
BY StatusFacts

\* The numbers STATUS goes through while bits are counted.
LEMMA StatusRange ==
  ASSUME NEW k \in 0 .. NumberBits
  PROVE  /\ WarmedUp + k * OneBit \in 0 .. StatusSize-1
         /\ (WarmedUp + k * OneBit) % OneBit = WarmedUp
         /\ (WarmedUp + k * OneBit) \div OneBit = k
<1>1. /\ WarmedUp \in Nat /\ OneBit \in Nat /\ NumberBits \in Nat /\ StatusSize \in Nat
      /\ 0 < WarmedUp /\ WarmedUp < OneBit /\ k \in Nat /\ k =< NumberBits
      /\ (NumberBits + 1) * OneBit =< StatusSize
  BY StatusAssumption
<1>2. k * OneBit =< NumberBits * OneBit /\ k * OneBit \in Nat
  BY <1>1
<1>3. (NumberBits + 1) * OneBit = NumberBits * OneBit + OneBit
  BY <1>1
<1>4. WarmedUp + k * OneBit \in 0 .. StatusSize-1
  BY <1>1, <1>2, <1>3
<1>5. /\ (WarmedUp + k * OneBit) % OneBit = WarmedUp
      /\ (WarmedUp + k * OneBit) \div OneBit = k
  BY <1>1
<1> QED
  BY <1>4, <1>5

\* A number is there only when the count has come to its end.
LEMMA NumberCounted ==
  ASSUME NEW status, NEW at,
         at = "warming" => status \in WarmUpStart .. WarmedUp-1,
         at = "counting" => \E k \in 0 .. NumberBits-1 : status = WarmedUp + k * OneBit,
         status % OneBit = WarmedUp, status \div OneBit = NumberBits
  PROVE  at \notin {"warming", "counting"}
<1>1. ASSUME at = "warming" PROVE FALSE
  <2>1. status \in WarmUpStart .. WarmedUp-1
    BY <1>1
  <2>2. status \in Nat /\ status < OneBit /\ status # WarmedUp
    BY <2>1, StatusAssumption
  <2>3. status % OneBit = status
    BY <2>2, StatusFacts
  <2> QED
    BY <2>2, <2>3
<1>2. ASSUME at = "counting" PROVE FALSE
  <2>1. PICK k \in 0 .. NumberBits-1 : status = WarmedUp + k * OneBit
    BY <1>2
  <2>2. k \in 0 .. NumberBits /\ k # NumberBits
    BY StatusAssumption
  <2> QED
    BY <2>1, <2>2, StatusRange
<1> QED
  BY <1>1, <1>2

LEMMA HasNumberCountedNext ==
  ASSUME CountEnds', HasNumber'
  PROVE  rbgAt' \notin {"warming", "counting"}
BY NumberCounted DEF CountEnds, HasNumber

\* For a number of any length and a warm-up of any length: no notification
\* that matters is lost on the random bit generator's thread.
THEOREM RbgInvariance == RbgSpec => []RbgInv
<1> USE DEF RbgTypeOK, IdleIsDisabled, ReadIsNoticed, CountEnds
<1>1. RbgInit => RbgInv
  <2>1. RbgInit => RbgTypeOK
    BY WarmUpRange, Zenon DEF RbgInit
  <2>2. RbgInit => ~HasNumber
    BY DEF RbgInit, HasNumber
  <2>3. RbgInit => IdleIsDisabled /\ CountEnds
    BY DEF RbgInit
  <2> QED
    BY <2>1, <2>2, <2>3 DEF RbgInv
<1>2. ASSUME RbgInv, [RbgNext]_rbgVars
      PROVE  RbgInv'
  <2>1. CASE UNCHANGED rbgVars
    BY <1>2, <2>1 DEF rbgVars, RbgInv, HasNumber
  <2>2. ASSUME NEW on \in BOOLEAN, WriteRbgControl(on)
        PROVE  RbgInv'
    <3>1. RbgTypeOK' /\ IdleIsDisabled' /\ CountEnds'
      BY <1>2, <2>2 DEF WriteRbgControl, RbgNotify, RbgInv
    <3>2. ReadIsNoticed'
      <4>1. SUFFICES ASSUME HasNumber', ~rbgNotified'
                     PROVE  rbgAt = "counted"
        BY <2>2 DEF WriteRbgControl
      <4>2. CASE on = rbgEnabled
        BY <1>2, <2>2, <4>1, <4>2 DEF WriteRbgControl, RbgInv, HasNumber
      <4>3. CASE on # rbgEnabled
        <5>1. rbgAt \in {"warming", "counting"}
          BY <1>2, <2>2, <4>1, <4>3 DEF WriteRbgControl, RbgNotify, RbgInv
        <5>2. /\ rbgAt = "warming" => rbgStatus \in WarmUpStart .. WarmedUp-1
              /\ rbgAt = "counting" => \E k \in 0 .. NumberBits-1 : rbgStatus = WarmedUp + k * OneBit
              /\ rbgStatus % OneBit = WarmedUp /\ rbgStatus \div OneBit = NumberBits
          BY <1>2, <2>2, <4>1 DEF WriteRbgControl, RbgInv, HasNumber
        <5> QED
          BY <5>1, <5>2, NumberCounted
      <4> QED
        BY <4>2, <4>3
    <3> QED
      BY <3>1, <3>2 DEF RbgInv
  <2>3. ASSUME NEW v \in 0 .. StatusSize-1, WriteRbgStatus(v)
        PROVE  RbgInv'
    BY <1>2, <2>3 DEF WriteRbgStatus, RbgInv, HasNumber
  <2>4. CASE ReadRandomNum
    BY <1>2, <2>4 DEF ReadRandomNum, RbgNotify, RbgInv, HasNumber
  <2>5. CASE RbgWake
    <3>1. RbgTypeOK
      BY <1>2 DEF RbgInv
    <3>2. rbgNotified' = FALSE /\ rbgEnabled' = rbgEnabled
      BY <2>5 DEF RbgWake
    <3>3. \/ rbgAt = "idle" /\ rbgAt' = "warming" /\ rbgStatus' = WarmUpStart
          \/ rbgAt' = "counting" /\ rbgStatus' = WarmedUp
          \/ /\ rbgAt = "counted" /\ rbgAt' = "idle" /\ ~rbgEnabled
             /\ rbgStatus' = rbgStatus
      BY <2>5 DEF RbgWake, NextCount
    <3>4. RbgTypeOK' /\ IdleIsDisabled' /\ CountEnds'
      <4>1. CASE rbgAt = "idle" /\ rbgAt' = "warming" /\ rbgStatus' = WarmUpStart
        BY WarmUpRange, <3>1, <3>2, <4>1, Zenon
      <4>2. CASE rbgAt' = "counting" /\ rbgStatus' = WarmedUp
        <5>1. \E k \in 0 .. NumberBits-1 : rbgStatus' = WarmedUp + k * OneBit
          BY WarmUpRange, <4>2
        <5> QED
          BY WarmUpRange, <3>1, <3>2, <4>2, <5>1, Zenon
      <4>3. CASE rbgAt' = "idle" /\ ~rbgEnabled /\ rbgStatus' = rbgStatus
        BY <1>2, <3>2, <4>3 DEF RbgInv
      <4> QED
        BY <3>3, <4>1, <4>2, <4>3
    <3> QED
      BY <3>2, <3>3, <3>4, HasNumberCountedNext DEF RbgInv, HasNumber
  <2>6. CASE WarmUp
    <3>1. /\ rbgAt = "warming" /\ rbgNotified' = rbgNotified /\ rbgEnabled' = rbgEnabled
          /\ rbgStatus \in WarmUpStart .. WarmedUp-1 /\ rbgNotified = FALSE
      BY <1>2, <2>6 DEF WarmUp, RbgInv
    <3>2. rbgStatus + 1 # WarmedUp => (rbgStatus + 1) % StatusSize = rbgStatus + 1
      BY StatusFacts, <3>1
    <3>3. rbgStatus + 1 # WarmedUp => rbgStatus + 1 \in WarmUpStart .. WarmedUp-1
      BY StatusFacts, <3>1
    <3>4. \/ rbgAt' = "counting" /\ rbgStatus' = WarmedUp
          \/ rbgAt' = "idle" /\ rbgStatus' = WarmedUp /\ ~rbgEnabled
          \/ /\ rbgAt' = "warming" /\ rbgStatus' = rbgStatus + 1 /\ rbgStatus + 1 # WarmedUp
      BY <2>6, <3>1, <3>2 DEF WarmUp
    <3>5. RbgTypeOK' /\ IdleIsDisabled' /\ CountEnds'
      <4>1. rbgEnabled' \in BOOLEAN /\ rbgNotified' = FALSE
        BY <1>2, <3>1 DEF RbgInv
      <4>2. rbgStatus' \in 0 .. StatusSize-1
        BY StatusFacts, <3>3, <3>4
      <4>3. rbgStatus' = WarmedUp => \E k \in 0 .. NumberBits-1 : rbgStatus' = WarmedUp + k * OneBit
        BY WarmUpRange
      <4> QED
        BY <3>1, <3>3, <3>4, <4>1, <4>2, <4>3, Zenon
    <3> QED
      BY <3>1, <3>4, <3>5, HasNumberCountedNext DEF RbgInv, HasNumber
  <2>7. CASE CountBit
    <3>1. PICK k \in 0 .. NumberBits-1 :
            rbgAt = "counting" /\ rbgStatus = WarmedUp + k * OneBit /\ rbgNotified = FALSE
      BY <1>2, <2>7 DEF CountBit, RbgInv
    <3>2. /\ k + 1 \in 0 .. NumberBits /\ k \in Nat /\ OneBit \in Nat
          /\ WarmedUp \in Nat /\ NumberBits \in Nat
      BY StatusFacts
    <3>3. rbgStatus + OneBit = WarmedUp + (k + 1) * OneBit
      BY <3>1, <3>2
    <3>4. rbgStatus + OneBit \in 0 .. StatusSize-1
      BY <3>2, <3>3, StatusRange
    <3>5. rbgStatus' = WarmedUp + (k + 1) * OneBit
      BY StatusFacts, <2>7, <3>3, <3>4 DEF CountBit
    <3>6. rbgStatus' = NumberReady <=> k + 1 = NumberBits
      <4>1. (NumberBits \in 0 .. NumberBits) /\ NumberReady = WarmedUp + NumberBits * OneBit
        BY StatusFacts DEF NumberReady
      <4> QED
        BY <3>2, <3>5, <4>1, StatusRange
    <3>7. RbgTypeOK' /\ IdleIsDisabled' /\ CountEnds'
      <4>1. /\ rbgEnabled' = rbgEnabled /\ rbgNotified' = FALSE
            /\ rbgAt' = IF k + 1 = NumberBits THEN "counted" ELSE "counting"
        BY <2>7, <3>1, <3>6 DEF CountBit
      <4>2. k + 1 # NumberBits => k + 1 \in 0 .. NumberBits-1
        BY <3>2
      <4> QED
        BY <1>2, <3>3, <3>4, <3>5, <3>6, <4>1, <4>2 DEF RbgInv
    <3> QED
      BY <2>7, <3>1, <3>7, HasNumberCountedNext DEF CountBit, RbgInv
  <2> QED
    BY <1>2, <2>1, <2>2, <2>3, <2>4, <2>5, <2>6, <2>7 DEF RbgNext, RbgRegisters, RbgThread
<1> QED
  BY <1>1, <1>2, PTL DEF RbgSpec

-----------------------------------------------------------------------------

\* A result that was asked for is there or being measured, however requests
\* and measurements interleave.
THEOREM PmuInvariance == PmuSpec => []PmuInv
<1> USE DEF PmuInv, PmuTypeOK
<1>1. PmuInit => PmuInv
  <2>1. PmuInit => errEn \in {0, 1} /\ errEn # 1
    BY DEF PmuInit
  <2> QED
    BY <2>1, Zenon DEF PmuInit
<1>2. ASSUME PmuInv, [PmuNext]_pmuVars
      PROVE  PmuInv'
  <2>1. CASE UNCHANGED pmuVars
    BY <1>2, <2>1 DEF pmuVars
  <2>2. ASSUME NEW v \in {0, 1}, WriteErrEn(v)
        PROVE  PmuInv'
    <3>1. errEn' = 1 /\ pmuAt' = IF pmuAt = "waiting" THEN "woken" ELSE pmuAt
      BY <2>2 DEF WriteErrEn, PmuNotify
    <3>2. errResult' \in BOOLEAN
      BY <2>2 DEF WriteErrEn
    <3> QED
      BY <1>2, <3>1, <3>2, Zenon
  <2>3. CASE StartMeasuring
    BY <1>2, <2>3 DEF StartMeasuring
  <2>4. CASE Measured
    BY <1>2, <2>4 DEF Measured
  <2> QED
    BY <1>2, <2>1, <2>2, <2>3, <2>4 DEF PmuNext, PmuThread
<1> QED
  BY <1>1, <1>2, PTL DEF PmuSpec

\* An access that the register shows is ongoing, also when it was cleared and
\* set again during an access.
THEOREM PhyInvariance == PhySpec => []PhyInv
<1> USE DEF PhyInv, PhyTypeOK
<1>1. PhyInit => PhyInv
  BY DEF PhyInit
<1>2. ASSUME PhyInv, [PhyNext]_phyVars
      PROVE  PhyInv'
  <2>1. CASE UNCHANGED phyVars
    BY <1>2, <2>1 DEF phyVars
  <2>2. CASE WriteSriDs0
    BY <1>2, <2>2 DEF WriteSriDs0
  <2>3. ASSUME NEW bit \in BOOLEAN, WriteSriAccess(bit)
        PROVE  PhyInv'
    BY <1>2, <2>3, Zenon DEF WriteSriAccess
  <2>4. CASE StartAccess
    BY <1>2, <2>4 DEF StartAccess
  <2>5. CASE EndAccess
    BY <1>2, <2>5 DEF EndAccess
  <2> QED
    BY <1>2, <2>1, <2>2, <2>3, <2>4, <2>5 DEF PhyNext, PhyThread
<1> QED
  BY <1>1, <1>2, PTL DEF PhySpec

\* Of the three threads that an event starts, none is left waiting for a
\* start that has been given.
THEOREM StartsAreHeard == RbgSpec /\ PmuSpec /\ PhySpec => []NoStartLost
BY RbgInvariance, PmuInvariance, PhyInvariance, PTL DEF NoStartLost

-----------------------------------------------------------------------------

\* What update_int leaves the controller and the CPU's lines with.
LEMMA VicUpdated ==
  ASSUME VicUpdateInt, cpu \in {"running", "waiting", "woken"},
         source' \subseteq Ints, soft' \subseteq Ints,
         enable' \subseteq Ints, select' \subseteq Ints,
         vector' \in [Slot -> VectCntl]
  PROVE  VicInv'
<1>1. irqStatus' = Irqs' /\ fiqStatus' = Fiqs' /\ vectAddr' = Vectored'
  BY DEF VicUpdateInt
<1>2. irq' = (Irqs' # {}) /\ fiq' = (Fiqs' # {})
  BY DEF VicUpdateInt
<1>3. cpu' \in {"running", "woken"}
  BY DEF VicUpdateInt, Notify
<1>4. Irqs' \subseteq Ints /\ Fiqs' \subseteq Ints /\ (Irqs \intersect Fiqs)' = {}
  BY DEF Irqs, Fiqs, Raw
<1>5. \/ vectAddr' = Default /\ \A s \in Slot : ~Hit(s)'
      \/ vectAddr' \in Slot /\ Hit(vectAddr)' /\ \A r \in 0 .. vectAddr'-1 : ~Hit(r)'
  <2>1. CASE \E s \in Slot : Hit(s)'
    <3> DEFINE hits == {s \in Slot : Hit(s)'}
    <3>1. hits \subseteq Nat /\ hits # {}
      BY <2>1 DEF Slot
    <3>2. PICK s \in hits : \A r \in hits : s =< r
      BY <3>1, LeastElement
    <3>3. \A r \in 0 .. s-1 : r \in Slot /\ ~(s =< r)
      BY <3>2, SlotsAssumption DEF Slot
    <3>4. s \in Slot /\ Hit(s)' /\ \A r \in 0 .. s-1 : ~Hit(r)'
      BY <3>2, <3>3
    <3> DEFINE Pending(t) == vector'[t].on /\ vector'[t].int \in Irqs'
               First(t) == Pending(t) /\ \A r \in 0 .. t-1 : ~Pending(r)
    <3>5. vectAddr' = CHOOSE t \in Slot : First(t)
      BY <1>1, <2>1, Zenon DEF Vectored, Hit
    <3>6. \E t \in Slot : First(t)
      BY <3>4, Zenon DEF Hit
    <3>7. vectAddr' \in Slot /\ First(vectAddr')
      <4> HIDE DEF First
      <4> QED
        BY <3>5, <3>6, Zenon
    <3> QED
      BY <3>7 DEF Hit
  <2>2. CASE ~\E s \in Slot : Hit(s)'
    BY <1>1, <2>2 DEF Vectored
  <2> QED
    BY <2>1, <2>2
<1>6. VicTypeOK'
  <2>1. Default \in 0 .. Slots /\ Slot \subseteq 0 .. Slots
    BY SlotsAssumption DEF Default, Slot
  <2> QED
    BY <1>1, <1>2, <1>3, <1>4, <1>5, <2>1 DEF VicTypeOK
<1>7. HandlerIsPending'
  <2>1. Default \notin Slot
    BY SlotsAssumption DEF Default, Slot
  <2> QED
    BY <1>1, <1>5, <2>1 DEF HandlerIsPending, Hit
<1>8. UpToDate' /\ OneLineEach' /\ NoLostWakeUp'
  BY <1>1, <1>2, <1>3, <1>4 DEF UpToDate, OneLineEach, NoLostWakeUp
<1> QED
  BY <1>6, <1>7, <1>8 DEF VicInv

\* Whatever the interrupts and the number of slots: what software reads of
\* the controller is up to date, a handler is that of a pending interrupt,
\* and the CPU does not sleep through an interrupt.
THEOREM VicInvariance == VicSpec => []VicInv
<1>1. VicInit => VicInv
  <2>1. Default \in 0 .. Slots
    BY SlotsAssumption DEF Default
  <2>2. VicInit => VicTypeOK
    <3>1. VicInit => vector \in [Slot -> VectCntl]
      BY IntsAssumption DEF VicInit, VectCntl
    <3> QED
      BY <2>1, <3>1, Zenon DEF VicInit, VicTypeOK
  <2>3. VicInit => Irqs = {} /\ Fiqs = {}
    BY DEF VicInit, Irqs, Fiqs, Raw
  <2> QED
    BY <2>2, <2>3 DEF VicInit, VicInv, UpToDate, HandlerIsPending, OneLineEach, NoLostWakeUp
<1>2. ASSUME VicInv, [VicNext]_vicVars
      PROVE  VicInv'
  <2>0. VicTypeOK
    BY <1>2 DEF VicInv
  <2>1. ASSUME NEW i \in Ints, IntSet(i) \/ IntClr(i)
        PROVE  VicInv'
    BY <2>0, <2>1, VicUpdated DEF IntSet, IntClr, config, VicTypeOK
  <2>2. ASSUME NEW v \in SUBSET Ints,
               \/ WriteIntEnable(v) \/ WriteIntEnClear(v)
               \/ WriteSoftInt(v) \/ WriteSoftIntClear(v)
               \/ WriteIntSelect(v)
        PROVE  VicInv'
    BY <2>0, <2>2, VicUpdated
    DEF WriteIntEnable, WriteIntEnClear, WriteSoftInt, WriteSoftIntClear, WriteIntSelect, VicTypeOK
  <2>3. ASSUME NEW s \in Slot, NEW c \in VectCntl, WriteVectCntl(s, c)
        PROVE  VicInv'
    BY <2>0, <2>3, VicUpdated DEF WriteVectCntl, VicTypeOK
  <2>4. ASSUME UNCHANGED <<source, config, derived>>,
               cpu' = cpu \/ cpu' = "woken" \/ cpu' = IF Interrupted THEN "running" ELSE "waiting"
        PROVE  VicInv'
    <3>1. /\ UNCHANGED <<source, soft, enable, select, vector>>
          /\ UNCHANGED <<irqStatus, fiqStatus, vectAddr, irq, fiq>>
      BY <2>4 DEF config, derived
    <3>2. VicTypeOK'
      BY <2>0, <2>4, <3>1 DEF VicTypeOK
    <3>3. UpToDate' /\ HandlerIsPending' /\ OneLineEach'
      BY <1>2, <3>1
      DEF VicInv, UpToDate, HandlerIsPending, OneLineEach, Irqs, Fiqs, Raw
    <3>4. NoLostWakeUp'
      BY <1>2, <2>4, <3>1 DEF VicInv, NoLostWakeUp, Interrupted
    <3> QED
      BY <3>2, <3>3, <3>4 DEF VicInv
  <2>5. CASE Wfi
    BY <2>4, <2>5 DEF Wfi
  <2>6. CASE Wake \/ Timeout
    BY <2>4, <2>6 DEF Wake, Timeout
  <2>7. CASE UNCHANGED vicVars
    BY <2>4, <2>7 DEF vicVars
  <2> QED
    BY <1>2, <2>1, <2>2, <2>3, <2>5, <2>6, <2>7 DEF VicNext, VicRegisters
<1> QED
  BY <1>1, <1>2, PTL DEF VicSpec

-----------------------------------------------------------------------------

\* Whatever the width of the counter: the watchdog resets only with the
\* interrupt of the first stage pending, the reset enabled, and a period at
\* least after it was last fed.
THEOREM WdogInvariance == WdogSpec => []WdogInv
<1>1. WdogInit => WdogInv
  <2>1. WdogInit => WdogTypeOK
    <3>1. /\ WdogFull \in 1 .. WdogFull /\ WdogFull \in 0 .. WdogFull
          /\ 0 \in 0 .. WdogFull /\ 0 \in 0 .. SinceBound
      BY FullAssumption DEF SinceBound
    <3>2. WdogOff \in {WdogOff} \union (1 .. WdogFull)
      OBVIOUS
    <3>3. WdogInit => control \in WdogControl
      BY DEF WdogInit, WdogControl
    <3> QED
      BY <3>1, <3>2, <3>3, Zenon DEF WdogInit, WdogTypeOK
  <2>2. WdogInit => wdogLine = (control.inten /\ ris)
    BY DEF WdogInit
  <2>3. WdogInit => WdogPeriodConserved
    BY DEF WdogInit, WdogPeriodConserved
  <2>4. WdogInit => ~inted /\ ~reset
    BY DEF WdogInit
  <2> QED
    BY <2>1, <2>2, <2>3, <2>4, Zenon DEF WdogInv, InterruptFirst, PeriodPassed
<1>2. ASSUME WdogInv, [WdogNext]_wdogVars
      PROVE  WdogInv'
  <2>0. WdogTypeOK /\ WdogPeriodConserved /\ InterruptFirst /\ PeriodPassed
    BY <1>2 DEF WdogInv
  <2> DEFINE Ranges ==
        /\ load \in 1 .. WdogFull /\ value \in 0 .. WdogFull
        /\ armed \in {WdogOff} \union (1 .. WdogFull) /\ elapsed \in 0 .. WdogFull
        /\ since \in 0 .. SinceBound
  <2> DEFINE Flags ==
        /\ control \in WdogControl
        /\ ris \in BOOLEAN /\ wdogLine \in BOOLEAN /\ locked \in BOOLEAN
        /\ inted \in BOOLEAN /\ stopped \in BOOLEAN /\ ready \in BOOLEAN
        /\ wdogAccessed \in BOOLEAN /\ reset \in BOOLEAN
  <2>t. WdogTypeOK <=> Ranges /\ Flags
    BY Zenon DEF WdogTypeOK
  <2>u. WdogTypeOK' <=> Ranges' /\ Flags'
    BY Zenon DEF WdogTypeOK
  <2>v. /\ WdogFull \in Nat \ {0} /\ SinceBound = 2 * WdogFull /\ WdogOff = -1
        /\ WdogWidth = WdogFull + 1
    BY FullAssumption DEF SinceBound, WdogOff, WdogWidth
  <2>w. Ranges /\ Flags
    BY <2>0, <2>t
  <2>x. wdogLine' = (control'.inten /\ ris') /\ control' \in WdogControl /\ ris' \in BOOLEAN
          => wdogLine' \in BOOLEAN
    BY DEF WdogControl
  <2>1. CASE UNCHANGED wdogVars
    BY <1>2, <2>1, Zenon
    DEF wdogVars, counter, WdogInv, WdogTypeOK, WdogPeriodConserved, InterruptFirst, PeriodPassed
  \* A full reload: the mechanism starts anew.
  <2>2. ASSUME WdogAccess, ReloadCounter(TRUE), WdogUpdateInt, load' \in 1 .. WdogFull,
               control' \in WdogControl, ris' \in BOOLEAN, locked' \in BOOLEAN
        PROVE  WdogInv'
    <3>1. /\ elapsed' = 0 /\ armed' = load' /\ value' = value /\ since' = 0
          /\ inted' = FALSE /\ stopped' = FALSE
      BY <2>2 DEF ReloadCounter
    <3>2. reset' = FALSE /\ ready' = ready /\ wdogAccessed' = TRUE
      BY <2>2, <2>w, Zenon DEF WdogAccess
    <3>3. wdogLine' = (control'.inten /\ ris')
      BY <2>2 DEF WdogUpdateInt
    <3>4. Ranges'
      BY <2>2, <2>v, <2>w, <3>1
    <3>5. Flags'
      BY <2>2, <2>w, <2>x, <3>1, <3>2, <3>3, Zenon
    <3>6. WdogPeriodConserved'
      <4>1. load' \in 1 .. WdogFull
        BY <2>2, Zenon
      <4>2. \A x \in 1 .. WdogFull : x + 0 = x
        OBVIOUS
      <4> QED
        BY <3>1, <4>1, <4>2, Zenon DEF WdogPeriodConserved
    <3> QED
      BY <2>u, <3>1, <3>2, <3>3, <3>4, <3>5, <3>6, Zenon DEF WdogInv, InterruptFirst, PeriodPassed
  \* Any other access: neither the stage nor the time since a reset changes.
  <2>3. ASSUME WdogAccess, WdogUpdateInt, UNCHANGED <<load, ris, inted, elapsed, since>>,
               \/ armed' = WdogOff /\ value' \in 0 .. WdogFull
               \/ armed' = armed /\ value' = value,
               control' \in WdogControl, locked' \in BOOLEAN, stopped' \in BOOLEAN
        PROVE  WdogInv'
    <3>1. reset = FALSE /\ reset' = FALSE /\ ready' = ready /\ wdogAccessed' = TRUE
      BY <2>3, <2>w, Zenon DEF WdogAccess
    <3>2. wdogLine' = (control'.inten /\ ris')
      BY <2>3 DEF WdogUpdateInt
    <3>3. Ranges'
      BY <2>3, <2>w
    <3>4. Flags'
      BY <2>3, <2>w, <2>x, <3>1, <3>2, Zenon
    <3>5. WdogPeriodConserved'
      BY <2>0, <2>3 DEF WdogPeriodConserved
    <3>6. InterruptFirst'
      BY <2>0, <2>3, Zenon DEF InterruptFirst
    <3>7. PeriodPassed'
      BY <2>0, <2>3, <3>1, Zenon DEF PeriodPassed
    <3> QED
      BY <2>u, <3>1, <3>2, <3>3, <3>4, <3>5, <3>6, <3>7, Zenon DEF WdogInv
  <2>4. ASSUME NEW v \in 0 .. WdogFull, WdogWriteLoad(v)
        PROVE  WdogInv'
    <3>1. load' \in 1 .. WdogFull
      BY <2>4, <2>v DEF WdogWriteLoad
    <3> QED
      BY <2>2, <2>4, <2>w, <3>1, Zenon DEF WdogWriteLoad
  <2>5. ASSUME NEW c \in WdogControl, WdogWriteControl(c)
        PROVE  WdogInv'
    <3>1. /\ WdogAccess /\ WdogUpdateInt /\ control' = c /\ UNCHANGED <<load, ris, locked>>
          /\ ReloadCounter(TRUE) \/ StopCounter \/ UNCHANGED counter
      BY <2>5, Zenon DEF WdogWriteControl
    <3>2. CASE ReloadCounter(TRUE)
      BY <2>2, <2>w, <3>1, <3>2
    <3>3. CASE StopCounter
      <4>1. (load - elapsed) % WdogWidth \in 0 .. WdogFull
        BY <2>v, <2>w
      <4> QED
        BY <2>3, <2>w, <3>1, <3>3, <4>1, Zenon DEF StopCounter
    <3>4. CASE UNCHANGED counter
      BY <2>3, <2>w, <3>1, <3>4, Zenon DEF counter
    <3> QED
      BY <3>1, <3>2, <3>3, <3>4
  <2>6. CASE WdogWriteIntClr
    BY <2>2, <2>6, <2>w, Zenon DEF WdogWriteIntClr
  <2>7. ASSUME NEW l \in BOOLEAN, WriteLock(l)
        PROVE  WdogInv'
    BY <2>3, <2>7, <2>w, Zenon DEF WriteLock, counter
  <2>8. CASE WdogExpire
    <3>1. /\ ready = TRUE /\ reset = FALSE /\ ready' = FALSE
          /\ UNCHANGED <<load, value, control, locked, stopped, since, wdogAccessed>>
          /\ wdogLine' = (control'.inten /\ ris')
      BY <2>8, <2>w, Zenon DEF WdogExpire, WdogUpdateInt
    <3>2. CASE inted = FALSE
      <4>1. inted' = TRUE /\ ris' = TRUE /\ elapsed' = 0 /\ armed' = load /\ reset' = FALSE
        BY <2>8, <3>2, Zenon DEF WdogExpire
      <4>2. Ranges' /\ since' >= elapsed' /\ armed' + elapsed' = load'
        BY <2>v, <2>w, <3>1, <4>1
      <4>3. Flags'
        BY <2>w, <2>x, <3>1, <4>1, Zenon
      <4> QED
        BY <2>u, <3>1, <4>1, <4>2, <4>3, Zenon
        DEF WdogInv, WdogPeriodConserved, InterruptFirst, PeriodPassed
    <3>3. CASE inted = TRUE
      <4>1. inted' = TRUE /\ ris' = ris /\ elapsed' = elapsed /\ armed' = armed
            /\ reset' = control.resen
        BY <2>8, <3>3, Zenon DEF WdogExpire
      <4>2. Ranges'
        BY <2>w, <3>1, <4>1, Zenon
      <4>3. control.resen \in BOOLEAN
        BY <2>w DEF WdogControl
      <4>4. Flags'
        BY <2>w, <2>x, <3>1, <4>1, <4>3, Zenon
      <4>5. WdogPeriodConserved' /\ InterruptFirst'
        BY <2>0, <3>1, <3>3, <4>1, Zenon DEF WdogPeriodConserved, InterruptFirst
      <4>6. PeriodPassed'
        BY <2>0, <3>1, <3>3, <4>1, Zenon DEF PeriodPassed
      <4> QED
        BY <2>u, <3>1, <4>1, <4>2, <4>4, <4>5, <4>6, Zenon DEF WdogInv
    <3> QED
      BY <2>w, <3>2, <3>3, Zenon
  <2>9. CASE WdogTick
    <3>1. /\ ready = FALSE /\ reset = FALSE /\ reset' = reset /\ wdogAccessed' = FALSE
          /\ UNCHANGED <<load, value, control, ris, wdogLine, locked, inted, stopped>>
          /\ ready' = (armed = 1)
      BY <2>9, <2>w, Zenon DEF WdogTick
    <3>2. /\ elapsed' = (elapsed + 1) % WdogWidth
          /\ since' = IF since < SinceBound THEN since + 1 ELSE since
          /\ armed' = IF armed \in {WdogOff, 1} THEN WdogOff ELSE armed - 1
      BY <2>9, Zenon DEF WdogTick
    <3>3. Ranges'
      BY <2>v, <2>w, <3>1, <3>2
    <3>4. Flags'
      BY <2>w, <3>1, Zenon
    <3>5. armed # WdogOff => armed + elapsed = load /\ elapsed' = elapsed + 1
      <4>1. ASSUME armed # WdogOff
            PROVE  armed + elapsed = load /\ elapsed + 1 \in 0 .. WdogFull
        BY <2>0, <2>v, <2>w, <4>1 DEF WdogPeriodConserved
      <4>2. \A x \in 0 .. WdogFull : x % WdogWidth = x
        BY <2>v
      <4> QED
        BY <3>2, <4>1, <4>2
    <3>6. WdogPeriodConserved'
      BY <2>v, <2>w, <3>1, <3>2, <3>5 DEF WdogPeriodConserved
    <3>7. InterruptFirst'
      BY <2>0, <3>1, Zenon DEF InterruptFirst
    <3>8. inted' => inted = TRUE
      BY <2>w, <3>1, Zenon
    <3>9. ASSUME inted = TRUE
          PROVE  /\ armed' # WdogOff => since' >= elapsed'
                 /\ armed = 1 => since' >= load'
      <4>1. armed # WdogOff => since >= elapsed
        BY <2>0, <3>9, Zenon DEF PeriodPassed
      <4>2. armed # WdogOff => since' >= elapsed'
        <5>1. armed # WdogOff => since >= elapsed /\ elapsed + 1 =< SinceBound
          BY <2>v, <2>w, <3>5, <4>1
        <5> QED
          BY <2>v, <2>w, <3>2, <3>5, <5>1
      <4>3. armed' # WdogOff => armed # WdogOff
        BY <3>2
      <4>4. armed = 1 => load' = elapsed' /\ armed # WdogOff
        BY <2>v, <2>w, <3>1, <3>5
      <4> QED
        BY <4>2, <4>3, <4>4
    <3>10. PeriodPassed'
      BY <3>1, <3>8, <3>9, Zenon DEF PeriodPassed
    <3>11. wdogLine' = (control'.inten /\ ris')
      BY <1>2, <3>1, Zenon DEF WdogInv
    <3> QED
      BY <2>u, <3>1, <3>3, <3>4, <3>6, <3>7, <3>10, <3>11, Zenon DEF WdogInv
  <2> QED
    BY <1>2, <2>1, <2>4, <2>5, <2>6, <2>7, <2>8, <2>9 DEF WdogNext, WdogWrite
<1> QED
  BY <1>1, <1>2, PTL DEF WdogSpec

-----------------------------------------------------------------------------

\* The access that is remembered is the one in flight, and the registers are
\* those it was started with while it is left alone.
LEMMA SpifWriteKeeps ==
  ASSUME SpifInv,
         spifLine' = spifInt', spifInt' \in BOOLEAN, spifInt' => spifInt,
         UNCHANGED <<active, curaddr, failed>>, lost' \in BOOLEAN,
         txData' \in FlashWords, clkCtrl' \in FlashClocks, ssSetup' \in 0 .. 3,
         opcode' \in {"none", "read", "id", "unknown"},
         \/ started' = started /\ (active => UNCHANGED <<txData, clkCtrl, ssSetup>>)
         \/ started' = Flash!Spoiled /\ active
  PROVE  SpifInv'
<1>1. Flash!Spoiled \notin Flash!Access /\ Flash!None \notin Flash!Access /\ Flash!Spoiled # Flash!None
  BY DEF Flash!Spoiled, Flash!None, Flash!Access
<1>2. {spifInt, spifLine, active, failed, lost}' \subseteq BOOLEAN
  BY DEF SpifInv, SpifTypeOK
<1>3. curaddr' \in 0 .. FlashSize-1
  BY Zenon DEF SpifInv, SpifTypeOK
<1>4. started' \in {Flash!None, Flash!Spoiled} \union Flash!Access
  BY DEF SpifInv, SpifTypeOK
<1>5. SpifTypeOK'
  BY <1>2, <1>3, <1>4, Zenon DEF SpifTypeOK
<1>6. active' <=> started' # Flash!None
  BY <1>1, Zenon DEF SpifInv
<1>7. ASSUME started' \in Flash!Access
      PROVE  /\ started'.word = txData' /\ started'.clocks = clkCtrl'
             /\ ssSetup' = IF started'.last THEN 1 ELSE 2
             /\ clkCtrl'.bits >= clkCtrl'.len
  <2>1. started' = started /\ active
    BY <1>1, <1>7, Zenon DEF SpifInv
  <2>2. UNCHANGED <<txData, clkCtrl, ssSetup>>
    BY <1>1, <1>7, <2>1, Zenon
  <2>3. txData' = txData /\ clkCtrl' = clkCtrl /\ ssSetup' = ssSetup
    BY <2>2
  <2> QED
    BY <1>7, <2>1, <2>3, Zenon DEF SpifInv
<1>8. spifInt' => ~active'
  BY Zenon DEF SpifInv
<1> QED
  BY <1>5, <1>6, <1>7, <1>8, Zenon DEF SpifInv

\* Whatever the commands and the clocks: the interrupt is never that of an
\* access in flight, and an access left alone has the registers it was
\* started with.
THEOREM SpifInvariance == SpifSpec => []SpifInv
<1>0. Flash!Spoiled \notin Flash!Access /\ Flash!None \notin Flash!Access /\ Flash!Spoiled # Flash!None
  BY DEF Flash!Spoiled, Flash!None, Flash!Access
<1>1. SpifInit => SpifInv
  <2>1. 0 \in 0 .. 3 /\ 0 \in 0 .. FlashSize-1
    BY FlashSizeAssumption
  <2> QED
    BY <1>0, <2>1, FlashWordsAssumption, FlashClocksAssumption, Zenon
    DEF SpifInit, SpifInv, SpifTypeOK
<1>2. ASSUME SpifInv, [SpifNext]_spifVars
      PROVE  SpifInv'
  <2>0. SpifTypeOK
    BY <1>2 DEF SpifInv
  <2>1. CASE UNCHANGED spifVars
    <3>1. /\ UNCHANGED <<txData, clkCtrl, ssSetup, rxData, spifInt, spifLine>>
          /\ UNCHANGED <<active, opcode, curaddr, failed, started, lost>>
      BY <2>1 DEF spifVars, spifRegisters, memFlash
    <3> QED
      BY <1>2, <3>1, Zenon DEF SpifInv, SpifTypeOK
  <2>2. ASSUME NEW w \in FlashWords, WriteTxData(w)
        PROVE  SpifInv'
    <3>1. /\ txData' = w /\ UNCHANGED <<clkCtrl, ssSetup, spifInt, active, opcode, curaddr, failed, lost>>
          /\ spifLine' = spifInt'
          /\ started' = IF active THEN Flash!Spoiled ELSE started
      BY <2>2 DEF WriteTxData, memFlash, SpifCheckInt, Disturb
    <3> QED
      BY <1>2, <2>0, <3>1, SpifWriteKeeps DEF SpifTypeOK
  <2>3. ASSUME NEW c \in FlashClocks, WriteClkCtrl(c)
        PROVE  SpifInv'
    <3>1. /\ clkCtrl' = c /\ UNCHANGED <<txData, ssSetup, spifInt, active, opcode, curaddr, failed, lost>>
          /\ spifLine' = spifInt'
          /\ started' = IF active THEN Flash!Spoiled ELSE started
      BY <2>3 DEF WriteClkCtrl, memFlash, SpifCheckInt, Disturb
    <3> QED
      BY <1>2, <2>0, <3>1, SpifWriteKeeps DEF SpifTypeOK
  <2>4. ASSUME NEW c \in FlashClocks, Start(c)
        PROVE  SpifInv'
    <3>1. /\ clkCtrl' = c /\ UNCHANGED <<txData, ssSetup, opcode, curaddr, failed, lost>>
          /\ spifLine' = spifInt' /\ spifInt' = FALSE /\ active' = TRUE /\ ssSetup \in {1, 2}
      BY <2>4 DEF Start, SpifCheckInt
    <3>2. started' = [kind |-> "access", word |-> txData, clocks |-> c, last |-> ssSetup = 1]
      BY <2>4 DEF Start
    <3>3. started' \in Flash!Access
      BY <2>0, <3>2 DEF Flash!Access, SpifTypeOK
    <3>4. /\ started'.word = txData' /\ started'.clocks = clkCtrl'
          /\ ssSetup' = IF started'.last THEN 1 ELSE 2
          /\ clkCtrl'.bits >= clkCtrl'.len
      <4>1. c.bits >= c.len
        BY <2>4 DEF Start
      <4> QED
        BY <3>1, <3>2, <4>1
    <3>5. SpifTypeOK'
      BY <2>0, <3>1, <3>3 DEF SpifTypeOK
    <3> QED
      BY <1>0, <3>1, <3>3, <3>4, <3>5, Zenon DEF SpifInv
  <2>5. ASSUME NEW s \in 0 .. 3, WriteSetup(s)
        PROVE  SpifInv'
    <3>1. /\ ssSetup' = s /\ UNCHANGED <<txData, clkCtrl, spifInt, active, curaddr, failed>>
          /\ spifLine' = spifInt'
          /\ started' = IF active /\ s # ssSetup THEN Flash!Spoiled ELSE started
      BY <2>5 DEF WriteSetup, SpifCheckInt
    <3>2. opcode' \in {"none", "read", "id", "unknown"} /\ lost' \in BOOLEAN
      BY <2>0, <2>5 DEF WriteSetup, SpifTypeOK
    <3> QED
      BY <1>2, <2>0, <3>1, <3>2, SpifWriteKeeps DEF SpifTypeOK
  <2>6. CASE ClearInt
    <3>1. /\ spifInt' = FALSE /\ spifLine' = spifInt'
          /\ UNCHANGED <<txData, clkCtrl, ssSetup, active, opcode, curaddr, failed, started, lost>>
      BY <2>6 DEF ClearInt, SpifCheckInt, spifRegisters, memFlash
    <3> QED
      BY <1>2, <2>0, <3>1, SpifWriteKeeps DEF SpifTypeOK
  <2>7. CASE ThreadFlash
    <3>1. UNCHANGED <<txData, clkCtrl, ssSetup>> /\ failed' \in BOOLEAN
      BY <2>7 DEF ThreadFlash, spifRegisters
    <3>2. CASE failed' = TRUE
      <4>1. UNCHANGED <<spifInt, spifLine, active, opcode, curaddr, started, lost>>
        BY <2>7, <3>2 DEF ThreadFlash, memFlash
      <4> QED
        BY <1>2, <3>1, <3>2, <4>1 DEF SpifInv, SpifTypeOK
    <3>3. CASE failed' = FALSE
      <4> DEFINE op == IF opcode = "none" THEN txData.op ELSE opcode
                 addr == IF opcode = "none" /\ op = "read" THEN txData.addr ELSE curaddr
                 n == clkCtrl.bits - (IF opcode = "none" THEN clkCtrl.len ELSE 0)
      <4>1. /\ active' = FALSE /\ spifInt' = TRUE /\ spifLine' = spifInt' /\ started' = Flash!None
            /\ lost' \in BOOLEAN
        BY <2>7, <3>3 DEF ThreadFlash, SpifCheckInt
      <4>2. opcode' = (IF ssSetup < 2 THEN "none" ELSE op)
        BY <2>7, <3>3 DEF ThreadFlash
      <4>3. curaddr' = (IF op = "read" THEN (addr + Bytes(n)) % FlashSize ELSE curaddr)
        BY <2>7, <3>3 DEF ThreadFlash
      <4>4. op \in {"none", "read", "id", "unknown"} /\ addr \in Nat /\ n \in Int
        BY <2>0, FlashWordsAssumption, FlashClocksAssumption DEF SpifTypeOK
      <4>5. \A i \in Int : Bytes(i) \in Int
        BY DEF Bytes
      <4>6. curaddr' \in 0 .. FlashSize-1
        <5> HIDE DEF op, addr, n
        <5>1. FlashSize \in Nat /\ FlashSize # 0 /\ curaddr \in 0 .. FlashSize-1
          BY <2>0, FlashSizeAssumption DEF SpifTypeOK
        <5> QED
          BY <4>3, <4>4, <4>5, <5>1
      <4>7. opcode' \in {"none", "read", "id", "unknown"}
        BY <4>2, <4>4
      <4>8. SpifTypeOK'
        BY <2>0, <3>1, <3>3, <4>1, <4>6, <4>7 DEF SpifTypeOK
      <4> QED
        BY <1>0, <4>1, <4>8, Zenon DEF SpifInv
    <3> QED
      BY <3>1, <3>2, <3>3
  <2> QED
    BY <1>2, <2>1, <2>2, <2>3, <2>4, <2>5, <2>6, <2>7 DEF SpifNext, SpifWrites
<1> QED
  BY <1>1, <1>2, PTL DEF SpifSpec

\* The command that goes on, when it is told from the opcode.
LEMMA CommandKept ==
  ASSUME SpifInv
  PROVE  /\ Stream = Flash!Idle <=> ~lost /\ started # Flash!Spoiled /\ opcode = "none"
         /\ lost \/ started = Flash!Spoiled => Stream = Flash!Lost
         /\ ~lost /\ started # Flash!Spoiled =>
              Stream = [op |-> opcode, at |-> IF opcode = "read" THEN 8 * curaddr ELSE 0]
<1>1. Flash!Lost # Flash!Idle /\ Flash!Lost.op = "lost"
  BY DEF Flash!Lost, Flash!Idle
<1>2. lost \/ started = Flash!Spoiled => Stream = Flash!Lost
  BY DEF Stream, Flash!Lost, Flash!Spoiled
<1>3. ~lost /\ started # Flash!Spoiled =>
        Stream = [op |-> opcode, at |-> IF opcode = "read" THEN 8 * curaddr ELSE 0]
  BY DEF Stream, Flash!Spoiled
<1>4. ~lost /\ started # Flash!Spoiled => (Stream = Flash!Idle <=> opcode = "none")
  BY <1>3 DEF Flash!Idle
<1> QED
  BY <1>1, <1>2, <1>3, <1>4

\* A write during an access spoils it, unless it changes nothing.
LEMMA SpoilStep ==
  ASSUME SpifInv, active, started' = Flash!Spoiled, rxData' = rxData
  PROVE  Flash!Spoil
<1>1. started # Flash!None
  BY DEF SpifInv
<1>2. Stream' = Flash!Lost
  BY DEF Stream, Flash!Lost, Flash!Spoiled
<1> QED
  BY <1>1, <1>2 DEF Flash!Spoil, Flash!Lost

LEMMA FlashStutter ==
  ASSUME UNCHANGED <<started, rxData>>,
         UNCHANGED <<lost, opcode, curaddr>> \/ UNCHANGED Stream
  PROVE  UNCHANGED Flash!flashVars
BY DEF Flash!flashVars, Stream

\* The lemmas about numbers, which are not about what is folded.
Plus(a, b) == a + b
Numbers == INSTANCE Lemmas WITH Op <- Plus

\* Whole bytes further on, the address in bytes is where that in bits is.
LEMMA BytesFurther ==
  ASSUME NEW a \in Nat, NEW n \in Nat, n % 8 = 0
  PROVE  (8 * a + n) % (8 * FlashSize) = 8 * ((a + n \div 8) % FlashSize)
<1> DEFINE s == FlashSize
           k == a + n \div 8
           q == k \div s
           r == k % s
           x == 8 * a + n
           w == 8 * s
           d == 8 * r
<1>1. s \in Nat \ {0}
  BY FlashSizeAssumption
<1>2. n = 8 * (n \div 8) /\ n \div 8 \in Nat
  OBVIOUS
<1>3. k \in Nat /\ x = 8 * k
  BY <1>2
<1> HIDE DEF k, s
<1>4. q \in Int /\ r \in 0 .. s-1 /\ k = q * s + r
  BY <1>1, <1>3, Numbers!Division
<1>5. x \in Int /\ w \in Nat \ {0} /\ d \in 0 .. w-1 /\ 8 * (q * s) = q * (8 * s) /\ q * s \in Int
  BY <1>1, <1>3, <1>4
<1>6. x = q * w + d
  <2> DEFINE y == q * s
  <2>1. x = 8 * y + 8 * r /\ 8 * y = q * w
    <3>1. x = 8 * k /\ k = y + r /\ y \in Int /\ r \in Int
      BY <1>3, <1>4, <1>5
    <3>2. 8 * y = q * w
      BY <1>5
    <3> HIDE DEF x, y, r, w
    <3> QED
      BY <3>1, <3>2
  <2> QED
    BY <2>1
<1> HIDE DEF x, w, d, q
<1>7. x % w = d
  BY <1>4, <1>5, <1>6, Numbers!DivisionIs, Zenon
<1> QED
  BY <1>7 DEF x, w, d, s, k

\* What the registers hold when an access left alone is made is what it was
\* started with.
LEMMA EndStep ==
  ASSUME SpifInv, ThreadFlash, failed' = FALSE, started \in Flash!Access
  PROVE  Flash!End
<1> DEFINE first == opcode = "none"
           op == IF first THEN txData.op ELSE opcode
           addr == IF first /\ op = "read" THEN txData.addr ELSE curaddr
           n == clkCtrl.bits - (IF first THEN clkCtrl.len ELSE 0)
           c == Flash!Command(started)
           m == Flash!ReplyClocks(started)
<1>0. SpifTypeOK /\ started # Flash!Spoiled /\ active
  BY DEF SpifInv, Flash!Access, Flash!Spoiled, ThreadFlash
<1>1. /\ started.word = txData /\ started.clocks = clkCtrl
      /\ ssSetup = (IF started.last THEN 1 ELSE 2)
      /\ clkCtrl.bits >= clkCtrl.len
  BY DEF SpifInv
<1>2. /\ started' = Flash!None /\ rxData' = Reply(op, addr, n)
      /\ curaddr' = (IF op = "read" THEN (addr + Bytes(n)) % FlashSize ELSE curaddr)
      /\ opcode' = (IF ssSetup < 2 THEN "none" ELSE op)
      /\ lost' = (ssSetup >= 2 /\ (lost \/ ~Flash!Whole(op, n)))
  BY <1>0 DEF ThreadFlash
<1>3. started.last \in BOOLEAN /\ clkCtrl.bits \in Nat /\ clkCtrl.len \in Nat
  BY <1>0, FlashClocksAssumption DEF Flash!Access, SpifTypeOK
<1>4. /\ txData.op \in {"none", "read", "id", "unknown"} /\ txData.addr \in Nat
      /\ opcode \in {"none", "read", "id", "unknown"} /\ curaddr \in Nat
  BY <1>0, FlashWordsAssumption, FlashSizeAssumption DEF SpifTypeOK
<1>5. n \in Nat /\ op \in {"none", "read", "id", "unknown"} /\ addr \in Nat
  BY <1>1, <1>3, <1>4
<1>6. Bytes(n) = n \div 8
  BY <1>5 DEF Bytes
<1>7. started' # Flash!Spoiled /\ (started.last => ssSetup = 1) /\ (~started.last => ssSetup = 2)
  BY <1>1, <1>2, <1>3 DEF Flash!None, Flash!Spoiled
<1>7b. /\ started.last => lost' = FALSE /\ opcode' = "none"
       /\ ~started.last => (lost' <=> lost \/ ~Flash!Whole(op, n)) /\ opcode' = op
  <2>1. started.last => ~(ssSetup >= 2) /\ ssSetup < 2
    BY <1>7
  <2>2. ~started.last => ssSetup >= 2 /\ ~(ssSetup < 2)
    BY <1>7
  <2> QED
    BY <1>2, <2>1, <2>2, Zenon
<1>8. started' = [kind |-> "none"] /\ started' # [kind |-> "spoiled"]
  BY <1>2 DEF Flash!None
<1>9. CASE lost
  <2>1. Stream = Flash!Lost /\ Stream # Flash!Idle
    BY <1>9, CommandKept DEF Flash!Lost, Flash!Idle
  <2>2. c = Flash!Lost
    BY <2>1 DEF Flash!Command
  <2>3. Stream' = IF started.last THEN Flash!Idle ELSE Flash!Lost
    <3>1. CASE started.last
      <4>1. opcode' = "none" /\ lost' = FALSE
        BY <1>7b, <3>1
      <4> QED
        BY <1>8, <3>1, <4>1 DEF Stream, Flash!Idle
    <3>2. CASE ~started.last
      <4>1. lost'
        BY <1>7b, <1>9, <3>2, Zenon
      <4> QED
        BY <3>2, <4>1 DEF Stream, Flash!Lost
    <3> QED
      BY <3>1, <3>2
  <2>4. c.op = "lost" /\ Flash!Further(c, m) = c
    BY <2>2 DEF Flash!Lost, Flash!Further
  <2>5. Stream' = IF started.last THEN Flash!Idle
                  ELSE IF Flash!Whole(c.op, m) THEN Flash!Further(c, m)
                  ELSE Flash!Lost
    BY <2>2, <2>3, <2>4, Zenon
  <2> HIDE DEF c, m
  <2> QED
    BY <1>2, <2>4, <2>5 DEF Flash!End, c, m
<1>10. CASE ~lost
  <2>1. Stream = [op |-> opcode, at |-> IF opcode = "read" THEN 8 * curaddr ELSE 0]
    BY <1>0, <1>10, CommandKept
  <2>2. Stream = Flash!Idle <=> first
    BY <1>0, <1>10, CommandKept
  <2>3. m = n
    BY <1>1, <2>2 DEF Flash!ReplyClocks
  <2>4. c = [op |-> op, at |-> IF op = "read" THEN 8 * addr ELSE 0]
    <3>1. CASE first
      BY <1>1, <2>2, <3>1 DEF Flash!Command
    <3>2. CASE ~first
      BY <2>1, <2>2, <3>2 DEF Flash!Command
    <3> QED
      BY <3>1, <3>2
  <2> HIDE DEF c, m, n, op, addr, first
  <2>5. c.op = op /\ (op = "read" => c.at = 8 * addr) /\ (op = "id" => c.at = 0)
    BY <2>4
  <2>6. /\ op = "read" => rxData' = Flash!Data(8 * addr, n)
        /\ op = "id" /\ n > 0 => rxData' = Flash!Identity(0, n)
        /\ op \in {"none", "unknown"} => rxData' = rxData
    <3>1. CASE op = "read"
      BY <1>2, <1>5, <3>1 DEF Reply
    <3>2. CASE op = "id" /\ n > 0
      BY <1>2, <1>5, <3>2 DEF Reply
    <3>3. CASE op \in {"none", "unknown"}
      BY <1>2, <1>5, <3>3 DEF Reply
    <3> QED
      BY <3>1, <3>2, <3>3
  <2>7. \/ op = "read" /\ rxData' = Flash!Data(c.at, n)
        \/ op = "id" /\ n > 0 /\ rxData' = Flash!Identity(c.at, n)
        \/ op \in {"none", "unknown"} /\ rxData' = rxData
        \/ op = "id" /\ n = 0
        \/ op = "lost"
    BY <1>5, <2>5, <2>6
  <2>8. Stream' = IF started.last THEN Flash!Idle
                  ELSE IF Flash!Whole(op, n) THEN Flash!Further(c, n)
                  ELSE Flash!Lost
    <3>1. CASE started.last
      <4>1. opcode' = "none" /\ lost' = FALSE
        BY <1>7b, <3>1
      <4> QED
        BY <1>8, <3>1, <4>1 DEF Stream, Flash!Idle
    <3>2. CASE ~started.last /\ ~Flash!Whole(op, n)
      <4>1. lost'
        BY <1>7b, <3>2, Zenon
      <4> QED
        BY <3>2, <4>1 DEF Stream, Flash!Lost
    <3>3. CASE ~started.last /\ Flash!Whole(op, n)
      <4>1. ~lost' /\ opcode' = op
        BY <1>7b, <1>10, <3>3, Zenon
      <4>2. Stream' = [op |-> op, at |-> IF op = "read" THEN 8 * curaddr' ELSE 0]
        BY <1>8, <4>1 DEF Stream
      <4>3. CASE op = "read"
        <5>1. n % 8 = 0
          BY <3>3, <4>3 DEF Flash!Whole
        <5>2. 8 * curaddr' = (8 * addr + n) % (8 * FlashSize)
          BY <1>2, <1>5, <1>6, <4>3, <5>1, BytesFurther
        <5>3. Flash!Further(c, n) = [op |-> op, at |-> (8 * addr + n) % (8 * FlashSize)]
          BY <2>4, <4>3 DEF Flash!Further
        <5> QED
          BY <3>3, <4>2, <4>3, <5>2, <5>3
      <4>4. CASE op = "id"
        <5>1. n % 16 = 0
          BY <3>3, <4>4 DEF Flash!Whole
        <5>2. (0 + n) % 16 = 0
          BY <1>5, <5>1
        <5>3. Flash!Further(c, n) = [op |-> op, at |-> 0]
          BY <2>4, <4>4, <5>2 DEF Flash!Further
        <5> QED
          BY <3>3, <4>2, <4>4, <5>3
      <4>5. CASE op \notin {"read", "id"}
        <5>1. Flash!Further(c, n) = c
          BY <2>5, <4>5 DEF Flash!Further
        <5> QED
          BY <2>4, <3>3, <4>2, <4>5, <5>1
      <4> QED
        BY <4>3, <4>4, <4>5
    <3> QED
      BY <3>1, <3>2, <3>3
  <2> QED
    BY <1>2, <2>3, <2>5, <2>7, <2>8 DEF Flash!End, c, m
<1> QED
  BY <1>0, <1>9, <1>10 DEF SpifTypeOK

LEMMA SpifStepImplements ==
  ASSUME SpifInv, [SpifNext]_spifVars
  PROVE  Flash!FlashNext \/ UNCHANGED Flash!flashVars
<1>0. /\ SpifTypeOK /\ (active <=> started # Flash!None)
      /\ Flash!None # Flash!Spoiled /\ Flash!None \notin Flash!Access
      /\ Flash!Spoiled \notin Flash!Access
  BY DEF SpifInv, Flash!None, Flash!Spoiled, Flash!Access
<1>1. CASE UNCHANGED spifVars
  BY <1>1, FlashStutter DEF spifVars, memFlash
<1>2. ASSUME NEW w \in FlashWords, WriteTxData(w)
      PROVE  Flash!FlashNext \/ UNCHANGED Flash!flashVars
  <2>1. /\ rxData' = rxData /\ UNCHANGED <<lost, opcode, curaddr>>
        /\ started' = IF active THEN Flash!Spoiled ELSE started
    BY <1>2 DEF WriteTxData, Disturb, memFlash
  <2> QED
    BY <2>1, SpoilStep, FlashStutter DEF Flash!FlashNext
<1>3. ASSUME NEW c \in FlashClocks, WriteClkCtrl(c)
      PROVE  Flash!FlashNext \/ UNCHANGED Flash!flashVars
  <2>1. /\ rxData' = rxData /\ UNCHANGED <<lost, opcode, curaddr>>
        /\ started' = IF active THEN Flash!Spoiled ELSE started
    BY <1>3 DEF WriteClkCtrl, Disturb, memFlash
  <2> QED
    BY <2>1, SpoilStep, FlashStutter DEF Flash!FlashNext
<1>4. ASSUME NEW c \in FlashClocks, Start(c)
      PROVE  Flash!Begin
  <2>1. /\ ~active /\ UNCHANGED <<rxData, lost, opcode, curaddr>>
        /\ started' = [kind |-> "access", word |-> txData, clocks |-> c, last |-> ssSetup = 1]
    BY <1>4 DEF Start
  <2>2. started = Flash!None /\ started' \in Flash!Access
    BY <1>0, <2>1 DEF Flash!Access, SpifTypeOK
  <2>3. started # [kind |-> "spoiled"] /\ started' # [kind |-> "spoiled"]
    BY <1>0, <2>2 DEF Flash!Spoiled
  <2>4. UNCHANGED Stream
    BY <2>1, <2>3 DEF Stream
  <2> QED
    BY <2>1, <2>2, <2>4 DEF Flash!Begin
<1>5. ASSUME NEW s \in 0 .. 3, WriteSetup(s)
      PROVE  Flash!FlashNext \/ UNCHANGED Flash!flashVars
  <2>1. /\ rxData' = rxData /\ curaddr' = curaddr
        /\ opcode' = (IF s = 3 THEN "none" ELSE opcode)
        /\ started' = (IF active /\ s # ssSetup THEN Flash!Spoiled ELSE started)
        /\ lost' = (IF active THEN lost ELSE IF s = 3 THEN FALSE
                    ELSE lost \/ (s # ssSetup /\ opcode # "none"))
    BY <1>5 DEF WriteSetup
  <2>2. CASE active /\ s # ssSetup
    BY <2>1, <2>2, SpoilStep DEF Flash!FlashNext
  <2>3. CASE active /\ s = ssSetup
    <3>1. started' = started /\ lost' = lost
      BY <2>1, <2>3
    <3>2. CASE started = Flash!Spoiled
      <4>1. Stream' = Stream
        BY <3>1, <3>2 DEF Stream, Flash!Spoiled
      <4> QED
        BY <2>1, <3>1, <4>1, FlashStutter
    <3>3. CASE started \in Flash!Access
      <4>1. s # 3
        BY <2>3, <3>3 DEF SpifInv
      <4> QED
        BY <2>1, <3>1, <4>1, FlashStutter
    <3> QED
      BY <1>0, <2>3, <3>2, <3>3 DEF SpifTypeOK
  <2>4. CASE ~active
    <3>1. /\ started' = started /\ started = Flash!None
          /\ started # [kind |-> "spoiled"] /\ started' # [kind |-> "spoiled"]
      BY <1>0, <2>1, <2>4 DEF Flash!Spoiled
    <3>2. CASE s = 3
      <4>1. Stream' = Flash!Idle
        BY <2>1, <2>4, <3>1, <3>2 DEF Stream, Flash!Idle
      <4> QED
        BY <2>1, <3>1, <4>1 DEF Flash!Deselect, Flash!FlashNext
    <3>3. CASE s # 3 /\ lost'
      <4>1. Stream' = Flash!Lost
        BY <3>3 DEF Stream, Flash!Lost
      <4> QED
        BY <2>1, <3>1, <4>1 DEF Flash!Leave, Flash!FlashNext
    <3>4. CASE s # 3 /\ ~lost'
      <4>1. ~lost /\ opcode' = opcode
        BY <2>1, <2>4, <3>4
      <4>2. Stream' = Stream
        BY <2>1, <3>1, <3>4, <4>1 DEF Stream
      <4> QED
        BY <2>1, <3>1, <4>2, FlashStutter
    <3> QED
      BY <3>2, <3>3, <3>4
  <2> QED
    BY <2>2, <2>3, <2>4
<1>6. CASE ClearInt
  BY <1>6, FlashStutter DEF ClearInt, memFlash
<1>7. CASE ThreadFlash
  <2>1. CASE failed' # FALSE
    <3>1. UNCHANGED <<rxData, opcode, curaddr, started, lost>>
      BY <1>7, <2>1 DEF ThreadFlash, memFlash
    <3> QED
      BY <3>1, FlashStutter
  <2>2. CASE failed' = FALSE /\ started = Flash!Spoiled
    <3>1. started' = Flash!None /\ lost' = TRUE
      BY <1>7, <2>2 DEF ThreadFlash
    <3>2. Stream' = Flash!Lost
      BY <3>1 DEF Stream, Flash!Lost
    <3> QED
      BY <2>2, <3>1, <3>2 DEF Flash!EndSpoiled, Flash!FlashNext
  <2>3. CASE failed' = FALSE /\ started \in Flash!Access
    BY <1>7, <2>3, EndStep DEF Flash!FlashNext
  <2>4. active
    BY <1>7 DEF ThreadFlash
  <2> QED
    BY <1>0, <2>1, <2>2, <2>3, <2>4 DEF SpifTypeOK
<1> QED
  BY <1>1, <1>2, <1>3, <1>4, <1>5, <1>6, <1>7
  DEF SpifNext, SpifWrites, Flash!FlashNext

(***************************************************************************)
(* For any commands, clocks and size of the flash, the registers and the   *)
(* thread that reads them when the clocks have passed reply what a serial  *)
(* flash replies: nothing of a command is skipped, repeated or mixed with  *)
(* another access.                                                         *)
(***************************************************************************)
THEOREM FlashImplementation == SpifSpec => ImplementsFlash
<1>1. SpifInit => Flash!FlashInit
  <2>1. SpifInit => Stream = Flash!Idle
    BY DEF SpifInit, Stream, Flash!Idle, Flash!None
  <2> QED
    BY <2>1 DEF SpifInit, Flash!FlashInit
<1>2. SpifInv /\ [SpifNext]_spifVars => [Flash!FlashNext]_(Flash!flashVars)
  BY SpifStepImplements
<1> QED
  BY <1>1, <1>2, SpifInvariance, PTL DEF SpifSpec, ImplementsFlash, Flash!FlashSpec

-----------------------------------------------------------------------------

\* A timer as TimerInv has it.
Kept(r) ==
  /\ r \in Timer
  /\ r.armed # Off => r.ctl.on
  /\ r.ctl.on /\ r.ctl.mode # "oneshot" => r.armed # Off \/ r.ready
  /\ r.armed # Off => r.armed + r.elapsed = r.value * r.ctl.div

LEMMA Periods ==
  ASSUME NEW v \in Value, NEW d \in Divs
  PROVE  /\ v * d \in 0 .. Horizon /\ v * d < Horizon /\ v * d # Off
         /\ Horizon \in Nat \ {0} /\ 0 \in 0 .. Horizon-1
         /\ v * d + 0 = v * d
<1>1. v \in Nat /\ d \in Nat /\ d # 0 /\ MaxDiv \in Nat /\ Width \in Nat /\ v < Width /\ d =< MaxDiv
  BY WidthAssumption, DivsAssumption DEF Value, Width
<1>2. v * d \in Nat /\ Width * MaxDiv \in Nat
  BY <1>1
<1>3. v * d =< v * MaxDiv
  BY <1>1
<1>4. v * MaxDiv < Width * MaxDiv
  BY <1>1
<1> QED
  BY <1>1, <1>2, <1>3, <1>4 DEF Horizon, Off

LEMMA MaskedValue ==
  ASSUME NEW c, NEW v \in Value
  PROVE  Masked(c, v) \in Value
<1>1. v % Narrow \in Value
  BY WidthAssumption DEF Value
<1> QED
  BY <1>1, Zenon DEF Masked

LEMMA Fields ==
  ASSUME NEW r \in Timer
  PROVE  /\ r.load \in Value /\ r.value \in Value /\ r.bg \in BOOLEAN /\ r.ris \in BOOLEAN
         /\ r.stopped \in BOOLEAN /\ r.ready \in BOOLEAN
         /\ r.armed \in {Off} \union 0 .. Horizon /\ r.elapsed \in 0 .. Horizon-1
         /\ r.ctl \in Control /\ r.ctl.on \in BOOLEAN /\ r.ctl.ie \in BOOLEAN
         /\ r.ctl.div \in Divs /\ r.ctl.wide \in BOOLEAN
         /\ r.ctl.mode \in {"oneshot", "free", "periodic"}
BY DEF Timer, Control

LEMMA StartedKept ==
  ASSUME NEW r \in Timer
  PROVE  Kept(Started(r))
<1> DEFINE v == Masked(r.ctl, r.value)
<1>0. v \in Value /\ Off \in {Off} \union 0 .. Horizon
  BY Fields, MaskedValue
<1>1. CASE r.ctl.on = TRUE
  <2>1. Started(r) = [r EXCEPT !.value = v, !.armed = v * r.ctl.div, !.elapsed = 0]
    BY <1>1, Zenon DEF Started
  <2>2. /\ v * r.ctl.div \in {Off} \union 0 .. Horizon /\ 0 \in 0 .. Horizon-1
        /\ v * r.ctl.div # Off /\ v * r.ctl.div + 0 = v * r.ctl.div
    BY <1>0, Fields, Periods
  <2>3. Started(r) \in Timer
    BY <1>0, <2>1, <2>2 DEF Timer
  <2>4. /\ Started(r).ctl = r.ctl /\ Started(r).armed = v * r.ctl.div
        /\ Started(r).value = v /\ Started(r).elapsed = 0
    BY <2>1 DEF Timer
  <2> QED
    BY <1>1, <2>2, <2>3, <2>4, Zenon DEF Kept
<1>2. CASE r.ctl.on = FALSE
  <2>1. Started(r) = [r EXCEPT !.armed = Off]
    BY <1>2, Zenon DEF Started
  <2>2. Started(r) \in Timer
    BY <1>0, <2>1 DEF Timer
  <2>3. Started(r).ctl = r.ctl /\ Started(r).armed = Off
    BY <2>1 DEF Timer
  <2> QED
    BY <1>2, <2>2, <2>3, Zenon DEF Kept
<1> QED
  BY <1>1, <1>2, Fields, Zenon

LEMMA StoppedValue ==
  ASSUME NEW v \in Value, NEW e \in 0 .. Horizon-1, NEW d \in Divs
  PROVE  (v - e \div d) % Width \in Value
<1>1. /\ v \in Nat /\ d \in Nat \ {0} /\ Horizon \in Nat /\ Width \in Nat \ {0}
  BY Periods, DivsAssumption, WidthAssumption DEF Value, Width
<1>2. e \in Int
  BY <1>1
<1>3. e \div d \in Int
  BY <1>1, <1>2
<1>4. \A i \in Int : i % Width \in Value
  BY WidthAssumption DEF Width, Value
<1> QED
  BY <1>1, <1>3, <1>4

LEMMA StoppedKept ==
  ASSUME NEW r \in Timer, r.ctl.on => r.ctl.mode = "oneshot"
  PROVE  Kept(Stopped(r))
<1> DEFINE v == (r.value - r.elapsed \div r.ctl.div) % Width
<1>1. v \in Value
  BY Fields, StoppedValue, Zenon
<1>2. Stopped(r) = [r EXCEPT !.stopped = TRUE, !.armed = Off, !.value = v]
  BY DEF Stopped, Timer
<1>3. Stopped(r) \in Timer
  <2> HIDE DEF v
  <2> QED
    BY <1>1, <1>2 DEF Timer
<1>4. Stopped(r).ctl = r.ctl /\ Stopped(r).armed = Off
  BY <1>2 DEF Timer
<1> QED
  BY <1>3, <1>4, Zenon DEF Kept

LEMMA TriggeredKept ==
  ASSUME NEW r, Kept(r)
  PROVE  Kept(Triggered(r)) /\ Triggered(r).ctl = r.ctl /\ Triggered(r).ris = r.ris
<1>0. r \in Timer
  BY DEF Kept
<1>1. CASE r.armed = 0
  <2>1. Triggered(r) = [r EXCEPT !.armed = Off, !.ready = TRUE]
    BY <1>1, Zenon DEF Triggered
  <2>2. Triggered(r) \in Timer
    BY <1>0, <2>1 DEF Timer
  <2>3. /\ Triggered(r).ctl = r.ctl /\ Triggered(r).ris = r.ris
        /\ Triggered(r).armed = Off /\ Triggered(r).ready = TRUE
    BY <1>0, <2>1 DEF Timer
  <2> QED
    BY <2>2, <2>3, Zenon DEF Kept
<1>2. CASE r.armed # 0
  BY <1>2, Zenon DEF Triggered
<1> QED
  BY <1>1, <1>2

LEMMA TickKept ==
  ASSUME NEW r, Kept(r), r.armed # 0
  PROVE  LET q == [r EXCEPT !.armed = IF @ = Off THEN Off ELSE @ - 1,
                            !.elapsed = (@ + 1) % Horizon]
         IN  /\ Kept(q) /\ q.ctl = r.ctl /\ q.ris = r.ris
<1> DEFINE a == IF r.armed = Off THEN Off ELSE r.armed - 1
           e == (r.elapsed + 1) % Horizon
           q == [r EXCEPT !.armed = IF @ = Off THEN Off ELSE @ - 1,
                          !.elapsed = (@ + 1) % Horizon]
<1>0. r \in Timer
  BY DEF Kept
<1>1. r.value \in Value /\ r.ctl.div \in Divs
  BY <1>0, Fields
<1>2. Horizon \in Nat \ {0} /\ r.value * r.ctl.div < Horizon /\ r.value * r.ctl.div \in 0 .. Horizon
  BY <1>1, Periods
<1>3. r.armed \in {Off} \union 0 .. Horizon /\ r.elapsed \in 0 .. Horizon-1
  BY <1>0, Fields
<1>4. a \in {Off} \union 0 .. Horizon /\ e \in 0 .. Horizon-1
  BY <1>2, <1>3 DEF Off
<1>5. q = [r EXCEPT !.armed = a, !.elapsed = e]
  BY <1>0 DEF Timer
<1>6. /\ q.ctl = r.ctl /\ q.ris = r.ris /\ q.armed = a /\ q.elapsed = e
      /\ q.value = r.value /\ q.ready = r.ready
  BY <1>0 DEF Timer
<1>7. q \in Timer
  <2> HIDE DEF a, e
  <2> QED
    BY <1>0, <1>4, <1>5 DEF Timer
<1>8. /\ a # Off => r.armed # Off
      /\ r.armed # Off => a # Off
      /\ r.armed # Off => r.armed + r.elapsed = r.value * r.ctl.div
  BY <1>3 DEF Off, Kept
<1>9. a # Off => a + e = r.value * r.ctl.div
  <2> DEFINE p == r.value * r.ctl.div
  <2>1. p \in Nat /\ p < Horizon
    BY <1>2
  <2> HIDE DEF p
  <2>2. SUFFICES ASSUME r.armed # Off PROVE a + e = p
    BY <1>8 DEF p
  <2>3. r.armed + r.elapsed = p
    BY <1>8, <2>2 DEF p
  <2> QED
    BY <1>2, <1>3, <2>1, <2>2, <2>3 DEF Off
<1> QED
  <2>1. Kept(q)
    <3> HIDE DEF q, a, e
    <3> QED
      BY <1>6, <1>7, <1>8, <1>9, Zenon DEF Kept
  <2> QED
    BY <1>6, <2>1

LEMMA Lines ==
  ASSUME timer' \in [Timers -> Timer], TimerUpdateInt
  PROVE  /\ timerLine' \in [Timers -> BOOLEAN]
         /\ timerLine'[1] = (timer'[1].ctl.on /\ timer'[1].ctl.ie /\ timer'[1].ris)
<1>1. 1 \in Timers
  BY TimersAssumption
<1>2. \A t \in Timers : timer'[t].ctl.on \in BOOLEAN /\ timer'[t].ctl.ie \in BOOLEAN /\ timer'[t].ris \in BOOLEAN
  BY Fields
<1>3. timerLine' = [t \in Timers |-> timer'[t].ctl.on /\ timer'[t].ctl.ie /\ timer'[1].ris]
  BY Zenon DEF TimerUpdateInt
<1>4. \A t \in Timers : (timer'[t].ctl.on /\ timer'[t].ctl.ie /\ timer'[1].ris) \in BOOLEAN
  BY Zenon
<1> QED
  BY <1>1, <1>3, <1>4, Zenon

LEMMA InvIsKept ==
  TimerInv <=> /\ \A t \in Timers : Kept(timer[t])
               /\ timer \in [Timers -> Timer] /\ timerLine \in [Timers -> BOOLEAN]
               /\ timerAccessed \in BOOLEAN
               /\ timerLine[1] = (timer[1].ctl.on /\ timer[1].ctl.ie /\ timer[1].ris)
BY Zenon DEF TimerInv, TimerTypeOK, ArmedIffRunning, PeriodConserved, Kept

\* A write of a register, and the thread of a timer: one timer changes.
LEMMA WriteKept ==
  ASSUME TimerInv, NEW t \in Timers, NEW r, Kept(r),
         timer' = [timer EXCEPT ![t] = r], TimerUpdateInt, timerAccessed' \in BOOLEAN
  PROVE  TimerInv'
<1>1. timer \in [Timers -> Timer] /\ \A s \in Timers : Kept(timer[s])
  BY Zenon, InvIsKept
<1>2. r \in Timer
  BY Zenon DEF Kept
<1>3. timer' \in [Timers -> Timer] /\ \A s \in Timers : timer'[s] = IF s = t THEN r ELSE timer[s]
  BY <1>1, <1>2
<1>4. \A s \in Timers : Kept(timer'[s])
  BY <1>1, <1>3, Zenon
<1>5. TimerInv' <=> /\ \A s \in Timers : Kept(timer'[s])
                   /\ timer' \in [Timers -> Timer] /\ timerLine' \in [Timers -> BOOLEAN]
                   /\ timerAccessed' \in BOOLEAN
                   /\ timerLine'[1] = (timer'[1].ctl.on /\ timer'[1].ctl.ie /\ timer'[1].ris)
  BY Zenon DEF TimerInv, TimerTypeOK, ArmedIffRunning, PeriodConserved, Kept
<1> QED
  BY <1>3, <1>4, <1>5, Lines, Zenon

\* Time and delta cycles: all timers change, none of what the lines show.
LEMMA TimeKept ==
  ASSUME TimerInv, UNCHANGED timerLine, timerAccessed' \in BOOLEAN,
         timer' = [t \in Timers |-> timer'[t]],
         \A t \in Timers : /\ Kept(timer'[t])
                           /\ timer'[t].ctl = timer[t].ctl /\ timer'[t].ris = timer[t].ris
  PROVE  TimerInv'
<1>2. timer' \in [Timers -> Timer]
  BY Zenon DEF Kept
<1>3. 1 \in Timers
  BY TimersAssumption
<1>4. /\ timerLine \in [Timers -> BOOLEAN]
      /\ timerLine[1] = (timer[1].ctl.on /\ timer[1].ctl.ie /\ timer[1].ris)
  BY Zenon, InvIsKept
<1>5. TimerInv' <=> /\ \A s \in Timers : Kept(timer'[s])
                   /\ timer' \in [Timers -> Timer] /\ timerLine' \in [Timers -> BOOLEAN]
                   /\ timerAccessed' \in BOOLEAN
                   /\ timerLine'[1] = (timer'[1].ctl.on /\ timer'[1].ctl.ie /\ timer'[1].ris)
  BY Zenon DEF TimerInv, TimerTypeOK, ArmedIffRunning, PeriodConserved, Kept
<1> QED
  BY <1>2, <1>3, <1>4, <1>5, Zenon

\* For any width, prescalers and number of timers: arming agrees with
\* enabling, and what is left and what has elapsed make up the period.
THEOREM TimerInvariance == TimerSpec => []TimerInv
<1>1. TimerInit => TimerInv
  <2> SUFFICES ASSUME TimerInit PROVE TimerInv
    OBVIOUS
  <2> DEFINE c == [on |-> FALSE, mode |-> "periodic", ie |-> TRUE, div |-> 1, wide |-> FALSE]
             r == [load |-> 0, value |-> Full, bg |-> FALSE, ctl |-> c, ris |-> FALSE,
                   stopped |-> TRUE, armed |-> Off, ready |-> FALSE, elapsed |-> 0]
  <2>1. timer = [t \in Timers |-> r] /\ timerLine = [t \in Timers |-> FALSE] /\ timerAccessed = FALSE
    BY Zenon DEF TimerInit
  <2>2. 0 \in Value /\ Full \in Value /\ 1 \in Divs /\ 1 \in Timers
    BY WidthAssumption, DivsAssumption, TimersAssumption DEF Value
  <2>3. 0 \in 0 .. Horizon-1 /\ Off \in {Off} \union 0 .. Horizon
    BY <2>2, Periods, Zenon
  <2>4. c \in Control
    BY <2>2 DEF Control
  <2>5. r \in Timer
    <3> HIDE DEF c
    <3> QED
      BY <2>2, <2>3, <2>4 DEF Timer
  <2>6. r.armed = Off /\ r.ctl = c /\ c.on = FALSE /\ r.ris = FALSE
    OBVIOUS
  <2>7. Kept(r)
    <3> HIDE DEF r, c
    <3> QED
      BY <2>5, <2>6, Zenon DEF Kept
  <2> QED
    <3> HIDE DEF r, c
    <3> QED
      BY <2>1, <2>2, <2>5, <2>6, <2>7, InvIsKept, Zenon
<1>2. ASSUME TimerInv, [TimerNext]_timerVars
      PROVE  TimerInv'
  <2>0. timerAccessed \in BOOLEAN /\ \A t \in Timers : Kept(timer[t]) /\ timer[t] \in Timer
    BY <1>2, InvIsKept, Zenon DEF Kept
  <2>1. CASE UNCHANGED timerVars
    <3>1. timer' = timer /\ timerLine' = timerLine /\ timerAccessed' = timerAccessed
      BY <2>1 DEF timerVars
    <3> QED
      BY <1>2, <3>1, Zenon DEF TimerInv, TimerTypeOK, ArmedIffRunning, PeriodConserved
  <2>2. ASSUME NEW t \in Timers, NEW r, Kept(r), Write(t, r)
        PROVE  TimerInv'
    <3>1. timer' = [timer EXCEPT ![t] = r] /\ TimerUpdateInt /\ timerAccessed' \in BOOLEAN
      BY <2>2, Zenon DEF Write
    <3> QED
      BY <1>2, <2>2, <3>1, WriteKept
  <2>3. ASSUME NEW t \in Timers, NEW c \in Control, WriteControl(t, c)
        PROVE  TimerInv'
    <3> DEFINE p == timer[t].ctl
               r == [timer[t] EXCEPT !.ctl = c]
    <3>1. r \in Timer /\ r.ctl = c
      BY <2>0 DEF Timer
    <3>2. /\ r.armed = timer[t].armed /\ r.elapsed = timer[t].elapsed
          /\ r.value = timer[t].value /\ r.ready = timer[t].ready
      BY <2>0 DEF Timer
    <3>3. /\ p.on /\ c.on => c = [p EXCEPT !.ie = c.ie]
          /\ Write(t, IF ~p.on /\ c.on THEN Started(r) ELSE IF p.on /\ ~c.on THEN Stopped(r) ELSE r)
      BY <2>3, Zenon DEF WriteControl
    <3>4. p.on \in BOOLEAN /\ c.on \in BOOLEAN /\ p \in Control
      BY <2>0, <3>1, Fields, Zenon
    <3>5. CASE ~p.on /\ c.on
      BY <2>2, <3>1, <3>3, <3>5, StartedKept, Zenon
    <3>6. CASE p.on /\ ~c.on
      BY <2>2, <3>1, <3>3, <3>6, StoppedKept, Zenon
    <3>7. CASE p.on /\ c.on
      <4>1. c.on = p.on /\ c.mode = p.mode /\ c.div = p.div
        BY <3>3, <3>4, <3>7 DEF Control
      <4>2. Kept(r)
        BY <2>0, <3>1, <3>2, <4>1, Zenon DEF Kept
      <4> QED
        BY <2>2, <3>3, <3>7, <4>2, Zenon
    <3>8. CASE ~p.on /\ ~c.on
      <4>1. Kept(r)
        BY <2>0, <3>1, <3>2, <3>8, Zenon DEF Kept
      <4> QED
        BY <2>2, <3>3, <3>8, <4>1, Zenon
    <3> QED
      BY <3>4, <3>5, <3>6, <3>7, <3>8, Zenon
  <2>4. ASSUME NEW t \in Timers, WriteIntClr(t)
        PROVE  TimerInv'
    <3> DEFINE r == [timer[t] EXCEPT !.ris = FALSE]
    <3>1. r \in Timer
      BY <2>0 DEF Timer
    <3>2. /\ r.armed = timer[t].armed /\ r.elapsed = timer[t].elapsed /\ r.ctl = timer[t].ctl
          /\ r.value = timer[t].value /\ r.ready = timer[t].ready
      BY <2>0 DEF Timer
    <3>3. Kept(r)
      BY <2>0, <3>1, <3>2, Zenon DEF Kept
    <3> QED
      BY <2>2, <2>4, <3>3, Zenon DEF WriteIntClr
  <2>5. ASSUME NEW t \in Timers, NEW v \in Value, WriteLoad(t, v)
        PROVE  TimerInv'
    <3> DEFINE r == [timer[t] EXCEPT !.load = IF timer[t].bg THEN @ ELSE v, !.value = v]
    <3>1. (IF timer[t].bg THEN timer[t].load ELSE v) \in Value
      BY <2>0, Fields, Zenon
    <3>2. r = [timer[t] EXCEPT !.load = IF timer[t].bg THEN timer[t].load ELSE v, !.value = v]
      BY <2>0 DEF Timer
    <3>3. \A l \in Value : [timer[t] EXCEPT !.load = l, !.value = v] \in Timer
      BY <2>0 DEF Timer
    <3>4. r \in Timer
      BY <3>1, <3>2, <3>3, Zenon
    <3> QED
      BY <2>2, <2>5, <3>4, StartedKept, Zenon DEF WriteLoad
  <2>6. ASSUME NEW t \in Timers, NEW v \in Value, WriteBgLoad(t, v)
        PROVE  TimerInv'
    <3> DEFINE r == [timer[t] EXCEPT !.bg = TRUE, !.load = v]
    <3>1. r \in Timer
      BY <2>0 DEF Timer
    <3>2. /\ r.armed = timer[t].armed /\ r.elapsed = timer[t].elapsed /\ r.ctl = timer[t].ctl
          /\ r.value = timer[t].value /\ r.ready = timer[t].ready
      BY <2>0 DEF Timer
    <3>3. Kept(r)
      BY <2>0, <3>1, <3>2, Zenon DEF Kept
    <3> QED
      BY <2>2, <2>6, <3>3, Zenon DEF WriteBgLoad
  <2>7. ASSUME NEW t \in Timers, TimerExpire(t)
        PROVE  TimerInv'
    <3> DEFINE r == [timer[t] EXCEPT !.ready = FALSE, !.bg = FALSE, !.ris = TRUE]
               q(v) == [r EXCEPT !.value = v]
    <3>1. r \in Timer
      BY <2>0 DEF Timer
    <3>2. r.ctl.mode \in {"oneshot", "free", "periodic"} /\ r.load \in Value /\ Full \in Value
      <4>1. Full \in Value
        BY WidthAssumption DEF Value
      <4> HIDE DEF r
      <4> QED
        BY <3>1, <4>1, Fields, Zenon
    <3>3. \A v \in Value : q(v) \in Timer
      <4> HIDE DEF r
      <4> QED
        BY <3>1 DEF Timer
    <3>4. /\ TimerUpdateInt /\ timerAccessed' = timerAccessed
          /\ timer' = [timer EXCEPT ![t] =
               CASE r.ctl.mode = "oneshot"  -> Stopped(r)
                 [] r.ctl.mode = "free"     -> Started(q(Full))
                 [] r.ctl.mode = "periodic" -> Started(q(r.load))]
      BY <2>7, Zenon DEF TimerExpire
    <3> HIDE DEF r, q
    <3>5. \E s : Kept(s) /\ timer' = [timer EXCEPT ![t] = s]
      <4>1. CASE r.ctl.mode = "oneshot"
        BY <3>1, <3>4, <4>1, StoppedKept, Zenon
      <4>2. CASE r.ctl.mode = "free"
        <5>1. r.ctl.mode # "oneshot"
          BY <4>2
        <5> QED
          BY <3>2, <3>3, <3>4, <4>2, <5>1, StartedKept, Zenon
      <4>3. CASE r.ctl.mode = "periodic"
        <5>1. r.ctl.mode # "oneshot" /\ r.ctl.mode # "free"
          BY <4>3
        <5> QED
          BY <3>2, <3>3, <3>4, <4>3, <5>1, StartedKept, Zenon
      <4> QED
        BY <3>2, <4>1, <4>2, <4>3, Zenon
    <3> QED
      BY <1>2, <2>0, <3>4, <3>5, WriteKept, Zenon
  <2>8. CASE TimerDeltaCycle
    <3> DEFINE f(t) == Triggered(timer[t])
    <3>1. UNCHANGED timerLine /\ timerAccessed' \in BOOLEAN /\ timer' = [t \in Timers |-> f(t)]
      BY <2>8, Zenon DEF TimerDeltaCycle
    <3>2. \A t \in Timers : Kept(f(t)) /\ f(t).ctl = timer[t].ctl /\ f(t).ris = timer[t].ris
      BY <2>0, TriggeredKept, Zenon
    <3> HIDE DEF f
    <3>4. timer' = [t \in Timers |-> timer'[t]] /\ \A t \in Timers : timer'[t] = f(t)
      BY <3>1, Zenon
    <3> QED
      BY <1>2, <3>1, <3>2, <3>4, TimeKept, Zenon
  <2>9. CASE TimerTick
    <3> DEFINE g(t) == [timer[t] EXCEPT !.armed = IF @ = Off THEN Off ELSE @ - 1,
                                        !.elapsed = (@ + 1) % Horizon]
               f(t) == Triggered(g(t))
    <3>1. UNCHANGED timerLine /\ timerAccessed' \in BOOLEAN /\ timer' = [t \in Timers |-> f(t)]
      BY <2>9, Zenon DEF TimerTick
    <3>2. \A t \in Timers : Kept(g(t)) /\ g(t).ctl = timer[t].ctl /\ g(t).ris = timer[t].ris
      BY <2>0, <2>9, TickKept, Zenon DEF TimerTick
    <3> HIDE DEF g
    <3>3. \A t \in Timers : Kept(f(t)) /\ f(t).ctl = timer[t].ctl /\ f(t).ris = timer[t].ris
      BY <3>2, TriggeredKept, Zenon
    <3> HIDE DEF f
    <3>4. timer' = [t \in Timers |-> timer'[t]] /\ \A t \in Timers : timer'[t] = f(t)
      BY <3>1, Zenon
    <3> QED
      BY <1>2, <3>1, <3>3, <3>4, TimeKept, Zenon
  <2> QED
    BY <1>2, <2>1, <2>3, <2>4, <2>5, <2>6, <2>7, <2>8, <2>9, Zenon DEF TimerNext, TimerRegisters
<1> QED
  BY <1>1, <1>2, PTL DEF TimerSpec

-----------------------------------------------------------------------------
(* The address decoder. *)

DebugWords == INSTANCE Lemmas WITH Op <- DebugWord

Ranges == {r \in [start : 0 .. Window-1, end : 1 .. Window-1] : r.start < r.end}

\* Lists as the decoder keeps them: their ranges are disjoint.
Separate(l) ==
  \A i, j \in DOMAIN l :
    i # j => l[i].end =< l[j].start \/ l[j].end =< l[i].start

Good(l) == l \in Seq(Ranges) /\ Separate(l)

SameRanges(l, k) == Len(k) = Len(l) /\ ToSet(k) = ToSet(l)

\* The position in a list from which position k is filled when the element at
\* i moves to the head.
From(i, k) == IF k = 1 THEN i ELSE IF k =< i THEN k-1 ELSE k

LEMMA MoveElements ==
  ASSUME NEW S, NEW l \in Seq(S), NEW i \in 1 .. Len(l)
  PROVE  /\ MoveToHead(l, i) \in Seq(S) /\ Len(MoveToHead(l, i)) = Len(l)
         /\ \A k \in 1 .. Len(l) : MoveToHead(l, i)[k] = l[From(i, k)]
<1> DEFINE n == Len(l)
           a == SubSeq(l, 1, i-1)
           b == SubSeq(l, i+1, n)
           c == a \o b
           d == <<l[i]>>
<1>1. n \in Nat /\ l[i] \in S /\ i \in 1 .. n
  OBVIOUS
<1>2. a \in Seq(S) /\ Len(a) = i-1 /\ \A k \in 1 .. i-1 : a[k] = l[k]
  OBVIOUS
<1>3. b \in Seq(S) /\ Len(b) = n-i /\ \A k \in 1 .. n-i : b[k] = l[k+i]
  OBVIOUS
<1>4. d \in Seq(S) /\ Len(d) = 1 /\ d[1] = l[i]
  BY <1>1
<1> HIDE DEF a, b, d, n
<1>5. /\ c \in Seq(S) /\ Len(c) = n-1
      /\ \A k \in 1 .. n-1 : c[k] = IF k =< i-1 THEN a[k] ELSE b[k-(i-1)]
  <2>1. Len(a) + Len(b) = n-1
    BY <1>1, <1>2, <1>3
  <2>2. /\ c \in Seq(S) /\ Len(c) = Len(a) + Len(b)
        /\ \A k \in 1 .. Len(a) + Len(b) :
             c[k] = IF k =< Len(a) THEN a[k] ELSE b[k-Len(a)]
    BY <1>2, <1>3, ConcatProperties
  <2> QED
    BY <1>2, <2>1, <2>2
<1> HIDE DEF c
<1>6. /\ d \o c \in Seq(S) /\ Len(d \o c) = n
      /\ \A k \in 1 .. n : (d \o c)[k] = IF k =< 1 THEN d[k] ELSE c[k-1]
  <2>1. Len(d) + Len(c) = n
    BY <1>1, <1>4, <1>5
  <2>2. /\ d \o c \in Seq(S) /\ Len(d \o c) = Len(d) + Len(c)
        /\ \A k \in 1 .. Len(d) + Len(c) :
             (d \o c)[k] = IF k =< Len(d) THEN d[k] ELSE c[k-Len(d)]
    BY <1>4, <1>5, ConcatProperties
  <2> QED
    BY <1>4, <2>1, <2>2
<1>7. MoveToHead(l, i) = d \o c
  BY DEF MoveToHead, RemoveAt, a, b, c, d, n
<1>8. ASSUME NEW k \in 1 .. n
      PROVE  (d \o c)[k] = l[From(i, k)]
  <2>1. CASE k = 1
    BY <1>1, <1>4, <1>6, <2>1 DEF From
  <2>2. CASE k # 1 /\ k =< i
    <3>1. k-1 \in 1 .. n-1 /\ k-1 \in 1 .. i-1 /\ k-1 =< i-1
      BY <1>1, <2>2
    <3>2. (d \o c)[k] = c[k-1]
      BY <1>1, <1>6, <2>2
    <3> QED
      BY <1>2, <1>5, <2>2, <3>1, <3>2 DEF From
  <2>3. CASE k > i
    <3>1. k-1 \in 1 .. n-1 /\ ~(k-1 =< i-1) /\ k-i \in 1 .. n-i /\ (k-1)-(i-1) = k-i
      BY <1>1, <2>3
    <3>2. (d \o c)[k] = c[k-1]
      BY <1>1, <1>6, <2>3
    <3>3. b[k-i] = l[k]
      BY <1>1, <1>3, <3>1
    <3>4. c[k-1] = b[k-i]
      BY <1>5, <3>1
    <3> QED
      BY <1>1, <2>3, <3>2, <3>3, <3>4 DEF From
  <2>4. k = 1 \/ (k # 1 /\ k =< i) \/ k > i
    BY <1>1
  <2> QED
    BY <2>1, <2>2, <2>3, <2>4
<1> QED
  BY <1>6, <1>7, <1>8 DEF n

\* No range is lost, doubled or changed by a move to the head.
LEMMA MoveKeeps ==
  ASSUME NEW l, Good(l), NEW i \in 1 .. Len(l)
  PROVE  Good(MoveToHead(l, i)) /\ SameRanges(l, MoveToHead(l, i))
<1> DEFINE k == MoveToHead(l, i)
           n == Len(l)
<1>1. l \in Seq(Ranges) /\ n \in Nat /\ DOMAIN l = 1 .. n /\ i \in 1 .. n
  BY DEF Good
<1>2. k \in Seq(Ranges) /\ Len(k) = n /\ \A p \in 1 .. n : k[p] = l[From(i, p)]
  BY <1>1, MoveElements
<1>3. DOMAIN k = 1 .. n
  BY <1>1, <1>2
<1>4. \A p \in 1 .. n : From(i, p) \in 1 .. n
  BY <1>1 DEF From
<1>5. \A p, q \in 1 .. n : p # q => From(i, p) # From(i, q)
  BY <1>1 DEF From
<1>6. \A p \in 1 .. n : \E q \in 1 .. n : From(i, q) = p
  <2> TAKE p \in 1 .. n
  <2> DEFINE q == IF p = i THEN 1 ELSE IF p < i THEN p+1 ELSE p
  <2>1. q \in 1 .. n /\ From(i, q) = p
    BY <1>1 DEF From
  <2> QED
    BY <2>1
<1> HIDE DEF k, n
<1>7. ToSet(k) = ToSet(l)
  <2>1. ASSUME NEW p \in 1 .. n
        PROVE  \E q \in 1 .. n : k[q] = l[p]
    <3>1. PICK q \in 1 .. n : From(i, q) = p
      BY <1>6
    <3> QED
      BY <1>2, <3>1
  <2>2. \A p \in 1 .. n : \E q \in 1 .. n : k[p] = l[q]
    BY <1>2, <1>4
  <2> QED
    <3>1. ToSet(k) = {k[p] : p \in 1 .. n} /\ ToSet(l) = {l[p] : p \in 1 .. n}
      BY <1>1, <1>3 DEF ToSet
    <3> QED
      BY <2>1, <2>2, <3>1, Zenon
<1>8. Separate(k)
  BY <1>1, <1>2, <1>3, <1>4, <1>5 DEF Separate, Good
<1> QED
  BY <1>2, <1>7, <1>8 DEF Good, SameRanges, k, n

\* What find_range finds and leaves.
Finds(l, a, f) ==
  /\ Good(f.list) /\ SameRanges(l, f.list)
  /\ \/ f.found = NoRange /\ \A r \in ToSet(l) : ~In(a, r)
     \/ f.found # NoRange /\ f.found \in ToSet(l) /\ In(a, f.found)

LEMMA FindRangeFinds ==
  ASSUME NEW l, Good(l), NEW a \in Nat
  PROVE  Finds(l, a, FindRange(l, a))
<1> DEFINE n == Len(l)
           Hits == {i \in 1 .. n : In(a, l[i])}
<1>1. l \in Seq(Ranges) /\ n \in Nat /\ DOMAIN l = 1 .. n
  BY DEF Good
<1>2. CASE Hits = {}
  <2>1. Position(l, a) = 0
    BY <1>1, <1>2 DEF Position
  <2>2. FindRange(l, a) = [found |-> NoRange, list |-> l]
    BY <2>1 DEF FindRange
  <2>3. \A r \in ToSet(l) : ~In(a, r)
    BY <1>1, <1>2 DEF ToSet
  <2>4. SameRanges(l, l)
    BY DEF SameRanges
  <2> QED
    BY <2>2, <2>3, <2>4 DEF Finds
<1>3. CASE Hits # {}
  <2>1. PICK i \in Hits : \A j \in Hits : i =< j
    <3>1. Hits \subseteq Nat
      BY <1>1
    <3> HIDE DEF Hits
    <3> QED
      BY <1>3, <3>1, DebugWords!LeastOne
  <2>2. \E j \in 1 .. n : In(a, l[j]) /\ \A m \in 1 .. j-1 : ~In(a, l[m])
    <3>1. \A m \in 1 .. i-1 : m \in 1 .. n /\ ~(i =< m)
      BY <1>1, <2>1
    <3> QED
      BY <2>1, <3>1
  <2> DEFINE p == Position(l, a)
  <2>3. p \in 1 .. n /\ In(a, l[p])
    BY <1>1, <1>3, <2>2 DEF Position
  <2>4. p # 0
    BY <1>1, <2>3
  <2>5. FindRange(l, a) = [found |-> l[p], list |-> MoveToHead(l, p)]
    BY <2>4 DEF FindRange
  <2> HIDE DEF p
  <2>6. l[p] \in ToSet(l)
    BY <1>1, <2>3 DEF ToSet
  <2>7. l[p] # NoRange
    <3>1. l[p].start >= 0
      BY <1>1, <2>3 DEF Ranges
    <3> QED
      BY <3>1 DEF NoRange
  <2>8. Good(MoveToHead(l, p)) /\ SameRanges(l, MoveToHead(l, p))
    BY <2>3, MoveKeeps
  <2> QED
    BY <2>3, <2>5, <2>6, <2>7, <2>8 DEF Finds
<1> QED
  BY <1>2, <1>3

-----------------------------------------------------------------------------
(* A debug access. *)

SlaveWords == [start : Int, word : Int]

\* The word the ranges of S map an address to.
MappedBy(S, a) ==
  IF \E r \in S : In(a, r)
  THEN LET r == CHOOSE r \in S : In(a, r)
       IN  [start |-> r.start, word |-> a - r.start]
  ELSE Fill

\* A range is the only one at its addresses.
LEMMA MappedTo ==
  ASSUME NEW l, Good(l), NEW a \in Nat, NEW r \in ToSet(l), In(a, r)
  PROVE  /\ MappedBy(ToSet(l), a) = [start |-> r.start, word |-> a - r.start]
         /\ MappedBy(ToSet(l), a) \in SlaveWords
<1> DEFINE S == ToSet(l)
           c == CHOOSE q \in S : In(a, q)
<1>1. l \in Seq(Ranges) /\ DOMAIN l = 1 .. Len(l)
  BY DEF Good
<1>2. S = {l[i] : i \in DOMAIN l} /\ S \subseteq Ranges
  BY <1>1 DEF ToSet
<1>3. ASSUME NEW p \in S, NEW q \in S, In(a, p), In(a, q)
      PROVE  p = q
  <2>1. PICK i \in DOMAIN l : l[i] = p
    BY <1>2
  <2>2. PICK j \in DOMAIN l : l[j] = q
    BY <1>2
  <2>3. p \in Ranges /\ q \in Ranges
    BY <1>2
  <2>4. ~(p.end =< q.start) /\ ~(q.end =< p.start)
    BY <1>3, <2>3 DEF In, Ranges
  <2> QED
    BY <2>1, <2>2, <2>4 DEF Good, Separate
<1>4. c \in S /\ In(a, c)
  OBVIOUS
<1> HIDE DEF S
<1>5. c = r
  BY <1>3, <1>4 DEF S
<1>6. MappedBy(S, a) = [start |-> r.start, word |-> a - r.start]
  BY <1>4, <1>5 DEF MappedBy
<1>7. r.start \in Int
  BY <1>2 DEF Ranges, S
<1> QED
  BY <1>6, <1>7 DEF SlaveWords, S

LEMMA MappedToNone ==
  ASSUME NEW S, NEW a, \A r \in S : ~In(a, r)
  PROVE  MappedBy(S, a) = Fill
BY DEF MappedBy

\* The words w read so far from the ranges of S, from the first address on.
Agree(w, n, S, first) ==
  \A i \in 1 .. n :
    \/ w[i] = MappedBy(S, first + i - 1)
    \/ w[i] = Fill /\ \E j \in 1 .. i-1 : MappedBy(S, first + j - 1) = Fill

GapSeen(n, S, first) == \E j \in 1 .. n : MappedBy(S, first + j - 1) = Fill

\* The state of the loop after n words of an access that began with list l0.
Served(st, n, l0, first) ==
  \E l, g, w, e :
    /\ st = [list |-> l, gap |-> g, words |-> w, end |-> e]
    /\ Good(l) /\ SameRanges(l0, l)
    /\ w \in Seq(SlaveWords) /\ Len(w) = n
    /\ Agree(w, n, ToSet(l0), first)
    /\ g = 0 \/ GapSeen(n, ToSet(l0), first)

LEMMA ServeNext ==
  ASSUME NEW l0, Good(l0), NEW first \in Nat, NEW n \in Nat,
         NEW st, Served(st, n, l0, first)
  PROVE  Served(DebugWord(st, first + n), n+1, l0, first)
<1> DEFINE S == ToSet(l0)
           a == first + n
           at == MappedBy(S, a)
<1>1. PICK l, g, w, e :
        /\ st = [list |-> l, gap |-> g, words |-> w, end |-> e]
        /\ Good(l) /\ SameRanges(l0, l)
        /\ w \in Seq(SlaveWords) /\ Len(w) = n
        /\ Agree(w, n, S, first)
        /\ g = 0 \/ GapSeen(n, S, first)
  BY DEF Served
<1>2. /\ st.list = l /\ st.gap = g /\ st.words = w /\ st.end = e
      /\ ToSet(l) = S /\ a \in Nat /\ first + (n+1) - 1 = a
  BY <1>1 DEF SameRanges
<1> DEFINE f == FindRange(l, a)
<1>3. Finds(l, a, f)
  BY <1>1, <1>2, FindRangeFinds
<1>4. /\ Good(f.list) /\ SameRanges(l0, f.list)
      /\ \/ f.found = NoRange /\ at = Fill
         \/ /\ f.found # NoRange
            /\ at = [start |-> f.found.start, word |-> a - f.found.start]
            /\ at \in SlaveWords
  <2>1. Good(f.list) /\ SameRanges(l0, f.list)
    BY <1>1, <1>3 DEF Finds, SameRanges
  <2>2. CASE f.found = NoRange /\ \A r \in S : ~In(a, r)
    BY <2>1, <2>2, MappedToNone
  <2>3. CASE f.found # NoRange /\ f.found \in S /\ In(a, f.found)
    <3> HIDE DEF f
    <3> QED
      BY <1>1, <1>2, <2>1, <2>3, MappedTo
  <2> QED
    BY <1>2, <1>3, <2>2, <2>3 DEF Finds
<1>5. Fill \in SlaveWords
  BY DEF Fill, SlaveWords
<1> HIDE DEF f, S, a
<1>6. ASSUME NEW x \in SlaveWords,
             x = at \/ (x = Fill /\ GapSeen(n, S, first))
      PROVE  /\ Append(w, x) \in Seq(SlaveWords) /\ Len(Append(w, x)) = n+1
             /\ Agree(Append(w, x), n+1, S, first)
  <2> DEFINE v == Append(w, x)
  <2>1. v \in Seq(SlaveWords) /\ Len(v) = n+1 /\ v[n+1] = x /\ \A i \in 1 .. n : v[i] = w[i]
    BY <1>1
  <2>2. ASSUME NEW i \in 1 .. n+1
        PROVE  \/ v[i] = MappedBy(S, first + i - 1)
               \/ v[i] = Fill /\ \E j \in 1 .. i-1 : MappedBy(S, first + j - 1) = Fill
    <3> HIDE DEF v
    <3>1. CASE i \in 1 .. n
      BY <1>1, <2>1, <3>1 DEF Agree
    <3>2. CASE i = n+1 /\ x = at
      BY <1>2, <2>1, <3>2
    <3>3. CASE i = n+1 /\ x = Fill /\ GapSeen(n, S, first)
      <4>1. i-1 = n /\ v[i] = Fill
        BY <2>1, <3>3
      <4> QED
        BY <3>3, <4>1 DEF GapSeen
    <3> QED
      BY <1>6, <3>1, <3>2, <3>3
  <2> QED
    BY <2>1, <2>2 DEF Agree
<1>7. GapSeen(n, S, first) => GapSeen(n+1, S, first)
  BY DEF GapSeen
<1>8. at = Fill => GapSeen(n+1, S, first)
  BY <1>2 DEF GapSeen
<1> DEFINE b == a < g
           next == DebugWord(st, a)
<1>9. CASE b
  <2>1. GapSeen(n, S, first)
    BY <1>1, <1>2, <1>9
  <2>2. next = [list |-> l, gap |-> g, words |-> Append(w, Fill), end |-> e]
    BY <1>1, <1>2, <1>9 DEF DebugWord
  <2>3. /\ Append(w, Fill) \in Seq(SlaveWords) /\ Len(Append(w, Fill)) = n+1
        /\ Agree(Append(w, Fill), n+1, S, first)
    BY <1>5, <1>6, <2>1
  <2> QED
    BY <1>1, <1>7, <2>1, <2>2, <2>3 DEF Served, S, a
<1>10. CASE ~b /\ f.found # NoRange
  <2>1. next = [list |-> f.list, gap |-> g, words |-> Append(w, at), end |-> e]
    BY <1>1, <1>2, <1>4, <1>10 DEF DebugWord, f
  <2>2. /\ Append(w, at) \in Seq(SlaveWords) /\ Len(Append(w, at)) = n+1
        /\ Agree(Append(w, at), n+1, S, first)
    BY <1>4, <1>6, <1>10
  <2> QED
    BY <1>1, <1>4, <1>7, <2>1, <2>2 DEF Served, S, a
<1>11. CASE ~b /\ f.found = NoRange
  <2> DEFINE m == NextClosest(l, a)
             h == IF m = NoRange THEN e ELSE m.start
  <2>1. next = [list |-> l, gap |-> h, words |-> Append(w, Fill), end |-> e]
    BY <1>1, <1>2, <1>11 DEF DebugWord, f
  <2>2. at = Fill
    BY <1>4, <1>11
  <2>3. /\ Append(w, Fill) \in Seq(SlaveWords) /\ Len(Append(w, Fill)) = n+1
        /\ Agree(Append(w, Fill), n+1, S, first)
    BY <1>5, <1>6, <2>2
  <2> HIDE DEF h
  <2> QED
    BY <1>1, <1>8, <2>1, <2>2, <2>3 DEF Served, S, a
<1> QED
  BY <1>9, <1>10, <1>11 DEF a

\* The loop of slave_dbg_transport, and its states.
DebugLoop(m, s) == FoldLeft(DebugWord, m, s)

ServedAlong(r, m, s, n) ==
  /\ r[0] = m /\ r[n] = DebugLoop(m, s)
  /\ \A k \in 1 .. n : r[k] = DebugWord(r[k-1], s[k])

LEMMA DebugResults ==
  \A m, s : \A n \in Nat :
    DOMAIN s = 1 .. n => \E r : ServedAlong(r, m, s, n)
BY DebugWords!FoldResults
   DEF ServedAlong, DebugLoop, FoldLeft, MapThenFoldSet, Max,
       DebugWords!FoldLeft, DebugWords!MapThenFoldSet, DebugWords!Max

LEMMA AllServed ==
  ASSUME NEW l, Good(l), NEW first \in Nat, NEW n \in Nat
  PROVE  Served(DebugLoop([list |-> l, gap |-> 0, words |-> <<>>, end |-> first + n],
                          [i \in 1 .. n |-> first + i - 1]), n, l, first)
<1> DEFINE m == [list |-> l, gap |-> 0, words |-> <<>>, end |-> first + n]
           s == [i \in 1 .. n |-> first + i - 1]
<1>1. DOMAIN s = 1 .. n /\ \A k \in 1 .. n : s[k] = first + (k-1)
  OBVIOUS
<1>2. Served(m, 0, l, first)
  <2>1. Agree(<<>>, 0, ToSet(l), first) /\ SameRanges(l, l) /\ <<>> \in Seq(SlaveWords) /\ Len(<<>>) = 0
    BY DEF Agree, SameRanges
  <2> QED
    BY <2>1 DEF Served
<1> HIDE DEF m, s
<1>3. PICK r : ServedAlong(r, m, s, n)
  BY <1>1, DebugResults
<1> DEFINE G == {k \in 0 .. n : Served(r[k], k, l, first)}
<1>4. 0 \in G
  BY <1>2, <1>3 DEF ServedAlong
<1>5. ASSUME NEW k \in 1 .. n, k-1 \in G
      PROVE  k \in G
  <2>1. k-1 \in Nat /\ k \in 0 .. n /\ (k-1)+1 = k /\ Served(r[k-1], k-1, l, first)
    BY <1>5
  <2>2. Served(DebugWord(r[k-1], first + (k-1)), k, l, first)
    BY <2>1, ServeNext
  <2>3. r[k] = DebugWord(r[k-1], first + (k-1))
    BY <1>1, <1>3 DEF ServedAlong
  <2> QED
    BY <2>1, <2>2, <2>3
<1>6. n \in G
  <2> HIDE DEF G
  <2> QED
    BY <1>4, <1>5, DebugWords!Inductive
<1> QED
  BY <1>3, <1>6 DEF ServedAlong, m, s


-----------------------------------------------------------------------------
(* The steps of the decoder. *)

LEMMA BindKeeps ==
  ASSUME NEW l, Good(l), NEW s \in 0 .. Window-1, NEW e \in 1 .. Window-1,
         s < e, ~CheckRange(l, s, e)
  PROVE  /\ Good(<<RangeOf(s, e)>> \o l)
         /\ ToSet(l) \subseteq ToSet(<<RangeOf(s, e)>> \o l)
         /\ Len(l) + 1 = Len(<<RangeOf(s, e)>> \o l)
<1> DEFINE q == RangeOf(s, e)
           d == <<q>>
           k == d \o l
           n == Len(l)
<1>1. l \in Seq(Ranges) /\ n \in Nat /\ DOMAIN l = 1 .. n
  BY DEF Good
<1>2. q \in Ranges /\ q.start = s /\ q.end = e
  BY SpaceAssumption DEF Ranges, RangeOf
<1> HIDE DEF q
<1>3. d \in Seq(Ranges) /\ Len(d) = 1 /\ d[1] = q
  BY <1>2
<1> HIDE DEF d
<1>4. /\ k \in Seq(Ranges) /\ Len(k) = Len(d) + n
      /\ \A p \in 1 .. Len(d) + n : k[p] = IF p =< Len(d) THEN d[p] ELSE l[p-Len(d)]
  BY <1>1, <1>3, ConcatProperties
<1> HIDE DEF k, n
<1>5. /\ Len(k) = n+1 /\ DOMAIN k = 1 .. n+1 /\ k[1] = q
      /\ \A p \in 2 .. n+1 : p-1 \in 1 .. n /\ k[p] = l[p-1]
  BY <1>1, <1>3, <1>4
<1>6. ASSUME NEW p \in 1 .. n
      PROVE  l[p].end =< s \/ e =< l[p].start
  <2>1. ~Conflicts(s, e, l[p]) /\ l[p] \in Ranges
    BY <1>1 DEF CheckRange
  <2> QED
    BY <2>1 DEF Conflicts, Ranges
<1>7. Separate(k)
  <2> SUFFICES ASSUME NEW i \in 1 .. n+1, NEW j \in 1 .. n+1, i # j
               PROVE  k[i].end =< k[j].start \/ k[j].end =< k[i].start
    BY <1>5 DEF Separate
  <2>1. CASE i = 1
    <3>1. j \in 2 .. n+1
      BY <2>1
    <3> QED
      BY <1>2, <1>5, <1>6, <2>1, <3>1
  <2>2. CASE j = 1
    <3>1. i \in 2 .. n+1
      BY <2>2
    <3> QED
      BY <1>2, <1>5, <1>6, <2>2, <3>1
  <2>3. CASE i # 1 /\ j # 1
    <3>1. i \in 2 .. n+1 /\ j \in 2 .. n+1 /\ i-1 # j-1
      BY <2>3
    <3>2. k[i] = l[i-1] /\ k[j] = l[j-1] /\ i-1 \in 1 .. n /\ j-1 \in 1 .. n
      BY <1>5, <3>1
    <3> QED
      BY <1>1, <3>1, <3>2 DEF Good, Separate
  <2> QED
    BY <2>1, <2>2, <2>3
<1>8. ToSet(l) \subseteq ToSet(k)
  <2>1. ASSUME NEW p \in 1 .. n
        PROVE  \E x \in 1 .. n+1 : k[x] = l[p]
    <3>1. p+1 \in 2 .. n+1 /\ p+1 \in 1 .. n+1 /\ (p+1)-1 = p
      BY <1>1
    <3>2. k[p+1] = l[p]
      BY <1>5, <3>1
    <3> QED
      BY <3>1, <3>2
  <2>2. ToSet(k) = {k[p] : p \in 1 .. n+1} /\ ToSet(l) = {l[p] : p \in 1 .. n}
    BY <1>1, <1>5 DEF ToSet
  <2> QED
    BY <2>1, <2>2
<1>9. Good(k) /\ Len(l) + 1 = Len(k)
  BY <1>1, <1>4, <1>5, <1>7 DEF Good, n
<1> QED
  BY <1>8, <1>9 DEF k, d, q

DecInv == Good(list) /\ DebugAgrees

\* What a step does to the list.
ListKept ==
  /\ ToSet(list) \subseteq ToSet(list')
  /\ Len(list) = Len(list') \/ Len(list) + 1 = Len(list')

LEMMA FirstWord ==
  ASSUME NEW a \in Address
  PROVE  a \in Nat /\ a % Window \in Nat
BY SpaceAssumption DEF Address

LEMMA DebugStep ==
  ASSUME DecInv, NEW a \in Address, NEW len \in 1 .. MaxLen, DbgTransport(a, len)
  PROVE  DecInv' /\ ListKept
<1> DEFINE first == a % Window
           m == [list |-> list, gap |-> 0, words |-> <<>>, end |-> first + len]
           s == [i \in 1 .. len |-> first + i - 1]
           st == DebugLoop(m, s)
<1>1. Good(list) /\ first \in Nat /\ len \in Nat
  BY BoundAssumption, FirstWord DEF DecInv
<1>2. Served(st, len, list, first)
  <2> HIDE DEF first
  <2> QED
    BY <1>1, AllServed
<1>3. list' = st.list /\ access' = [kind |-> "debug", address |-> a, words |-> st.words]
  BY DEF DbgTransport, DebugLoop
<1> HIDE DEF st
<1>4. PICK l, g, w, e :
        /\ st = [list |-> l, gap |-> g, words |-> w, end |-> e]
        /\ Good(l) /\ SameRanges(list, l)
        /\ w \in Seq(SlaveWords) /\ Len(w) = len
        /\ Agree(w, len, ToSet(list), first)
  BY <1>2 DEF Served
<1>5. /\ list' = l /\ Good(list') /\ ToSet(list') = ToSet(list) /\ Len(list') = Len(list)
      /\ access'.kind = "debug" /\ access'.address = a /\ access'.words = w
      /\ DOMAIN w = 1 .. len
  BY <1>3, <1>4 DEF SameRanges
<1>6. \A x : Mapped(x)' = MappedBy(ToSet(list), x)
  BY <1>5 DEF Mapped, MappedBy
<1>7. DebugAgrees'
  BY <1>4, <1>5, <1>6 DEF DebugAgrees, Agree
<1> QED
  BY <1>5, <1>7 DEF DecInv, ListKept

\* No step loses or doubles a range, makes ranges overlap, or ends a debug
\* access with a word of another address.
LEMMA DecStep ==
  ASSUME DecInv, DecNext
  PROVE  DecInv' /\ ListKept
<1>1. Good(list)
  BY DEF DecInv
<1>2. ASSUME NEW s \in 0 .. Window-1, NEW e \in 1 .. Window-1, Bind(s, e)
      PROVE  DecInv' /\ ListKept
  <2>1. Good(list') /\ ListKept
    BY <1>1, <1>2, BindKeeps DEF Bind, ListKept
  <2>2. access'.kind # "debug"
    BY <1>2 DEF Bind
  <2> QED
    BY <2>1, <2>2 DEF DecInv, DebugAgrees
<1>3. ASSUME NEW a \in Address, BTransport(a) \/ GetDirectMemPtr(a)
      PROVE  DecInv' /\ ListKept
  <2>1. Finds(list, a % Window, FindRange(list, a % Window))
    BY <1>1, FirstWord, FindRangeFinds
  <2>2. list' = FindRange(list, a % Window).list /\ access'.kind # "debug"
    BY <1>3 DEF BTransport, GetDirectMemPtr
  <2> QED
    BY <2>1, <2>2 DEF Finds, SameRanges, DecInv, DebugAgrees, ListKept
<1>4. ASSUME NEW a \in Address, NEW len \in 1 .. MaxLen, DbgTransport(a, len)
      PROVE  DecInv' /\ ListKept
  BY <1>4, DebugStep
<1> QED
  BY <1>2, <1>3, <1>4 DEF DecNext

LEMMA DecInvHolds == DecSpec => []DecInv
<1>1. DecInit => DecInv
  BY DEF DecInit, DecInv, DebugAgrees, Good, Separate
<1>2. DecInv /\ [DecNext]_decVars => DecInv'
  <2>1. DecInv /\ UNCHANGED decVars => DecInv'
    BY DEF DecInv, decVars, DebugAgrees, Mapped
  <2> QED
    BY <2>1, DecStep
<1> QED
  BY <1>1, <1>2, PTL DEF DecSpec

(***************************************************************************)
(* The ranges of the decoder are disjoint, for any address space, window   *)
(* and number of slaves.                                                   *)
(***************************************************************************)
THEOREM RangesAreDisjoint == DecSpec => []Disjoint
<1>1. DecInv => Disjoint
  <2> SUFFICES ASSUME DecInv,
                      NEW i \in DOMAIN list, NEW j \in DOMAIN list, NEW a \in Address,
                      In(a, list[i]), In(a, list[j])
               PROVE  i = j
    BY DEF DecInv, Disjoint
  <2>1. list[i] \in Ranges /\ list[j] \in Ranges /\ a \in Nat
    BY SpaceAssumption DEF DecInv, Good, Address
  <2> QED
    BY <2>1 DEF DecInv, Good, Separate, In, Ranges
<1> QED
  BY <1>1, DecInvHolds, PTL

(***************************************************************************)
(* A debug access, which reorders the list at every word, reads word by    *)
(* word what bus accesses would, up to the first gap, for any number of    *)
(* slaves and any length.                                                  *)
(***************************************************************************)
THEOREM DebugReadsTheMap == DecSpec => []DebugAgrees
BY DecInvHolds, PTL DEF DecInv

(***************************************************************************)
(* However accesses reorder the list, a slave once bound stays in it, once.*)
(***************************************************************************)
THEOREM SlavesAreKept == DecSpec => NoSlaveLost
<1>1. DecInv /\ [DecNext]_decVars => [ListKept]_list
  BY DecStep DEF decVars
<1> QED
  BY <1>1, DecInvHolds, PTL DEF DecSpec, NoSlaveLost, ListKept

=============================================================================
