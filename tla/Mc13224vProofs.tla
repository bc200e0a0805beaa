--------------------------- MODULE Mc13224vProofs ---------------------------
(***************************************************************************)
(* Proofs about the UART, the interrupt controller and the two together,   *)
(* for any size of the queue, thresholds, character times and interrupts.  *)
(***************************************************************************)
EXTENDS Mc13224v, TLAPS

\* What check_int of the UART leaves the line with.
LEMMA LineIsInterrupt ==
  ASSUME CheckInt
  PROVE  line' \in BOOLEAN /\ (line' <=> Interrupt')
<1>1. Interrupt' \in BOOLEAN
  BY Zenon DEF Interrupt
<1> QED
  BY <1>1, Zenon DEF CheckInt

\* A register write, which ends in check_int.
LEMMA WriteKept ==
  ASSUME UartInv, Access, CheckInt, ended' \in BOOLEAN,
         ucon' \in Control, utxcon' \in Thresholds, urxcon' \in Thresholds, baud' \in BOOLEAN,
         size' \in 0 .. MaxSize, size > 0 => size' > 0,
         \/ size' > 0 /\ NotifyNow
         \/ /\ UNCHANGED <<thread, pending>>
            /\ ucon'.txe /\ size' > 0 => ucon.txe /\ size > 0
  PROVE  UartInv'
<1>1. /\ accessed' = TRUE /\ left' = left /\ ended = FALSE
  BY Zenon DEF Access, UartInv, UartTypeOK
<1>2. line' \in BOOLEAN /\ (line' <=> Interrupt')
  BY LineIsInterrupt
<1>3. CASE size' > 0 /\ NotifyNow
  <2>1. /\ pending' = FALSE
        /\ thread' = IF thread = "waiting" THEN "woken" ELSE thread
    BY <1>3 DEF NotifyNow
  <2>2. thread' \in {"woken", "sending", "sent"} /\ thread' # "waiting"
    BY <2>1 DEF UartInv, UartTypeOK
  <2>3. UartTypeOK'
    BY <1>1, <1>2, <2>1, <2>2, Zenon DEF UartInv, UartTypeOK
  <2> QED
    BY <1>2, <1>3, <2>1, <2>2, <2>3, Zenon
    DEF UartInv, ElementsToSend, NotStranded, LineAgrees
<1>4. CASE /\ UNCHANGED <<thread, pending>>
           /\ ucon'.txe /\ size' > 0 => ucon.txe /\ size > 0
  <2>1. thread' = thread /\ pending' = pending /\ (pending' <=> pending)
    BY <1>4
  <2>2. UartTypeOK'
    BY <1>1, <1>2, <2>1, Zenon DEF UartInv, UartTypeOK
  <2>3. ElementsToSend' /\ NotStranded' /\ (pending' => thread' = "waiting")
    <3>1. ElementsToSend'
      BY <1>1, <2>1, Zenon DEF UartInv, ElementsToSend
    <3>2. NotStranded'
      BY <1>4, <2>1, Zenon DEF UartInv, NotStranded
    <3>3. pending' => thread' = "waiting"
      BY <2>1, Zenon DEF UartInv
    <3> QED
      BY <3>1, <3>2, <3>3
  <2> QED
    BY <1>2, <2>2, <2>3, Zenon DEF UartInv, LineAgrees
<1> QED
  BY <1>3, <1>4

\* Other writes than that of UDATA and UCON neither queue nor enable.
LEMMA UartWriteKept ==
  ASSUME UartInv, UartRegisters
  PROVE  UartInv'
<1>0. /\ UartTypeOK /\ ucon \in Control /\ utxcon \in Thresholds /\ urxcon \in Thresholds
      /\ baud \in BOOLEAN /\ size \in 0 .. MaxSize
  BY Zenon DEF UartInv, UartTypeOK
<1>1. ASSUME NEW c \in Control, WriteUcon(c)
      PROVE  UartInv'
  <2>1. /\ Access /\ CheckInt /\ ucon' = c
        /\ UNCHANGED <<utxcon, urxcon, baud, size, ended>>
        /\ IF c.txe /\ size > 0 THEN NotifyNow ELSE UNCHANGED <<thread, pending>>
    BY <1>1, Zenon DEF WriteUcon
  <2>2. utxcon' = utxcon /\ urxcon' = urxcon /\ baud' = baud /\ size' = size /\ ended' = ended
    BY <2>1
  <2>3. ended' \in BOOLEAN
    BY <1>0, <2>2, Zenon DEF UartTypeOK
  <2> QED
    BY <1>0, <2>1, <2>2, <2>3, WriteKept, Zenon
<1>2. CASE WriteUdata
  <2>1. /\ Access /\ CheckInt /\ UNCHANGED registers /\ UNCHANGED ended
        /\ IF ucon.txe THEN NotifyNow ELSE UNCHANGED <<thread, pending>>
    BY <1>2, Zenon DEF WriteUdata
  <2>2. ucon' = ucon /\ utxcon' = utxcon /\ urxcon' = urxcon /\ baud' = baud
    BY <2>1 DEF registers
  <2>3. size' \in 0 .. MaxSize /\ size' > 0
    <3>1. size < MaxSize /\ size' = size + 1
      BY <1>2, Zenon DEF WriteUdata
    <3> QED
      BY <1>0, <3>1, DepthAssumption
  <2>4. ended' \in BOOLEAN
    BY <1>0, <2>1, Zenon DEF UartTypeOK
  <2> QED
    BY <1>0, <2>1, <2>2, <2>3, <2>4, WriteKept, Zenon
<1>3. ASSUME Access, CheckInt, UNCHANGED <<ucon, size, thread, pending>>, ended' \in BOOLEAN,
             utxcon' \in Thresholds, urxcon' \in Thresholds, baud' \in BOOLEAN
      PROVE  UartInv'
  <2>1. ucon' = ucon /\ size' = size /\ UNCHANGED <<thread, pending>>
    BY <1>3
  <2> QED
    BY <1>0, <1>3, <2>1, WriteKept, Zenon
<1>4. ASSUME NEW n \in Thresholds, WriteUtxcon(n) \/ WriteUrxcon(n)
      PROVE  UartInv'
  <2>1. /\ Access /\ CheckInt /\ UNCHANGED <<ucon, size, thread, pending>>
        /\ ended' = ended /\ baud' = baud
        /\ utxcon' \in {n, utxcon} /\ urxcon' \in {n, urxcon}
    BY <1>4 DEF WriteUtxcon, WriteUrxcon
  <2>2. utxcon' \in Thresholds /\ urxcon' \in Thresholds
    BY <1>0, <2>1, Zenon
  <2>3. ended' \in BOOLEAN /\ baud' \in BOOLEAN
    BY <1>0, <2>1, Zenon DEF UartTypeOK
  <2> QED
    BY <1>3, <2>1, <2>2, <2>3, Zenon
<1>5. ASSUME NEW valid \in BOOLEAN, WriteUbr(valid)
      PROVE  UartInv'
  <2>1. /\ Access /\ UNCHANGED <<ucon, utxcon, urxcon, size, thread, pending>>
        /\ baud' = valid /\ ended' = ~valid
        /\ IF valid THEN CheckInt ELSE UNCHANGED line
    BY <1>5, Zenon DEF WriteUbr
  <2>2. /\ utxcon' = utxcon /\ urxcon' = urxcon /\ ucon' = ucon /\ size' = size
        /\ thread' = thread /\ pending' = pending /\ (pending' <=> pending)
        /\ UNCHANGED <<ucon, size, thread, pending>>
    BY <2>1
  <2>3. CASE valid = TRUE
    BY <1>0, <1>3, <2>1, <2>2, <2>3, Zenon
  <2>4. CASE valid = FALSE
    <3>1. ended' = TRUE /\ line' = line /\ left' = left /\ accessed' = TRUE /\ baud' = FALSE
      BY <2>1, <2>4, Zenon DEF Access
    <3>2. UartTypeOK'
      BY <1>0, <2>2, <3>1, Zenon DEF UartTypeOK
    <3> QED
      <4>1. ElementsToSend' /\ LineAgrees'
        BY <2>2, <3>1, Zenon DEF UartInv, ElementsToSend, LineAgrees
      <4>2. NotStranded' /\ (pending' => thread' = "waiting")
        BY <2>2, Zenon DEF UartInv, NotStranded
      <4> QED
        BY <3>2, <4>1, <4>2, Zenon DEF UartInv
  <2> QED
    BY <2>3, <2>4
<1> QED
  BY <1>1, <1>2, <1>4, <1>5, Zenon DEF UartRegisters, UartInv

\* The thread from its event to the wait for the character, which is there.
LEMMA StartKept ==
  ASSUME UartInv, Start
  PROVE  UartInv'
<1>1. /\ UNCHANGED registers /\ UNCHANGED <<line, pending, accessed>>
      /\ thread = "woken" /\ ended = FALSE /\ size' = size - 1
  BY Zenon DEF Start, UartInv, UartTypeOK
<1>2. /\ ucon' = ucon /\ utxcon' = utxcon /\ urxcon' = urxcon /\ baud' = baud
      /\ line' = line /\ pending' = pending /\ accessed' = accessed
  BY <1>1 DEF registers
<1>3. pending = FALSE
  <2>1. thread # "waiting"
    BY <1>1
  <2> QED
    BY <2>1, Zenon DEF UartInv, UartTypeOK
<1>4. size > 0 /\ size \in 0 .. MaxSize
  BY <1>1, Zenon DEF UartInv, UartTypeOK, ElementsToSend
<1>5. size' \in 0 .. MaxSize
  BY <1>1, <1>4, DepthAssumption
<1>6. \/ thread' = "sending" /\ ended' = FALSE /\ left' \in Nat
      \/ ended' = TRUE /\ left' = left /\ thread' = "woken"
  BY <1>1, RegisterAssumption DEF Start
<1>7. thread' # "waiting" /\ thread' \in {"woken", "sending"}
  BY <1>6
<1>8. UartTypeOK'
  BY <1>2, <1>5, <1>6, <1>7, Zenon DEF UartInv, UartTypeOK
<1>9. thread' = "sending" => thread' \notin {"waiting", "woken"}
  OBVIOUS
<1> QED
  BY <1>2, <1>3, <1>6, <1>7, <1>8, <1>9, Zenon
  DEF UartInv, ElementsToSend, NotStranded, LineAgrees

\* From there back to the event, which it notifies itself if there is more.
LEMMA DoneKept ==
  ASSUME UartInv, Done
  PROVE  UartInv'
<1>1. /\ UNCHANGED registers /\ UNCHANGED <<size, left, accessed, ended>> /\ CheckInt
      /\ thread' = "waiting" /\ ended = FALSE /\ pending' = (size > 0 /\ ucon.txe)
  BY Zenon DEF Done, UartInv, UartTypeOK
<1>2. /\ ucon' = ucon /\ utxcon' = utxcon /\ urxcon' = urxcon /\ baud' = baud
      /\ size' = size /\ left' = left /\ accessed' = accessed /\ ended' = ended
  BY <1>1 DEF registers
<1>3. line' \in BOOLEAN /\ (line' <=> Interrupt')
  BY <1>1, LineIsInterrupt
<1>4. pending' \in BOOLEAN
  BY <1>1, Zenon
<1>5. thread' # "woken"
  BY <1>1
<1>6. UartTypeOK'
  BY <1>1, <1>2, <1>3, <1>4, Zenon DEF UartInv, UartTypeOK
<1> QED
  BY <1>1, <1>2, <1>3, <1>5, <1>6, Zenon DEF UartInv, ElementsToSend, NotStranded, LineAgrees

\* Delta cycles and time: nothing but the thread's place changes.
LEMMA TimeKept ==
  ASSUME UartInv, DeltaCycle \/ Tick
  PROVE  UartInv'
<1>1. /\ UNCHANGED registers /\ UNCHANGED <<size, line, ended>> /\ ended = FALSE
      /\ accessed' \in BOOLEAN
  BY Zenon DEF DeltaCycle, Tick, UartInv, UartTypeOK
<1>2. /\ ucon' = ucon /\ utxcon' = utxcon /\ urxcon' = urxcon /\ baud' = baud
      /\ size' = size /\ line' = line /\ ended' = ended
  BY <1>1 DEF registers
<1>3. left' \in Nat
  <2>1. left \in Nat
    BY Zenon DEF UartInv, UartTypeOK
  <2>2. left' = left \/ (left > 0 /\ left' = left - 1)
    BY DEF DeltaCycle, Tick
  <2> QED
    BY <2>1, <2>2
<1>4. Interrupt' = Interrupt
  BY <1>2, Zenon DEF Interrupt, Free
<1>5. thread \notin {"woken", "sent"} /\ pending \in BOOLEAN /\ pending' \in BOOLEAN
  BY Zenon DEF DeltaCycle, Tick, Runnable, UartInv, UartTypeOK
<1>6. \/ pending = TRUE /\ pending' = FALSE /\ thread = "waiting" /\ thread' = "woken"
      \/ pending' = FALSE /\ thread' = "sent"
      \/ pending' = FALSE /\ pending = FALSE /\ thread' = thread
  BY <1>5, Zenon DEF DeltaCycle, Tick, UartInv
<1>7. CASE pending = TRUE /\ pending' = FALSE /\ thread = "waiting" /\ thread' = "woken"
  <2>1. UartTypeOK' /\ thread' # "waiting"
    BY <1>1, <1>2, <1>3, <1>7, Zenon DEF UartInv, UartTypeOK
  <2> QED
    <3>1. size' > 0
      BY <1>2, <1>7, Zenon DEF UartInv, ElementsToSend
    <3>2. line <=> Interrupt
      BY <1>1, <1>7, Zenon DEF UartInv, LineAgrees
    <3>3. line' <=> Interrupt'
      BY <1>2, <1>4, <3>2
    <3> QED
      BY <1>7, <2>1, <3>1, <3>3, Zenon DEF UartInv, ElementsToSend, NotStranded, LineAgrees
<1>8. CASE pending' = FALSE /\ thread' = "sent"
  <2>1. UartTypeOK' /\ thread' # "waiting" /\ thread' # "woken"
    BY <1>1, <1>2, <1>3, <1>8, Zenon DEF UartInv, UartTypeOK
  <2> QED
    BY <1>2, <1>8, <2>1, Zenon DEF UartInv, ElementsToSend, NotStranded, LineAgrees
<1>9. CASE pending' = FALSE /\ pending = FALSE /\ thread' = thread
  <2>1. UartTypeOK'
    BY <1>1, <1>2, <1>3, <1>9, Zenon DEF UartInv, UartTypeOK
  <2> QED
    BY <1>2, <1>4, <1>9, <2>1, Zenon DEF UartInv, ElementsToSend, NotStranded, LineAgrees
<1> QED
  BY <1>6, <1>7, <1>8, <1>9

LEMMA InitUart == UartInit => UartInv
<1>1. UartInit => ucon \in Control /\ 0 \in Nat /\ 0 \in 0 .. MaxSize /\ size = 0 /\ ~(size > 0)
  BY DepthAssumption DEF UartInit, Control
<1>2. UartInit => thread = "waiting" /\ thread # "woken" /\ line = FALSE /\ urxcon = 0
  BY DEF UartInit
<1>3. UartInit => ~Interrupt
  BY DEF UartInit, Interrupt
<1>4. UartInit => UartTypeOK
  BY <1>1, RegisterAssumption, Zenon DEF UartInit, UartTypeOK
<1> QED
  BY <1>1, <1>2, <1>3, <1>4, Zenon
  DEF UartInit, UartInv, ElementsToSend, NotStranded, LineAgrees

LEMMA UartStep == UartInv /\ [UartNext]_uartVars => UartInv'
<1> SUFFICES ASSUME UartInv, [UartNext]_uartVars
             PROVE  UartInv'
  OBVIOUS
<1>1. CASE UNCHANGED uartVars
  <2>1. /\ UNCHANGED <<ucon, utxcon, urxcon, baud, size, line, thread, left>>
        /\ UNCHANGED <<pending, accessed, ended>>
    BY <1>1 DEF uartVars, registers
  <2> QED
    BY <2>1 DEF UartInv, UartTypeOK, ElementsToSend, NotStranded, LineAgrees, Interrupt, Free
<1> QED
  BY <1>1, UartWriteKept, StartKept, DoneKept, TimeKept, Zenon DEF UartNext, Thread

(***************************************************************************)
(* No character is stranded in the queue, the assertion of thread_tx       *)
(* holds (Uart.cpp:46), and the line is that of the registers and the      *)
(* queue while the thread waits, whatever is written at whatever instant.  *)
(***************************************************************************)
THEOREM UartInvariance == UartSpec => []UartInv
<1>1. UartInit => UartInv
  BY InitUart
<1>2. UartInv /\ [UartNext]_uartVars => UartInv'
  BY UartStep
<1> QED
  BY <1>1, <1>2, PTL DEF UartSpec

-----------------------------------------------------------------------------

\* One step of the search for the highest interrupt.
LEMMA HighestOrLower ==
  ASSUME NEW S, NEW n \in Nat \ {0}, S \subseteq 1 .. n
  PROVE  (\E i \in S : \A j \in S : i >= j) \/ S \subseteq 1 .. n-1
<1>1. CASE n \in S
  BY <1>1
<1>2. CASE n \notin S
  BY <1>2
<1> QED
  BY <1>1, <1>2

\* The search stops at the highest interrupt, and at none without one.
LEMMA HighestIsHighest ==
  ASSUME NEW S, S \subseteq Ints
  PROVE  /\ S = {} => Highest(S) = NoInt
         /\ S # {} => Highest(S) \in S /\ \A j \in S : j =< Highest(S)
<1> DEFINE Top(i) == \A j \in S : i >= j
<1>1. S \subseteq 1 .. 10
  BY IntsAssumption
<1>2. (\E i \in S : Top(i)) \/ S \subseteq 1 .. 5
  BY <1>1, HighestOrLower
<1>3. (\E i \in S : Top(i)) \/ S = {}
  BY <1>2, HighestOrLower
<1>4. ASSUME S # {}
      PROVE  Highest(S) \in S /\ Top(Highest(S))
  <2>1. Highest(S) = CHOOSE i \in S : Top(i)
    BY <1>4, Zenon DEF Highest, Max
  <2> HIDE DEF Top
  <2> QED
    BY <1>3, <1>4, <2>1, Zenon
<1>5. \A i \in S, j \in S : i >= j => j =< i
  BY <1>1
<1> QED
  BY <1>4, <1>5, Zenon DEF Highest

\* What check_int leaves the controller with, whatever has changed before it.
LEMMA ItcChecked ==
  ASSUME ItcCheckInt, source' \subseteq Ints, enable' \subseteq Ints, type' \subseteq Ints,
         nimask' \in Ints \union {0, NumInt, 31}
  PROVE  ItcInv'
<1>1. /\ fipend' = {i \in source' \intersect enable' : i \in type'}
      /\ nipend' = {i \in source' \intersect enable' : i \notin type' /\ i \in Unmasked'}
  BY DEF ItcCheckInt, Active
<1>2. /\ nivector' = Highest(nipend') /\ fivector' = Highest(fipend')
      /\ fiq' = (fipend' # {}) /\ irq' = (fipend' = {} /\ nipend' # {})
  BY Zenon DEF ItcCheckInt
<1>3. nipend' \subseteq Ints /\ fipend' \subseteq Ints
  BY <1>1
<1>4. /\ nipend' # {} => nivector' \in nipend' /\ \A j \in nipend' : j =< nivector'
      /\ nipend' = {} => nivector' = NoInt
      /\ fipend' # {} => fivector' \in fipend' /\ \A j \in fipend' : j =< fivector'
      /\ fipend' = {} => fivector' = NoInt
  BY <1>2, <1>3, HighestIsHighest, Zenon
<1>5. irq' \in BOOLEAN /\ fiq' \in BOOLEAN
  BY <1>2, Zenon
<1>6. nivector' \in Ints \union {0, NoInt} /\ fivector' \in Ints \union {0, NoInt}
  BY <1>3, <1>4, Zenon
<1>7. ItcTypeOK'
  BY <1>3, <1>5, <1>6, Zenon DEF ItcTypeOK
<1>8. PendingOnce'
  <2>1. \A i \in Ints : i \notin Unmasked' => i =< nimask'
    BY IntsAssumption DEF Unmasked, NumInt
  <2>2. nipend' \intersect fipend' = {} /\ nipend' \union fipend' \subseteq source' \intersect enable'
    BY <1>1
  <2>3. \A i \in (source' \intersect enable') \ (nipend' \union fipend') : i \notin type' /\ i \notin Unmasked'
    BY <1>1
  <2> QED
    BY <2>1, <2>2, <2>3 DEF PendingOnce, Active
<1>9. OneLine'
  <2>1. nipend' \union fipend' # {} <=> nipend' # {} \/ fipend' # {}
    OBVIOUS
  <2> QED
    BY <1>2, <2>1, Zenon DEF OneLine
<1>10. VectorIsHighest'
  BY <1>2, <1>4, Zenon DEF VectorIsHighest
<1> QED
  BY <1>7, <1>8, <1>9, <1>10 DEF ItcInv

LEMMA InitItc == ItcInit => ItcInv
<1>1. ItcInit => ItcTypeOK
  BY Zenon DEF ItcInit, ItcTypeOK
<1> QED
  BY <1>1 DEF ItcInit, ItcInv, PendingOnce, Active, OneLine, VectorIsHighest

\* Every change of a line and every register write ends in check_int.
LEMMA ItcStep ==
  ASSUME ItcInv, ItcNext
  PROVE  ItcInv'
<1>0. /\ source \subseteq Ints /\ enable \subseteq Ints /\ type \subseteq Ints
      /\ nimask \in Ints \union {0, NumInt, 31}
  BY Zenon DEF ItcInv, ItcTypeOK
<1>1. ASSUME NEW i \in Ints,
             InterruptSet(i) \/ InterruptClr(i) \/ WriteIntEnNum(i) \/ WriteIntDisNum(i)
      PROVE  ItcInv'
  BY <1>0, <1>1, ItcChecked DEF InterruptSet, InterruptClr, WriteIntEnNum, WriteIntDisNum
<1>2. ASSUME NEW v \in SUBSET Ints, WriteIntEnable(v) \/ WriteIntType(v)
      PROVE  ItcInv'
  BY <1>0, <1>2, ItcChecked DEF WriteIntEnable, WriteIntType
<1>3. ASSUME NEW n \in Ints \union {0, NumInt, 31}, WriteNiMask(n)
      PROVE  ItcInv'
  BY <1>0, <1>3, ItcChecked DEF WriteNiMask
<1> QED
  BY <1>1, <1>2, <1>3, Zenon DEF ItcNext, Lines, ItcRegisters

(***************************************************************************)
(* Pending sets, lines and vectors agree with the devices and the          *)
(* configuration after every call (check_int, Itc.cpp:84), for any         *)
(* interrupts connected to the numbers that the search looks at.           *)
(***************************************************************************)
THEOREM ItcInvariance == ItcSpec => []ItcInv
<1>1. ItcInv /\ [ItcNext]_itcVars => ItcInv'
  <2> SUFFICES ASSUME ItcInv, [ItcNext]_itcVars
               PROVE  ItcInv'
    OBVIOUS
  <2>1. CASE UNCHANGED itcVars
    <3>1. /\ UNCHANGED <<source, enable, type, nimask>>
          /\ UNCHANGED <<nipend, fipend, nivector, fivector, irq, fiq>>
      BY <2>1 DEF itcVars, config, derived
    <3> QED
      BY <3>1 DEF ItcInv, ItcTypeOK, PendingOnce, Active, OneLine, VectorIsHighest
  <2> QED
    BY <2>1, ItcStep
<1> QED
  BY <1>1, InitItc, PTL DEF ItcSpec
-----------------------------------------------------------------------------

\* The controller knows of the UART's line what the UART has told it last.
Wired == UartInt \in source <=> line

\* check_int of the controller has run since its last change.
Checked ==
  /\ fipend = Active \intersect type
  /\ nipend = (Active \ type) \intersect Unmasked

(***************************************************************************)
(* Each of the two keeps its invariant in the other's steps, the wire      *)
(* agrees at both ends, and what is pending is up to date.                 *)
(***************************************************************************)
SystemInv == UartInv /\ ItcInv /\ Wired /\ Checked

LEMMA ReachesCpuFollows ==
  ASSUME SystemInv
  PROVE  ReachesCpu
<1> DEFINE Announced ==
      UartInt \in enable =>
        \/ UartInt \in type /\ fiq
        \/ UartInt \notin type /\ UartInt \in Unmasked /\ (irq \/ fipend # {})
        \/ UartInt \notin type /\ UartInt \notin Unmasked
<1>1. /\ fipend = Active \intersect type
      /\ nipend = (Active \ type) \intersect Unmasked
      /\ fiq <=> fipend # {}
      /\ irq \/ fiq <=> nipend \union fipend # {}
  BY Zenon DEF SystemInv, Checked, ItcInv, OneLine
<1>2. ASSUME UartInt \in source
      PROVE  Announced
  <2>1. CASE UartInt \notin enable
    BY <2>1, Zenon
  <2>2. CASE UartInt \in enable /\ UartInt \in type
    <3>1. UartInt \in fipend
      BY <1>1, <1>2, <2>2 DEF Active
    <3>2. fipend # {}
      BY <3>1
    <3> QED
      BY <1>1, <2>2, <3>2, Zenon
  <2>3. CASE UartInt \in enable /\ UartInt \notin type /\ UartInt \in Unmasked
    <3>1. UartInt \in nipend
      BY <1>1, <1>2, <2>3 DEF Active
    <3>2. nipend \union fipend # {}
      BY <3>1
    <3> QED
      BY <1>1, <2>3, <3>2, Zenon
  <2>4. CASE UartInt \notin type /\ UartInt \notin Unmasked
    BY <2>4, Zenon
  <2> QED
    BY <2>1, <2>2, <2>3, <2>4, Zenon
<1>3. UartInt \notin source => UartInt \notin nipend \union fipend
  BY <1>1 DEF Active
<1>4. thread \in {"waiting", "woken"} /\ ~ended => (UartInt \in source <=> Interrupt)
  BY Zenon DEF SystemInv, UartInv, LineAgrees, Wired
<1> QED
  BY <1>2, <1>3, <1>4, Zenon DEF ReachesCpu

\* A step of the controller that ends in check_int.
LEMMA ItcNextChecked ==
  ASSUME ItcInv, ItcNext
  PROVE  ItcInv' /\ Checked'
<1>1. ItcCheckInt
  BY Zenon DEF ItcNext, Lines, ItcRegisters, InterruptSet, InterruptClr, WriteIntEnNum,
     WriteIntDisNum, WriteIntEnable, WriteIntType, WriteNiMask
<1>2. ItcInv'
  BY ItcStep
<1> QED
  BY <1>1, <1>2, Zenon DEF Checked, ItcCheckInt

\* The UART's check_int and the call it makes.
LEMMA LinePassed ==
  ASSUME ItcInv, line' \in BOOLEAN,
         IF line' THEN InterruptSet(UartInt) ELSE InterruptClr(UartInt)
  PROVE  ItcInv' /\ Checked' /\ Wired'
<1>1. ItcNext
  BY UartIntAssumption, Zenon DEF ItcNext, Lines
<1>2. ItcInv' /\ Checked'
  BY <1>1, ItcNextChecked
<1>3. CASE line' = TRUE
  <2>1. source' = source \union {UartInt}
    BY <1>3, Zenon DEF InterruptSet
  <2>2. UartInt \in source'
    BY <2>1
  <2> QED
    BY <1>2, <1>3, <2>2, Zenon DEF Wired
<1>4. CASE line' = FALSE
  <2>1. source' = source \ {UartInt}
    BY <1>4, Zenon DEF InterruptClr
  <2>2. UartInt \notin source'
    BY <2>1
  <2> QED
    BY <1>2, <1>4, <2>2, Zenon DEF Wired
<1> QED
  BY <1>3, <1>4

\* A call that is not the UART's leaves its end of the wire alone.
LEMMA OthersKeepWire ==
  ASSUME ItcInv, Wired, line' = line, line' <=> line, ItcNext,
         (\E i \in Ints \ {UartInt} : InterruptSet(i) \/ InterruptClr(i)) \/ ItcRegisters
  PROVE  ItcInv' /\ Checked' /\ Wired'
<1>1. UartInt \in source' <=> UartInt \in source
  <2>1. ASSUME NEW i \in Ints \ {UartInt}, InterruptSet(i) \/ InterruptClr(i)
        PROVE  UartInt \in source' <=> UartInt \in source
    BY <2>1 DEF InterruptSet, InterruptClr
  <2>2. ASSUME ItcRegisters
        PROVE  source' = source
    BY <2>2 DEF ItcRegisters, WriteIntEnNum, WriteIntDisNum, WriteIntEnable, WriteIntType,
       WriteNiMask
  <2> QED
    BY <2>1, <2>2
<1> QED
  BY <1>1, ItcNextChecked, Zenon DEF Wired

\* Neither of the two moves on its side of the wire.
LEMMA ItcUnmoved ==
  ASSUME ItcInv, Checked, Wired, UNCHANGED itcVars, line' = line
  PROVE  ItcInv' /\ Checked' /\ Wired'
<1>1. /\ UNCHANGED <<source, enable, type, nimask>>
      /\ UNCHANGED <<nipend, fipend, nivector, fivector, irq, fiq>>
  BY DEF itcVars, config, derived
<1>2. ItcInv'
  BY <1>1 DEF ItcInv, ItcTypeOK, PendingOnce, Active, OneLine, VectorIsHighest
<1>3. Checked'
  BY <1>1 DEF Checked, Active, Unmasked
<1>4. Wired'
  BY <1>1 DEF Wired
<1> QED
  BY <1>2, <1>3, <1>4

LEMMA SystemStep ==
  ASSUME SystemInv, [Next]_vars
  PROVE  SystemInv'
<1>0. UartInv /\ ItcInv /\ Wired /\ Checked
  BY Zenon DEF SystemInv
<1>1. CASE UartWrites \/ Passed(Done)
  <2>1. \/ UartRegisters /\ IF line' THEN InterruptSet(UartInt) ELSE InterruptClr(UartInt)
        \/ Done /\ IF line' THEN InterruptSet(UartInt) ELSE InterruptClr(UartInt)
        \/ WriteUbr(FALSE) /\ UNCHANGED itcVars
    BY <1>1, Zenon DEF UartWrites, Passed, Quiet, UartRegisters
  <2>2. UartRegisters \/ Done
    BY <2>1, Zenon DEF UartRegisters
  <2>3. UartInv'
    BY <1>0, <2>2, UartWriteKept, DoneKept, Zenon
  <2>4. line' \in BOOLEAN
    BY <2>3, Zenon DEF UartInv, UartTypeOK
  <2>5. WriteUbr(FALSE) => line' = line
    BY DEF WriteUbr
  <2>6. ItcInv' /\ Checked' /\ Wired'
    BY <1>0, <2>1, <2>4, <2>5, LinePassed, ItcUnmoved, Zenon
  <2> QED
    BY <2>3, <2>6, Zenon DEF SystemInv
<1>2. CASE Quiet(Start) \/ Quiet(DeltaCycle) \/ Quiet(Tick)
  <2>1. UartInv'
    BY <1>0, <1>2, StartKept, TimeKept, Zenon DEF Quiet
  <2>2. UNCHANGED itcVars
    BY <1>2, Zenon DEF Quiet
  <2>3. line' = line
    BY <1>2 DEF Quiet, Start, DeltaCycle, Tick
  <2> QED
    BY <1>0, <2>1, <2>2, <2>3, ItcUnmoved, Zenon DEF SystemInv
<1>3. CASE ItcWrites
  <2>1. ItcNext /\ ItcRegisters
    BY <1>3, Zenon DEF ItcWrites, ItcNext
  <2>2. UNCHANGED <<registers, size, line, thread, left, pending, ended>> /\ accessed' = TRUE
    BY <1>3, Zenon DEF ItcWrites
  <2>3. UartInv'
    <3>1. UNCHANGED <<ucon, utxcon, urxcon, baud, size, line, thread, left>>
          /\ UNCHANGED <<pending, ended>>
      BY <2>2 DEF registers
    <3> QED
      BY <1>0, <2>2, <3>1
      DEF UartInv, UartTypeOK, ElementsToSend, NotStranded, LineAgrees, Interrupt, Free
  <2>4. line' = line
    BY <2>2
  <2> QED
    BY <1>0, <2>1, <2>3, <2>4, OthersKeepWire, Zenon DEF SystemInv
<1>4. CASE OtherLines
  <2>1. UNCHANGED uartVars
        /\ \E i \in Ints \ {UartInt} : InterruptSet(i) \/ InterruptClr(i)
    BY <1>4, Zenon DEF OtherLines
  <2>2. ItcNext
    BY <2>1 DEF ItcNext, Lines
  <2>3. UartInv'
    BY <1>0, <2>1, UartStep, Zenon
  <2>4. line' = line
    BY <2>1 DEF uartVars
  <2> QED
    BY <1>0, <2>1, <2>2, <2>3, <2>4, OthersKeepWire, Zenon DEF SystemInv
<1>5. CASE UNCHANGED vars
  <2>1. UNCHANGED uartVars /\ UNCHANGED itcVars
    BY <1>5 DEF vars
  <2>2. line' = line
    BY <2>1 DEF uartVars
  <2> QED
    BY <1>0, <2>1, <2>2, UartStep, ItcUnmoved, Zenon DEF SystemInv
<1> QED
  BY <1>1, <1>2, <1>3, <1>4, <1>5, Zenon DEF Next, Ended

(***************************************************************************)
(* The UART's condition reaches the CPU: check_int of the UART             *)
(* (Uart.cpp:283) and check_int of the controller that it calls            *)
(* (Itc.cpp:84) leave no interrupt that is enabled and not masked          *)
(* unannounced and none announced that is over, wherever the UART is       *)
(* connected and whatever the other blocks do with their lines.            *)
(***************************************************************************)
THEOREM SystemInvariance == Spec => [](UartInv /\ ItcInv /\ ReachesCpu)
<1>1. Init => SystemInv
  <2>1. ItcInit => Checked /\ source = {}
    BY DEF ItcInit, Checked, Active
  <2>2. UartInit => line = FALSE
    BY DEF UartInit
  <2>3. UartInt \notin {}
    OBVIOUS
  <2> QED
    BY <2>1, <2>2, <2>3, InitUart, InitItc, Zenon DEF Init, SystemInv, Wired
<1>2. SystemInv /\ [Next]_vars => SystemInv'
  BY SystemStep
<1>3. SystemInv => UartInv /\ ItcInv /\ ReachesCpu
  BY ReachesCpuFollows, Zenon DEF SystemInv
<1> QED
  BY <1>1, <1>2, <1>3, PTL DEF Spec
=============================================================================
