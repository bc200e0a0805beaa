-------------------------------- MODULE Uart --------------------------------
(***************************************************************************)
(* The transmitter of a UART of the MC13224V platform                      *)
(* (src/src/tlm_blocks/Mc13224v/Uart): a queue filled by register writes   *)
(* and emptied by a thread, which a notification starts and which goes on  *)
(* by notifying itself.  Characters are only counted.  Nothing puts a      *)
(* character in the receive event queue, so the receive queue is empty for *)
(* ever.  The effect of an access follows a delay of its own and the bus   *)
(* serialises accesses, so an instant has one access at most, among what   *)
(* runs first in it.                                                       *)
(***************************************************************************)
EXTENDS Integers

CONSTANTS
  Depth,      \* the size of the FIFO announced to software (32)
  MaxSize,    \* bound on the characters queued
  Width,      \* the values of the unsigned count of free bytes (2^32)
  Thresholds, \* values written to UTXCON and URXCON (0 .. 31)
  CharTimes   \* times a character takes, from UBR and XTIM; may be 0

ASSUME DepthAssumption == Depth \in Nat /\ MaxSize \in Nat /\ Depth + MaxSize < Width
ASSUME RegisterAssumption ==
  Thresholds \subseteq Nat /\ 0 \in Thresholds /\ CharTimes \subseteq Nat

VARIABLES
  ucon,           \* UCON: transmit enable and the two interrupt enables
  utxcon, urxcon, \* UTXCON, URXCON
  baud,           \* UBR has a MOD other than 0
  size,           \* the size of m_tx.fifo
  line,           \* the interrupt line
  thread,         \* thread_tx: in a wait or, woken or sent, runnable after it
  left,           \* time left in the wait for a character
  pending,        \* m_tx.event is notified for the next delta cycle
  accessed,       \* the instant's register access is done
  ended           \* an error has ended the simulation

registers == <<ucon, utxcon, urxcon, baud>>
uartVars == <<registers, size, line, thread, left, pending, accessed,
          ended>>

Control == [txe : BOOLEAN, mtxr : BOOLEAN, mrxr : BOOLEAN]

UartInit ==
  /\ ucon = [txe |-> FALSE, mtxr |-> FALSE, mrxr |-> FALSE]
  /\ utxcon = 0 /\ urxcon = 0 /\ baud = FALSE
  /\ size = 0 /\ line = FALSE
  /\ thread = "waiting" /\ left = 0 /\ pending = FALSE
  /\ accessed = FALSE /\ ended = FALSE

-----------------------------------------------------------------------------

\* 32 - m_tx.fifo.size() is unsigned: with more queued than fits it is huge.
Free == (Depth - size) % Width

Interrupt ==
  \/ ucon.mtxr /\ Free >= utxcon
  \/ ucon.mrxr /\ 0 >= urxcon

CheckInt == line' = Interrupt'

\* m_tx.event.notify() replaces a pending notification and wakes the thread
\* if it waits for the event.
NotifyNow ==
  /\ pending' = FALSE
  /\ thread' = IF thread = "waiting" THEN "woken" ELSE thread

Access ==
  /\ ~accessed /\ ~ended
  /\ accessed' = TRUE
  /\ UNCHANGED left

WriteUcon(c) ==
  /\ Access
  /\ ucon' = c
  /\ UNCHANGED <<utxcon, urxcon, baud, size, ended>>
  /\ IF c.txe /\ size > 0 THEN NotifyNow ELSE UNCHANGED <<thread, pending>>
  /\ CheckInt

\* Slip: a character waits for the next enable.
WriteUdataQuietly ==
  /\ Access
  /\ size < MaxSize
  /\ size' = size + 1
  /\ UNCHANGED <<registers, thread, pending, ended>>
  /\ CheckInt

\* The test of the size is always true: !size is 0 or 1.
WriteUdata ==
  /\ Access
  /\ size < MaxSize
  /\ size' = size + 1
  /\ UNCHANGED <<registers, ended>>
  /\ IF ucon.txe THEN NotifyNow ELSE UNCHANGED <<thread, pending>>
  /\ CheckInt

WriteUtxcon(n) ==
  /\ Access
  /\ utxcon' = n
  /\ UNCHANGED <<ucon, urxcon, baud, size, thread, pending, ended>>
  /\ CheckInt

WriteUrxcon(n) ==
  /\ Access
  /\ urxcon' = n
  /\ UNCHANGED <<ucon, utxcon, baud, size, thread, pending, ended>>
  /\ CheckInt

\* A MOD of 0 ends the simulation.
WriteUbr(valid) ==
  /\ Access
  /\ baud' = valid
  /\ ended' = ~valid
  /\ UNCHANGED <<ucon, utxcon, urxcon, size, thread, pending>>
  /\ IF valid THEN CheckInt ELSE UNCHANGED line

-----------------------------------------------------------------------------

\* thread_tx from the event to the wait for the character.
Start ==
  /\ thread = "woken" /\ ~ended
  /\ size' = size - 1
  /\ IF baud
     THEN \E t \in CharTimes : left' = t /\ thread' = "sending" /\ UNCHANGED ended
     ELSE ended' = TRUE /\ UNCHANGED <<left, thread>>
  /\ UNCHANGED <<registers, line, pending, accessed>>

\* Slip: the thread leaves the next character to the next write.
DoneOnce ==
  /\ thread = "sent" /\ ~ended
  /\ thread' = "waiting"
  /\ UNCHANGED <<registers, size, left, pending, accessed, ended>>
  /\ CheckInt

\* thread_tx from there to its next wait for the event.
Done ==
  /\ thread = "sent" /\ ~ended
  /\ thread' = "waiting"
  /\ pending' = (size > 0 /\ ucon.txe)
  /\ UNCHANGED <<registers, size, left, accessed, ended>>
  /\ CheckInt

Runnable == thread \in {"woken", "sent"}

\* Nothing is runnable: what was notified with no delay is triggered.
DeltaCycle ==
  /\ ~ended /\ ~Runnable
  /\ \/ pending /\ thread' = "woken"
     \/ thread = "sending" /\ left = 0 /\ thread' = "sent"
  /\ pending' = FALSE
  /\ accessed' = TRUE
  /\ UNCHANGED <<registers, size, line, left, ended>>

\* Time passes.
Tick ==
  /\ ~ended /\ ~Runnable /\ ~pending
  /\ \/ thread = "waiting" /\ UNCHANGED <<thread, left>>
     \/ thread = "sending" /\ left > 0 /\ left' = left - 1
        /\ thread' = IF left = 1 THEN "sent" ELSE thread
  /\ accessed' = FALSE
  /\ UNCHANGED <<registers, size, line, pending, ended>>

UartRegisters ==
  \/ \E c \in Control : WriteUcon(c)
  \/ WriteUdata
  \/ \E n \in Thresholds : WriteUtxcon(n) \/ WriteUrxcon(n)
  \/ \E valid \in BOOLEAN : WriteUbr(valid)

Thread == Start \/ Done

UartNext == UartRegisters \/ Thread \/ DeltaCycle \/ Tick

UartSpec == UartInit /\ [][UartNext]_uartVars

\* The simulation kernel runs what is runnable and lets time pass.
UartFairSpec == UartSpec /\ WF_uartVars(Thread) /\ WF_uartVars(DeltaCycle) /\ WF_uartVars(Tick)

-----------------------------------------------------------------------------

UartTypeOK ==
  /\ ucon \in Control
  /\ utxcon \in Thresholds /\ urxcon \in Thresholds
  /\ baud \in BOOLEAN
  /\ size \in 0 .. MaxSize
  /\ line \in BOOLEAN
  /\ thread \in {"waiting", "woken", "sending", "sent"}
  /\ left \in Nat
  /\ pending \in BOOLEAN /\ accessed \in BOOLEAN /\ ended \in BOOLEAN

\* The assertion of thread_tx: "there must be elements to send" when it is
\* woken, although notifications come from two writes and the thread itself.
ElementsToSend == (thread = "woken" /\ ~ended) \/ pending => size > 0

\* No character is stranded: while the transmitter is enabled and the queue
\* is not empty, the thread is busy or about to be woken.
NotStranded == ucon.txe /\ size > 0 /\ thread = "waiting" => pending

\* The interrupt line is that of the registers and the queue, except between
\* taking a character from the queue and having sent it.
LineAgrees ==
  thread \in {"waiting", "woken"} /\ ~ended => (line <=> Interrupt)

(***************************************************************************)
(* The inductive invariant: no character is stranded, and the line is      *)
(* never stale while the thread waits.                                     *)
(***************************************************************************)
UartInv ==
  /\ UartTypeOK
  /\ pending => thread = "waiting"
  /\ ElementsToSend
  /\ NotStranded
  /\ LineAgrees

(***************************************************************************)
(* A transmitter that remains enabled with characters to send goes on      *)
(* sending them.                                                           *)
(***************************************************************************)
KeepsSending ==
  []<>(size = 0 \/ ~ucon.txe \/ ended) \/ []<><<Done>>_uartVars
=============================================================================
