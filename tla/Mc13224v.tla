------------------------------ MODULE Mc13224v -------------------------------
(***************************************************************************)
(* A UART of the MC13224V platform with its interrupt line bound to the    *)
(* interrupt controller (src/src/tlm_blocks/Mc13224v/Mc13224v.cpp).  The   *)
(* UART's check_int calls the controller, which updates the lines of the   *)
(* CPU, so both change in one step.  The registers of both are on one bus, *)
(* which makes one access an instant.                                      *)
(***************************************************************************)
EXTENDS Uart, Itc

CONSTANT UartInt \* where the UART is connected (1 or 2)

ASSUME UartIntAssumption == UartInt \in Ints

vars == <<uartVars, itcVars>>

Init == UartInit /\ ItcInit

-----------------------------------------------------------------------------

\* Slip: the controller hears of a raised line and not of a dropped one.
PassedWhenRaised(A) == A /\ IF line' THEN InterruptSet(UartInt) ELSE UNCHANGED itcVars

\* A step of the UART that ends in check_int: interrupt.set or clear calls
\* the controller, whether the line changes or not.
Passed(A) == A /\ IF line' THEN InterruptSet(UartInt) ELSE InterruptClr(UartInt)

\* The other steps of the UART.
Quiet(A) == A /\ UNCHANGED itcVars

UartWrites ==
  \/ \E c \in Control : Passed(WriteUcon(c))
  \/ Passed(WriteUdata)
  \/ \E n \in Thresholds : Passed(WriteUtxcon(n)) \/ Passed(WriteUrxcon(n))
  \/ Passed(WriteUbr(TRUE)) \/ Quiet(WriteUbr(FALSE))

ItcWrites ==
  /\ ~accessed /\ ~ended
  /\ ItcRegisters
  /\ accessed' = TRUE
  /\ UNCHANGED <<registers, size, line, thread, left, pending, ended>>

OtherLines ==
  /\ ~ended
  /\ \E i \in Ints \ {UartInt} : InterruptSet(i) \/ InterruptClr(i)
  /\ UNCHANGED uartVars

\* An error has ended the simulation.
Ended == ended /\ UNCHANGED vars

Next ==
  \/ UartWrites \/ ItcWrites \/ OtherLines
  \/ Quiet(Start) \/ Passed(Done) \/ Quiet(DeltaCycle) \/ Quiet(Tick)
  \/ Ended

Spec == Init /\ [][Next]_vars

\* The simulation kernel runs what is runnable and lets time pass.
FairSpec ==
  /\ Spec
  /\ WF_vars(Quiet(Start)) /\ WF_vars(Passed(Done))
  /\ WF_vars(Quiet(DeltaCycle)) /\ WF_vars(Quiet(Tick))

-----------------------------------------------------------------------------

(***************************************************************************)
(* The UART's condition reaches the CPU: unless a character is being sent, *)
(* a UART whose interrupt condition holds and whose interrupt is enabled   *)
(* and not masked is announced to the CPU, by the line its type calls for, *)
(* and by no normal interrupt only while a fast one is pending; and when   *)
(* the condition does not hold, the controller has no interrupt from it.   *)
(***************************************************************************)
ReachesCpu ==
  thread \in {"waiting", "woken"} /\ ~ended =>
    IF Interrupt
    THEN UartInt \in enable =>
           \/ UartInt \in type /\ fiq
           \/ UartInt \notin type /\ UartInt \in Unmasked /\ (irq \/ fipend # {})
           \/ UartInt \notin type /\ UartInt \notin Unmasked
    ELSE UartInt \notin nipend \union fipend
=============================================================================
