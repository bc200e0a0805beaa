------------------------------- MODULE Sp804 --------------------------------
(***************************************************************************)
(* The dual timer of the Bob platform                                      *)
(* (src/src/tlm_blocks/Arm/PrimeCells/Sp804/Sp804.h).  Each timer is a     *)
(* register set, a timed event and a thread waiting for the event; the     *)
(* timers share update_int.  Time is counted in clock periods, and         *)
(* register accesses and wake-ups interleave as in Sp805.                  *)
(***************************************************************************)
EXTENDS Integers

CONSTANTS
  Timers,  \* the timers considered, 1 or both
  Full,    \* the largest counter value (0xFFFFFFFF)
  Narrow,  \* the number of values of a 16 bit counter
  Divs,    \* prescaler divisors (1, 16, 256)
  MaxDiv   \* a multiple of every divisor

ASSUME TimersAssumption == Timers \in {{1}, {1, 2}}
ASSUME WidthAssumption == Full \in Nat /\ Narrow \in 1 .. Full
ASSUME DivsAssumption ==
  /\ Divs \subseteq Nat \ {0} /\ 1 \in Divs /\ MaxDiv \in Nat
  /\ \A d \in Divs : d =< MaxDiv /\ MaxDiv % d = 0

VARIABLES
  timer,         \* timer[t]: the registers and thread of timer t, see Timer
  timerLine,     \* timerLine[t]: its interrupt line, which is TIMERt_MIS
  timerAccessed  \* the instant's register access is done

timerVars == <<timer, timerLine, timerAccessed>>

Off == -1
Width == Full + 1
Value == 0 .. Full
Horizon == Width * MaxDiv

Control == [on : BOOLEAN, mode : {"oneshot", "free", "periodic"},
            ie : BOOLEAN, div : Divs, wide : BOOLEAN]

Timer ==
  [load : Value, value : Value, bg : BOOLEAN, ctl : Control, ris : BOOLEAN,
   stopped : BOOLEAN,                  \* m_tXstopped
   armed : {Off} \union 0 .. Horizon,  \* periods until m_tXevent, or Off
   ready : BOOLEAN,                    \* triggered, the thread has yet to run
   elapsed : 0 .. Horizon-1]           \* now - m_tXstarttime, modulo Horizon

\* CONTROL is 0x20 after reset.
TimerInit ==
  /\ timer = [t \in Timers |->
       [load |-> 0, value |-> Full, bg |-> FALSE,
        ctl |-> [on |-> FALSE, mode |-> "periodic", ie |-> TRUE, div |-> 1,
                 wide |-> FALSE],
        ris |-> FALSE, stopped |-> TRUE, armed |-> Off, ready |-> FALSE,
        elapsed |-> 0]]
  /\ timerLine = [t \in Timers |-> FALSE]
  /\ timerAccessed = FALSE

-----------------------------------------------------------------------------

\* update_int: both masked statuses are taken from TIMER1_RIS.
TimerUpdateInt ==
  timerLine' = [t \in Timers |-> timer'[t].ctl.on /\ timer'[t].ctl.ie /\ timer'[1].ris]

Masked(c, v) == IF c.wide THEN v ELSE v % Narrow

\* Slip: the period is computed before the value is cut to 16 bits.
StartedUncut(r) ==
  IF r.ctl.on
  THEN [r EXCEPT !.value = Masked(r.ctl, @), !.armed = r.value * r.ctl.div,
                 !.elapsed = 0]
  ELSE [r EXCEPT !.armed = Off]

\* start_tX_counter, the timer's record after it.
Started(r) ==
  IF r.ctl.on
  THEN LET v == Masked(r.ctl, r.value)
       IN  [r EXCEPT !.value = v, !.armed = v * r.ctl.div, !.elapsed = 0]
  ELSE [r EXCEPT !.armed = Off]

\* stop_tX_counter: an event that was triggered already is not cancelled.
Stopped(r) ==
  [r EXCEPT !.stopped = TRUE, !.armed = Off,
            !.value = (@ - r.elapsed \div r.ctl.div) % Width]

-----------------------------------------------------------------------------

Write(t, r) ==
  /\ ~timerAccessed
  /\ timerAccessed' = TRUE
  /\ timer' = [timer EXCEPT ![t] = r]
  /\ TimerUpdateInt

\* Changing more than the interrupt enable of a running timer ends the
\* simulation.  A timer is stopped with the prescaler of the new CONTROL.
WriteControl(t, c) ==
  LET p == timer[t].ctl
      r == [timer[t] EXCEPT !.ctl = c]
  IN  /\ p.on /\ c.on => c = [p EXCEPT !.ie = c.ie]
      /\ Write(t, IF ~p.on /\ c.on THEN Started(r)
                  ELSE IF p.on /\ ~c.on THEN Stopped(r) ELSE r)

WriteIntClr(t) == Write(t, [timer[t] EXCEPT !.ris = FALSE])

WriteLoad(t, v) ==
  Write(t, Started([timer[t] EXCEPT !.load = IF timer[t].bg THEN @ ELSE v,
                                    !.value = v]))

WriteBgLoad(t, v) == Write(t, [timer[t] EXCEPT !.bg = TRUE, !.load = v])

\* Slip: the one-shot bit is not tested.
ExpireIgnoresOneShot(t) ==
  LET r == [timer[t] EXCEPT !.ready = FALSE, !.bg = FALSE, !.ris = TRUE]
  IN  /\ timer[t].ready
      /\ timer' = [timer EXCEPT ![t] =
           Started([r EXCEPT !.value = IF r.ctl.mode = "free" THEN Full
                                       ELSE r.load])]
      /\ TimerUpdateInt
      /\ UNCHANGED timerAccessed

\* tX_thread_process from the event to the next wait.
TimerExpire(t) ==
  LET r == [timer[t] EXCEPT !.ready = FALSE, !.bg = FALSE, !.ris = TRUE]
  IN  /\ timer[t].ready
      /\ timer' = [timer EXCEPT ![t] =
           CASE r.ctl.mode = "oneshot"  -> Stopped(r)
             [] r.ctl.mode = "free"     -> Started([r EXCEPT !.value = Full])
             [] r.ctl.mode = "periodic" -> Started([r EXCEPT !.value = r.load])]
      /\ TimerUpdateInt
      /\ UNCHANGED timerAccessed

\* The record of a timer when its pending event is triggered.
Triggered(r) ==
  IF r.armed = 0 THEN [r EXCEPT !.armed = Off, !.ready = TRUE] ELSE r

Idle == \A t \in Timers : ~timer[t].ready

\* An event notified with no delay is triggered when all has run, in the same
\* instant; the instant's access was runnable from the start.
TimerDeltaCycle ==
  /\ Idle
  /\ \E t \in Timers : timer[t].armed = 0
  /\ timer' = [t \in Timers |-> Triggered(timer[t])]
  /\ timerAccessed' = TRUE
  /\ UNCHANGED timerLine

\* Time passes when nothing can run and nothing is due.
TimerTick ==
  /\ Idle
  /\ \A t \in Timers : timer[t].armed # 0
  /\ timer' = [t \in Timers |->
       Triggered([timer[t] EXCEPT !.armed = IF @ = Off THEN Off ELSE @ - 1,
                                  !.elapsed = (@ + 1) % Horizon])]
  /\ timerAccessed' = FALSE
  /\ UNCHANGED timerLine

TimerRegisters ==
  \E t \in Timers :
    \/ \E c \in Control : WriteControl(t, c)
    \/ WriteIntClr(t)
    \/ \E v \in Value : WriteLoad(t, v) \/ WriteBgLoad(t, v)

TimerNext ==
  \/ TimerRegisters
  \/ \E t \in Timers : TimerExpire(t)
  \/ TimerDeltaCycle
  \/ TimerTick

TimerSpec == TimerInit /\ [][TimerNext]_timerVars

\* The simulation kernel: runnable processes run, due events are triggered,
\* and then time passes.
TimerFairSpec ==
  /\ TimerSpec
  /\ \A t \in Timers : WF_timerVars(TimerExpire(t))
  /\ WF_timerVars(TimerDeltaCycle) /\ WF_timerVars(TimerTick)

-----------------------------------------------------------------------------

TimerTypeOK ==
  /\ timer \in [Timers -> Timer]
  /\ timerLine \in [Timers -> BOOLEAN]
  /\ timerAccessed \in BOOLEAN

(***************************************************************************)
(* Arming and enabling agree through every race of the thread with stops   *)
(* and restarts: an event is pending only while the timer is enabled, and  *)
(* an enabled timer that is not one-shot always has its next expiry        *)
(* pending or about to be handled.                                         *)
(***************************************************************************)
ArmedIffRunning ==
  \A t \in Timers :
    LET r == timer[t]
    IN  /\ r.armed # Off => r.ctl.on
        /\ r.ctl.on /\ r.ctl.mode # "oneshot" => r.armed # Off \/ r.ready

(***************************************************************************)
(* The period being counted is VALUE times the prescaler: what is left and *)
(* what has elapsed add up to it, so no expiry is early or late, whatever  *)
(* was reloaded or set in the background.                                  *)
(***************************************************************************)
PeriodConserved ==
  \A t \in Timers :
    LET r == timer[t]
    IN  r.armed # Off => r.armed + r.elapsed = r.value * r.ctl.div

(***************************************************************************)
(* The inductive invariant.  The line of timer 1 is its masked status.     *)
(***************************************************************************)
TimerInv ==
  /\ TimerTypeOK
  /\ ArmedIffRunning
  /\ PeriodConserved
  /\ timerLine[1] = (timer[1].ctl.on /\ timer[1].ctl.ie /\ timer[1].ris)

\* The timer reloads 0 for ever: event and thread follow each other in one
\* instant, and no access can change it.
Spinning(t) ==
  LET r == timer[t]
  IN  r.ctl.on /\ r.ctl.mode = "periodic" /\ Masked(r.ctl, r.load) = 0

(***************************************************************************)
(* Simulated time goes on for ever, unless a periodic timer reloads 0 (in  *)
(* its low 16 bits, if it is a 16 bit timer).  This is the only way a      *)
(* timer stops the simulation.                                             *)
(***************************************************************************)
TimePasses == []<><<TimerTick>>_timerVars \/ <>[](\E t \in Timers : Spinning(t))
=============================================================================
