------------------------------ MODULE MCBlocks ------------------------------
(***************************************************************************)
(* Model checking of the blocks of the platforms that run by themselves or *)
(* interrupt the CPU, of the address decoder and of the arbiter: Sp804,    *)
(* Sp805, Vic, Rbg, Pmu, Phy, AddrDec and Mpa of Bob, Spif of the          *)
(* MC13224V, Aic of the AT91SAM9261.                                       *)
(*                                                                         *)
(* They share no variable, so a step of one leaves what is said of another *)
(* as it was: a behaviour acts on one block only, chosen at its start, and *)
(* all behaviours of each block are explored.                              *)
(*                                                                         *)
(* One timer with values up to 3, of which a 16 bit timer keeps two, and   *)
(* prescalers 1 and 2 has every mode, every period from 0 on, and stops    *)
(* and reloads at every point of a period; so has the watchdog, with an    *)
(* access before, at and after each of its expiries.  Two interrupts and   *)
(* two slots give every relation of slot order to interrupt numbers, and   *)
(* both lines at once.  Up to three slaves in a window of six words leave  *)
(* room for gaps before, between and behind them, and debug accesses are   *)
(* long enough to span two slaves and a gap.  A number of two bits after a *)
(* warm-up of one step has an access at every point of both.  Three        *)
(* sources and two vectors give every order of a fast source, a source     *)
(* forced fast and a normal one.  Accesses of 1 to 40 clocks are commands  *)
(* alone, replies alone, both, too long a reply and a command cut short;   *)
(* they end within a byte, on a byte and on a whole identity.  The arbiter *)
(* has five ports, three more than on Bob: enough for a port to be         *)
(* overtaken for ever by two of higher priority.                           *)
(* MCBlocksKick.cfg and MCBlocksGap.cfg show two errors of the code.       *)
(***************************************************************************)
EXTENDS Mpa, Sp804, Sp805, Vic, AddrDec, Rbg, Pmu, Phy, Aic, Spif

VARIABLE block \* the block acted on

blocksVars == <<block, vars, timerVars, wdogVars, vicVars, decVars,
                rbgVars, pmuVars, phyVars, aicVars, spifVars>>

Words == {NoWord, [op |-> "read", addr |-> 0], [op |-> "id", addr |-> 0]}

Clocks == {NoClocks, [bits |-> 8, len |-> 32], [bits |-> 32, len |-> 32],
           [bits |-> 40, len |-> 32]}

Masks == {{0}, {1}, {2}}

On(b, Step, others) == block = b /\ Step /\ UNCHANGED <<block, others>>

bobVars == <<timerVars, wdogVars, vicVars, decVars>>
threadVars == <<rbgVars, pmuVars, phyVars>>
otherVars == <<vars, aicVars, spifVars>>

OnMpa(Step) == On("arbiter", Step, <<bobVars, threadVars, aicVars, spifVars>>)
OnTimer(Step) ==
  On("timer", Step, <<wdogVars, vicVars, decVars, threadVars, otherVars>>)
OnWdog(Step) ==
  On("watchdog", Step, <<timerVars, vicVars, decVars, threadVars, otherVars>>)
OnVic(Step) ==
  On("interrupts", Step, <<timerVars, wdogVars, decVars, threadVars, otherVars>>)
OnDec(Step) ==
  On("decoder", Step, <<timerVars, wdogVars, vicVars, threadVars, otherVars>>)
OnRbg(Step) == On("random", Step, <<bobVars, pmuVars, phyVars, otherVars>>)
OnPmu(Step) == On("power", Step, <<bobVars, rbgVars, phyVars, otherVars>>)
OnPhy(Step) == On("phy", Step, <<bobVars, rbgVars, pmuVars, otherVars>>)
OnAic(Step) == On("advanced", Step, <<vars, bobVars, threadVars, spifVars>>)
OnSpif(Step) == On("flash", Step, <<vars, bobVars, threadVars, aicVars>>)

BlocksInit ==
  /\ block \in {"arbiter", "timer", "watchdog", "interrupts", "decoder",
                "random", "power", "phy", "advanced", "flash"}
  /\ Init /\ TimerInit /\ WdogInit /\ VicInit /\ DecInit
  /\ RbgInit /\ PmuInit /\ PhyInit /\ AicInit /\ SpifInit

\* Nothing follows the reset, or an error.
Ended == (reset \/ failed) /\ UNCHANGED blocksVars

BlocksNext ==
  \/ OnMpa(Next)
  \/ OnTimer(TimerNext)
  \/ OnWdog(WdogNext)
  \/ OnVic(VicNext)
  \/ OnDec(DecNext)
  \/ OnRbg(RbgNext)
  \/ OnPmu(PmuNext)
  \/ OnPhy(PhyNext)
  \/ OnAic(AicNext)
  \/ OnSpif(SpifNext)
  \/ Ended

\* The masters' threads that run or are in the target.  By OneGrant no more
\* than one can, so fairness of the disjunction is Fairness of Mpa.
MpaThread == \E p \in Port : Resume(p) \/ Finish(p)

\* The fairness of each block, when it is the one acted on.  Only one is, so
\* fairness of actions of different blocks is that of their disjunction.
BlocksFairness ==
  /\ \A t \in Timers : WF_blocksVars(OnTimer(TimerExpire(t)))
  /\ WF_blocksVars(OnTimer(TimerDeltaCycle) \/ OnWdog(WdogExpire) \/ OnVic(Wake)
                    \/ OnRbg(RbgThread) \/ OnPmu(PmuThread) \/ OnPhy(PhyThread)
                    \/ OnSpif(ThreadFlash) \/ OnMpa(MpaThread))
  /\ WF_blocksVars(OnTimer(TimerTick) \/ OnWdog(WdogTick))

BlocksSpec == BlocksInit /\ [][BlocksNext]_blocksVars

BlocksFairSpec == BlocksSpec /\ BlocksFairness

-----------------------------------------------------------------------------

(***************************************************************************)
(* TimePasses of Sp804, in the behaviours of the timer: simulated time     *)
(* stops for nothing but a periodic timer that reloads 0.                  *)
(***************************************************************************)
TimePassesForTimer == <>[](block = "timer") => TimePasses

(***************************************************************************)
(* The threads that software starts by an event: a start that is not heard *)
(* because the thread is at work is not lost with it.                      *)
(***************************************************************************)
NoStartLost == RbgInv /\ PmuInv /\ PhyInv

(***************************************************************************)
(* What software starts ends: a number is there, the result has come, the  *)
(* access is over, the flash has answered.                                 *)
(***************************************************************************)
StartsEnd == ServesNumbers /\ ResultsCome /\ AccessesEnd /\ AccessesAnswered

(***************************************************************************)
(* Bites of Sp805, in the behaviours of the watchdog: armed and left alone *)
(* with its reset enabled, it resets.                                      *)
(***************************************************************************)
WatchdogBites == block = "watchdog" => Bites
=============================================================================
