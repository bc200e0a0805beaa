--------------------------------- MODULE Aic --------------------------------
(***************************************************************************)
(* The advanced interrupt controller of the AT91SAM9261                    *)
(* (src/src/tlm_blocks/At91sam9261/Aic).  Registers are sets of sources.   *)
(* Its accesses have no delay, and every step ends in check_int, which     *)
(* sets the lines of the CPU.  It has no priorities and no edges: a        *)
(* pending bit is the line of its source, unless software writes it.       *)
(***************************************************************************)
EXTENDS Integers

CONSTANTS
  AicSources, \* the sources told apart (0 .. 31), 0 among them
  AicMasks,   \* what is written to a register of sources
  Vectors     \* what a vector register can hold, 0 at first

ASSUME AicSourcesAssumption == AicSources \subseteq Nat /\ 0 \in AicSources
ASSUME AicMasksAssumption == AicMasks \subseteq SUBSET AicSources
ASSUME VectorsAssumption == 0 \in Vectors

VARIABLES
  ipr, imr, ffsr, \* pending, enabled and forced fast sources
  svr,            \* svr[i]: the vector of source i
  cisr,           \* CISR: the lines that are up, NFIQ and NIRQ
  isr, ivr, fvr   \* the current source, its vector, and the fast vector

aicRegisters == <<ipr, imr, ffsr, svr>>
aicVars == <<aicRegisters, cisr, isr, ivr, fvr>>

AicInit ==
  /\ ipr = {} /\ imr = {} /\ ffsr = {}
  /\ svr = [i \in AicSources |-> 0] /\ ivr = 0 /\ fvr = 0
  /\ cisr = {} /\ isr = 0

-----------------------------------------------------------------------------

\* The loops of check_int stop at the source with the lowest number.
Lowest(S) == CHOOSE i \in S : \A j \in S : i =< j

\* Source 0 is the fast interrupt whatever FFSR says, and is never a normal
\* one.
Fast == {i \in ipr \intersect imr : i = 0 \/ i \in ffsr}

Normal == {i \in ipr \intersect imr : i # 0 /\ i \notin ffsr}

\* check_int, on the registers as the handler leaves them.
AicCheckInt ==
  LET fast == Fast'
      norm == Normal'
  IN  /\ cisr' = {l \in {"NFIQ", "NIRQ"} : IF l = "NFIQ" THEN fast # {} ELSE norm # {}}
      /\ isr' = CASE fast # {} -> Lowest(fast)
                  [] fast = {} /\ norm # {} -> Lowest(norm)
                  [] OTHER -> isr
      /\ fvr' = IF fast # {} THEN svr'[0] ELSE fvr
      /\ ivr' = IF norm # {} THEN svr'[Lowest(norm)] ELSE ivr

AicInterruptSet(i) ==
  /\ ipr' = ipr \union {i}
  /\ UNCHANGED <<imr, ffsr, svr>>
  /\ AicCheckInt

AicInterruptClr(i) ==
  /\ ipr' = ipr \ {i}
  /\ UNCHANGED <<imr, ffsr, svr>>
  /\ AicCheckInt

WriteIecr(v) == imr' = imr \union v /\ UNCHANGED <<ipr, ffsr, svr>> /\ AicCheckInt
WriteIdcr(v) == imr' = imr \ v /\ UNCHANGED <<ipr, ffsr, svr>> /\ AicCheckInt
WriteFfer(v) == ffsr' = ffsr \union v /\ UNCHANGED <<ipr, imr, svr>> /\ AicCheckInt
WriteFfdr(v) == ffsr' = ffsr \ v /\ UNCHANGED <<ipr, imr, svr>> /\ AicCheckInt

\* Slip: the vectors are those of the last interrupt.
WriteSvrOnly(i, a) ==
  /\ svr' = [svr EXCEPT ![i] = a]
  /\ UNCHANGED <<ipr, imr, ffsr, cisr, isr, ivr, fvr>>

WriteSvr(i, a) ==
  /\ svr' = [svr EXCEPT ![i] = a]
  /\ UNCHANGED <<ipr, imr, ffsr>>
  /\ AicCheckInt

\* The other registers are stored as they are written, the pending bits too.
WriteIpr(v) == ipr' = v /\ UNCHANGED <<imr, ffsr, svr>> /\ AicCheckInt

AicRegisters ==
  \/ \E v \in AicMasks :
       WriteIecr(v) \/ WriteIdcr(v) \/ WriteFfer(v) \/ WriteFfdr(v) \/ WriteIpr(v)
  \/ \E i \in AicSources, a \in Vectors : WriteSvr(i, a)

AicNext ==
  \/ AicRegisters
  \/ \E i \in AicSources : AicInterruptSet(i) \/ AicInterruptClr(i)

AicSpec == AicInit /\ [][AicNext]_aicVars

-----------------------------------------------------------------------------

AicTypeOK ==
  /\ ipr \subseteq AicSources /\ imr \subseteq AicSources /\ ffsr \subseteq AicSources
  /\ svr \in [AicSources -> Vectors]
  /\ cisr \subseteq {"NFIQ", "NIRQ"}
  /\ isr \in AicSources /\ ivr \in Vectors /\ fvr \in Vectors

(***************************************************************************)
(* Nothing the CPU reads in a handler is stale: the lines are those of the *)
(* sources, source and vectors those of a source that is pending, enabled, *)
(* of the right kind and before all others of its kind, with the vector it *)
(* has now, after any sequence of line changes and register writes.        *)
(***************************************************************************)
HandlerIsCurrent ==
  /\ "NFIQ" \in cisr <=> \E i \in ipr \intersect imr : i \in ffsr \union {0}
  /\ "NIRQ" \in cisr <=> \E i \in ipr \intersect imr : i \notin ffsr \union {0}
  /\ "NFIQ" \in cisr => fvr = svr[0]
  /\ "NFIQ" \in cisr =>
       isr \in Fast /\ \A i \in ipr \intersect imr \intersect (ffsr \union {0}) : isr =< i
  /\ "NIRQ" \in cisr =>
       \E i \in Normal : ivr = svr[i] /\ \A j \in (ipr \intersect imr) \ (ffsr \union {0}) : i =< j
  /\ cisr = {"NIRQ"} => ivr = svr[isr]

(***************************************************************************)
(* The inductive invariant.                                                *)
(***************************************************************************)
AicInv == AicTypeOK /\ HandlerIsCurrent
=============================================================================
