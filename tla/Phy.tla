--------------------------------- MODULE Phy --------------------------------
(***************************************************************************)
(* The serial register interface of the Bob platform's Bluetooth PHY       *)
(* (src/src/tlm_blocks/Bob/Phy): software sets bit 0 of                    *)
(* DC_SRI_JTAG_ACCESS to start an access, and a thread clears it 10 us     *)
(* later.  As in Rbg, a notified thread runs before the next register      *)
(* access.  The clock registers only tell the simulated time.              *)
(***************************************************************************)
VARIABLES
  sriAccess, \* bit 0 of DC_SRI_JTAG_ACCESS
  sriWrite,  \* m_sriwrite: the access is a write
  sriAt      \* sri_process: "waiting" for m_srievent, notified and "woken",
             \* or "accessing"

phyVars == <<sriAccess, sriWrite, sriAt>>

PhyInit == sriAccess = FALSE /\ sriWrite = FALSE /\ sriAt = "waiting"

-----------------------------------------------------------------------------

WriteSriDs0 ==
  /\ sriAt # "woken"
  /\ sriWrite' = TRUE
  /\ UNCHANGED <<sriAccess, sriAt>>

\* Slip: the event is notified for a register that already has the bit.
WriteSriAccessAgain(bit) ==
  /\ sriAt # "woken"
  /\ sriAt' = IF sriAccess /\ bit /\ sriAt = "waiting" THEN "woken" ELSE sriAt
  /\ sriAccess' = bit
  /\ UNCHANGED sriWrite

\* The bit is stored as written, also while an access is ongoing; whether the
\* access is started depends on the bit before.
WriteSriAccess(bit) ==
  /\ sriAt # "woken"
  /\ sriAt' = IF ~sriAccess /\ bit /\ sriAt = "waiting" THEN "woken" ELSE sriAt
  /\ sriAccess' = bit
  /\ UNCHANGED sriWrite

StartAccess ==
  /\ sriAt = "woken"
  /\ sriAt' = "accessing"
  /\ UNCHANGED <<sriAccess, sriWrite>>

EndAccess ==
  /\ sriAt = "accessing"
  /\ sriAt' = "waiting"
  /\ sriWrite' = FALSE
  /\ sriAccess' = FALSE

PhyThread == StartAccess \/ EndAccess

PhyNext == WriteSriDs0 \/ PhyThread \/ \E bit \in BOOLEAN : WriteSriAccess(bit)

PhySpec == PhyInit /\ [][PhyNext]_phyVars

PhyFairSpec == PhySpec /\ WF_phyVars(PhyThread)

-----------------------------------------------------------------------------

PhyTypeOK ==
  /\ sriAccess \in BOOLEAN /\ sriWrite \in BOOLEAN
  /\ sriAt \in {"waiting", "woken", "accessing"}

(***************************************************************************)
(* An access the register shows is ongoing, although the register can be   *)
(* cleared and set again during an access and the second start then        *)
(* notifies nobody.                                                        *)
(***************************************************************************)
PhyInv == PhyTypeOK /\ (sriAccess => sriAt # "waiting")

(***************************************************************************)
(* Software that waits for the end of an access sees it.                   *)
(***************************************************************************)
AccessesEnd == []<>~sriAccess
=============================================================================
