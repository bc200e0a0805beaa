------------------------------- MODULE TopBus -------------------------------
(***************************************************************************)
(* The bus of the Top platform as the platform uses it                     *)
(* (src/src/tlm_blocks/Top/Top.cpp): its map is set up while the platform  *)
(* is built, and the simulation then runs on the map there is.             *)
(***************************************************************************)
EXTENDS Bus, BusDecode

VARIABLE running \* the platform is built and the simulation has started

topVars == <<running, vars, mapVars>>

TopInit == Init /\ MapInit /\ running = FALSE

-----------------------------------------------------------------------------

Build == ~running /\ Configure /\ UNCHANGED <<running, vars>>

Start == ~running /\ running' = TRUE /\ UNCHANGED <<vars, mapVars>>

\* A request for an address that decodes to no target returns at once.
DecodedRequest(p) ==
  /\ \E a \in Address : Decode(a) # T
  /\ Request(p)

Transport ==
  /\ running
  /\ \E p \in Initiator : DecodedRequest(p) \/ Resume(p) \/ Finish(p)
  /\ UNCHANGED <<running, mapVars>>

TopNext == Build \/ Start \/ Transport

TopSpec == TopInit /\ [][TopNext]_topVars

\* Runnable threads run and target delays are finite; requests are optional.
TopFairSpec == TopSpec /\ Fairness
=============================================================================
