----------------------------- MODULE MCDataPath -----------------------------
(***************************************************************************)
(* Model checking of DataPath with every combination of flags: a data line *)
(* and a code line of two halves, which compete for the one way of each    *)
(* cache, and a write buffer of two entries.                               *)
(***************************************************************************)
EXTENDS DataPath

\* Values are only moved and compared.
ValSymmetry == Permutations(Val)
=============================================================================
