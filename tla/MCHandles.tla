----------------------------- MODULE MCHandles -----------------------------
(***************************************************************************)
(* A small instance of Handles for TLC.  Any two addresses are alike, and  *)
(* what the last call returned decides nothing later.                      *)
(***************************************************************************)
EXTENDS Handles, TLC

Symmetry == Permutations(Handle)

View == <<objectVars, mapVars, descVars, destroying, unmapped>>
=============================================================================
