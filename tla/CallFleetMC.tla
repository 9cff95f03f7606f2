----------------------------- MODULE CallFleetMC -----------------------------
(***************************************************************************)
(* Instances of CallFleet for TLC.                                         *)
(***************************************************************************)
EXTENDS CallFleet, TLC

RuntimeSymmetry == Permutations(Runtimes)
=============================================================================
