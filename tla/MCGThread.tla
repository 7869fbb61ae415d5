----------------------------- MODULE MCGThread -----------------------------
(***************************************************************************)
(* Instances of GThread for TLC.                                           *)
(***************************************************************************)
EXTENDS GThread, TLC

ThreadSymmetry == Permutations(Procs \ {Root})

=============================================================================
