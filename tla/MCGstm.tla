------------------------------ MODULE MCGstm ------------------------------
(***************************************************************************)
(* Instances of Gstm for TLC.                                              *)
(***************************************************************************)
EXTENDS Gstm, TLC

PageSymmetry == Permutations(Pages)

=============================================================================
