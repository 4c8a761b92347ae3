------------------------------- MODULE MCStock -------------------------------
(***************************************************************************)
(* Instances of Stock for TLC.                                             *)
(***************************************************************************)
EXTENDS Stock, TLC

MCOpeningStock == [p \in Product |-> 1]
MCProductSymmetry == Permutations(Product)
=============================================================================
