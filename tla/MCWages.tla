------------------------------- MODULE MCWages -------------------------------
(***************************************************************************)
(* Instances of Wages for TLC.                                             *)
(***************************************************************************)
EXTENDS Wages, TLC

MCSalary == [e \in Employee |-> 3]
MCRequestSymmetry == Permutations(Request)
=============================================================================
