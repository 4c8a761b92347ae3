-------------------------------- MODULE MCB2B --------------------------------
(***************************************************************************)
(* Instances of B2B for TLC.                                               *)
(***************************************************************************)
EXTENDS Statements, TLC

CONSTANT p1

MCOpeningStock == [p \in Product |-> 2]
MCPrice == [p \in Product |-> 2]

\* A discount of one half: a unit is invoiced at 1 and settled at 2.
MCNet(b) == SumFunction(b)

\* Bodies of two units, so that an invoice can be paid and settled in part.
MCBody == {[p \in Product |-> 2]}
MCClientSymmetry == Permutations(Client)
=============================================================================
