------------------------------ MODULE MCRetail ------------------------------
(***************************************************************************)
(* Instances of Retail for TLC: one product, and bodies small enough that  *)
(* the interesting requests still compete for its last units.              *)
(***************************************************************************)
EXTENDS Retail, FiniteSetsExt, TLC

CONSTANT p1

Units(q) == [p \in Product |-> q]
MCOpeningStock == Units(1)

\* Unit prices are 1.
MCAmount(q) == SumFunction(q)

\* The last unit, bought for cash or on account.
MCCart == {[qty |-> Units(1), discount |-> 0, later |-> l] : l \in BOOLEAN}

\* One row, one unit, paid back in cash.
MCRefundBody == {[largest |-> Units(1), qty |-> Units(1), cash |-> TRUE]}

\* Two rows of one unit of the same product in one request.
MCTwoRows == {[largest |-> Units(1), qty |-> Units(2), cash |-> TRUE]}

\* Both units of two on account; three requests are interchangeable.
MCTwoUnits == Units(2)
MCPairCart == {[qty |-> Units(2), discount |-> 0, later |-> TRUE]}
MCRequestSymmetry == Permutations(Request)
=============================================================================
