----------------------------- MODULE RefundBook -----------------------------
(***************************************************************************)
(* What the retail refund endpoint promises, whatever runs beside it:      *)
(* refunds happen one at a time, none gives back more of a product than is *)
(* left of the invoice's line, and each carries a number larger than every *)
(* number issued before.                                                   *)
(***************************************************************************)
EXTENDS Integers

CONSTANTS Product, InvoiceId

Basket == [Product -> Nat]
Empty == [p \in Product |-> 0]

VARIABLES
    sold,       \* what each invoice sold; Empty until the invoice exists
    returned,   \* what has been refunded of it
    issued      \* the refund numbers given out

bookVars == <<sold, returned, issued>>

Init ==
    /\ sold = [i \in InvoiceId |-> Empty]
    /\ returned = [i \in InvoiceId |-> Empty]
    /\ issued = {}

\* An invoice is written once.
Sell(i) ==
    /\ sold[i] = Empty
    /\ sold'[i] \in Basket
    /\ sold' = [sold EXCEPT ![i] = sold'[i]]
    /\ UNCHANGED <<returned, issued>>

\* A refund stays within what is left and takes a number above all others.
Return(i) ==
    /\ \A p \in Product : /\ returned'[i][p] >= returned[i][p]
                          /\ returned'[i][p] <= sold[i][p]
    /\ returned' = [returned EXCEPT ![i] = returned'[i]]
    /\ \E n \in issued' :
          /\ issued' = issued \cup {n}
          /\ \A m \in issued : m < n
    /\ UNCHANGED sold

Next == \E i \in InvoiceId : Sell(i) \/ Return(i)

Spec == Init /\ [][Next]_bookVars
=============================================================================
