CONSTANTS
    p1 = p1
    Product = {p1}
    Request = {r1, r2, r3}
    MaxInvoice = 1
    MaxRefund = 4
    OpeningStock <- MCTwoUnits
    Cart <- MCPairCart
    RefundBody <- MCRefundBody
    Amount <- MCAmount
SPECIFICATION Spec
INVARIANTS
    NoOverRefund
    InsertedRefundIsCurrent
PROPERTIES
    ImplementsRefundBook
SYMMETRY MCRequestSymmetry
