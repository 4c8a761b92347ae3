CONSTANTS
    p1 = p1
    Product = {p1}
    Request = {r1}
    MaxInvoice = 2
    MaxRefund = 2
    OpeningStock <- MCOpeningStock
    Cart <- MCCart
    RefundBody <- MCTwoRows
    Amount <- MCAmount
SPECIFICATION Spec
INVARIANTS
    NoOverRefund
