CONSTANTS
    p1 = p1
    Product = {p1}
    Client = {c1}
    Body <- MCBody
    Payment = {1, 2}
    OpeningStock <- MCOpeningStock
    Price <- MCPrice
    Net <- MCNet
    MaxInvoice = 2
    MaxRefund = 1
    MaxEdit = 0
    MaxWaived = 1
SPECIFICATION Spec
INVARIANTS
    GoodsReturnOnce
CHECK_DEADLOCK FALSE
