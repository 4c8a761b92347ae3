CONSTANTS
    p1 = p1
    Product = {p1}
    Client = {c1, c2}
    Body <- MCBody
    Payment = {1, 2}
    OpeningStock <- MCOpeningStock
    Price <- MCPrice
    Net <- MCNet
    MaxInvoice = 2
    MaxRefund = 1
    MaxEdit = 1
    MaxWaived = 1
SPECIFICATION Spec
INVARIANTS
    TypeOK
    GoodsBalance
    
    LedgerExplained
    OwedIsOpen
    CashReportExplained
    NetSalesBooked
PROPERTIES
    ClaimsKept
SYMMETRY MCClientSymmetry
CHECK_DEADLOCK FALSE
