CONSTANTS
    Worker = {w1, w2}
    Size = 2
    MaxBatch = 2
    MaxCrash = 2
    old = old
    new = new
    ann = ann
    Importer = {1, 2}
    Sku = {old, new}
    Name = {ann}
    OldSku = {old}
    OldQty = 1
    File <- MCFile
    MaxImport = 2
    MaxFault = 2
    bob = bob
    Desk = {1, 2}
    Buyer = {bob}
    Workbook <- MCWorkbook
    Total = 2
    Instalment = {1, 2}
    MaxBill = 2
    MaxBook = 2
    MaxCredit = 2
    Page = {p1, p2}
    Timer = {}
    MaxToken = 3
    ledger = ledger
    bills = bills
    cashier = cashier
    accountant = accountant
    Account = {1, 2}
    Founder = 1
    Position = {cashier, accountant}
    Entry = cashier
    Permission = {ledger, bills}
    Default <- MCDefault
    Brings <- MCBrings
    Form <- MCForm
    Clerk = {k1, k2}
SPECIFICATION Spec
INVARIANTS
    ItemsTrailByOne
    RevertedIsGone
    EffectsAreRows
    OneInvoicePerGroup
    
    CreatedAreUsed
    PaidWasReceived
    
    SessionIsWhole
    ChosenIsGranted
    AdminRemains

    
CHECK_DEADLOCK FALSE
