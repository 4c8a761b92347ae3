CONSTANTS
    Product = {p1}
    Location = {main}
    Main = main
    Qty = {1, 2}
    OpeningStock <- MCOpeningStock
    MaxStock = 2
    MaxDocs = 3
    MaxLogged = 2
SPECIFICATION Spec
INVARIANTS
    LedgerBalances
    DocumentsBalance
    LiveNumbersUnique
