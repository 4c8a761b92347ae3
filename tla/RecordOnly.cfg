CONSTANTS
    Product = {p1}
    Location = {main}
    Main = main
    Qty = {1}
    OpeningStock <- MCOpeningStock
    MaxStock = 2
    MaxDocs = 1
    MaxLogged = 2
SPECIFICATION Spec
INVARIANTS
    DocumentsAlwaysBalance
