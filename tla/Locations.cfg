CONSTANTS
    Product = {p1, p2}
    Location = {main, shop}
    Main = main
    Qty = {1}
    OpeningStock <- MCOpeningStock
    MaxStock = 2
    MaxDocs = 1
    MaxLogged = 2
SPECIFICATION Spec
INVARIANTS
    TypeOK
    LocationsNeverNegative

    
SYMMETRY MCProductSymmetry
