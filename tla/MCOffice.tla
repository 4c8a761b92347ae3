------------------------------ MODULE MCOffice ------------------------------
(***************************************************************************)
(* An instance of Office for TLC.                                          *)
(***************************************************************************)
EXTENDS Office, TLC

CONSTANTS old, new, ann, bob, ledger, bills, cashier, accountant

\* A file of retail sales: a new product first, then both.
Day(n, d, S) == [name |-> n, date |-> d, skus |-> S]
MCFile == { <<Day(ann, 1, {new}), Day(ann, 2, {old, new})>> }

\* A file of clients' invoices.
Deal(n, d, t) == [buyer |-> n, date |-> d, type |-> t]
MCWorkbook == { <<Deal(bob, 1, "cash"), Deal(bob, 1, "consignment")>> }

\* The ledger brings the bills along; an accountant has it.
MCDefault == (cashier :> {} @@ accountant :> {ledger})
MCBrings == [p \in Permission |-> IF p = ledger THEN {bills} ELSE {}]
Body(r, a, t) == [role |-> r, active |-> a, ticked |-> t]
MCForm == { Body({accountant}, {}, {}),
            Body({"admin"}, {TRUE}, {}),
            Body({accountant}, {}, {{bills}}),
            Body({cashier}, {}, {{ledger, bills}}) }
=============================================================================
