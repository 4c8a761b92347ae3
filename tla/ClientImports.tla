---------------------------- MODULE ClientImports ----------------------------
(***************************************************************************)
(* Business clients' accounts while requests overlap: the import of past   *)
(* invoices (app/services/b2b_sales_import_service.py), the revert of a    *)
(* batch (delete_b2b_import_batch in import_data.py), payments and client  *)
(* refunds (app/routers/b2b.py).                                           *)
(*                                                                         *)
(* Each request reads the client and the invoices it needs, and writes     *)
(* absolute values back when it commits.  Module B2B has the handlers one  *)
(* at a time; here it is their overlap that counts.  Products, stock and   *)
(* prices are left out: a group may fail for any reason.                   *)
(***************************************************************************)
EXTENDS Integers, FiniteSets, FiniteSetsExt, Sequences, Functions

CONSTANTS
    Desk,           \* requests that may be in flight, numbered
    Buyer,          \* clients' names; a name is one client
    Workbook,       \* sequences of groups [buyer, date, type], as parsed
    Total,          \* the total of an imported invoice
    Instalment,     \* amounts a payment or a refund may have
    MaxBill,        \* bound: invoices imported
    MaxBook,        \* bound: files imported
    MaxCredit       \* bound: client refunds

PaymentType == {"cash", "full_payment", "consignment"}

ASSUME ClientImportsConstants ==
    /\ Desk \subseteq Nat
    /\ Workbook \subseteq Seq([buyer : Buyer, date : Int, type : PaymentType])
    /\ Total \in Nat \ {0} /\ Instalment \subseteq Nat \ {0}
    /\ MaxBill \in Nat /\ MaxBook \in Nat /\ MaxCredit \in Nat

VARIABLES
    buyer,          \* b2b_clients that exist
    owed,           \* b2b_clients.outstanding
    bill,           \* live imported b2b_invoices by id
    lastBill,
    credit,         \* b2b_refunds, in sum, by client
    lastCredit,     \* the highest refund number
    desk,           \* requests in flight
    books,          \* files imported so far
    received,       \* history: payment journals by invoice, in sum
    spared,         \* history: what outstanding was not lowered by, being zero, by client
    raced           \* history: clients some commit overwrote from an old reading

clientsVars == <<buyer, owed, bill, lastBill, credit, lastCredit, desk, books, received, spared,
                 raced>>

Vacant == [kind |-> "vacant"]
Active == {w \in Desk : desk[w] # Vacant}
Seat(w) == desk[w] = Vacant /\ \A v \in Desk \ Active : w <= v
Leave(w) == desk' = [desk EXCEPT ![w] = Vacant]

Unpaid(d) == IF d.type = "cash" THEN 0 ELSE d.total - d.paid
Floor(n) == IF n < 0 THEN 0 ELSE n

ClientsInit ==
    /\ buyer = {}
    /\ owed = [c \in Buyer |-> 0]
    /\ bill = [i \in {} |-> 0]
    /\ lastBill = 0
    /\ credit = [c \in Buyer |-> 0]
    /\ lastCredit = 0
    /\ desk = [w \in Desk |-> Vacant]
    /\ books = 0
    /\ received = [i \in 1..MaxBill |-> 0]
    /\ spared = [c \in Buyer |-> 0]
    /\ raced = {}

\* Clients whose row a commit writes though it changed since it was read.
Outrun(c, reading) == IF owed[c] # reading THEN {c} ELSE {}
-----------------------------------------------------------------------------
\* One import at a time and none forced; module Imports has both.
StartBook(w, f) ==
    /\ Seat(w) /\ books < MaxBook
    /\ \A v \in Active : desk[v].kind \notin {"import", "group"}
    /\ books' = books + 1
    /\ desk' = [desk EXCEPT ![w] = [kind |-> "import", book |-> books + 1, file |-> f, at |-> 1]]
    /\ UNCHANGED <<buyer, owed, bill, lastBill, credit, lastCredit, received, spared, raced>>

Same(g) == {i \in DOMAIN bill : /\ bill[i].buyer = g.buyer
                                /\ bill[i].date = g.date
                                /\ bill[i].type = g.type}

\* The client is read, or inserted, for each group anew.  A group with an invoice
\* already is skipped.
ReadGroup(w) ==
    LET j == desk[w]
        g == j.file[j.at]
    IN
    /\ j.kind = "import" /\ j.at <= Len(j.file)
    /\ desk' = [desk EXCEPT ![w] =
         IF Same(g) # {} THEN [j EXCEPT !.at = @ + 1]
         ELSE [kind |-> "group", book |-> j.book, file |-> j.file, at |-> j.at,
               owed |-> owed[g.buyer]]]
    /\ UNCHANGED <<buyer, owed, bill, lastBill, credit, lastCredit, books, received, spared, raced>>

GroupDone(j) == [kind |-> "import", book |-> j.book, file |-> j.file, at |-> j.at + 1]

\* A cash invoice is paid and moves nothing on the client's account.
CommitBill(w) ==
    LET j == desk[w]
        g == j.file[j.at]
        d == [buyer |-> g.buyer, date |-> g.date, type |-> g.type, book |-> j.book,
              total |-> Total, paid |-> IF g.type = "cash" THEN Total ELSE 0]
    IN
    /\ j.kind = "group" /\ lastBill < MaxBill
    /\ buyer' = buyer \cup {g.buyer}
    /\ lastBill' = lastBill + 1
    /\ bill' = [i \in DOMAIN bill \cup {lastBill + 1} |-> IF i = lastBill + 1 THEN d ELSE bill[i]]
    /\ received' = [received EXCEPT ![lastBill + 1] = d.paid]
    /\ IF g.type = "cash"
       THEN UNCHANGED <<owed, raced>>
       ELSE /\ owed' = [owed EXCEPT ![g.buyer] = j.owed + Total]
            /\ raced' = raced \cup Outrun(g.buyer, j.owed)
    /\ desk' = [desk EXCEPT ![w] = GroupDone(j)]
    /\ UNCHANGED <<credit, lastCredit, books, spared>>

\* Rolled back and reported; the import goes on.
FailBill(w) ==
    /\ desk[w].kind = "group"
    /\ desk' = [desk EXCEPT ![w] = GroupDone(desk[w])]
    /\ UNCHANGED <<buyer, owed, bill, lastBill, credit, lastCredit, books, received, spared, raced>>

EndBook(w) ==
    /\ desk[w].kind = "import" /\ desk[w].at > Len(desk[w].file)
    /\ Leave(w)
    /\ UNCHANGED <<buyer, owed, bill, lastBill, credit, lastCredit, books, received, spared, raced>>
-----------------------------------------------------------------------------
\* record_payment and collect_b2b_payment: within the balance that was read.
ReadBill(w, i, n) ==
    LET d == bill[i] IN
    /\ Seat(w)
    /\ n <= d.total - d.paid
    /\ desk' = [desk EXCEPT ![w] = [kind |-> "pay", bill |-> i, amount |-> n, buyer |-> d.buyer,
                                    paid |-> d.paid, owed |-> owed[d.buyer]]]
    /\ UNCHANGED <<buyer, owed, bill, lastBill, credit, lastCredit, books, received, spared, raced>>

\* Absolute values from the readings; the journal is of the whole amount.
\* Mutant: the database adds the amount to what it has.
PaidAdded(j) == bill[j.bill].paid + j.amount
PaidNow(j) == j.paid + j.amount
CommitPayment(w) ==
    LET j == desk[w] IN
    /\ j.kind = "pay" /\ j.bill \in DOMAIN bill
    /\ bill' = [bill EXCEPT ![j.bill].paid = PaidNow(j)]
    /\ owed' = [owed EXCEPT ![j.buyer] = Floor(j.owed - j.amount)]
    /\ spared' = [spared EXCEPT ![j.buyer] = @ + Floor(j.amount - j.owed)]
    /\ received' = [received EXCEPT ![j.bill] = @ + j.amount]
    /\ raced' = raced \cup Outrun(j.buyer, j.owed)
                      \cup (IF bill[j.bill].paid # j.paid THEN {j.buyer} ELSE {})
    /\ Leave(w)
    /\ UNCHANGED <<buyer, lastBill, credit, lastCredit, books>>

\* create_client_refund reads the client before it takes its number.
ReadBuyer(w, c, n) ==
    /\ Seat(w)
    /\ c \in buyer /\ n <= owed[c]
    /\ desk' = [desk EXCEPT ![w] = [kind |-> "client", buyer |-> c, amount |-> n, owed |-> owed[c]]]
    /\ UNCHANGED <<buyer, owed, bill, lastBill, credit, lastCredit, books, received, spared, raced>>

TakeNumber(w) ==
    LET j == desk[w] IN
    /\ j.kind = "client" /\ lastCredit < MaxCredit
    /\ desk' = [desk EXCEPT ![w] = [kind |-> "refund", buyer |-> j.buyer, amount |-> j.amount,
                                    owed |-> j.owed, number |-> lastCredit + 1]]
    /\ UNCHANGED <<buyer, owed, bill, lastBill, credit, lastCredit, books, received, spared, raced>>

\* The number is unique: of two refunds with one number, one fails.
\* Mutant: the refund is written, the client's account is not.
CreditUnwritten(j) == owed[j.buyer]
Credited(j) == Floor(j.owed - j.amount)
CommitCredit(w) ==
    LET j == desk[w] IN
    /\ j.kind = "refund" /\ j.number > lastCredit
    /\ credit' = [credit EXCEPT ![j.buyer] = @ + j.amount]
    /\ lastCredit' = j.number
    /\ owed' = [owed EXCEPT ![j.buyer] = Credited(j)]
    /\ raced' = raced \cup Outrun(j.buyer, j.owed)
    /\ Leave(w)
    /\ UNCHANGED <<buyer, bill, lastBill, books, received, spared>>

\* The revert of a batch takes the unpaid part of its invoices off their clients.
\* What was paid on them stays in the journals.
\* Mutant: their whole totals.
GivenUpWhole(rows, c) ==
    SumFunction([i \in {x \in DOMAIN rows : rows[x].buyer = c /\ rows[x].type # "cash"} |->
                   rows[i].total])
GivenUp(rows, c) ==
    SumFunction([i \in {x \in DOMAIN rows : rows[x].buyer = c} |-> Unpaid(rows[i])])
Concerned(rows) == {c \in Buyer : \E i \in DOMAIN rows : rows[i].buyer = c /\ rows[i].type # "cash"}

ReadBatch(w, b) ==
    LET rows == Restrict(bill, {i \in DOMAIN bill : bill[i].book = b}) IN
    /\ Seat(w)
    /\ DOMAIN rows # {}
    /\ desk' = [desk EXCEPT ![w] = [kind |-> "revert", rows |-> rows, owed |-> owed]]
    /\ UNCHANGED <<buyer, owed, bill, lastBill, credit, lastCredit, books, received, spared, raced>>

CommitRevert(w) ==
    LET j == desk[w] IN
    /\ j.kind = "revert"
    /\ bill' = Restrict(bill, DOMAIN bill \ DOMAIN j.rows)
    /\ owed' = [c \in Buyer |-> IF c \in Concerned(j.rows)
                                THEN Floor(j.owed[c] - GivenUp(j.rows, c)) ELSE owed[c]]
    /\ spared' = [c \in Buyer |-> spared[c] + (IF c \in Concerned(j.rows)
                                THEN Floor(GivenUp(j.rows, c) - j.owed[c]) ELSE 0)]
    /\ raced' = raced
         \cup (UNION {Outrun(c, j.owed[c]) : c \in Concerned(j.rows)})
         \cup {j.rows[i].buyer : i \in {k \in DOMAIN j.rows :
                                            k \notin DOMAIN bill \/ bill[k] # j.rows[k]}}
    /\ Leave(w)
    /\ UNCHANGED <<buyer, lastBill, credit, lastCredit, books, received>>

\* A refusal, a row that is gone, a number that is taken, the end of the process.
GiveUp(w) ==
    /\ w \in Active
    /\ Leave(w)
    /\ UNCHANGED <<buyer, owed, bill, lastBill, credit, lastCredit, books, received, spared, raced>>

ClientsNext ==
    \E w \in Desk :
        \/ \E f \in Workbook : StartBook(w, f)
        \/ ReadGroup(w)
        \/ CommitBill(w)
        \/ FailBill(w)
        \/ EndBook(w)
        \/ \E i \in DOMAIN bill, n \in Instalment : ReadBill(w, i, n)
        \/ CommitPayment(w)
        \/ \E c \in Buyer, n \in Instalment : ReadBuyer(w, c, n)
        \/ TakeNumber(w)
        \/ CommitCredit(w)
        \/ \E b \in 1..MaxBook : ReadBatch(w, b)
        \/ CommitRevert(w)
        \/ GiveUp(w)

ClientsSpec == ClientsInit /\ [][ClientsNext]_clientsVars
-----------------------------------------------------------------------------
\* Clients, invoices and refunds are typed, and every invoice has a client and a file.
ClientsTypeOK ==
    /\ buyer \subseteq Buyer
    /\ owed \in [Buyer -> Nat] /\ credit \in [Buyer -> Nat]
    /\ DOMAIN bill \subseteq 1..lastBill /\ lastBill \in 0..MaxBill
    /\ \A i \in DOMAIN bill : bill[i].buyer \in buyer /\ bill[i].book \in 1..books
    /\ lastCredit \in 0..MaxCredit /\ books \in 0..MaxBook

\* b2b.py:676-692: however payments of one invoice overlap with each other and with
\* a revert, the invoice never shows more paid than was received, nor more than
\* its total; what is lost of two payments is lost by the invoice, not the books.
PaidWasReceived ==
    \A i \in DOMAIN bill : /\ bill[i].paid <= bill[i].total
                           /\ bill[i].paid <= received[i]

\* b2b.py:684, 926, b2b_sales_import_service.py:800, import_data.py:690-703: a
\* client's outstanding is what the live invoices leave unpaid less the refunds,
\* but for what was not taken off because it was zero, through imports, payments,
\* refunds and reverts in any order; only a request that overlapped with another
\* on the same client breaks it.
OwedIsUnpaid ==
    \A c \in Buyer \ raced : owed[c] = GivenUp(bill, c) - credit[c] + spared[c]
=============================================================================
