--------------------------------- MODULE B2B ---------------------------------
(***************************************************************************)
(* Business clients: their invoices and consignments, payments, returns    *)
(* and refunds (app/routers/b2b.py), and the collections the accounting    *)
(* page takes from them (app/routers/accounting.py).                       *)
(*                                                                         *)
(* What a client owes is kept four times over: in the client's outstanding *)
(* column, in the unpaid part of the invoices, in the receivable account   *)
(* and, for a consignment, in the quantities not yet settled.  Every       *)
(* handler updates some of the four.  What is at stake is their order on   *)
(* one client, so each handler is one step.                                *)
(***************************************************************************)
EXTENDS Integers, FiniteSets, FiniteSetsExt, Functions

CONSTANTS
    Product,
    Client,
    Body,           \* the lines of invoices and refunds, priced as given
    Payment,        \* amounts a request may pay or write off
    OpeningStock,
    Price,          \* unit price of a product
    Net(_),         \* what a body costs after the client's discount
    MaxInvoice,     \* bound: invoices ever created
    MaxRefund,      \* bound: refunds ever created
    MaxEdit,        \* bound: edits of invoices
    MaxWaived       \* bound: account refunds, in sum

Basket == [Product -> Nat]
Terms == {"cash", "full_payment", "consignment"}

ASSUME B2BConstants ==
    /\ IsFiniteSet(Client)
    /\ OpeningStock \in Basket
    /\ Price \in [Product -> Nat]
    /\ Payment \subseteq Nat \ {0}
    /\ Body \subseteq Basket
    /\ \A b \in Body : Net(b) \in Nat \ {0}
    /\ MaxInvoice \in Nat /\ MaxRefund \in Nat
    /\ MaxEdit \in Nat /\ MaxWaived \in Nat

VARIABLES
    stock,          \* products.stock
    invoice,        \* live b2b_invoices by id, each with its consignment
    refund,         \* live b2b_refunds by id
    lastInvoice,    \* last id each sequence handed out
    lastRefund,
    outstanding,    \* b2b_clients.outstanding
    cash,           \* balance of 1000; every journal here moves 4000 by the opposite
    receivable,     \* balance of 1100; every journal here moves 2200 by the opposite
    collected,      \* journals of payments received, in sum
    edits,          \* edits so far, for the bound
    settled,        \* history: revenue of settlements, in sum
    waived,         \* history: account refunds, in sum
    forgotten,      \* history: payments on invoices that were then edited or deleted
    undone,         \* history: deleted refunds, in sum per client
    doubled         \* history: products of edited or deleted consignments with returns

accounts == <<outstanding, cash, receivable, collected>>
history == <<settled, waived, forgotten, undone, doubled>>
vars == <<stock, invoice, refund, lastInvoice, lastRefund, accounts, edits, history>>

Empty == [p \in Product |-> 0]
Plus(a, b) == [p \in Product |-> a[p] + b[p]]
Minus(a, b) == [p \in Product |-> a[p] - b[p]]
Lines(b) == {p \in Product : b[p] > 0}
Balance(d) == d.total - d.paid

\* An invoice and, if it is one, its consignment: what was sold on and returned.
Invoice == [client : Client, type : Terms, qty : Basket, total : Nat, paid : Nat,
            status : {"unpaid", "partial", "paid"},
            sold : Basket, returned : Basket, closed : BOOLEAN]
Refund == [client : Client, qty : Basket, total : Nat]

Init ==
    /\ stock = OpeningStock
    /\ invoice = [i \in {} |-> 0]
    /\ refund = [i \in {} |-> 0]
    /\ lastInvoice = 0
    /\ lastRefund = 0
    /\ outstanding = [c \in Client |-> 0]
    /\ cash = 0
    /\ receivable = 0
    /\ collected = 0
    /\ edits = 0
    /\ settled = 0
    /\ waived = 0
    /\ forgotten = 0
    /\ undone = [c \in Client |-> 0]
    /\ doubled = {}
-----------------------------------------------------------------------------
Owing(o, c, n) == [o EXCEPT ![c] = @ + n]

\* outstanding never goes below zero, whatever is taken off.
\* Mutant: it does.
LessUnclipped(o, c, n) == [o EXCEPT ![c] = @ - n]
Less(o, c, n) == [o EXCEPT ![c] = IF @ > n THEN @ - n ELSE 0]

Store(i, d) == invoice' = [x \in DOMAIN invoice \cup {i} |-> IF x = i THEN d ELSE invoice[x]]

\* A new invoice on the client's terms, which can be changed at any time.
Fresh(c, type, b) ==
    [client |-> c, type |-> type, qty |-> b, total |-> Net(b),
     paid |-> IF type = "cash" THEN Net(b) ELSE 0,
     status |-> IF type = "cash" THEN "paid" ELSE "unpaid",
     sold |-> Empty, returned |-> Empty, closed |-> FALSE]

CreateInvoice(c, type, b) ==
    LET d == Fresh(c, type, b) IN
    /\ lastInvoice < MaxInvoice
    /\ \A p \in Lines(b) : b[p] <= stock[p]
    /\ lastInvoice' = lastInvoice + 1
    /\ Store(lastInvoice + 1, d)
    /\ stock' = Minus(stock, b)
    /\ cash' = cash + d.paid
    /\ receivable' = receivable + Balance(d)
    /\ outstanding' = Owing(outstanding, c, Balance(d))
    /\ UNCHANGED <<refund, lastRefund, collected, edits, history>>

\* What is left of the accounts once an invoice has been reversed: the journal
\* of its TOTAL, but only the unpaid part of what the client owes.
\* Mutant: the client is let alone.
OutstandingLeft(d) == outstanding
OutstandingWithout(d) ==
    IF d.type = "cash" THEN outstanding ELSE Less(outstanding, d.client, Balance(d))
CashWithout(d) == IF d.type = "cash" THEN cash - d.total ELSE cash
\* Mutant: only the unpaid part of the journal is reversed.
ReceivableWithoutUnpaid(d) == IF d.type = "cash" THEN receivable ELSE receivable - Balance(d)
ReceivableWithout(d) == IF d.type = "cash" THEN receivable ELSE receivable - d.total

Reversed(d) ==
    /\ forgotten' = forgotten + (IF d.type = "cash" THEN 0 ELSE d.paid)
    /\ doubled' = doubled \cup Lines(d.returned)
    /\ UNCHANGED <<settled, waived, undone>>

\* edit_invoice takes the whole invoice back and writes it again, unpaid.  A cash
\* invoice and a consignment with sales are refused; one with returns is not.
EditInvoice(i, c, type, b) ==
    LET old == invoice[i]
        new == Fresh(c, type, b)
        home == Plus(stock, old.qty)
    IN
    /\ edits < MaxEdit
    /\ ~(old.type = "cash" /\ old.status = "paid" /\ old.paid > 0)
    /\ old.type = "consignment" => old.sold = Empty
    /\ \A p \in Lines(b) : b[p] <= home[p]
    /\ Store(i, new)
    /\ stock' = Minus(home, b)
    /\ cash' = CashWithout(old) + new.paid
    /\ receivable' = ReceivableWithout(old) + Balance(new)
    /\ outstanding' = Owing(OutstandingWithout(old), c, Balance(new))
    /\ edits' = edits + 1
    /\ Reversed(old)
    /\ UNCHANGED <<refund, lastInvoice, lastRefund, collected>>

DeleteInvoice(i) ==
    LET d == invoice[i] IN
    /\ invoice' = [x \in DOMAIN invoice \ {i} |-> invoice[x]]
    /\ stock' = Plus(stock, d.qty)
    /\ cash' = CashWithout(d)
    /\ receivable' = ReceivableWithout(d)
    /\ outstanding' = OutstandingWithout(d)
    /\ Reversed(d)
    /\ UNCHANGED <<refund, lastInvoice, lastRefund, collected, edits>>
-----------------------------------------------------------------------------
\* Money received: cash against receivable, and deferred against sales revenue.
Receive(c, n) ==
    /\ cash' = cash + n
    /\ receivable' = receivable - n
    /\ outstanding' = Less(outstanding, c, n)

\* record_payment: an amount within the invoice's balance, whatever its type.
RecordPayment(i, n) ==
    LET d == invoice[i] IN
    /\ n <= Balance(d)
    /\ Store(i, [d EXCEPT !.paid = @ + n,
                          !.status = IF d.paid + n >= d.total THEN "paid" ELSE "partial"])
    /\ Receive(d.client, n)
    /\ collected' = collected + n
    /\ UNCHANGED <<stock, refund, lastInvoice, lastRefund, edits, history>>

\* collect_b2b_payment, on the accounting page: the same, not for a consignment.
CollectPayment(i, n) ==
    /\ invoice[i].type \in {"cash", "full_payment"}
    /\ RecordPayment(i, n)

\* consignment_payment: a lump; a part payment leaves the status alone.
ConsignmentPayment(i, n) ==
    LET d == invoice[i] IN
    /\ d.type = "consignment"
    /\ n <= Balance(d)
    /\ Store(i, [d EXCEPT !.paid = @ + n,
                          !.status = IF d.paid + n >= d.total THEN "paid" ELSE @])
    /\ Receive(d.client, n)
    /\ collected' = collected + n
    /\ UNCHANGED <<stock, refund, lastInvoice, lastRefund, edits, history>>

OpenConsignments(c) ==
    {i \in DOMAIN invoice : /\ invoice[i].client = c
                            /\ invoice[i].type = "consignment"
                            /\ Balance(invoice[i]) > 0}
SumBalance(S) == SumFunction([i \in S |-> Balance(invoice[i])])
Smaller(m, n) == IF m < n THEN m ELSE n

\* The oldest open consignment takes what it can of a payment, then the next.
\* Mutant: every one takes from the whole payment.
AppliedWhole(c, n, i) == Smaller(Balance(invoice[i]), n)
Applied(c, n, i) ==
    LET older == SumBalance({j \in OpenConsignments(c) : j < i}) IN
    IF n > older THEN Smaller(Balance(invoice[i]), n - older) ELSE 0

\* _record_consignment_client_payment, on the accounting page: within what the
\* client owes and within the client's open consignments.
ClientPayment(c, n) ==
    /\ OpenConsignments(c) # {}
    /\ n <= outstanding[c]
    /\ n <= SumBalance(OpenConsignments(c))
    /\ invoice' = [i \in DOMAIN invoice |->
                     IF i \in OpenConsignments(c) /\ Applied(c, n, i) > 0
                     THEN [invoice[i] EXCEPT
                             !.paid = @ + Applied(c, n, i),
                             !.status = IF Applied(c, n, i) = Balance(invoice[i])
                                        THEN "paid" ELSE "partial"]
                     ELSE invoice[i]]
    /\ Receive(c, n)
    /\ collected' = collected + n
    /\ UNCHANGED <<stock, refund, lastInvoice, lastRefund, edits, history>>

\* settle_consignment of invoice i with an entry for product p of consignment k:
\* an entry is looked up by its id alone, so k may be another consignment.  The
\* revenue is at the full price, and the invoice itself is left alone.
\* Mutant: what was sold goes back to stock too.
GoodsBackAll(p, s, r) == [Empty EXCEPT ![p] = s + r]
GoodsBack(p, s, r) == [Empty EXCEPT ![p] = r]
SettleConsignment(i, k, p, s, r) ==
    LET entry == [invoice[k] EXCEPT !.sold[p] = @ + s, !.returned[p] = @ + r]
        cons == IF k = i THEN entry ELSE invoice[i]
        done == \A q \in Product : cons.sold[q] + cons.returned[q] >= cons.qty[q]
        revenue == s * Price[p]
    IN
    /\ invoice[i].type = "consignment" /\ ~invoice[i].closed
    /\ invoice[k].type = "consignment"
    /\ s + r <= invoice[k].qty[p] - invoice[k].sold[p] - invoice[k].returned[p]
    /\ invoice' = [invoice EXCEPT ![k] = entry,
                                  ![i] = [cons EXCEPT !.closed = done]]
    /\ stock' = Plus(stock, GoodsBack(p, s, r))
    /\ Receive(invoice[i].client, revenue)
    /\ settled' = settled + revenue
    /\ UNCHANGED <<refund, lastInvoice, lastRefund, collected, edits, waived, forgotten, undone, doubled>>
-----------------------------------------------------------------------------
\* create_client_refund takes goods back on account, up to what the client owes;
\* no invoice is named and none changes.
CreateRefund(c, b) ==
    /\ lastRefund < MaxRefund
    /\ Net(b) <= outstanding[c]
    /\ lastRefund' = lastRefund + 1
    /\ refund' = [x \in DOMAIN refund \cup {lastRefund + 1} |->
                    IF x = lastRefund + 1 THEN [client |-> c, qty |-> b, total |-> Net(b)]
                                          ELSE refund[x]]
    /\ stock' = Plus(stock, b)
    /\ receivable' = receivable - Net(b)
    /\ outstanding' = Less(outstanding, c, Net(b))
    /\ UNCHANGED <<invoice, lastInvoice, cash, collected, edits, history>>

\* delete_refund takes the goods off stock again, if they are still there.
\* Mutant: whether or not they are.
DeleteRefundUnchecked(x) ==
    LET d == refund[x] IN
    /\ refund' = [y \in DOMAIN refund \ {x} |-> refund[y]]
    /\ stock' = Minus(stock, d.qty)
    /\ receivable' = receivable + d.total
    /\ outstanding' = Owing(outstanding, d.client, d.total)
    /\ undone' = Owing(undone, d.client, d.total)
    /\ UNCHANGED <<invoice, lastInvoice, lastRefund, collected, cash, edits,
                   settled, waived, forgotten, doubled>>
\* Mutant: the client's account is not put back.
DeleteRefundForgiven(x) ==
    LET d == refund[x] IN
    /\ \A p \in Lines(d.qty) : d.qty[p] <= stock[p]
    /\ refund' = [y \in DOMAIN refund \ {x} |-> refund[y]]
    /\ stock' = Minus(stock, d.qty)
    /\ receivable' = receivable + d.total
    /\ undone' = Owing(undone, d.client, d.total)
    /\ UNCHANGED <<invoice, lastInvoice, lastRefund, collected, outstanding, cash, edits,
                   settled, waived, forgotten, doubled>>
DeleteRefund(x) ==
    LET d == refund[x] IN
    /\ \A p \in Lines(d.qty) : d.qty[p] <= stock[p]
    /\ refund' = [y \in DOMAIN refund \ {x} |-> refund[y]]
    /\ stock' = Minus(stock, d.qty)
    /\ receivable' = receivable + d.total
    /\ outstanding' = Owing(outstanding, d.client, d.total)
    /\ undone' = Owing(undone, d.client, d.total)
    /\ UNCHANGED <<invoice, lastInvoice, lastRefund, collected, cash, edits,
                   settled, waived, forgotten, doubled>>

\* refund_b2b_client_account: an amount off what the client owes, without goods.
RefundAccount(c, n) ==
    /\ waived + n <= MaxWaived
    /\ n <= outstanding[c]
    /\ receivable' = receivable - n
    /\ outstanding' = Less(outstanding, c, n)
    /\ waived' = waived + n
    /\ UNCHANGED <<stock, invoice, refund, lastInvoice, lastRefund, collected, cash, edits,
                   settled, forgotten, undone, doubled>>
-----------------------------------------------------------------------------
Invoicing ==
    \/ \E c \in Client, type \in Terms, b \in Body :
          \/ CreateInvoice(c, type, b)
          \/ \E i \in DOMAIN invoice : EditInvoice(i, c, type, b)
    \/ \E i \in DOMAIN invoice : DeleteInvoice(i)

Paying ==
    \E n \in Payment :
        \/ \E i \in DOMAIN invoice : \/ RecordPayment(i, n)
                                     \/ CollectPayment(i, n)
                                     \/ ConsignmentPayment(i, n)
        \/ \E c \in Client : ClientPayment(c, n) \/ RefundAccount(c, n)

Settling ==
    \E i, k \in DOMAIN invoice, p \in Product :
        \E s, r \in 0..invoice[k].qty[p] : SettleConsignment(i, k, p, s, r)

Refunding ==
    \/ \E c \in Client, b \in Body : CreateRefund(c, b)
    \/ \E x \in DOMAIN refund : DeleteRefund(x)

Next == Invoicing \/ Paying \/ Settling \/ Refunding

Spec == Init /\ [][Next]_vars
-----------------------------------------------------------------------------
Open(c) == SumBalance({i \in DOMAIN invoice : /\ invoice[i].client = c
                                              /\ invoice[i].status # "paid"})

\* Every variable has its type; what a client owes is never negative.
TypeOK ==
    /\ stock \in [Product -> Int]
    /\ DOMAIN invoice \subseteq 1..lastInvoice
    /\ \A i \in DOMAIN invoice : invoice[i] \in Invoice
    /\ DOMAIN refund \subseteq 1..lastRefund
    /\ \A x \in DOMAIN refund : refund[x] \in Refund
    /\ lastInvoice \in 0..MaxInvoice /\ lastRefund \in 0..MaxRefund
    /\ outstanding \in [Client -> Nat] /\ undone \in [Client -> Nat]
    /\ cash \in Int /\ receivable \in Int /\ collected \in Nat
    /\ edits \in 0..MaxEdit
    /\ settled \in Nat /\ waived \in Nat /\ forgotten \in Nat
    /\ doubled \subseteq Product

\* Goods that have left: those of live invoices that did not come back by a
\* settlement, less those of live refunds.
Away(p) ==
    SumFunction([i \in DOMAIN invoice |-> invoice[i].qty[p] - invoice[i].returned[p]])
    - SumFunction([x \in DOMAIN refund |-> refund[x].qty[p]])

\* b2b.py, all handlers: goods are in stock or away with a client: an edited
\* invoice counts once, as it is now, a deleted one not at all.  Except for
\* consignments edited or deleted after a return.
GoodsBalance == \A p \in Product \ doubled : stock[p] = OpeningStock[p] - Away(p)

\* b2b.py:656, a deleted invoice has its "stock and journal reversed": the same
\* without exception.
GoodsReturnOnce == \A p \in Product : stock[p] = OpeningStock[p] - Away(p)

\* b2b.py: neither a sale to a client nor the deletion of a refund takes goods
\* that are not there.
GoodsOnHand == \A p \in Product : stock[p] >= 0

\* b2b.py, accounting.py: the ledger can be told from the documents, through any
\* order of edits, payments, settlements and refunds.  Cash is what the live
\* invoices say was paid, what settlements brought, and what was paid on invoices
\* since edited or deleted; receivables are the unpaid parts less refunds, less
\* those settlements and less those forgotten payments once more.
LedgerExplained ==
    /\ cash = SumFunction([i \in DOMAIN invoice |-> invoice[i].paid]) + settled + forgotten
    /\ receivable = SumBalance(DOMAIN invoice)
                    - SumFunction([x \in DOMAIN refund |-> refund[x].total])
                    - waived - settled - forgotten

\* b2b.py, accounting.py: a client's outstanding column never exceeds what the
\* client's unpaid invoices add up to, as the client list shows it, except by
\* refunds deleted after the invoices they were set against had been paid.
OwedIsOpen == \A c \in Client : outstanding[c] <= Open(c) + undone[c]

\* b2b.py, accounting.py: where the columns and the ledger part, outstanding is
\* never lowered by more than receivables are: no request drops a claim on a
\* client that the ledger keeps.
ClaimsKept ==
    [][SumFunction([c \in Client |-> outstanding'[c] - outstanding[c]])
         >= receivable' - receivable]_vars
=============================================================================
