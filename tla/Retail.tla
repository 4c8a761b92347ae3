------------------------------- MODULE Retail -------------------------------
(***************************************************************************)
(* The retail counter: POS checkout (app/services/pos_service.py), the     *)
(* collection of an unpaid invoice (app/routers/pos.py) and the retail     *)
(* refund (app/routers/refunds.py), served by concurrent requests.         *)
(*                                                                         *)
(* Every request is one database transaction at READ COMMITTED.  The code  *)
(* takes no explicit lock: it reads rows into the session, computes on     *)
(* those copies, and writes ABSOLUTE values back.  What does serialise     *)
(* requests is PostgreSQL itself: the row locks an UPDATE takes when the   *)
(* session flushes, and the unique index on retail_refunds.refund_number.  *)
(* A request is therefore a sequence of steps: its reads, its flush (where *)
(* it takes its locks), the two account reads of its journal, its commit.  *)
(***************************************************************************)
EXTENDS Integers, FiniteSets

CONSTANTS
    Product,        \* rows of products
    Request,        \* requests that can be in progress at the same time
    MaxInvoice,     \* bound: invoice ids handed out
    MaxRefund,      \* bound: refund ids handed out
    OpeningStock,   \* products.stock before the first request
    Cart,           \* checkout bodies: [qty, discount, later]
    RefundBody,     \* refund bodies: [largest, qty, cash], see DistinctRows
    Amount(_)       \* the money value of a basket at its invoice's prices

Basket == [Product -> Nat]
InvoiceId == 1..MaxInvoice
Account == {"1000", "1100", "4000"}   \* cash, receivable, sales

ASSUME ConstantsOK ==
    /\ MaxInvoice \in Nat
    /\ MaxRefund \in Nat
    /\ OpeningStock \in [Product -> Nat]
    /\ \A c \in Cart : /\ c.qty \in Basket
                       /\ c.discount \in Nat
                       /\ c.later \in BOOLEAN
                       /\ Amount(c.qty) - c.discount \in Nat
    /\ \A b \in RefundBody : /\ b.qty \in Basket
                             /\ b.largest \in Basket
                             /\ \A p \in Product : b.largest[p] <= b.qty[p]
                             /\ b.cash \in BOOLEAN
                             /\ Amount(b.qty) \in Nat

\* The screen sends at most one row per product.  The endpoint accepts any list
\* of rows: qty is what the rows of a product add up to, largest the largest
\* of them, and one row per product makes the two equal.
DistinctRows == \A b \in RefundBody : b.largest = b.qty

VARIABLES
    stock,          \* products.stock
    mainStock,      \* location_stocks.qty of the default location
    moved,          \* SUM(stock_moves.qty) per product
    invoice,        \* invoices and invoice_items
    refunded,       \* SUM(retail_refund_items.qty) per invoice and product
    refundNumbers,  \* retail_refunds.refund_number, committed
    lastRefund,     \* MAX(retail_refunds.id), committed
    invoiceSeq,     \* last id the invoices sequence handed out
    refundSeq,      \* last id the retail_refunds sequence handed out
    balance,        \* accounts.balance
    posted,         \* SUM(debit - credit) of journal_entries per account
    tx,             \* the session of each request
    mixed           \* history: a request other than a refund has overlapped

tables == <<stock, mainStock, moved, invoice, refunded, refundNumbers,
            lastRefund, balance, posted>>
vars == <<tables, invoiceSeq, refundSeq, tx, mixed>>

Empty == [p \in Product |-> 0]
NoInvoice == [status |-> "none", sold |-> Empty, total |-> 0, payments |-> 0]

\* A session holding nothing: no transaction is open.
Idle == [pc |-> "idle", kind |-> "none", inv |-> 0, qty |-> Empty,
         largest |-> Empty, amount |-> 0, debit |-> "1000", credit |-> "4000",
         num |-> 0, id |-> 0, seenRefunded |-> Empty, seenStock |-> Empty,
         seenDebit |-> 0, seenCredit |-> 0]

Init ==
    /\ stock = OpeningStock
    /\ mainStock = OpeningStock
    /\ moved = Empty
    /\ invoice = [i \in InvoiceId |-> NoInvoice]
    /\ refunded = [i \in InvoiceId |-> Empty]
    /\ refundNumbers = {}
    /\ lastRefund = 0
    /\ invoiceSeq = 0
    /\ refundSeq = 0
    /\ balance = [a \in Account |-> 0]
    /\ posted = [a \in Account |-> 0]
    /\ tx = [r \in Request |-> Idle]
    /\ mixed = FALSE
-----------------------------------------------------------------------------
InFlight == {r \in Request : tx[r].pc # "idle"}
OfKind(k) == {r \in InFlight : tx[r].kind = k}
\* Those that have still to take an id from their sequence (for the bounds).
YetToInsert(k) == {r \in OfKind(k) : tx[r].pc \in {"numbered", "checked"}}

Lines(qty) == {p \in Product : qty[p] > 0}

\* Steps after the flush that wrote the rows the request updates.
Writing == {"flushed", "debited", "credited"}
\* Steps of a refund after its INSERT put its number in the unique index.
Inserted == {"inserted", "counted"} \cup Writing

\* The row locks of the products and of the invoice a request has updated.
HoldsProduct(r, p) ==
    /\ tx[r].pc \in Writing
    /\ tx[r].kind \in {"sale", "refund"}
    /\ p \in Lines(tx[r].qty)
HoldsInvoice(r, i) ==
    /\ tx[r].pc \in Writing
    /\ tx[r].kind = "collect"
    /\ tx[r].inv = i
HoldsNumber(r, n) ==
    /\ tx[r].pc \in Inserted
    /\ tx[r].kind = "refund"
    /\ tx[r].num = n

Begin(r, t) ==
    /\ tx[r].pc = "idle"
    /\ tx' = [tx EXCEPT ![r] = t]
    /\ mixed' = (mixed \/ (IF t.kind = "refund"
                           THEN InFlight # OfKind("refund")
                           ELSE InFlight # {}))
    /\ UNCHANGED <<tables, invoiceSeq, refundSeq>>

Continue(r, t) ==
    /\ tx' = [tx EXCEPT ![r] = t]
    /\ UNCHANGED <<tables, mixed>>
-----------------------------------------------------------------------------
\* Every line of the cart against the stock as read.
\* Mutant: the test becomes "anything left".
InStockIfAny(c) == \A p \in Lines(c.qty) : stock[p] >= 0
InStock(c) == \A p \in Lines(c.qty) : c.qty[p] <= stock[p]

\* What create_invoice holds once it has read the products.
SaleSession(c) ==
    [Idle EXCEPT !.pc = "checked", !.kind = "sale", !.qty = c.qty,
                 !.amount = Amount(c.qty) - c.discount,
                 !.debit = IF c.later THEN "1100" ELSE "1000",
                 !.credit = "4000",
                 !.seenStock = stock]

\* create_invoice reads every product in one SELECT and checks each line
\* against the stock read; a rejected cart changes nothing.
SaleCheck(r) ==
    \E c \in Cart :
        /\ invoiceSeq + Cardinality(YetToInsert("sale")) < MaxInvoice
        /\ Lines(c.qty) # {}
        /\ InStock(c)
        /\ Begin(r, SaleSession(c))

\* It inserts the invoice, whose number is its own id, copies the stock it read
\* to the default location, subtracts the lines from both, and flushes: the
\* UPDATEs wait for the row locks, then write values computed from the old read.
SaleFlush(r) ==
    /\ tx[r].pc = "checked"
    /\ tx[r].kind = "sale"
    /\ invoiceSeq < MaxInvoice
    /\ \A p \in Lines(tx[r].qty), o \in Request : ~HoldsProduct(o, p)
    /\ invoiceSeq' = invoiceSeq + 1
    /\ Continue(r, [tx[r] EXCEPT !.pc = "flushed", !.inv = invoiceSeq + 1])
    /\ UNCHANGED refundSeq
-----------------------------------------------------------------------------
CollectSession(i) ==
    [Idle EXCEPT !.pc = "checked", !.kind = "collect", !.inv = i,
                 !.amount = invoice[i].total,
                 !.debit = "1000", !.credit = "1100"]

\* collect_payment refuses an invoice it reads as paid.
CollectCheck(r) ==
    \E i \in InvoiceId :
        /\ invoice[i].status = "unpaid"
        /\ Begin(r, CollectSession(i))

\* The flush of its journal also writes the invoice: it waits for the row lock
\* and does not read the status again.
CollectFlush(r) ==
    /\ tx[r].pc = "checked"
    /\ tx[r].kind = "collect"
    /\ \A o \in Request : ~HoldsInvoice(o, tx[r].inv)
    /\ Continue(r, [tx[r] EXCEPT !.pc = "flushed"])
    /\ UNCHANGED <<invoiceSeq, refundSeq>>
-----------------------------------------------------------------------------
\* _next_refund_number: one more than the largest committed id.
\* Mutant: numbered from the sequence, as POS invoices are.
RefundNumberFromSequence == refundSeq + 1
NextRefundNumber == lastRefund + 1

RefundSession(i, b) ==
    [Idle EXCEPT !.pc = "numbered", !.kind = "refund", !.inv = i,
                 !.qty = b.qty, !.largest = b.largest, !.amount = Amount(b.qty),
                 !.debit = "4000",
                 !.credit = IF b.cash THEN "1000" ELSE "1100",
                 !.num = NextRefundNumber]

\* create_refund reads the invoice, then the number...
RefundNumber(r) ==
    \E i \in InvoiceId, b \in RefundBody :
        /\ refundSeq + Cardinality(YetToInsert("refund")) < MaxRefund
        /\ invoice[i].status # "none"
        /\ Begin(r, RefundSession(i, b))

\* ...then what the invoice's products have had refunded, checking every row of
\* the body against the SAME reading.
\* Mutant: earlier refunds forgotten.
AvailableSold(i, p) == invoice[i].sold[p]
Available(i, p) ==
    IF invoice[i].sold[p] > refunded[i][p] THEN invoice[i].sold[p] - refunded[i][p]
                                           ELSE 0

Refundable(r) ==
    /\ Lines(tx[r].qty) # {}
    /\ \A p \in Lines(tx[r].qty) :
          /\ invoice[tx[r].inv].sold[p] > 0
          /\ tx[r].largest[p] <= Available(tx[r].inv, p)

RefundCheck(r) ==
    /\ tx[r].pc = "numbered"
    /\ Refundable(r)
    /\ Continue(r, [tx[r] EXCEPT !.pc = "checked",
                                 !.seenRefunded = refunded[tx[r].inv]])
    /\ UNCHANGED <<invoiceSeq, refundSeq>>

RefundReject(r) ==
    /\ tx[r].pc = "numbered"
    /\ ~Refundable(r)
    /\ Continue(r, Idle)
    /\ UNCHANGED <<invoiceSeq, refundSeq>>

\* The INSERT takes an id from the sequence and enters the number in the unique
\* index, waiting for a transaction that has entered the same number.
\* Mutant: the number is chosen here, after the quantities were read.
RefundInsertLateNumber(r) ==
    /\ tx[r].pc = "checked"
    /\ tx[r].kind = "refund"
    /\ \A o \in Request : ~HoldsNumber(o, NextRefundNumber)
    /\ refundSeq' = refundSeq + 1
    /\ Continue(r, [tx[r] EXCEPT !.pc = "inserted", !.id = refundSeq + 1,
                                 !.num = NextRefundNumber])
    /\ UNCHANGED invoiceSeq
\* Mutant: the index is not unique.
RefundInsertUnindexed(r) ==
    /\ tx[r].pc = "checked"
    /\ tx[r].kind = "refund"
    /\ refundSeq' = refundSeq + 1
    /\ Continue(r, [tx[r] EXCEPT !.pc = "inserted", !.id = refundSeq + 1])
    /\ UNCHANGED invoiceSeq
RefundInsert(r) ==
    /\ tx[r].pc = "checked"
    /\ tx[r].kind = "refund"
    /\ tx[r].num \notin refundNumbers
    /\ \A o \in Request : ~HoldsNumber(o, tx[r].num)
    /\ refundSeq' = refundSeq + 1
    /\ Continue(r, [tx[r] EXCEPT !.pc = "inserted", !.id = refundSeq + 1])
    /\ UNCHANGED invoiceSeq

\* A committed refund already has the number: the INSERT fails, and the request
\* with it; the id it took is lost.
\* Mutant: it waits for the number instead.
RefundConflictWaits(r) ==
    /\ tx[r].pc = "checked"
    /\ tx[r].kind = "refund"
    /\ tx[r].num \in refundNumbers
    /\ UNCHANGED vars
RefundConflict(r) ==
    /\ tx[r].pc = "checked"
    /\ tx[r].kind = "refund"
    /\ tx[r].num \in refundNumbers
    /\ refundSeq' = refundSeq + 1
    /\ Continue(r, Idle)
    /\ UNCHANGED invoiceSeq

\* Only now are the products read.
RefundReadProducts(r) ==
    /\ tx[r].pc = "inserted"
    /\ Continue(r, [tx[r] EXCEPT !.pc = "counted", !.seenStock = stock])
    /\ UNCHANGED <<invoiceSeq, refundSeq>>

\* The flush of the journal writes the products.
RefundFlush(r) ==
    /\ tx[r].pc = "counted"
    /\ \A p \in Lines(tx[r].qty), o \in Request : ~HoldsProduct(o, p)
    /\ Continue(r, [tx[r] EXCEPT !.pc = "flushed"])
    /\ UNCHANGED <<invoiceSeq, refundSeq>>
-----------------------------------------------------------------------------
\* The journal reads its accounts one after the other, the debited one first.
ReadDebit(r) ==
    /\ tx[r].pc = "flushed"
    /\ Continue(r, [tx[r] EXCEPT !.pc = "debited",
                                 !.seenDebit = balance[tx[r].debit]])
    /\ UNCHANGED <<invoiceSeq, refundSeq>>

ReadCredit(r) ==
    /\ tx[r].pc = "debited"
    /\ Continue(r, [tx[r] EXCEPT !.pc = "credited",
                                 !.seenCredit = balance[tx[r].credit]])
    /\ UNCHANGED <<invoiceSeq, refundSeq>>

\* The entries are inserted; the balances are written as computed from the reads.
PostJournal(t) ==
    /\ balance' = [balance EXCEPT ![t.debit] = t.seenDebit + t.amount,
                                  ![t.credit] = t.seenCredit - t.amount]
    /\ posted' = [posted EXCEPT ![t.debit] = @ + t.amount,
                                ![t.credit] = @ - t.amount]

Finish(r) ==
    /\ tx' = [tx EXCEPT ![r] = Idle]
    /\ UNCHANGED <<invoiceSeq, refundSeq, mixed>>

\* What a request that adds sign * qty writes to a per-product column it read
\* as seen: the lines get new values, the other products are not updated.
Written(column, seen, sign, qty) ==
    [p \in Product |-> IF qty[p] > 0 THEN seen[p] + sign * qty[p] ELSE column[p]]

\* A sale on account debits receivables and leaves the invoice unpaid.
\* Mutant: a status collect_payment does not know.
OpenStatus(t) == IF t.debit = "1100" THEN "open" ELSE "paid"
StatusOf(t) == IF t.debit = "1100" THEN "unpaid" ELSE "paid"

SaleCommit(r) ==
    LET t == tx[r] IN
    /\ t.pc = "credited"
    /\ t.kind = "sale"
    /\ stock' = Written(stock, t.seenStock, -1, t.qty)
    /\ mainStock' = Written(mainStock, t.seenStock, -1, t.qty)
    /\ moved' = [p \in Product |-> moved[p] - t.qty[p]]
    /\ invoice' = [invoice EXCEPT ![t.inv] =
                     [status |-> StatusOf(t),
                      sold |-> t.qty, total |-> t.amount, payments |-> 0]]
    /\ PostJournal(t)
    /\ Finish(r)
    /\ UNCHANGED <<refunded, refundNumbers, lastRefund>>

CollectCommit(r) ==
    LET t == tx[r] IN
    /\ t.pc = "credited"
    /\ t.kind = "collect"
    /\ invoice' = [invoice EXCEPT ![t.inv].status = "paid",
                                  ![t.inv].payments = @ + 1]
    /\ PostJournal(t)
    /\ Finish(r)
    /\ UNCHANGED <<stock, mainStock, moved, refunded, refundNumbers, lastRefund>>

\* A refund puts the goods back in products.stock and leaves the locations alone.
RefundCommit(r) ==
    LET t == tx[r] IN
    /\ t.pc = "credited"
    /\ t.kind = "refund"
    /\ stock' = Written(stock, t.seenStock, 1, t.qty)
    /\ moved' = [p \in Product |-> moved[p] + t.qty[p]]
    /\ refunded' = [refunded EXCEPT ![t.inv] =
                      [p \in Product |-> @[p] + t.qty[p]]]
    /\ refundNumbers' = refundNumbers \cup {t.num}
    /\ lastRefund' = IF t.id > lastRefund THEN t.id ELSE lastRefund
    /\ PostJournal(t)
    /\ Finish(r)
    /\ UNCHANGED <<mainStock, invoice>>

\* The worker dies, the client goes away or a statement fails: rollback.
Abort(r) ==
    /\ tx[r].pc # "idle"
    /\ Finish(r)
    /\ UNCHANGED tables

\* Between requests nothing has to happen.
Rest ==
    /\ InFlight = {}
    /\ UNCHANGED vars
-----------------------------------------------------------------------------
Advance(r) ==
    \/ SaleFlush(r) \/ SaleCommit(r)
    \/ CollectFlush(r) \/ CollectCommit(r)
    \/ RefundCheck(r) \/ RefundReject(r) \/ RefundInsert(r) \/ RefundConflict(r)
    \/ RefundReadProducts(r) \/ RefundFlush(r) \/ RefundCommit(r)
    \/ ReadDebit(r) \/ ReadCredit(r)

Next ==
    \/ \E r \in Request : \/ SaleCheck(r) \/ CollectCheck(r) \/ RefundNumber(r)
                          \/ Advance(r) \/ Abort(r)
    \/ Rest

Spec == Init /\ [][Next]_vars

\* A statement the database can run is run, and its lock queues are first come,
\* first served: a request that gets its turn again and again is served.
FairSpec == Spec /\ \A r \in Request : SF_vars(Advance(r))
-----------------------------------------------------------------------------
Session == [pc : {"idle", "checked", "numbered"} \cup Inserted,
            kind : {"none", "sale", "collect", "refund"},
            inv : Nat, qty : Basket, largest : Basket, amount : Nat,
            debit : Account, credit : Account, num : Nat, id : Nat,
            seenRefunded : Basket, seenStock : [Product -> Int],
            seenDebit : Int, seenCredit : Int]

\* Every variable has its type.
TypeOK ==
    /\ stock \in [Product -> Int]
    /\ mainStock \in [Product -> Int]
    /\ moved \in [Product -> Int]
    /\ invoice \in [InvoiceId -> [status : {"none", "unpaid", "paid"},
                                  sold : Basket, total : Nat, payments : Nat]]
    /\ refunded \in [InvoiceId -> Basket]
    /\ refundNumbers \in SUBSET Nat
    /\ lastRefund \in Nat
    /\ invoiceSeq \in 0..MaxInvoice
    /\ refundSeq \in Nat
    /\ balance \in [Account -> Int]
    /\ posted \in [Account -> Int]
    /\ tx \in [Request -> Session]
    /\ mixed \in BOOLEAN

\* refunds.py, create_refund: what has been refunded of an invoice line never
\* exceeds the line, however many refunds of it are under way at once.
NoOverRefund ==
    \A i \in InvoiceId, p \in Product : refunded[i][p] <= invoice[i].sold[p]

\* refunds.py, create_refund: the number is read BEFORE the refunded quantities
\* and its index is unique, so a refund whose INSERT succeeded holds the next
\* number, alone, and its quantities are still those in the table.  Nothing
\* else in the code keeps two refunds of one invoice apart.
InsertedRefundIsCurrent ==
    \A r \in Request :
        tx[r].kind = "refund" /\ tx[r].pc \in Inserted =>
            /\ tx[r].num = lastRefund + 1
            /\ tx[r].seenRefunded = refunded[tx[r].inv]
            /\ \A o \in Request \ {r} :
                  ~(tx[o].kind = "refund" /\ tx[o].pc \in Inserted)

\* pos_service.py, create_invoice: sales racing for the last units may oversell
\* them, but each writes a stock it computed to be >= 0, so neither
\* products.stock nor the default location is ever negative.
StockNeverNegative ==
    \A p \in Product : stock[p] >= 0 /\ mainStock[p] >= 0

\* pos_service.py, pos.py, refunds.py: until a sale or a collection has
\* overlapped another request, stock is the opening stock plus the recorded
\* moves, every balance is the sum of its journal entries, and no invoice is
\* collected twice.  Refunds may overlap refunds as they like.
BooksAgree ==
    ~mixed =>
        /\ \A p \in Product : stock[p] = OpeningStock[p] + moved[p]
        /\ \A a \in Account : balance[a] = posted[a]
        /\ \A i \in InvoiceId : invoice[i].payments <= 1

\* refunds.py: the endpoint implements the refund book, each committed refund
\* being one step of it.
Book == INSTANCE RefundBook WITH
            sold <- [i \in InvoiceId |-> invoice[i].sold],
            returned <- refunded,
            issued <- refundNumbers
ImplementsRefundBook == Book!Spec

\* All three endpoints: no request waits for ever, neither on a row lock nor on
\* a refund number another transaction holds; it commits, fails or is refused.
RequestsFinish == \A r \in Request : (tx[r].pc # "idle") ~> (tx[r].pc = "idle")

\* pos.py:207, "Invoice already paid": an invoice is collected at most once.
CollectedOnce == \A i \in InvoiceId : invoice[i].payments <= 1

\* pos_service.py:27, "Post a double-entry journal": the balances of the
\* accounts sum to zero, as both sides of every journal change them.
TrialBalance == balance["1000"] + balance["1100"] + balance["4000"] = 0
=============================================================================
