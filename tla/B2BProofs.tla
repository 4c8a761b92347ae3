------------------------------ MODULE B2BProofs ------------------------------
(***************************************************************************)
(* Proofs about B2B and Statements: for any clients, products, bodies,     *)
(* prices and payments, no order of the handlers hands out goods that are  *)
(* not there, and the four books of what a client owes can be told from    *)
(* each other.                                                             *)
(***************************************************************************)
EXTENDS Statements, SumsProofs

InvoiceFields == {"client", "type", "qty", "total", "paid", "status",
                  "sold", "returned", "closed"}

\* What the movement of goods needs to know of an invoice.
HasLines(d) == d = [f \in InvoiceFields |-> d[f]] /\ d.qty \in Basket

GoodsInv ==
    /\ stock \in [Product -> Nat]
    /\ \A i \in DOMAIN invoice : HasLines(invoice[i])
    /\ \A x \in DOMAIN refund : refund[x].qty \in Basket

LEMMA GoodsInvInit == Init => GoodsInv
  BY B2BConstants DEF Init, GoodsInv, Basket

\* Goods that come home, and goods that go out of what is there.
LEMMA HomeType ==
    ASSUME NEW a \in [Product -> Nat], NEW b \in Basket
    PROVE  Plus(a, b) \in [Product -> Nat]
  BY DEF Plus, Basket

LEMMA LeaveType ==
    ASSUME NEW a \in [Product -> Nat], NEW b \in Basket, \A p \in Lines(b) : b[p] <= a[p]
    PROVE  Minus(a, b) \in [Product -> Nat]
  <1>1. ASSUME NEW p \in Product PROVE a[p] - b[p] \in Nat
    <2>1. a[p] \in Nat /\ b[p] \in Nat
      BY DEF Basket
    <2>2. b[p] = 0 \/ b[p] <= a[p]
      BY <2>1 DEF Lines
    <2> QED
      BY <2>1, <2>2
  <1> QED
    BY <1>1 DEF Minus

LEMMA FreshLines ==
    ASSUME NEW c, NEW type, NEW b \in Body
    PROVE  HasLines(Fresh(c, type, b)) /\ b \in Basket
  BY B2BConstants DEF HasLines, Fresh, InvoiceFields

\* A row written among those that are there.
LEMMA StoreLines ==
    ASSUME GoodsInv, NEW i, NEW d, Store(i, d), HasLines(d)
    PROVE  \A j \in DOMAIN invoice' : HasLines(invoice'[j])
  BY DEF GoodsInv, Store

LEMMA InvoicingGoods == ASSUME GoodsInv, Invoicing PROVE GoodsInv'
  <1>1. ASSUME NEW c \in Client, NEW type \in Terms, NEW b \in Body,
               CreateInvoice(c, type, b)
        PROVE  GoodsInv'
    <2>1. \A j \in DOMAIN invoice' : HasLines(invoice'[j])
      BY <1>1, FreshLines, StoreLines DEF CreateInvoice
    <2>2. stock' \in [Product -> Nat]
      BY <1>1, FreshLines, LeaveType DEF CreateInvoice, GoodsInv
    <2> QED
      BY <1>1, <2>1, <2>2 DEF CreateInvoice, GoodsInv, HasLines
  <1>2. ASSUME NEW c \in Client, NEW type \in Terms, NEW b \in Body,
               NEW i \in DOMAIN invoice, EditInvoice(i, c, type, b)
        PROVE  GoodsInv'
    <2> DEFINE home == Plus(stock, invoice[i].qty)
    <2>1. \A j \in DOMAIN invoice' : HasLines(invoice'[j])
      BY <1>2, FreshLines, StoreLines DEF EditInvoice
    <2>2. home \in [Product -> Nat]
      BY HomeType DEF GoodsInv, HasLines
    <2>3. /\ \A p \in Lines(b) : b[p] <= home[p]
          /\ stock' = Minus(home, b) /\ refund' = refund
      BY <1>2 DEF EditInvoice
    <2> HIDE DEF home
    <2>4. stock' \in [Product -> Nat]
      BY <2>2, <2>3, FreshLines, LeaveType
    <2> QED
      BY <2>1, <2>3, <2>4 DEF GoodsInv, HasLines
  <1>3. ASSUME NEW i \in DOMAIN invoice, DeleteInvoice(i) PROVE GoodsInv'
    <2>1. stock' \in [Product -> Nat]
      BY <1>3, HomeType DEF DeleteInvoice, GoodsInv, HasLines
    <2>2. \A j \in DOMAIN invoice' : HasLines(invoice'[j])
      BY <1>3 DEF DeleteInvoice, GoodsInv
    <2> QED
      BY <1>3, <2>1, <2>2 DEF DeleteInvoice, GoodsInv, HasLines
  <1> QED
    BY <1>1, <1>2, <1>3 DEF Invoicing

\* Payments move no goods.
LEMMA PayingGoods == ASSUME GoodsInv, Paying PROVE GoodsInv'
  <1>1. UNCHANGED <<stock, refund>>
    BY DEF Paying, RecordPayment, CollectPayment, ConsignmentPayment, ClientPayment,
           RefundAccount
  <1>2. \A j \in DOMAIN invoice' : HasLines(invoice'[j])
    <2>1. ASSUME NEW d, HasLines(d), NEW paid, NEW status
          PROVE  HasLines([d EXCEPT !.paid = paid, !.status = status])
      BY <2>1 DEF HasLines, InvoiceFields
    <2>2. ASSUME NEW i \in DOMAIN invoice, NEW n \in Payment, RecordPayment(i, n)
          PROVE  \A j \in DOMAIN invoice' : HasLines(invoice'[j])
      <3>1. HasLines(invoice[i])
        BY DEF GoodsInv
      <3>2. PICK paid, status : Store(i, [invoice[i] EXCEPT !.paid = paid, !.status = status])
        BY <2>2 DEF RecordPayment
      <3> QED
        BY <2>1, <3>1, <3>2, StoreLines
    <2>3. ASSUME NEW i \in DOMAIN invoice, NEW n \in Payment, ConsignmentPayment(i, n)
          PROVE  \A j \in DOMAIN invoice' : HasLines(invoice'[j])
      <3>1. HasLines(invoice[i])
        BY DEF GoodsInv
      <3>2. PICK paid, status : Store(i, [invoice[i] EXCEPT !.paid = paid, !.status = status])
        BY <2>3 DEF ConsignmentPayment
      <3> QED
        BY <2>1, <3>1, <3>2, StoreLines
    <2>4. ASSUME NEW c \in Client, NEW n \in Payment, ClientPayment(c, n)
          PROVE  \A j \in DOMAIN invoice' : HasLines(invoice'[j])
      <3> SUFFICES ASSUME NEW j \in DOMAIN invoice' PROVE HasLines(invoice'[j])
        OBVIOUS
      <3>1. j \in DOMAIN invoice /\ HasLines(invoice[j])
        BY <2>4 DEF ClientPayment, GoodsInv
      <3>2. \/ invoice'[j] = invoice[j]
            \/ \E paid, status :
                  invoice'[j] = [invoice[j] EXCEPT !.paid = paid, !.status = status]
        BY <2>4, <3>1 DEF ClientPayment
      <3>3. ASSUME NEW paid, NEW status
            PROVE  HasLines([invoice[j] EXCEPT !.paid = paid, !.status = status])
        BY <2>1, <3>1
      <3>4. CASE invoice'[j] = invoice[j]
        BY <3>1, <3>4
      <3>5. CASE \E paid, status :
                    invoice'[j] = [invoice[j] EXCEPT !.paid = paid, !.status = status]
        <4>1. PICK paid, status :
                 invoice'[j] = [invoice[j] EXCEPT !.paid = paid, !.status = status]
          BY <3>5
        <4> QED
          BY <3>3, <4>1 DEF HasLines
      <3> QED
        BY <3>2, <3>4, <3>5
    <2>5. ASSUME NEW c \in Client, NEW n \in Payment, RefundAccount(c, n)
          PROVE  \A j \in DOMAIN invoice' : HasLines(invoice'[j])
      BY <2>5 DEF RefundAccount, GoodsInv
    <2> QED
      BY <2>2, <2>3, <2>4, <2>5 DEF Paying, CollectPayment
  <1> QED
    BY <1>1, <1>2 DEF GoodsInv, HasLines

\* A settlement takes back what was returned, and keeps the lines.
LEMMA SettlingGoods == ASSUME GoodsInv, Settling PROVE GoodsInv'
  <1>1. PICK i \in DOMAIN invoice, k \in DOMAIN invoice, p \in Product :
          \E s, r \in 0..invoice[k].qty[p] : SettleConsignment(i, k, p, s, r)
    BY DEF Settling
  <1>2. PICK s \in 0..invoice[k].qty[p], r \in 0..invoice[k].qty[p] :
          SettleConsignment(i, k, p, s, r)
    BY <1>1
  <1>3. HasLines(invoice[i]) /\ HasLines(invoice[k])
    BY DEF GoodsInv
  <1>4. GoodsBack(p, s, r) \in Basket
    <2>1. r \in Nat
      BY <1>3 DEF HasLines, Basket
    <2> QED
      BY <2>1 DEF GoodsBack, Empty, Basket
  <1>5. stock' \in [Product -> Nat] /\ refund' = refund
    BY <1>2, <1>4, HomeType DEF SettleConsignment, GoodsInv
  <1>6. \A j \in DOMAIN invoice' : HasLines(invoice'[j])
    <2> DEFINE entry == [invoice[k] EXCEPT !.sold[p] = @ + s, !.returned[p] = @ + r]
               cons == IF k = i THEN entry ELSE invoice[i]
    <2>1. HasLines(entry)
      BY <1>3 DEF HasLines, InvoiceFields
    <2>2. HasLines(cons)
      BY <1>3, <2>1
    <2>3. PICK done : invoice' = [invoice EXCEPT ![k] = entry,
                                                 ![i] = [cons EXCEPT !.closed = done]]
      BY <1>2 DEF SettleConsignment
    <2> HIDE DEF entry, cons
    <2>4. HasLines([cons EXCEPT !.closed = done])
      BY <2>2 DEF HasLines, InvoiceFields
    <2> QED
      BY <2>1, <2>3, <2>4 DEF GoodsInv
  <1> QED
    BY <1>5, <1>6 DEF GoodsInv, HasLines

LEMMA RefundingGoods == ASSUME GoodsInv, Refunding PROVE GoodsInv'
  <1>1. ASSUME NEW c \in Client, NEW b \in Body, CreateRefund(c, b) PROVE GoodsInv'
    <2>1. b \in Basket
      BY B2BConstants
    <2>2. stock' \in [Product -> Nat] /\ invoice' = invoice
      BY <1>1, <2>1, HomeType DEF CreateRefund, GoodsInv
    <2>3. \A x \in DOMAIN refund' : refund'[x].qty \in Basket
      BY <1>1, <2>1 DEF CreateRefund, GoodsInv
    <2> QED
      BY <2>2, <2>3 DEF GoodsInv, HasLines
  <1>2. ASSUME NEW x \in DOMAIN refund, DeleteRefund(x) PROVE GoodsInv'
    <2>1. stock' \in [Product -> Nat] /\ invoice' = invoice
      BY <1>2, LeaveType DEF DeleteRefund, GoodsInv
    <2>2. \A y \in DOMAIN refund' : refund'[y].qty \in Basket
      BY <1>2 DEF DeleteRefund, GoodsInv
    <2> QED
      BY <2>1, <2>2 DEF GoodsInv, HasLines
  <1> QED
    BY <1>1, <1>2 DEF Refunding

LEMMA GoodsInvStep == GoodsInv /\ [Next]_vars => GoodsInv'
  <1> SUFFICES ASSUME GoodsInv, [Next]_vars PROVE GoodsInv'
    OBVIOUS
  <1>1. CASE UNCHANGED vars
    BY <1>1 DEF vars, GoodsInv, HasLines
  <1> QED
    BY <1>1, InvoicingGoods, PayingGoods, SettlingGoods, RefundingGoods DEF Next

\* b2b.py: no order of invoices, edits, deletions, settlements, refunds and their
\* deletions hands out goods that are not in stock.
THEOREM GoodsStayOnHand == Spec => []GoodsOnHand
  <1>1. GoodsInv => GoodsOnHand
    BY DEF GoodsInv, GoodsOnHand
  <1> QED
    BY <1>1, GoodsInvInit, GoodsInvStep, PTL DEF Spec
-----------------------------------------------------------------------------
\* An invoice is never paid more than its total, and one that is called paid, as a
\* cash invoice is, is paid in full.
Sound(d) ==
    /\ d.paid <= d.total
    /\ d.type = "cash" => d.status = "paid"
    /\ d.status = "paid" => d.paid = d.total

RowsInv ==
    /\ DOMAIN invoice \subseteq 1..lastInvoice
    /\ \A i \in DOMAIN invoice : invoice[i] \in Invoice /\ Sound(invoice[i])
    /\ DOMAIN refund \subseteq 1..lastRefund
    /\ \A x \in DOMAIN refund : refund[x] \in Refund
    /\ lastInvoice \in 0..MaxInvoice /\ lastRefund \in 0..MaxRefund
CountsInv ==
    /\ outstanding \in [Client -> Nat] /\ undone \in [Client -> Nat]
    /\ cash \in Int /\ receivable \in Int /\ collected \in Nat
    /\ edits \in 0..MaxEdit
    /\ settled \in Nat /\ waived \in Nat /\ forgotten \in Nat
    /\ doubled \subseteq Product
TypedInv == GoodsInv /\ RowsInv /\ CountsInv

LEMMA ConstantsType ==
    /\ IsFiniteSet(Client) /\ Price \in [Product -> Nat] /\ Payment \subseteq Nat \ {0}
    /\ Body \subseteq Basket /\ \A b \in Body : Net(b) \in Nat \ {0}
    /\ MaxInvoice \in Nat /\ MaxRefund \in Nat /\ MaxEdit \in Nat /\ MaxWaived \in Nat
    /\ Empty \in Basket /\ OpeningStock \in Basket
    /\ \A q \in Body, p \in Product : q[p] \in Nat
  BY B2BConstants DEF Empty, Basket

LEMMA InvoiceType ==
    ASSUME NEW d \in Invoice
    PROVE  /\ d.client \in Client /\ d.type \in Terms /\ d.qty \in Basket
           /\ d.total \in Nat /\ d.paid \in Nat /\ d.status \in {"unpaid", "partial", "paid"}
           /\ d.sold \in Basket /\ d.returned \in Basket /\ d.closed \in BOOLEAN
           /\ Balance(d) \in Int /\ Balance(d) = d.total - d.paid
           /\ \A p \in Product : d.qty[p] \in Nat /\ d.returned[p] \in Nat /\ d.sold[p] \in Nat
  BY DEF Invoice, Balance, Basket

\* Less and Owing, where the amounts are natural.
LEMMA AccountType ==
    ASSUME NEW o \in [Client -> Nat], NEW c \in Client, NEW n \in Nat
    PROVE  Less(o, c, n) \in [Client -> Nat] /\ Owing(o, c, n) \in [Client -> Nat]
  BY DEF Less, Owing

LEMMA FreshType ==
    ASSUME NEW c \in Client, NEW type \in Terms, NEW b \in Body
    PROVE  LET d == Fresh(c, type, b)
           IN  /\ d \in Invoice /\ Sound(d)
               /\ d.client = c /\ d.type = type /\ d.qty = b /\ d.returned = Empty
               /\ d.total = Net(b) /\ d.paid = (IF type = "cash" THEN Net(b) ELSE 0)
               /\ Balance(d) \in Nat /\ Balance(d) = Net(b) - d.paid
               /\ type # "cash" => d.status # "paid"
  BY ConstantsType DEF Fresh, Invoice, Sound, Balance

\* One invoice is written.
LEMMA StoreRows ==
    ASSUME RowsInv, NEW i, NEW d \in Invoice, Sound(d), Store(i, d),
           lastInvoice' \in lastInvoice..MaxInvoice, i \in 1..lastInvoice',
           UNCHANGED <<refund, lastRefund>>
    PROVE  RowsInv'
  <1>1. lastInvoice \in Nat /\ lastInvoice' \in Nat /\ lastInvoice <= lastInvoice'
    BY ConstantsType DEF RowsInv
  <1>2. /\ DOMAIN invoice' = DOMAIN invoice \cup {i}
        /\ \A j \in DOMAIN invoice' : invoice'[j] = IF j = i THEN d ELSE invoice[j]
    BY DEF Store
  <1>3. DOMAIN invoice' \subseteq 1..lastInvoice'
    BY <1>1, <1>2 DEF RowsInv
  <1>4. \A j \in DOMAIN invoice' : (invoice[j] \in Invoice /\ Sound(invoice[j]))'
    BY <1>2 DEF RowsInv, Sound
  <1>5. lastInvoice' \in 0..MaxInvoice
    BY <1>1
  <1> QED
    BY <1>3, <1>4, <1>5 DEF RowsInv

LEMMA TypedInit == Init => TypedInv
  <1> SUFFICES ASSUME Init PROVE TypedInv
    OBVIOUS
  <1>1. RowsInv
    BY ConstantsType DEF Init, RowsInv
  <1>2. CountsInv
    BY ConstantsType DEF Init, CountsInv
  <1> QED
    BY <1>1, <1>2, GoodsInvInit DEF TypedInv

LEMMA InvoicingTyped == ASSUME TypedInv, Invoicing PROVE RowsInv' /\ CountsInv'
  <1>1. /\ RowsInv /\ CountsInv /\ lastInvoice \in Nat /\ cash \in Int /\ receivable \in Int
        /\ outstanding \in [Client -> Nat] /\ forgotten \in Nat /\ doubled \subseteq Product
    BY DEF TypedInv, RowsInv, CountsInv
  <1>2. ASSUME NEW c \in Client, NEW type \in Terms, NEW b \in Body,
               CreateInvoice(c, type, b)
        PROVE  RowsInv' /\ CountsInv'
    <2>1. PICK d : d = Fresh(c, type, b)
      OBVIOUS
    <2>2. /\ d \in Invoice /\ Sound(d) /\ d.paid \in Nat /\ Balance(d) \in Nat
      BY <2>1, FreshType, InvoiceType
    <2>3. /\ lastInvoice' = lastInvoice + 1 /\ lastInvoice < MaxInvoice
          /\ Store(lastInvoice + 1, d) /\ cash' = cash + d.paid
          /\ receivable' = receivable + Balance(d)
          /\ outstanding' = Owing(outstanding, c, Balance(d))
          /\ UNCHANGED <<refund, lastRefund, collected, edits, history>>
      BY <1>2, <2>1 DEF CreateInvoice
    <2>4. lastInvoice' \in lastInvoice..MaxInvoice /\ lastInvoice + 1 \in 1..lastInvoice'
      BY <1>1, <2>3, ConstantsType
    <2>5. RowsInv'
      BY <1>1, <2>2, <2>3, <2>4, StoreRows
    <2>6. outstanding' \in [Client -> Nat] /\ cash' \in Int /\ receivable' \in Int
      BY <1>1, <2>2, <2>3, AccountType
    <2> QED
      BY <1>1, <2>3, <2>5, <2>6 DEF CountsInv, history
  <1>3. ASSUME NEW d \in Invoice
        PROVE  /\ CashWithout(d) \in Int /\ ReceivableWithout(d) \in Int
               /\ (Sound(d) => OutstandingWithout(d) \in [Client -> Nat])
               /\ Lines(d.returned) \subseteq Product
               /\ forgotten + (IF d.type = "cash" THEN 0 ELSE d.paid) \in Nat
    <2>1. Sound(d) => Balance(d) \in Nat
      BY InvoiceType DEF Sound
    <2> QED
      BY <1>1, <2>1, InvoiceType, AccountType
      DEF CashWithout, ReceivableWithout, OutstandingWithout, Lines
  <1>4. ASSUME NEW c \in Client, NEW type \in Terms, NEW b \in Body,
               NEW i \in DOMAIN invoice, EditInvoice(i, c, type, b)
        PROVE  RowsInv' /\ CountsInv'
    <2>1. PICK d, old : d = Fresh(c, type, b) /\ old = invoice[i]
      OBVIOUS
    <2>2. /\ d \in Invoice /\ Sound(d) /\ d.paid \in Nat /\ Balance(d) \in Nat
          /\ old \in Invoice /\ Sound(old) /\ i \in 1..lastInvoice
      BY <1>1, <2>1, FreshType, InvoiceType DEF RowsInv
    <2>3. /\ Store(i, d) /\ cash' = CashWithout(old) + d.paid
          /\ receivable' = ReceivableWithout(old) + Balance(d)
          /\ outstanding' = Owing(OutstandingWithout(old), c, Balance(d))
          /\ edits' = edits + 1 /\ edits < MaxEdit /\ Reversed(old)
          /\ UNCHANGED <<refund, lastInvoice, lastRefund, collected>>
      BY <1>4, <2>1 DEF EditInvoice
    <2>4. lastInvoice' \in lastInvoice..MaxInvoice /\ i \in 1..lastInvoice'
      BY <1>1, <2>2, <2>3 DEF RowsInv
    <2>5. RowsInv'
      BY <1>1, <2>2, <2>3, <2>4, StoreRows
    <2>6. outstanding' \in [Client -> Nat] /\ cash' \in Int /\ receivable' \in Int
      BY <1>1, <1>3, <2>2, <2>3, AccountType
    <2>7. edits' \in 0..MaxEdit
      BY <2>3, ConstantsType DEF TypedInv, CountsInv
    <2> QED
      BY <1>1, <1>3, <2>2, <2>3, <2>5, <2>6, <2>7 DEF CountsInv, Reversed
  <1>5. ASSUME NEW i \in DOMAIN invoice, DeleteInvoice(i) PROVE RowsInv' /\ CountsInv'
    <2>1. PICK d : d = invoice[i]
      OBVIOUS
    <2>2. d \in Invoice /\ Sound(d)
      BY <1>1, <2>1 DEF RowsInv
    <2>3. /\ invoice' = [x \in DOMAIN invoice \ {i} |-> invoice[x]]
          /\ cash' = CashWithout(d) /\ receivable' = ReceivableWithout(d)
          /\ outstanding' = OutstandingWithout(d) /\ Reversed(d)
          /\ UNCHANGED <<refund, lastInvoice, lastRefund, collected, edits>>
      BY <1>5, <2>1 DEF DeleteInvoice
    <2>4. RowsInv'
      BY <1>1, <2>3 DEF RowsInv, Sound
    <2> QED
      BY <1>1, <1>3, <2>2, <2>3, <2>4 DEF CountsInv, Reversed
  <1> QED
    BY <1>2, <1>4, <1>5 DEF Invoicing

LEMMA RowsFinite ==
    ASSUME RowsInv
    PROVE  /\ IsFiniteSet(DOMAIN invoice) /\ DOMAIN invoice \subseteq Int
           /\ IsFiniteSet(DOMAIN refund) /\ DOMAIN refund \subseteq Int
  <1>1. lastInvoice \in Int /\ lastRefund \in Int
    BY DEF RowsInv
  <1>2. IsFiniteSet(1..lastInvoice) /\ IsFiniteSet(1..lastRefund)
    BY <1>1, FS_Interval
  <1> QED
    BY <1>1, <1>2, FS_Subset DEF RowsInv

\* A payment n on an invoice that has so much left to pay, which is not a cash one.
Paying1(d, n, status) == [d EXCEPT !.paid = @ + n, !.status = status]

LEMMA PaidType ==
    ASSUME NEW d \in Invoice, Sound(d), NEW n \in Nat \ {0}, n <= Balance(d),
           NEW status \in {"unpaid", "partial", "paid"},
           status = "paid" => d.paid + n = d.total
    PROVE  LET e == Paying1(d, n, status)
           IN  /\ e \in Invoice /\ Sound(e) /\ d.type # "cash"
               /\ e.client = d.client /\ e.type = d.type /\ e.qty = d.qty
               /\ e.returned = d.returned /\ e.total = d.total
               /\ e.paid = d.paid + n /\ Balance(e) = Balance(d) - n
  <1>1. d.paid \in Nat /\ d.total \in Nat /\ d.paid + n <= d.total /\ d.paid # d.total
    BY InvoiceType
  <1>2. d.type # "cash" /\ d.status # "paid"
    BY <1>1 DEF Sound
  <1>3. PICK e : e = Paying1(d, n, status)
    OBVIOUS
  <1>4. /\ e.paid = d.paid + n /\ e.status = status /\ e.client = d.client
        /\ e.type = d.type /\ e.qty = d.qty /\ e.returned = d.returned /\ e.total = d.total
    BY <1>3 DEF Paying1, Invoice
  <1>5. d.paid + n \in Nat
    BY <1>1
  <1>6. e \in Invoice
    BY <1>3, <1>5 DEF Paying1, Invoice
  <1>7. Sound(e) /\ Balance(e) = Balance(d) - n
    BY <1>1, <1>2, <1>4 DEF Sound, Balance
  <1> QED
    BY <1>2, <1>3, <1>4, <1>6, <1>7

\* Money is received on one invoice.
PaidOne(i, n) ==
    /\ n <= Balance(invoice[i])
    /\ \E status \in {"unpaid", "partial", "paid"} :
          /\ status = "paid" => invoice[i].paid + n = invoice[i].total
          /\ Store(i, Paying1(invoice[i], n, status))
    /\ Receive(invoice[i].client, n)
    /\ collected' = collected + n
    /\ UNCHANGED <<stock, refund, lastInvoice, lastRefund, edits, history>>

LEMMA PaymentsPayOne ==
    ASSUME RowsInv, NEW i \in DOMAIN invoice, NEW n \in Payment,
           \/ RecordPayment(i, n) \/ CollectPayment(i, n) \/ ConsignmentPayment(i, n)
    PROVE  PaidOne(i, n)
  <1>1. PICK d : d = invoice[i]
    OBVIOUS
  <1>2. d \in Invoice /\ n \in Nat
    BY <1>1, ConstantsType DEF RowsInv
  <1>3. /\ d.paid \in Nat /\ d.total \in Nat /\ Balance(d) = d.total - d.paid
        /\ d.status \in {"unpaid", "partial", "paid"}
    BY <1>2, InvoiceType
  <1>4. CASE RecordPayment(i, n) \/ CollectPayment(i, n)
    <2>1. PICK status : status = IF d.paid + n >= d.total THEN "paid" ELSE "partial"
      OBVIOUS
    <2>2. RecordPayment(i, n)
      BY <1>4 DEF CollectPayment
    <2>3. /\ n <= Balance(d) /\ Store(i, Paying1(d, n, status)) /\ Receive(d.client, n)
          /\ collected' = collected + n
          /\ UNCHANGED <<stock, refund, lastInvoice, lastRefund, edits, history>>
      BY <1>1, <2>1, <2>2 DEF RecordPayment, Paying1
    <2>4. /\ status \in {"unpaid", "partial", "paid"}
          /\ status = "paid" => d.paid + n = d.total
      BY <1>2, <1>3, <2>1, <2>3
    <2> QED
      BY <1>1, <2>3, <2>4 DEF PaidOne
  <1>5. CASE ConsignmentPayment(i, n)
    <2>1. PICK status : status = IF d.paid + n >= d.total THEN "paid" ELSE d.status
      OBVIOUS
    <2>2. /\ n <= Balance(d) /\ Store(i, Paying1(d, n, status)) /\ Receive(d.client, n)
          /\ collected' = collected + n
          /\ UNCHANGED <<stock, refund, lastInvoice, lastRefund, edits, history>>
      BY <1>1, <1>5, <2>1 DEF ConsignmentPayment, Paying1
    <2>3. n # 0 /\ Sound(d)
      BY <1>1, ConstantsType DEF RowsInv
    <2>4. /\ status \in {"unpaid", "partial", "paid"}
          /\ status = "paid" => d.paid + n = d.total
      BY <1>2, <1>3, <2>1, <2>2, <2>3 DEF Sound
    <2> QED
      BY <1>1, <2>2, <2>4 DEF PaidOne
  <1> QED
    BY <1>4, <1>5

\* What an open consignment takes of a client's payment.
LEMMA AppliedType ==
    ASSUME RowsInv, NEW c \in Client, NEW n \in Nat, NEW i \in OpenConsignments(c)
    PROVE  /\ i \in DOMAIN invoice /\ invoice[i].client = c
           /\ invoice[i].type = "consignment"
           /\ Balance(invoice[i]) \in Nat \ {0}
           /\ Applied(c, n, i) \in Nat /\ Applied(c, n, i) <= Balance(invoice[i])
  <1>1. /\ i \in DOMAIN invoice /\ invoice[i].client = c /\ invoice[i].type = "consignment"
        /\ invoice[i] \in Invoice /\ Balance(invoice[i]) > 0
    BY DEF OpenConsignments, RowsInv
  <1>2. Balance(invoice[i]) \in Nat \ {0}
    BY <1>1, InvoiceType
  <1>3. ASSUME NEW S \in SUBSET DOMAIN invoice PROVE SumBalance(S) \in Int
    <2>1. IsFiniteSet(S)
      BY RowsFinite, FS_Subset
    <2>2. PICK f : f = [j \in S |-> Balance(invoice[j])]
      OBVIOUS
    <2>3. \A j \in S : f[j] \in Int
      BY <2>2, InvoiceType DEF RowsInv
    <2>4. SumFunctionOnSet(f, S) \in Int
      BY <2>1, <2>3, SumIsInt
    <2> QED
      BY <2>2, <2>4 DEF SumBalance, SumFunction
  <1>4. PICK older \in Int : older = SumBalance({j \in OpenConsignments(c) : j < i})
    BY <1>3 DEF OpenConsignments
  <1>5. Applied(c, n, i) = IF n > older THEN Smaller(Balance(invoice[i]), n - older) ELSE 0
    BY <1>4 DEF Applied
  <1>6. PICK b \in Nat \ {0} : b = Balance(invoice[i])
    BY <1>2
  <1> QED
    BY <1>1, <1>5, <1>6 DEF Smaller

\* What an invoice takes of a payment of client c.
Share(c, n, i) == IF i \in OpenConsignments(c) THEN Applied(c, n, i) ELSE 0

LEMMA ClientPaid ==
    ASSUME RowsInv, NEW c \in Client, NEW n \in Nat, ClientPayment(c, n)
    PROVE  /\ DOMAIN invoice' = DOMAIN invoice
           /\ \A i \in DOMAIN invoice :
                 /\ invoice'[i] \in Invoice /\ Sound(invoice'[i])
                 /\ Share(c, n, i) \in Nat
                 /\ Share(c, n, i) # 0 => invoice[i].client = c /\ invoice[i].type # "cash"
                 /\ invoice'[i].client = invoice[i].client
                 /\ invoice'[i].type = invoice[i].type
                 /\ invoice'[i].qty = invoice[i].qty
                 /\ invoice'[i].returned = invoice[i].returned
                 /\ invoice'[i].total = invoice[i].total
                 /\ invoice'[i].paid = invoice[i].paid + Share(c, n, i)
                 /\ Balance(invoice'[i]) = Balance(invoice[i]) - Share(c, n, i)
  <1>1. DOMAIN invoice' = DOMAIN invoice
    BY DEF ClientPayment
  <1>2. ASSUME NEW i \in DOMAIN invoice
        PROVE  /\ invoice'[i] \in Invoice /\ Sound(invoice'[i])
               /\ Share(c, n, i) \in Nat
               /\ Share(c, n, i) # 0 => invoice[i].client = c /\ invoice[i].type # "cash"
               /\ invoice'[i].client = invoice[i].client
               /\ invoice'[i].type = invoice[i].type
               /\ invoice'[i].qty = invoice[i].qty
               /\ invoice'[i].returned = invoice[i].returned
               /\ invoice'[i].total = invoice[i].total
               /\ invoice'[i].paid = invoice[i].paid + Share(c, n, i)
               /\ Balance(invoice'[i]) = Balance(invoice[i]) - Share(c, n, i)
    <2>1. PICK d : d = invoice[i]
      OBVIOUS
    <2>2. d \in Invoice /\ Sound(d)
      BY <2>1 DEF RowsInv
    <2>3. d.paid \in Nat /\ d.total \in Nat /\ Balance(d) = d.total - d.paid
      BY <2>2, InvoiceType
    <2>4. CASE i \in OpenConsignments(c) /\ Applied(c, n, i) > 0
      <3>1. PICK a : a = Applied(c, n, i)
        OBVIOUS
      <3>2. PICK status : status = IF a = Balance(d) THEN "paid" ELSE "partial"
        OBVIOUS
      <3>3. invoice'[i] = Paying1(d, a, status)
        BY <2>1, <2>4, <3>1, <3>2 DEF ClientPayment, Paying1
      <3>4. /\ a \in Nat \ {0} /\ a <= Balance(d)
            /\ invoice[i].client = c /\ d.type # "cash"
        BY <2>1, <2>4, <3>1, AppliedType
      <3>5. /\ status \in {"unpaid", "partial", "paid"}
            /\ status = "paid" => d.paid + a = d.total
        BY <2>3, <3>2, <3>4
      <3>6. PICK e : e = Paying1(d, a, status)
        OBVIOUS
      <3>7. /\ e \in Invoice /\ Sound(e)
            /\ e.client = d.client /\ e.type = d.type /\ e.qty = d.qty
            /\ e.returned = d.returned /\ e.total = d.total
            /\ e.paid = d.paid + a /\ Balance(e) = Balance(d) - a
        BY <2>2, <3>4, <3>5, <3>6, PaidType
      <3>8. Share(c, n, i) = a
        BY <2>4, <3>1 DEF Share
      <3> QED
        BY <2>1, <3>3, <3>4, <3>6, <3>7, <3>8
    <2>5. CASE ~(i \in OpenConsignments(c) /\ Applied(c, n, i) > 0)
      <3>1. invoice'[i] = d
        BY <2>1, <2>5 DEF ClientPayment
      <3>2. Share(c, n, i) = 0
        BY <2>5, AppliedType DEF Share
      <3> QED
        BY <2>1, <2>2, <2>3, <3>1, <3>2
    <2> QED
      BY <2>4, <2>5
  <1> QED
    BY <1>1, <1>2

LEMMA PayingTyped == ASSUME TypedInv, Paying PROVE RowsInv' /\ CountsInv'
  <1>1. /\ RowsInv /\ CountsInv /\ lastInvoice \in Nat /\ cash \in Int /\ receivable \in Int
        /\ outstanding \in [Client -> Nat] /\ collected \in Nat /\ waived \in Nat
        /\ lastInvoice \in lastInvoice..MaxInvoice
    BY ConstantsType DEF TypedInv, RowsInv, CountsInv
  <1>2. ASSUME NEW n \in Payment, NEW i \in DOMAIN invoice, PaidOne(i, n)
        PROVE  RowsInv' /\ CountsInv'
    <2>1. PICK d : d = invoice[i]
      OBVIOUS
    <2>2. d \in Invoice /\ Sound(d) /\ i \in 1..lastInvoice /\ n \in Nat \ {0}
      BY <1>1, <2>1, ConstantsType DEF RowsInv
    <2>3. PICK status \in {"unpaid", "partial", "paid"} :
            /\ status = "paid" => d.paid + n = d.total
            /\ Store(i, Paying1(d, n, status))
      BY <1>2, <2>1 DEF PaidOne
    <2>4. /\ n <= Balance(d) /\ Receive(d.client, n) /\ collected' = collected + n
          /\ UNCHANGED <<stock, refund, lastInvoice, lastRefund, edits, history>>
      BY <1>2, <2>1 DEF PaidOne
    <2>5. Paying1(d, n, status) \in Invoice /\ Sound(Paying1(d, n, status))
      BY <2>2, <2>3, <2>4, PaidType
    <2>6. lastInvoice' \in lastInvoice..MaxInvoice /\ i \in 1..lastInvoice'
      BY <1>1, <2>2, <2>4
    <2>7. RowsInv'
      BY <1>1, <2>3, <2>4, <2>5, <2>6, StoreRows
    <2>8. d.client \in Client /\ n \in Nat
      BY <2>2, InvoiceType
    <2>9. /\ outstanding' \in [Client -> Nat] /\ cash' \in Int /\ receivable' \in Int
          /\ collected' \in Nat
      BY <1>1, <2>4, <2>8, AccountType DEF Receive
    <2> QED
      BY <1>1, <2>4, <2>7, <2>9 DEF CountsInv, history
  <1>3. ASSUME NEW n \in Payment, NEW c \in Client, ClientPayment(c, n)
        PROVE  RowsInv' /\ CountsInv'
    <2>1. n \in Nat
      BY ConstantsType
    <2>2. /\ DOMAIN invoice' = DOMAIN invoice
          /\ \A i \in DOMAIN invoice' : invoice'[i] \in Invoice /\ Sound(invoice'[i])
      BY <1>1, <1>3, <2>1, ClientPaid
    <2>3. /\ Receive(c, n) /\ collected' = collected + n
          /\ UNCHANGED <<stock, refund, lastInvoice, lastRefund, edits, history>>
      BY <1>3 DEF ClientPayment
    <2>4. RowsInv'
      BY <1>1, <2>2, <2>3 DEF RowsInv, Sound
    <2>5. /\ outstanding' \in [Client -> Nat] /\ cash' \in Int /\ receivable' \in Int
          /\ collected' \in Nat
      BY <1>1, <2>1, <2>3, AccountType DEF Receive
    <2> QED
      BY <1>1, <2>3, <2>4, <2>5 DEF CountsInv, history
  <1>4. ASSUME NEW n \in Payment, NEW c \in Client, RefundAccount(c, n)
        PROVE  RowsInv' /\ CountsInv'
    <2>1. n \in Nat
      BY ConstantsType
    <2>2. /\ outstanding' = Less(outstanding, c, n) /\ receivable' = receivable - n
          /\ waived' = waived + n
          /\ UNCHANGED <<stock, invoice, refund, lastInvoice, lastRefund, collected, cash,
                         edits, settled, forgotten, undone, doubled>>
      BY <1>4 DEF RefundAccount
    <2>3. outstanding' \in [Client -> Nat] /\ receivable' \in Int /\ waived' \in Nat
      BY <1>1, <2>1, <2>2, AccountType
    <2>4. RowsInv'
      BY <1>1, <2>2 DEF RowsInv, Sound
    <2> QED
      BY <1>1, <2>2, <2>3, <2>4 DEF CountsInv
  <1>5. \/ \E n \in Payment, i \in DOMAIN invoice : PaidOne(i, n)
        \/ \E n \in Payment, c \in Client : ClientPayment(c, n) \/ RefundAccount(c, n)
    BY <1>1, PaymentsPayOne DEF Paying
  <1> QED
    BY <1>2, <1>3, <1>4, <1>5

\* A settlement writes the entry it was given and closes the invoice it was called
\* for, which may be two: none of what the sums weigh changes but what was returned.
LEMMA SettlingRows ==
    ASSUME RowsInv, NEW i \in DOMAIN invoice, NEW k \in DOMAIN invoice, NEW p \in Product,
           NEW s \in 0..invoice[k].qty[p], NEW r \in 0..invoice[k].qty[p],
           SettleConsignment(i, k, p, s, r)
    PROVE  /\ s \in Nat /\ r \in Nat
           /\ DOMAIN invoice' = DOMAIN invoice
           /\ \A j \in DOMAIN invoice :
                 /\ invoice'[j] \in Invoice /\ Sound(invoice'[j])
                 /\ invoice'[j].client = invoice[j].client
                 /\ invoice'[j].type = invoice[j].type
                 /\ invoice'[j].qty = invoice[j].qty
                 /\ invoice'[j].total = invoice[j].total
                 /\ invoice'[j].paid = invoice[j].paid
                 /\ invoice'[j].returned =
                      IF j = k THEN Plus(invoice[j].returned, GoodsBack(p, s, r))
                               ELSE invoice[j].returned
                 /\ Balance(invoice'[j]) = Balance(invoice[j])
  <1>1. PICK d : d = invoice[k]
    OBVIOUS
  <1>2. /\ d \in Invoice /\ Sound(d) /\ invoice[i] \in Invoice /\ Sound(invoice[i])
    BY <1>1 DEF RowsInv
  <1>3. s \in Nat /\ r \in Nat /\ d.returned \in Basket /\ d.sold \in Basket
    BY <1>1, <1>2, InvoiceType
  <1>4. PICK entry : entry = [d EXCEPT !.sold[p] = @ + s, !.returned[p] = @ + r]
    OBVIOUS
  <1>5. PICK cons : cons = IF k = i THEN entry ELSE invoice[i]
    OBVIOUS
  <1>6. PICK done \in BOOLEAN : invoice' = [invoice EXCEPT ![k] = entry,
                                              ![i] = [cons EXCEPT !.closed = done]]
    BY <1>1, <1>4, <1>5 DEF SettleConsignment
  <1>7. /\ [d.sold EXCEPT ![p] = @ + s] \in Basket /\ [d.returned EXCEPT ![p] = @ + r] \in Basket
        /\ [d.returned EXCEPT ![p] = @ + r] = Plus(d.returned, GoodsBack(p, s, r))
    <2>1. /\ [d.sold EXCEPT ![p] = @ + s] \in Basket
          /\ [d.returned EXCEPT ![p] = @ + r] \in Basket
      BY <1>3 DEF Basket
    <2>2. \A q \in Product : [d.returned EXCEPT ![p] = @ + r][q]
                               = d.returned[q] + GoodsBack(p, s, r)[q]
      BY <1>3 DEF Basket, GoodsBack, Empty
    <2> QED
      BY <1>3, <2>1, <2>2 DEF Basket, Plus
  <1>8. /\ entry.client = d.client /\ entry.type = d.type /\ entry.qty = d.qty
        /\ entry.total = d.total /\ entry.paid = d.paid /\ entry.status = d.status
        /\ entry.returned = Plus(d.returned, GoodsBack(p, s, r)) /\ entry \in Invoice
    BY <1>2, <1>4, <1>7 DEF Invoice
  <1>9. Sound(entry)
    BY <1>2, <1>8 DEF Sound
  <1>10. /\ cons \in Invoice /\ Sound(cons)
    BY <1>2, <1>5, <1>8, <1>9
  <1>11. PICK end : end = [cons EXCEPT !.closed = done]
    OBVIOUS
  <1>12. /\ end.client = cons.client /\ end.type = cons.type /\ end.qty = cons.qty
         /\ end.total = cons.total /\ end.paid = cons.paid /\ end.status = cons.status
         /\ end.returned = cons.returned /\ end \in Invoice
    BY <1>10, <1>11 DEF Invoice
  <1>13. Sound(end)
    BY <1>10, <1>12 DEF Sound
  <1>14. /\ DOMAIN invoice' = DOMAIN invoice
         /\ \A j \in DOMAIN invoice : invoice'[j] = IF j = i THEN end
                                                   ELSE IF j = k THEN entry ELSE invoice[j]
    BY <1>6, <1>11
  <1>15. ASSUME NEW j \in DOMAIN invoice
         PROVE  /\ invoice'[j] \in Invoice /\ Sound(invoice'[j])
                /\ invoice'[j].client = invoice[j].client
                /\ invoice'[j].type = invoice[j].type
                /\ invoice'[j].qty = invoice[j].qty
                /\ invoice'[j].total = invoice[j].total
                /\ invoice'[j].paid = invoice[j].paid
                /\ invoice'[j].returned =
                     IF j = k THEN Plus(invoice[j].returned, GoodsBack(p, s, r))
                              ELSE invoice[j].returned
    <2>1. invoice[j] \in Invoice /\ Sound(invoice[j])
      BY DEF RowsInv
    <2>2. CASE j = i
      BY <1>1, <1>5, <1>8, <1>12, <1>13, <1>14, <2>2
    <2>3. CASE j # i /\ j = k
      BY <1>1, <1>8, <1>9, <1>14, <2>3
    <2>4. CASE j # i /\ j # k
      BY <1>14, <2>1, <2>4
    <2> QED
      BY <2>2, <2>3, <2>4
  <1> QED
    BY <1>3, <1>14, <1>15 DEF Balance

LEMMA SettlingTyped == ASSUME TypedInv, Settling PROVE RowsInv' /\ CountsInv'
  <1>1. PICK i \in DOMAIN invoice, k \in DOMAIN invoice, p \in Product :
          \E s, r \in 0..invoice[k].qty[p] : SettleConsignment(i, k, p, s, r)
    BY DEF Settling
  <1>2. PICK s \in 0..invoice[k].qty[p], r \in 0..invoice[k].qty[p] :
          SettleConsignment(i, k, p, s, r)
    BY <1>1
  <1>3. /\ RowsInv /\ CountsInv /\ cash \in Int /\ receivable \in Int
        /\ outstanding \in [Client -> Nat] /\ settled \in Nat
    BY DEF TypedInv, CountsInv
  <1>4. /\ s \in Nat /\ DOMAIN invoice' = DOMAIN invoice
        /\ \A j \in DOMAIN invoice' : invoice'[j] \in Invoice /\ Sound(invoice'[j])
    BY <1>2, <1>3, SettlingRows
  <1>5. PICK revenue \in Nat : revenue = s * Price[p]
    BY <1>4, ConstantsType
  <1>6. /\ Receive(invoice[i].client, revenue) /\ settled' = settled + revenue
        /\ UNCHANGED <<refund, lastInvoice, lastRefund, collected, edits, waived,
                       forgotten, undone, doubled>>
    BY <1>2, <1>5 DEF SettleConsignment
  <1>7. RowsInv'
    BY <1>3, <1>4, <1>6 DEF RowsInv, Sound
  <1>8. invoice[i].client \in Client
    BY <1>3, InvoiceType DEF RowsInv
  <1>9. outstanding' \in [Client -> Nat] /\ cash' \in Int /\ receivable' \in Int
    BY <1>3, <1>6, <1>8, AccountType DEF Receive
  <1> QED
    BY <1>3, <1>6, <1>7, <1>9 DEF CountsInv

LEMMA RefundType ==
    ASSUME NEW d \in Refund
    PROVE  /\ d.client \in Client /\ d.qty \in Basket /\ d.total \in Nat
           /\ \A p \in Product : d.qty[p] \in Nat
  BY DEF Refund, Basket

LEMMA RefundingTyped == ASSUME TypedInv, Refunding PROVE RowsInv' /\ CountsInv'
  <1>1. /\ RowsInv /\ CountsInv /\ cash \in Int /\ receivable \in Int /\ lastRefund \in Nat
        /\ outstanding \in [Client -> Nat] /\ undone \in [Client -> Nat]
    BY DEF TypedInv, CountsInv, RowsInv
  <1>2. ASSUME NEW c \in Client, NEW b \in Body, CreateRefund(c, b)
        PROVE  RowsInv' /\ CountsInv'
    <2>1. PICK d : d = [client |-> c, qty |-> b, total |-> Net(b)]
      OBVIOUS
    <2>2. d \in Refund /\ Net(b) \in Nat
      BY <2>1, ConstantsType DEF Refund
    <2>3. /\ lastRefund < MaxRefund /\ lastRefund' = lastRefund + 1
          /\ refund' = [x \in DOMAIN refund \cup {lastRefund + 1} |->
                          IF x = lastRefund + 1 THEN d ELSE refund[x]]
          /\ receivable' = receivable - Net(b)
          /\ outstanding' = Less(outstanding, c, Net(b))
          /\ UNCHANGED <<invoice, lastInvoice, cash, collected, edits, history>>
      BY <1>2, <2>1 DEF CreateRefund
    <2>4. lastRefund' \in 0..MaxRefund /\ DOMAIN refund' \subseteq 1..lastRefund'
      <3>1. lastRefund' \in 0..MaxRefund
        BY <1>1, <2>3, ConstantsType
      <3>2. DOMAIN refund' = DOMAIN refund \cup {lastRefund + 1}
        BY <2>3
      <3> QED
        BY <1>1, <2>3, <3>1, <3>2 DEF RowsInv
    <2>5. \A x \in DOMAIN refund' : refund'[x] \in Refund
      BY <1>1, <2>2, <2>3 DEF RowsInv
    <2>6. RowsInv'
      BY <1>1, <2>3, <2>4, <2>5 DEF RowsInv, Sound
    <2>7. outstanding' \in [Client -> Nat]
      BY <1>1, <2>2, <2>3, AccountType
    <2>8. receivable' \in Int
      BY <1>1, <2>2, <2>3
    <2> QED
      BY <1>1, <2>3, <2>6, <2>7, <2>8 DEF CountsInv, history
  <1>3. ASSUME NEW x \in DOMAIN refund, DeleteRefund(x) PROVE RowsInv' /\ CountsInv'
    <2>1. PICK d : d = refund[x]
      OBVIOUS
    <2>2. d.client \in Client /\ d.total \in Nat
      BY <1>1, <2>1, RefundType DEF RowsInv
    <2>3. /\ refund' = [y \in DOMAIN refund \ {x} |-> refund[y]]
          /\ receivable' = receivable + d.total
          /\ outstanding' = Owing(outstanding, d.client, d.total)
          /\ undone' = Owing(undone, d.client, d.total)
          /\ UNCHANGED <<invoice, lastInvoice, lastRefund, collected, cash, edits,
                         settled, waived, forgotten, doubled>>
      BY <1>3, <2>1 DEF DeleteRefund
    <2>4. RowsInv'
      BY <1>1, <2>3 DEF RowsInv, Sound
    <2>5. /\ outstanding' \in [Client -> Nat] /\ undone' \in [Client -> Nat]
      BY <1>1, <2>2, <2>3, AccountType
    <2>6. receivable' \in Int
      BY <1>1, <2>2, <2>3
    <2> QED
      BY <1>1, <2>3, <2>4, <2>5, <2>6 DEF CountsInv
  <1> QED
    BY <1>2, <1>3 DEF Refunding

LEMMA TypedStep == TypedInv /\ [Next]_vars => TypedInv'
  <1> SUFFICES ASSUME TypedInv, [Next]_vars PROVE TypedInv'
    OBVIOUS
  <1>1. GoodsInv'
    BY GoodsInvStep DEF TypedInv
  <1>2. CASE UNCHANGED vars
    BY <1>1, <1>2 DEF vars, accounts, history, TypedInv, RowsInv, CountsInv, Sound
  <1> QED
    BY <1>1, <1>2, InvoicingTyped, PayingTyped, SettlingTyped, RefundingTyped
    DEF Next, TypedInv

\* b2b.py, accounting.py: types; no order of the handlers makes a client owe less
\* than nothing.
THEOREM B2BTypeOK == Spec => []TypeOK
  <1>1. TypedInv => TypeOK
    <2> SUFFICES ASSUME TypedInv PROVE TypeOK
      OBVIOUS
    <2>1. stock \in [Product -> Int]
      BY DEF TypedInv, GoodsInv
    <2> QED
      BY <2>1 DEF TypedInv, RowsInv, CountsInv, TypeOK
  <1> QED
    BY <1>1, TypedInit, TypedStep, PTL DEF Spec
-----------------------------------------------------------------------------
\* What the rows of a table weigh in sum, w being what each one weighs.
Weigh(w) == SumFunction([i \in DOMAIN invoice |-> w[invoice[i]]])
Back(w) == SumFunction([x \in DOMAIN refund |-> w[refund[x]]])

Paid == [d \in Invoice |-> d.paid]
Unpaid == [d \in Invoice |-> Balance(d)]
Out(p) == [d \in Invoice |-> d.qty[p] - d.returned[p]]
Owed(c) == [d \in Invoice |-> IF d.client = c THEN Balance(d) ELSE 0]
Received == [d \in Invoice |-> IF d.type = "cash" THEN 0 ELSE d.paid]
Total == [d \in Refund |-> d.total]
Taken(p) == [d \in Refund |-> d.qty[p]]

LEMMA WeightsType ==
    /\ Paid \in [Invoice -> Int] /\ Unpaid \in [Invoice -> Int]
    /\ Received \in [Invoice -> Int] /\ Total \in [Refund -> Int]
    /\ \A p \in Product : Out(p) \in [Invoice -> Int] /\ Taken(p) \in [Refund -> Int]
    /\ \A c \in Client : Owed(c) \in [Invoice -> Int]
  <1>1. ASSUME NEW d \in Invoice
        PROVE  d.paid \in Int /\ Balance(d) \in Int
               /\ \A p \in Product : d.qty[p] - d.returned[p] \in Int
    BY InvoiceType
  <1>2. ASSUME NEW d \in Refund PROVE d.total \in Int /\ \A p \in Product : d.qty[p] \in Int
    BY RefundType
  <1> QED
    BY <1>1, <1>2 DEF Paid, Unpaid, Received, Total, Out, Taken, Owed

\* One row is written, changed or deleted; another may change in what is not weighed.
LEMMA WeighOne ==
    ASSUME RowsInv, RowsInv', NEW w \in [Invoice -> Int], NEW x,
           DOMAIN invoice \ {x} = DOMAIN invoice' \ {x},
           \A y \in DOMAIN invoice \ {x} : w[invoice'[y]] = w[invoice[y]]
    PROVE  /\ Weigh(w) \in Int /\ Weigh(w)' \in Int
           /\ Weigh(w)' = Weigh(w)
                - (IF x \in DOMAIN invoice THEN w[invoice[x]] ELSE 0)
                + (IF x \in DOMAIN invoice' THEN w[invoice'[x]] ELSE 0)
  <1>1. PICK S, T : S = DOMAIN invoice /\ T = DOMAIN invoice'
    OBVIOUS
  <1>2. IsFiniteSet(S)
    BY <1>1, RowsFinite
  <1>3. IsFiniteSet(T)
    <2>1. PICK m \in Int : T \subseteq 1..m
      BY <1>1 DEF RowsInv
    <2>2. IsFiniteSet(1..m)
      BY FS_Interval
    <2> QED
      BY <2>1, <2>2, FS_Subset
  <1>4. PICK f, g : /\ f = [i \in DOMAIN invoice |-> w[invoice[i]]]
                    /\ g = [i \in DOMAIN invoice' |-> w[invoice'[i]]]
    OBVIOUS
  <1>5. f \in [S -> Int] /\ g \in [T -> Int]
    BY <1>1, <1>4 DEF RowsInv
  <1>6. S \ {x} = T \ {x} /\ \A y \in S \ {x} : f[y] = g[y]
    BY <1>1, <1>4
  <1>7. /\ SumFunction(g) = SumFunction(f) - (IF x \in S THEN f[x] ELSE 0)
                                           + (IF x \in T THEN g[x] ELSE 0)
    BY <1>2, <1>3, <1>5, <1>6, SumDiffers
  <1>8. SumFunction(f) \in Int /\ SumFunction(g) \in Int
    BY <1>2, <1>3, <1>5, SumIsInt DEF SumFunction
  <1>9. Weigh(w) = SumFunction(f) /\ Weigh(w)' = SumFunction(g)
    BY <1>4 DEF Weigh
  <1> QED
    BY <1>1, <1>4, <1>7, <1>8, <1>9

LEMMA BackOne ==
    ASSUME RowsInv, RowsInv', NEW w \in [Refund -> Int], NEW x,
           DOMAIN refund \ {x} = DOMAIN refund' \ {x},
           \A y \in DOMAIN refund \ {x} : refund'[y] = refund[y]
    PROVE  /\ Back(w) \in Int /\ Back(w)' \in Int
           /\ Back(w)' = Back(w)
                - (IF x \in DOMAIN refund THEN w[refund[x]] ELSE 0)
                + (IF x \in DOMAIN refund' THEN w[refund'[x]] ELSE 0)
  <1>1. PICK S, T : S = DOMAIN refund /\ T = DOMAIN refund'
    OBVIOUS
  <1>2. IsFiniteSet(S)
    BY <1>1, RowsFinite
  <1>3. IsFiniteSet(T)
    <2>1. PICK m \in Int : T \subseteq 1..m
      BY <1>1 DEF RowsInv
    <2>2. IsFiniteSet(1..m)
      BY FS_Interval
    <2> QED
      BY <2>1, <2>2, FS_Subset
  <1>4. PICK f, g : /\ f = [i \in DOMAIN refund |-> w[refund[i]]]
                    /\ g = [i \in DOMAIN refund' |-> w[refund'[i]]]
    OBVIOUS
  <1>5. f \in [S -> Int] /\ g \in [T -> Int]
    BY <1>1, <1>4 DEF RowsInv
  <1>6. S \ {x} = T \ {x} /\ \A y \in S \ {x} : f[y] = g[y]
    BY <1>1, <1>4
  <1>7. /\ SumFunction(g) = SumFunction(f) - (IF x \in S THEN f[x] ELSE 0)
                                           + (IF x \in T THEN g[x] ELSE 0)
    BY <1>2, <1>3, <1>5, <1>6, SumDiffers
  <1>8. SumFunction(f) \in Int /\ SumFunction(g) \in Int
    BY <1>2, <1>3, <1>5, SumIsInt DEF SumFunction
  <1>9. Back(w) = SumFunction(f) /\ Back(w)' = SumFunction(g)
    BY <1>4 DEF Back
  <1> QED
    BY <1>1, <1>4, <1>7, <1>8, <1>9

\* No row weighs less than nothing: nor do all.
OwedIsNat == \A c \in Client : Weigh(Owed(c)) \in Nat

LEMMA OwedNat == RowsInv => OwedIsNat
  <1> SUFFICES ASSUME RowsInv, NEW c \in Client PROVE Weigh(Owed(c)) \in Nat
    BY DEF OwedIsNat
  <1>1. PICK f : f = [i \in DOMAIN invoice |-> Owed(c)[invoice[i]]]
    OBVIOUS
  <1>2. ASSUME NEW i \in DOMAIN invoice PROVE f[i] \in Nat
    <2>1. invoice[i] \in Invoice /\ Sound(invoice[i])
      BY DEF RowsInv
    <2>2. Balance(invoice[i]) \in Nat
      BY <2>1, InvoiceType DEF Sound
    <2> QED
      BY <1>1, <2>1, <2>2 DEF Owed
  <1>3. SumFunctionOnSet(f, DOMAIN invoice) \in Nat
    BY <1>2, RowsFinite, SumNat
  <1> QED
    BY <1>1, <1>3 DEF Weigh, SumFunction

LEMMA WeightsAt ==
    ASSUME NEW d \in Invoice
    PROVE  /\ Paid[d] = d.paid /\ Unpaid[d] = Balance(d)
           /\ Received[d] = IF d.type = "cash" THEN 0 ELSE d.paid
           /\ \A p : Out(p)[d] = d.qty[p] - d.returned[p]
           /\ \A c : Owed(c)[d] = IF d.client = c THEN Balance(d) ELSE 0
  BY DEF Paid, Unpaid, Received, Out, Owed

\* What a step does to every sum over the invoices, or over the refunds.
Gains(d) == \A w \in [Invoice -> Int] : Weigh(w) \in Int /\ Weigh(w)' = Weigh(w) + w[d]
Loses(d) == \A w \in [Invoice -> Int] : Weigh(w) \in Int /\ Weigh(w)' = Weigh(w) - w[d]
Swaps(d, e) ==
    \A w \in [Invoice -> Int] : Weigh(w) \in Int /\ Weigh(w)' = Weigh(w) - w[d] + w[e]
BackStays == \A w \in [Refund -> Int] : Back(w) \in Int /\ Back(w)' = Back(w)

LEMMA StoreGains ==
    ASSUME RowsInv, RowsInv', NEW i, i \notin DOMAIN invoice, NEW d \in Invoice, Store(i, d)
    PROVE  Gains(d)
  <1>1. /\ DOMAIN invoice' = DOMAIN invoice \cup {i} /\ invoice'[i] = d
        /\ \A y \in DOMAIN invoice \ {i} : invoice'[y] = invoice[y]
    BY DEF Store
  <1> SUFFICES ASSUME NEW w \in [Invoice -> Int]
               PROVE  Weigh(w) \in Int /\ Weigh(w)' = Weigh(w) + w[d]
    BY DEF Gains
  <1>2. DOMAIN invoice \ {i} = DOMAIN invoice' \ {i}
    BY <1>1
  <1>3. /\ Weigh(w) \in Int
        /\ Weigh(w)' = Weigh(w) - (IF i \in DOMAIN invoice THEN w[invoice[i]] ELSE 0)
                                + (IF i \in DOMAIN invoice' THEN w[invoice'[i]] ELSE 0)
    BY <1>1, <1>2, WeighOne
  <1>4. w[d] \in Int
    OBVIOUS
  <1> QED
    BY <1>1, <1>3, <1>4

LEMMA StoreSwaps ==
    ASSUME RowsInv, RowsInv', NEW i \in DOMAIN invoice, NEW d \in Invoice, Store(i, d)
    PROVE  Swaps(invoice[i], d)
  <1>1. /\ DOMAIN invoice' = DOMAIN invoice /\ invoice'[i] = d
        /\ \A y \in DOMAIN invoice \ {i} : invoice'[y] = invoice[y]
    BY DEF Store
  <1> SUFFICES ASSUME NEW w \in [Invoice -> Int]
               PROVE  Weigh(w) \in Int /\ Weigh(w)' = Weigh(w) - w[invoice[i]] + w[d]
    BY DEF Swaps
  <1>2. /\ Weigh(w) \in Int
        /\ Weigh(w)' = Weigh(w) - (IF i \in DOMAIN invoice THEN w[invoice[i]] ELSE 0)
                                + (IF i \in DOMAIN invoice' THEN w[invoice'[i]] ELSE 0)
    BY <1>1, WeighOne
  <1> QED
    BY <1>1, <1>2

LEMMA DeleteLoses ==
    ASSUME RowsInv, RowsInv', NEW i \in DOMAIN invoice,
           invoice' = [x \in DOMAIN invoice \ {i} |-> invoice[x]]
    PROVE  Loses(invoice[i])
  <1>1. /\ i \notin DOMAIN invoice'
        /\ \A y \in DOMAIN invoice \ {i} : invoice'[y] = invoice[y]
    OBVIOUS
  <1> SUFFICES ASSUME NEW w \in [Invoice -> Int]
               PROVE  Weigh(w) \in Int /\ Weigh(w)' = Weigh(w) - w[invoice[i]]
    BY DEF Loses
  <1>2. DOMAIN invoice \ {i} = DOMAIN invoice' \ {i}
    OBVIOUS
  <1>3. /\ Weigh(w) \in Int
        /\ Weigh(w)' = Weigh(w) - (IF i \in DOMAIN invoice THEN w[invoice[i]] ELSE 0)
                                + (IF i \in DOMAIN invoice' THEN w[invoice'[i]] ELSE 0)
    BY <1>1, <1>2, WeighOne
  <1>4. w[invoice[i]] \in Int
    BY DEF RowsInv
  <1> QED
    BY <1>1, <1>3, <1>4

LEMMA RefundsStay == ASSUME RowsInv, RowsInv', refund' = refund PROVE BackStays
  <1> SUFFICES ASSUME NEW w \in [Refund -> Int] PROVE Back(w) \in Int /\ Back(w)' = Back(w)
    BY DEF BackStays
  <1>1. Back(w) \in Int
    BY BackOne
  <1> QED
    BY <1>1 DEF Back

\* The equations of the books, each over sums of rows.
GoodsSum ==
    \A p \in Product \ doubled :
        stock[p] = OpeningStock[p] - Weigh(Out(p)) + Back(Taken(p))
CashSum == cash = Weigh(Paid) + settled + forgotten
ClaimSum == receivable = Weigh(Unpaid) - Back(Total) - waived - settled - forgotten
OwedSum == \A c \in Client : outstanding[c] <= Weigh(Owed(c)) + undone[c]
ReceivedSum == collected = Weigh(Received) + forgotten
SumsInv == GoodsSum /\ CashSum /\ ClaimSum /\ OwedSum /\ ReceivedSum

LEMMA SumsInit == Init => SumsInv
  <1> SUFFICES ASSUME Init PROVE SumsInv
    OBVIOUS
  <1>1. PICK e : e = [i \in {} |-> 0]
    OBVIOUS
  <1>2. DOMAIN invoice = {} /\ DOMAIN refund = {}
    BY DEF Init
  <1>3. ASSUME NEW w PROVE Weigh(w) = 0 /\ Back(w) = 0
    BY <1>2, SumEmpty DEF Weigh, Back, SumFunction
  <1> QED
    BY <1>3, ConstantsType DEF Init, SumsInv, GoodsSum, CashSum, ClaimSum, OwedSum,
                               ReceivedSum, Basket

\* The reversal of an invoice d, in the accounts: what was paid on an invoice that
\* was not a cash one stays in cash, and is lost to the invoice.
Lost(d) == IF d.type = "cash" THEN 0 ELSE d.paid

LEMMA ReversedType ==
    ASSUME NEW d \in Invoice, Sound(d), outstanding \in [Client -> Nat],
           cash \in Int, receivable \in Int
    PROVE  /\ Lost(d) \in Nat /\ Balance(d) \in Nat /\ d.paid \in Nat
           /\ CashWithout(d) = cash - d.paid + Lost(d)
           /\ ReceivableWithout(d) = receivable - Balance(d) - Lost(d)
           /\ CashWithout(d) \in Int /\ ReceivableWithout(d) \in Int
           /\ OutstandingWithout(d) \in [Client -> Nat]
           /\ \A y \in Client :
                 OutstandingWithout(d)[y] =
                   IF y = d.client
                   THEN IF outstanding[y] > Balance(d) THEN outstanding[y] - Balance(d) ELSE 0
                   ELSE outstanding[y]
  <1>1. /\ d.paid \in Nat /\ d.total \in Nat /\ Balance(d) = d.total - d.paid
        /\ d.client \in Client
    BY InvoiceType
  <1>2. Balance(d) \in Nat /\ (d.type = "cash" => Balance(d) = 0 /\ d.total = d.paid)
    BY <1>1 DEF Sound
  <1>3. /\ Lost(d) \in Nat
        /\ CashWithout(d) = cash - d.paid + Lost(d)
        /\ ReceivableWithout(d) = receivable - Balance(d) - Lost(d)
        /\ CashWithout(d) \in Int /\ ReceivableWithout(d) \in Int
    BY <1>1, <1>2 DEF Lost, CashWithout, ReceivableWithout
  <1>4. OutstandingWithout(d) \in [Client -> Nat]
    BY <1>1, <1>2, AccountType DEF OutstandingWithout
  <1>5. ASSUME NEW y \in Client
        PROVE  OutstandingWithout(d)[y] =
                 IF y = d.client
                 THEN IF outstanding[y] > Balance(d) THEN outstanding[y] - Balance(d) ELSE 0
                 ELSE outstanding[y]
    <2>1. outstanding[y] \in Nat
      OBVIOUS
    <2>2. CASE d.type = "cash"
      BY <1>2, <2>1, <2>2 DEF OutstandingWithout
    <2>3. CASE d.type # "cash"
      <3>1. PICK n \in Nat, x \in Client : n = Balance(d) /\ x = d.client
        BY <1>1, <1>2
      <3>2. OutstandingWithout(d) = Less(outstanding, x, n)
        BY <2>3, <3>1 DEF OutstandingWithout
      <3>3. \A z \in Client :
              Less(outstanding, x, n)[z] =
                IF z = x THEN IF outstanding[z] > n THEN outstanding[z] - n ELSE 0
                ELSE outstanding[z]
        BY <3>1 DEF Less
      <3> QED
        BY <3>1, <3>2, <3>3
    <2> QED
      BY <2>2, <2>3
  <1> QED
    BY <1>1, <1>2, <1>3, <1>4, <1>5

LEMMA CreateSums ==
    ASSUME TypedInv, TypedInv', SumsInv, NEW c \in Client, NEW type \in Terms, NEW b \in Body,
           CreateInvoice(c, type, b)
    PROVE  SumsInv'
  <1>1. PICK d : d = Fresh(c, type, b)
    OBVIOUS
  <1>2. /\ d \in Invoice /\ d.client = c /\ d.qty = b /\ d.returned = Empty
        /\ d.paid \in Nat /\ Balance(d) \in Nat
        /\ d.type = "cash" => Balance(d) = 0
        /\ d.type # "cash" => d.paid = 0
    BY <1>1, FreshType, InvoiceType DEF Sound
  <1>3. /\ Store(lastInvoice + 1, d)
        /\ stock' = Minus(stock, b) /\ cash' = cash + d.paid
        /\ receivable' = receivable + Balance(d)
        /\ outstanding' = Owing(outstanding, c, Balance(d))
        /\ UNCHANGED <<refund, lastRefund, collected, edits, history>>
    BY <1>1 DEF CreateInvoice
  <1>4. /\ RowsInv /\ RowsInv' /\ stock \in [Product -> Nat] /\ cash \in Int
        /\ receivable \in Int /\ outstanding \in [Client -> Nat] /\ collected \in Nat
        /\ settled \in Nat /\ waived \in Nat /\ forgotten \in Nat
        /\ undone \in [Client -> Nat]
    BY DEF TypedInv, GoodsInv, CountsInv
  <1>5. lastInvoice + 1 \notin DOMAIN invoice
    BY <1>4 DEF RowsInv
  <1>6. Gains(d) /\ BackStays
    BY <1>2, <1>3, <1>4, <1>5, StoreGains, RefundsStay
  <1>7. GoodsSum'
    <2> SUFFICES ASSUME NEW p \in Product \ doubled
                 PROVE  stock'[p] = OpeningStock[p] - Weigh(Out(p))' + Back(Taken(p))'
      BY <1>3 DEF GoodsSum, history
    <2>1. PICK out, back \in Int : out = Weigh(Out(p)) /\ back = Back(Taken(p))
      BY <1>6, WeightsType DEF Gains, BackStays
    <2>2. Weigh(Out(p))' = out + b[p] - 0 /\ Back(Taken(p))' = back
      <3>1. Out(p)[d] = b[p] - 0
        BY <1>2, WeightsAt DEF Empty
      <3>2. b[p] \in Nat
        BY ConstantsType
      <3> QED
        BY <1>6, <2>1, <3>1, <3>2, WeightsType DEF Gains, BackStays
    <2>3. stock[p] = OpeningStock[p] - out + back
      BY <2>1 DEF SumsInv, GoodsSum
    <2>4. b[p] \in Nat /\ stock[p] \in Nat /\ OpeningStock[p] \in Nat
      BY <1>4, ConstantsType DEF Basket
    <2>5. stock'[p] = stock[p] - b[p]
      BY <1>3 DEF Minus
    <2> QED
      BY <2>2, <2>3, <2>4, <2>5
  <1>8. CashSum'
    <2>1. Weigh(Paid) \in Int /\ Weigh(Paid)' = Weigh(Paid) + d.paid
      BY <1>2, <1>6, WeightsType, WeightsAt DEF Gains
    <2> QED
      BY <1>2, <1>3, <1>4, <2>1 DEF SumsInv, CashSum, history
  <1>9. ClaimSum'
    <2>1. Weigh(Unpaid) \in Int /\ Weigh(Unpaid)' = Weigh(Unpaid) + Balance(d)
      BY <1>2, <1>6, WeightsType, WeightsAt DEF Gains
    <2>2. Back(Total) \in Int /\ Back(Total)' = Back(Total)
      BY <1>6, WeightsType DEF BackStays
    <2> QED
      BY <1>2, <1>3, <1>4, <2>1, <2>2 DEF SumsInv, ClaimSum, history
  <1>10. OwedSum'
    <2> SUFFICES ASSUME NEW y \in Client
                 PROVE  outstanding'[y] <= Weigh(Owed(y))' + undone'[y]
      BY DEF OwedSum
    <2>1. PICK owed \in Int : owed = Weigh(Owed(y))
      BY <1>6, WeightsType DEF Gains
    <2>2. Weigh(Owed(y))' = owed + (IF c = y THEN Balance(d) ELSE 0)
      BY <1>2, <1>6, <2>1, WeightsType, WeightsAt DEF Gains
    <2>4. outstanding[y] \in Nat /\ undone[y] \in Nat /\ undone' = undone
      BY <1>3, <1>4 DEF history
    <2>3. outstanding'[y] = outstanding[y] + (IF c = y THEN Balance(d) ELSE 0)
      <3>1. \A z \in Client :
              Owing(outstanding, c, Balance(d))[z] =
                IF z = c THEN outstanding[z] + Balance(d) ELSE outstanding[z]
        BY <1>2, <1>4 DEF Owing
      <3> QED
        BY <1>3, <2>4, <3>1
    <2>5. outstanding[y] <= owed + undone[y]
      BY <2>1 DEF SumsInv, OwedSum
    <2> QED
      BY <1>2, <2>2, <2>3, <2>4, <2>5
  <1>11. ReceivedSum'
    <2>1. Weigh(Received) \in Int /\ Weigh(Received)' = Weigh(Received) + 0
      BY <1>2, <1>6, WeightsType, WeightsAt DEF Gains
    <2> QED
      BY <1>3, <1>4, <2>1 DEF SumsInv, ReceivedSum, history
  <1> QED
    BY <1>7, <1>8, <1>9, <1>10, <1>11 DEF SumsInv

LEMMA TypedFacts ==
    ASSUME TypedInv
    PROVE  /\ RowsInv /\ stock \in [Product -> Nat] /\ cash \in Int
           /\ receivable \in Int /\ outstanding \in [Client -> Nat] /\ collected \in Nat
           /\ settled \in Nat /\ waived \in Nat /\ forgotten \in Nat
           /\ undone \in [Client -> Nat]
  BY DEF TypedInv, GoodsInv, CountsInv

\* A row is part of the sum.
LEMMA OwedAtLeast ==
    ASSUME RowsInv, NEW c \in Client, NEW i \in DOMAIN invoice
    PROVE  Weigh(Owed(c)) \in Nat /\ Owed(c)[invoice[i]] <= Weigh(Owed(c))
  <1>1. PICK f : f = [j \in DOMAIN invoice |-> Owed(c)[invoice[j]]]
    OBVIOUS
  <1>2. PICK S : S = DOMAIN invoice
    OBVIOUS
  <1>3. ASSUME NEW j \in S PROVE f[j] \in Nat
    <2>1. invoice[j] \in Invoice /\ Sound(invoice[j])
      BY <1>2 DEF RowsInv
    <2>2. Balance(invoice[j]) \in Nat
      BY <2>1, InvoiceType DEF Sound
    <2> QED
      BY <1>1, <1>2, <2>1, <2>2 DEF Owed
  <1>4. IsFiniteSet(S) /\ IsFiniteSet(S \ {i}) /\ i \in S
    BY <1>2, RowsFinite, FS_Subset
  <1>5. SumFunctionOnSet(f, S \ {i}) \in Nat
    BY <1>3, <1>4, SumNat
  <1>6. SumFunctionOnSet(f, S) = f[i] + SumFunctionOnSet(f, S \ {i})
    BY <1>3, <1>4, SumTakesOut
  <1>7. f[i] \in Nat
    BY <1>3, <1>4
  <1>8. SumFunctionOnSet(f, S) \in Nat /\ f[i] <= SumFunctionOnSet(f, S)
    BY <1>5, <1>6, <1>7
  <1>9. Weigh(Owed(c)) = SumFunctionOnSet(f, S) /\ f[i] = Owed(c)[invoice[i]]
    BY <1>1, <1>2 DEF Weigh, SumFunction
  <1> QED
    BY <1>8, <1>9

LEMMA EditSums ==
    ASSUME TypedInv, TypedInv', SumsInv, NEW c \in Client, NEW type \in Terms, NEW b \in Body,
           NEW i \in DOMAIN invoice, EditInvoice(i, c, type, b)
    PROVE  SumsInv'
  <1>1. PICK d, old : d = Fresh(c, type, b) /\ old = invoice[i]
    OBVIOUS
  <1>2. /\ d \in Invoice /\ d.client = c /\ d.qty = b /\ d.returned = Empty
        /\ d.paid \in Nat /\ Balance(d) \in Nat
        /\ d.type = "cash" => Balance(d) = 0
        /\ d.type # "cash" => d.paid = 0
    BY <1>1, FreshType, InvoiceType DEF Sound
  <1>3. /\ Store(i, d)
        /\ stock' = Minus(Plus(stock, old.qty), b) /\ cash' = CashWithout(old) + d.paid
        /\ receivable' = ReceivableWithout(old) + Balance(d)
        /\ outstanding' = Owing(OutstandingWithout(old), c, Balance(d))
        /\ forgotten' = forgotten + Lost(old)
        /\ doubled' = doubled \cup Lines(old.returned)
        /\ UNCHANGED <<refund, lastRefund, collected, settled, waived, undone>>
    BY <1>1 DEF EditInvoice, Reversed, Lost
  <1>4. /\ RowsInv /\ RowsInv' /\ stock \in [Product -> Nat] /\ cash \in Int
        /\ receivable \in Int /\ outstanding \in [Client -> Nat] /\ collected \in Nat
        /\ settled \in Nat /\ waived \in Nat /\ forgotten \in Nat
        /\ undone \in [Client -> Nat]
    BY TypedFacts DEF TypedInv
  <1>5. old \in Invoice /\ Sound(old)
    BY <1>1, <1>4 DEF RowsInv
  <1>6. Swaps(old, d) /\ BackStays
    BY <1>1, <1>2, <1>3, <1>4, StoreSwaps, RefundsStay
  <1>7. /\ Lost(old) \in Nat /\ Balance(old) \in Nat /\ old.paid \in Nat
        /\ CashWithout(old) = cash - old.paid + Lost(old)
        /\ ReceivableWithout(old) = receivable - Balance(old) - Lost(old)
        /\ OutstandingWithout(old) \in [Client -> Nat]
        /\ \A y \in Client :
              OutstandingWithout(old)[y] =
                IF y = old.client
                THEN IF outstanding[y] > Balance(old) THEN outstanding[y] - Balance(old) ELSE 0
                ELSE outstanding[y]
    BY <1>4, <1>5, ReversedType
  <1>8. GoodsSum'
    <2> SUFFICES ASSUME NEW p \in Product \ doubled'
                 PROVE  stock'[p] = OpeningStock[p] - Weigh(Out(p))' + Back(Taken(p))'
      BY DEF GoodsSum
    <2>1. PICK out, back \in Int : out = Weigh(Out(p)) /\ back = Back(Taken(p))
      BY <1>6, WeightsType DEF Swaps, BackStays
    <2>2. b[p] \in Nat /\ stock[p] \in Nat /\ OpeningStock[p] \in Nat /\ old.qty[p] \in Nat
      BY <1>4, <1>5, ConstantsType, InvoiceType DEF Basket
    <2>3. old.returned[p] = 0
      <3>1. p \notin Lines(old.returned) /\ old.returned[p] \in Nat
        BY <1>3, <1>5, InvoiceType
      <3> QED
        BY <3>1 DEF Lines
    <2>4. Out(p)[d] = b[p] /\ Out(p)[old] = old.qty[p]
      <3>1. Out(p)[d] = b[p] - 0 /\ Out(p)[old] = old.qty[p] - 0
        BY <1>2, <1>5, <2>3, WeightsAt DEF Empty
      <3> QED
        BY <2>2, <3>1
    <2>5. Weigh(Out(p))' = out - old.qty[p] + b[p] /\ Back(Taken(p))' = back
      BY <1>6, <2>1, <2>4, WeightsType DEF Swaps, BackStays
    <2>6. stock[p] = OpeningStock[p] - out + back
      BY <1>3, <2>1 DEF SumsInv, GoodsSum
    <2>7. stock'[p] = (stock[p] + old.qty[p]) - b[p]
      BY <1>3 DEF Minus, Plus
    <2> QED
      BY <2>2, <2>5, <2>6, <2>7
  <1>9. CashSum'
    <2>1. Weigh(Paid) \in Int /\ Weigh(Paid)' = Weigh(Paid) - old.paid + d.paid
      BY <1>2, <1>5, <1>6, WeightsType, WeightsAt DEF Swaps
    <2> QED
      BY <1>2, <1>3, <1>4, <1>7, <2>1 DEF SumsInv, CashSum
  <1>10. ClaimSum'
    <2>1. Weigh(Unpaid) \in Int /\ Weigh(Unpaid)' = Weigh(Unpaid) - Balance(old) + Balance(d)
      BY <1>2, <1>5, <1>6, WeightsType, WeightsAt DEF Swaps
    <2>2. Back(Total) \in Int /\ Back(Total)' = Back(Total)
      BY <1>6, WeightsType DEF BackStays
    <2> QED
      BY <1>2, <1>3, <1>4, <1>7, <2>1, <2>2 DEF SumsInv, ClaimSum
  <1>11. OwedSum'
    <2> SUFFICES ASSUME NEW y \in Client
                 PROVE  outstanding'[y] <= Weigh(Owed(y))' + undone'[y]
      BY DEF OwedSum
    <2>1. PICK owed \in Int : owed = Weigh(Owed(y))
      BY <1>6, WeightsType DEF Swaps
    <2>2. PICK lose, gain \in Nat : /\ lose = IF old.client = y THEN Balance(old) ELSE 0
                                    /\ gain = IF c = y THEN Balance(d) ELSE 0
      BY <1>2, <1>7
    <2>3. Weigh(Owed(y))' = owed - lose + gain
      BY <1>2, <1>5, <1>6, <2>1, <2>2, WeightsType, WeightsAt DEF Swaps
    <2>4. PICK left \in Nat : left = OutstandingWithout(old)[y]
      BY <1>7
    <2>5. outstanding'[y] = left + gain
      BY <1>2, <1>3, <1>7, <2>2, <2>4 DEF Owing
    <2>6. outstanding[y] \in Nat /\ undone[y] \in Nat /\ undone' = undone
      BY <1>3, <1>4
    <2>7. left = IF outstanding[y] > lose THEN outstanding[y] - lose ELSE 0
      BY <1>7, <2>2, <2>4, <2>6
    <2>8. outstanding[y] <= owed + undone[y]
      BY <2>1 DEF SumsInv, OwedSum
    <2>9. lose <= owed
      <3>1. Owed(y)[old] = lose
        BY <1>5, <2>2, WeightsAt
      <3> QED
        BY <1>1, <1>4, <2>1, <3>1, OwedAtLeast
    <2>10. left + gain <= owed - lose + gain + undone[y]
      BY <2>1, <2>2, <2>6, <2>7, <2>8, <2>9
    <2> QED
      BY <2>3, <2>5, <2>6, <2>10
  <1>12. ReceivedSum'
    <2>1. Weigh(Received) \in Int /\ Weigh(Received)' = Weigh(Received) - Lost(old) + 0
      BY <1>2, <1>5, <1>6, WeightsType, WeightsAt DEF Swaps, Lost
    <2> QED
      BY <1>3, <1>4, <1>7, <2>1 DEF SumsInv, ReceivedSum
  <1> QED
    BY <1>8, <1>9, <1>10, <1>11, <1>12 DEF SumsInv

LEMMA DeleteSums ==
    ASSUME TypedInv, TypedInv', SumsInv, NEW i \in DOMAIN invoice, DeleteInvoice(i)
    PROVE  SumsInv'
  <1>1. PICK d : d = invoice[i]
    OBVIOUS
  <1>2. /\ invoice' = [x \in DOMAIN invoice \ {i} |-> invoice[x]]
        /\ stock' = Plus(stock, d.qty) /\ cash' = CashWithout(d)
        /\ receivable' = ReceivableWithout(d) /\ outstanding' = OutstandingWithout(d)
        /\ forgotten' = forgotten + Lost(d)
        /\ doubled' = doubled \cup Lines(d.returned)
        /\ UNCHANGED <<refund, lastRefund, collected, settled, waived, undone>>
    BY <1>1 DEF DeleteInvoice, Reversed, Lost
  <1>3. /\ RowsInv /\ RowsInv' /\ stock \in [Product -> Nat] /\ cash \in Int
        /\ receivable \in Int /\ outstanding \in [Client -> Nat] /\ collected \in Nat
        /\ settled \in Nat /\ waived \in Nat /\ forgotten \in Nat
        /\ undone \in [Client -> Nat]
    BY TypedFacts DEF TypedInv
  <1>4. d \in Invoice /\ Sound(d)
    BY <1>1, <1>3 DEF RowsInv
  <1>5. Loses(d) /\ BackStays
    BY <1>1, <1>2, <1>3, DeleteLoses, RefundsStay
  <1>6. /\ Lost(d) \in Nat /\ Balance(d) \in Nat /\ d.paid \in Nat
        /\ CashWithout(d) = cash - d.paid + Lost(d)
        /\ ReceivableWithout(d) = receivable - Balance(d) - Lost(d)
        /\ \A y \in Client :
              OutstandingWithout(d)[y] =
                IF y = d.client
                THEN IF outstanding[y] > Balance(d) THEN outstanding[y] - Balance(d) ELSE 0
                ELSE outstanding[y]
    BY <1>3, <1>4, ReversedType
  <1>7. GoodsSum'
    <2> SUFFICES ASSUME NEW p \in Product \ doubled'
                 PROVE  stock'[p] = OpeningStock[p] - Weigh(Out(p))' + Back(Taken(p))'
      BY DEF GoodsSum
    <2>1. PICK out, back \in Int : out = Weigh(Out(p)) /\ back = Back(Taken(p))
      BY <1>5, WeightsType DEF Loses, BackStays
    <2>2. stock[p] \in Nat /\ OpeningStock[p] \in Nat /\ d.qty[p] \in Nat
      BY <1>3, <1>4, ConstantsType, InvoiceType DEF Basket
    <2>3. d.returned[p] = 0
      <3>1. p \notin Lines(d.returned) /\ d.returned[p] \in Nat
        BY <1>2, <1>4, InvoiceType
      <3> QED
        BY <3>1 DEF Lines
    <2>4. Out(p)[d] = d.qty[p]
      BY <1>4, <2>2, <2>3, WeightsAt
    <2>5. Weigh(Out(p))' = out - d.qty[p] /\ Back(Taken(p))' = back
      BY <1>5, <2>1, <2>4, WeightsType DEF Loses, BackStays
    <2>6. stock[p] = OpeningStock[p] - out + back
      BY <1>2, <2>1 DEF SumsInv, GoodsSum
    <2>7. stock'[p] = stock[p] + d.qty[p]
      BY <1>2 DEF Plus
    <2> QED
      BY <2>2, <2>5, <2>6, <2>7
  <1>8. CashSum'
    <2>1. Weigh(Paid) \in Int /\ Weigh(Paid)' = Weigh(Paid) - d.paid
      BY <1>4, <1>5, WeightsType, WeightsAt DEF Loses
    <2> QED
      BY <1>2, <1>3, <1>6, <2>1 DEF SumsInv, CashSum
  <1>9. ClaimSum'
    <2>1. Weigh(Unpaid) \in Int /\ Weigh(Unpaid)' = Weigh(Unpaid) - Balance(d)
      BY <1>4, <1>5, WeightsType, WeightsAt DEF Loses
    <2>2. Back(Total) \in Int /\ Back(Total)' = Back(Total)
      BY <1>5, WeightsType DEF BackStays
    <2> QED
      BY <1>2, <1>3, <1>6, <2>1, <2>2 DEF SumsInv, ClaimSum
  <1>10. OwedSum'
    <2> SUFFICES ASSUME NEW y \in Client
                 PROVE  outstanding'[y] <= Weigh(Owed(y))' + undone'[y]
      BY DEF OwedSum
    <2>1. PICK owed \in Int : owed = Weigh(Owed(y))
      BY <1>5, WeightsType DEF Loses
    <2>2. PICK lose \in Nat : lose = IF d.client = y THEN Balance(d) ELSE 0
      BY <1>6
    <2>3. Owed(y)[d] = lose
      BY <1>4, <2>2, WeightsAt
    <2>4. Weigh(Owed(y))' = owed - lose
      BY <1>5, <2>1, <2>3, WeightsType DEF Loses
    <2>5. lose <= owed
      BY <1>1, <1>3, <2>1, <2>3, OwedAtLeast
    <2>6. outstanding[y] \in Nat /\ undone[y] \in Nat /\ undone' = undone
      BY <1>2, <1>3
    <2>7. outstanding'[y] = IF outstanding[y] > lose THEN outstanding[y] - lose ELSE 0
      BY <1>2, <1>6, <2>2, <2>6
    <2>8. outstanding[y] <= owed + undone[y]
      BY <2>1 DEF SumsInv, OwedSum
    <2> QED
      BY <2>4, <2>5, <2>6, <2>7, <2>8
  <1>11. ReceivedSum'
    <2>1. Weigh(Received) \in Int /\ Weigh(Received)' = Weigh(Received) - Lost(d)
      BY <1>4, <1>5, WeightsType, WeightsAt DEF Loses, Lost
    <2> QED
      BY <1>2, <1>3, <1>6, <2>1 DEF SumsInv, ReceivedSum
  <1> QED
    BY <1>7, <1>8, <1>9, <1>10, <1>11 DEF SumsInv

LEMMA LessAt ==
    ASSUME NEW o \in [Client -> Nat], NEW c \in Client, NEW n \in Nat, NEW y \in Client
    PROVE  /\ Less(o, c, n)[y] = IF y = c THEN IF o[y] > n THEN o[y] - n ELSE 0 ELSE o[y]
           /\ Less(o, c, n)[y] \in Nat /\ o[y] \in Nat /\ Less(o, c, n)[y] <= o[y]
  BY DEF Less

\* A payment on one invoice.
LEMMA PaidOneSums ==
    ASSUME TypedInv, TypedInv', SumsInv, NEW i \in DOMAIN invoice, NEW n \in Nat \ {0},
           PaidOne(i, n)
    PROVE  SumsInv'
  <1>1. PICK d : d = invoice[i]
    OBVIOUS
  <1>2. /\ RowsInv /\ RowsInv' /\ stock \in [Product -> Nat] /\ cash \in Int
        /\ receivable \in Int /\ outstanding \in [Client -> Nat] /\ collected \in Nat
        /\ settled \in Nat /\ waived \in Nat /\ forgotten \in Nat
        /\ undone \in [Client -> Nat]
    BY TypedFacts DEF TypedInv
  <1>3. d \in Invoice /\ Sound(d) /\ d.client \in Client /\ d.paid \in Nat /\ Balance(d) \in Int
    BY <1>1, <1>2, InvoiceType DEF RowsInv
  <1>4. PICK status \in {"unpaid", "partial", "paid"} :
          /\ status = "paid" => d.paid + n = d.total
          /\ Store(i, Paying1(d, n, status))
    BY <1>1 DEF PaidOne
  <1>5. /\ n <= Balance(d) /\ cash' = cash + n /\ receivable' = receivable - n
        /\ outstanding' = Less(outstanding, d.client, n) /\ collected' = collected + n
        /\ UNCHANGED <<stock, refund, lastInvoice, lastRefund, edits, history>>
    BY <1>1 DEF PaidOne, Receive
  <1>6. PICK e : e = Paying1(d, n, status)
    OBVIOUS
  <1>7. /\ e \in Invoice /\ d.type # "cash"
        /\ e.client = d.client /\ e.type = d.type /\ e.qty = d.qty
        /\ e.returned = d.returned
        /\ e.paid = d.paid + n /\ Balance(e) = Balance(d) - n
    BY <1>3, <1>4, <1>5, <1>6, PaidType
  <1>8. Swaps(d, e) /\ BackStays
    BY <1>1, <1>2, <1>4, <1>5, <1>6, <1>7, StoreSwaps, RefundsStay
  <1>9. GoodsSum'
    <2> SUFFICES ASSUME NEW p \in Product \ doubled
                 PROVE  stock'[p] = OpeningStock[p] - Weigh(Out(p))' + Back(Taken(p))'
      BY <1>5 DEF GoodsSum, history
    <2>1. PICK out, back \in Int : out = Weigh(Out(p)) /\ back = Back(Taken(p))
      BY <1>8, WeightsType DEF Swaps, BackStays
    <2>2. PICK k \in Int : k = Out(p)[d] /\ k = Out(p)[e]
      <3>1. Out(p)[d] = Out(p)[e]
        BY <1>3, <1>7, WeightsAt
      <3> QED
        BY <1>3, <3>1, WeightsType
    <2>3. Weigh(Out(p))' = out - k + k /\ Back(Taken(p))' = back
      BY <1>8, <2>1, <2>2, WeightsType DEF Swaps, BackStays
    <2>4. stock[p] = OpeningStock[p] - out + back
      BY <2>1 DEF SumsInv, GoodsSum
    <2>5. Weigh(Out(p))' = out
      BY <2>1, <2>3
    <2> QED
      BY <1>5, <2>3, <2>4, <2>5
  <1>10. CashSum'
    <2>1. Weigh(Paid) \in Int /\ Weigh(Paid)' = Weigh(Paid) - d.paid + (d.paid + n)
      BY <1>3, <1>7, <1>8, WeightsType, WeightsAt DEF Swaps
    <2> QED
      BY <1>2, <1>3, <1>5, <2>1 DEF SumsInv, CashSum, history
  <1>11. ClaimSum'
    <2>1. /\ Weigh(Unpaid) \in Int
          /\ Weigh(Unpaid)' = Weigh(Unpaid) - Balance(d) + (Balance(d) - n)
      BY <1>3, <1>7, <1>8, WeightsType, WeightsAt DEF Swaps
    <2>2. Back(Total) \in Int /\ Back(Total)' = Back(Total)
      BY <1>8, WeightsType DEF BackStays
    <2> QED
      BY <1>2, <1>3, <1>5, <2>1, <2>2 DEF SumsInv, ClaimSum, history
  <1>12. OwedSum'
    <2> SUFFICES ASSUME NEW y \in Client
                 PROVE  outstanding'[y] <= Weigh(Owed(y))' + undone'[y]
      BY DEF OwedSum
    <2>1. PICK owed \in Int : owed = Weigh(Owed(y))
      BY <1>8, WeightsType DEF Swaps
    <2>2. PICK m, k \in Int : /\ m = (IF d.client = y THEN n ELSE 0)
                              /\ k = (IF d.client = y THEN Balance(d) ELSE 0)
      BY <1>3
    <2>3. Owed(y)[d] = k /\ Owed(y)[e] = k - m
      BY <1>3, <1>7, <2>2, WeightsAt
    <2>4. Weigh(Owed(y))' = owed - k + (k - m)
      BY <1>3, <1>7, <1>8, <2>1, <2>3, WeightsType DEF Swaps
    <2>5. k <= owed /\ m <= k
      BY <1>1, <1>2, <1>5, <2>1, <2>2, <2>3, OwedAtLeast
    <2>6. /\ outstanding'[y] = IF y = d.client THEN IF outstanding[y] > n
                                                    THEN outstanding[y] - n ELSE 0
                               ELSE outstanding[y]
          /\ outstanding[y] \in Nat
      BY <1>2, <1>3, <1>5, LessAt
    <2>7. undone[y] \in Nat /\ undone' = undone
      BY <1>2, <1>5 DEF history
    <2>8. outstanding[y] <= owed + undone[y]
      BY <2>1 DEF SumsInv, OwedSum
    <2>9. outstanding'[y] <= owed - m + undone[y]
      BY <2>1, <2>2, <2>5, <2>6, <2>7, <2>8
    <2> QED
      BY <2>1, <2>2, <2>4, <2>7, <2>9
  <1>13. ReceivedSum'
    <2>1. /\ Weigh(Received) \in Int
          /\ Weigh(Received)' = Weigh(Received) - d.paid + (d.paid + n)
      BY <1>3, <1>7, <1>8, WeightsType, WeightsAt DEF Swaps
    <2> QED
      BY <1>2, <1>3, <1>5, <2>1 DEF SumsInv, ReceivedSum, history
  <1> QED
    BY <1>9, <1>10, <1>11, <1>12, <1>13 DEF SumsInv

\* The shares of a client's payment, over all invoices.
Shares(c, n) == [i \in DOMAIN invoice |-> Share(c, n, i)]

\* A client's payment is spread whole: neither more nor less than it is applied.
LEMMA SharesSum ==
    ASSUME RowsInv, NEW c \in Client, NEW n \in Nat, n <= SumBalance(OpenConsignments(c))
    PROVE  SumFunctionOnSet(Shares(c, n), DOMAIN invoice) = n
  <1>1. PICK S, D : S = OpenConsignments(c) /\ D = DOMAIN invoice
    OBVIOUS
  <1>2. IsFiniteSet(D) /\ D \subseteq Int /\ S \subseteq D /\ IsFiniteSet(S)
    BY <1>1, RowsFinite, FS_Subset DEF OpenConsignments
  <1>3. PICK b, a : /\ b = [i \in S |-> Balance(invoice[i])]
                    /\ a = [i \in S |-> Applied(c, n, i)]
    OBVIOUS
  <1>4. ASSUME NEW i \in S PROVE b[i] \in Nat /\ a[i] \in Nat
    BY <1>1, <1>3, AppliedType
  <1>5. ASSUME NEW T \in SUBSET S PROVE SumBalance(T) = SumFunctionOnSet(b, T)
    <2>1. PICK g : g = [i \in T |-> Balance(invoice[i])]
      OBVIOUS
    <2>2. IsFiniteSet(T) /\ \A i \in T : g[i] = b[i]
      BY <1>2, <1>3, <2>1, FS_Subset
    <2>3. SumBalance(T) = SumFunctionOnSet(g, T)
      BY <2>1 DEF SumBalance, SumFunction
    <2>4. SumFunctionOnSet(g, T) = SumFunctionOnSet(b, T)
      BY <2>2, SumSame
    <2> QED
      BY <2>3, <2>4
  <1>6. ASSUME NEW i \in S
        PROVE  LET older == SumFunctionOnSet(b, {j \in S : j < i})
               IN  a[i] = IF n > older
                          THEN IF b[i] < n - older THEN b[i] ELSE n - older
                          ELSE 0
    <2>1. {j \in S : j < i} \in SUBSET S
      OBVIOUS
    <2>2. PICK older : older = SumFunctionOnSet(b, {j \in S : j < i})
      OBVIOUS
    <2>3. SumBalance({j \in OpenConsignments(c) : j < i}) = older
      BY <1>1, <1>5, <2>1, <2>2
    <2>4. a[i] = IF n > older THEN Smaller(Balance(invoice[i]), n - older) ELSE 0
      BY <1>3, <2>3 DEF Applied
    <2> QED
      BY <1>3, <2>2, <2>4 DEF Smaller
  <1>7. S \subseteq Int /\ \A i \in S : b[i] \in Nat
    BY <1>2, <1>4
  <1>8. SumFunctionOnSet(a, S) =
          IF SumFunctionOnSet(b, S) < n THEN SumFunctionOnSet(b, S) ELSE n
    BY <1>2, <1>6, <1>7, Spread, ZenonT(60)
  <1>9. SumFunctionOnSet(b, S) \in Int /\ n <= SumFunctionOnSet(b, S)
    <2>1. n <= SumFunctionOnSet(b, S)
      BY <1>1, <1>5
    <2>2. SumFunctionOnSet(b, S) \in Int
      <3>1. \A i \in S : b[i] \in Int
        BY <1>4
      <3> QED
        BY <1>2, <3>1, SumIsInt
    <2> QED
      BY <2>1, <2>2
  <1>10. SumFunctionOnSet(a, S) = n
    BY <1>8, <1>9
  <1>11. PICK f : f = Shares(c, n)
    OBVIOUS
  <1>12. ASSUME NEW i \in D PROVE f[i] \in Int /\ f[i] = IF i \in S THEN a[i] ELSE 0
    BY <1>1, <1>3, <1>4, <1>11 DEF Shares, Share
  <1>13. SumFunctionOnSet(f, S) = SumFunctionOnSet(a, S)
    BY <1>2, <1>12, SumSame
  <1>14. PICK h : h = [x \in D |-> IF x \in S THEN f[x] ELSE 0]
    OBVIOUS
  <1>15. SumFunctionOnSet(f, S) = SumFunctionOnSet(h, D)
    <2>1. \A x \in D : f[x] \in Int
      BY <1>12
    <2>2. \A x \in D : h[x] = IF x \in S THEN f[x] ELSE 0
      BY <1>14
    <2>3. IsFiniteSet(D) /\ S \subseteq D
      BY <1>2
    <2> QED
      BY <2>1, <2>2, <2>3, SumOfPart
  <1>16. SumFunctionOnSet(h, D) = SumFunctionOnSet(f, D)
    BY <1>2, <1>12, <1>14, SumSame
  <1> QED
    BY <1>1, <1>10, <1>11, <1>13, <1>15, <1>16

\* Every row moves by so much.
LEMMA RowsMove ==
    ASSUME RowsInv, RowsInv', DOMAIN invoice' = DOMAIN invoice, NEW w \in [Invoice -> Int],
           NEW g \in [DOMAIN invoice -> Int]
    PROVE  /\ Weigh(w) \in Int /\ Weigh(w)' \in Int
           /\ (\A i \in DOMAIN invoice : w[invoice'[i]] = w[invoice[i]] + g[i])
                => Weigh(w)' = Weigh(w) + SumFunctionOnSet(g, DOMAIN invoice)
           /\ (\A i \in DOMAIN invoice : w[invoice'[i]] = w[invoice[i]] - g[i])
                => Weigh(w) = Weigh(w)' + SumFunctionOnSet(g, DOMAIN invoice)
           /\ (\A i \in DOMAIN invoice : w[invoice'[i]] = w[invoice[i]])
                => Weigh(w)' = Weigh(w)
  <1>1. PICK D, f, h : /\ D = DOMAIN invoice
                       /\ f = [i \in DOMAIN invoice |-> w[invoice[i]]]
                       /\ h = [i \in DOMAIN invoice' |-> w[invoice'[i]]]
    OBVIOUS
  <1>2. IsFiniteSet(D)
    BY <1>1, RowsFinite
  <1>3. ASSUME NEW i \in D
        PROVE  /\ f[i] \in Int /\ h[i] \in Int /\ g[i] \in Int
               /\ f[i] = w[invoice[i]] /\ h[i] = w[invoice'[i]]
    BY <1>1 DEF RowsInv
  <1>4. Weigh(w) = SumFunctionOnSet(f, D) /\ Weigh(w)' = SumFunctionOnSet(h, D)
    BY <1>1 DEF Weigh, SumFunction
  <1>5. Weigh(w) \in Int /\ Weigh(w)' \in Int
    BY <1>2, <1>3, <1>4, SumIsInt
  <1>6. ASSUME \A i \in DOMAIN invoice : w[invoice'[i]] = w[invoice[i]] + g[i]
        PROVE  Weigh(w)' = Weigh(w) + SumFunctionOnSet(g, DOMAIN invoice)
    <2>1. \A i \in D : f[i] \in Int /\ g[i] \in Int /\ h[i] = f[i] + g[i]
      BY <1>1, <1>3, <1>6
    <2>2. SumFunctionOnSet(h, D) = SumFunctionOnSet(f, D) + SumFunctionOnSet(g, D)
      BY <1>2, <2>1, SumPlus
    <2> QED
      BY <1>1, <1>4, <2>2
  <1>7. ASSUME \A i \in DOMAIN invoice : w[invoice'[i]] = w[invoice[i]] - g[i]
        PROVE  Weigh(w) = Weigh(w)' + SumFunctionOnSet(g, DOMAIN invoice)
    <2>1. \A i \in D : h[i] \in Int /\ g[i] \in Int /\ f[i] = h[i] + g[i]
      BY <1>1, <1>3, <1>7
    <2>2. SumFunctionOnSet(f, D) = SumFunctionOnSet(h, D) + SumFunctionOnSet(g, D)
      BY <1>2, <2>1, SumPlus
    <2> QED
      BY <1>1, <1>4, <2>2
  <1>8. ASSUME \A i \in DOMAIN invoice : w[invoice'[i]] = w[invoice[i]]
        PROVE  Weigh(w)' = Weigh(w)
    <2>1. \A i \in D : h[i] = f[i]
      BY <1>1, <1>3, <1>8
    <2> QED
      BY <1>2, <1>4, <2>1, SumSame
  <1> QED
    BY <1>5, <1>6, <1>7, <1>8

\* A lump paid by a client, spread over the open consignments.
LEMMA ClientSums ==
    ASSUME TypedInv, TypedInv', SumsInv, NEW c \in Client, NEW n \in Nat, ClientPayment(c, n)
    PROVE  SumsInv'
  <1>1. /\ RowsInv /\ RowsInv' /\ stock \in [Product -> Nat] /\ cash \in Int
        /\ receivable \in Int /\ outstanding \in [Client -> Nat] /\ collected \in Nat
        /\ settled \in Nat /\ waived \in Nat /\ forgotten \in Nat
        /\ undone \in [Client -> Nat]
    BY TypedFacts DEF TypedInv
  <1>2. /\ n <= SumBalance(OpenConsignments(c))
        /\ cash' = cash + n /\ receivable' = receivable - n
        /\ outstanding' = Less(outstanding, c, n) /\ collected' = collected + n
        /\ UNCHANGED <<stock, refund, lastInvoice, lastRefund, edits, history>>
    BY DEF ClientPayment, Receive
  <1>3. PICK g : g = Shares(c, n)
    OBVIOUS
  <1>4. /\ DOMAIN invoice' = DOMAIN invoice /\ g \in [DOMAIN invoice -> Int]
        /\ \A i \in DOMAIN invoice :
              /\ invoice[i] \in Invoice /\ invoice'[i] \in Invoice /\ g[i] \in Int
              /\ g[i] # 0 => invoice[i].client = c /\ invoice[i].type # "cash"
              /\ invoice'[i].client = invoice[i].client
              /\ invoice'[i].type = invoice[i].type
              /\ invoice'[i].qty = invoice[i].qty
              /\ invoice'[i].returned = invoice[i].returned
              /\ invoice'[i].paid = invoice[i].paid + g[i]
              /\ Balance(invoice'[i]) = Balance(invoice[i]) - g[i]
              /\ invoice[i].paid \in Int /\ Balance(invoice[i]) \in Int
    BY <1>1, <1>3, ClientPaid, InvoiceType DEF Shares, RowsInv
  <1>5. SumFunctionOnSet(g, DOMAIN invoice) = n
    BY <1>1, <1>2, <1>3, SharesSum
  <1>6. BackStays
    BY <1>1, <1>2, RefundsStay
  <1>7. GoodsSum'
    <2> SUFFICES ASSUME NEW p \in Product \ doubled
                 PROVE  stock'[p] = OpeningStock[p] - Weigh(Out(p))' + Back(Taken(p))'
      BY <1>2 DEF GoodsSum, history
    <2>1. \A i \in DOMAIN invoice : Out(p)[invoice'[i]] = Out(p)[invoice[i]]
      BY <1>4, WeightsAt
    <2>2. Weigh(Out(p))' = Weigh(Out(p))
      BY <1>1, <1>4, <2>1, RowsMove, WeightsType
    <2>3. Back(Taken(p))' = Back(Taken(p))
      BY <1>6, WeightsType DEF BackStays
    <2> QED
      BY <1>2, <2>2, <2>3 DEF SumsInv, GoodsSum
  <1>8. CashSum'
    <2>1. \A i \in DOMAIN invoice : Paid[invoice'[i]] = Paid[invoice[i]] + g[i]
      BY <1>4, WeightsAt
    <2>2. Weigh(Paid) \in Int /\ Weigh(Paid)' = Weigh(Paid) + n
      BY <1>1, <1>4, <1>5, <2>1, RowsMove, WeightsType
    <2> QED
      BY <1>1, <1>2, <2>2 DEF SumsInv, CashSum, history
  <1>9. ClaimSum'
    <2>1. \A i \in DOMAIN invoice : Unpaid[invoice'[i]] = Unpaid[invoice[i]] - g[i]
      BY <1>4, WeightsAt
    <2>2. Weigh(Unpaid)' \in Int /\ Weigh(Unpaid) = Weigh(Unpaid)' + n
      BY <1>1, <1>4, <1>5, <2>1, RowsMove, WeightsType
    <2>3. Back(Total) \in Int /\ Back(Total)' = Back(Total)
      BY <1>6, WeightsType DEF BackStays
    <2> QED
      BY <1>1, <1>2, <2>2, <2>3 DEF SumsInv, ClaimSum, history
  <1>10. OwedSum'
    <2> SUFFICES ASSUME NEW y \in Client
                 PROVE  outstanding'[y] <= Weigh(Owed(y))' + undone'[y]
      BY DEF OwedSum
    <2>1. OwedIsNat'
      BY <1>1, OwedNat, PTL
    <2>2. Weigh(Owed(y))' \in Nat
      BY <2>1 DEF OwedIsNat
    <2>3. /\ outstanding'[y] = IF y = c THEN IF outstanding[y] > n
                                             THEN outstanding[y] - n ELSE 0
                               ELSE outstanding[y]
          /\ outstanding[y] \in Nat
      BY <1>1, <1>2, LessAt
    <2>4. undone[y] \in Nat /\ undone' = undone
      BY <1>1, <1>2 DEF history
    <2>5. outstanding[y] <= Weigh(Owed(y)) + undone[y]
      BY DEF SumsInv, OwedSum
    <2>6. CASE y = c
      <3>1. ASSUME NEW i \in DOMAIN invoice
            PROVE  Owed(y)[invoice'[i]] = Owed(y)[invoice[i]] - g[i]
        BY <1>4, <2>6, WeightsAt
      <3>2. Weigh(Owed(y)) = Weigh(Owed(y))' + n
        BY <1>1, <1>4, <1>5, <3>1, RowsMove, WeightsType
      <3> QED
        BY <2>2, <2>3, <2>4, <2>5, <2>6, <3>2
    <2>7. CASE y # c
      <3>1. ASSUME NEW i \in DOMAIN invoice
            PROVE  Owed(y)[invoice'[i]] = Owed(y)[invoice[i]]
        BY <1>4, <2>7, WeightsAt
      <3>2. Weigh(Owed(y))' = Weigh(Owed(y))
        BY <1>1, <1>4, <3>1, RowsMove, WeightsType
      <3> QED
        BY <2>3, <2>4, <2>5, <2>7, <3>2
    <2> QED
      BY <2>6, <2>7
  <1>11. ReceivedSum'
    <2>1. \A i \in DOMAIN invoice : Received[invoice'[i]] = Received[invoice[i]] + g[i]
      BY <1>4, WeightsAt
    <2>2. Weigh(Received) \in Int /\ Weigh(Received)' = Weigh(Received) + n
      BY <1>1, <1>4, <1>5, <2>1, RowsMove, WeightsType
    <2> QED
      BY <1>1, <1>2, <2>2 DEF SumsInv, ReceivedSum, history
  <1> QED
    BY <1>7, <1>8, <1>9, <1>10, <1>11 DEF SumsInv

\* The books when no invoice changes: an account refund, or goods on account.
InvoicesStay == \A w \in [Invoice -> Int] : Weigh(w) \in Int /\ Weigh(w)' = Weigh(w)

LEMMA InvoicesKept == ASSUME RowsInv, RowsInv', invoice' = invoice PROVE InvoicesStay
  <1> SUFFICES ASSUME NEW w \in [Invoice -> Int] PROVE Weigh(w) \in Int /\ Weigh(w)' = Weigh(w)
    BY DEF InvoicesStay
  <1>1. Weigh(w) \in Int
    BY WeighOne
  <1> QED
    BY <1>1 DEF Weigh

LEMMA WaivedSums ==
    ASSUME TypedInv, TypedInv', SumsInv, NEW c \in Client, NEW n \in Nat, RefundAccount(c, n)
    PROVE  SumsInv'
  <1>1. /\ RowsInv /\ RowsInv' /\ receivable \in Int /\ outstanding \in [Client -> Nat]
        /\ settled \in Nat /\ waived \in Nat /\ forgotten \in Nat
        /\ undone \in [Client -> Nat]
    BY TypedFacts DEF TypedInv
  <1>2. /\ receivable' = receivable - n /\ outstanding' = Less(outstanding, c, n)
        /\ waived' = waived + n
        /\ UNCHANGED <<stock, invoice, refund, lastInvoice, lastRefund, collected, cash,
                       edits, settled, forgotten, undone, doubled>>
    BY DEF RefundAccount
  <1>3. InvoicesStay /\ BackStays
    BY <1>1, <1>2, InvoicesKept, RefundsStay
  <1>4. GoodsSum'
    BY <1>2, <1>3, WeightsType DEF SumsInv, GoodsSum, InvoicesStay, BackStays
  <1>5. CashSum' /\ ReceivedSum'
    BY <1>2, <1>3, WeightsType DEF SumsInv, CashSum, ReceivedSum, InvoicesStay
  <1>6. ClaimSum'
    <2>1. /\ Weigh(Unpaid) \in Int /\ Weigh(Unpaid)' = Weigh(Unpaid)
          /\ Back(Total) \in Int /\ Back(Total)' = Back(Total)
      BY <1>3, WeightsType DEF InvoicesStay, BackStays
    <2> QED
      BY <1>1, <1>2, <2>1 DEF SumsInv, ClaimSum
  <1>7. OwedSum'
    <2> SUFFICES ASSUME NEW y \in Client
                 PROVE  outstanding'[y] <= Weigh(Owed(y))' + undone'[y]
      BY DEF OwedSum
    <2>1. Weigh(Owed(y)) \in Int /\ Weigh(Owed(y))' = Weigh(Owed(y))
      BY <1>3, WeightsType DEF InvoicesStay
    <2>2. outstanding'[y] \in Nat /\ outstanding[y] \in Nat /\ outstanding'[y] <= outstanding[y]
      BY <1>1, <1>2, LessAt
    <2>3. undone[y] \in Nat /\ undone' = undone
      BY <1>1, <1>2
    <2>4. outstanding[y] <= Weigh(Owed(y)) + undone[y]
      BY DEF SumsInv, OwedSum
    <2> QED
      BY <2>1, <2>2, <2>3, <2>4
  <1> QED
    BY <1>4, <1>5, <1>6, <1>7 DEF SumsInv

LEMMA PayingSums == ASSUME TypedInv, TypedInv', SumsInv, Paying PROVE SumsInv'
  <1>1. RowsInv
    BY DEF TypedInv
  <1>2. \A n \in Payment : n \in Nat \ {0}
    BY ConstantsType
  <1>3. \/ \E n \in Payment, i \in DOMAIN invoice : PaidOne(i, n)
        \/ \E n \in Payment, c \in Client : ClientPayment(c, n) \/ RefundAccount(c, n)
    BY <1>1, PaymentsPayOne DEF Paying
  <1> QED
    BY <1>2, <1>3, PaidOneSums, ClientSums, WaivedSums

\* A settlement: goods come home, and money that no invoice shows.
LEMMA SettlingSums == ASSUME TypedInv, TypedInv', SumsInv, Settling PROVE SumsInv'
  <1>1. PICK i \in DOMAIN invoice, k \in DOMAIN invoice, p \in Product :
          \E s, r \in 0..invoice[k].qty[p] : SettleConsignment(i, k, p, s, r)
    BY DEF Settling
  <1>2. PICK s \in 0..invoice[k].qty[p], r \in 0..invoice[k].qty[p] :
          SettleConsignment(i, k, p, s, r)
    BY <1>1
  <1>3. /\ RowsInv /\ RowsInv' /\ stock \in [Product -> Nat] /\ cash \in Int
        /\ receivable \in Int /\ outstanding \in [Client -> Nat] /\ collected \in Nat
        /\ settled \in Nat /\ waived \in Nat /\ forgotten \in Nat
        /\ undone \in [Client -> Nat]
    BY TypedFacts DEF TypedInv
  <1>4. PICK back : back = GoodsBack(p, s, r)
    OBVIOUS
  <1>5. /\ s \in Nat /\ r \in Nat /\ DOMAIN invoice' = DOMAIN invoice
        /\ \A j \in DOMAIN invoice :
              /\ invoice'[j] \in Invoice /\ invoice[j] \in Invoice
              /\ invoice'[j].client = invoice[j].client
              /\ invoice'[j].type = invoice[j].type
              /\ invoice'[j].qty = invoice[j].qty
              /\ invoice'[j].paid = invoice[j].paid
              /\ invoice'[j].returned =
                   IF j = k THEN Plus(invoice[j].returned, back) ELSE invoice[j].returned
              /\ Balance(invoice'[j]) = Balance(invoice[j])
    BY <1>2, <1>3, <1>4, SettlingRows DEF RowsInv
  <1>6. PICK revenue \in Nat : revenue = s * Price[p]
    BY <1>5, ConstantsType
  <1>7. /\ stock' = Plus(stock, back)
        /\ cash' = cash + revenue /\ receivable' = receivable - revenue
        /\ outstanding' = Less(outstanding, invoice[i].client, revenue)
        /\ settled' = settled + revenue
        /\ UNCHANGED <<refund, lastInvoice, lastRefund, collected, edits, waived,
                       forgotten, undone, doubled>>
    BY <1>2, <1>4, <1>6 DEF SettleConsignment, Receive
  <1>8. BackStays
    BY <1>3, <1>7, RefundsStay
  <1>9. ASSUME NEW w \in [Invoice -> Int],
               \A j \in DOMAIN invoice : w[invoice'[j]] = w[invoice[j]]
        PROVE  Weigh(w) \in Int /\ Weigh(w)' = Weigh(w)
    <2>1. [j \in DOMAIN invoice |-> 0] \in [DOMAIN invoice -> Int]
      OBVIOUS
    <2> QED
      BY <1>3, <1>5, <1>9, <2>1, RowsMove
  <1>10. GoodsSum'
    <2> SUFFICES ASSUME NEW q \in Product \ doubled
                 PROVE  stock'[q] = OpeningStock[q] - Weigh(Out(q))' + Back(Taken(q))'
      BY <1>7 DEF GoodsSum
    <2>1. Out(q) \in [Invoice -> Int] /\ Taken(q) \in [Refund -> Int]
      BY WeightsType
    <2>2. PICK w, v : w = Out(q) /\ v = Taken(q)
      OBVIOUS
    <2>3. \A j \in DOMAIN invoice \ {k} : w[invoice'[j]] = w[invoice[j]]
      BY <1>5, <2>2, WeightsAt
    <2>4. /\ Weigh(w) \in Int
          /\ Weigh(w)' = Weigh(w) - (IF k \in DOMAIN invoice THEN w[invoice[k]] ELSE 0)
                                  + (IF k \in DOMAIN invoice' THEN w[invoice'[k]] ELSE 0)
      BY <1>3, <1>5, <2>1, <2>2, <2>3, WeighOne
    <2>5. back[q] \in Nat
      BY <1>4, <1>5 DEF GoodsBack, Empty
    <2>6. PICK x, y \in Int : x = invoice[k].qty[q] /\ y = invoice[k].returned[q]
      BY <1>5, InvoiceType
    <2>7. w[invoice[k]] = x - y /\ w[invoice'[k]] = x - (y + back[q])
      <3>1. PICK d, e : d = invoice[k] /\ e = invoice'[k]
        OBVIOUS
      <3>2. /\ d \in Invoice /\ e \in Invoice /\ e.qty = d.qty
            /\ e.returned = Plus(d.returned, back)
        BY <1>5, <3>1
      <3>3. e.returned[q] = y + back[q] /\ e.qty[q] = x
        BY <2>6, <3>1, <3>2 DEF Plus
      <3>4. Out(q)[d] = d.qty[q] - d.returned[q] /\ Out(q)[e] = e.qty[q] - e.returned[q]
        BY <3>2, WeightsAt
      <3> QED
        BY <2>2, <2>6, <3>1, <3>3, <3>4
    <2>8. Weigh(w)' = Weigh(w) - back[q]
      <3> PICK m, n : m = Weigh(w) /\ n = Weigh(w)'
        OBVIOUS
      <3>1. n = m - (x - y) + (x - (y + back[q]))
        BY <1>5, <2>4, <2>7
      <3>2. m \in Int /\ x \in Int /\ y \in Int /\ back[q] \in Int
        BY <2>4, <2>5
      <3>3. n = m - back[q]
        BY ONLY <3>1, <3>2
      <3> QED
        BY <3>3
    <2>9. Back(v) \in Int /\ Back(v)' = Back(v)
      BY <1>8, <2>1, <2>2 DEF BackStays
    <2>10. stock[q] = OpeningStock[q] - Weigh(w) + Back(v)
      BY <2>2 DEF SumsInv, GoodsSum
    <2>11. stock'[q] = stock[q] + back[q] /\ OpeningStock[q] \in Nat /\ stock[q] \in Nat
      BY <1>3, <1>7, ConstantsType DEF Plus, Basket
    <2>12. stock'[q] = OpeningStock[q] - Weigh(w)' + Back(v)'
      BY <2>4, <2>5, <2>8, <2>9, <2>10, <2>11
    <2> QED
      BY <2>2, <2>12
  <1>11. CashSum'
    <2>1. \A j \in DOMAIN invoice : Paid[invoice'[j]] = Paid[invoice[j]]
      BY <1>5, WeightsAt
    <2>2. Weigh(Paid) \in Int /\ Weigh(Paid)' = Weigh(Paid)
      BY <1>9, <2>1, WeightsType
    <2> QED
      BY <1>3, <1>7, <2>2 DEF SumsInv, CashSum
  <1>12. ClaimSum'
    <2>1. \A j \in DOMAIN invoice : Unpaid[invoice'[j]] = Unpaid[invoice[j]]
      BY <1>5, WeightsAt
    <2>2. Weigh(Unpaid) \in Int /\ Weigh(Unpaid)' = Weigh(Unpaid)
      BY <1>9, <2>1, WeightsType
    <2>3. Back(Total) \in Int /\ Back(Total)' = Back(Total)
      BY <1>8, WeightsType DEF BackStays
    <2> QED
      BY <1>3, <1>7, <2>2, <2>3 DEF SumsInv, ClaimSum
  <1>13. OwedSum'
    <2> SUFFICES ASSUME NEW y \in Client
                 PROVE  outstanding'[y] <= Weigh(Owed(y))' + undone'[y]
      BY DEF OwedSum
    <2>1. \A j \in DOMAIN invoice : Owed(y)[invoice'[j]] = Owed(y)[invoice[j]]
      BY <1>5, WeightsAt
    <2>2. Weigh(Owed(y)) \in Int /\ Weigh(Owed(y))' = Weigh(Owed(y))
      BY <1>9, <2>1, WeightsType
    <2>3. invoice[i].client \in Client
      BY <1>5, InvoiceType
    <2>4. outstanding'[y] \in Nat /\ outstanding[y] \in Nat /\ outstanding'[y] <= outstanding[y]
      BY <1>3, <1>7, <2>3, LessAt
    <2>5. undone[y] \in Nat /\ undone' = undone
      BY <1>3, <1>7
    <2>6. outstanding[y] <= Weigh(Owed(y)) + undone[y]
      BY DEF SumsInv, OwedSum
    <2> QED
      BY <2>2, <2>4, <2>5, <2>6
  <1>14. ReceivedSum'
    <2>1. \A j \in DOMAIN invoice : Received[invoice'[j]] = Received[invoice[j]]
      BY <1>5, WeightsAt
    <2>2. Weigh(Received)' = Weigh(Received)
      BY <1>9, <2>1, WeightsType
    <2> QED
      BY <1>7, <2>2 DEF SumsInv, ReceivedSum
  <1> QED
    BY <1>10, <1>11, <1>12, <1>13, <1>14 DEF SumsInv

\* Goods taken back on account, and a refund undone.
LEMMA RefundingSums == ASSUME TypedInv, TypedInv', SumsInv, Refunding PROVE SumsInv'
  <1>1. /\ RowsInv /\ RowsInv' /\ stock \in [Product -> Nat]
        /\ receivable \in Int /\ outstanding \in [Client -> Nat]
        /\ settled \in Nat /\ waived \in Nat /\ forgotten \in Nat
        /\ undone \in [Client -> Nat]
    BY TypedFacts DEF TypedInv
  <1>2. ASSUME invoice' = invoice, UNCHANGED <<cash, collected, settled, forgotten>>
        PROVE  InvoicesStay /\ CashSum' /\ ReceivedSum'
    <2>1. InvoicesStay
      BY <1>1, <1>2, InvoicesKept
    <2> QED
      BY <1>2, <2>1, WeightsType DEF SumsInv, CashSum, ReceivedSum, InvoicesStay
  <1>3. ASSUME NEW c \in Client, NEW b \in Body, CreateRefund(c, b) PROVE SumsInv'
    <2>1. PICK d, x : d = [client |-> c, qty |-> b, total |-> Net(b)] /\ x = lastRefund + 1
      OBVIOUS
    <2>2. /\ d \in Refund /\ d.total \in Nat /\ d.total = Net(b) /\ d.qty = b
          /\ \A p \in Product : b[p] \in Nat
      BY <2>1, ConstantsType DEF Refund
    <2>3. /\ refund' = [y \in DOMAIN refund \cup {x} |-> IF y = x THEN d ELSE refund[y]]
          /\ stock' = Plus(stock, b) /\ receivable' = receivable - d.total
          /\ outstanding' = Less(outstanding, c, d.total)
          /\ UNCHANGED <<invoice, lastInvoice, cash, collected, edits, settled, waived,
                         forgotten, undone, doubled>>
      BY <1>3, <2>1, <2>2 DEF CreateRefund, history
    <2>4. x \notin DOMAIN refund
      BY <1>1, <2>1 DEF RowsInv
    <2>5. InvoicesStay /\ CashSum' /\ ReceivedSum'
      BY <1>2, <2>3
    <2>6. ASSUME NEW w \in [Refund -> Int] PROVE Back(w) \in Int /\ Back(w)' = Back(w) + w[d]
      <3>1. DOMAIN refund' = DOMAIN refund \cup {x} /\ refund'[x] = d
        BY <2>3
      <3>2. /\ DOMAIN refund \ {x} = DOMAIN refund' \ {x}
            /\ \A y \in DOMAIN refund \ {x} : refund'[y] = refund[y]
        BY <2>3, <3>1
      <3>3. /\ Back(w) \in Int
            /\ Back(w)' = Back(w) - (IF x \in DOMAIN refund THEN w[refund[x]] ELSE 0)
                                  + (IF x \in DOMAIN refund' THEN w[refund'[x]] ELSE 0)
        BY <1>1, <3>2, BackOne
      <3>4. w[d] \in Int
        BY <2>2
      <3> QED
        BY <2>4, <3>1, <3>3, <3>4
    <2>7. GoodsSum'
      <3> SUFFICES ASSUME NEW p \in Product \ doubled
                   PROVE  stock'[p] = OpeningStock[p] - Weigh(Out(p))' + Back(Taken(p))'
        BY <2>3 DEF GoodsSum
      <3>1. Weigh(Out(p)) \in Int /\ Weigh(Out(p))' = Weigh(Out(p))
        BY <2>5, WeightsType DEF InvoicesStay
      <3>2. Taken(p)[d] = b[p]
        BY <2>2 DEF Taken
      <3>3. Back(Taken(p)) \in Int /\ Back(Taken(p))' = Back(Taken(p)) + b[p]
        BY <2>6, <3>2, WeightsType
      <3>4. /\ stock'[p] = stock[p] + b[p] /\ stock[p] \in Nat /\ b[p] \in Nat
            /\ OpeningStock[p] \in Nat
        BY <1>1, <2>2, <2>3, ConstantsType DEF Plus, Basket
      <3>5. stock[p] = OpeningStock[p] - Weigh(Out(p)) + Back(Taken(p))
        BY DEF SumsInv, GoodsSum
      <3> QED
        BY <3>1, <3>3, <3>4, <3>5
    <2>8. ClaimSum'
      <3>1. Weigh(Unpaid) \in Int /\ Weigh(Unpaid)' = Weigh(Unpaid)
        BY <2>5, WeightsType DEF InvoicesStay
      <3>2. Total[d] = d.total
        BY <2>2 DEF Total
      <3>3. Back(Total) \in Int /\ Back(Total)' = Back(Total) + d.total
        BY <2>6, <3>2, WeightsType
      <3> QED
        BY <1>1, <2>2, <2>3, <3>1, <3>3 DEF SumsInv, ClaimSum
    <2>9. OwedSum'
      <3> SUFFICES ASSUME NEW y \in Client
                   PROVE  outstanding'[y] <= Weigh(Owed(y))' + undone'[y]
        BY DEF OwedSum
      <3>1. Weigh(Owed(y)) \in Int /\ Weigh(Owed(y))' = Weigh(Owed(y))
        BY <2>5, WeightsType DEF InvoicesStay
      <3>2. /\ outstanding'[y] \in Nat /\ outstanding[y] \in Nat
            /\ outstanding'[y] <= outstanding[y]
        BY <1>1, <2>2, <2>3, LessAt
      <3>3. undone[y] \in Nat /\ undone' = undone
        BY <1>1, <2>3
      <3>4. outstanding[y] <= Weigh(Owed(y)) + undone[y]
        BY DEF SumsInv, OwedSum
      <3> QED
        BY <3>1, <3>2, <3>3, <3>4
    <2> QED
      BY <2>5, <2>7, <2>8, <2>9 DEF SumsInv
  <1>4. ASSUME NEW x \in DOMAIN refund, DeleteRefund(x) PROVE SumsInv'
    <2>1. PICK d : d = refund[x]
      OBVIOUS
    <2>2. /\ d \in Refund /\ d.client \in Client /\ d.total \in Nat
          /\ \A p \in Product : d.qty[p] \in Nat
      BY <1>1, <2>1, RefundType DEF RowsInv
    <2>3. /\ refund' = [y \in DOMAIN refund \ {x} |-> refund[y]]
          /\ stock' = Minus(stock, d.qty) /\ receivable' = receivable + d.total
          /\ outstanding' = Owing(outstanding, d.client, d.total)
          /\ undone' = Owing(undone, d.client, d.total)
          /\ UNCHANGED <<invoice, lastInvoice, lastRefund, collected, cash, edits,
                         settled, waived, forgotten, doubled>>
      BY <1>4, <2>1 DEF DeleteRefund
    <2>4. InvoicesStay /\ CashSum' /\ ReceivedSum'
      BY <1>2, <2>3
    <2>5. ASSUME NEW w \in [Refund -> Int] PROVE Back(w) \in Int /\ Back(w)' = Back(w) - w[d]
      <3>1. DOMAIN refund' = DOMAIN refund \ {x}
        BY <2>3
      <3>2. /\ DOMAIN refund \ {x} = DOMAIN refund' \ {x}
            /\ \A y \in DOMAIN refund \ {x} : refund'[y] = refund[y]
        BY <2>3, <3>1
      <3>3. /\ Back(w) \in Int
            /\ Back(w)' = Back(w) - (IF x \in DOMAIN refund THEN w[refund[x]] ELSE 0)
                                  + (IF x \in DOMAIN refund' THEN w[refund'[x]] ELSE 0)
        BY <1>1, <3>2, BackOne
      <3>4. w[d] \in Int
        BY <2>2
      <3> QED
        BY <2>1, <3>1, <3>3, <3>4
    <2>6. GoodsSum'
      <3> SUFFICES ASSUME NEW p \in Product \ doubled
                   PROVE  stock'[p] = OpeningStock[p] - Weigh(Out(p))' + Back(Taken(p))'
        BY <2>3 DEF GoodsSum
      <3>1. Weigh(Out(p)) \in Int /\ Weigh(Out(p))' = Weigh(Out(p))
        BY <2>4, WeightsType DEF InvoicesStay
      <3>2. Taken(p)[d] = d.qty[p]
        BY <2>2 DEF Taken
      <3>3. Back(Taken(p)) \in Int /\ Back(Taken(p))' = Back(Taken(p)) - d.qty[p]
        BY <2>5, <3>2, WeightsType
      <3>4. /\ stock'[p] = stock[p] - d.qty[p] /\ stock[p] \in Nat /\ d.qty[p] \in Nat
            /\ OpeningStock[p] \in Nat
        BY <1>1, <2>2, <2>3, ConstantsType DEF Minus, Basket
      <3>5. stock[p] = OpeningStock[p] - Weigh(Out(p)) + Back(Taken(p))
        BY DEF SumsInv, GoodsSum
      <3> QED
        BY <3>1, <3>3, <3>4, <3>5
    <2>7. ClaimSum'
      <3>1. Weigh(Unpaid) \in Int /\ Weigh(Unpaid)' = Weigh(Unpaid)
        BY <2>4, WeightsType DEF InvoicesStay
      <3>2. Total[d] = d.total
        BY <2>2 DEF Total
      <3>3. Back(Total) \in Int /\ Back(Total)' = Back(Total) - d.total
        BY <2>5, <3>2, WeightsType
      <3> QED
        BY <1>1, <2>2, <2>3, <3>1, <3>3 DEF SumsInv, ClaimSum
    <2>8. OwedSum'
      <3> SUFFICES ASSUME NEW y \in Client
                   PROVE  outstanding'[y] <= Weigh(Owed(y))' + undone'[y]
        BY DEF OwedSum
      <3>1. Weigh(Owed(y)) \in Int /\ Weigh(Owed(y))' = Weigh(Owed(y))
        BY <2>4, WeightsType DEF InvoicesStay
      <3>2. PICK n \in Nat : n = IF y = d.client THEN d.total ELSE 0
        BY <2>2
      <3>3. outstanding'[y] = outstanding[y] + n /\ undone'[y] = undone[y] + n
        <4>1. outstanding[y] \in Nat /\ undone[y] \in Nat
          BY <1>1
        <4> QED
          BY <1>1, <2>2, <2>3, <3>2, <4>1 DEF Owing
      <3>4. outstanding[y] \in Nat /\ undone[y] \in Nat
        BY <1>1
      <3>5. outstanding[y] <= Weigh(Owed(y)) + undone[y]
        BY DEF SumsInv, OwedSum
      <3> QED
        BY <3>1, <3>2, <3>3, <3>4, <3>5
    <2> QED
      BY <2>4, <2>6, <2>7, <2>8 DEF SumsInv
  <1> QED
    BY <1>3, <1>4 DEF Refunding

LEMMA SumsStep == TypedInv /\ TypedInv' /\ SumsInv /\ [Next]_vars => SumsInv'
  <1> SUFFICES ASSUME TypedInv, TypedInv', SumsInv, [Next]_vars PROVE SumsInv'
    OBVIOUS
  <1>1. CASE UNCHANGED vars
    BY <1>1 DEF vars, accounts, history, SumsInv, GoodsSum, CashSum, ClaimSum, OwedSum,
                ReceivedSum, Weigh, Back
  <1>2. CASE Invoicing
    BY <1>2, CreateSums, EditSums, DeleteSums DEF Invoicing
  <1> QED
    BY <1>1, <1>2, PayingSums, SettlingSums, RefundingSums DEF Next

BooksInv == TypedInv /\ SumsInv

LEMMA BooksHold == Spec => []BooksInv
  <1>1. Init => BooksInv
    BY TypedInit, SumsInit DEF BooksInv
  <1>2. BooksInv /\ [Next]_vars => BooksInv'
    BY TypedStep, SumsStep DEF BooksInv
  <1> QED
    BY <1>1, <1>2, PTL DEF Spec

\* A sum over the rows of what the properties name, and the sum of its weights.
LEMMA SumsAreWeights ==
    ASSUME RowsInv
    PROVE  /\ SumFunction([i \in DOMAIN invoice |-> invoice[i].paid]) = Weigh(Paid)
           /\ SumBalance(DOMAIN invoice) = Weigh(Unpaid)
           /\ SumFunction([x \in DOMAIN refund |-> refund[x].total]) = Back(Total)
           /\ \A p \in Product :
                 /\ SumFunction([i \in DOMAIN invoice |->
                                   invoice[i].qty[p] - invoice[i].returned[p]]) = Weigh(Out(p))
                 /\ SumFunction([x \in DOMAIN refund |-> refund[x].qty[p]]) = Back(Taken(p))
  <1>1. \A i \in DOMAIN invoice : invoice[i] \in Invoice
    BY DEF RowsInv
  <1>2. \A x \in DOMAIN refund : refund[x] \in Refund
    BY DEF RowsInv
  <1>3. [i \in DOMAIN invoice |-> invoice[i].paid] = [i \in DOMAIN invoice |-> Paid[invoice[i]]]
    BY <1>1 DEF Paid
  <1>4. [i \in DOMAIN invoice |-> Balance(invoice[i])]
          = [i \in DOMAIN invoice |-> Unpaid[invoice[i]]]
    BY <1>1 DEF Unpaid
  <1>5. [x \in DOMAIN refund |-> refund[x].total] = [x \in DOMAIN refund |-> Total[refund[x]]]
    BY <1>2 DEF Total
  <1>6. ASSUME NEW p \in Product
        PROVE  /\ [i \in DOMAIN invoice |-> invoice[i].qty[p] - invoice[i].returned[p]]
                    = [i \in DOMAIN invoice |-> Out(p)[invoice[i]]]
               /\ [x \in DOMAIN refund |-> refund[x].qty[p]]
                    = [x \in DOMAIN refund |-> Taken(p)[refund[x]]]
    BY <1>1, <1>2 DEF Out, Taken
  <1> QED
    BY <1>3, <1>4, <1>5, <1>6 DEF Weigh, Back, SumBalance

LEMMA SumsType ==
    ASSUME RowsInv
    PROVE  /\ \A w \in [Invoice -> Int] : Weigh(w) \in Int
           /\ \A w \in [Refund -> Int] : Back(w) \in Int
           /\ \A p \in Product : Weigh(Out(p)) \in Int /\ Back(Taken(p)) \in Int
  <1>1. ASSUME NEW w \in [Invoice -> Int] PROVE Weigh(w) \in Int
    <2>1. PICK D, f : D = DOMAIN invoice /\ f = [i \in DOMAIN invoice |-> w[invoice[i]]]
      OBVIOUS
    <2>2. IsFiniteSet(D) /\ \A i \in D : f[i] \in Int
      BY <2>1, RowsFinite DEF RowsInv
    <2>3. SumFunctionOnSet(f, D) \in Int
      BY <2>2, SumIsInt
    <2> QED
      BY <2>1, <2>3 DEF Weigh, SumFunction
  <1>2. ASSUME NEW w \in [Refund -> Int] PROVE Back(w) \in Int
    <2>1. PICK D, f : D = DOMAIN refund /\ f = [i \in DOMAIN refund |-> w[refund[i]]]
      OBVIOUS
    <2>2. IsFiniteSet(D) /\ \A i \in D : f[i] \in Int
      BY <2>1, RowsFinite DEF RowsInv
    <2>3. SumFunctionOnSet(f, D) \in Int
      BY <2>2, SumIsInt
    <2> QED
      BY <2>1, <2>3 DEF Back, SumFunction
  <1> QED
    BY <1>1, <1>2, WeightsType

\* b2b.py, all handlers: goods are in stock or away with a client, whatever was
\* edited, deleted, settled or taken back, except for products of consignments
\* edited or deleted after a return.
THEOREM GoodsAreInStockOrAway == Spec => []GoodsBalance
  <1>1. BooksInv => GoodsBalance
    <2> SUFFICES ASSUME BooksInv, NEW p \in Product \ doubled
                 PROVE  stock[p] = OpeningStock[p] - Away(p)
      BY DEF GoodsBalance
    <2>1. RowsInv
      BY DEF BooksInv, TypedInv
    <2>2. Away(p) = Weigh(Out(p)) - Back(Taken(p))
      BY <2>1, SumsAreWeights DEF Away
    <2>3. /\ Weigh(Out(p)) \in Int /\ Back(Taken(p)) \in Int
      BY <2>1, SumsType
    <2>4. stock[p] = OpeningStock[p] - Weigh(Out(p)) + Back(Taken(p)) /\ OpeningStock[p] \in Nat
      BY ConstantsType DEF BooksInv, SumsInv, GoodsSum, Basket
    <2> QED
      BY <2>2, <2>3, <2>4
  <1> QED
    BY <1>1, BooksHold, PTL

\* b2b.py, accounting.py: the ledger can be told from the documents, in whatever
\* order they were written, edited, paid, settled, refunded and deleted.
THEOREM DocumentsExplainLedger == Spec => []LedgerExplained
  <1>1. BooksInv => LedgerExplained
    BY SumsAreWeights DEF BooksInv, TypedInv, SumsInv, CashSum, ClaimSum, LedgerExplained
  <1> QED
    BY <1>1, BooksHold, PTL

\* A sum over some of the rows is a sum over all, the others weighing nothing.
LEMMA PartIsSum ==
    ASSUME RowsInv, NEW R, R \subseteq DOMAIN invoice,
           NEW v \in [Invoice -> Int], NEW w \in [Invoice -> Int],
           \A i \in DOMAIN invoice : w[invoice[i]] = IF i \in R THEN v[invoice[i]] ELSE 0
    PROVE  SumFunction([i \in R |-> v[invoice[i]]]) = Weigh(w)
  <1>1. PICK D, f, g, h : /\ D = DOMAIN invoice
                          /\ f = [i \in DOMAIN invoice |-> v[invoice[i]]]
                          /\ g = [i \in DOMAIN invoice |-> w[invoice[i]]]
                          /\ h = [i \in R |-> v[invoice[i]]]
    OBVIOUS
  <1>2. IsFiniteSet(D) /\ R \subseteq D /\ IsFiniteSet(R)
    BY <1>1, RowsFinite, FS_Subset
  <1>3. \A i \in D : f[i] \in Int
    BY <1>1 DEF RowsInv
  <1>4. \A i \in D : g[i] = IF i \in R THEN f[i] ELSE 0
    BY <1>1
  <1>5. SumFunctionOnSet(f, R) = SumFunctionOnSet(g, D)
    BY <1>2, <1>3, <1>4, SumOfPart
  <1>6. \A i \in R : f[i] = h[i]
    BY <1>1, <1>2
  <1>7. SumFunctionOnSet(f, R) = SumFunctionOnSet(h, R)
    BY <1>2, <1>6, SumSame
  <1>8. SumFunction(h) = SumFunctionOnSet(h, R) /\ Weigh(w) = SumFunctionOnSet(g, D)
    BY <1>1 DEF SumFunction, Weigh
  <1> QED
    BY <1>1, <1>5, <1>7, <1>8

\* b2b.py, accounting.py: a client's outstanding column never exceeds what the
\* client's unpaid invoices add up to, but for refunds deleted since.
THEOREM OutstandingIsOpen == Spec => []OwedIsOpen
  <1>1. BooksInv => OwedIsOpen
    <2> SUFFICES ASSUME BooksInv, NEW c \in Client
                 PROVE  outstanding[c] <= Open(c) + undone[c]
      BY DEF OwedIsOpen
    <2>1. RowsInv /\ outstanding[c] <= Weigh(Owed(c)) + undone[c]
      BY DEF BooksInv, TypedInv, SumsInv, OwedSum
    <2>2. PICK R : R = {i \in DOMAIN invoice : /\ invoice[i].client = c
                                              /\ invoice[i].status # "paid"}
      OBVIOUS
    <2>3. ASSUME NEW i \in DOMAIN invoice
          PROVE  /\ Owed(c)[invoice[i]] = IF i \in R THEN Unpaid[invoice[i]] ELSE 0
                 /\ Unpaid[invoice[i]] = Balance(invoice[i])
      <3>1. PICK d : d = invoice[i]
        OBVIOUS
      <3>2. d \in Invoice /\ Sound(d)
        BY <2>1, <3>1 DEF RowsInv
      <3>3. d.status = "paid" => Balance(d) = 0
        BY <3>2, InvoiceType DEF Sound
      <3>4. Unpaid[d] = Balance(d) /\ Owed(c)[d] = IF d.client = c THEN Balance(d) ELSE 0
        BY <3>2, WeightsAt
      <3> QED
        BY <2>2, <3>1, <3>3, <3>4
    <2>4. Unpaid \in [Invoice -> Int] /\ Owed(c) \in [Invoice -> Int]
      BY WeightsType
    <2>5. R \subseteq DOMAIN invoice
      BY <2>2
    <2>6. SumFunction([i \in R |-> Unpaid[invoice[i]]]) = Weigh(Owed(c))
      BY <2>1, <2>3, <2>4, <2>5, PartIsSum
    <2>7. [i \in R |-> Unpaid[invoice[i]]] = [i \in R |-> Balance(invoice[i])]
      BY <2>3, <2>5
    <2>8. Open(c) = Weigh(Owed(c))
      BY <2>2, <2>6, <2>7 DEF Open, SumBalance
    <2> QED
      BY <2>1, <2>8
  <1> QED
    BY <1>1, BooksHold, PTL
-----------------------------------------------------------------------------
\* How far one account moves, and all of them.
Moved(o, q) == SumFunction([c \in Client |-> q[c] - o[c]])

LEMMA MovedOne ==
    ASSUME NEW o \in [Client -> Nat], NEW c \in Client, NEW n \in Nat
    PROVE  /\ Moved(o, Owing(o, c, n)) = n
           /\ Moved(o, Less(o, c, n)) \in Int /\ Moved(o, Less(o, c, n)) >= 0 - n
           /\ Moved(o, o) = 0
  <1>1. ASSUME NEW q \in [Client -> Nat], \A y \in Client \ {c} : q[y] = o[y]
        PROVE  Moved(o, q) = q[c] - o[c]
    <2>1. PICK f : f = [y \in Client |-> q[y] - o[y]]
      OBVIOUS
    <2>2. f[c] \in Int /\ f[c] = q[c] - o[c]
      BY <2>1
    <2>3. \A y \in Client \ {c} : f[y] = 0
      BY <1>1, <2>1
    <2>4. SumFunctionOnSet(f, Client) = f[c]
      BY <2>2, <2>3, SumAtOne, ConstantsType
    <2> QED
      BY <2>1, <2>2, <2>4 DEF Moved, SumFunction
  <1>2. /\ Owing(o, c, n) \in [Client -> Nat] /\ Owing(o, c, n)[c] = o[c] + n
        /\ \A y \in Client \ {c} : Owing(o, c, n)[y] = o[y]
    BY DEF Owing
  <1>3. /\ Less(o, c, n) \in [Client -> Nat]
        /\ Less(o, c, n)[c] = IF o[c] > n THEN o[c] - n ELSE 0
        /\ \A y \in Client \ {c} : Less(o, c, n)[y] = o[y]
    BY DEF Less
  <1>4. o[c] \in Nat
    OBVIOUS
  <1> QED
    BY <1>1, <1>2, <1>3, <1>4

LEMMA MovedTwice ==
    ASSUME NEW o \in [Client -> Nat], NEW q \in [Client -> Nat], NEW r \in [Client -> Nat]
    PROVE  /\ Moved(o, q) \in Int /\ Moved(q, r) \in Int
           /\ Moved(o, r) = Moved(o, q) + Moved(q, r)
  <1>1. PICK f, g, h : /\ f = [c \in Client |-> q[c] - o[c]]
                       /\ g = [c \in Client |-> r[c] - q[c]]
                       /\ h = [c \in Client |-> r[c] - o[c]]
    OBVIOUS
  <1>2. ASSUME NEW c \in Client PROVE f[c] \in Int /\ g[c] \in Int /\ h[c] = f[c] + g[c]
    <2>1. o[c] \in Nat /\ q[c] \in Nat /\ r[c] \in Nat
      OBVIOUS
    <2> QED
      BY <1>1, <2>1
  <1>3. IsFiniteSet(Client)
    BY ConstantsType
  <1>4. SumFunctionOnSet(h, Client) = SumFunctionOnSet(f, Client) + SumFunctionOnSet(g, Client)
    BY <1>2, <1>3, SumPlus
  <1>5. SumFunctionOnSet(f, Client) \in Int /\ SumFunctionOnSet(g, Client) \in Int
    BY <1>2, <1>3, SumIsInt
  <1>6. /\ Moved(o, q) = SumFunctionOnSet(f, Client) /\ Moved(q, r) = SumFunctionOnSet(g, Client)
        /\ Moved(o, r) = SumFunctionOnSet(h, Client)
    BY <1>1 DEF Moved, SumFunction
  <1> QED
    BY <1>4, <1>5, <1>6

\* No step takes more off the clients' accounts than off receivables.
ClaimKept == Moved(outstanding, outstanding') >= receivable' - receivable

LEMMA InvoicingKeeps == ASSUME TypedInv, Invoicing PROVE ClaimKept
  <1>1. /\ RowsInv /\ cash \in Int /\ receivable \in Int /\ outstanding \in [Client -> Nat]
    BY TypedFacts
  <1>2. ASSUME NEW c \in Client, NEW type \in Terms, NEW b \in Body,
               CreateInvoice(c, type, b)
        PROVE  ClaimKept
    <2>1. PICK n : n = Balance(Fresh(c, type, b))
      OBVIOUS
    <2>2. n \in Nat
      BY <2>1, FreshType
    <2>3. outstanding' = Owing(outstanding, c, n) /\ receivable' = receivable + n
      BY <1>2, <2>1 DEF CreateInvoice
    <2>4. Moved(outstanding, Owing(outstanding, c, n)) = n
      BY <1>1, <2>2, MovedOne
    <2> QED
      BY <1>1, <2>2, <2>3, <2>4 DEF ClaimKept
  <1>3. ASSUME NEW i \in DOMAIN invoice
        PROVE  /\ OutstandingWithout(invoice[i]) \in [Client -> Nat]
               /\ ReceivableWithout(invoice[i]) \in Int
               /\ Moved(outstanding, OutstandingWithout(invoice[i])) \in Int
               /\ Moved(outstanding, OutstandingWithout(invoice[i]))
                    >= ReceivableWithout(invoice[i]) - receivable
    <2>1. PICK d, c, n : d = invoice[i] /\ c = invoice[i].client /\ n = Balance(invoice[i])
      OBVIOUS
    <2>2. d \in Invoice /\ Sound(d) /\ c \in Client
      BY <1>1, <2>1, InvoiceType DEF RowsInv
    <2>3. /\ Lost(d) \in Nat /\ n \in Nat
          /\ ReceivableWithout(d) = receivable - n - Lost(d)
          /\ OutstandingWithout(d) \in [Client -> Nat] /\ ReceivableWithout(d) \in Int
      BY <1>1, <2>1, <2>2, ReversedType
    <2>4. OutstandingWithout(d) = outstanding \/ OutstandingWithout(d) = Less(outstanding, c, n)
      BY <2>1 DEF OutstandingWithout
    <2>5. /\ Moved(outstanding, Less(outstanding, c, n)) >= 0 - n
          /\ Moved(outstanding, Less(outstanding, c, n)) \in Int
          /\ Moved(outstanding, outstanding) = 0
      BY <1>1, <2>2, <2>3, MovedOne
    <2>6. /\ Moved(outstanding, OutstandingWithout(d)) \in Int
          /\ Moved(outstanding, OutstandingWithout(d)) >= 0 - n
      BY <2>3, <2>4, <2>5
    <2> QED
      BY <1>1, <2>1, <2>3, <2>6
  <1>4. ASSUME NEW c \in Client, NEW type \in Terms, NEW b \in Body,
               NEW i \in DOMAIN invoice, EditInvoice(i, c, type, b)
        PROVE  ClaimKept
    <2>1. PICK n, mid, left : /\ n = Balance(Fresh(c, type, b))
                              /\ mid = OutstandingWithout(invoice[i])
                              /\ left = ReceivableWithout(invoice[i])
      OBVIOUS
    <2>2. n \in Nat
      BY <2>1, FreshType
    <2>3. outstanding' = Owing(mid, c, n) /\ receivable' = left + n
      BY <1>4, <2>1 DEF EditInvoice
    <2>4. /\ mid \in [Client -> Nat] /\ left \in Int
          /\ Moved(outstanding, mid) \in Int
          /\ Moved(outstanding, mid) >= left - receivable
      BY <1>3, <2>1
    <2>5. Moved(mid, Owing(mid, c, n)) = n /\ Owing(mid, c, n) \in [Client -> Nat]
      BY <2>2, <2>4, MovedOne, AccountType
    <2>6. Moved(outstanding, Owing(mid, c, n)) = Moved(outstanding, mid) + n
      BY <1>1, <2>4, <2>5, MovedTwice
    <2> QED
      BY <1>1, <2>2, <2>3, <2>4, <2>6 DEF ClaimKept
  <1>5. ASSUME NEW i \in DOMAIN invoice, DeleteInvoice(i) PROVE ClaimKept
    BY <1>3, <1>5 DEF DeleteInvoice, ClaimKept
  <1> QED
    BY <1>2, <1>4, <1>5 DEF Invoicing

\* Money received, and goods or an amount taken off a client's account.
LEMMA LessKeeps ==
    ASSUME outstanding \in [Client -> Nat], receivable \in Int,
           NEW c \in Client, NEW n \in Nat,
           outstanding' = Less(outstanding, c, n), receivable' = receivable - n
    PROVE  ClaimKept
  <1>1. /\ Moved(outstanding, Less(outstanding, c, n)) >= 0 - n
        /\ Moved(outstanding, Less(outstanding, c, n)) \in Int
    BY MovedOne
  <1> QED
    BY <1>1 DEF ClaimKept

LEMMA StepsKeep == TypedInv /\ [Next]_vars => [ClaimKept]_vars
  <1> SUFFICES ASSUME TypedInv, Next PROVE ClaimKept
    OBVIOUS
  <1>1. /\ RowsInv /\ receivable \in Int /\ outstanding \in [Client -> Nat]
    BY TypedFacts
  <1>2. \A i \in DOMAIN invoice : invoice[i].client \in Client
    BY <1>1, InvoiceType DEF RowsInv
  <1>3. CASE Paying
    <2>1. \A n \in Payment : n \in Nat
      BY ConstantsType
    <2>2. \/ \E n \in Payment, i \in DOMAIN invoice : PaidOne(i, n)
          \/ \E n \in Payment, c \in Client : ClientPayment(c, n) \/ RefundAccount(c, n)
      BY <1>1, <1>3, PaymentsPayOne DEF Paying
    <2>3. \E c \in Client, n \in Nat : /\ outstanding' = Less(outstanding, c, n)
                                       /\ receivable' = receivable - n
      BY <1>2, <2>1, <2>2 DEF PaidOne, ClientPayment, RefundAccount, Receive
    <2> QED
      BY <1>1, <2>3, LessKeeps
  <1>4. CASE Settling
    <2>1. PICK i \in DOMAIN invoice, k \in DOMAIN invoice, p \in Product :
            \E s, r \in 0..invoice[k].qty[p] : SettleConsignment(i, k, p, s, r)
      BY <1>4 DEF Settling
    <2>2. PICK s \in 0..invoice[k].qty[p], r \in 0..invoice[k].qty[p] :
            SettleConsignment(i, k, p, s, r)
      BY <2>1
    <2>3. s \in Nat
      BY <1>1, <2>2, SettlingRows
    <2>4. PICK n \in Nat : n = s * Price[p]
      BY <2>3, ConstantsType
    <2>5. outstanding' = Less(outstanding, invoice[i].client, n) /\ receivable' = receivable - n
      BY <2>2, <2>4 DEF SettleConsignment, Receive
    <2> QED
      BY <1>1, <1>2, <2>5, LessKeeps
  <1>5. CASE Refunding
    <2>1. ASSUME NEW c \in Client, NEW b \in Body, CreateRefund(c, b) PROVE ClaimKept
      BY <1>1, <2>1, LessKeeps, ConstantsType DEF CreateRefund
    <2>2. ASSUME NEW x \in DOMAIN refund, DeleteRefund(x) PROVE ClaimKept
      <3>1. PICK c, n : c = refund[x].client /\ n = refund[x].total
        OBVIOUS
      <3>2. c \in Client /\ n \in Nat
        BY <1>1, <3>1, RefundType DEF RowsInv
      <3>3. outstanding' = Owing(outstanding, c, n) /\ receivable' = receivable + n
        BY <2>2, <3>1 DEF DeleteRefund
      <3>4. Moved(outstanding, Owing(outstanding, c, n)) = n
        BY <1>1, <3>2, MovedOne
      <3> QED
        BY <1>1, <3>2, <3>3, <3>4 DEF ClaimKept
    <2> QED
      BY <1>5, <2>1, <2>2 DEF Refunding
  <1> QED
    BY <1>3, <1>4, <1>5, InvoicingKeeps DEF Next

\* b2b.py, accounting.py: no request drops a claim on a client that the ledger
\* keeps: outstanding is never lowered by more than receivables are.
THEOREM NoClaimIsDropped == Spec => ClaimsKept
  <1>1. TypedInv /\ [Next]_vars
          => [SumFunction([c \in Client |-> outstanding'[c] - outstanding[c]])
                >= receivable' - receivable]_vars
    BY StepsKeep DEF ClaimKept, Moved
  <1> QED
    BY <1>1, TypedInit, TypedStep, PTL DEF Spec, ClaimsKept
-----------------------------------------------------------------------------
\* Sums of the same rows add up.
LEMMA WeighPlus ==
    ASSUME RowsInv, NEW u \in [Invoice -> Int], NEW v \in [Invoice -> Int],
           NEW w \in [Invoice -> Int], \A d \in Invoice : w[d] = u[d] + v[d]
    PROVE  Weigh(w) = Weigh(u) + Weigh(v)
  <1>1. PICK D, f, g, h : /\ D = DOMAIN invoice
                          /\ f = [i \in DOMAIN invoice |-> u[invoice[i]]]
                          /\ g = [i \in DOMAIN invoice |-> v[invoice[i]]]
                          /\ h = [i \in DOMAIN invoice |-> w[invoice[i]]]
    OBVIOUS
  <1>2. \A i \in D : f[i] \in Int /\ g[i] \in Int /\ h[i] = f[i] + g[i]
    BY <1>1 DEF RowsInv
  <1>3. IsFiniteSet(D)
    BY <1>1, RowsFinite
  <1>4. SumFunctionOnSet(h, D) = SumFunctionOnSet(f, D) + SumFunctionOnSet(g, D)
    BY <1>2, <1>3, SumPlus
  <1> QED
    BY <1>1, <1>4 DEF Weigh, SumFunction

PaidAs(T) == [d \in Invoice |-> IF d.type \in T THEN d.paid ELSE 0]
Gross == [d \in Invoice |-> d.total]

LEMMA PaidAsSum ==
    ASSUME RowsInv, NEW T
    PROVE  PaidAs(T) \in [Invoice -> Int] /\ PaidOn(T) = Weigh(PaidAs(T))
  <1>1. PICK R : R = {j \in DOMAIN invoice : invoice[j].type \in T}
    OBVIOUS
  <1>2. PaidAs(T) \in [Invoice -> Int] /\ Paid \in [Invoice -> Int]
    BY InvoiceType, WeightsType DEF PaidAs
  <1>3. ASSUME NEW i \in DOMAIN invoice
        PROVE  /\ PaidAs(T)[invoice[i]] = IF i \in R THEN Paid[invoice[i]] ELSE 0
               /\ Paid[invoice[i]] = invoice[i].paid
    <2>1. invoice[i] \in Invoice
      BY DEF RowsInv
    <2> QED
      BY <1>1, <2>1 DEF PaidAs, Paid
  <1>4. R \subseteq DOMAIN invoice
    BY <1>1
  <1>5. SumFunction([i \in R |-> Paid[invoice[i]]]) = Weigh(PaidAs(T))
    BY <1>2, <1>3, <1>4, PartIsSum
  <1>6. [i \in R |-> Paid[invoice[i]]] = [i \in R |-> invoice[i].paid]
    BY <1>3, <1>4
  <1> QED
    BY <1>1, <1>2, <1>5, <1>6 DEF PaidOn

LEMMA RevenueIsCash ==
    ASSUME BooksInv
    PROVE  Revenue = cash /\ cash \in Nat
  <1>1. PICK D, f : D = DOMAIN invoice /\ f = [i \in DOMAIN invoice |-> Paid[invoice[i]]]
    OBVIOUS
  <1>2. RowsInv /\ settled \in Nat /\ forgotten \in Nat
    BY DEF BooksInv, TypedInv, CountsInv
  <1>3. IsFiniteSet(D)
    BY <1>1, <1>2, RowsFinite
  <1>4. \A i \in D : f[i] \in Nat
    BY <1>1, <1>2, InvoiceType, WeightsAt DEF RowsInv
  <1>5. SumFunctionOnSet(f, D) \in Nat
    BY <1>3, <1>4, SumNat
  <1>6. Weigh(Paid) \in Nat
    BY <1>1, <1>5 DEF Weigh, SumFunction
  <1>7. cash \in Nat
    BY <1>2, <1>6 DEF BooksInv, SumsInv, CashSum
  <1> QED
    BY <1>7 DEF Revenue

\* reports.py: the sales report's cash of clients differs from the ledger's by
\* settlements, refunds and full payments counted twice, and by nothing else.
THEOREM CashReportIsExplained == Spec => []CashReportExplained
  <1>1. BooksInv => CashReportExplained
    <2> SUFFICES ASSUME BooksInv PROVE CashReportExplained
      OBVIOUS
    <2>1. /\ RowsInv /\ settled \in Nat /\ forgotten \in Nat /\ Revenue = cash
          /\ cash = Weigh(Paid) + settled + forgotten
          /\ collected = Weigh(Received) + forgotten
      BY RevenueIsCash DEF BooksInv, TypedInv, CountsInv, SumsInv, CashSum, ReceivedSum
    <2>2. PICK direct, full : /\ direct = PaidAs(Terms \ {"consignment"})
                              /\ full = PaidAs({"full_payment"})
      OBVIOUS
    <2>3. /\ direct \in [Invoice -> Int] /\ full \in [Invoice -> Int]
          /\ PaidOn(Terms \ {"consignment"}) = Weigh(direct)
          /\ PaidOn({"full_payment"}) = Weigh(full)
      BY <2>1, <2>2, PaidAsSum
    <2>4. Paid \in [Invoice -> Int] /\ Received \in [Invoice -> Int]
      BY WeightsType
    <2>5. PICK both : both = [d \in Invoice |-> Paid[d] + full[d]]
      OBVIOUS
    <2>6. ASSUME NEW d \in Invoice
          PROVE  both[d] \in Int /\ both[d] = Paid[d] + full[d]
                 /\ both[d] = direct[d] + Received[d]
      <3>1. d.paid \in Nat /\ d.type \in {"cash", "full_payment", "consignment"}
        BY InvoiceType DEF Terms
      <3>2. /\ Paid[d] = d.paid /\ Received[d] = (IF d.type = "cash" THEN 0 ELSE d.paid)
            /\ full[d] = (IF d.type = "full_payment" THEN d.paid ELSE 0)
            /\ direct[d] = (IF d.type = "consignment" THEN 0 ELSE d.paid)
        BY <2>2, <3>1, WeightsAt DEF PaidAs, Terms
      <3> QED
        BY <2>5, <3>1, <3>2
    <2>7. both \in [Invoice -> Int]
      BY <2>5, <2>6
    <2>8. Weigh(both) = Weigh(Paid) + Weigh(full)
      BY <2>1, <2>3, <2>4, <2>6, <2>7, WeighPlus
    <2>9. Weigh(both) = Weigh(direct) + Weigh(Received)
      BY <2>1, <2>3, <2>4, <2>6, <2>7, WeighPlus
    <2>10. /\ Weigh(Paid) \in Int /\ Weigh(full) \in Int /\ Weigh(direct) \in Int
           /\ Weigh(Received) \in Int /\ RefundTotal \in Int
      BY <2>1, <2>3, <2>4, SumsType, SumsAreWeights, WeightsType DEF RefundTotal
    <2> QED
      BY <2>1, <2>3, <2>8, <2>9, <2>10 DEF CashReportExplained, CashCollected, PaymentRecords
  <1> QED
    BY <1>1, BooksHold, PTL

\* reports.py: net sales in the sales report are the revenue of the profit report,
\* what clients owe in the ledger and what was written off.
THEOREM NetSalesAreBooked == Spec => []NetSalesBooked
  <1>1. BooksInv => NetSalesBooked
    <2> SUFFICES ASSUME BooksInv PROVE NetSalesBooked
      OBVIOUS
    <2>1. /\ RowsInv /\ settled \in Nat /\ forgotten \in Nat /\ waived \in Nat
          /\ Revenue = cash /\ cash = Weigh(Paid) + settled + forgotten
          /\ receivable = Weigh(Unpaid) - Back(Total) - waived - settled - forgotten
      BY RevenueIsCash DEF BooksInv, TypedInv, CountsInv, SumsInv, CashSum, ClaimSum
    <2>2. Paid \in [Invoice -> Int] /\ Unpaid \in [Invoice -> Int] /\ Total \in [Refund -> Int]
      BY WeightsType
    <2>3. ASSUME NEW d \in Invoice PROVE Gross[d] \in Int /\ Gross[d] = Paid[d] + Unpaid[d]
      <3>1. d.total \in Nat /\ d.paid \in Nat /\ Balance(d) = d.total - d.paid
        BY InvoiceType
      <3>2. Paid[d] = d.paid /\ Unpaid[d] = Balance(d) /\ Gross[d] = d.total
        BY WeightsAt DEF Gross
      <3> QED
        BY <3>1, <3>2
    <2>4. Gross \in [Invoice -> Int]
      BY <2>3 DEF Gross
    <2>5. Weigh(Gross) = Weigh(Paid) + Weigh(Unpaid)
      BY <2>1, <2>2, <2>3, <2>4, WeighPlus
    <2>6. GrossSales = Weigh(Gross)
      <3>1. \A i \in DOMAIN invoice : invoice[i] \in Invoice
        BY <2>1 DEF RowsInv
      <3>2. [i \in DOMAIN invoice |-> invoice[i].total]
              = [i \in DOMAIN invoice |-> Gross[invoice[i]]]
        BY <3>1 DEF Gross
      <3> QED
        BY <3>2 DEF GrossSales, Weigh
    <2>7. RefundTotal = Back(Total)
      BY <2>1, SumsAreWeights DEF RefundTotal
    <2>8. Weigh(Paid) \in Int /\ Weigh(Unpaid) \in Int /\ Back(Total) \in Int
      BY <2>1, <2>2, SumsType
    <2> QED
      BY <2>1, <2>5, <2>6, <2>7, <2>8 DEF NetSalesBooked, NetSales
  <1> QED
    BY <1>1, BooksHold, PTL
=============================================================================
