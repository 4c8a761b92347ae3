---------------------------- MODULE RetailProofs ----------------------------
(***************************************************************************)
(* Theorems about Retail, for every set of products and requests, every    *)
(* bound and every set of carts and refund bodies.                         *)
(***************************************************************************)
EXTENDS Retail, TLAPS

\* A session works on an invoice that exists, and a step belongs to the kind of
\* request that takes it.
SessionsOK ==
    \A r \in Request :
        /\ tx[r].kind = "refund" => tx[r].inv \in InvoiceId
        /\ tx[r].kind = "collect" => tx[r].inv \in InvoiceId
        /\ tx[r].pc \in {"numbered", "inserted", "counted"} => tx[r].kind = "refund"
        /\ tx[r].kind = "sale" /\ tx[r].pc \in Writing => tx[r].inv \in 1..invoiceSeq

Typed == TypeOK /\ SessionsOK

LEMMA IdleType == Idle \in Session
  BY DEF Idle, Session, Basket, Account, Empty, Inserted, Writing

LEMMA InitTyped == Init => Typed
  <1> SUFFICES ASSUME Init PROVE Typed
    OBVIOUS
  <1>1. tx \in [Request -> Session]
    BY IdleType DEF Init
  <1>2. OpeningStock \in [Product -> Int]
    BY ConstantsOK
  <1>3. Empty \in Basket /\ Empty \in [Product -> Int]
    BY DEF Empty, Basket
  <1>4. invoice \in [InvoiceId -> [status : {"none", "unpaid", "paid"},
                                   sold : Basket, total : Nat, payments : Nat]]
    BY <1>3 DEF Init, NoInvoice
  <1>5. refunded \in [InvoiceId -> Basket]
    BY <1>3 DEF Init
  <1>8. mixed \in BOOLEAN
    BY DEF Init
  <1>9. /\ lastRefund \in Nat /\ invoiceSeq \in 0..MaxInvoice /\ refundSeq \in Nat
        /\ balance \in [Account -> Int] /\ posted \in [Account -> Int]
        /\ refundNumbers \in SUBSET Nat
    BY ConstantsOK DEF Init
  <1>10. /\ stock \in [Product -> Int]
         /\ mainStock \in [Product -> Int]
         /\ moved \in [Product -> Int]
    BY <1>2, <1>3 DEF Init
  <1>6. TypeOK
    BY <1>1, <1>4, <1>5, <1>8, <1>9, <1>10 DEF TypeOK
  <1>7. SessionsOK
    BY DEF Init, SessionsOK, Idle, Writing
  <1> QED
    BY <1>6, <1>7 DEF Typed

\* One session moves and the tables stay: what the new session has to satisfy.
LEMMA MoveTyped ==
    ASSUME Typed, NEW r \in Request, NEW t \in Session,
           tx' = [tx EXCEPT ![r] = t], UNCHANGED tables, mixed' \in BOOLEAN,
           invoiceSeq' \in invoiceSeq..MaxInvoice, refundSeq' \in Nat,
           t.kind = "refund" => t.inv \in InvoiceId,
           t.kind = "collect" => t.inv \in InvoiceId,
           t.pc \in {"numbered", "inserted", "counted"} => t.kind = "refund",
           t.kind = "sale" /\ t.pc \in Writing => t.inv \in 1..invoiceSeq'
    PROVE  Typed'
  <1>1. tx \in [Request -> Session] /\ invoiceSeq \in 0..MaxInvoice
    BY DEF Typed, TypeOK
  <1>2. invoiceSeq \in Nat /\ invoiceSeq' \in Nat /\ invoiceSeq' \in 0..MaxInvoice
    BY <1>1, ConstantsOK
  <1>3. TypeOK'
    BY <1>1, <1>2 DEF Typed, TypeOK, tables
  <1>4. SessionsOK'
    <2> SUFFICES ASSUME NEW o \in Request
                 PROVE  /\ tx'[o].kind = "refund" => tx'[o].inv \in InvoiceId
                        /\ tx'[o].kind = "collect" => tx'[o].inv \in InvoiceId
                        /\ tx'[o].pc \in {"numbered", "inserted", "counted"}
                              => tx'[o].kind = "refund"
                        /\ tx'[o].kind = "sale" /\ tx'[o].pc \in Writing
                              => tx'[o].inv \in 1..invoiceSeq'
      BY DEF SessionsOK, Writing, InvoiceId
    <2>1. CASE o = r
      BY <1>1, <2>1
    <2>2. CASE o # r
      <3>1. tx'[o] = tx[o]
        BY <1>1, <2>2
      <3> QED
        BY <1>2, <3>1 DEF Typed, SessionsOK
    <2> QED
      BY <2>1, <2>2
  <1> QED
    BY <1>3, <1>4 DEF Typed

LEMMA BeginTyped ==
    ASSUME Typed, NEW r \in Request, NEW t \in Session, Begin(r, t),
           t.kind = "refund" => t.inv \in InvoiceId,
           t.kind = "collect" => t.inv \in InvoiceId,
           t.pc \in {"numbered", "inserted", "counted"} => t.kind = "refund",
           t.pc \notin Writing
    PROVE  Typed'
  <1>1. mixed' \in BOOLEAN
    BY DEF Begin
  <1>2. /\ invoiceSeq \in 0..MaxInvoice /\ invoiceSeq' = invoiceSeq
        /\ refundSeq' \in Nat
        /\ UNCHANGED tables
        /\ tx' = [tx EXCEPT ![r] = t]
    BY DEF Begin, Typed, TypeOK
  <1>3. invoiceSeq' \in invoiceSeq..MaxInvoice
    BY <1>2, ConstantsOK
  <1> QED
    BY <1>1, <1>2, <1>3, MoveTyped

LEMMA ContinueTyped ==
    ASSUME Typed, NEW r \in Request, NEW t \in Session, Continue(r, t),
           invoiceSeq' \in invoiceSeq..MaxInvoice, refundSeq' \in Nat,
           t.kind = "refund" => t.inv \in InvoiceId,
           t.kind = "collect" => t.inv \in InvoiceId,
           t.pc \in {"numbered", "inserted", "counted"} => t.kind = "refund",
           t.kind = "sale" /\ t.pc \in Writing => t.inv \in 1..invoiceSeq'
    PROVE  Typed'
  <1>1. tx' = [tx EXCEPT ![r] = t] /\ UNCHANGED tables /\ mixed' = mixed
    BY DEF Continue
  <1>2. mixed' \in BOOLEAN
    BY <1>1 DEF Typed, TypeOK
  <1> QED
    BY <1>1, <1>2, MoveTyped

\* A session that ends takes no part in what the tables have to satisfy.
LEMMA FinishTyped ==
    ASSUME Typed, NEW r \in Request, Finish(r),
           stock' \in [Product -> Int], mainStock' \in [Product -> Int],
           moved' \in [Product -> Int],
           invoice' \in [InvoiceId -> [status : {"none", "unpaid", "paid"},
                                       sold : Basket, total : Nat,
                                       payments : Nat]],
           refunded' \in [InvoiceId -> Basket],
           refundNumbers' \in SUBSET Nat, lastRefund' \in Nat,
           balance' \in [Account -> Int], posted' \in [Account -> Int]
    PROVE  Typed'
  <1>1. /\ tx' = [tx EXCEPT ![r] = Idle] /\ tx \in [Request -> Session]
        /\ tx' \in [Request -> Session]
    BY IdleType DEF Finish, Typed, TypeOK
  <1>2. TypeOK'
    BY <1>1 DEF Finish, Typed, TypeOK
  <1>3. SessionsOK'
    <2> SUFFICES ASSUME NEW o \in Request
                 PROVE  /\ tx'[o].kind = "refund" => tx'[o].inv \in InvoiceId
                        /\ tx'[o].kind = "collect" => tx'[o].inv \in InvoiceId
                        /\ tx'[o].pc \in {"numbered", "inserted", "counted"}
                              => tx'[o].kind = "refund"
                        /\ tx'[o].kind = "sale" /\ tx'[o].pc \in Writing
                              => tx'[o].inv \in 1..invoiceSeq'
      BY DEF SessionsOK, Writing, InvoiceId
    <2>1. CASE o = r
      BY <1>1, <2>1 DEF Idle, Writing
    <2>2. CASE o # r
      BY <1>1, <2>2 DEF Typed, SessionsOK, Finish
    <2> QED
      BY <2>1, <2>2
  <1> QED
    BY <1>2, <1>3 DEF Typed

\* What the three kinds of session start with.
LEMMA NewSessions ==
    ASSUME Typed
    PROVE  /\ \A c \in Cart : /\ SaleSession(c) \in Session
                              /\ SaleSession(c).kind = "sale"
                              /\ SaleSession(c).pc = "checked"
           /\ \A i \in InvoiceId : /\ CollectSession(i) \in Session
                                   /\ CollectSession(i).kind = "collect"
                                   /\ CollectSession(i).pc = "checked"
                                   /\ CollectSession(i).inv = i
           /\ \A i \in InvoiceId, b \in RefundBody :
                 /\ RefundSession(i, b) \in Session
                 /\ RefundSession(i, b).kind = "refund"
                 /\ RefundSession(i, b).pc = "numbered"
                 /\ RefundSession(i, b).inv = i
                 /\ RefundSession(i, b).num = lastRefund + 1
                 /\ RefundSession(i, b).qty = b.qty
                 /\ RefundSession(i, b).largest = b.largest
  <1>1. ASSUME NEW c \in Cart
        PROVE  /\ SaleSession(c) \in Session
               /\ SaleSession(c).kind = "sale"
               /\ SaleSession(c).pc = "checked"
    <2>1. c.qty \in Basket /\ Amount(c.qty) - c.discount \in Nat
      BY ConstantsOK
    <2>2. stock \in [Product -> Int]
      BY DEF Typed, TypeOK
    <2>3. SaleSession(c) \in Session
      BY <2>1, <2>2, IdleType DEF SaleSession, Session, Account
    <2> QED
      BY <2>3 DEF SaleSession, Idle
  <1>2. ASSUME NEW i \in InvoiceId
        PROVE  /\ CollectSession(i) \in Session
               /\ CollectSession(i).kind = "collect"
               /\ CollectSession(i).pc = "checked"
               /\ CollectSession(i).inv = i
    <2>1. invoice[i].total \in Nat /\ i \in Nat
      BY ConstantsOK DEF Typed, TypeOK, InvoiceId
    <2>2. CollectSession(i) \in Session
      BY <2>1, IdleType DEF CollectSession, Session, Account
    <2> QED
      BY <2>2 DEF CollectSession, Idle
  <1>3. ASSUME NEW i \in InvoiceId, NEW b \in RefundBody
        PROVE  /\ RefundSession(i, b) \in Session
               /\ RefundSession(i, b).kind = "refund"
               /\ RefundSession(i, b).pc = "numbered"
               /\ RefundSession(i, b).inv = i
               /\ RefundSession(i, b).num = lastRefund + 1
               /\ RefundSession(i, b).qty = b.qty
               /\ RefundSession(i, b).largest = b.largest
    <2>1. /\ i \in Nat
          /\ b.qty \in Basket /\ b.largest \in Basket /\ Amount(b.qty) \in Nat
      BY ConstantsOK DEF InvoiceId
    <2>2. (IF b.cash THEN "1000" ELSE "1100") \in Account
      BY DEF Account
    <2>3. NextRefundNumber \in Nat /\ NextRefundNumber = lastRefund + 1
      BY DEF NextRefundNumber, Typed, TypeOK
    <2>4. RefundSession(i, b) \in Session
      BY <2>1, <2>2, <2>3, IdleType DEF RefundSession, Session, Account
    <2> QED
      BY <2>3, <2>4 DEF RefundSession, Idle
  <1> QED
    BY <1>1, <1>2, <1>3

LEMMA BeginsTyped ==
    ASSUME Typed, NEW r \in Request,
           SaleCheck(r) \/ CollectCheck(r) \/ RefundNumber(r)
    PROVE  Typed'
  <1>1. CASE SaleCheck(r)
    BY <1>1, NewSessions, BeginTyped DEF SaleCheck, Writing
  <1>2. CASE CollectCheck(r)
    BY <1>2, NewSessions, BeginTyped DEF CollectCheck, Writing
  <1>3. CASE RefundNumber(r)
    BY <1>3, NewSessions, BeginTyped DEF RefundNumber, Writing
  <1> QED
    BY <1>1, <1>2, <1>3

LEMMA FlushesTyped ==
    ASSUME Typed, NEW r \in Request, SaleFlush(r) \/ CollectFlush(r) \/ RefundFlush(r)
    PROVE  Typed'
  <1>1. tx[r] \in Session /\ invoiceSeq \in 0..MaxInvoice /\ refundSeq \in Nat
    BY DEF Typed, TypeOK
  <1>2. invoiceSeq \in Nat /\ invoiceSeq \in invoiceSeq..MaxInvoice
    BY <1>1, ConstantsOK
  <1>3. CASE SaleFlush(r)
    <2> DEFINE t == [tx[r] EXCEPT !.pc = "flushed", !.inv = invoiceSeq + 1]
    <2>1. t \in Session /\ t.kind = "sale" /\ t.inv = invoiceSeq + 1
              /\ t.pc = "flushed"
      <3>1. invoiceSeq + 1 \in Nat /\ tx[r].kind = "sale"
        BY <1>2, <1>3 DEF SaleFlush
      <3> QED
        BY <1>1, <3>1 DEF Session, Inserted, Writing
    <2>2. Continue(r, t) /\ invoiceSeq' = invoiceSeq + 1 /\ refundSeq' \in Nat
      BY <1>1, <1>3 DEF SaleFlush
    <2>3. invoiceSeq' \in invoiceSeq..MaxInvoice /\ t.inv \in 1..invoiceSeq'
      BY <1>1, <1>2, <1>3, <2>1, <2>2, ConstantsOK DEF SaleFlush
    <2> HIDE DEF t
    <2> QED
      BY <2>1, <2>2, <2>3, ContinueTyped
  <1>4. CASE CollectFlush(r) \/ RefundFlush(r)
    <2> DEFINE t == [tx[r] EXCEPT !.pc = "flushed"]
    <2>1. t \in Session /\ t.kind = tx[r].kind /\ t.inv = tx[r].inv
              /\ t.pc = "flushed"
      BY <1>1 DEF Session, Inserted, Writing
    <2>2. Continue(r, t) /\ invoiceSeq' = invoiceSeq /\ refundSeq' \in Nat
      BY <1>1, <1>4 DEF CollectFlush, RefundFlush
    <2>3. t.kind \in {"collect", "refund"} /\ t.inv \in InvoiceId
      BY <1>4, <2>1 DEF CollectFlush, RefundFlush, Typed, SessionsOK
    <2> HIDE DEF t
    <2> QED
      BY <1>2, <2>1, <2>2, <2>3, ContinueTyped
  <1> QED
    BY <1>3, <1>4

LEMMA RefundStepsTyped ==
    ASSUME Typed, NEW r \in Request,
           RefundCheck(r) \/ RefundReject(r) \/ RefundInsert(r)
              \/ RefundConflict(r) \/ RefundReadProducts(r)
    PROVE  Typed'
  <1>1. /\ tx[r] \in Session /\ refundSeq \in Nat /\ refundSeq + 1 \in Nat
        /\ stock \in [Product -> Int]
    BY DEF Typed, TypeOK
  <1>2. invoiceSeq \in invoiceSeq..MaxInvoice
    BY ConstantsOK DEF Typed, TypeOK
  <1>3. tx[r].kind = "refund" /\ tx[r].inv \in InvoiceId
    BY DEF RefundCheck, RefundReject, RefundInsert, RefundConflict,
           RefundReadProducts, Typed, SessionsOK
  <1>4. invoiceSeq' = invoiceSeq /\ refundSeq' \in Nat
    BY <1>1 DEF RefundCheck, RefundReject, RefundInsert, RefundConflict,
                RefundReadProducts
  <1>5. CASE RefundReject(r) \/ RefundConflict(r)
    <2>1. Continue(r, Idle)
      BY <1>5 DEF RefundReject, RefundConflict
    <2>2. Idle.kind = "none" /\ Idle.pc = "idle"
      BY DEF Idle
    <2> QED
      BY <1>2, <1>4, <2>1, <2>2, IdleType, ContinueTyped DEF Writing
  <1>6. CASE RefundCheck(r)
    <2> DEFINE t == [tx[r] EXCEPT !.pc = "checked",
                                  !.seenRefunded = refunded[tx[r].inv]]
    <2>1. refunded[tx[r].inv] \in Basket
      BY <1>3 DEF Typed, TypeOK
    <2>2. t \in Session /\ t.kind = "refund" /\ t.inv \in InvoiceId /\ t.pc = "checked"
      BY <1>1, <1>3, <2>1 DEF Session, Inserted, Writing
    <2>3. Continue(r, t)
      BY <1>6 DEF RefundCheck
    <2> HIDE DEF t
    <2> QED
      BY <1>2, <1>4, <2>2, <2>3, ContinueTyped
  <1>7. CASE RefundInsert(r)
    <2> DEFINE t == [tx[r] EXCEPT !.pc = "inserted", !.id = refundSeq + 1]
    <2>1. t \in Session /\ t.kind = "refund" /\ t.inv \in InvoiceId /\ t.pc = "inserted"
      BY <1>1, <1>3 DEF Session, Inserted, Writing
    <2>2. Continue(r, t)
      BY <1>7 DEF RefundInsert
    <2> HIDE DEF t
    <2> QED
      BY <1>2, <1>4, <2>1, <2>2, ContinueTyped
  <1>8. CASE RefundReadProducts(r)
    <2> DEFINE t == [tx[r] EXCEPT !.pc = "counted", !.seenStock = stock]
    <2>1. t \in Session /\ t.kind = "refund" /\ t.inv \in InvoiceId /\ t.pc = "counted"
      BY <1>1, <1>3 DEF Session, Inserted, Writing
    <2>2. Continue(r, t)
      BY <1>8 DEF RefundReadProducts
    <2> HIDE DEF t
    <2> QED
      BY <1>2, <1>4, <2>1, <2>2, ContinueTyped
  <1> QED
    BY <1>5, <1>6, <1>7, <1>8

LEMMA ReadsTyped ==
    ASSUME Typed, NEW r \in Request, ReadDebit(r) \/ ReadCredit(r)
    PROVE  Typed'
  <1>1. tx[r] \in Session
    BY DEF Typed, TypeOK
  <1>2. invoiceSeq \in invoiceSeq..MaxInvoice /\ refundSeq \in Nat
    BY ConstantsOK DEF Typed, TypeOK
  <1>3. /\ tx[r].pc \in Writing
        /\ tx[r].kind = "refund" => tx[r].inv \in InvoiceId
        /\ tx[r].kind = "collect" => tx[r].inv \in InvoiceId
        /\ tx[r].kind = "sale" => tx[r].inv \in 1..invoiceSeq
    BY DEF ReadDebit, ReadCredit, Writing, Typed, SessionsOK
  <1>4. balance[tx[r].debit] \in Int /\ balance[tx[r].credit] \in Int
    BY <1>1 DEF Session, Typed, TypeOK
  <1>5. invoiceSeq' = invoiceSeq /\ refundSeq' = refundSeq
    BY DEF ReadDebit, ReadCredit
  <1>6. CASE ReadDebit(r)
    <2> DEFINE t == [tx[r] EXCEPT !.pc = "debited",
                                  !.seenDebit = balance[tx[r].debit]]
    <2>1. t \in Session /\ t.kind = tx[r].kind /\ t.inv = tx[r].inv /\ t.pc = "debited"
      BY <1>1, <1>4 DEF Session, Inserted, Writing
    <2>2. Continue(r, t)
      BY <1>6 DEF ReadDebit
    <2> HIDE DEF t
    <2> QED
      BY <1>2, <1>3, <1>5, <2>1, <2>2, ContinueTyped
  <1>7. CASE ReadCredit(r)
    <2> DEFINE t == [tx[r] EXCEPT !.pc = "credited",
                                  !.seenCredit = balance[tx[r].credit]]
    <2>1. t \in Session /\ t.kind = tx[r].kind /\ t.inv = tx[r].inv /\ t.pc = "credited"
      BY <1>1, <1>4 DEF Session, Inserted, Writing
    <2>2. Continue(r, t)
      BY <1>7 DEF ReadCredit
    <2> HIDE DEF t
    <2> QED
      BY <1>2, <1>3, <1>5, <2>1, <2>2, ContinueTyped
  <1> QED
    BY <1>6, <1>7

LEMMA CommitsTyped ==
    ASSUME Typed, NEW r \in Request,
           SaleCommit(r) \/ CollectCommit(r) \/ RefundCommit(r) \/ Abort(r)
    PROVE  Typed'
  <1> USE DEF Typed, TypeOK
  <1>1. tx[r] \in Session
    OBVIOUS
  <1>2. /\ tx[r].qty \in Basket /\ tx[r].amount \in Nat
        /\ tx[r].num \in Nat /\ tx[r].id \in Nat
        /\ tx[r].seenStock \in [Product -> Int]
        /\ tx[r].seenDebit \in Int /\ tx[r].seenCredit \in Int
    BY <1>1 DEF Session
  <1>3. Finish(r)
    BY DEF SaleCommit, CollectCommit, RefundCommit, Abort
  <1>4. CASE Abort(r)
    BY <1>3, <1>4, FinishTyped DEF Abort, tables
  <1>5. ASSUME PostJournal(tx[r])
        PROVE  balance' \in [Account -> Int] /\ posted' \in [Account -> Int]
    <2>1. /\ tx[r].seenDebit + tx[r].amount \in Int
          /\ tx[r].seenCredit - tx[r].amount \in Int
      BY <1>2
    <2>2. balance' \in [Account -> Int]
      BY <1>5, <2>1 DEF PostJournal
    <2>3. \A f \in [Account -> Int], d \in Account, c \in Account, n \in Int :
             [f EXCEPT ![d] = @ + n, ![c] = @ - n] \in [Account -> Int]
      BY DEF Account
    <2>4. tx[r].debit \in Account /\ tx[r].credit \in Account
      BY <1>1 DEF Session
    <2>5. posted' \in [Account -> Int]
      BY <1>2, <1>5, <2>3, <2>4 DEF PostJournal
    <2> QED
      BY <2>2, <2>5
  <1>6. \A c \in [Product -> Int], sign \in {-1, 1} :
           Written(c, tx[r].seenStock, sign, tx[r].qty) \in [Product -> Int]
    BY <1>2 DEF Written, Basket
  <1>7. CASE SaleCommit(r)
    <2>1. stock' \in [Product -> Int] /\ mainStock' \in [Product -> Int]
      BY <1>6, <1>7 DEF SaleCommit
    <2>2. moved' \in [Product -> Int]
      BY <1>2, <1>7 DEF SaleCommit, Basket
    <2>3. invoice' \in [InvoiceId -> [status : {"none", "unpaid", "paid"},
                                      sold : Basket, total : Nat, payments : Nat]]
      BY <1>2, <1>7 DEF SaleCommit, StatusOf
    <2> QED
      BY <1>3, <1>5, <1>7, <2>1, <2>2, <2>3, FinishTyped DEF SaleCommit
  <1>8. CASE CollectCommit(r)
    <2>1. tx[r].inv \in InvoiceId
      BY <1>8 DEF CollectCommit, SessionsOK
    <2>2. invoice' \in [InvoiceId -> [status : {"none", "unpaid", "paid"},
                                      sold : Basket, total : Nat, payments : Nat]]
      BY <1>8, <2>1 DEF CollectCommit
    <2> QED
      BY <1>3, <1>5, <1>8, <2>2, FinishTyped DEF CollectCommit
  <1>9. CASE RefundCommit(r)
    <2>1. stock' \in [Product -> Int]
      BY <1>6, <1>9 DEF RefundCommit
    <2>2. moved' \in [Product -> Int]
      BY <1>2, <1>9 DEF RefundCommit, Basket
    <2>3. refunded' \in [InvoiceId -> Basket]
      <3>1. \A q \in Basket : [p \in Product |-> q[p] + tx[r].qty[p]] \in Basket
        BY <1>2 DEF Basket
      <3>2. tx[r].inv \in InvoiceId
        BY <1>9 DEF RefundCommit, SessionsOK
      <3> QED
        BY <1>9, <3>1, <3>2 DEF RefundCommit
    <2>4. refundNumbers' \in SUBSET Nat /\ lastRefund' \in Nat
      BY <1>2, <1>9 DEF RefundCommit
    <2> QED
      BY <1>3, <1>5, <1>9, <2>1, <2>2, <2>3, <2>4, FinishTyped DEF RefundCommit
  <1> QED
    BY <1>4, <1>7, <1>8, <1>9

LEMMA NextTyped == Typed /\ [Next]_vars => Typed'
  <1> SUFFICES ASSUME Typed, [Next]_vars PROVE Typed'
    OBVIOUS
  <1>1. CASE UNCHANGED vars
    BY <1>1 DEF vars, tables, Typed, TypeOK, SessionsOK, Writing, InvoiceId
  <1>2. ASSUME NEW r \in Request, Advance(r) PROVE Typed'
    BY <1>2, FlushesTyped, RefundStepsTyped, ReadsTyped, CommitsTyped DEF Advance
  <1>3. CASE Next
    BY <1>1, <1>2, <1>3, BeginsTyped, CommitsTyped DEF Next, Rest
  <1> QED
    BY <1>1, <1>3

\* All three endpoints: every table and every session keeps its type, whatever
\* the requests, the carts and the refund bodies.
THEOREM TypeCorrect == Spec => []TypeOK
  <1>1. Spec => []Typed
    BY InitTyped, NextTyped, PTL DEF Spec
  <1>2. Typed => TypeOK
    BY DEF Typed
  <1> QED
    BY <1>1, <1>2, PTL
-----------------------------------------------------------------------------
(***************************************************************************)
(* Why refunds are serialised.  A refund's number is one more than the     *)
(* largest committed id it read.  If a refund has committed since, it took *)
(* that very number, so the number is taken; if none has, everything read  *)
(* after the number is still what the tables hold.  The unique index lets  *)
(* only the second kind past its INSERT, and lets one of them at a time.   *)
(***************************************************************************)
InsertedRefund(t) == t.kind = "refund" /\ t.pc \in Inserted

RefundOK(t) ==
    t.kind = "refund" =>
        /\ t.num <= lastRefund + 1
        /\ t.num = lastRefund + 1 \/ t.num \in refundNumbers
        /\ t.pc \in Inserted => /\ t.num = lastRefund + 1
                                /\ t.id \in lastRefund + 1 .. refundSeq
        /\ t.pc # "numbered" /\ t.num = lastRefund + 1
              => t.seenRefunded = refunded[t.inv]

SerialOK ==
    /\ \A r \in Request : RefundOK(tx[r])
    /\ \A r, o \in Request :
          r # o => ~(InsertedRefund(tx[r]) /\ InsertedRefund(tx[o]))
    /\ lastRefund <= refundSeq
    /\ \A n \in refundNumbers : n <= lastRefund

LEMMA InitSerial == Init => SerialOK
  BY DEF Init, SerialOK, RefundOK, InsertedRefund, Idle

\* A step that leaves the refund tables alone only has to answer for the session
\* it moves.
LEMMA MoveSerial ==
    ASSUME Typed, SerialOK, NEW r \in Request, NEW t \in Session,
           tx' = [tx EXCEPT ![r] = t],
           UNCHANGED <<refunded, refundNumbers, lastRefund>>,
           refundSeq' \in Nat, refundSeq <= refundSeq',
           RefundOK(t)',
           InsertedRefund(t) =>
              \A o \in Request : o # r => ~InsertedRefund(tx[o])
    PROVE  SerialOK'
  <1>1. /\ tx \in [Request -> Session] /\ refundSeq \in Nat /\ lastRefund \in Nat
        /\ refundNumbers \in SUBSET Nat
    BY DEF Typed, TypeOK
  <1>2. \A o \in Request : tx'[o] = IF o = r THEN t ELSE tx[o]
    BY <1>1
  <1>3. ASSUME NEW o \in Request PROVE RefundOK(tx[o])'
    <2>1. CASE o = r
      BY <1>2, <2>1 DEF RefundOK
    <2>2. CASE o # r
      <3>1. tx'[o] = tx[o] /\ tx[o] \in Session /\ RefundOK(tx[o])
        BY <1>1, <1>2, <2>2 DEF SerialOK
      <3> QED
        BY <1>1, <3>1 DEF RefundOK, Session
    <2> QED
      BY <2>1, <2>2
  <1>4. ASSUME NEW o \in Request, NEW q \in Request, o # q
        PROVE  ~(InsertedRefund(tx[o]) /\ InsertedRefund(tx[q]))'
    <2>1. \A x \in Request : InsertedRefund(tx[x])' <=>
                             InsertedRefund(IF x = r THEN t ELSE tx[x])
      BY <1>2 DEF InsertedRefund, Inserted, Writing
    <2> QED
      BY <1>4, <2>1 DEF SerialOK
  <1>5. (lastRefund <= refundSeq)' /\ (\A n \in refundNumbers : n <= lastRefund)'
    BY <1>1 DEF SerialOK
  <1> QED
    BY <1>3, <1>4, <1>5 DEF SerialOK

\* The commit of a refund retires the number every reader of the old maximum holds.
LEMMA RefundCommitSerial ==
    ASSUME Typed, SerialOK, NEW r \in Request, RefundCommit(r)
    PROVE  SerialOK'
  <1>1. /\ tx \in [Request -> Session] /\ refundSeq \in Nat /\ lastRefund \in Nat
        /\ refundNumbers \in SUBSET Nat
    BY DEF Typed, TypeOK
  <1>2. /\ InsertedRefund(tx[r])
        /\ tx[r].num = lastRefund + 1
        /\ tx[r].id \in lastRefund + 1 .. refundSeq
    BY DEF RefundCommit, SerialOK, RefundOK, InsertedRefund, Inserted, Writing
  <1>3. /\ lastRefund' = tx[r].id
        /\ refundNumbers' = refundNumbers \cup {lastRefund + 1}
        /\ refundSeq' = refundSeq
        /\ tx' = [tx EXCEPT ![r] = Idle]
    BY <1>1, <1>2 DEF RefundCommit, Finish
  <1>4. lastRefund' \in Nat /\ lastRefund < lastRefund' /\ lastRefund' <= refundSeq
    BY <1>1, <1>2, <1>3
  <1>5. \A o \in Request : tx'[o] = IF o = r THEN Idle ELSE tx[o]
    BY <1>1, <1>3
  <1>6. ASSUME NEW o \in Request PROVE RefundOK(tx[o])' /\ ~InsertedRefund(tx[o])'
    <2>1. CASE o = r
      BY <1>5, <2>1 DEF RefundOK, InsertedRefund, Idle
    <2>2. CASE o # r
      <3>1. tx'[o] = tx[o] /\ tx[o].num \in Nat
        BY <1>1, <1>5, <2>2 DEF Session
      <3>2. ~InsertedRefund(tx[o]) /\ RefundOK(tx[o])
        BY <1>2, <2>2 DEF SerialOK
      <3>3. ~InsertedRefund(tx[o])'
        BY <3>1, <3>2 DEF InsertedRefund, Inserted, Writing
      <3>4. tx[o].kind = "refund" => /\ tx[o].num < lastRefund' + 1
                                     /\ tx[o].num \in refundNumbers'
        BY <1>1, <1>3, <1>4, <3>1, <3>2 DEF RefundOK
      <3> QED
        BY <1>4, <3>1, <3>3, <3>4 DEF RefundOK, InsertedRefund
    <2> QED
      BY <2>1, <2>2
  <1>7. \A n \in refundNumbers' : n <= lastRefund'
    BY <1>1, <1>3, <1>4 DEF SerialOK
  <1> QED
    BY <1>3, <1>4, <1>6, <1>7 DEF SerialOK

\* A step of a session that is not, or not yet, an inserted refund.
LEMMA OutsiderSerial ==
    ASSUME Typed, SerialOK, NEW r \in Request, NEW t \in Session,
           tx' = [tx EXCEPT ![r] = t], t.kind # "refund",
           UNCHANGED <<refunded, refundNumbers, lastRefund>>,
           refundSeq' \in {refundSeq, refundSeq + 1}
    PROVE  SerialOK'
  <1>1. refundSeq \in Nat /\ refundSeq' \in Nat /\ refundSeq <= refundSeq'
    BY DEF Typed, TypeOK
  <1>2. RefundOK(t)' /\ ~InsertedRefund(t)
    BY DEF RefundOK, InsertedRefund
  <1> QED
    BY <1>1, <1>2, MoveSerial

LEMMA BeginsSerial ==
    ASSUME Typed, SerialOK, NEW r \in Request,
           SaleCheck(r) \/ CollectCheck(r) \/ RefundNumber(r)
    PROVE  SerialOK'
  <1>1. PICK t \in Session :
           /\ tx' = [tx EXCEPT ![r] = t]
           /\ \/ t.kind # "refund"
              \/ t.kind = "refund" /\ t.num = lastRefund + 1 /\ t.pc = "numbered"
    <2>1. CASE SaleCheck(r)
      <3>1. PICK c \in Cart : tx' = [tx EXCEPT ![r] = SaleSession(c)]
        BY <2>1 DEF SaleCheck, Begin
      <3>2. SaleSession(c) \in Session /\ SaleSession(c).kind # "refund"
        BY NewSessions
      <3> QED
        BY <3>1, <3>2
    <2>2. CASE CollectCheck(r)
      <3>1. PICK i \in InvoiceId : tx' = [tx EXCEPT ![r] = CollectSession(i)]
        BY <2>2 DEF CollectCheck, Begin
      <3>2. CollectSession(i) \in Session /\ CollectSession(i).kind # "refund"
        BY NewSessions
      <3> QED
        BY <3>1, <3>2
    <2>3. CASE RefundNumber(r)
      <3>1. PICK i \in InvoiceId, b \in RefundBody :
               tx' = [tx EXCEPT ![r] = RefundSession(i, b)]
        BY <2>3 DEF RefundNumber, Begin
      <3>2. /\ RefundSession(i, b) \in Session
            /\ RefundSession(i, b).kind = "refund"
            /\ RefundSession(i, b).num = lastRefund + 1
            /\ RefundSession(i, b).pc = "numbered"
        BY NewSessions
      <3> QED
        BY <3>1, <3>2
    <2> QED
      BY <2>1, <2>2, <2>3
  <1>2. /\ UNCHANGED <<refunded, refundNumbers, lastRefund, refundSeq>>
        /\ refundSeq \in Nat /\ lastRefund \in Nat
        /\ refundSeq' \in Nat /\ refundSeq <= refundSeq'
    BY DEF SaleCheck, CollectCheck, RefundNumber, Begin, tables, Typed, TypeOK
  <1>3. CASE t.kind # "refund"
    BY <1>1, <1>2, <1>3, OutsiderSerial
  <1>4. CASE t.kind = "refund"
    <2>1. RefundOK(t)' /\ ~InsertedRefund(t)
      BY <1>1, <1>2, <1>4 DEF RefundOK, InsertedRefund, Inserted, Writing
    <2> QED
      BY <1>1, <1>2, <2>1, MoveSerial
  <1> QED
    BY <1>3, <1>4

\* A refund that stays inserted keeps its number, its id and what it read.
LEMMA StaysSerial ==
    ASSUME Typed, SerialOK, NEW r \in Request, NEW t \in Session,
           tx' = [tx EXCEPT ![r] = t],
           UNCHANGED <<refunded, refundNumbers, lastRefund, refundSeq>>,
           t.kind = tx[r].kind, t.num = tx[r].num, t.id = tx[r].id,
           t.inv = tx[r].inv, t.seenRefunded = tx[r].seenRefunded,
           t.pc \in Inserted,
           tx[r].kind = "refund" => tx[r].pc \in Inserted
    PROVE  SerialOK'
  <1>1. refundSeq' \in Nat /\ refundSeq <= refundSeq'
    BY DEF Typed, TypeOK
  <1>2. RefundOK(tx[r]) /\ (t.kind = "refund" => tx[r].pc # "numbered" /\ t.pc # "numbered")
    BY DEF SerialOK, Inserted, Writing
  <1>3. RefundOK(t)'
    BY <1>1, <1>2 DEF RefundOK
  <1>4. InsertedRefund(t) => \A o \in Request : o # r => ~InsertedRefund(tx[o])
    BY DEF InsertedRefund, SerialOK
  <1> QED
    BY <1>1, <1>3, <1>4, MoveSerial

LEMMA RefundStepsSerial ==
    ASSUME Typed, SerialOK, NEW r \in Request,
           RefundCheck(r) \/ RefundInsert(r)
    PROVE  SerialOK'
  <1>1. /\ tx[r] \in Session /\ tx \in [Request -> Session]
        /\ refundSeq \in Nat /\ lastRefund \in Nat /\ RefundOK(tx[r])
        /\ tx[r].kind = "refund"
    BY DEF Typed, TypeOK, SessionsOK, SerialOK, RefundCheck, RefundInsert
  <1>2. tx' \in [Request -> Session]
    BY RefundStepsTyped DEF Typed, TypeOK
  <1>3. PICK t \in Session : t = tx'[r]
    BY <1>2
  <1>4. CASE RefundCheck(r)
    <2>1. /\ tx' = [tx EXCEPT ![r] = t]
          /\ UNCHANGED <<refunded, refundNumbers, lastRefund, refundSeq>>
          /\ t.kind = "refund" /\ t.pc = "checked" /\ t.num = tx[r].num
          /\ t.inv = tx[r].inv /\ t.seenRefunded = refunded[t.inv]
      BY <1>1, <1>3, <1>4 DEF RefundCheck, Continue, tables, Session
    <2>2. RefundOK(t)' /\ ~InsertedRefund(t)
      BY <1>1, <2>1 DEF RefundOK, InsertedRefund, Inserted, Writing
    <2>3. refundSeq' \in Nat /\ refundSeq <= refundSeq'
      BY <1>1, <2>1
    <2> QED
      BY <2>1, <2>2, <2>3, MoveSerial
  <1>5. CASE RefundInsert(r)
    <2>1. /\ tx' = [tx EXCEPT ![r] = t]
          /\ UNCHANGED <<refunded, refundNumbers, lastRefund>>
          /\ refundSeq' = refundSeq + 1
          /\ t.kind = "refund" /\ t.pc = "inserted" /\ t.num = tx[r].num
          /\ t.id = refundSeq + 1 /\ t.inv = tx[r].inv
          /\ t.seenRefunded = tx[r].seenRefunded
      BY <1>1, <1>3, <1>5 DEF RefundInsert, Continue, tables, Session
    \* The number is not taken, so no refund has committed since it was read.
    <2>2. tx[r].num = lastRefund + 1
      BY <1>1, <1>5 DEF RefundInsert, RefundOK
    <2>3. tx[r].seenRefunded = refunded[tx[r].inv]
      BY <1>1, <1>5, <2>2 DEF RefundInsert, RefundOK
    <2>4. t.id \in lastRefund + 1 .. refundSeq'
      BY <1>1, <2>1 DEF SerialOK
    <2>5. RefundOK(t)'
      BY <1>1, <2>1, <2>2, <2>3, <2>4 DEF RefundOK
    \* Nor does anyone else hold it, and every inserted refund holds this one.
    <2>6. \A o \in Request : ~InsertedRefund(tx[o])
      BY <1>5, <2>2 DEF RefundInsert, HoldsNumber, SerialOK, RefundOK, InsertedRefund
    <2>7. refundSeq' \in Nat /\ refundSeq <= refundSeq'
      BY <1>1, <2>1
    <2> QED
      BY <2>1, <2>5, <2>6, <2>7, MoveSerial
  <1> QED
    BY <1>4, <1>5

LEMMA AdvanceSerial ==
    ASSUME Typed, SerialOK, NEW r \in Request, Advance(r)
    PROVE  SerialOK'
  <1>1. tx[r] \in Session /\ tx \in [Request -> Session]
    BY DEF Typed, TypeOK
  <1>2. CASE RefundCheck(r) \/ RefundInsert(r)
    BY <1>2, RefundStepsSerial
  <1>3. CASE RefundCommit(r)
    BY <1>3, RefundCommitSerial
  <1>4. CASE RefundReject(r) \/ RefundConflict(r)
    <2>1. /\ tx' = [tx EXCEPT ![r] = Idle] /\ Idle.kind # "refund"
          /\ UNCHANGED <<refunded, refundNumbers, lastRefund>>
          /\ refundSeq' \in {refundSeq, refundSeq + 1}
      BY <1>4 DEF RefundReject, RefundConflict, Continue, tables, Idle
    <2> QED
      BY <2>1, IdleType, OutsiderSerial
  <1>5. CASE SaleCommit(r) \/ CollectCommit(r)
    <2>1. /\ tx' = [tx EXCEPT ![r] = Idle] /\ Idle.kind # "refund"
          /\ UNCHANGED <<refunded, refundNumbers, lastRefund, refundSeq>>
      BY <1>5 DEF SaleCommit, CollectCommit, Finish, Idle
    <2> QED
      BY <2>1, IdleType, OutsiderSerial
  <1>6. CASE SaleFlush(r) \/ CollectFlush(r)
    <2>1. PICK t \in Session : t = tx'[r]
      BY <1>6, FlushesTyped DEF Typed, TypeOK
    <2>2. /\ tx' = [tx EXCEPT ![r] = t] /\ t.kind # "refund"
          /\ UNCHANGED <<refunded, refundNumbers, lastRefund, refundSeq>>
      BY <1>1, <1>6, <2>1 DEF SaleFlush, CollectFlush, Continue, tables, Session
    <2> QED
      BY <2>2, OutsiderSerial
  <1>7. CASE RefundReadProducts(r) \/ RefundFlush(r) \/ ReadDebit(r) \/ ReadCredit(r)
    <2>1. PICK t \in Session : t = tx'[r]
      BY <1>7, RefundStepsTyped, FlushesTyped, ReadsTyped DEF Typed, TypeOK
    <2>2. /\ tx' = [tx EXCEPT ![r] = t]
          /\ UNCHANGED <<refunded, refundNumbers, lastRefund, refundSeq>>
          /\ tx[r].pc \in Inserted
      BY <1>1, <1>7, <2>1
      DEF RefundReadProducts, RefundFlush, ReadDebit, ReadCredit, Continue, tables,
          Inserted, Writing
    <2>3. /\ t.kind = tx[r].kind /\ t.num = tx[r].num /\ t.id = tx[r].id
          /\ t.inv = tx[r].inv /\ t.seenRefunded = tx[r].seenRefunded
          /\ t.pc \in Inserted
      <3>1. \/ t = [tx[r] EXCEPT !.pc = "counted", !.seenStock = stock]
            \/ t = [tx[r] EXCEPT !.pc = "flushed"]
            \/ t = [tx[r] EXCEPT !.pc = "debited",
                                 !.seenDebit = balance[tx[r].debit]]
            \/ t = [tx[r] EXCEPT !.pc = "credited",
                                 !.seenCredit = balance[tx[r].credit]]
        BY <1>1, <1>7, <2>1
        DEF RefundReadProducts, RefundFlush, ReadDebit, ReadCredit, Continue
      <3> QED
        BY <1>1, <3>1 DEF Session, Inserted, Writing
    <2> QED
      BY <2>2, <2>3, StaysSerial
  <1> QED
    BY <1>2, <1>3, <1>4, <1>5, <1>6, <1>7 DEF Advance

LEMMA NextSerial == Typed /\ SerialOK /\ [Next]_vars => SerialOK'
  <1> SUFFICES ASSUME Typed, SerialOK, [Next]_vars PROVE SerialOK'
    OBVIOUS
  <1>1. CASE UNCHANGED vars
    BY <1>1 DEF vars, tables, SerialOK, RefundOK, InsertedRefund, Inserted, Writing
  <1>2. ASSUME NEW r \in Request, Abort(r) PROVE SerialOK'
    <2>1. /\ tx' = [tx EXCEPT ![r] = Idle] /\ Idle.kind # "refund"
          /\ UNCHANGED <<refunded, refundNumbers, lastRefund, refundSeq>>
      BY <1>2 DEF Abort, Finish, tables, Idle
    <2> QED
      BY <2>1, IdleType, OutsiderSerial
  <1>3. CASE Next
    BY <1>1, <1>2, <1>3, BeginsSerial, AdvanceSerial DEF Next, Rest
  <1> QED
    BY <1>1, <1>3

LEMMA SpecSerial == Spec => [](Typed /\ SerialOK)
  BY InitTyped, NextTyped, InitSerial, NextSerial, PTL DEF Spec

\* create_refund: a refund whose INSERT went through is alone, holds the next
\* number, and has read exactly the quantities the tables still hold.
THEOREM RefundsAreSerial == Spec => []InsertedRefundIsCurrent
  <1>1. Typed /\ SerialOK => InsertedRefundIsCurrent
    BY DEF Typed, SerialOK, RefundOK, InsertedRefund, InsertedRefundIsCurrent,
           Inserted, Writing
  <1> QED
    BY <1>1, SpecSerial, PTL
-----------------------------------------------------------------------------
(***************************************************************************)
(* Why stock never goes negative, although sales lose each other's         *)
(* updates: what a commit writes depends only on what its session read,    *)
(* and every session read stock that was not negative and covers its lines.*)
(***************************************************************************)
Covered(t) ==
    /\ \A p \in Product : t.seenStock[p] >= 0
    /\ t.kind = "sale" => \A p \in Lines(t.qty) : t.qty[p] <= t.seenStock[p]

StockOK == StockNeverNegative /\ \A r \in Request : Covered(tx[r])

LEMMA IdleCovered == Covered(Idle)
  BY DEF Covered, Idle, Empty

LEMMA InitCovered == Init => StockOK
  BY ConstantsOK, IdleCovered DEF Init, StockOK, StockNeverNegative, Basket

\* A step that leaves both stocks alone answers for the session it moves.
LEMMA MoveCovered ==
    ASSUME Typed, StockOK, NEW r \in Request, NEW t, Covered(t),
           tx' = [tx EXCEPT ![r] = t], UNCHANGED <<stock, mainStock>>
    PROVE  StockOK'
  <1>1. \A o \in Request : tx'[o] = t \/ tx'[o] = tx[o]
    BY DEF Typed, TypeOK
  <1>2. \A o \in Request : Covered(tx'[o])
    BY <1>1 DEF StockOK
  <1> QED
    BY <1>2 DEF StockOK, StockNeverNegative, Covered, Lines

LEMMA BeginsCovered ==
    ASSUME Typed, StockOK, NEW r \in Request,
           SaleCheck(r) \/ CollectCheck(r) \/ RefundNumber(r)
    PROVE  StockOK'
  <1>1. CASE SaleCheck(r)
    <2>1. PICK c \in Cart : InStock(c) /\ Begin(r, SaleSession(c))
      BY <1>1 DEF SaleCheck
    <2>2. /\ SaleSession(c).seenStock = stock /\ SaleSession(c).qty = c.qty
      BY DEF SaleSession, Idle
    <2>3. Covered(SaleSession(c))
      BY <2>1, <2>2 DEF Covered, InStock, StockOK, StockNeverNegative, Lines
    <2> QED
      BY <2>1, <2>3, MoveCovered DEF Begin, tables
  <1>2. CASE CollectCheck(r)
    <2>1. PICK i \in InvoiceId : Begin(r, CollectSession(i))
      BY <1>2 DEF CollectCheck
    <2>2. Covered(CollectSession(i))
      BY DEF Covered, CollectSession, Idle, Empty
    <2> QED
      BY <2>1, <2>2, MoveCovered DEF Begin, tables
  <1>3. CASE RefundNumber(r)
    <2>1. PICK i \in InvoiceId, b \in RefundBody : Begin(r, RefundSession(i, b))
      BY <1>3 DEF RefundNumber
    <2>2. Covered(RefundSession(i, b))
      BY DEF Covered, RefundSession, Idle, Empty
    <2> QED
      BY <2>1, <2>2, MoveCovered DEF Begin, tables
  <1> QED
    BY <1>1, <1>2, <1>3

\* Between its first step and its commit a session keeps its kind and lines; it
\* reads stock once more at most.
LEMMA AdvanceCovered ==
    ASSUME Typed, StockOK, NEW r \in Request, Advance(r)
    PROVE  StockOK'
  <1>1. /\ tx[r] \in Session /\ Covered(tx[r]) /\ tx[r].qty \in Basket
        /\ stock \in [Product -> Int] /\ mainStock \in [Product -> Int]
        /\ \A p \in Product : stock[p] >= 0 /\ mainStock[p] >= 0
    BY DEF Typed, TypeOK, StockOK, StockNeverNegative, Session
  <1>2. CASE \/ SaleFlush(r) \/ CollectFlush(r) \/ RefundCheck(r) \/ RefundInsert(r)
             \/ RefundFlush(r) \/ ReadDebit(r) \/ ReadCredit(r)
    <2>1. PICK t : /\ tx' = [tx EXCEPT ![r] = t] /\ UNCHANGED <<stock, mainStock>>
                   /\ \/ t = [tx[r] EXCEPT !.pc = "flushed", !.inv = invoiceSeq + 1]
                      \/ t = [tx[r] EXCEPT !.pc = "flushed"]
                      \/ t = [tx[r] EXCEPT !.pc = "checked",
                                           !.seenRefunded = refunded[tx[r].inv]]
                      \/ t = [tx[r] EXCEPT !.pc = "inserted", !.id = refundSeq + 1]
                      \/ t = [tx[r] EXCEPT !.pc = "debited",
                                           !.seenDebit = balance[tx[r].debit]]
                      \/ t = [tx[r] EXCEPT !.pc = "credited",
                                           !.seenCredit = balance[tx[r].credit]]
      BY <1>2 DEF SaleFlush, CollectFlush, RefundCheck, RefundInsert, RefundFlush,
                  ReadDebit, ReadCredit, Continue, tables
    <2>2. t.kind = tx[r].kind /\ t.qty = tx[r].qty /\ t.seenStock = tx[r].seenStock
      BY <1>1, <2>1 DEF Session
    <2>3. Covered(t)
      BY <1>1, <2>2 DEF Covered
    <2> QED
      BY <2>1, <2>3, MoveCovered
  <1>3. CASE RefundReject(r) \/ RefundConflict(r)
    BY <1>3, IdleCovered, MoveCovered DEF RefundReject, RefundConflict, Continue, tables
  <1>4. CASE RefundReadProducts(r)
    <2>1. PICK t : /\ tx' = [tx EXCEPT ![r] = t] /\ UNCHANGED <<stock, mainStock>>
                   /\ t = [tx[r] EXCEPT !.pc = "counted", !.seenStock = stock]
      BY <1>4 DEF RefundReadProducts, Continue, tables
    <2>2. t.kind = "refund" /\ t.seenStock = stock
      BY <1>1, <1>4, <2>1 DEF Session, RefundReadProducts, Typed, SessionsOK
    <2>3. Covered(t)
      BY <1>1, <2>2 DEF Covered
    <2> QED
      BY <2>1, <2>3, MoveCovered
  <1>5. CASE SaleCommit(r) \/ CollectCommit(r) \/ RefundCommit(r)
    <2>1. \A p \in Product : stock'[p] >= 0 /\ mainStock'[p] >= 0
      <3>1. CASE SaleCommit(r)
        BY <1>1, <3>1 DEF SaleCommit, Written, Covered, Lines, Session, Basket
      <3>2. CASE CollectCommit(r)
        BY <1>1, <3>2 DEF CollectCommit
      <3>3. CASE RefundCommit(r)
        BY <1>1, <3>3 DEF RefundCommit, Written, Covered, Session, Basket
      <3> QED
        BY <1>5, <3>1, <3>2, <3>3
    <2>2. tx' = [tx EXCEPT ![r] = Idle]
      BY <1>5 DEF SaleCommit, CollectCommit, RefundCommit, Finish
    <2>3. \A o \in Request : tx'[o] = Idle \/ tx'[o] = tx[o]
      BY <2>2 DEF Typed, TypeOK
    <2>4. \A o \in Request : Covered(tx'[o])
      BY <2>3, IdleCovered DEF StockOK
    <2> QED
      BY <2>1, <2>4 DEF StockOK, StockNeverNegative, Covered, Lines
  <1> QED
    BY <1>2, <1>3, <1>4, <1>5 DEF Advance

LEMMA NextCovered == Typed /\ StockOK /\ [Next]_vars => StockOK'
  <1> SUFFICES ASSUME Typed, StockOK, [Next]_vars PROVE StockOK'
    OBVIOUS
  <1>1. CASE UNCHANGED vars
    BY <1>1 DEF vars, tables, StockOK, StockNeverNegative, Covered, Lines
  <1>2. ASSUME NEW r \in Request, Abort(r) PROVE StockOK'
    BY <1>2, IdleCovered, MoveCovered DEF Abort, Finish, tables
  <1>3. CASE Next
    BY <1>1, <1>2, <1>3, BeginsCovered, AdvanceCovered DEF Next, Rest
  <1> QED
    BY <1>1, <1>3

\* create_invoice: racing sales may oversell, but no history of sales, refunds
\* and failures takes products.stock or the default location below zero.
THEOREM StockStaysCovered == Spec => []StockNeverNegative
  <1>1. StockOK => StockNeverNegative
    BY DEF StockOK
  <1> QED
    BY <1>1, InitTyped, NextTyped, InitCovered, NextCovered, PTL DEF Spec
-----------------------------------------------------------------------------
(***************************************************************************)
(* Why the books agree while nothing but refunds overlaps: a request other *)
(* than a refund is then alone, and a refund that has read stock or a      *)
(* balance is past its INSERT, where the unique index keeps it alone.      *)
(***************************************************************************)
Current(t) ==
    /\ t.debit # t.credit
    /\ t.kind = "sale" => t.seenStock = stock
    /\ t.kind = "refund" /\ t.pc \in {"counted"} \cup Writing => t.seenStock = stock
    /\ t.pc \in {"debited", "credited"} => t.seenDebit = balance[t.debit]
    /\ t.pc = "credited" => t.seenCredit = balance[t.credit]
    /\ t.kind = "collect" => invoice[t.inv].status = "unpaid"

Alone ==
    \A r, o \in InFlight : r # o => tx[r].kind = "refund" /\ tx[o].kind = "refund"

\* Only a paid invoice has a payment.
PaymentsFit ==
    \A i \in InvoiceId : /\ invoice[i].payments <= 1
                         /\ invoice[i].status # "paid" => invoice[i].payments = 0

Explained ==
    /\ \A p \in Product : stock[p] = OpeningStock[p] + moved[p]
    /\ \A a \in Account : balance[a] = posted[a]

AgreeOK ==
    ~mixed => Explained /\ PaymentsFit /\ Alone /\ \A r \in InFlight : Current(tx[r])

LEMMA InitAgree == Init => AgreeOK
  BY ConstantsOK
  DEF Init, AgreeOK, Explained, PaymentsFit, Alone, InFlight, Idle, Empty, NoInvoice, Basket

\* A request starts: it has read nothing, or it is alone.
LEMMA BeginAgree ==
    ASSUME Typed, AgreeOK, NEW r \in Request, NEW t \in Session, Begin(r, t), Current(t)
    PROVE  AgreeOK'
  <1> SUFFICES ASSUME ~mixed' PROVE (Explained /\ PaymentsFit /\ Alone
                                     /\ \A o \in InFlight : Current(tx[o]))'
    BY DEF AgreeOK
  <1>1. /\ ~mixed /\ InFlight = (IF t.kind = "refund" THEN OfKind("refund") ELSE {})
        /\ tx' = [tx EXCEPT ![r] = t] /\ UNCHANGED tables
    BY DEF Begin, Typed, TypeOK
  <1>2. Explained /\ PaymentsFit /\ \A o \in InFlight : Current(tx[o])
    BY <1>1 DEF AgreeOK
  <1>3. \A o \in Request : tx'[o] = IF o = r THEN t ELSE tx[o]
    BY <1>1 DEF Typed, TypeOK
  <1>4. (Explained /\ PaymentsFit)'
    BY <1>1, <1>2 DEF Explained, PaymentsFit, tables
  <1>5. \A o \in InFlight' : o # r => o \in InFlight
    BY <1>3 DEF InFlight
  <1>6. Alone'
    <2>1. \A o \in InFlight' : o # r => t.kind = "refund" /\ tx[o].kind = "refund"
      BY <1>1, <1>5 DEF OfKind
    <2> QED
      BY <1>3, <2>1 DEF Alone, InFlight
  <1>7. ASSUME NEW o \in InFlight' PROVE Current(tx[o])'
    <2>1. Current(tx'[o])
      BY <1>2, <1>3, <1>5 DEF InFlight
    <2> QED
      BY <1>1, <2>1 DEF Current, tables, Writing
  <1> QED
    BY <1>4, <1>6, <1>7

\* A step that leaves the tables alone answers for the session it moves.
LEMMA ContinueAgree ==
    ASSUME Typed, AgreeOK, NEW r \in Request, NEW t,
           tx' = [tx EXCEPT ![r] = t], UNCHANGED <<tables, mixed>>,
           t.pc # "idle" => /\ r \in InFlight /\ t.kind = tx[r].kind
                            /\ ~mixed => Current(t)
    PROVE  AgreeOK'
  <1> SUFFICES ASSUME ~mixed PROVE (Explained /\ PaymentsFit /\ Alone
                                    /\ \A o \in InFlight : Current(tx[o]))'
    BY DEF AgreeOK
  <1>1. Explained /\ PaymentsFit /\ Alone /\ \A o \in InFlight : Current(tx[o])
    BY DEF AgreeOK
  <1>2. \A o \in Request : tx'[o] = IF o = r THEN t ELSE tx[o]
    BY DEF Typed, TypeOK
  <1>3. \A o \in InFlight' : o \in InFlight /\ tx'[o].kind = tx[o].kind
    BY <1>2 DEF InFlight
  <1>4. (Explained /\ PaymentsFit)'
    BY <1>1 DEF Explained, PaymentsFit, tables
  <1>5. Alone'
    BY <1>1, <1>3 DEF Alone
  <1>6. ASSUME NEW o \in InFlight' PROVE Current(tx[o])'
    <2>1. Current(tx'[o])
      BY <1>1, <1>2, <1>3 DEF InFlight
    <2> QED
      BY <2>1 DEF Current, tables, Writing
  <1> QED
    BY <1>4, <1>5, <1>6

LEMMA BeginsAgree ==
    ASSUME Typed, AgreeOK, NEW r \in Request,
           SaleCheck(r) \/ CollectCheck(r) \/ RefundNumber(r)
    PROVE  AgreeOK'
  <1>1. CASE SaleCheck(r)
    <2>1. PICK c \in Cart : Begin(r, SaleSession(c)) /\ SaleSession(c) \in Session
      BY <1>1, NewSessions DEF SaleCheck
    <2>2. Current(SaleSession(c))
      BY DEF Current, SaleSession, Idle, Writing
    <2> QED
      BY <2>1, <2>2, BeginAgree
  <1>2. CASE CollectCheck(r)
    <2>1. PICK i \in InvoiceId : /\ invoice[i].status = "unpaid"
                                 /\ Begin(r, CollectSession(i))
                                 /\ CollectSession(i) \in Session
      BY <1>2, NewSessions DEF CollectCheck
    <2>2. Current(CollectSession(i))
      BY <2>1 DEF Current, CollectSession, Idle, Writing
    <2> QED
      BY <2>1, <2>2, BeginAgree
  <1>3. CASE RefundNumber(r)
    <2>1. PICK i \in InvoiceId, b \in RefundBody :
             Begin(r, RefundSession(i, b)) /\ RefundSession(i, b) \in Session
      BY <1>3, NewSessions DEF RefundNumber
    <2>2. Current(RefundSession(i, b))
      BY DEF Current, RefundSession, Idle, Writing
    <2> QED
      BY <2>1, <2>2, BeginAgree
  <1> QED
    BY <1>1, <1>2, <1>3

\* Reads and flushes: what a session reads is what the tables hold.
LEMMA ReadsAgree ==
    ASSUME Typed, AgreeOK, NEW r \in Request,
           \/ SaleFlush(r) \/ CollectFlush(r) \/ RefundCheck(r) \/ RefundInsert(r)
           \/ RefundReadProducts(r) \/ RefundFlush(r) \/ ReadDebit(r) \/ ReadCredit(r)
    PROVE  AgreeOK'
  <1>1. /\ tx[r] \in Session /\ balance \in [Account -> Int]
        /\ tx[r].pc \in {"numbered", "inserted", "counted"} => tx[r].kind = "refund"
    BY DEF Typed, TypeOK, SessionsOK
  <1>2. r \in InFlight
    BY DEF InFlight, SaleFlush, CollectFlush, RefundCheck, RefundInsert,
           RefundReadProducts, RefundFlush, ReadDebit, ReadCredit
  <1>3. ~mixed => Current(tx[r])
    BY <1>2 DEF AgreeOK
  <1>4. PICK t :
          /\ tx' = [tx EXCEPT ![r] = t] /\ UNCHANGED <<tables, mixed>>
          /\ \/ tx[r].pc = "checked" /\ tx[r].kind = "sale"
                /\ t = [tx[r] EXCEPT !.pc = "flushed", !.inv = invoiceSeq + 1]
             \/ tx[r].pc = "checked" /\ tx[r].kind = "collect"
                /\ t = [tx[r] EXCEPT !.pc = "flushed"]
             \/ tx[r].pc = "counted" /\ t = [tx[r] EXCEPT !.pc = "flushed"]
             \/ tx[r].pc = "numbered"
                /\ t = [tx[r] EXCEPT !.pc = "checked",
                                     !.seenRefunded = refunded[tx[r].inv]]
             \/ tx[r].pc = "checked" /\ tx[r].kind = "refund"
                /\ t = [tx[r] EXCEPT !.pc = "inserted", !.id = refundSeq + 1]
             \/ tx[r].pc = "inserted"
                /\ t = [tx[r] EXCEPT !.pc = "counted", !.seenStock = stock]
             \/ tx[r].pc = "flushed"
                /\ t = [tx[r] EXCEPT !.pc = "debited",
                                     !.seenDebit = balance[tx[r].debit]]
             \/ tx[r].pc = "debited"
                /\ t = [tx[r] EXCEPT !.pc = "credited",
                                     !.seenCredit = balance[tx[r].credit]]
    BY DEF SaleFlush, CollectFlush, RefundCheck, RefundInsert, RefundReadProducts,
           RefundFlush, ReadDebit, ReadCredit, Continue
  <1>5. t.kind = tx[r].kind
    BY <1>1, <1>4 DEF Session
  <1>6. ASSUME Current(tx[r]) PROVE Current(t)
    BY <1>1, <1>4, <1>6, ZenonT(60) DEF Current, Session, Writing
  <1> QED
    BY <1>2, <1>3, <1>4, <1>5, <1>6, ContinueAgree

\* A commit writes what it computed; whoever else is in flight is a refund that
\* has read neither stock nor a balance.
LEMMA CommitAgree ==
    ASSUME Typed, SerialOK, AgreeOK, NEW r \in Request,
           SaleCommit(r) \/ CollectCommit(r) \/ RefundCommit(r)
    PROVE  AgreeOK'
  <1> SUFFICES ASSUME ~mixed PROVE (Explained /\ PaymentsFit /\ Alone
                                    /\ \A o \in InFlight : Current(tx[o]))'
    BY DEF AgreeOK, SaleCommit, CollectCommit, RefundCommit, Finish
  <1> DEFINE t == tx[r]
  <1>1. /\ t \in Session /\ t.pc = "credited" /\ r \in InFlight
        /\ tx' = [tx EXCEPT ![r] = Idle] /\ PostJournal(t)
        /\ t.kind \in {"sale", "collect", "refund"}
    BY DEF Typed, TypeOK, SaleCommit, CollectCommit, RefundCommit, Finish, InFlight
  <1>2. Explained /\ PaymentsFit /\ Alone /\ \A o \in InFlight : Current(tx[o])
    BY DEF AgreeOK
  <1>3. /\ t.debit # t.credit /\ t.debit \in Account /\ t.credit \in Account
        /\ t.amount \in Nat
        /\ t.seenDebit = balance[t.debit] /\ t.seenCredit = balance[t.credit]
        /\ t.kind \in {"sale", "refund"} => t.seenStock = stock
        /\ t.kind = "collect" => invoice[t.inv].status = "unpaid"
    <2>1. Current(t)
      BY <1>1, <1>2
    <2> QED
      BY <1>1, <2>1 DEF Current, Session, Writing
  <1>4. \A o \in Request : tx'[o] = IF o = r THEN Idle ELSE tx[o]
    BY <1>1 DEF Typed, TypeOK
  <1>5. \A o \in InFlight' : o \in InFlight /\ o # r /\ tx'[o] = tx[o]
    BY <1>4 DEF InFlight, Idle
  <1>6. \A a \in Account : balance'[a] = posted'[a]
    <2>1. balance \in [Account -> Int] /\ posted \in [Account -> Int]
      BY DEF Typed, TypeOK
    <2>2. \A a \in Account : balance[a] = posted[a]
      BY <1>2 DEF Explained
    <2> HIDE DEF t
    <2> QED
      BY <1>1, <1>3, <2>1, <2>2 DEF PostJournal
  <1>7. \A p \in Product : stock'[p] = OpeningStock[p] + moved'[p]
    <2>1. /\ stock \in [Product -> Int] /\ moved \in [Product -> Int]
          /\ OpeningStock \in [Product -> Nat] /\ t.qty \in Basket
          /\ \A p \in Product : stock[p] = OpeningStock[p] + moved[p]
      BY <1>1, <1>2, ConstantsOK DEF Typed, TypeOK, Session, Explained
    <2>2. CASE SaleCommit(r)
      <3>1. /\ t.seenStock = stock
            /\ stock' = Written(stock, t.seenStock, -1, t.qty)
            /\ moved' = [p \in Product |-> moved[p] - t.qty[p]]
        BY <1>3, <2>2 DEF SaleCommit
      <3>2. ASSUME NEW p \in Product
            PROVE  stock'[p] = stock[p] - t.qty[p]
        <4>1. stock[p] \in Int /\ t.qty[p] \in Nat
          BY <2>1 DEF Basket
        <4>2. stock'[p] = IF t.qty[p] > 0 THEN stock[p] + (-1) * t.qty[p] ELSE stock[p]
          BY <3>1 DEF Written
        <4> HIDE DEF t
        <4> QED
          BY <4>1, <4>2
      <3>3. ASSUME NEW p \in Product
            PROVE  stock[p] \in Int /\ moved[p] \in Int /\ OpeningStock[p] \in Int
                   /\ t.qty[p] \in Int
        BY <2>1 DEF Basket
      <3> HIDE DEF t
      <3> QED
        BY <2>1, <3>1, <3>2, <3>3
    <2>3. CASE CollectCommit(r)
      BY <2>1, <2>3 DEF CollectCommit
    <2>4. CASE RefundCommit(r)
      BY <1>3, <2>1, <2>4 DEF RefundCommit, Written, Basket
    <2> QED
      BY <2>2, <2>3, <2>4
  <1>8. PaymentsFit'
    <2>1. invoice \in [InvoiceId -> [status : {"none", "unpaid", "paid"},
                                     sold : Basket, total : Nat, payments : Nat]]
      BY DEF Typed, TypeOK
    <2>2. CASE SaleCommit(r)
      BY <1>2, <2>1, <2>2 DEF SaleCommit, PaymentsFit, StatusOf
    <2>3. CASE CollectCommit(r)
      BY <1>2, <1>3, <2>1, <2>3 DEF CollectCommit, PaymentsFit
    <2>4. CASE RefundCommit(r)
      BY <1>2, <2>4 DEF RefundCommit, PaymentsFit
    <2> QED
      BY <2>2, <2>3, <2>4
  <1>9. Alone'
    BY <1>2, <1>5 DEF Alone
  <1>10. ASSUME NEW o \in InFlight' PROVE Current(tx[o])'
    <2>1. /\ o \in InFlight /\ o \in Request /\ o # r /\ tx'[o] = tx[o]
          /\ tx[o].kind = "refund" /\ t.kind = "refund"
      BY <1>1, <1>2, <1>5 DEF Alone, InFlight
    <2>2. tx[o].pc \notin Inserted
      BY <1>1, <2>1 DEF SerialOK, InsertedRefund, Inserted, Writing
    <2>3. tx[o].debit # tx[o].credit
      BY <1>2, <2>1 DEF Current
    <2> QED
      BY <2>1, <2>2, <2>3 DEF Current, Inserted, Writing
  <1> QED
    BY <1>6, <1>7, <1>8, <1>9, <1>10 DEF Explained

LEMMA NextAgree == Typed /\ SerialOK /\ AgreeOK /\ [Next]_vars => AgreeOK'
  <1> SUFFICES ASSUME Typed, SerialOK, AgreeOK, [Next]_vars PROVE AgreeOK'
    OBVIOUS
  <1>1. CASE UNCHANGED vars
    BY <1>1 DEF vars, tables, AgreeOK, Explained, PaymentsFit, Alone, InFlight,
                Current, Writing
  <1>2. ASSUME NEW r \in Request, Abort(r) \/ RefundReject(r) \/ RefundConflict(r)
        PROVE  AgreeOK'
    <2>1. tx' = [tx EXCEPT ![r] = Idle] /\ UNCHANGED <<tables, mixed>>
          /\ Idle.pc = "idle"
      BY <1>2 DEF Abort, Finish, RefundReject, RefundConflict, Continue, Idle
    <2> QED
      BY <2>1, ContinueAgree
  <1>3. ASSUME NEW r \in Request, Advance(r) PROVE AgreeOK'
    BY <1>2, <1>3, ReadsAgree, CommitAgree DEF Advance
  <1>4. CASE Next
    BY <1>1, <1>2, <1>3, <1>4, BeginsAgree DEF Next, Rest
  <1> QED
    BY <1>1, <1>4

\* All three endpoints: until a sale or a collection overlaps another request,
\* stock is its moves, balances are their entries, no invoice is paid twice.
THEOREM BooksAgreeUnmixed == Spec => []BooksAgree
  <1>1. AgreeOK => BooksAgree
    BY DEF AgreeOK, BooksAgree, Explained, PaymentsFit
  <1> QED
    BY <1>1, SpecSerial, InitAgree, NextAgree, PTL DEF Spec
-----------------------------------------------------------------------------
(***************************************************************************)
(* No invoice is over-refunded: NoOverRefund, for every instance in which  *)
(* a refund body has one row per product.                                  *)
(***************************************************************************)

\* What a session may rely on: the invoice of a refund or a collection exists,
\* that of a sale not yet, and once a refund has been checked its quantities fit
\* what it read.
OnInvoice(t) ==
    t.kind \in {"refund", "collect"} => invoice[t.inv].status # "none"
SaleWriting(t) == t.kind = "sale" /\ t.pc \in Writing
SaleFresh(t) == SaleWriting(t) => invoice[t.inv].status = "none"
FitsWhatItRead(t) ==
    t.kind = "refund" =>
        /\ t.largest = t.qty
        /\ t.pc # "numbered" =>
              \A p \in Product : t.qty[p] > 0 =>
                  t.qty[p] + t.seenRefunded[p] <= invoice[t.inv].sold[p]
SessionFits(t) == OnInvoice(t) /\ SaleFresh(t) /\ FitsWhatItRead(t)

\* The strengthening of NoOverRefund: it, what every session relies on, and that
\* an invoice is written once, before anything is refunded of it.
BookOK ==
    /\ \A r \in Request : SessionFits(tx[r])
    /\ \A r, o \in Request :
          r # o => ~(SaleWriting(tx[r]) /\ SaleWriting(tx[o]) /\ tx[r].inv = tx[o].inv)
    /\ \A i \in InvoiceId : i > invoiceSeq => invoice[i].status = "none"
    /\ \A i \in InvoiceId : invoice[i].status = "none" => refunded[i] = Empty
    /\ NoOverRefund

LEMMA InitBook == Init => BookOK
  <1> SUFFICES ASSUME Init PROVE BookOK
    OBVIOUS
  <1>1. \A r \in Request : SessionFits(tx[r]) /\ ~SaleWriting(tx[r])
    BY DEF Init, Idle, SessionFits, OnInvoice, SaleFresh, SaleWriting, FitsWhatItRead
  <1>2. \A i \in InvoiceId : invoice[i].status = "none" /\ refunded[i] = Empty
    BY DEF Init, NoInvoice
  <1>3. NoOverRefund
    BY DEF Init, NoInvoice, Empty, NoOverRefund
  <1> QED
    BY <1>1, <1>2, <1>3 DEF BookOK

\* A step that leaves invoices and refunds alone answers for the session it moves.
LEMMA MoveBook ==
    ASSUME Typed, BookOK, NEW r \in Request, NEW t \in Session,
           tx' = [tx EXCEPT ![r] = t], UNCHANGED <<invoice, refunded>>,
           invoiceSeq' \in Nat, invoiceSeq <= invoiceSeq',
           SessionFits(t),
           SaleWriting(t) => \A o \in Request :
               o # r => ~(SaleWriting(tx[o]) /\ tx[o].inv = t.inv)
    PROVE  BookOK'
  <1>1. /\ tx \in [Request -> Session] /\ invoiceSeq \in Nat
        /\ InvoiceId \subseteq Nat
    BY ConstantsOK DEF Typed, TypeOK, InvoiceId
  <1>2. \A o \in Request : tx'[o] = IF o = r THEN t ELSE tx[o]
    BY <1>1
  <1>3. \A o \in Request : SessionFits(tx[o])' /\ (SaleWriting(tx[o])' <=> SaleWriting(tx'[o]))
    BY <1>2 DEF BookOK, SessionFits, OnInvoice, SaleFresh, SaleWriting, FitsWhatItRead, Writing
  <1>4. ASSUME NEW o \in Request, NEW q \in Request, o # q
        PROVE  ~(SaleWriting(tx[o]) /\ SaleWriting(tx[q]) /\ tx[o].inv = tx[q].inv)'
    BY <1>2, <1>3, <1>4 DEF BookOK
  <1>5. \A i \in InvoiceId : i > invoiceSeq' => invoice'[i].status = "none"
    BY <1>1 DEF BookOK
  <1>6. NoOverRefund' /\ \A i \in InvoiceId : invoice'[i].status = "none" => refunded'[i] = Empty
    BY DEF BookOK, NoOverRefund
  <1> QED
    BY <1>3, <1>4, <1>5, <1>6 DEF BookOK

LEMMA BeginsBook ==
    ASSUME DistinctRows, Typed, BookOK, NEW r \in Request,
           SaleCheck(r) \/ CollectCheck(r) \/ RefundNumber(r)
    PROVE  BookOK'
  <1>1. PICK t \in Session :
           tx' = [tx EXCEPT ![r] = t] /\ SessionFits(t) /\ ~SaleWriting(t)
    <2>1. CASE SaleCheck(r)
      <3>1. PICK c \in Cart : tx' = [tx EXCEPT ![r] = SaleSession(c)]
        BY <2>1 DEF SaleCheck, Begin
      <3>2. SaleSession(c) \in Session
        BY NewSessions
      <3>3. SaleSession(c).kind = "sale" /\ SaleSession(c).pc = "checked"
        BY DEF SaleSession, Idle
      <3> QED
        BY <3>1, <3>2, <3>3
        DEF SessionFits, OnInvoice, SaleFresh, SaleWriting, FitsWhatItRead, Writing
    <2>2. CASE CollectCheck(r)
      <3>1. PICK i \in InvoiceId : /\ tx' = [tx EXCEPT ![r] = CollectSession(i)]
                                   /\ invoice[i].status = "unpaid"
        BY <2>2 DEF CollectCheck, Begin
      <3>2. CollectSession(i) \in Session
        BY NewSessions
      <3>3. CollectSession(i).kind = "collect" /\ CollectSession(i).inv = i
        BY DEF CollectSession, Idle
      <3> QED
        BY <3>1, <3>2, <3>3
        DEF SessionFits, OnInvoice, SaleFresh, SaleWriting, FitsWhatItRead
    <2>3. CASE RefundNumber(r)
      <3>1. PICK i \in InvoiceId, b \in RefundBody :
               /\ tx' = [tx EXCEPT ![r] = RefundSession(i, b)]
               /\ invoice[i].status # "none"
        BY <2>3 DEF RefundNumber, Begin
      <3>2. RefundSession(i, b) \in Session
        BY NewSessions
      <3>3. /\ RefundSession(i, b).kind = "refund" /\ RefundSession(i, b).inv = i
            /\ RefundSession(i, b).pc = "numbered"
            /\ RefundSession(i, b).largest = RefundSession(i, b).qty
        BY DEF RefundSession, Idle, DistinctRows
      <3> QED
        BY <3>1, <3>2, <3>3
        DEF SessionFits, OnInvoice, SaleFresh, SaleWriting, FitsWhatItRead
    <2> QED
      BY <2>1, <2>2, <2>3
  <1>2. /\ UNCHANGED <<invoice, refunded, invoiceSeq>>
        /\ invoiceSeq' \in Nat /\ invoiceSeq <= invoiceSeq'
    BY ConstantsOK DEF SaleCheck, CollectCheck, RefundNumber, Begin, tables, Typed, TypeOK
  <1> QED
    BY <1>1, <1>2, MoveBook

\* A sale takes its invoice id: no invoice and no other sale has it.
LEMMA SaleFlushBook ==
    ASSUME Typed, BookOK, NEW r \in Request, SaleFlush(r)
    PROVE  BookOK'
  <1>1. /\ tx \in [Request -> Session] /\ tx[r] \in Session /\ invoiceSeq \in Nat
        /\ invoiceSeq + 1 \in InvoiceId /\ tx[r].kind = "sale"
        /\ invoiceSeq' = invoiceSeq + 1 /\ UNCHANGED <<invoice, refunded>>
    BY ConstantsOK DEF Typed, TypeOK, SaleFlush, Continue, tables, InvoiceId
  <1>2. PICK t \in Session : t = tx'[r]
    BY FlushesTyped DEF Typed, TypeOK
  <1>3. /\ tx' = [tx EXCEPT ![r] = t]
        /\ t.kind = "sale" /\ t.inv = invoiceSeq + 1
    BY <1>1, <1>2 DEF SaleFlush, Continue, Session
  <1>4. SessionFits(t)
    <2>1. invoice[invoiceSeq + 1].status = "none"
      BY <1>1 DEF BookOK
    <2> QED
      BY <1>3, <2>1 DEF SessionFits, OnInvoice, SaleFresh, FitsWhatItRead
  <1>5. \A o \in Request : o # r => ~(SaleWriting(tx[o]) /\ tx[o].inv = t.inv)
    BY <1>1, <1>3 DEF Typed, SessionsOK, SaleWriting
  <1>6. invoiceSeq' \in Nat /\ invoiceSeq <= invoiceSeq'
    BY <1>1
  <1> QED
    BY <1>1, <1>3, <1>4, <1>5, <1>6, MoveBook

\* A refund passes the check: the rows fit what is left of the lines it reads.
LEMMA RefundCheckBook ==
    ASSUME Typed, BookOK, NEW r \in Request, RefundCheck(r)
    PROVE  BookOK'
  <1>1. /\ tx \in [Request -> Session] /\ tx[r] \in Session /\ invoiceSeq \in Nat
        /\ tx[r].kind = "refund" /\ tx[r].inv \in InvoiceId
        /\ SessionFits(tx[r]) /\ UNCHANGED <<invoice, refunded, invoiceSeq>>
    BY ConstantsOK DEF Typed, TypeOK, SessionsOK, BookOK, RefundCheck, Continue, tables
  <1>2. PICK t \in Session : t = tx'[r]
    BY RefundStepsTyped DEF Typed, TypeOK
  <1>3. /\ tx' = [tx EXCEPT ![r] = t]
        /\ t.kind = "refund" /\ t.inv = tx[r].inv /\ t.qty = tx[r].qty
        /\ t.largest = tx[r].largest /\ t.seenRefunded = refunded[tx[r].inv]
    BY <1>1, <1>2 DEF RefundCheck, Continue, Session
  <1>4. ASSUME NEW p \in Product, t.qty[p] > 0
        PROVE  t.qty[p] + t.seenRefunded[p] <= invoice[t.inv].sold[p]
    <2>1. /\ invoice[t.inv].sold[p] \in Nat /\ refunded[t.inv][p] \in Nat
          /\ t.qty[p] \in Nat
      BY <1>1, <1>3 DEF Typed, TypeOK, Session, Basket
    <2>2. t.qty[p] <= Available(t.inv, p)
      BY <1>1, <1>3, <1>4 DEF RefundCheck, Refundable, Lines, SessionFits, FitsWhatItRead
    <2> QED
      BY <1>3, <1>4, <2>1, <2>2 DEF Available
  <1>5. SessionFits(t) /\ ~SaleWriting(t)
    BY <1>1, <1>3, <1>4 DEF SessionFits, OnInvoice, SaleFresh, SaleWriting, FitsWhatItRead
  <1>6. invoiceSeq' \in Nat /\ invoiceSeq <= invoiceSeq'
    BY <1>1
  <1> QED
    BY <1>1, <1>3, <1>5, <1>6, MoveBook

\* A step that keeps what the session is about keeps what it relies on.
LEMMA StaysBook ==
    ASSUME Typed, BookOK, NEW r \in Request, NEW t \in Session,
           tx' = [tx EXCEPT ![r] = t],
           UNCHANGED <<invoice, refunded, invoiceSeq>>,
           t.kind = tx[r].kind, t.inv = tx[r].inv, t.qty = tx[r].qty,
           t.largest = tx[r].largest, t.seenRefunded = tx[r].seenRefunded,
           t.pc # "numbered", tx[r].pc # "numbered",
           t.kind = "sale" => tx[r].pc \in Writing
    PROVE  BookOK'
  <1>1. SessionFits(tx[r]) /\ invoiceSeq \in Nat
    BY ConstantsOK DEF BookOK, Typed, TypeOK
  <1>2. SessionFits(t)
    BY <1>1 DEF SessionFits, OnInvoice, SaleFresh, SaleWriting, FitsWhatItRead
  <1>3. SaleWriting(t) => \A o \in Request :
            o # r => ~(SaleWriting(tx[o]) /\ tx[o].inv = t.inv)
    BY DEF BookOK, SaleWriting
  <1>4. invoiceSeq' \in Nat /\ invoiceSeq <= invoiceSeq'
    BY <1>1
  <1> QED
    BY <1>2, <1>3, <1>4, MoveBook

\* The sessions after a commit: the one that committed is idle, the others are
\* as they were.
LEMMA CommitSessions ==
    ASSUME Typed, BookOK, NEW r \in Request, Finish(r)
    PROVE  \A o \in Request :
              /\ tx'[o] = IF o = r THEN Idle ELSE tx[o]
              /\ SaleWriting(tx[o])' <=> o # r /\ SaleWriting(tx[o])
  <1>1. tx \in [Request -> Session] /\ tx' = [tx EXCEPT ![r] = Idle]
    BY DEF Typed, TypeOK, Finish
  <1> QED
    BY <1>1 DEF SaleWriting, Idle, Writing

\* A sale writes its invoice, which nobody else knows.
LEMMA SaleCommitBook ==
    ASSUME Typed, BookOK, NEW r \in Request, SaleCommit(r)
    PROVE  BookOK'
  <1>1. /\ tx \in [Request -> Session] /\ tx[r] \in Session
        /\ SaleWriting(tx[r]) /\ tx[r].inv \in InvoiceId /\ tx[r].inv <= invoiceSeq
        /\ invoice[tx[r].inv].status = "none" /\ invoiceSeq \in 0..MaxInvoice
        /\ UNCHANGED <<refunded, invoiceSeq>> /\ Finish(r)
    BY ConstantsOK DEF Typed, TypeOK, SessionsOK, BookOK, SessionFits, SaleFresh,
       SaleWriting, SaleCommit, Finish, Writing, InvoiceId
  <1>2. /\ \A i \in InvoiceId : i # tx[r].inv => invoice'[i] = invoice[i]
        /\ invoice'[tx[r].inv].status = StatusOf(tx[r])
        /\ invoice'[tx[r].inv].sold = tx[r].qty
    BY <1>1 DEF SaleCommit, Typed, TypeOK
  <1>3. StatusOf(tx[r]) # "none"
    BY DEF StatusOf
  <1>4. ASSUME NEW o \in Request PROVE SessionFits(tx[o])'
    <2>1. CASE o = r
      BY <1>1, <2>1, CommitSessions
      DEF SessionFits, OnInvoice, SaleFresh, SaleWriting, FitsWhatItRead, Idle
    <2>2. CASE o # r
      <3>1. tx'[o] = tx[o] /\ SessionFits(tx[o]) /\ tx[o] \in Session
        BY <1>1, <2>2, CommitSessions DEF BookOK
      <3>2. CASE tx[o].kind \in {"refund", "collect"}
        <4>1. tx[o].inv \in InvoiceId /\ tx[o].inv # tx[r].inv
          BY <1>1, <3>1, <3>2 DEF SessionFits, OnInvoice, Typed, SessionsOK
        <4> QED
          BY <1>2, <3>1, <3>2, <4>1
          DEF SessionFits, OnInvoice, SaleFresh, SaleWriting, FitsWhatItRead
      <3>3. CASE SaleWriting(tx[o])
        <4>1. tx[o].inv # tx[r].inv
          BY <1>1, <2>2, <3>3 DEF BookOK
        <4>2. tx[o].inv \in InvoiceId
          BY <1>1, <3>3, ConstantsOK DEF Typed, SessionsOK, SaleWriting, InvoiceId
        <4> QED
          BY <1>2, <3>1, <3>3, <4>1, <4>2
          DEF SessionFits, OnInvoice, SaleFresh, SaleWriting, FitsWhatItRead
      <3>4. CASE tx[o].kind \notin {"refund", "collect"} /\ ~SaleWriting(tx[o])
        BY <3>1, <3>4 DEF SessionFits, OnInvoice, SaleFresh, SaleWriting, FitsWhatItRead
      <3> QED
        BY <3>2, <3>3, <3>4
    <2> QED
      BY <2>1, <2>2
  <1>5. \A a, b \in Request :
           a # b => ~(SaleWriting(tx[a]) /\ SaleWriting(tx[b]) /\ tx[a].inv = tx[b].inv)'
    BY <1>1, CommitSessions DEF BookOK
  <1>6. \A i \in InvoiceId : i > invoiceSeq' => invoice'[i].status = "none"
    BY <1>1, <1>2, ConstantsOK DEF BookOK, InvoiceId
  <1>7. \A i \in InvoiceId : invoice'[i].status = "none" => refunded'[i] = Empty
    BY <1>1, <1>2, <1>3 DEF BookOK
  <1>8. ASSUME NEW i \in InvoiceId, NEW p \in Product
        PROVE  refunded'[i][p] <= invoice'[i].sold[p]
    <2>1. CASE i = tx[r].inv
      <3>1. refunded'[i][p] = 0 /\ tx[r].qty[p] \in Nat
        BY <1>1, <2>1 DEF BookOK, Empty, Session, Basket
      <3> QED
        BY <1>2, <2>1, <3>1
    <2>2. CASE i # tx[r].inv
      BY <1>1, <1>2, <2>2 DEF BookOK, NoOverRefund
    <2> QED
      BY <2>1, <2>2
  <1> QED
    BY <1>4, <1>5, <1>6, <1>7, <1>8 DEF BookOK, NoOverRefund

\* A collection changes the status of an invoice that exists, and not its lines.
LEMMA CollectCommitBook ==
    ASSUME Typed, BookOK, NEW r \in Request, CollectCommit(r)
    PROVE  BookOK'
  <1>1. /\ tx \in [Request -> Session] /\ tx[r].inv \in InvoiceId
        /\ invoice[tx[r].inv].status # "none" /\ Finish(r)
        /\ UNCHANGED <<refunded, invoiceSeq>>
    BY DEF Typed, TypeOK, SessionsOK, BookOK, SessionFits, OnInvoice, CollectCommit, Finish
  <1>2. \A i \in InvoiceId : /\ invoice'[i].sold = invoice[i].sold
                             /\ invoice'[i].status = "none" <=> invoice[i].status = "none"
    BY <1>1 DEF CollectCommit, Typed, TypeOK
  <1>3. ASSUME NEW o \in Request PROVE SessionFits(tx[o])'
    <2>1. CASE o = r
      BY <1>1, <2>1, CommitSessions
      DEF SessionFits, OnInvoice, SaleFresh, SaleWriting, FitsWhatItRead, Idle
    <2>2. CASE o # r
      <3>1. tx'[o] = tx[o] /\ SessionFits(tx[o])
        BY <1>1, <2>2, CommitSessions DEF BookOK
      <3>2. tx[o].kind \in {"refund", "collect"} \/ SaleWriting(tx[o]) => tx[o].inv \in InvoiceId
        BY ConstantsOK DEF Typed, TypeOK, SessionsOK, SaleWriting, InvoiceId
      <3> QED
        BY <1>2, <3>1, <3>2 DEF SessionFits, OnInvoice, SaleFresh, SaleWriting, FitsWhatItRead
    <2> QED
      BY <2>1, <2>2
  <1>4. \A a, b \in Request :
           a # b => ~(SaleWriting(tx[a]) /\ SaleWriting(tx[b]) /\ tx[a].inv = tx[b].inv)'
    BY <1>1, CommitSessions DEF BookOK
  <1> QED
    BY <1>1, <1>2, <1>3, <1>4 DEF BookOK, NoOverRefund

\* The commit of a refund: what it read is still what the tables hold, so the
\* sum it writes fits the line.
LEMMA RefundCommitBook ==
    ASSUME Typed, SerialOK, BookOK, NEW r \in Request, RefundCommit(r)
    PROVE  BookOK'
  <1>1. /\ tx \in [Request -> Session] /\ tx[r] \in Session
        /\ tx[r].kind = "refund" /\ tx[r].pc = "credited" /\ tx[r].inv \in InvoiceId
        /\ SessionFits(tx[r]) /\ Finish(r) /\ UNCHANGED <<invoice, invoiceSeq>>
    BY DEF Typed, TypeOK, SessionsOK, BookOK, RefundCommit, Finish
  <1>2. tx[r].seenRefunded = refunded[tx[r].inv]
    BY <1>1 DEF SerialOK, RefundOK, InsertedRefund, Inserted, Writing
  <1>3. refunded' = [refunded EXCEPT ![tx[r].inv] =
                       [p \in Product |-> refunded[tx[r].inv][p] + tx[r].qty[p]]]
    BY DEF RefundCommit
  <1>4. ASSUME NEW i \in InvoiceId, NEW p \in Product
        PROVE  refunded'[i][p] <= invoice'[i].sold[p]
    <2>1. /\ refunded \in [InvoiceId -> Basket] /\ refunded[i][p] \in Nat
          /\ tx[r].qty[p] \in Nat /\ refunded[i][p] <= invoice[i].sold[p]
      BY <1>1 DEF Typed, TypeOK, Session, Basket, BookOK, NoOverRefund
    <2>2. CASE i # tx[r].inv \/ tx[r].qty[p] = 0
      BY <1>1, <1>3, <2>1, <2>2
    <2>3. CASE i = tx[r].inv /\ tx[r].qty[p] > 0
      <3>1. tx[r].qty[p] + refunded[i][p] <= invoice[i].sold[p]
        BY <1>1, <1>2, <2>3 DEF SessionFits, FitsWhatItRead
      <3>2. refunded'[i][p] = refunded[i][p] + tx[r].qty[p]
        BY <1>1, <1>3, <2>1, <2>3
      <3> QED
        BY <1>1, <2>1, <3>1, <3>2
    <2> QED
      BY <2>1, <2>2, <2>3
  <1>5. \A i \in InvoiceId : invoice'[i].status = "none" => refunded'[i] = Empty
    <2>1. invoice[tx[r].inv].status # "none" /\ refunded \in [InvoiceId -> Basket]
      BY <1>1 DEF SessionFits, OnInvoice, Typed, TypeOK
    <2> QED
      BY <1>1, <1>3, <2>1 DEF BookOK
  <1>6. \A o \in Request : SessionFits(tx[o])'
    BY <1>1, CommitSessions
    DEF BookOK, SessionFits, OnInvoice, SaleFresh, SaleWriting, FitsWhatItRead, Idle
  <1>7. \A a, b \in Request :
           a # b => ~(SaleWriting(tx[a]) /\ SaleWriting(tx[b]) /\ tx[a].inv = tx[b].inv)'
    BY <1>1, CommitSessions DEF BookOK
  <1> QED
    BY <1>1, <1>4, <1>5, <1>6, <1>7 DEF BookOK, NoOverRefund

\* A request that ends without a commit.
LEMMA LeaveBook ==
    ASSUME Typed, BookOK, NEW r \in Request,
           RefundReject(r) \/ RefundConflict(r) \/ Abort(r)
    PROVE  BookOK'
  <1>1. /\ tx' = [tx EXCEPT ![r] = Idle]
        /\ UNCHANGED <<invoice, refunded, invoiceSeq>> /\ invoiceSeq \in Nat
    BY ConstantsOK
    DEF RefundReject, RefundConflict, Abort, Continue, Finish, tables, Typed, TypeOK
  <1>2. SessionFits(Idle) /\ ~SaleWriting(Idle)
    BY DEF SessionFits, OnInvoice, SaleFresh, SaleWriting, FitsWhatItRead, Idle
  <1>3. invoiceSeq' \in Nat /\ invoiceSeq <= invoiceSeq'
    BY <1>1
  <1>4. /\ tx' = [tx EXCEPT ![r] = Idle] /\ Idle \in Session
        /\ UNCHANGED <<invoice, refunded>>
    BY <1>1, IdleType
  <1> QED
    BY <1>2, <1>3, <1>4, MoveBook

LEMMA AdvanceBook ==
    ASSUME Typed, SerialOK, BookOK, NEW r \in Request, Advance(r)
    PROVE  BookOK'
  <1>1. tx[r] \in Session /\ tx \in [Request -> Session]
    BY DEF Typed, TypeOK
  <1>2. CASE RefundInsert(r) \/ RefundReadProducts(r) \/ RefundFlush(r) \/ CollectFlush(r)
    <2>1. PICK t \in Session : t = tx'[r]
      BY <1>2, RefundStepsTyped, FlushesTyped DEF Typed, TypeOK
    <2>2. /\ tx' = [tx EXCEPT ![r] = t] /\ UNCHANGED <<invoice, refunded, invoiceSeq>>
          /\ tx[r].kind # "sale" /\ tx[r].pc # "numbered"
      BY <1>1, <1>2, <2>1
      DEF RefundInsert, RefundReadProducts, RefundFlush, CollectFlush, Continue, tables,
          Typed, SessionsOK
    <2>3. \/ t = [tx[r] EXCEPT !.pc = "inserted", !.id = refundSeq + 1]
          \/ t = [tx[r] EXCEPT !.pc = "counted", !.seenStock = stock]
          \/ t = [tx[r] EXCEPT !.pc = "flushed"]
      BY <1>1, <1>2, <2>1
      DEF RefundInsert, RefundReadProducts, RefundFlush, CollectFlush, Continue
    <2>4. /\ t.kind = tx[r].kind /\ t.inv = tx[r].inv /\ t.qty = tx[r].qty
          /\ t.largest = tx[r].largest /\ t.seenRefunded = tx[r].seenRefunded
          /\ t.pc # "numbered"
      BY <1>1, <2>3 DEF Session
    <2> QED
      BY <2>2, <2>4, StaysBook
  <1>3. CASE ReadDebit(r) \/ ReadCredit(r)
    <2>1. PICK t \in Session : t = tx'[r]
      BY <1>3, ReadsTyped DEF Typed, TypeOK
    <2>2. /\ tx' = [tx EXCEPT ![r] = t] /\ UNCHANGED <<invoice, refunded, invoiceSeq>>
          /\ tx[r].pc \in Writing /\ tx[r].pc # "numbered"
      BY <1>1, <1>3, <2>1 DEF ReadDebit, ReadCredit, Continue, tables, Writing
    <2>3. \/ t = [tx[r] EXCEPT !.pc = "debited", !.seenDebit = balance[tx[r].debit]]
          \/ t = [tx[r] EXCEPT !.pc = "credited", !.seenCredit = balance[tx[r].credit]]
      BY <1>1, <1>3, <2>1 DEF ReadDebit, ReadCredit, Continue
    <2>4. /\ t.kind = tx[r].kind /\ t.inv = tx[r].inv /\ t.qty = tx[r].qty
          /\ t.largest = tx[r].largest /\ t.seenRefunded = tx[r].seenRefunded
          /\ t.pc # "numbered"
      BY <1>1, <2>3 DEF Session
    <2> QED
      BY <2>2, <2>4, StaysBook
  <1> QED
    BY <1>2, <1>3, SaleFlushBook, SaleCommitBook, CollectCommitBook, RefundCheckBook,
       RefundCommitBook, LeaveBook
    DEF Advance

LEMMA NextBook ==
    ASSUME DistinctRows
    PROVE  Typed /\ SerialOK /\ BookOK /\ [Next]_vars => BookOK'
  <1> SUFFICES ASSUME Typed, SerialOK, BookOK, [Next]_vars PROVE BookOK'
    OBVIOUS
  <1>1. CASE UNCHANGED vars
    BY <1>1 DEF vars, tables, BookOK, NoOverRefund, SessionFits, OnInvoice, SaleFresh,
                SaleWriting, FitsWhatItRead
  <1>2. CASE Next
    BY <1>1, <1>2, BeginsBook, AdvanceBook, LeaveBook DEF Next, Rest
  <1> QED
    BY <1>1, <1>2

\* create_refund: when a body has one row per product, no history of concurrent
\* sales, collections, refunds and failures refunds more than an invoice sold.
THEOREM NothingOverRefunded ==
    ASSUME DistinctRows
    PROVE  Spec => []NoOverRefund
  <1>1. BookOK => NoOverRefund
    BY DEF BookOK
  <1>2. Typed /\ SerialOK /\ BookOK /\ [Next]_vars => BookOK'
    BY NextBook
  <1> QED
    BY <1>1, <1>2, InitBook, SpecSerial, PTL DEF Spec
-----------------------------------------------------------------------------
\* What the book sees changes by the three commits alone.
LEMMA CommitsChange ==
    ASSUME [Next]_vars
    PROVE  \/ UNCHANGED <<invoice, refunded, refundNumbers>>
           \/ \E r \in Request : SaleCommit(r) \/ CollectCommit(r) \/ RefundCommit(r)
  <1>1. ASSUME NEW r \in Request, SaleCheck(r) \/ CollectCheck(r) \/ RefundNumber(r)
        PROVE  UNCHANGED <<invoice, refunded, refundNumbers>>
    BY <1>1 DEF SaleCheck, CollectCheck, RefundNumber, Begin, tables
  <1>2. ASSUME NEW r \in Request, Advance(r)
        PROVE  \/ UNCHANGED <<invoice, refunded, refundNumbers>>
               \/ SaleCommit(r) \/ CollectCommit(r) \/ RefundCommit(r)
    BY <1>2
    DEF Advance, SaleFlush, CollectFlush, RefundCheck, RefundReject, RefundInsert,
        RefundConflict, RefundReadProducts, RefundFlush, ReadDebit, ReadCredit, Continue, tables
  <1>3. ASSUME NEW r \in Request, Abort(r)
        PROVE  UNCHANGED <<invoice, refunded, refundNumbers>>
    BY <1>3 DEF Abort, tables
  <1> QED
    BY <1>1, <1>2, <1>3 DEF Next, Rest, vars, tables

\* An invoice id that was not used yet has no lines.
Unwritten == \A i \in InvoiceId : invoice[i].status = "none" => invoice[i].sold = Empty

\* After a sale, line by line.
LEMMA SaleCommitWrites ==
    ASSUME Typed, BookOK, NEW r \in Request, SaleCommit(r)
    PROVE  /\ tx[r].inv \in InvoiceId /\ invoice[tx[r].inv].status = "none"
           /\ tx[r].qty \in Basket
           /\ invoice'[tx[r].inv].sold = tx[r].qty
           /\ invoice'[tx[r].inv].status # "none"
           /\ \A i \in InvoiceId \ {tx[r].inv} : invoice'[i] = invoice[i]
           /\ UNCHANGED <<refunded, refundNumbers>>
  <1>1. /\ tx[r] \in Session /\ SaleWriting(tx[r]) /\ tx[r].inv \in 1..invoiceSeq
        /\ invoice[tx[r].inv].status = "none" /\ invoiceSeq \in 0..MaxInvoice
    BY DEF Typed, TypeOK, SessionsOK, BookOK, SessionFits, SaleFresh, SaleWriting,
           SaleCommit, Writing
  <1>2. tx[r].inv \in InvoiceId /\ tx[r].qty \in Basket
    BY <1>1, ConstantsOK DEF InvoiceId, Session
  <1> QED
    BY <1>1, <1>2 DEF SaleCommit, StatusOf, Typed, TypeOK

LEMMA UnwrittenStep ==
    ASSUME Typed, BookOK, Unwritten, [Next]_vars
    PROVE  Unwritten'
  <1>1. CASE UNCHANGED <<invoice, refunded, refundNumbers>>
    BY <1>1 DEF Unwritten
  <1>2. ASSUME NEW r \in Request, SaleCommit(r) PROVE Unwritten'
    BY <1>2, SaleCommitWrites DEF Unwritten
  <1>3. ASSUME NEW r \in Request, CollectCommit(r) PROVE Unwritten'
    BY <1>3 DEF CollectCommit, Unwritten, Typed, TypeOK
  <1>4. ASSUME NEW r \in Request, RefundCommit(r) PROVE Unwritten'
    BY <1>4 DEF RefundCommit, Unwritten
  <1> QED
    BY <1>1, <1>2, <1>3, <1>4, CommitsChange

\* Every step of the counter is a step of the book, or none.
LEMMA StepsOfTheBook ==
    ASSUME Typed, SerialOK, BookOK, BookOK', Unwritten, [Next]_vars
    PROVE  [Book!Next]_(Book!bookVars)
  <1>1. CASE UNCHANGED <<invoice, refunded, refundNumbers>>
    BY <1>1 DEF Book!bookVars
  <1>2. ASSUME NEW r \in Request, SaleCommit(r) PROVE Book!Next
    <2>1. PICK i \in InvoiceId :
             /\ i = tx[r].inv
             /\ invoice[i].sold = Empty /\ invoice'[i].sold \in Basket
             /\ \A j \in InvoiceId \ {i} : invoice'[j].sold = invoice[j].sold
             /\ UNCHANGED <<refunded, refundNumbers>>
      BY <1>2, SaleCommitWrites DEF Unwritten
    <2>2. Book!Sell(i)
      BY <2>1 DEF Book!Sell, Book!Empty, Book!Basket, Empty, Basket
    <2> QED
      BY <2>1, <2>2 DEF Book!Next
  <1>3. ASSUME NEW r \in Request, CollectCommit(r) PROVE UNCHANGED Book!bookVars
    <2>1. UNCHANGED <<refunded, refundNumbers>>
      BY <1>3 DEF CollectCommit
    <2>2. [i \in InvoiceId |-> invoice'[i].sold] = [i \in InvoiceId |-> invoice[i].sold]
      BY <1>3 DEF CollectCommit, Typed, TypeOK
    <2> QED
      BY <2>1, <2>2 DEF Book!bookVars
  <1>4. ASSUME NEW r \in Request, RefundCommit(r) PROVE Book!Next
    <2> DEFINE i == tx[r].inv
    <2>1. /\ i \in InvoiceId /\ tx[r] \in Session /\ UNCHANGED invoice
          /\ refunded \in [InvoiceId -> Basket] /\ refundNumbers \in SUBSET Nat
          /\ lastRefund \in Nat
      BY <1>4 DEF RefundCommit, Typed, TypeOK, SessionsOK
    <2>2. /\ refunded' = [refunded EXCEPT ![i] = [p \in Product |-> refunded[i][p] + tx[r].qty[p]]]
          /\ refundNumbers' = refundNumbers \cup {tx[r].num}
      BY <1>4 DEF RefundCommit
    <2>3. ASSUME NEW p \in Product
          PROVE  /\ refunded'[i][p] >= refunded[i][p]
                 /\ refunded'[i][p] <= invoice[i].sold[p]
      <3>1. refunded[i][p] \in Nat /\ tx[r].qty[p] \in Nat
        BY <2>1 DEF Session, Basket
      <3>2. refunded'[i][p] = refunded[i][p] + tx[r].qty[p]
        BY <2>1, <2>2
      <3>3. refunded'[i][p] <= invoice'[i].sold[p]
        BY <2>1 DEF BookOK, NoOverRefund
      <3> QED
        BY <2>1, <3>1, <3>2, <3>3
    <2>4. \A m \in refundNumbers : m < tx[r].num
      <3>1. tx[r].num = lastRefund + 1
        BY <1>4 DEF RefundCommit, SerialOK, RefundOK, InsertedRefund, Inserted, Writing
      <3>2. \A m \in refundNumbers : m <= lastRefund /\ m \in Nat
        BY <2>1 DEF SerialOK
      <3> QED
        BY <2>1, <3>1, <3>2
    <2>5. refunded' = [refunded EXCEPT ![i] = refunded'[i]]
      BY <2>1, <2>2
    <2> HIDE DEF i
    <2>6. Book!Return(i)
      BY <2>1, <2>2, <2>3, <2>4, <2>5 DEF Book!Return
    <2> QED
      BY <2>1, <2>6 DEF Book!Next
  <1> QED
    BY <1>1, <1>2, <1>3, <1>4, CommitsChange

\* create_refund implements the refund book: whatever runs beside them, refunds
\* happen as if one at a time, each within what is left of the line and under a
\* number above all earlier ones, if a body has one row per product.
THEOREM RefundsFollowTheBook ==
    ASSUME DistinctRows
    PROVE  Spec => ImplementsRefundBook
  <1>1. Init => Book!Init /\ Unwritten
    BY DEF Init, NoInvoice, Unwritten, Book!Init, Book!Empty, Empty
  <1>2. Typed /\ SerialOK /\ BookOK /\ [Next]_vars => BookOK'
    BY NextBook
  <1>3. Typed /\ BookOK /\ Unwritten /\ [Next]_vars => Unwritten'
    BY UnwrittenStep
  <1>4. Typed /\ SerialOK /\ BookOK /\ BookOK' /\ Unwritten /\ [Next]_vars
            => [Book!Next]_(Book!bookVars)
    BY StepsOfTheBook
  <1> QED
    BY <1>1, <1>2, <1>3, <1>4, InitBook, SpecSerial, PTL
    DEF Spec, ImplementsRefundBook, Book!Spec
=============================================================================
