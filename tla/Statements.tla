----------------------------- MODULE Statements -----------------------------
(***************************************************************************)
(* What the reports say of business clients (app/routers/reports.py), over *)
(* a period that holds every document: figures recomputed from invoices,   *)
(* refunds and journals, next to the account balances that module B2B      *)
(* keeps.                                                                  *)
(***************************************************************************)
EXTENDS B2B

RefundTotal == SumFunction([x \in DOMAIN refund |-> refund[x].total])
PaidOn(T) ==
    SumFunction([i \in {j \in DOMAIN invoice : invoice[j].type \in T} |-> invoice[i].paid])

\* _load_b2b_client_payment_records: the cash of each journal of the types
\* b2b_payment, b2b_collection, consignment_payment, consignment_client_payment.
PaymentRecords == collected

\* _build_sales_report, its business channel.  What was paid on a consignment is
\* left to the payment journals; what was paid on the others is not.
GrossSales == SumFunction([i \in DOMAIN invoice |-> invoice[i].total])
\* Mutant: payments on consignments are taken from both as well.
CashCollectedAll == PaidOn(Terms) + PaymentRecords - RefundTotal
CashCollected == PaidOn(Terms \ {"consignment"}) + PaymentRecords - RefundTotal
NetSales == GrossSales - RefundTotal

\* pl_report: the movement of sales revenue, which every journal of a client
\* moves with cash, shown without its sign.
Revenue == IF cash < 0 THEN -cash ELSE cash
-----------------------------------------------------------------------------
\* reports.py:295-593: the sales report recomputes the cash of clients from
\* documents and journals.  Over every document it differs from the ledger's cash
\* by exactly three things: settlements, which it leaves out; refunds, which it
\* takes off although they are given on account; and payments on full-payment
\* invoices, which it counts on the invoice and again as a journal.
CashReportExplained ==
    CashCollected = Revenue - settled - RefundTotal + PaidOn({"full_payment"})

\* reports.py:387-593, 1376-1430: net sales in the sales report are the revenue in
\* the profit report, what clients owe in the ledger and what was written off, in
\* whatever order invoices were edited, paid, settled, refunded and deleted.
NetSalesBooked == NetSales = Revenue + receivable + waived
=============================================================================
