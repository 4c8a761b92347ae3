---------------------------- MODULE OfficeProofs ----------------------------
(***************************************************************************)
(* Proofs about Office: what is proved of each part by itself holds when   *)
(* the parts run side by side, for every value of their constants.         *)
(***************************************************************************)
EXTENDS Office, ImportsProofs, AccessProofs

OfficeInv ==
    /\ BatchesInv
    /\ ImportsInv /\ OnceInv /\ StockInv /\ OriginsInv
    /\ ClientsInv /\ AccountsInv /\ NumbersInv
    /\ SessionsInv /\ UsersInv

\* A step of the office is a step of each part or leaves it alone.
LEMMA StepOfEachPart ==
    ASSUME [Next]_officeVars
    PROVE  /\ [BatchesNext]_batchesVars
           /\ [ImportsNext]_importsVars
           /\ [ClientsNext]_clientsVars
           /\ [SessionsNext]_sessionsVars
           /\ [UsersNext]_usersVars
  <1>1. CASE BatchesMove
    BY <1>1 DEF BatchesMove
  <1>2. CASE ImportsMove
    BY <1>2 DEF ImportsMove
  <1>3. CASE ClientsMove
    BY <1>3 DEF ClientsMove
  <1>4. CASE SessionsMove
    BY <1>4 DEF SessionsMove
  <1>5. CASE UsersMove
    BY <1>5 DEF UsersMove
  <1>6. CASE UNCHANGED officeVars
    BY <1>6 DEF officeVars
  <1> QED
    BY <1>1, <1>2, <1>3, <1>4, <1>5, <1>6 DEF Next

LEMMA OfficeInvHolds == Spec => []OfficeInv
  <1>1. Init => OfficeInv
    BY BatchesInvInit, ImportsInvInit, OnceInvInit, StockInvInit, OriginsInvInit,
       ClientsInvInit, AccountsInvInit, NumbersInvInit, SessionsInvInit, UsersInvInit
    DEF Init, OfficeInv
  <1>2. OfficeInv /\ [Next]_officeVars => OfficeInv'
    BY StepOfEachPart, BatchesInvStep, ImportsInvStep, OnceInvStep, StockInvStep, OriginsInvStep,
       ClientsInvStep, AccountsInvStep, NumbersInvStep, SessionsInvStep, UsersInvStep
    DEF OfficeInv
  <1> QED
    BY <1>1, <1>2, PTL DEF Spec

\* The rows of imports, of clients, sessions and users are typed, and every invoice has
\* the client, the file, the customer and the products it names.
THEOREM OfficeIsTyped ==
    Spec => [](/\ BatchesTypeOK /\ ImportsTypeOK /\ ClientsTypeOK
               /\ SessionsTypeOK /\ UsersTypeOK)
  <1>1. OfficeInv => /\ BatchesTypeOK /\ ImportsTypeOK /\ ClientsTypeOK
                     /\ SessionsTypeOK /\ UsersTypeOK
    BY OriginsAreTyped DEF OfficeInv, BatchesInv, NumbersInv, SessionsInv, UsersInv
  <1> QED
    BY <1>1, OfficeInvHolds, PTL

\* A batch the log calls reverted is gone, in the office as in Batches
\* (expense_import_service.py:202-252).
THEOREM OfficeRevertsAreDone == Spec => []RevertedIsGone
  BY OfficeInvHolds, PTL DEF OfficeInv, BatchesInv

\* Rows of imports are posted once and reversed once, side by side with the rest of
\* the office (expense_import_service.py:202-252, 387-452).
THEOREM OfficeEffectsAreRows == Spec => []EffectsAreRows
  BY OfficeInvHolds, PTL DEF OfficeInv, BatchesInv

\* No group of past sales is imported twice (sales_import_service.py:308-328).
THEOREM OfficeImportedOnce == Spec => []OneInvoicePerGroup
  BY OfficeInvHolds, PTL DEF OfficeInv, OnceInv

\* What an import of past sales created is on one of its invoices, or others use it
\* (sales_import_service.py:246-380, import_data.py:500-540).
THEOREM OfficeCreatedAreUsed == Spec => []CreatedAreUsed
  BY OfficeInvHolds, PTL DEF OfficeInv, ImportsInv

\* A product's stock is what there was less what the invoices of past sales moved and
\* the counter sold (sales_import_service.py:425-447, import_data.py:457-478).
THEOREM OfficeStockIsWhatWasMoved == Spec => []StockFollowsMoves
  BY OfficeInvHolds, PTL DEF OfficeInv, StockInv

\* No invoice of a client shows more paid than was received (b2b.py:676-692).
THEOREM OfficePaidWasReceived == Spec => []PaidWasReceived
  BY OfficeInvHolds, PTL DEF OfficeInv, ClientsInv

\* A client owes what its live invoices leave unpaid less its refunds, unless requests
\* on it overlapped (b2b.py:684, 926, b2b_sales_import_service.py:800,
\* import_data.py:690-703).
THEOREM OfficeOwedIsUnpaid == Spec => []OwedIsUnpaid
  BY OfficeInvHolds, PTL DEF OfficeInv, AccountsInv

\* The browser's cookie is the one live token of its session (security.py:159-203).
THEOREM OfficeSessionsAreWhole == Spec => []SessionIsWhole
  <1>1. OfficeInv => SessionIsWhole
    BY DEF OfficeInv, SessionsInv, Quiet, Held, SessionIsWhole
  <1> QED
    BY <1>1, OfficeInvHolds, PTL

\* Users may do what was ticked for them, and an administrator remains
\* (permissions.py:58-100, users.py:211-229).
THEOREM OfficeUsersAreRight == Spec => [](ChosenIsGranted /\ AdminRemains)
  BY OfficeInvHolds, PTL DEF OfficeInv, UsersInv
=============================================================================
