-------------------------------- MODULE Wages --------------------------------
(***************************************************************************)
(* Employees' loans, deductions and payroll (app/routers/hr.py), and the   *)
(* expenses that salaries and bills are booked as                          *)
(* (app/services/expense_service.py), under concurrent requests.           *)
(*                                                                         *)
(* A request reads in one step and commits in a later one what it made of  *)
(* its readings.  No row is locked: what keeps requests apart is the       *)
(* unique reference number of an expense, its unique payroll, and foreign  *)
(* keys.  A request that commits on a reading another request has changed  *)
(* in between is recorded in crossed.                                      *)
(*                                                                         *)
(* The ledger is the sum of the journal entries; the accounts' balance     *)
(* column, whose updates overlapping postings lose, is module Retail's.    *)
(***************************************************************************)
EXTENDS Integers, FiniteSets, FiniteSetsExt, Functions, Rows

CONSTANTS
    Employee,
    Period,
    Salary,         \* employees.base_salary
    Principal,      \* amounts of loans
    Instalment,     \* amounts of repayments
    Amount,         \* amounts of deductions, bonuses and bills
    Bill,           \* expense categories of a user's making; an account each
    Salaries,       \* the category of salaries, account 5006
    Request,        \* requests in flight
    MaxRow,         \* bound: rows of each table ever inserted
    MaxRequest      \* bound: requests in a behaviour

Category == Bill \cup {Salaries}
Till == {"cash", "bank"}        \* accounts 1000 and 1200

ASSUME WagesConstants ==
    /\ Salary \in [Employee -> Nat]
    /\ Principal \cup Instalment \cup Amount \subseteq Nat \ {0}
    /\ Salaries \notin Bill
    /\ Category \cap Till = {}
    /\ MaxRow \in Nat /\ MaxRequest \in Nat

VARIABLES
    staff,          \* employees by state: "active", "inactive", "gone"
    loan,           \* employee_loans by id
    repaid,         \* SUM(employee_loan_repayments.amount) by loan
    deduction,      \* employee_payroll_deductions of the kinds day and manual
    payroll,        \* payroll by id
    taken,          \* SUM(employee_loan_repayments.amount) by payroll
    expense,        \* expenses by id, each with its current journal
    posted,         \* SUM(debit - credit) of the journal entries by account
    archived,       \* categories that are not active
    last,           \* last id each table's sequence handed out
    tx,             \* requests in flight
    asked,          \* requests so far, for the bound
    crossed         \* history: what a request committed on a stale reading of

books == <<staff, loan, repaid, deduction, payroll, taken, expense,
           posted, archived, last>>
vars == <<books, tx, asked, crossed>>

Loan == [emp : Employee, amount : Principal, status : {"open", "paid", "cancelled"}]
Deduction == [emp : Employee, period : Period, kind : {"day", "manual"},
              amount : Amount, payroll : 0..MaxRow]
Payroll == [emp : Employee, period : Period, base : Nat, bonus : Nat, loan : Nat,
            day : Nat, manual : Nat, net : Int, paid : BOOLEAN]
\* ref is the number in EXP-00001, payroll is 0 for a bill.
Journal == [category : Category, till : Till, amount : Nat]
Expense == [ref : Nat, category : Category, till : Till, amount : Nat,
            payroll : 0..MaxRow, journal : Journal]

None == [x \in {} |-> 0]
Idle == [kind |-> "idle"]

Init ==
    /\ staff = [e \in Employee |-> "active"]
    /\ loan = None /\ repaid = None /\ deduction = None
    /\ payroll = None /\ taken = None /\ expense = None
    /\ posted = [a \in Category \cup Till |-> 0]
    /\ archived = {}
    /\ last = [t \in {"loan", "deduction", "payroll", "expense"} |-> 0]
    /\ tx = [r \in Request |-> Idle]
    /\ asked = 0
    /\ crossed = {}
-----------------------------------------------------------------------------
(* Sessions.  A request t carries the objects it has read; a commit that    *)
(* writes some of them makes every other request that read them stale.      *)

Session(kind, reads, arg, seen) ==
    [kind |-> kind, pc |-> "read", stale |-> FALSE, reads |-> reads, arg |-> arg, seen |-> seen]

Begin(r, t) ==
    /\ tx[r] = Idle
    /\ asked < MaxRequest
    /\ asked' = asked + 1
    /\ tx' = [tx EXCEPT ![r] = t]
    /\ UNCHANGED <<books, crossed>>

Continue(r, pc, reads, seen) ==
    /\ tx' = [tx EXCEPT ![r].pc = pc, ![r].reads = @ \cup reads, ![r].seen = seen]
    /\ UNCHANGED <<books, asked, crossed>>

At(r, kind, pc) == tx[r] # Idle /\ tx[r].kind = kind /\ tx[r].pc = pc

\* Every other request that has read an object of W is stale from now on.
Outdate(W) == [s \in Request |-> IF tx[s] # Idle /\ tx[s].reads \cap W # {}
                                 THEN [tx[s] EXCEPT !.stale = TRUE] ELSE tx[s]]

Commit(r, W) ==
    /\ tx' = [Outdate(W) EXCEPT ![r] = Idle]
    /\ crossed' = crossed \cup (IF tx[r].stale THEN tx[r].reads ELSE {})
    /\ UNCHANGED asked

\* A request that reads nothing another one could change.
Alone ==
    /\ asked < MaxRequest
    /\ asked' = asked + 1
    /\ UNCHANGED <<tx, crossed>>

\* A rollback: an error, a lost connection, or a constraint of the database.
Abort(r) ==
    /\ tx[r] # Idle
    /\ tx' = [tx EXCEPT ![r] = Idle]
    /\ UNCHANGED <<books, asked, crossed>>

Smaller(m, n) == IF m < n THEN m ELSE n
-----------------------------------------------------------------------------
(* Loans.                                                                   *)

Balance(l) == loan[l].amount - repaid[l]

CreateLoan(e, n) ==
    LET l == last["loan"] + 1 IN
    /\ staff[e] # "gone" /\ l <= MaxRow
    /\ loan' = Insert(loan, l, [emp |-> e, amount |-> n, status |-> "open"])
    /\ repaid' = Insert(repaid, l, 0)
    /\ last' = [last EXCEPT !["loan"] = l]
    /\ Alone
    /\ UNCHANGED <<staff, deduction, payroll, taken, expense, posted, archived>>

RepayRead(r, l, n) ==
    /\ loan[l].status # "cancelled"
    /\ n <= Balance(l)
    /\ Begin(r, Session("repay", {<<"loan", l>>}, [loan |-> l, amount |-> n],
                        [row |-> loan[l]]))

\* _update_loan_status, after the flush: the session sees its own repayment and
\* those committed by now.
\* Mutants: the balance is that of before the repayment; it counts it twice.
StatusLate(l, n) == IF Balance(l) <= 0 THEN "paid" ELSE "open"
StatusTwice(l, n) == IF Balance(l) - 2 * n <= 0 THEN "paid" ELSE "open"
LoanStatus(l, n) == IF Balance(l) - n <= 0 THEN "paid" ELSE "open"

RepayFlush(r) ==
    LET t == tx[r] IN
    /\ At(r, "repay", "read")
    /\ t.arg.loan \in DOMAIN loan
    /\ Continue(r, "flushed", {},
                [row |-> t.seen.row, status |-> LoanStatus(t.arg.loan, t.arg.amount)])

RepayCommit(r) ==
    LET t == tx[r]
        l == t.arg.loan
    IN
    /\ At(r, "repay", "flushed")
    /\ l \in DOMAIN loan
    /\ repaid' = [repaid EXCEPT ![l] = @ + t.arg.amount]
    /\ loan' = [loan EXCEPT
                  ![l] = Flushed(@, t.seen.row, [t.seen.row EXCEPT !.status = t.seen.status])]
    /\ Commit(r, {<<"loan", l>>})
    /\ UNCHANGED <<staff, deduction, payroll, taken, expense, posted, archived, last>>

\* cancel_employee_loan: with repayments, only an admin may.
CancelRead(r, l, admin) ==
    /\ admin \/ repaid[l] = 0
    /\ Begin(r, Session("cancel", {<<"loan", l>>}, [loan |-> l], [row |-> loan[l]]))

CancelCommit(r) ==
    LET t == tx[r]
        l == t.arg.loan
    IN
    /\ At(r, "cancel", "read")
    /\ l \in DOMAIN loan
    /\ loan' = [loan EXCEPT
                  ![l] = Flushed(@, t.seen.row, [t.seen.row EXCEPT !.status = "cancelled"])]
    /\ Commit(r, {<<"loan", l>>})
    /\ UNCHANGED <<staff, repaid, deduction, payroll, taken, expense, posted, archived, last>>
-----------------------------------------------------------------------------
(* Payroll.                                                                 *)

\* create_day_deduction and create_manual_deduction.
CreateDeduction(e, p, kind, n) ==
    LET d == last["deduction"] + 1 IN
    /\ staff[e] # "gone" /\ d <= MaxRow
    /\ deduction' = Insert(deduction, d, [emp |-> e, period |-> p, kind |-> kind,
                                          amount |-> n, payroll |-> 0])
    /\ last' = [last EXCEPT !["deduction"] = d]
    /\ Alone
    /\ UNCHANGED <<staff, loan, repaid, payroll, taken, expense, posted, archived>>

Deactivate(e) ==
    /\ staff[e] = "active"
    /\ staff' = [staff EXCEPT ![e] = "inactive"]
    /\ Alone
    /\ UNCHANGED <<loan, repaid, deduction, payroll, taken, expense, posted, archived, last>>

RowsOf(e, p) == {k \in DOMAIN payroll : payroll[k].emp = e /\ payroll[k].period = p}
\* Mutant: deductions are pending whether a payroll took them or not.
PendingAll(e, p) == {d \in DOMAIN deduction : deduction[d].emp = e /\ deduction[d].period = p}
Pending(e, p) == {d \in DOMAIN deduction : /\ deduction[d].emp = e
                                           /\ deduction[d].period = p
                                           /\ deduction[d].payroll = 0}
LoansOf(e) == {l \in DOMAIN loan : loan[l].emp = e}
Total(f, S) == SumFunctionOnSet(f, S)

\* run_payroll for one employee.  The loop over several shares the transaction
\* and nothing else.  Two rows of the period make the query raise.
RunRead(r, e, p, bonus, n) ==
    LET P == Pending(e, p)
        Sum(kind) == SumFunction([d \in {x \in P : deduction[x].kind = kind} |->
                                   deduction[d].amount])
    IN
    /\ staff[e] = "active"
    /\ Cardinality(RowsOf(e, p)) <= 1
    /\ Begin(r, Session("run", {<<"wages", e, p>>},
                        [emp |-> e, period |-> p, bonus |-> bonus, amount |-> n],
                        [old |-> {<<k, payroll[k]>> : k \in RowsOf(e, p)}, pending |-> P,
                         day |-> Sum("day"), manual |-> Sum("manual"),
                         open |-> None]))

\* The repayment is checked against every loan that is not cancelled ...
RunCheck(r) ==
    LET t == tx[r] IN
    /\ At(r, "run", "read")
    /\ t.arg.amount > 0
    /\ t.arg.amount <= SumFunction([l \in {m \in LoansOf(t.arg.emp) :
                                            loan[m].status # "cancelled"} |-> Balance(l)])
    /\ Continue(r, "checked", {<<"loan", l>> : l \in LoansOf(t.arg.emp)}, t.seen)

\* ... and spread over the open ones, which are read again.
RunLoans(r) ==
    LET t == tx[r] IN
    /\ At(r, "run", "checked")
    /\ Continue(r, "loans", {<<"loan", l>> : l \in LoansOf(t.arg.emp)},
                [t.seen EXCEPT !.open = [l \in {m \in LoansOf(t.arg.emp) :
                                                  loan[m].status = "open"} |-> Balance(l)]])

\* The oldest open loan takes what it can, then the next; visited are the loans
\* the loop reaches before nothing remains.
Older(open, l) == Total(open, {m \in DOMAIN open : m < l /\ open[m] > 0})
Visited(open, n) == {l \in DOMAIN open : n > Older(open, l)}
Share(open, n, l) == IF open[l] <= 0 THEN 0 ELSE Smaller(open[l], n - Older(open, l))

\* Mutant: a repayment is given back.
WithheldLess(before, n) == before - n
Withheld(before, n) == before + n

\* The row of a payroll: the pending deductions and the repayment on top of what
\* earlier runs withheld.  `old` is the row as it was read, in a set.
Sheet(t) ==
    LET was(c) == SumFunction([o \in t.seen.old |-> o[2][c]])
        bonus == IF t.arg.bonus # {} THEN CHOOSE b \in t.arg.bonus : TRUE ELSE was("bonus")
        day == was("day") + t.seen.day
        manual == was("manual") + t.seen.manual
        withheld == Withheld(was("loan"), t.arg.amount)
        base == Salary[t.arg.emp]
    IN  [emp |-> t.arg.emp, period |-> t.arg.period, base |-> base, bonus |-> bonus,
         loan |-> withheld, day |-> day, manual |-> manual,
         net |-> base + bonus - withheld - day - manual,
         paid |-> \E o \in t.seen.old : o[2].paid]

RunCommit(r) ==
    LET t == tx[r]
        open == t.seen.open
        paying == Visited(open, t.arg.amount)
        k == IF t.seen.old = {} THEN last["payroll"] + 1
                                ELSE (CHOOSE o \in t.seen.old : TRUE)[1]
        applied == SumFunction([l \in paying |-> Share(open, t.arg.amount, l)])
    IN
    /\ At(r, "run", "loans") \/ (At(r, "run", "read") /\ t.arg.amount = 0)
    /\ staff[t.arg.emp] # "gone" /\ k <= MaxRow
    /\ t.seen.pending \subseteq DOMAIN deduction /\ paying \subseteq DOMAIN loan
    /\ \A o \in t.seen.old : k \in DOMAIN payroll
    /\ payroll' = Insert(payroll, k, IF t.seen.old = {} THEN Sheet(t)
                                     ELSE Flushed(payroll[k],
                                                  (CHOOSE o \in t.seen.old : TRUE)[2], Sheet(t)))
    /\ taken' = Insert(taken, k, (IF k \in DOMAIN taken THEN taken[k] ELSE 0) + applied)
    /\ repaid' = [l \in DOMAIN repaid |-> IF l \in paying
                                          THEN repaid[l] + Share(open, t.arg.amount, l)
                                          ELSE repaid[l]]
    /\ loan' = [l \in DOMAIN loan |->
                  IF l \in paying /\ open[l] - Share(open, t.arg.amount, l) <= 0
                  THEN [loan[l] EXCEPT !.status = "paid"] ELSE loan[l]]
    /\ deduction' = [d \in DOMAIN deduction |->
                       IF d \in t.seen.pending THEN [deduction[d] EXCEPT !.payroll = k]
                                               ELSE deduction[d]]
    /\ last' = [last EXCEPT !["payroll"] = IF k > @ THEN k ELSE @]
    /\ Commit(r, {<<"wages", t.arg.emp, t.arg.period>>} \cup {<<"loan", l>> : l \in paying})
    /\ UNCHANGED <<staff, expense, posted, archived>>

\* update_payroll: bonus and manual deductions as given, also once it is paid.
UpdateRead(r, k, bonus, manual) ==
    LET row == payroll[k] IN
    Begin(r, Session("update", {<<"wages", row.emp, row.period>>},
                     [payroll |-> k, bonus |-> bonus, manual |-> manual], [row |-> row]))

UpdateCommit(r) ==
    LET t == tx[r]
        k == t.arg.payroll
        row == t.seen.row
        new == [row EXCEPT !.bonus = t.arg.bonus, !.manual = t.arg.manual,
                           !.net = row.base + t.arg.bonus - row.loan - row.day - t.arg.manual]
    IN
    /\ At(r, "update", "read")
    /\ k \in DOMAIN payroll
    /\ payroll' = [payroll EXCEPT ![k] = Flushed(@, row, new)]
    /\ Commit(r, {<<"wages", row.emp, row.period>>})
    /\ UNCHANGED <<staff, loan, repaid, deduction, taken, expense, posted, archived, last>>
-----------------------------------------------------------------------------
(* Expenses.                                                                *)

\* One journal: n on the expense account, against the till.
Book(p, j, n) == [p EXCEPT ![j.category] = @ + n, ![j.till] = @ - n]
\* What it adds to account a.
Booked(j, a) == (IF a = j.category THEN j.amount ELSE 0) - (IF a = j.till THEN j.amount ELSE 0)
JournalOf(x) == [category |-> x.category, till |-> x.till, amount |-> x.amount]

\* _next_expense_reference, read from the rows there are.
NextReference == (IF DOMAIN expense = {} THEN 0 ELSE Max(DOMAIN expense)) + 1

\* The unique columns of expenses.
\* Mutant: no unique index on payroll_id.
NumberFree(x) == \A y \in DOMAIN expense : expense[y].ref # x.ref
Free(x) == /\ \A y \in DOMAIN expense : expense[y].ref # x.ref
           /\ x.payroll # 0 => \A y \in DOMAIN expense : expense[y].payroll # x.payroll

InsertExpense(x) ==
    LET i == last["expense"] + 1 IN
    /\ i <= MaxRow
    /\ Free(x)
    /\ expense' = Insert(expense, i, x)
    /\ posted' = Book(posted, x, x.amount)
    /\ last' = [last EXCEPT !["expense"] = i]

NewExpense(ref, c, till, n, k) ==
    LET j == [category |-> c, till |-> till, amount |-> n] IN
    [ref |-> ref, category |-> c, till |-> till, amount |-> n, payroll |-> k, journal |-> j]

BillRead(r, c, till, n) ==
    /\ c \notin archived
    /\ Begin(r, Session("bill", {<<"category", c>>}, [amount |-> n],
                        [new |-> NewExpense(NextReference, c, till, n, 0)]))

BillCommit(r) ==
    /\ At(r, "bill", "read")
    /\ InsertExpense(tx[r].seen.new)
    /\ Commit(r, {<<"uses", tx[r].seen.new.category>>})
    /\ UNCHANGED <<staff, loan, repaid, deduction, payroll, taken, archived>>

\* mark_paid: books the salary unless an expense of this payroll is there, and
\* marks the payroll paid in the same transaction.  The category is reactivated.
PayRead(r, k, till) ==
    LET row == payroll[k] IN
    /\ row.net > 0
    /\ Begin(r, Session("pay", {<<"category", Salaries>>}, [payroll |-> k],
                        [booked |-> \E x \in DOMAIN expense : expense[x].payroll = k,
                         wake |-> Salaries \in archived, row |-> row,
                         new |-> NewExpense(NextReference, Salaries, till, row.net, k)]))

PayCommit(r) ==
    LET t == tx[r]
        k == t.arg.payroll
    IN
    /\ At(r, "pay", "read")
    /\ k \in DOMAIN payroll
    /\ payroll' = [payroll EXCEPT ![k].paid = TRUE]
    /\ IF t.seen.booked
       THEN UNCHANGED <<expense, posted, last, archived>>
       ELSE /\ InsertExpense(t.seen.new)
            /\ archived' = IF t.seen.wake THEN archived \ {Salaries} ELSE archived
    /\ Commit(r, IF t.seen.booked THEN {} ELSE {<<"uses", Salaries>>})
    /\ UNCHANGED <<staff, loan, repaid, deduction, taken>>

\* update_expense_entry: the journal of the expense as it was read is reversed,
\* the one it becomes is posted.
\* Mutant: the reversal comes after the change.
ReversedLate(row, new) == new
Reversed(row, new) == row

EditRead(r, x, new) ==
    /\ new.category # expense[x].category => new.category \notin archived
    /\ Begin(r, Session("edit", {<<"expense", x>>, <<"category", new.category>>},
                        [expense |-> x],
                        [row |-> expense[x], new |-> [new EXCEPT !.journal = JournalOf(new)]]))

EditCommit(r) ==
    LET t == tx[r]
        x == t.arg.expense
        row == t.seen.row
        new == t.seen.new
        undo == Reversed(row, new)
    IN
    /\ At(r, "edit", "read")
    /\ x \in DOMAIN expense
    /\ expense' = [expense EXCEPT ![x] = [Flushed(@, row, new) EXCEPT !.journal = new.journal]]
    /\ posted' = Book(Book(posted, undo, -undo.amount), new, new.amount)
    /\ Commit(r, {<<"expense", x>>, <<"uses", new.category>>})
    /\ UNCHANGED <<staff, loan, repaid, deduction, payroll, taken, archived, last>>

\* delete_expense_entry.  A DELETE that finds no row any more is only a warning.
DeleteRead(r, x) ==
    Begin(r, Session("delete", {<<"expense", x>>}, [expense |-> x], [row |-> expense[x]]))

DeleteCommit(r) ==
    LET row == tx[r].seen.row IN
    /\ At(r, "delete", "read")
    /\ expense' = Without(expense, {tx[r].arg.expense})
    /\ posted' = Book(posted, row, -row.amount)
    /\ Commit(r, {<<"expense", tx[r].arg.expense>>})
    /\ UNCHANGED <<staff, loan, repaid, deduction, payroll, taken, archived, last>>

\* archive_category: refused while expenses use it.
\* Mutant: the expenses are not looked at.
UsesNone(c) == {}
Uses(c) == {x \in DOMAIN expense : expense[x].category = c}
ArchiveRead(r, c) ==
    /\ Uses(c) = {}
    /\ Begin(r, Session("archive", {<<"category", c>>, <<"uses", c>>}, [category |-> c], None))

ArchiveCommit(r) ==
    /\ At(r, "archive", "read")
    /\ archived' = archived \cup {tx[r].arg.category}
    /\ Commit(r, {<<"category", tx[r].arg.category>>})
    /\ UNCHANGED <<staff, loan, repaid, deduction, payroll, taken, expense, posted, last>>
-----------------------------------------------------------------------------
\* _clear_hr_data deletes all of HR, and for each salary expense its row and its
\* CURRENT journal.  An expense of a payroll booked since blocks it (foreign key).
Unbooked(S) ==
    [a \in DOMAIN posted |->
       posted[a] - SumFunction([j \in S |-> Booked(j[2], a)])]

ClearRead(r) ==
    LET S == {x \in DOMAIN expense : expense[x].payroll # 0} IN
    Begin(r, Session("clear", {<<"expense", x>> : x \in S}, None,
                     [journals |-> {<<x, expense[x].journal>> : x \in S}]))

ClearCommit(r) ==
    LET S == tx[r].seen.journals
        gone == {j[1] : j \in S}
    IN
    /\ At(r, "clear", "read")
    /\ \A x \in DOMAIN expense : expense[x].payroll # 0 => x \in gone
    /\ staff' = [e \in Employee |-> "gone"]
    /\ loan' = None /\ repaid' = None /\ deduction' = None
    /\ payroll' = None /\ taken' = None
    /\ expense' = Without(expense, gone)
    /\ posted' = Unbooked(S)
    /\ Commit(r, {<<"expense", x>> : x \in gone})
    /\ UNCHANGED <<archived, last>>

Edits(x) == {[expense[x] EXCEPT !.amount = n] : n \in Amount}
            \cup {[expense[x] EXCEPT !.till = t] : t \in Till}
            \cup {[expense[x] EXCEPT !.category = c] : c \in Category}

Next ==
    \/ \E e \in Employee, n \in Principal : CreateLoan(e, n)
    \/ \E e \in Employee, p \in Period, n \in Amount, kind \in {"day", "manual"} :
          CreateDeduction(e, p, kind, n)
    \/ \E e \in Employee : Deactivate(e)
    \/ \E r \in Request :
          \/ \E l \in DOMAIN loan, n \in Instalment : RepayRead(r, l, n)
          \/ RepayFlush(r)
          \/ RepayCommit(r)
          \/ \E l \in DOMAIN loan, admin \in BOOLEAN : CancelRead(r, l, admin)
          \/ CancelCommit(r)
          \/ \E e \in Employee, p \in Period, b \in {{}} \cup {{n} : n \in Amount},
                n \in Instalment \cup {0} : RunRead(r, e, p, b, n)
          \/ RunCheck(r)
          \/ RunLoans(r)
          \/ RunCommit(r)
          \/ \E k \in DOMAIN payroll, b \in Amount \cup {0}, m \in Amount \cup {0} :
                UpdateRead(r, k, b, m)
          \/ UpdateCommit(r)
          \/ \E c \in Category, till \in Till, n \in Amount : BillRead(r, c, till, n)
          \/ BillCommit(r)
          \/ \E k \in DOMAIN payroll, till \in Till : PayRead(r, k, till)
          \/ PayCommit(r)
          \/ \E x \in DOMAIN expense : \E new \in Edits(x) : EditRead(r, x, new)
          \/ EditCommit(r)
          \/ \E x \in DOMAIN expense : DeleteRead(r, x)
          \/ DeleteCommit(r)
          \/ \E c \in Category : ArchiveRead(r, c)
          \/ ArchiveCommit(r)
          \/ ClearRead(r)
          \/ ClearCommit(r)
          \/ Abort(r)

Spec == Init /\ [][Next]_vars
-----------------------------------------------------------------------------
Over(S, f) == DOMAIN f \subseteq 1..MaxRow /\ \A i \in DOMAIN f : f[i] \in S

\* Every table holds rows of its columns' types; no repayment is negative.
TypeOK ==
    /\ staff \in [Employee -> {"active", "inactive", "gone"}]
    /\ Over(Loan, loan) /\ Over(Nat, repaid) /\ DOMAIN repaid = DOMAIN loan
    /\ Over(Deduction, deduction)
    /\ Over(Payroll, payroll) /\ Over(Nat, taken) /\ DOMAIN taken = DOMAIN payroll
    /\ Over(Expense, expense)
    /\ posted \in [Category \cup Till -> Int]
    /\ archived \subseteq Category
    /\ asked \in 0..MaxRequest

\* Whatever overlaps, a loan marked paid has been repaid in full: the status is
\* set from a balance that counts the session's own repayment and can only have
\* fallen since (hr.py:334 and hr.py:388).
PaidLoansAreRepaid ==
    \A l \in DOMAIN loan : loan[l].status = "paid" => repaid[l] >= loan[l].amount

\* A loan is repaid up to its amount and no further, and its status says which,
\* by whatever mixture of repayments, payrolls and cancellations, as long as no
\* request committed on a stale reading of it (hr.py:641, hr.py:356).
LoansStayWithinAmount ==
    \A l \in DOMAIN loan : <<"loan", l>> \notin crossed =>
        /\ repaid[l] <= loan[l].amount
        /\ loan[l].status = "open" => repaid[l] < loan[l].amount

\* What a payroll withheld is what its rows say: the net adds up after any runs,
\* re-runs and edits, the repayments withheld are the ones applied to loans, and
\* each day deduction was taken once, by the payroll it points at; there is one
\* payroll for a period.  Exempt: payrolls two requests have crossed on.
PayrollAddsUp ==
    \A k \in DOMAIN payroll :
      LET w == payroll[k]
          days == {d \in DOMAIN deduction : /\ deduction[d].payroll = k
                                            /\ deduction[d].kind = "day"}
      IN  <<"wages", w.emp, w.period>> \notin crossed =>
          /\ w.net = w.base + w.bonus - w.loan - w.day - w.manual
          /\ w.day = SumFunction([d \in days |-> deduction[d].amount])
          /\ (\A l \in LoansOf(w.emp) : <<"loan", l>> \notin crossed) => w.loan = taken[k]
          /\ RowsOf(w.emp, w.period) = {k}

\* Whatever overlaps, two expenses never book the salary of one payroll
\* (models/expense.py, payroll_id UNIQUE), and no journal is left behind by the
\* request that lost.
SalaryBookedOnce ==
    \A x, y \in DOMAIN expense :
        expense[x].payroll = expense[y].payroll /\ expense[x].payroll # 0 => x = y

\* The journal entries are those of the live expenses: edits reverse what they
\* replace, deletions and the clearing of HR leave nothing behind, as long as no
\* request crossed another on one expense (expense_service.py:102, hr.py:455).
LedgerIsLiveExpenses ==
    (\A o \in crossed : o[1] # "expense") =>
        \A a \in Category \cup Till :
            posted[a] = SumFunction([x \in DOMAIN expense |-> Booked(expense[x], a)])

\* No live expense hangs on an archived category, unless an archiving crossed an
\* expense on it (expense_service.py:240).
LiveCategoriesActive ==
    \A x \in DOMAIN expense :
        LET c == expense[x].category IN
        {<<"category", c>>, <<"uses", c>>} \cap crossed = {} => c \notin archived
=============================================================================
