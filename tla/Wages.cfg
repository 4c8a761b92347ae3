CONSTANTS
    Employee = {e1}
    Period = {may}
    Salary <- MCSalary
    Principal = {2}
    Instalment = {1, 2}
    Amount = {1}
    Bill = {rent}
    Salaries = salaries
    Request = {r1, r2}
    MaxRow = 3
    MaxRequest = 5
SPECIFICATION Spec
INVARIANTS
    TypeOK
    PaidLoansAreRepaid
    LoansStayWithinAmount
    PayrollAddsUp
    SalaryBookedOnce
    LedgerIsLiveExpenses
    LiveCategoriesActive
SYMMETRY MCRequestSymmetry
CHECK_DEADLOCK FALSE
