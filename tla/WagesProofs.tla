----------------------------- MODULE WagesProofs -----------------------------
(***************************************************************************)
(* Proofs about Wages, for any number of requests, employees, categories   *)
(* and amounts:                                                            *)
(*   WagesInv    no payroll's salary is booked twice, and no live expense  *)
(*               hangs on an archived category, unless an archiving        *)
(*               crossed an expense on it;                                 *)
(*   TypedInv    the tables, and what the requests in flight carry, are of *)
(*               their types;                                              *)
(*   LedgerInv   the journal entries are those of the live expenses;       *)
(*   LoansInv    a loan marked paid is repaid, and none beyond its amount; *)
(*   PayrollInv  payrolls add up.                                          *)
(* Each is inductive: beside the property it says what a request in flight *)
(* still knows of the rows it read, if no other request has written them.  *)
(***************************************************************************)
EXTENDS Wages, SumsProofs

Fields == {"ref", "category", "till", "amount", "payroll", "journal"}
IsExpense(x) == x = [f \in Fields |-> x[f]]

SessionFields == {"kind", "pc", "stale", "reads", "arg", "seen"}

\* Requests crossed on the category or on its expenses.
Excused(c) == {<<"category", c>>, <<"uses", c>>} \cap crossed # {}
Usable(c) == c \notin archived \/ Excused(c)
Unused(c) == Excused(c) \/ \A x \in DOMAIN expense : expense[x].category # c

\* What a request that is about to write an expense, or to archive a category,
\* still knows of the category if it is not stale.
EditFits(t) ==
    /\ IsExpense(t.seen.row) /\ IsExpense(t.seen.new)
    /\ t.seen.new.payroll = t.seen.row.payroll
    /\ <<"category", t.seen.new.category>> \in t.reads
    /\ t.stale \/ t.seen.new.category = t.seen.row.category \/ Usable(t.seen.new.category)

BillFits(t) ==
    /\ IsExpense(t.seen.new)
    /\ <<"category", t.seen.new.category>> \in t.reads
    /\ t.stale \/ Usable(t.seen.new.category)

PayFits(t) ==
    /\ IsExpense(t.seen.new) /\ t.seen.new.category = Salaries
    /\ <<"category", Salaries>> \in t.reads
    /\ t.stale \/ t.seen.wake \/ Usable(Salaries)

ArchiveFits(t) ==
    /\ {<<"category", t.arg.category>>, <<"uses", t.arg.category>>} \subseteq t.reads
    /\ t.stale \/ Unused(t.arg.category)

Fits(t) ==
    t # Idle =>
        /\ DOMAIN t = SessionFields
        /\ t.kind = "edit" => EditFits(t)
        /\ t.kind = "bill" => BillFits(t)
        /\ t.kind = "pay" => PayFits(t)
        /\ t.kind = "archive" => ArchiveFits(t)

WagesInv ==
    /\ expense = [x \in DOMAIN expense |-> expense[x]]
    /\ \A x \in DOMAIN expense : IsExpense(expense[x])
    /\ tx = [r \in Request |-> tx[r]]
    /\ \A r \in Request : Fits(tx[r])
    /\ SalaryBookedOnce
    /\ LiveCategoriesActive
-----------------------------------------------------------------------------
(* Sessions.                                                                *)

\* A request after a step that was another's, or that read more.
Follows(t, u) ==
    /\ t # Idle /\ DOMAIN u = SessionFields
    /\ u.kind = t.kind /\ u.arg = t.arg /\ (u.seen = t.seen \/ t.kind \in {"repay", "run"})
    /\ t.reads \subseteq u.reads
    /\ t.stale => u.stale

\* A step that makes no expense, archives nothing and drops no history.
LEMMA Steady ==
    ASSUME WagesInv,
           DOMAIN expense' \subseteq DOMAIN expense,
           expense' = [x \in DOMAIN expense' |-> expense[x]],
           archived' = archived, crossed \subseteq crossed',
           tx' = [r \in Request |-> tx'[r]],
           \A r \in Request : tx'[r] = Idle \/ Follows(tx[r], tx'[r]) \/ Fits(tx[r])'
    PROVE  WagesInv'
  <1> USE DEF WagesInv
  <1>1. \A c : Excused(c) => Excused(c)'
    BY DEF Excused
  <1>2. \A c : Usable(c) => Usable(c)'
    BY <1>1 DEF Usable
  <1>3. \A c : Unused(c) => Unused(c)'
    BY <1>1 DEF Unused
  <1>4. ASSUME NEW r \in Request, Follows(tx[r], tx'[r]) PROVE Fits(tx[r])'
    <2>1. Fits(tx[r])
      OBVIOUS
    <2>2. tx[r].kind = "edit" => EditFits(tx[r])'
      BY <1>2, <1>4, <2>1 DEF Fits, Follows, EditFits
    <2>3. tx[r].kind = "bill" => BillFits(tx[r])'
      BY <1>2, <1>4, <2>1 DEF Fits, Follows, BillFits
    <2>4. tx[r].kind = "pay" => PayFits(tx[r])'
      BY <1>2, <1>4, <2>1 DEF Fits, Follows, PayFits
    <2>5. tx[r].kind = "archive" => ArchiveFits(tx[r])'
      BY <1>3, <1>4, <2>1 DEF Fits, Follows, ArchiveFits
    <2> QED
      BY <1>4, <2>2, <2>3, <2>4, <2>5 DEF Fits, Follows
  <1>5. \A r \in Request : Fits(tx[r])'
    BY <1>4 DEF Fits
  <1>6. \A x \in DOMAIN expense' : expense'[x] = expense[x]
    OBVIOUS
  <1>7. \A x \in DOMAIN expense' : IsExpense(expense'[x])
    BY <1>6
  <1>8. SalaryBookedOnce'
    BY <1>6 DEF SalaryBookedOnce
  <1>9. LiveCategoriesActive'
    BY <1>6 DEF LiveCategoriesActive
  <1> QED
    BY <1>5, <1>7, <1>8, <1>9 DEF IsExpense

LEMMA CommitFollows ==
    ASSUME WagesInv, NEW r \in Request, NEW W, Commit(r, W)
    PROVE  /\ tx' = [s \in Request |-> tx'[s]] /\ tx'[r] = Idle
           /\ \A s \in Request : tx'[s] = Idle \/ Follows(tx[s], tx'[s])
           /\ crossed \subseteq crossed'
           /\ tx[r].stale => tx[r].reads \subseteq crossed'
           /\ \A s \in Request : tx'[s] # Idle /\ tx[s].reads \cap W # {} => tx'[s].stale
  <1>1. tx' = [Outdate(W) EXCEPT ![r] = Idle]
    BY DEF Commit
  <1>2. ASSUME NEW s \in Request, s # r
        PROVE  tx'[s] = IF tx[s] # Idle /\ tx[s].reads \cap W # {}
                        THEN [tx[s] EXCEPT !.stale = TRUE] ELSE tx[s]
    BY <1>1, <1>2 DEF Outdate
  <1>3. ASSUME NEW s \in Request, s # r, tx[s] # Idle
        PROVE  Follows(tx[s], tx'[s]) /\ (tx[s].reads \cap W # {} => tx'[s].stale)
    <2>1. DOMAIN tx[s] = SessionFields
      BY <1>3 DEF WagesInv, Fits
    <2>2. CASE tx[s].reads \cap W # {}
      <3>1. tx'[s] = [tx[s] EXCEPT !.stale = TRUE]
        BY <1>2, <1>3, <2>2
      <3> QED
        BY <1>3, <2>1, <3>1 DEF Follows, SessionFields
    <2>3. CASE tx[s].reads \cap W = {}
      <3>1. tx'[s] = tx[s]
        BY <1>2, <1>3, <2>3
      <3> QED
        BY <1>3, <2>1, <2>3, <3>1 DEF Follows
    <2> QED
      BY <2>2, <2>3
  <1>4. \A s \in Request : s # r /\ tx[s] = Idle => tx'[s] = Idle
    BY <1>2
  <1>5. tx'[r] = Idle /\ tx' = [s \in Request |-> tx'[s]]
    BY <1>1 DEF Outdate
  <1>6. crossed \subseteq crossed' /\ (tx[r].stale => tx[r].reads \subseteq crossed')
    BY DEF Commit
  <1> QED
    BY <1>3, <1>4, <1>5, <1>6
-----------------------------------------------------------------------------
(* Steps that touch no expense and archive nothing.                         *)

LEMMA BeginKeeps ==
    ASSUME WagesInv, NEW r \in Request, NEW t, Fits(t), Begin(r, t)
    PROVE  WagesInv'
  <1>1. /\ tx' = [tx EXCEPT ![r] = t]
        /\ UNCHANGED <<expense, archived, crossed>>
    BY DEF Begin, books
  <1>2. /\ tx' = [s \in Request |-> tx'[s]]
        /\ \A s \in Request : tx'[s] = t \/ tx'[s] = tx[s]
    BY <1>1 DEF WagesInv
  <1>3. \A s \in Request : Fits(tx'[s])
    BY <1>2 DEF WagesInv
  <1>4. \A s \in Request : Fits(tx[s])'
    BY <1>1, <1>3 DEF Fits, EditFits, BillFits, PayFits, ArchiveFits, Usable, Unused, Excused
  <1>5. expense' = [x \in DOMAIN expense' |-> expense[x]]
    BY <1>1 DEF WagesInv
  <1> QED
    BY <1>1, <1>2, <1>4, <1>5, Steady

\* A request about whose readings nothing is said.
LEMMA PlainFits ==
    ASSUME NEW kind, NEW reads, NEW arg, NEW seen,
           kind \notin {"edit", "bill", "pay", "archive"}
    PROVE  Fits(Session(kind, reads, arg, seen))
  BY DEF Fits, Session, SessionFields

LEMMA ContinueKeeps ==
    ASSUME WagesInv, NEW r \in Request, tx[r].kind \in {"repay", "run"}, tx[r] # Idle,
           NEW pc, NEW reads, NEW seen, Continue(r, pc, reads, seen)
    PROVE  WagesInv'
  <1>1. /\ tx' = [tx EXCEPT ![r].pc = pc, ![r].reads = @ \cup reads, ![r].seen = seen]
        /\ UNCHANGED <<expense, archived, crossed>>
    BY DEF Continue, books
  <1>2. DOMAIN tx[r] = SessionFields
    BY DEF WagesInv, Fits
  <1>3. tx' = [tx EXCEPT ![r] = [tx[r] EXCEPT !.pc = pc, !.reads = @ \cup reads, !.seen = seen]]
    BY <1>1 DEF WagesInv
  <1>4. /\ tx' = [s \in Request |-> tx'[s]]
        /\ tx'[r] = [tx[r] EXCEPT !.pc = pc, !.reads = @ \cup reads, !.seen = seen]
        /\ \A s \in Request : s # r => tx'[s] = tx[s]
    BY <1>3 DEF WagesInv
  <1>5. Follows(tx[r], tx'[r])
    BY <1>2, <1>4 DEF Follows, SessionFields
  <1>6. ASSUME NEW s \in Request, s # r PROVE tx'[s] = Idle \/ Follows(tx[s], tx'[s])
    BY <1>4, <1>6 DEF WagesInv, Fits, Follows
  <1>7. expense' = [x \in DOMAIN expense' |-> expense[x]]
    BY <1>1 DEF WagesInv
  <1> QED
    BY <1>1, <1>4, <1>5, <1>6, <1>7, Steady

LEMMA CommitKeeps ==
    ASSUME WagesInv, NEW r \in Request, NEW W, Commit(r, W), UNCHANGED <<expense, archived>>
    PROVE  WagesInv'
  <1>1. expense' = [x \in DOMAIN expense' |-> expense[x]]
    BY DEF WagesInv
  <1> QED
    BY <1>1, CommitFollows, Steady

LEMMA StutterKeeps ==
    ASSUME WagesInv, UNCHANGED <<expense, archived, tx, crossed>>
    PROVE  WagesInv'
  BY DEF WagesInv, Fits, EditFits, BillFits, PayFits, ArchiveFits, Usable, Unused, Excused,
         IsExpense, SalaryBookedOnce, LiveCategoriesActive

LEMMA AbortKeeps ==
    ASSUME WagesInv, NEW r \in Request, Abort(r)
    PROVE  WagesInv'
  <1>1. tx' = [tx EXCEPT ![r] = Idle] /\ UNCHANGED <<expense, archived, crossed>>
    BY DEF Abort, books
  <1>2. /\ tx' = [s \in Request |-> tx'[s]]
        /\ \A s \in Request : tx'[s] = Idle \/ tx'[s] = tx[s]
    BY <1>1 DEF WagesInv
  <1>3. \A s \in Request : tx'[s] = Idle \/ Follows(tx[s], tx'[s])
    BY <1>2 DEF WagesInv, Fits, Follows
  <1>4. expense' = [x \in DOMAIN expense' |-> expense[x]]
    BY <1>1 DEF WagesInv
  <1> QED
    BY <1>1, <1>2, <1>3, <1>4, Steady
-----------------------------------------------------------------------------
(* Steps about expenses.                                                    *)

LEMMA NewExpenseIsOne ==
    ASSUME NEW ref, NEW c, NEW till, NEW n, NEW k
    PROVE  /\ IsExpense(NewExpense(ref, c, till, n, k))
           /\ NewExpense(ref, c, till, n, k).category = c
  BY DEF NewExpense, IsExpense, Fields

LEMMA BillReadKeeps ==
    ASSUME WagesInv, NEW r \in Request, NEW c, NEW till, NEW n, BillRead(r, c, till, n)
    PROVE  WagesInv'
  <1> DEFINE x == NewExpense(NextReference, c, till, n, 0)
             t == Session("bill", {<<"category", c>>}, [amount |-> n], [new |-> x])
  <1>1. IsExpense(x) /\ x.category = c /\ c \notin archived
    BY NewExpenseIsOne DEF BillRead
  <1>2. /\ t.kind = "bill" /\ t.seen.new = x /\ t.reads = {<<"category", c>>}
        /\ DOMAIN t = SessionFields
    BY DEF Session, SessionFields
  <1>3. Begin(r, t)
    BY DEF BillRead
  <1> HIDE DEF t, x
  <1>4. Fits(t)
    BY <1>1, <1>2 DEF Fits, BillFits, Usable
  <1> QED
    BY <1>3, <1>4, BeginKeeps

LEMMA PayReadKeeps ==
    ASSUME WagesInv, NEW r \in Request, NEW k, NEW till, PayRead(r, k, till)
    PROVE  WagesInv'
  <1> DEFINE x == NewExpense(NextReference, Salaries, till, payroll[k].net, k)
             wake == Salaries \in archived
             seen == [booked |-> \E y \in DOMAIN expense : expense[y].payroll = k,
                      wake |-> wake, row |-> payroll[k], new |-> x]
             t == Session("pay", {<<"category", Salaries>>}, [payroll |-> k], seen)
  <1>1. IsExpense(x) /\ x.category = Salaries
    BY NewExpenseIsOne
  <1>2. /\ t.kind = "pay" /\ t.seen = seen /\ t.reads = {<<"category", Salaries>>}
        /\ DOMAIN t = SessionFields
    BY DEF Session, SessionFields
  <1>3. seen.new = x /\ seen.wake = wake
    OBVIOUS
  <1>4. Begin(r, t)
    BY DEF PayRead
  <1> HIDE DEF t, x, seen
  <1>5. Fits(t)
    BY <1>1, <1>2, <1>3 DEF Fits, PayFits, Usable
  <1> QED
    BY <1>4, <1>5, BeginKeeps

LEMMA EditReadKeeps ==
    ASSUME WagesInv, NEW r \in Request, NEW x \in DOMAIN expense, NEW new \in Edits(x),
           EditRead(r, x, new)
    PROVE  WagesInv'
  <1> DEFINE row == expense[x]
             y == [new EXCEPT !.journal = JournalOf(new)]
             t == Session("edit", {<<"expense", x>>, <<"category", new.category>>},
                          [expense |-> x], [row |-> row, new |-> y])
  <1>1. IsExpense(row)
    BY DEF WagesInv
  <1>2. IsExpense(new) /\ new.payroll = row.payroll
    BY <1>1 DEF Edits, IsExpense, Fields
  <1>3. IsExpense(y) /\ y.payroll = row.payroll /\ y.category = new.category
    BY <1>2 DEF IsExpense, Fields
  <1>4. /\ t.kind = "edit" /\ t.seen.row = row /\ t.seen.new = y
        /\ <<"category", new.category>> \in t.reads
        /\ DOMAIN t = SessionFields
    BY DEF Session, SessionFields
  <1>5. Begin(r, t) /\ (new.category # row.category => new.category \notin archived)
    BY DEF EditRead
  <1> HIDE DEF t, y, row
  <1>6. Fits(t)
    BY <1>1, <1>3, <1>4, <1>5 DEF Fits, EditFits, Usable
  <1> QED
    BY <1>5, <1>6, BeginKeeps

LEMMA ArchiveReadKeeps ==
    ASSUME WagesInv, NEW r \in Request, NEW c, ArchiveRead(r, c)
    PROVE  WagesInv'
  <1> DEFINE t == Session("archive", {<<"category", c>>, <<"uses", c>>}, [category |-> c], None)
  <1>1. /\ t.kind = "archive" /\ t.arg.category = c
        /\ t.reads = {<<"category", c>>, <<"uses", c>>}
        /\ DOMAIN t = SessionFields
    BY DEF Session, SessionFields
  <1>2. Begin(r, t) /\ Unused(c)
    BY DEF ArchiveRead, Uses, Unused
  <1> HIDE DEF t
  <1>3. Fits(t)
    BY <1>1, <1>2 DEF Fits, ArchiveFits
  <1> QED
    BY <1>2, <1>3, BeginKeeps

LEMMA RemovalKeeps ==
    ASSUME WagesInv, NEW r \in Request, DeleteCommit(r) \/ ClearCommit(r)
    PROVE  WagesInv'
  <1>1. /\ DOMAIN expense' \subseteq DOMAIN expense
        /\ expense' = [x \in DOMAIN expense' |-> expense[x]]
        /\ archived' = archived
    BY DEF DeleteCommit, ClearCommit, Without
  <1>2. \E W : Commit(r, W)
    BY DEF DeleteCommit, ClearCommit
  <1> QED
    BY <1>1, <1>2, CommitFollows, Steady

\* A commit that may add one use of a category, by a request that read it, and
\* may make the category usable again.
LEMMA UseKeeps ==
    ASSUME WagesInv, NEW r \in Request, NEW W, Commit(r, W), NEW c,
           <<"uses", c>> \in W,
           archived' \subseteq archived,
           expense' = [x \in DOMAIN expense' |-> expense'[x]],
           \A x \in DOMAIN expense' : IsExpense(expense'[x]),
           \A x \in DOMAIN expense' :
               \/ expense'[x].category = c /\ (c \notin archived' \/ Excused(c)')
               \/ x \in DOMAIN expense /\ expense'[x].category = expense[x].category,
           SalaryBookedOnce'
    PROVE  WagesInv'
  <1> USE DEF WagesInv
  <1>1. \A d : Excused(d) => Excused(d)'
    BY CommitFollows DEF Excused
  <1>2. \A d : Usable(d) => Usable(d)'
    BY <1>1 DEF Usable
  <1>3. \A d : d # c /\ Unused(d) => Unused(d)'
    BY <1>1 DEF Unused
  <1>4. LiveCategoriesActive'
    BY <1>1 DEF LiveCategoriesActive, Excused
  <1>5. ASSUME NEW s \in Request, Follows(tx[s], tx'[s]), tx'[s] # Idle PROVE Fits(tx[s])'
    <2>1. Fits(tx[s])
      OBVIOUS
    <2>2. tx[s].kind = "edit" => EditFits(tx[s])'
      BY <1>2, <1>5, <2>1 DEF Fits, Follows, EditFits
    <2>3. tx[s].kind = "bill" => BillFits(tx[s])'
      BY <1>2, <1>5, <2>1 DEF Fits, Follows, BillFits
    <2>4. tx[s].kind = "pay" => PayFits(tx[s])'
      BY <1>2, <1>5, <2>1 DEF Fits, Follows, PayFits
    <2>5. ASSUME tx[s].kind = "archive" PROVE ArchiveFits(tx[s])'
      <3>1. ArchiveFits(tx[s]) /\ tx'[s].arg = tx[s].arg /\ tx[s].reads \subseteq tx'[s].reads
        BY <1>5, <2>1, <2>5 DEF Fits, Follows
      <3>2. CASE tx[s].arg.category = c
        <4>1. tx[s].reads \cap W # {}
          BY <3>1, <3>2 DEF ArchiveFits
        <4>2. tx'[s].stale
          BY <1>5, <4>1, CommitFollows
        <4> QED
          BY <3>1, <4>2 DEF ArchiveFits
      <3>3. CASE tx[s].arg.category # c
        BY <1>3, <1>5, <3>1, <3>3 DEF ArchiveFits, Follows
      <3> QED
        BY <3>2, <3>3
    <2> QED
      BY <1>5, <2>2, <2>3, <2>4, <2>5 DEF Fits, Follows
  <1>6. \A s \in Request : Fits(tx[s])'
    BY <1>5, CommitFollows DEF Fits
  <1> QED
    BY <1>4, <1>6, CommitFollows DEF IsExpense

\* What inserting an expense leaves.
LEMMA InsertKeeps ==
    ASSUME WagesInv, NEW x, IsExpense(x), InsertExpense(x)
    PROVE  /\ expense' = [y \in DOMAIN expense' |-> expense'[y]]
           /\ \A y \in DOMAIN expense' : IsExpense(expense'[y])
           /\ \A y \in DOMAIN expense' :
                 \/ expense'[y].category = x.category
                 \/ y \in DOMAIN expense /\ expense'[y].category = expense[y].category
           /\ SalaryBookedOnce'
  <1> DEFINE i == last["expense"] + 1
  <1>1. expense' = [y \in DOMAIN expense \cup {i} |-> IF y = i THEN x ELSE expense[y]]
    BY DEF InsertExpense, Insert
  <1>2. Free(x)
    BY DEF InsertExpense
  <1> HIDE DEF i
  <1>3. /\ DOMAIN expense' = DOMAIN expense \cup {i} /\ expense'[i] = x
        /\ \A y \in DOMAIN expense' : y # i => y \in DOMAIN expense /\ expense'[y] = expense[y]
    BY <1>1
  <1>4. SalaryBookedOnce'
    <2> SUFFICES ASSUME NEW y \in DOMAIN expense', NEW z \in DOMAIN expense',
                        expense'[y].payroll = expense'[z].payroll, expense'[y].payroll # 0
                 PROVE  y = z
      BY DEF SalaryBookedOnce
    <2>1. CASE y # i /\ z # i
      BY <1>3, <2>1 DEF WagesInv, SalaryBookedOnce
    <2>2. CASE y = i /\ z # i
      BY <1>2, <1>3, <2>2 DEF Free
    <2>3. CASE y # i /\ z = i
      BY <1>2, <1>3, <2>3 DEF Free
    <2> QED
      BY <2>1, <2>2, <2>3
  <1> QED
    BY <1>1, <1>3, <1>4 DEF WagesInv

LEMMA BillCommitKeeps ==
    ASSUME WagesInv, NEW r \in Request, BillCommit(r)
    PROVE  WagesInv'
  <1> PICK x, c : x = tx[r].seen.new /\ c = x.category
    OBVIOUS
  <1> DEFINE W == {<<"uses", c>>}
  <1>1. BillFits(tx[r])
    BY DEF BillCommit, At, WagesInv, Fits
  <1>2. Commit(r, W) /\ InsertExpense(x) /\ archived' = archived
    BY DEF BillCommit
  <1>3. c \notin archived' \/ Excused(c)'
    <2>1. CASE tx[r].stale
      <3>1. <<"category", c>> \in crossed'
        BY <1>1, <1>2, <2>1, CommitFollows DEF BillFits
      <3> QED
        BY <3>1 DEF Excused
    <2>2. CASE Usable(c)
      BY <1>2, <2>2, CommitFollows DEF Usable, Excused
    <2> QED
      BY <1>1, <2>1, <2>2 DEF BillFits
  <1>4. IsExpense(x) /\ <<"uses", c>> \in W /\ c = x.category
    BY <1>1 DEF BillFits
  <1> HIDE DEF W
  <1>5. /\ expense' = [y \in DOMAIN expense' |-> expense'[y]]
        /\ \A y \in DOMAIN expense' : IsExpense(expense'[y])
        /\ \A y \in DOMAIN expense' :
              \/ expense'[y].category = c
              \/ y \in DOMAIN expense /\ expense'[y].category = expense[y].category
        /\ SalaryBookedOnce'
    BY <1>2, <1>4, InsertKeeps
  <1> QED
    BY <1>2, <1>3, <1>4, <1>5, UseKeeps

LEMMA PayCommitKeeps ==
    ASSUME WagesInv, NEW r \in Request, PayCommit(r)
    PROVE  WagesInv'
  <1> DEFINE x == tx[r].seen.new
  <1>1. PayFits(tx[r])
    BY DEF PayCommit, At, WagesInv, Fits
  <1>2. CASE tx[r].seen.booked
    <2>1. Commit(r, {}) /\ UNCHANGED <<expense, archived>>
      BY <1>2 DEF PayCommit
    <2> QED
      BY <2>1, CommitKeeps
  <1>3. CASE ~tx[r].seen.booked
    <2> DEFINE W == {<<"uses", Salaries>>}
    <2>1. /\ Commit(r, W) /\ InsertExpense(x)
          /\ archived' = IF tx[r].seen.wake THEN archived \ {Salaries} ELSE archived
      BY <1>3 DEF PayCommit
    <2>2. Salaries \notin archived' \/ Excused(Salaries)'
      BY <1>1, <2>1, CommitFollows DEF PayFits, Usable, Excused
    <2>3. IsExpense(x) /\ x.category = Salaries /\ <<"uses", Salaries>> \in W
      BY <1>1 DEF PayFits
    <2>4. archived' \subseteq archived
      BY <2>1
    <2> HIDE DEF x, W
    <2> QED
      BY <2>1, <2>2, <2>3, <2>4, InsertKeeps, UseKeeps
  <1> QED
    BY <1>2, <1>3

LEMMA EditCommitKeeps ==
    ASSUME WagesInv, NEW r \in Request, EditCommit(r)
    PROVE  WagesInv'
  <1> PICK x, row, new, c : /\ x = tx[r].arg.expense /\ row = tx[r].seen.row
                            /\ new = tx[r].seen.new /\ c = new.category
    OBVIOUS
  <1> DEFINE W == {<<"expense", x>>, <<"uses", c>>}
             y == [Flushed(expense[x], row, new) EXCEPT !.journal = new.journal]
  <1>1. EditFits(tx[r])
    BY DEF EditCommit, At, WagesInv, Fits
  <1>2. /\ x \in DOMAIN expense /\ Commit(r, W) /\ archived' = archived
        /\ expense' = [expense EXCEPT ![x] = y]
    BY DEF EditCommit
  <1>3. /\ new.payroll = row.payroll /\ IsExpense(expense[x])
    BY <1>1, <1>2 DEF EditFits, WagesInv
  <1>4. /\ IsExpense(y) /\ y.payroll = expense[x].payroll
        /\ y.category = IF c = row.category THEN expense[x].category ELSE c
    BY <1>3 DEF Flushed, IsExpense, Fields
  <1>5. <<"uses", c>> \in W /\ <<"category", c>> \in tx[r].reads
    BY <1>1 DEF EditFits
  <1>6. tx[r].stale \/ c = row.category \/ Usable(c)
    BY <1>1 DEF EditFits
  <1> HIDE DEF W, y
  <1>7. /\ DOMAIN expense' = DOMAIN expense /\ expense'[x] = y
        /\ \A z \in DOMAIN expense : z # x => expense'[z] = expense[z]
        /\ expense' = [z \in DOMAIN expense' |-> expense'[z]]
    BY <1>2 DEF WagesInv
  <1>8. SalaryBookedOnce' /\ \A z \in DOMAIN expense' : IsExpense(expense'[z])
    <2>1. \A z \in DOMAIN expense : expense'[z].payroll = expense[z].payroll
      BY <1>4, <1>7
    <2> QED
      BY <1>4, <1>7, <2>1 DEF SalaryBookedOnce, WagesInv
  <1>9. \A z \in DOMAIN expense' :
            \/ expense'[z].category = c /\ (c \notin archived' \/ Excused(c)')
            \/ z \in DOMAIN expense /\ expense'[z].category = expense[z].category
    <2>1. CASE c # row.category
      <3>1. c \notin archived' \/ Excused(c)'
        <4>1. CASE tx[r].stale
          <5>1. <<"category", c>> \in crossed'
            BY <1>2, <1>5, <4>1, CommitFollows
          <5> QED
            BY <5>1 DEF Excused
        <4>2. CASE Usable(c)
          BY <1>2, <4>2, CommitFollows DEF Usable, Excused
        <4> QED
          BY <1>6, <2>1, <4>1, <4>2
      <3> QED
        BY <1>4, <1>7, <2>1, <3>1
    <2>2. CASE c = row.category
      BY <1>4, <1>7, <2>2
    <2> QED
      BY <2>1, <2>2
  <1>10. archived' \subseteq archived /\ Commit(r, W)
    BY <1>2
  <1>11. expense' = [z \in DOMAIN expense' |-> expense'[z]]
    BY <1>7
  <1>12. <<"uses", c>> \in W
    BY <1>5
  <1> QED
    BY <1>8, <1>9, <1>10, <1>11, <1>12, UseKeeps

LEMMA ArchiveCommitKeeps ==
    ASSUME WagesInv, NEW r \in Request, ArchiveCommit(r)
    PROVE  WagesInv'
  <1> PICK c : c = tx[r].arg.category
    OBVIOUS
  <1> DEFINE W == {<<"category", c>>}
  <1> USE DEF WagesInv
  <1>1. ArchiveFits(tx[r])
    BY DEF ArchiveCommit, At, Fits
  <1>2. Commit(r, W) /\ archived' = archived \cup {c} /\ expense' = expense
    BY DEF ArchiveCommit
  <1>3. {<<"category", c>>, <<"uses", c>>} \subseteq tx[r].reads /\ (tx[r].stale \/ Unused(c))
    BY <1>1 DEF ArchiveFits
  <1>4. <<"category", c>> \in W
    OBVIOUS
  <1> HIDE DEF W
  <1>5. \A d : Excused(d) => Excused(d)'
    BY <1>2, CommitFollows DEF Excused
  <1>6. \A d : Unused(d) => Unused(d)'
    BY <1>2, <1>5 DEF Unused
  <1>7. \A d : d # c /\ Usable(d) => Usable(d)'
    BY <1>2, <1>5 DEF Usable
  <1>8. LiveCategoriesActive'
    <2>1. Excused(c)' \/ \A x \in DOMAIN expense : expense[x].category # c
      <3>1. CASE tx[r].stale
        <4>1. <<"category", c>> \in crossed'
          BY <1>2, <1>3, <3>1, CommitFollows
        <4> QED
          BY <4>1 DEF Excused
      <3>2. CASE Unused(c)
        BY <1>5, <3>2 DEF Unused
      <3> QED
        BY <1>3, <3>1, <3>2
    <2>2. crossed \subseteq crossed'
      BY <1>2, CommitFollows
    <2> QED
      BY <1>2, <2>1, <2>2 DEF LiveCategoriesActive, Excused
  <1>9. ASSUME NEW s \in Request, Follows(tx[s], tx'[s]), tx'[s] # Idle PROVE Fits(tx[s])'
    <2>1. Fits(tx[s]) /\ tx[s] # Idle
      BY <1>9 DEF Follows
    <2>2. <<"category", c>> \in tx[s].reads => tx'[s].stale
      BY <1>2, <1>4, <1>9, CommitFollows
    <2>3. tx[s].kind = "edit" => EditFits(tx[s])'
      BY <1>7, <1>9, <2>1, <2>2 DEF Fits, Follows, EditFits
    <2>4. tx[s].kind = "bill" => BillFits(tx[s])'
      BY <1>7, <1>9, <2>1, <2>2 DEF Fits, Follows, BillFits
    <2>5. tx[s].kind = "pay" => PayFits(tx[s])'
      BY <1>7, <1>9, <2>1, <2>2 DEF Fits, Follows, PayFits
    <2>6. tx[s].kind = "archive" => ArchiveFits(tx[s])'
      BY <1>6, <1>9, <2>1 DEF Fits, Follows, ArchiveFits
    <2> QED
      BY <1>9, <2>3, <2>4, <2>5, <2>6 DEF Fits, Follows
  <1>10. \A s \in Request : Fits(tx[s])'
    BY <1>2, <1>9, CommitFollows DEF Fits
  <1> QED
    BY <1>2, <1>8, <1>10, CommitFollows DEF IsExpense, SalaryBookedOnce
-----------------------------------------------------------------------------
LEMMA WagesInvInit == Init => WagesInv
  <1> SUFFICES ASSUME Init PROVE WagesInv
    OBVIOUS
  <1>1. DOMAIN expense = {} /\ expense = [x \in DOMAIN expense |-> expense[x]]
    BY DEF Init, None
  <1>2. \A r \in Request : tx[r] = Idle
    BY DEF Init
  <1>3. tx = [r \in Request |-> tx[r]]
    BY DEF Init
  <1> QED
    BY <1>1, <1>2, <1>3 DEF WagesInv, Fits, SalaryBookedOnce, LiveCategoriesActive

\* Loans and payroll: none of it is about expenses or their categories.
LEMMA HrKeeps ==
    ASSUME WagesInv, NEW r \in Request,
           \/ \E l \in DOMAIN loan, n \in Instalment : RepayRead(r, l, n)
           \/ RepayFlush(r) \/ RepayCommit(r)
           \/ \E l \in DOMAIN loan, admin \in BOOLEAN : CancelRead(r, l, admin)
           \/ CancelCommit(r)
           \/ \E e \in Employee, p \in Period, b \in {{}} \cup {{n} : n \in Amount},
                 n \in Instalment \cup {0} : RunRead(r, e, p, b, n)
           \/ RunCheck(r) \/ RunLoans(r) \/ RunCommit(r)
           \/ \E k \in DOMAIN payroll, b \in Amount \cup {0}, m \in Amount \cup {0} :
                 UpdateRead(r, k, b, m)
           \/ UpdateCommit(r)
    PROVE  WagesInv'
  <1>1. ASSUME NEW l, NEW n, RepayRead(r, l, n) PROVE WagesInv'
    BY <1>1, PlainFits, BeginKeeps DEF RepayRead
  <1>2. ASSUME NEW l, NEW admin, CancelRead(r, l, admin) PROVE WagesInv'
    BY <1>2, PlainFits, BeginKeeps DEF CancelRead
  <1>3. ASSUME NEW e, NEW p, NEW b, NEW n, RunRead(r, e, p, b, n) PROVE WagesInv'
    BY <1>3, PlainFits, BeginKeeps DEF RunRead
  <1>4. ASSUME NEW k, NEW b, NEW m, UpdateRead(r, k, b, m) PROVE WagesInv'
    BY <1>4, PlainFits, BeginKeeps DEF UpdateRead
  <1>5. CASE RepayFlush(r)
    BY <1>5, ContinueKeeps DEF RepayFlush, At
  <1>6. CASE RunCheck(r)
    BY <1>6, ContinueKeeps DEF RunCheck, At
  <1>7. CASE RunLoans(r)
    BY <1>7, ContinueKeeps DEF RunLoans, At
  <1>8. CASE RepayCommit(r)
    BY <1>8, CommitKeeps DEF RepayCommit
  <1>9. CASE CancelCommit(r)
    BY <1>9, CommitKeeps DEF CancelCommit
  <1>10. CASE RunCommit(r)
    BY <1>10, CommitKeeps DEF RunCommit
  <1>11. CASE UpdateCommit(r)
    BY <1>11, CommitKeeps DEF UpdateCommit
  <1> QED
    BY <1>1, <1>2, <1>3, <1>4, <1>5, <1>6, <1>7, <1>8, <1>9, <1>10, <1>11

LEMMA ExpensesKeep ==
    ASSUME WagesInv, NEW r \in Request,
           \/ \E c \in Category, till \in Till, n \in Amount : BillRead(r, c, till, n)
           \/ BillCommit(r)
           \/ \E k \in DOMAIN payroll, till \in Till : PayRead(r, k, till)
           \/ PayCommit(r)
           \/ \E x \in DOMAIN expense : \E new \in Edits(x) : EditRead(r, x, new)
           \/ EditCommit(r)
           \/ \E x \in DOMAIN expense : DeleteRead(r, x)
           \/ DeleteCommit(r)
           \/ \E c \in Category : ArchiveRead(r, c)
           \/ ArchiveCommit(r)
           \/ ClearRead(r)
           \/ ClearCommit(r)
    PROVE  WagesInv'
  <1>1. ASSUME NEW x, DeleteRead(r, x) PROVE WagesInv'
    BY <1>1, PlainFits, BeginKeeps DEF DeleteRead
  <1>2. CASE ClearRead(r)
    BY <1>2, PlainFits, BeginKeeps DEF ClearRead
  <1> QED
    BY <1>1, <1>2, BillReadKeeps, BillCommitKeeps, PayReadKeeps, PayCommitKeeps,
       EditReadKeeps, EditCommitKeeps, RemovalKeeps, ArchiveReadKeeps, ArchiveCommitKeeps

LEMMA WagesInvStep == WagesInv /\ [Next]_vars => WagesInv'
  <1> SUFFICES ASSUME WagesInv, [Next]_vars PROVE WagesInv'
    OBVIOUS
  <1>1. ASSUME NEW e, NEW n, CreateLoan(e, n) PROVE WagesInv'
    BY <1>1, StutterKeeps DEF CreateLoan, Alone
  <1>2. ASSUME NEW e, NEW p, NEW kind, NEW n, CreateDeduction(e, p, kind, n) PROVE WagesInv'
    BY <1>2, StutterKeeps DEF CreateDeduction, Alone
  <1>3. ASSUME NEW e, Deactivate(e) PROVE WagesInv'
    BY <1>3, StutterKeeps DEF Deactivate, Alone
  <1>4. CASE UNCHANGED vars
    BY <1>4, StutterKeeps DEF vars, books
  <1>5. CASE Next
    BY <1>1, <1>2, <1>3, <1>5, HrKeeps, ExpensesKeep, AbortKeeps DEF Next
  <1> QED
    BY <1>4, <1>5

LEMMA WagesInvHolds == Spec => []WagesInv
  <1> QED
    BY WagesInvInit, WagesInvStep, PTL DEF Spec

\* Whatever requests overlap, edits included, no two expenses book the salary of
\* one payroll (models/expense.py:40, hr.py:1290-1344).
THEOREM SalariesBookedOnce == Spec => []SalaryBookedOnce
  BY WagesInvHolds, PTL DEF WagesInv

\* No live expense hangs on an archived category unless requests crossed on it:
\* bills, payments of salaries and edits check the category, archiving checks the
\* expenses, each before it commits (expense_service.py:239-247, 367-405, 501-541).
THEOREM CategoriesInUseActive == Spec => []LiveCategoriesActive
  BY WagesInvHolds, PTL DEF WagesInv
-----------------------------------------------------------------------------
(* Types: the tables' rows, and what a request carries from its readings.   *)

Tables == {"loan", "deduction", "payroll", "expense"}
RowIds == 1..MaxRow

\* Tables are functions from ids that their sequences have handed out.
LoanTable ==
    /\ loan \in [DOMAIN loan -> Loan] /\ repaid \in [DOMAIN loan -> Nat]
    /\ DOMAIN loan \subseteq 1..last["loan"]
DeductionTable ==
    deduction \in [DOMAIN deduction -> Deduction] /\ DOMAIN deduction \subseteq 1..last["deduction"]
PayrollTable ==
    /\ payroll \in [DOMAIN payroll -> Payroll] /\ taken \in [DOMAIN payroll -> Nat]
    /\ DOMAIN payroll \subseteq 1..last["payroll"]
ExpenseTable ==
    /\ expense \in [DOMAIN expense -> Expense] /\ DOMAIN expense \subseteq 1..last["expense"]
    /\ posted \in [Category \cup Till -> Int]
Counters ==
    /\ last \in [Tables -> 0..MaxRow] /\ asked \in 0..MaxRequest
    /\ staff \in [Employee -> {"active", "inactive", "gone"}] /\ archived \subseteq Category

RowsTyped == LoanTable /\ DeductionTable /\ PayrollTable /\ ExpenseTable /\ Counters

\* What a request carries, by its kind.
RepayTyped(t) ==
    /\ t.arg.loan \in RowIds /\ t.arg.amount \in Nat \ {0}
    /\ t.seen.row \in Loan
    /\ t.pc = "flushed" => t.seen.status \in {"open", "paid"}

CancelTyped(t) == t.arg.loan \in RowIds /\ t.seen.row \in Loan

RunTyped(t) ==
    /\ t.arg.emp \in Employee /\ t.arg.period \in Period
    /\ t.arg.bonus = {} \/ \E b \in Amount : t.arg.bonus = {b}
    /\ t.arg.amount \in Nat
    /\ DOMAIN t.seen = {"old", "pending", "day", "manual", "open"}
    /\ t.seen.day \in Nat /\ t.seen.manual \in Nat
    /\ t.seen.old \subseteq RowIds \X Payroll
    /\ \A o, q \in t.seen.old : o = q
    /\ \A o \in t.seen.old : o[2].emp = t.arg.emp /\ o[2].period = t.arg.period
    /\ t.seen.pending \subseteq RowIds
    /\ t.seen.open \in [DOMAIN t.seen.open -> Int] /\ DOMAIN t.seen.open \subseteq RowIds

UpdateTyped(t) ==
    /\ t.arg.payroll \in RowIds /\ t.arg.bonus \in Nat /\ t.arg.manual \in Nat
    /\ t.seen.row \in Payroll

BillTyped(t) == t.seen.new \in Expense /\ t.seen.new.journal = JournalOf(t.seen.new)
PayTyped(t) == t.arg.payroll \in RowIds /\ BillTyped(t)
DeleteTyped(t) == t.arg.expense \in RowIds /\ t.seen.row \in Expense
EditTyped(t) == DeleteTyped(t) /\ BillTyped(t)
ClearTyped(t) ==
    /\ t.seen.journals \subseteq RowIds \X Journal
    /\ \A i, j \in t.seen.journals : i[1] = j[1] => i = j
ArchiveTyped(t) == t.arg.category \in Category

Carries(t) ==
    t # Idle =>
        /\ DOMAIN t = SessionFields
        /\ t.kind = "repay" => RepayTyped(t)
        /\ t.kind = "cancel" => CancelTyped(t)
        /\ t.kind = "run" => RunTyped(t)
        /\ t.kind = "update" => UpdateTyped(t)
        /\ t.kind = "bill" => BillTyped(t)
        /\ t.kind = "pay" => PayTyped(t)
        /\ t.kind = "edit" => EditTyped(t)
        /\ t.kind = "delete" => DeleteTyped(t)
        /\ t.kind = "archive" => ArchiveTyped(t)
        /\ t.kind = "clear" => ClearTyped(t)

TypedInv ==
    /\ RowsTyped
    /\ tx = [r \in Request |-> tx[r]]
    /\ \A r \in Request : Carries(tx[r])


-----------------------------------------------------------------------------
(* How the requests move.                                                   *)

\* Another request's step leaves a request as it was, but for being stale.
Stays(t, u) ==
    /\ t # Idle /\ DOMAIN u = SessionFields
    /\ u.kind = t.kind /\ u.pc = t.pc /\ u.reads = t.reads /\ u.arg = t.arg /\ u.seen = t.seen
    /\ t.stale => u.stale

Moved(r) ==
    /\ tx' = [s \in Request |-> tx'[s]]
    /\ \A s \in Request : s # r => tx'[s] = Idle \/ Stays(tx[s], tx'[s])

LEMMA SessionIs ==
    ASSUME NEW kind, NEW reads, NEW arg, NEW seen, NEW t, t = Session(kind, reads, arg, seen)
    PROVE  /\ DOMAIN t = SessionFields /\ t.kind = kind /\ t.pc = "read" /\ t.stale = FALSE
           /\ t.reads = reads /\ t.arg = arg /\ t.seen = seen
  BY DEF Session, SessionFields

LEMMA Itself ==
    ASSUME NEW t, t # Idle, Carries(t)
    PROVE  Stays(t, t)
  BY DEF Carries, Stays

LEMMA BeginMoves ==
    ASSUME TypedInv, NEW r \in Request, NEW t, Begin(r, t)
    PROVE  /\ Moved(r) /\ tx'[r] = t /\ crossed' = crossed
           /\ asked' \in 0..MaxRequest
           /\ UNCHANGED books
  <1>1. tx' = [tx EXCEPT ![r] = t] /\ crossed' = crossed
        /\ asked < MaxRequest /\ asked' = asked + 1
        /\ UNCHANGED books
    BY DEF Begin
  <1>2. /\ tx' = [s \in Request |-> tx'[s]] /\ tx'[r] = t
        /\ \A s \in Request : s # r => tx'[s] = tx[s]
    BY <1>1 DEF TypedInv
  <1>3. \A s \in Request : tx[s] = Idle \/ Stays(tx[s], tx[s])
    BY Itself DEF TypedInv
  <1>4. asked' \in 0..MaxRequest
    BY <1>1, WagesConstants DEF TypedInv, RowsTyped, Counters
  <1> QED
    BY <1>1, <1>2, <1>3, <1>4 DEF Moved

LEMMA ContinueMoves ==
    ASSUME TypedInv, NEW r \in Request, tx[r] # Idle, NEW pc, NEW reads, NEW seen,
           Continue(r, pc, reads, seen)
    PROVE  /\ Moved(r) /\ crossed' = crossed /\ asked' = asked /\ UNCHANGED books
           /\ tx'[r] # Idle /\ DOMAIN tx'[r] = SessionFields
           /\ tx'[r].kind = tx[r].kind /\ tx'[r].pc = pc /\ tx'[r].seen = seen
           /\ tx'[r].arg = tx[r].arg /\ tx'[r].stale = tx[r].stale
           /\ tx'[r].reads = tx[r].reads \cup reads
  <1>1. /\ tx' = [tx EXCEPT ![r].pc = pc, ![r].reads = @ \cup reads, ![r].seen = seen]
        /\ UNCHANGED <<books, asked, crossed>>
    BY DEF Continue
  <1>2. DOMAIN tx[r] = SessionFields
    BY DEF TypedInv, Carries
  <1>3. tx' = [tx EXCEPT ![r] = [tx[r] EXCEPT !.pc = pc, !.reads = @ \cup reads, !.seen = seen]]
    BY <1>1 DEF TypedInv
  <1>4. /\ tx' = [s \in Request |-> tx'[s]]
        /\ tx'[r] = [tx[r] EXCEPT !.pc = pc, !.reads = @ \cup reads, !.seen = seen]
        /\ \A s \in Request : s # r => tx'[s] = tx[s]
    BY <1>3 DEF TypedInv
  <1>5. /\ DOMAIN tx'[r] = SessionFields
        /\ tx'[r].kind = tx[r].kind /\ tx'[r].pc = pc /\ tx'[r].seen = seen
        /\ tx'[r].arg = tx[r].arg /\ tx'[r].stale = tx[r].stale
        /\ tx'[r].reads = tx[r].reads \cup reads
    BY <1>2, <1>4 DEF SessionFields
  <1>6. tx'[r] # Idle
    <2>1. "pc" \in DOMAIN tx'[r] /\ "pc" \notin DOMAIN Idle
      BY <1>5 DEF SessionFields, Idle
    <2> QED
      BY <2>1
  <1>7. \A s \in Request : tx[s] = Idle \/ Stays(tx[s], tx[s])
    BY Itself DEF TypedInv
  <1> QED
    BY <1>1, <1>4, <1>5, <1>6, <1>7 DEF Moved

LEMMA CommitMoves ==
    ASSUME TypedInv, NEW r \in Request, NEW W, Commit(r, W)
    PROVE  /\ Moved(r) /\ tx'[r] = Idle /\ asked' = asked
           /\ crossed \subseteq crossed'
           /\ tx[r].stale => tx[r].reads \subseteq crossed'
           /\ ~tx[r].stale => crossed' = crossed
           /\ \A s \in Request : tx'[s] # Idle /\ tx[s].reads \cap W # {} => tx'[s].stale
  <1>1. tx' = [Outdate(W) EXCEPT ![r] = Idle]
    BY DEF Commit
  <1>2. ASSUME NEW s \in Request, s # r
        PROVE  tx'[s] = IF tx[s] # Idle /\ tx[s].reads \cap W # {}
                        THEN [tx[s] EXCEPT !.stale = TRUE] ELSE tx[s]
    BY <1>1, <1>2 DEF Outdate
  <1>3. ASSUME NEW s \in Request, s # r, tx[s] # Idle
        PROVE  Stays(tx[s], tx'[s]) /\ (tx[s].reads \cap W # {} => tx'[s].stale)
    <2>1. DOMAIN tx[s] = SessionFields
      BY <1>3 DEF TypedInv, Carries
    <2>2. CASE tx[s].reads \cap W # {}
      <3>1. tx'[s] = [tx[s] EXCEPT !.stale = TRUE]
        BY <1>2, <1>3, <2>2
      <3> QED
        BY <1>3, <2>1, <3>1 DEF Stays, SessionFields
    <2>3. CASE tx[s].reads \cap W = {}
      <3>1. tx'[s] = tx[s]
        BY <1>2, <1>3, <2>3
      <3> QED
        BY <1>3, <2>1, <2>3, <3>1 DEF Stays
    <2> QED
      BY <2>2, <2>3
  <1>4. \A s \in Request : s # r /\ tx[s] = Idle => tx'[s] = Idle
    BY <1>2
  <1>5. tx'[r] = Idle /\ tx' = [s \in Request |-> tx'[s]]
    BY <1>1 DEF Outdate
  <1>6. /\ crossed \subseteq crossed' /\ (tx[r].stale => tx[r].reads \subseteq crossed')
        /\ (~tx[r].stale => crossed' = crossed) /\ asked' = asked
    BY DEF Commit
  <1> QED
    BY <1>3, <1>4, <1>5, <1>6 DEF Moved

LEMMA AbortMoves ==
    ASSUME TypedInv, NEW r \in Request, Abort(r)
    PROVE  /\ Moved(r) /\ tx'[r] = Idle /\ crossed' = crossed /\ asked' = asked
           /\ UNCHANGED books
  <1>1. tx' = [tx EXCEPT ![r] = Idle] /\ UNCHANGED <<books, asked, crossed>>
    BY DEF Abort
  <1>2. /\ tx' = [s \in Request |-> tx'[s]] /\ tx'[r] = Idle
        /\ \A s \in Request : s # r => tx'[s] = tx[s]
    BY <1>1 DEF TypedInv
  <1>3. \A s \in Request : tx[s] = Idle \/ Stays(tx[s], tx[s])
    BY Itself DEF TypedInv
  <1> QED
    BY <1>1, <1>2, <1>3 DEF Moved

LEMMA IdleCarries == Carries(Idle)
  BY DEF Carries

LEMMA StaysCarries ==
    ASSUME NEW t, NEW u, Carries(t), Stays(t, u)
    PROVE  Carries(u)
  <1>1. /\ t # Idle /\ DOMAIN u = SessionFields
        /\ u.kind = t.kind /\ u.pc = t.pc /\ u.arg = t.arg /\ u.seen = t.seen
    BY DEF Stays
  <1> QED
    BY <1>1 DEF Carries, RepayTyped, CancelTyped, RunTyped, UpdateTyped, BillTyped, PayTyped,
                EditTyped, DeleteTyped, ArchiveTyped, ClearTyped

LEMMA SessionsCarry ==
    ASSUME TypedInv, NEW r \in Request, Moved(r), Carries(tx'[r]), RowsTyped'
    PROVE  TypedInv'
  <1>1. ASSUME NEW s \in Request PROVE Carries(tx'[s])
    <2>1. CASE s = r
      BY <2>1
    <2>2. CASE s # r
      BY <2>2, IdleCarries, StaysCarries DEF Moved, TypedInv
    <2> QED
      BY <2>1, <2>2
  <1> QED
    BY <1>1 DEF TypedInv, Moved
-----------------------------------------------------------------------------
(* Rows.                                                                    *)

LEMMA Inserted ==
    ASSUME NEW S, NEW rows, rows \in [DOMAIN rows -> S], NEW i, NEW d \in S
    PROVE  /\ Insert(rows, i, d) \in [DOMAIN rows \cup {i} -> S]
           /\ DOMAIN Insert(rows, i, d) = DOMAIN rows \cup {i}
           /\ Insert(rows, i, d)[i] = d
           /\ \A x \in DOMAIN rows : x # i => Insert(rows, i, d)[x] = rows[x]
  BY DEF Insert

LEMMA Removed ==
    ASSUME NEW S, NEW rows, rows \in [DOMAIN rows -> S], NEW R
    PROVE  /\ Without(rows, R) \in [DOMAIN rows \ R -> S]
           /\ DOMAIN Without(rows, R) = DOMAIN rows \ R
           /\ \A x \in DOMAIN rows \ R : Without(rows, R)[x] = rows[x]
  BY DEF Without

LEMMA Counted ==
    ASSUME NEW f, NEW t, NEW n \in 1..MaxRow, f \in [Tables -> 0..MaxRow]
    PROVE  [f EXCEPT ![t] = n] \in [Tables -> 0..MaxRow]
  <1>1. n \in 0..MaxRow
    BY WagesConstants
  <1> QED
    BY <1>1

\* A session that sets the status of a loan writes it when it differs from the
\* one it read.
LEMMA LoanFlushed ==
    ASSUME NEW now \in Loan, NEW row \in Loan, NEW new \in Loan,
           new.emp = row.emp, new.amount = row.amount, NEW x, x = Flushed(now, row, new)
    PROVE  /\ x \in Loan /\ x.emp = now.emp /\ x.amount = now.amount
           /\ x.status = IF new.status = row.status THEN now.status ELSE new.status
  <1>1. DOMAIN now = {"emp", "amount", "status"} /\ DOMAIN row = {"emp", "amount", "status"}
    BY DEF Loan
  <1>2. now = [c \in DOMAIN now |-> now[c]]
    BY DEF Loan
  <1>4. x = [c \in {"emp", "amount", "status"} |-> IF new[c] = row[c] THEN now[c] ELSE new[c]]
    BY <1>1 DEF Flushed
  <1>5. /\ x.emp = now.emp /\ x.amount = now.amount
        /\ x.status = IF new.status = row.status THEN now.status ELSE new.status
    BY <1>4
  <1>6. x = [emp |-> x.emp, amount |-> x.amount, status |-> x.status]
    BY <1>4
  <1>7. x \in Loan
    BY <1>5, <1>6 DEF Loan
  <1> QED
    BY <1>5, <1>7

LEMMA StatusSet ==
    ASSUME NEW row \in Loan, NEW st \in {"open", "paid", "cancelled"}
    PROVE  /\ [row EXCEPT !.status = st] \in Loan
           /\ [row EXCEPT !.status = st].status = st
           /\ [row EXCEPT !.status = st].amount = row.amount
           /\ [row EXCEPT !.status = st].emp = row.emp
  BY DEF Loan

PayrollFields == {"emp", "period", "base", "bonus", "loan", "day", "manual", "net", "paid"}
LEMMA PayrollIs ==
    ASSUME NEW w
    PROVE  w \in Payroll <=>
             /\ w = [c \in PayrollFields |-> w[c]]
             /\ w.emp \in Employee /\ w.period \in Period /\ w.base \in Nat /\ w.bonus \in Nat
             /\ w.loan \in Nat /\ w.day \in Nat /\ w.manual \in Nat /\ w.net \in Int
             /\ w.paid \in BOOLEAN
  BY DEF Payroll, PayrollFields

LEMMA PayrollFlushed ==
    ASSUME NEW now \in Payroll, NEW row \in Payroll, NEW new \in Payroll
    PROVE  /\ Flushed(now, row, new) \in Payroll
           /\ \A c \in PayrollFields :
                 Flushed(now, row, new)[c] = IF new[c] = row[c] THEN now[c] ELSE new[c]
  <1>1. now = [c \in PayrollFields |-> now[c]]
    BY PayrollIs
  <1>2. PICK v : v = Flushed(now, row, new)
    OBVIOUS
  <1>3. v = [c \in PayrollFields |-> IF new[c] = row[c] THEN now[c] ELSE new[c]]
    BY <1>1, <1>2 DEF Flushed
  <1>4. \A c \in PayrollFields : v[c] = IF new[c] = row[c] THEN now[c] ELSE new[c]
    BY <1>3
  <1>5. v = [c \in PayrollFields |-> v[c]]
    BY <1>3
  <1>6. \A c \in PayrollFields : v[c] \in {now[c], new[c]}
    BY <1>4
  <1>7. /\ v.emp \in {now.emp, new.emp} /\ v.period \in {now.period, new.period}
        /\ v.base \in {now.base, new.base} /\ v.bonus \in {now.bonus, new.bonus}
        /\ v.loan \in {now.loan, new.loan} /\ v.day \in {now.day, new.day}
        /\ v.manual \in {now.manual, new.manual} /\ v.net \in {now.net, new.net}
        /\ v.paid \in {now.paid, new.paid}
    BY <1>6 DEF PayrollFields
  <1>8. v \in Payroll
    BY <1>5, <1>7, PayrollIs
  <1> QED
    BY <1>2, <1>4, <1>8

LEMMA ExpenseIs ==
    ASSUME NEW x
    PROVE  x \in Expense <=>
             /\ x = [c \in Fields |-> x[c]]
             /\ x.ref \in Nat /\ x.category \in Category /\ x.till \in Till /\ x.amount \in Nat
             /\ x.payroll \in 0..MaxRow /\ x.journal \in Journal
  BY DEF Expense, Fields

LEMMA ExpenseFlushed ==
    ASSUME NEW now \in Expense, NEW row \in Expense, NEW new \in Expense
    PROVE  /\ [Flushed(now, row, new) EXCEPT !.journal = new.journal] \in Expense
           /\ now = row => [Flushed(now, row, new) EXCEPT !.journal = new.journal] = new
  <1>1. /\ now = [c \in Fields |-> now[c]] /\ row = [c \in Fields |-> row[c]]
        /\ new = [c \in Fields |-> new[c]]
    BY ExpenseIs
  <1>2. PICK v : v = Flushed(now, row, new)
    OBVIOUS
  <1>3. v = [c \in Fields |-> IF new[c] = row[c] THEN now[c] ELSE new[c]]
    BY <1>1, <1>2 DEF Flushed
  <1>4. PICK w : w = [v EXCEPT !.journal = new.journal]
    OBVIOUS
  <1>5. w = [c \in Fields |-> IF c = "journal" THEN new.journal
                              ELSE IF new[c] = row[c] THEN now[c] ELSE new[c]]
    BY <1>3, <1>4
  <1>6. w = [c \in Fields |-> w[c]] /\ \A c \in Fields : w[c] \in {now[c], new[c]}
    BY <1>5
  <1>7. /\ w.ref \in {now.ref, new.ref} /\ w.category \in {now.category, new.category}
        /\ w.till \in {now.till, new.till} /\ w.amount \in {now.amount, new.amount}
        /\ w.payroll \in {now.payroll, new.payroll} /\ w.journal \in {now.journal, new.journal}
    BY <1>6 DEF Fields
  <1>8. w \in Expense
    BY <1>6, <1>7, ExpenseIs
  <1>9. now = row => w = new
    BY <1>1, <1>5
  <1> QED
    BY <1>2, <1>4, <1>8, <1>9
-----------------------------------------------------------------------------
(* Every step keeps the types.                                              *)

LEMMA TypedInit == Init => TypedInv
  <1> SUFFICES ASSUME Init PROVE TypedInv
    OBVIOUS
  <1>1. LoanTable /\ DeductionTable /\ PayrollTable
    BY DEF Init, None, LoanTable, DeductionTable, PayrollTable
  <1>2. ExpenseTable
    BY DEF Init, None, ExpenseTable
  <1>3. Counters
    BY WagesConstants DEF Init, Counters, Tables
  <1>4. tx = [r \in Request |-> tx[r]] /\ \A r \in Request : Carries(tx[r])
    BY IdleCarries DEF Init
  <1> QED
    BY <1>1, <1>2, <1>3, <1>4 DEF TypedInv, RowsTyped

LEMMA BooksTyped ==
    ASSUME TypedInv, UNCHANGED books, asked' \in 0..MaxRequest
    PROVE  RowsTyped'
  BY DEF TypedInv, RowsTyped, LoanTable, DeductionTable, PayrollTable, ExpenseTable, Counters, books

LEMMA BeginTyped ==
    ASSUME TypedInv, NEW r \in Request, NEW t, Carries(t), Begin(r, t)
    PROVE  TypedInv'
  BY BeginMoves, BooksTyped, SessionsCarry

LEMMA AloneTyped ==
    ASSUME TypedInv, Alone
    PROVE  /\ asked' \in 0..MaxRequest /\ UNCHANGED <<tx, crossed>>
           /\ RowsTyped' => TypedInv'
  <1>1. asked' \in 0..MaxRequest /\ UNCHANGED <<tx, crossed>>
    BY WagesConstants DEF Alone, TypedInv, RowsTyped, Counters
  <1>2. \A s \in Request : Carries(tx'[s])
    BY <1>1 DEF TypedInv
  <1> QED
    BY <1>1, <1>2 DEF TypedInv

LEMMA CreateLoanTyped ==
    ASSUME TypedInv, NEW e \in Employee, NEW n \in Principal, CreateLoan(e, n)
    PROVE  TypedInv'
  <1> PICK l, x : l = last["loan"] + 1 /\ x = [emp |-> e, amount |-> n, status |-> "open"]
    OBVIOUS
  <1>1. /\ l <= MaxRow /\ loan' = Insert(loan, l, x) /\ repaid' = Insert(repaid, l, 0)
        /\ last' = [last EXCEPT !["loan"] = l] /\ Alone
        /\ UNCHANGED <<staff, deduction, payroll, taken, expense, posted, archived>>
    BY DEF CreateLoan
  <1>0. LoanTable /\ DeductionTable /\ PayrollTable /\ ExpenseTable /\ Counters
    BY DEF TypedInv, RowsTyped
  <1>2. l \in 1..MaxRow /\ last["loan"] \in Nat
    BY <1>0, <1>1, WagesConstants DEF Counters, Tables
  <1>3. x \in Loan
    BY DEF Loan
  <1>4. loan' \in [DOMAIN loan \cup {l} -> Loan] /\ DOMAIN loan' = DOMAIN loan \cup {l}
    <2>1. loan \in [DOMAIN loan -> Loan]
      BY <1>0 DEF LoanTable
    <2>2. loan' \in [DOMAIN loan \cup {l} -> Loan]
      BY <1>1, <1>3, <2>1, Inserted
    <2> QED
      BY <2>2
  <1>5. repaid' \in [DOMAIN loan \cup {l} -> Nat]
    <2>1. repaid \in [DOMAIN repaid -> Nat] /\ DOMAIN repaid = DOMAIN loan
      BY <1>0 DEF LoanTable
    <2> QED
      BY <1>0, <1>1, <2>1, Inserted
  <1>6. last'["loan"] = l /\ \A t \in Tables : t # "loan" => last'[t] = last[t]
    BY <1>0, <1>1 DEF Counters, Tables
  <1>7. LoanTable'
    BY <1>0, <1>2, <1>4, <1>5, <1>6 DEF LoanTable
  <1>8. Counters'
    <2>1. asked' \in 0..MaxRequest
      BY <1>0, <1>1, AloneTyped
    <2>2. last' \in [Tables -> 0..MaxRow]
      BY <1>0, <1>1, <1>2, Counted DEF Counters
    <2> QED
      BY <1>0, <1>1, <2>1, <2>2 DEF Counters
  <1>9. DeductionTable' /\ PayrollTable' /\ ExpenseTable'
    BY <1>0, <1>1, <1>6 DEF DeductionTable, PayrollTable, ExpenseTable, Tables
  <1>10. asked' \in 0..MaxRequest => RowsTyped'
    BY <1>7, <1>8, <1>9 DEF RowsTyped
  <1> QED
    BY <1>1, <1>10, AloneTyped

LEMMA CreateDeductionTyped ==
    ASSUME TypedInv, NEW e \in Employee, NEW p \in Period, NEW kind \in {"day", "manual"},
           NEW n \in Amount, CreateDeduction(e, p, kind, n)
    PROVE  TypedInv'
  <1> PICK d, x : /\ d = last["deduction"] + 1
                  /\ x = [emp |-> e, period |-> p, kind |-> kind, amount |-> n, payroll |-> 0]
    OBVIOUS
  <1>1. /\ d <= MaxRow /\ deduction' = Insert(deduction, d, x)
        /\ last' = [last EXCEPT !["deduction"] = d] /\ Alone
        /\ UNCHANGED <<staff, loan, repaid, payroll, taken, expense, posted, archived>>
    BY DEF CreateDeduction
  <1>0. LoanTable /\ DeductionTable /\ PayrollTable /\ ExpenseTable /\ Counters
    BY DEF TypedInv, RowsTyped
  <1>2. d \in 1..MaxRow /\ last["deduction"] \in Nat
    BY <1>0, <1>1, WagesConstants DEF Counters, Tables
  <1>3. x \in Deduction
    BY WagesConstants DEF Deduction
  <1>4. /\ deduction' \in [DOMAIN deduction \cup {d} -> Deduction]
        /\ DOMAIN deduction' = DOMAIN deduction \cup {d}
    <2>1. deduction \in [DOMAIN deduction -> Deduction]
      BY <1>0 DEF DeductionTable
    <2>2. deduction' \in [DOMAIN deduction \cup {d} -> Deduction]
      BY <1>1, <1>3, <2>1, Inserted
    <2> QED
      BY <2>2
  <1>6. last'["deduction"] = d /\ \A t \in Tables : t # "deduction" => last'[t] = last[t]
    BY <1>0, <1>1 DEF Counters, Tables
  <1>7. DeductionTable'
    BY <1>0, <1>2, <1>4, <1>6 DEF DeductionTable
  <1>8. Counters'
    <2>1. asked' \in 0..MaxRequest
      BY <1>0, <1>1, AloneTyped
    <2>2. last' \in [Tables -> 0..MaxRow]
      BY <1>0, <1>1, <1>2, Counted DEF Counters
    <2> QED
      BY <1>0, <1>1, <2>1, <2>2 DEF Counters
  <1>9. LoanTable' /\ PayrollTable' /\ ExpenseTable'
    BY <1>0, <1>1, <1>6 DEF LoanTable, PayrollTable, ExpenseTable, Tables
  <1>10. asked' \in 0..MaxRequest => RowsTyped'
    BY <1>7, <1>8, <1>9 DEF RowsTyped
  <1> QED
    BY <1>1, <1>10, AloneTyped

LEMMA DeactivateTyped ==
    ASSUME TypedInv, NEW e \in Employee, Deactivate(e)
    PROVE  TypedInv'
  <1>1. /\ staff' = [staff EXCEPT ![e] = "inactive"] /\ Alone
        /\ UNCHANGED <<loan, repaid, deduction, payroll, taken, expense, posted, archived, last>>
    BY DEF Deactivate
  <1>0. LoanTable /\ DeductionTable /\ PayrollTable /\ ExpenseTable /\ Counters
    BY DEF TypedInv, RowsTyped
  <1>2. Counters'
    BY <1>0, <1>1, AloneTyped DEF Counters
  <1>3. LoanTable' /\ DeductionTable' /\ PayrollTable' /\ ExpenseTable'
    BY <1>0, <1>1 DEF LoanTable, DeductionTable, PayrollTable, ExpenseTable
  <1>10. asked' \in 0..MaxRequest => RowsTyped'
    BY <1>2, <1>3 DEF RowsTyped
  <1> QED
    BY <1>1, <1>10, AloneTyped

LEMMA RepayReadTyped ==
    ASSUME TypedInv, NEW r \in Request, NEW l \in DOMAIN loan, NEW n \in Instalment,
           RepayRead(r, l, n)
    PROVE  TypedInv'
  <1> PICK t : t = Session("repay", {<<"loan", l>>}, [loan |-> l, amount |-> n],
                           [row |-> loan[l]])
    OBVIOUS
  <1>1. Begin(r, t)
    BY DEF RepayRead
  <1>2. /\ DOMAIN t = SessionFields /\ t.kind = "repay" /\ t.pc = "read"
        /\ t.arg = [loan |-> l, amount |-> n] /\ t.seen = [row |-> loan[l]]
    BY DEF Session, SessionFields
  <1>3. l \in RowIds /\ loan[l] \in Loan /\ n \in Nat \ {0}
    BY WagesConstants DEF TypedInv, RowsTyped, LoanTable, Counters, Tables, RowIds
  <1>4. Carries(t)
    BY <1>2, <1>3 DEF Carries, RepayTyped
  <1> QED
    BY <1>1, <1>4, BeginTyped

LEMMA RepayFlushTyped ==
    ASSUME TypedInv, NEW r \in Request, RepayFlush(r)
    PROVE  TypedInv'
  <1> PICK st : st = LoanStatus(tx[r].arg.loan, tx[r].arg.amount)
    OBVIOUS
  <1>1. /\ tx[r] # Idle /\ tx[r].kind = "repay"
        /\ Continue(r, "flushed", {}, [row |-> tx[r].seen.row, status |-> st])
    BY DEF RepayFlush, At
  <1>2. RepayTyped(tx[r])
    BY <1>1 DEF TypedInv, Carries
  <1>3. st \in {"open", "paid"}
    BY DEF LoanStatus
  <1>4. /\ Moved(r) /\ asked' = asked /\ UNCHANGED books
        /\ DOMAIN tx'[r] = SessionFields /\ tx'[r].kind = "repay" /\ tx'[r].pc = "flushed"
        /\ tx'[r].seen = [row |-> tx[r].seen.row, status |-> st] /\ tx'[r].arg = tx[r].arg
    BY <1>1, ContinueMoves
  <1>5. Carries(tx'[r])
    BY <1>2, <1>3, <1>4 DEF Carries, RepayTyped
  <1>6. RowsTyped'
    BY <1>4, BooksTyped DEF TypedInv, RowsTyped, Counters
  <1> QED
    BY <1>4, <1>5, <1>6, SessionsCarry

\* What a repayment and its cancellation write.
LEMMA RepayWrites ==
    ASSUME TypedInv, NEW r \in Request, RepayCommit(r), NEW l, l = tx[r].arg.loan
    PROVE  /\ l \in DOMAIN loan
           /\ loan' \in [DOMAIN loan -> Loan] /\ repaid' \in [DOMAIN loan -> Nat]
           /\ \A m \in DOMAIN loan : m # l => loan'[m] = loan[m] /\ repaid'[m] = repaid[m]
           /\ repaid'[l] = repaid[l] + tx[r].arg.amount
           /\ loan'[l].emp = loan[l].emp /\ loan'[l].amount = loan[l].amount
           /\ loan'[l].status = IF tx[r].seen.status = tx[r].seen.row.status
                                THEN loan[l].status ELSE tx[r].seen.status
           /\ RepayTyped(tx[r]) /\ tx[r].pc = "flushed" /\ tx[r].kind = "repay"
           /\ tx[r] # Idle
           /\ Commit(r, {<<"loan", l>>})
           /\ UNCHANGED <<staff, deduction, payroll, taken, expense, posted, archived, last>>
  <1>1. /\ tx[r] # Idle /\ tx[r].kind = "repay" /\ tx[r].pc = "flushed" /\ l \in DOMAIN loan
        /\ repaid' = [repaid EXCEPT ![l] = @ + tx[r].arg.amount]
        /\ loan' = [loan EXCEPT ![l] = Flushed(@, tx[r].seen.row,
                                 [tx[r].seen.row EXCEPT !.status = tx[r].seen.status])]
        /\ Commit(r, {<<"loan", l>>})
        /\ UNCHANGED <<staff, deduction, payroll, taken, expense, posted, archived, last>>
    BY DEF RepayCommit, At
  <1>2. RepayTyped(tx[r]) /\ tx[r].seen.status \in {"open", "paid"}
    BY <1>1 DEF TypedInv, Carries, RepayTyped
  <1>3. LoanTable
    BY DEF TypedInv, RowsTyped
  <1> PICK row, new : row = tx[r].seen.row /\ new = [row EXCEPT !.status = tx[r].seen.status]
    OBVIOUS
  <1> PICK x : x = Flushed(loan[l], row, new)
    OBVIOUS
  <1>4. loan[l] \in Loan /\ row \in Loan
    BY <1>1, <1>2, <1>3 DEF LoanTable, RepayTyped
  <1>5. new \in Loan /\ new.emp = row.emp /\ new.amount = row.amount /\ new.status = tx[r].seen.status
    BY <1>2, <1>4 DEF Loan
  <1>6. /\ x \in Loan /\ x.emp = loan[l].emp /\ x.amount = loan[l].amount
        /\ x.status = IF new.status = row.status THEN loan[l].status ELSE new.status
    BY ONLY <1>4, <1>5, x = Flushed(loan[l], row, new), LoanFlushed
  <1>7. loan' = [loan EXCEPT ![l] = x]
    BY <1>1
  <1>8. tx[r].arg.amount \in Nat
    BY <1>2 DEF RepayTyped
  <1>9. /\ loan' \in [DOMAIN loan -> Loan] /\ loan'[l] = x
        /\ \A m \in DOMAIN loan : m # l => loan'[m] = loan[m]
    BY <1>1, <1>3, <1>6, <1>7 DEF LoanTable
  <1>10. /\ repaid' \in [DOMAIN loan -> Nat] /\ repaid'[l] = repaid[l] + tx[r].arg.amount
         /\ \A m \in DOMAIN loan : m # l => repaid'[m] = repaid[m]
    BY <1>1, <1>3, <1>8 DEF LoanTable
  <1> QED
    BY <1>1, <1>5, <1>6, <1>2, <1>9, <1>10

LEMMA CancelWrites ==
    ASSUME TypedInv, NEW r \in Request, CancelCommit(r), NEW l, l = tx[r].arg.loan
    PROVE  /\ l \in DOMAIN loan
           /\ loan' \in [DOMAIN loan -> Loan]
           /\ \A m \in DOMAIN loan : m # l => loan'[m] = loan[m]
           /\ loan'[l].emp = loan[l].emp /\ loan'[l].amount = loan[l].amount
           /\ loan'[l].status = IF tx[r].seen.row.status = "cancelled"
                                THEN loan[l].status ELSE "cancelled"
           /\ tx[r] # Idle /\ tx[r].kind = "cancel"
           /\ Commit(r, {<<"loan", l>>})
           /\ UNCHANGED <<staff, repaid, deduction, payroll, taken, expense, posted, archived, last>>
  <1>1. /\ tx[r] # Idle /\ tx[r].kind = "cancel" /\ l \in DOMAIN loan
        /\ loan' = [loan EXCEPT ![l] = Flushed(@, tx[r].seen.row,
                                 [tx[r].seen.row EXCEPT !.status = "cancelled"])]
        /\ Commit(r, {<<"loan", l>>})
        /\ UNCHANGED <<staff, repaid, deduction, payroll, taken, expense, posted, archived, last>>
    BY DEF CancelCommit, At
  <1>2. tx[r].seen.row \in Loan
    BY <1>1 DEF TypedInv, Carries, CancelTyped
  <1>3. LoanTable
    BY DEF TypedInv, RowsTyped
  <1> PICK row, new : row = tx[r].seen.row /\ new = [row EXCEPT !.status = "cancelled"]
    OBVIOUS
  <1> PICK x : x = Flushed(loan[l], row, new)
    OBVIOUS
  <1>4. loan[l] \in Loan /\ row \in Loan
    BY <1>1, <1>2, <1>3 DEF LoanTable, RepayTyped
  <1>5. new \in Loan /\ new.emp = row.emp /\ new.amount = row.amount /\ new.status = "cancelled"
    BY <1>2, <1>4 DEF Loan
  <1>6. /\ x \in Loan /\ x.emp = loan[l].emp /\ x.amount = loan[l].amount
        /\ x.status = IF new.status = row.status THEN loan[l].status ELSE new.status
    BY ONLY <1>4, <1>5, x = Flushed(loan[l], row, new), LoanFlushed
  <1>7. loan' = [loan EXCEPT ![l] = x]
    BY <1>1
  <1>9. /\ loan' \in [DOMAIN loan -> Loan] /\ loan'[l] = x
        /\ \A m \in DOMAIN loan : m # l => loan'[m] = loan[m]
    BY <1>1, <1>3, <1>6, <1>7 DEF LoanTable
  <1> QED
    BY <1>1, <1>5, <1>6, <1>9

LEMMA CommitTyped ==
    ASSUME TypedInv, NEW r \in Request, NEW W, Commit(r, W),
           asked' \in 0..MaxRequest => RowsTyped'
    PROVE  TypedInv'
  <1>1. Moved(r) /\ Carries(tx'[r]) /\ asked' = asked
    BY CommitMoves, IdleCarries
  <1>2. RowsTyped'
    BY <1>1 DEF TypedInv, RowsTyped, Counters
  <1> QED
    BY <1>1, <1>2, SessionsCarry

LEMMA RepayCommitTyped ==
    ASSUME TypedInv, NEW r \in Request, RepayCommit(r)
    PROVE  TypedInv'
  <1> PICK l : l = tx[r].arg.loan
    OBVIOUS
  <1>1. /\ loan' \in [DOMAIN loan -> Loan] /\ repaid' \in [DOMAIN loan -> Nat]
        /\ Commit(r, {<<"loan", l>>})
        /\ UNCHANGED <<staff, deduction, payroll, taken, expense, posted, archived, last>>
    BY RepayWrites
  <1>0. LoanTable /\ DeductionTable /\ PayrollTable /\ ExpenseTable /\ Counters
    BY DEF TypedInv, RowsTyped
  <1>2. LoanTable'
    BY <1>0, <1>1 DEF LoanTable
  <1>3. DeductionTable' /\ PayrollTable' /\ ExpenseTable' /\ (asked' \in 0..MaxRequest => Counters')
    BY <1>0, <1>1 DEF DeductionTable, PayrollTable, ExpenseTable, Counters
  <1>10. asked' \in 0..MaxRequest => RowsTyped'
    BY <1>2, <1>3 DEF RowsTyped
  <1> QED
    BY <1>1, <1>10, CommitTyped

LEMMA CancelCommitTyped ==
    ASSUME TypedInv, NEW r \in Request, CancelCommit(r)
    PROVE  TypedInv'
  <1> PICK l : l = tx[r].arg.loan
    OBVIOUS
  <1>1. /\ loan' \in [DOMAIN loan -> Loan] /\ Commit(r, {<<"loan", l>>})
        /\ UNCHANGED <<staff, repaid, deduction, payroll, taken, expense, posted, archived, last>>
    BY CancelWrites
  <1>0. LoanTable /\ DeductionTable /\ PayrollTable /\ ExpenseTable /\ Counters
    BY DEF TypedInv, RowsTyped
  <1>2. LoanTable'
    BY <1>0, <1>1 DEF LoanTable
  <1>3. DeductionTable' /\ PayrollTable' /\ ExpenseTable' /\ (asked' \in 0..MaxRequest => Counters')
    BY <1>0, <1>1 DEF DeductionTable, PayrollTable, ExpenseTable, Counters
  <1>10. asked' \in 0..MaxRequest => RowsTyped'
    BY <1>2, <1>3 DEF RowsTyped
  <1> QED
    BY <1>1, <1>10, CommitTyped

LEMMA CancelReadTyped ==
    ASSUME TypedInv, NEW r \in Request, NEW l \in DOMAIN loan, NEW admin \in BOOLEAN,
           CancelRead(r, l, admin)
    PROVE  TypedInv'
  <1> PICK t : t = Session("cancel", {<<"loan", l>>}, [loan |-> l], [row |-> loan[l]])
    OBVIOUS
  <1>1. Begin(r, t)
    BY DEF CancelRead
  <1>2. /\ DOMAIN t = SessionFields /\ t.kind = "cancel"
        /\ t.arg = [loan |-> l] /\ t.seen = [row |-> loan[l]]
    BY DEF Session, SessionFields
  <1>3. l \in RowIds /\ loan[l] \in Loan
    BY WagesConstants DEF TypedInv, RowsTyped, LoanTable, Counters, Tables, RowIds
  <1>4. Carries(t)
    BY <1>2, <1>3 DEF Carries, CancelTyped
  <1> QED
    BY <1>1, <1>4, BeginTyped
-----------------------------------------------------------------------------
(* A run of the payroll.                                                    *)

LEMMA IdsFinite == IsFiniteSet(RowIds) /\ \A S : S \subseteq RowIds => IsFiniteSet(S)
  <1>1. IsFiniteSet(1..MaxRow)
    BY WagesConstants, FS_Interval
  <1> QED
    BY <1>1, FS_Subset DEF RowIds

\* Ids that a sequence has handed out are ids of rows.
LEMMA TableIds ==
    ASSUME TypedInv
    PROVE  /\ DOMAIN loan \subseteq RowIds /\ DOMAIN deduction \subseteq RowIds
           /\ DOMAIN payroll \subseteq RowIds /\ DOMAIN expense \subseteq RowIds
           /\ IsFiniteSet(DOMAIN loan) /\ IsFiniteSet(DOMAIN deduction)
           /\ IsFiniteSet(DOMAIN payroll) /\ IsFiniteSet(DOMAIN expense)
  <1>1. /\ DOMAIN loan \subseteq 1..last["loan"] /\ DOMAIN deduction \subseteq 1..last["deduction"]
        /\ DOMAIN payroll \subseteq 1..last["payroll"]
        /\ DOMAIN expense \subseteq 1..last["expense"]
    BY DEF TypedInv, RowsTyped, LoanTable, DeductionTable, PayrollTable, ExpenseTable
  <1>2. last["loan"] \in 0..MaxRow /\ last["deduction"] \in 0..MaxRow
        /\ last["payroll"] \in 0..MaxRow /\ last["expense"] \in 0..MaxRow
    BY DEF TypedInv, RowsTyped, Counters, Tables
  <1>3. \A m \in 0..MaxRow : 1..m \subseteq RowIds
    BY WagesConstants DEF RowIds
  <1>4. /\ DOMAIN loan \subseteq RowIds /\ DOMAIN deduction \subseteq RowIds
        /\ DOMAIN payroll \subseteq RowIds /\ DOMAIN expense \subseteq RowIds
    BY <1>1, <1>2, <1>3
  <1> QED
    BY <1>4, IdsFinite

\* A sum over rows of natural numbers.
LEMMA RowSum ==
    ASSUME NEW S, S \subseteq RowIds, NEW f, f = [x \in S |-> f[x]], \A x \in S : f[x] \in Nat
    PROVE  SumFunction(f) \in Nat
  <1>1. IsFiniteSet(S) /\ DOMAIN f = S
    BY IdsFinite
  <1> QED
    BY <1>1, SumNat DEF SumFunction

Was(t, c) == SumFunction([o \in t.seen.old |-> o[2][c]])

LEMMA WasNothing ==
    ASSUME NEW t, t.seen.old = {}, NEW c
    PROVE  Was(t, c) = 0
  <1> PICK f : f = [o \in t.seen.old |-> o[2][c]]
    OBVIOUS
  <1>1. DOMAIN f = {}
    OBVIOUS
  <1> QED
    BY <1>1, SumEmpty DEF Was, SumFunction

LEMMA WasOfOne ==
    ASSUME NEW t, NEW k, NEW w \in Payroll, t.seen.old = {<<k, w>>},
           NEW c \in {"bonus", "loan", "day", "manual"}
    PROVE  Was(t, c) = w[c]
  <1>0. w[c] \in Int
    BY PayrollIs
  <1> PICK f : f = [o \in t.seen.old |-> o[2][c]]
    OBVIOUS
  <1>1. DOMAIN f = {<<k, w>>} /\ f[<<k, w>>] = w[c] /\ IsFiniteSet({<<k, w>>})
    BY FS_Singleton
  <1>2. \A y \in {<<k, w>>} \ {<<k, w>>} : f[y] = 0
    OBVIOUS
  <1>3. SumFunctionOnSet(f, {<<k, w>>}) = f[<<k, w>>]
    BY <1>0, <1>1, <1>2, SumAtOne
  <1> QED
    BY <1>1, <1>3 DEF Was, SumFunction

LEMMA OldIsOne ==
    ASSUME NEW t, RunTyped(t), t.seen.old # {}
    PROVE  \E k \in RowIds, w \in Payroll :
              /\ t.seen.old = {<<k, w>>} /\ (CHOOSE o \in t.seen.old : TRUE) = <<k, w>>
              /\ w.emp = t.arg.emp /\ w.period = t.arg.period
  <1>1. PICK o \in t.seen.old : TRUE
    OBVIOUS
  <1>2. o \in RowIds \X Payroll /\ o[2].emp = t.arg.emp /\ o[2].period = t.arg.period
    BY DEF RunTyped
  <1>3. t.seen.old = {o}
    BY <1>1 DEF RunTyped
  <1>4. PICK k \in RowIds, w \in Payroll : o = <<k, w>>
    BY <1>2
  <1> QED
    BY <1>2, <1>3, <1>4

\* The row a run makes.
LEMMA SheetIs ==
    ASSUME NEW t, RunTyped(t), NEW s, s = Sheet(t)
    PROVE  /\ s \in Payroll /\ s.emp = t.arg.emp /\ s.period = t.arg.period
           /\ s.loan = Was(t, "loan") + t.arg.amount /\ s.day = Was(t, "day") + t.seen.day
           /\ s.net = s.base + s.bonus - s.loan - s.day - s.manual
           /\ \A c \in {"bonus", "loan", "day", "manual"} : Was(t, c) \in Nat
  <1>1. ASSUME NEW c \in {"bonus", "loan", "day", "manual"} PROVE Was(t, c) \in Nat
    <2>1. CASE t.seen.old = {}
      BY <2>1, WasNothing
    <2>2. CASE t.seen.old # {}
      <3>1. PICK k \in RowIds, w \in Payroll : t.seen.old = {<<k, w>>}
        BY <2>2, OldIsOne
      <3>2. w[c] \in Nat
        BY <1>1, PayrollIs
      <3> QED
        BY <3>1, <3>2, WasOfOne
    <2> QED
      BY <2>1, <2>2
  <1> PICK bonus : bonus = IF t.arg.bonus # {} THEN CHOOSE b \in t.arg.bonus : TRUE
                                               ELSE Was(t, "bonus")
    OBVIOUS
  <1> PICK withheld, day, manual, base, paid :
         /\ withheld = Was(t, "loan") + t.arg.amount
         /\ day = Was(t, "day") + t.seen.day
         /\ manual = Was(t, "manual") + t.seen.manual
         /\ base = Salary[t.arg.emp]
         /\ paid = \E o \in t.seen.old : o[2].paid
    OBVIOUS
  <1>2. bonus \in Nat
    <2>1. CASE t.arg.bonus = {}
      BY <1>1, <2>1
    <2>2. ASSUME NEW b \in Amount, t.arg.bonus = {b} PROVE bonus \in Nat
      <3>1. bonus = b
        BY <2>2
      <3> QED
        BY <3>1, WagesConstants
    <2> QED
      BY <2>1, <2>2 DEF RunTyped
  <1>3. withheld \in Nat /\ day \in Nat /\ manual \in Nat
    BY <1>1 DEF RunTyped
  <1>4. base \in Nat
    BY WagesConstants DEF RunTyped
  <1>5. paid \in BOOLEAN
    OBVIOUS
  <1>6. s = [emp |-> t.arg.emp, period |-> t.arg.period, base |-> base, bonus |-> bonus,
             loan |-> withheld, day |-> day, manual |-> manual,
             net |-> base + bonus - withheld - day - manual, paid |-> paid]
    BY DEF Sheet, Was, Withheld
  <1> PICK net : net = base + bonus - withheld - day - manual
    OBVIOUS
  <1>7. net \in Int
    BY <1>2, <1>3, <1>4
  <1>8. t.arg.emp \in Employee /\ t.arg.period \in Period
    BY DEF RunTyped
  <1>9. s \in Payroll
    BY ONLY <1>2, <1>3, <1>4, <1>5, <1>6, <1>7, <1>8,
       net = base + bonus - withheld - day - manual DEF Payroll
  <1>10. /\ s.emp = t.arg.emp /\ s.period = t.arg.period /\ s.loan = withheld /\ s.day = day
         /\ s.net = net /\ s.base = base /\ s.bonus = bonus /\ s.manual = manual
    BY ONLY <1>6, net = base + bonus - withheld - day - manual
  <1> QED
    BY <1>1, <1>9, <1>10

LEMMA ShareIs ==
    ASSUME NEW open, open \in [DOMAIN open -> Int], DOMAIN open \subseteq RowIds,
           NEW n \in Nat, NEW l \in Visited(open, n), NEW a, a = Share(open, n, l)
    PROVE  /\ l \in DOMAIN open /\ a \in Nat
           /\ open[l] <= 0 => a = 0
           /\ open[l] > 0 => a <= open[l]
           /\ a <= n
  <1> PICK S : S = {m \in DOMAIN open : m < l /\ open[m] > 0}
    OBVIOUS
  <1>1. S \subseteq RowIds /\ \A m \in S : open[m] \in Nat
    OBVIOUS
  <1> PICK o : o = SumFunctionOnSet(open, S)
    OBVIOUS
  <1>2. o \in Nat
    BY <1>1, IdsFinite, SumNat
  <1>3. l \in DOMAIN open /\ n > o
    BY DEF Visited, Older, Total
  <1>4. a = IF open[l] <= 0 THEN 0 ELSE IF open[l] < n - o THEN open[l] ELSE n - o
    BY DEF Share, Smaller, Older, Total
  <1>5. open[l] \in Int
    BY <1>3
  <1> QED
    BY <1>2, <1>3, <1>4, <1>5

LEMMA RunReadTyped ==
    ASSUME TypedInv, NEW r \in Request, NEW e \in Employee, NEW p \in Period,
           NEW b \in {{}} \cup {{n} : n \in Amount}, NEW n \in Instalment \cup {0},
           RunRead(r, e, p, b, n)
    PROVE  TypedInv'
  <1> PICK P : P = Pending(e, p)
    OBVIOUS
  <1> DEFINE Kind(kind) == {x \in P : deduction[x].kind = kind}
             Sum(kind) == SumFunction([d \in Kind(kind) |-> deduction[d].amount])
             arg == [emp |-> e, period |-> p, bonus |-> b, amount |-> n]
             old == {<<k, payroll[k]>> : k \in RowsOf(e, p)}
             seen == [old |-> old, pending |-> P, day |-> Sum("day"), manual |-> Sum("manual"),
                      open |-> None]
  <1> PICK t : t = Session("run", {<<"wages", e, p>>}, arg, seen)
    OBVIOUS
  <1>1. Begin(r, t) /\ Cardinality(RowsOf(e, p)) <= 1
    BY DEF RunRead
  <1>2. /\ DOMAIN t = SessionFields /\ t.kind = "run" /\ t.arg = arg /\ t.seen = seen
    BY DEF Session, SessionFields
  <1>3. P \subseteq DOMAIN deduction /\ P \subseteq RowIds
    BY TableIds DEF Pending
  <1>4. \A d \in P : deduction[d].amount \in Nat
    BY <1>3, WagesConstants DEF TypedInv, RowsTyped, DeductionTable, Deduction
  <1>5. ASSUME NEW kind PROVE Sum(kind) \in Nat
    <2> PICK f : f = [d \in Kind(kind) |-> deduction[d].amount]
      OBVIOUS
    <2>1. Kind(kind) \subseteq RowIds /\ f = [d \in Kind(kind) |-> f[d]]
          /\ \A d \in Kind(kind) : f[d] \in Nat
      BY <1>3, <1>4
    <2> HIDE DEF Kind
    <2>2. SumFunction(f) \in Nat
      BY <2>1, RowSum
    <2> QED
      BY <2>2
  <1>6. RowsOf(e, p) \subseteq DOMAIN payroll /\ RowsOf(e, p) \subseteq RowIds
    BY TableIds DEF RowsOf
  <1>7. old \subseteq RowIds \X Payroll
    BY <1>6 DEF TypedInv, RowsTyped, PayrollTable
  <1>8. \A o \in old : o[2].emp = e /\ o[2].period = p
    BY DEF RowsOf
  <1>9. ASSUME NEW o \in old, NEW q \in old PROVE o = q
    <2>1. PICK k \in RowsOf(e, p), j \in RowsOf(e, p) :
              o = <<k, payroll[k]>> /\ q = <<j, payroll[j]>>
      OBVIOUS
    <2>2. k = j
      <3>1. IsFiniteSet(RowsOf(e, p))
        BY <1>6, IdsFinite
      <3>2. Cardinality(RowsOf(e, p)) \in Nat
        BY <3>1, FS_CardinalityType
      <3>3. CASE Cardinality(RowsOf(e, p)) = 0
        BY <3>1, <3>3, FS_EmptySet
      <3>4. CASE Cardinality(RowsOf(e, p)) = 1
        BY <3>1, <3>4, FS_Singleton
      <3> QED
        BY <1>1, <3>2, <3>3, <3>4
    <2> QED
      BY <2>1, <2>2
  <1>10. None \in [DOMAIN None -> Int] /\ DOMAIN None \subseteq RowIds
    BY DEF None
  <1>11. b = {} \/ \E x \in Amount : b = {x}
    OBVIOUS
  <1>12. n \in Nat
    BY WagesConstants
  <1>13. /\ seen.old = old /\ seen.pending = P /\ seen.open = None
         /\ seen.day \in Nat /\ seen.manual \in Nat
         /\ DOMAIN seen = {"old", "pending", "day", "manual", "open"}
    <2>1. Sum("day") \in Nat /\ Sum("manual") \in Nat
      BY <1>5
    <2> HIDE DEF Sum, old
    <2> QED
      BY <2>1
  <1>14. arg.emp = e /\ arg.period = p /\ arg.bonus = b /\ arg.amount = n
    OBVIOUS
  <1> HIDE DEF arg, seen, old, Sum
  <1>15. RunTyped(t)
    BY <1>2, <1>3, <1>7, <1>8, <1>9, <1>10, <1>11, <1>12, <1>13, <1>14 DEF RunTyped
  <1>16. Carries(t)
    BY <1>2, <1>15 DEF Carries
  <1> QED
    BY <1>1, <1>16, BeginTyped

LEMMA RunCheckTyped ==
    ASSUME TypedInv, NEW r \in Request, RunCheck(r)
    PROVE  TypedInv'
  <1> PICK reads : reads = {<<"loan", l>> : l \in LoansOf(tx[r].arg.emp)}
    OBVIOUS
  <1>1. tx[r] # Idle /\ tx[r].kind = "run" /\ Continue(r, "checked", reads, tx[r].seen)
    BY DEF RunCheck, At
  <1>2. RunTyped(tx[r])
    BY <1>1 DEF TypedInv, Carries
  <1>3. /\ Moved(r) /\ asked' = asked /\ UNCHANGED books
        /\ DOMAIN tx'[r] = SessionFields /\ tx'[r].kind = "run"
        /\ tx'[r].seen = tx[r].seen /\ tx'[r].arg = tx[r].arg
    BY <1>1, ContinueMoves
  <1>4. Carries(tx'[r])
    BY <1>2, <1>3 DEF Carries, RunTyped
  <1>5. RowsTyped'
    BY <1>3, BooksTyped DEF TypedInv, RowsTyped, Counters
  <1> QED
    BY <1>3, <1>4, <1>5, SessionsCarry

LEMMA BalanceIs ==
    ASSUME TypedInv, NEW l \in DOMAIN loan
    PROVE  /\ Balance(l) \in Int /\ loan[l].amount \in Nat /\ repaid[l] \in Nat
           /\ loan[l] \in Loan /\ loan[l].status \in {"open", "paid", "cancelled"}
  <1>1. loan[l] \in Loan /\ repaid[l] \in Nat
    BY DEF TypedInv, RowsTyped, LoanTable
  <1>2. loan[l].amount \in Nat /\ loan[l].status \in {"open", "paid", "cancelled"}
    BY <1>1, WagesConstants DEF Loan
  <1> QED
    BY <1>1, <1>2 DEF Balance

LEMMA RunLoansTyped ==
    ASSUME TypedInv, NEW r \in Request, RunLoans(r)
    PROVE  TypedInv'
  <1> PICK reads, open, seen :
         /\ reads = {<<"loan", l>> : l \in LoansOf(tx[r].arg.emp)}
         /\ open = [l \in {m \in LoansOf(tx[r].arg.emp) : loan[m].status = "open"} |-> Balance(l)]
         /\ seen = [tx[r].seen EXCEPT !.open = open]
    OBVIOUS
  <1>1. tx[r] # Idle /\ tx[r].kind = "run" /\ Continue(r, "loans", reads, seen)
    BY DEF RunLoans, At
  <1>2. RunTyped(tx[r])
    BY <1>1 DEF TypedInv, Carries
  <1>3. /\ Moved(r) /\ asked' = asked /\ UNCHANGED books
        /\ DOMAIN tx'[r] = SessionFields /\ tx'[r].kind = "run"
        /\ tx'[r].seen = seen /\ tx'[r].arg = tx[r].arg
    BY <1>1, ContinueMoves
  <1>4. open \in [DOMAIN open -> Int] /\ DOMAIN open \subseteq RowIds
    BY TableIds, BalanceIs DEF LoansOf
  <1>5. /\ seen.old = tx[r].seen.old /\ seen.pending = tx[r].seen.pending
        /\ seen.day = tx[r].seen.day /\ seen.manual = tx[r].seen.manual /\ seen.open = open
        /\ DOMAIN seen = DOMAIN tx[r].seen
    BY <1>2 DEF RunTyped
  <1>6. RunTyped(tx'[r])
    BY ONLY <1>2, <1>3, <1>4, <1>5 DEF RunTyped
  <1>7. Carries(tx'[r])
    BY <1>3, <1>6 DEF Carries
  <1>8. RowsTyped'
    BY <1>3, BooksTyped DEF TypedInv, RowsTyped, Counters
  <1> QED
    BY <1>3, <1>7, <1>8, SessionsCarry

Paying(t) == Visited(t.seen.open, t.arg.amount)
ShareOf(t, l) == Share(t.seen.open, t.arg.amount, l)
Applied(t) == SumFunction([l \in Paying(t) |-> ShareOf(t, l)])

\* What a run that commits knows, and which loans it pays.
LEMMA RunCommits ==
    ASSUME TypedInv, NEW r \in Request, RunCommit(r), NEW t, t = tx[r]
    PROVE  /\ t # Idle /\ t.kind = "run" /\ RunTyped(t)
           /\ t.pc = "loans" \/ (t.pc = "read" /\ t.arg.amount = 0)
           /\ staff[t.arg.emp] # "gone"
           /\ t.seen.pending \subseteq DOMAIN deduction
           /\ Paying(t) \subseteq DOMAIN loan /\ Paying(t) \subseteq DOMAIN t.seen.open
           /\ \A l \in Paying(t) : ShareOf(t, l) \in Nat
           /\ Applied(t) \in Nat
           /\ Commit(r, {<<"wages", t.arg.emp, t.arg.period>>} \cup {<<"loan", l>> : l \in Paying(t)})
           /\ UNCHANGED <<staff, expense, posted, archived>>
  <1>1. /\ t # Idle /\ t.kind = "run"
        /\ t.pc = "loans" \/ (t.pc = "read" /\ t.arg.amount = 0)
        /\ staff[t.arg.emp] # "gone"
        /\ t.seen.pending \subseteq DOMAIN deduction /\ Paying(t) \subseteq DOMAIN loan
        /\ UNCHANGED <<staff, expense, posted, archived>>
    BY DEF RunCommit, At, Paying
  <1>6. Commit(r, {<<"wages", t.arg.emp, t.arg.period>>} \cup {<<"loan", l>> : l \in Paying(t)})
    BY DEF RunCommit, Paying
  <1>2. RunTyped(t)
    BY <1>1 DEF TypedInv, Carries
  <1>3. /\ t.seen.open \in [DOMAIN t.seen.open -> Int] /\ DOMAIN t.seen.open \subseteq RowIds
        /\ t.arg.amount \in Nat
    BY <1>2 DEF RunTyped
  <1>4. ASSUME NEW l \in Paying(t) PROVE ShareOf(t, l) \in Nat /\ l \in DOMAIN t.seen.open
    BY <1>3, ShareIs DEF Paying, ShareOf
  <1>5. Applied(t) \in Nat
    <2> PICK f : f = [l \in Paying(t) |-> ShareOf(t, l)]
      OBVIOUS
    <2>1. /\ Paying(t) \subseteq RowIds /\ f = [l \in Paying(t) |-> f[l]]
          /\ \A l \in Paying(t) : f[l] \in Nat
      BY <1>3, <1>4
    <2>2. SumFunction(f) \in Nat
      BY <2>1, RowSum
    <2> QED
      BY <2>2 DEF Applied
  <1> QED
    BY <1>1, <1>2, <1>4, <1>5, <1>6

LEMMA RunWritesLoans ==
    ASSUME TypedInv, NEW r \in Request, RunCommit(r), NEW t, t = tx[r]
    PROVE  /\ loan' \in [DOMAIN loan -> Loan] /\ repaid' \in [DOMAIN loan -> Nat]
           /\ \A l \in DOMAIN loan :
                 /\ loan'[l].emp = loan[l].emp /\ loan'[l].amount = loan[l].amount
                 /\ l \notin Paying(t) => loan'[l] = loan[l] /\ repaid'[l] = repaid[l]
                 /\ l \in Paying(t) =>
                       /\ repaid'[l] = repaid[l] + ShareOf(t, l)
                       /\ loan'[l].status = IF t.seen.open[l] - ShareOf(t, l) <= 0
                                            THEN "paid" ELSE loan[l].status
  <1>1. /\ repaid' = [l \in DOMAIN repaid |-> IF l \in Paying(t) THEN repaid[l] + ShareOf(t, l)
                                                                 ELSE repaid[l]]
        /\ loan' = [l \in DOMAIN loan |->
                      IF l \in Paying(t) /\ t.seen.open[l] - ShareOf(t, l) <= 0
                      THEN [loan[l] EXCEPT !.status = "paid"] ELSE loan[l]]
    BY DEF RunCommit, Paying, ShareOf
  <1>2. \A l \in Paying(t) : ShareOf(t, l) \in Nat
    BY RunCommits
  <1>3. /\ loan \in [DOMAIN loan -> Loan] /\ repaid \in [DOMAIN loan -> Nat]
    BY DEF TypedInv, RowsTyped, LoanTable
  <1>4. \A l \in DOMAIN loan :
            /\ [loan[l] EXCEPT !.status = "paid"] \in Loan
            /\ [loan[l] EXCEPT !.status = "paid"].status = "paid"
            /\ [loan[l] EXCEPT !.status = "paid"].emp = loan[l].emp
            /\ [loan[l] EXCEPT !.status = "paid"].amount = loan[l].amount
    BY <1>3 DEF Loan
  <1>5. DOMAIN loan' = DOMAIN loan /\ DOMAIN repaid' = DOMAIN loan
    BY <1>1, <1>3
  <1>6. ASSUME NEW l \in DOMAIN loan
        PROVE  /\ loan'[l] \in Loan /\ repaid'[l] \in Nat
               /\ loan'[l].emp = loan[l].emp /\ loan'[l].amount = loan[l].amount
               /\ l \notin Paying(t) => loan'[l] = loan[l] /\ repaid'[l] = repaid[l]
               /\ l \in Paying(t) =>
                     /\ repaid'[l] = repaid[l] + ShareOf(t, l)
                     /\ loan'[l].status = IF t.seen.open[l] - ShareOf(t, l) <= 0
                                          THEN "paid" ELSE loan[l].status
    <2>1. repaid'[l] = IF l \in Paying(t) THEN repaid[l] + ShareOf(t, l) ELSE repaid[l]
      BY <1>1, <1>3
    <2>2. repaid[l] \in Nat
      BY <1>3
    <2>3. loan'[l] = IF l \in Paying(t) /\ t.seen.open[l] - ShareOf(t, l) <= 0
                     THEN [loan[l] EXCEPT !.status = "paid"] ELSE loan[l]
      BY <1>1
    <2>4. loan[l] \in Loan
      BY <1>3
    <2> QED
      BY <1>2, <1>4, <2>1, <2>2, <2>3, <2>4
  <1>7. loan' = [l \in DOMAIN loan |-> loan'[l]] /\ repaid' = [l \in DOMAIN loan |-> repaid'[l]]
    BY <1>1, <1>3
  <1> QED
    BY <1>5, <1>6, <1>7

\* The deductions, when a run has written its payroll k into those of Q.
WithPayroll(Q, k) ==
    [d \in DOMAIN deduction |-> IF d \in Q THEN [deduction[d] EXCEPT !.payroll = k]
                                           ELSE deduction[d]]

\* A run writes a new payroll k, or the one it has read.
RunKey(t) == IF t.seen.old = {} THEN last["payroll"] + 1
                                ELSE (CHOOSE o \in t.seen.old : TRUE)[1]
RowOfRun(t, k) ==
    \/ /\ t.seen.old = {} /\ k = last["payroll"] + 1 /\ k \notin DOMAIN payroll
       /\ payroll'[k] = Sheet(t) /\ taken'[k] = Applied(t)
    \/ /\ k \in DOMAIN payroll /\ taken'[k] = taken[k] + Applied(t)
       /\ \E w \in Payroll : /\ t.seen.old = {<<k, w>>}
                            /\ payroll'[k] = Flushed(payroll[k], w, Sheet(t))

LEMMA RunWritesRow ==
    ASSUME TypedInv, NEW r \in Request, RunCommit(r), NEW t, t = tx[r],
           NEW k, k = RunKey(t)
    PROVE  /\ k \in RowIds
           /\ payroll' \in [DOMAIN payroll \cup {k} -> Payroll]
           /\ taken' \in [DOMAIN payroll \cup {k} -> Nat]
           /\ \A j \in DOMAIN payroll : j # k => payroll'[j] = payroll[j] /\ taken'[j] = taken[j]
           /\ RowOfRun(t, k)
           /\ last' \in [Tables -> 0..MaxRow]
           /\ \A i \in Tables \ {"payroll"} : last'[i] = last[i]
           /\ k <= last'["payroll"] /\ last["payroll"] <= last'["payroll"]
           /\ deduction' = WithPayroll(t.seen.pending, k)
  <1> PICK x, n : /\ x = IF t.seen.old = {} THEN Sheet(t)
                         ELSE Flushed(payroll[k], (CHOOSE o \in t.seen.old : TRUE)[2], Sheet(t))
                  /\ n = (IF k \in DOMAIN taken THEN taken[k] ELSE 0) + Applied(t)
    OBVIOUS
  <1>1. /\ k <= MaxRow /\ (\A o \in t.seen.old : k \in DOMAIN payroll)
        /\ payroll' = Insert(payroll, k, x) /\ taken' = Insert(taken, k, n)
        /\ deduction' = WithPayroll(t.seen.pending, k)
        /\ last' = [last EXCEPT !["payroll"] = IF k > @ THEN k ELSE @]
    BY DEF RunCommit, Applied, Paying, ShareOf, RunKey, WithPayroll
  <1>2. RunTyped(t) /\ Applied(t) \in Nat
    BY RunCommits
  <1>3. PayrollTable /\ Counters
    BY DEF TypedInv, RowsTyped
  <1>4. Sheet(t) \in Payroll
    BY <1>2, SheetIs
  <1>5. last["payroll"] \in 0..MaxRow
    BY <1>3 DEF Counters, Tables
  <1>6. ASSUME t.seen.old = {}
        PROVE  k = last["payroll"] + 1 /\ k \notin DOMAIN payroll /\ k \in RowIds
               /\ x = Sheet(t) /\ n = Applied(t)
    <2>1. k = last["payroll"] + 1 /\ k \notin DOMAIN payroll /\ k \in RowIds /\ x = Sheet(t)
      BY <1>1, <1>3, <1>5, <1>6, WagesConstants DEF PayrollTable, RowIds, RunKey
    <2>2. DOMAIN taken = DOMAIN payroll
      BY <1>3 DEF PayrollTable
    <2> QED
      BY <1>2, <2>1, <2>2
  <1>7. ASSUME t.seen.old # {}
        PROVE  /\ k \in RowIds /\ k \in DOMAIN payroll /\ n = taken[k] + Applied(t) /\ n \in Nat
               /\ \E w \in Payroll : /\ t.seen.old = {<<k, w>>} /\ x \in Payroll
                                     /\ x = Flushed(payroll[k], w, Sheet(t))
    <2>1. PICK i \in RowIds, w \in Payroll :
              t.seen.old = {<<i, w>>} /\ (CHOOSE o \in t.seen.old : TRUE) = <<i, w>>
      BY ONLY <1>2, <1>7, OldIsOne
    <2>2. k = i /\ k \in DOMAIN payroll /\ x = Flushed(payroll[k], w, Sheet(t))
      BY <1>1, <1>7, <2>1 DEF RunKey
    <2>3. taken[k] \in Nat /\ k \in DOMAIN taken /\ payroll[k] \in Payroll
      BY <1>3, <2>2 DEF PayrollTable
    <2>4. n = taken[k] + Applied(t) /\ n \in Nat
      BY <1>2, <2>3
    <2>5. x \in Payroll
      BY <1>4, <2>2, <2>3, PayrollFlushed
    <2> QED
      BY <2>1, <2>2, <2>4, <2>5
  <1>8. k \in RowIds /\ x \in Payroll /\ n \in Nat
    BY <1>2, <1>4, <1>6, <1>7
  <1>9. /\ payroll' \in [DOMAIN payroll \cup {k} -> Payroll] /\ payroll'[k] = x
        /\ \A j \in DOMAIN payroll : j # k => payroll'[j] = payroll[j]
    <2>1. payroll \in [DOMAIN payroll -> Payroll]
      BY <1>3 DEF PayrollTable
    <2> QED
      BY <1>1, <1>8, <2>1 DEF Insert
  <1>10. /\ taken' \in [DOMAIN payroll \cup {k} -> Nat] /\ taken'[k] = n
         /\ \A j \in DOMAIN payroll : j # k => taken'[j] = taken[j]
    <2>1. taken \in [DOMAIN payroll -> Nat]
      BY <1>3 DEF PayrollTable
    <2> QED
      BY <1>1, <1>8, <2>1 DEF Insert
  <1>11. /\ last' \in [Tables -> 0..MaxRow]
         /\ \A i \in Tables \ {"payroll"} : last'[i] = last[i]
         /\ k <= last'["payroll"] /\ last["payroll"] <= last'["payroll"]
    <2> PICK m : m = IF k > last["payroll"] THEN k ELSE last["payroll"]
      OBVIOUS
    <2>1. m \in 0..MaxRow /\ k <= m /\ last["payroll"] <= m
      BY <1>5, <1>8, WagesConstants DEF RowIds
    <2>2. last' = [last EXCEPT !["payroll"] = m] /\ last \in [Tables -> 0..MaxRow]
      BY <1>1, <1>3 DEF Counters
    <2> QED
      BY <2>1, <2>2 DEF Tables
  <1>12. RowOfRun(t, k)
    BY <1>6, <1>7, <1>9, <1>10 DEF RowOfRun
  <1> QED
    BY <1>1, <1>8, <1>9, <1>10, <1>11, <1>12

LEMMA RunCommitTyped ==
    ASSUME TypedInv, NEW r \in Request, RunCommit(r)
    PROVE  TypedInv'
  <1> PICK t : t = tx[r]
    OBVIOUS
  <1> PICK W : W = {<<"wages", t.arg.emp, t.arg.period>>} \cup {<<"loan", l>> : l \in Paying(t)}
    OBVIOUS
  <1>0. LoanTable /\ DeductionTable /\ PayrollTable /\ ExpenseTable /\ Counters
    BY DEF TypedInv, RowsTyped
  <1>1. Commit(r, W) /\ UNCHANGED <<staff, expense, posted, archived>>
    BY RunCommits
  <1>2. loan' \in [DOMAIN loan -> Loan] /\ repaid' \in [DOMAIN loan -> Nat]
    BY RunWritesLoans
  <1> PICK k : k = RunKey(t)
    OBVIOUS
  <1>3. /\ k \in RowIds
        /\ payroll' \in [DOMAIN payroll \cup {k} -> Payroll]
        /\ taken' \in [DOMAIN payroll \cup {k} -> Nat]
        /\ last' \in [Tables -> 0..MaxRow]
        /\ \A i \in Tables \ {"payroll"} : last'[i] = last[i]
        /\ k <= last'["payroll"] /\ last["payroll"] <= last'["payroll"]
        /\ deduction' = WithPayroll(t.seen.pending, k)
    BY ONLY TypedInv, r \in Request, RunCommit(r), t = tx[r], k = RunKey(t), RunWritesRow
  <1>4. LoanTable'
    BY <1>0, <1>2, <1>3 DEF LoanTable, Tables
  <1>5. PayrollTable'
    <2>1. last["payroll"] \in Int /\ last'["payroll"] \in Int
      BY <1>0, <1>3 DEF Counters, Tables
    <2>2. DOMAIN payroll' = DOMAIN payroll \cup {k} /\ DOMAIN payroll \subseteq 1..last["payroll"]
      BY <1>0, <1>3 DEF PayrollTable
    <2>3. DOMAIN payroll' \subseteq 1..last'["payroll"]
      BY <1>3, <2>1, <2>2 DEF RowIds
    <2> QED
      BY <1>3, <2>2, <2>3 DEF PayrollTable
  <1>6. DeductionTable'
    <2>1. deduction \in [DOMAIN deduction -> Deduction] /\ k \in 0..MaxRow
      BY <1>0, <1>3 DEF DeductionTable, RowIds
    <2>2. \A d \in DOMAIN deduction : [deduction[d] EXCEPT !.payroll = k] \in Deduction
      BY <2>1 DEF Deduction
    <2>3. deduction' \in [DOMAIN deduction -> Deduction]
      BY <1>3, <2>1, <2>2 DEF WithPayroll
    <2> QED
      BY <1>0, <1>3, <2>3 DEF DeductionTable, Tables
  <1>7. ExpenseTable'
    BY <1>0, <1>1, <1>3 DEF ExpenseTable, Tables
  <1>8. asked' \in 0..MaxRequest => Counters'
    BY <1>0, <1>1, <1>3 DEF Counters
  <1>9. asked' \in 0..MaxRequest => RowsTyped'
    BY <1>4, <1>5, <1>6, <1>7, <1>8 DEF RowsTyped
  <1> QED
    BY <1>1, <1>9, CommitTyped

LEMMA UpdateReadTyped ==
    ASSUME TypedInv, NEW r \in Request, NEW k \in DOMAIN payroll, NEW b \in Amount \cup {0},
           NEW m \in Amount \cup {0}, UpdateRead(r, k, b, m)
    PROVE  TypedInv'
  <1> DEFINE row == payroll[k]
             arg == [payroll |-> k, bonus |-> b, manual |-> m]
             seen == [row |-> row]
  <1> PICK t : t = Session("update", {<<"wages", row.emp, row.period>>}, arg, seen)
    OBVIOUS
  <1>1. Begin(r, t)
    BY DEF UpdateRead
  <1>2. DOMAIN t = SessionFields /\ t.kind = "update" /\ t.arg = arg /\ t.seen = seen
    BY DEF Session, SessionFields
  <1>3. k \in RowIds /\ row \in Payroll
    BY TableIds DEF TypedInv, RowsTyped, PayrollTable
  <1>4. b \in Nat /\ m \in Nat
    BY WagesConstants
  <1>5. UpdateTyped(t)
    BY <1>2, <1>3, <1>4 DEF UpdateTyped
  <1>6. Carries(t)
    BY <1>2, <1>5 DEF Carries
  <1> QED
    BY <1>1, <1>6, BeginTyped

\* The row an edit of a payroll makes, as it is written over the one that is there.
NetAdds(w) == w.net = w.base + w.bonus - w.loan - w.day - w.manual
\* What an update makes of a payroll.
Updated(row, new) ==
    /\ new.emp = row.emp /\ new.period = row.period /\ new.loan = row.loan /\ new.day = row.day
    /\ NetAdds(new)

LEMMA UpdateWrites ==
    ASSUME TypedInv, NEW r \in Request, UpdateCommit(r), NEW t, t = tx[r],
           NEW k, k = t.arg.payroll
    PROVE  /\ t # Idle /\ t.kind = "update" /\ UpdateTyped(t)
           /\ k \in DOMAIN payroll /\ payroll' \in [DOMAIN payroll -> Payroll]
           /\ \A j \in DOMAIN payroll : j # k => payroll'[j] = payroll[j]
           /\ \E new \in Payroll :
                 /\ payroll'[k] = Flushed(payroll[k], t.seen.row, new)
                 /\ Updated(t.seen.row, new)
           /\ Commit(r, {<<"wages", t.seen.row.emp, t.seen.row.period>>})
           /\ UNCHANGED <<staff, loan, repaid, deduction, taken, expense, posted, archived, last>>
  <1> PICK row : row = t.seen.row
    OBVIOUS
  <1> PICK net : net = row.base + t.arg.bonus - row.loan - row.day - t.arg.manual
    OBVIOUS
  <1> PICK new : new = [row EXCEPT !.bonus = t.arg.bonus, !.manual = t.arg.manual, !.net = net]
    OBVIOUS
  <1>1. /\ t # Idle /\ t.kind = "update" /\ k \in DOMAIN payroll
        /\ payroll' = [payroll EXCEPT ![k] = Flushed(@, row, new)]
        /\ Commit(r, {<<"wages", row.emp, row.period>>})
        /\ UNCHANGED <<staff, loan, repaid, deduction, taken, expense, posted, archived, last>>
    BY DEF UpdateCommit, At
  <1>2. UpdateTyped(t)
    BY <1>1 DEF TypedInv, Carries
  <1>3. row \in Payroll /\ t.arg.bonus \in Nat /\ t.arg.manual \in Nat
    BY <1>2 DEF UpdateTyped
  <1>4. net \in Int
    BY <1>3, PayrollIs
  <1>5. new \in Payroll
    BY ONLY <1>3, <1>4,
       new = [row EXCEPT !.bonus = t.arg.bonus, !.manual = t.arg.manual, !.net = net] DEF Payroll
  <1>6. /\ new.emp = row.emp /\ new.period = row.period /\ new.loan = row.loan
        /\ new.day = row.day /\ new.base = row.base /\ new.bonus = t.arg.bonus
        /\ new.manual = t.arg.manual /\ new.net = net
    BY ONLY <1>3,
       new = [row EXCEPT !.bonus = t.arg.bonus, !.manual = t.arg.manual, !.net = net] DEF Payroll
  <1>7. payroll \in [DOMAIN payroll -> Payroll] /\ payroll[k] \in Payroll
    BY <1>1 DEF TypedInv, RowsTyped, PayrollTable
  <1>8. Flushed(payroll[k], row, new) \in Payroll
    BY ONLY <1>3, <1>5, <1>7, PayrollFlushed
  <1>9. /\ payroll' \in [DOMAIN payroll -> Payroll]
        /\ payroll'[k] = Flushed(payroll[k], row, new)
        /\ \A j \in DOMAIN payroll : j # k => payroll'[j] = payroll[j]
    BY <1>1, <1>7, <1>8
  <1>10. new.net = new.base + new.bonus - new.loan - new.day - new.manual
    BY ONLY <1>6, net = row.base + t.arg.bonus - row.loan - row.day - t.arg.manual
  <1>11. Updated(row, new)
    BY ONLY <1>6, <1>10 DEF Updated, NetAdds
  <1> QED
    BY ONLY <1>1, <1>2, <1>5, <1>9, <1>11, row = t.seen.row

LEMMA UpdateCommitTyped ==
    ASSUME TypedInv, NEW r \in Request, UpdateCommit(r)
    PROVE  TypedInv'
  <1> PICK t, k, W : /\ t = tx[r] /\ k = t.arg.payroll
                     /\ W = {<<"wages", t.seen.row.emp, t.seen.row.period>>}
    OBVIOUS
  <1>0. LoanTable /\ DeductionTable /\ PayrollTable /\ ExpenseTable /\ Counters
    BY DEF TypedInv, RowsTyped
  <1>1. /\ payroll' \in [DOMAIN payroll -> Payroll] /\ Commit(r, W)
        /\ UNCHANGED <<staff, loan, repaid, deduction, taken, expense, posted, archived, last>>
    BY UpdateWrites
  <1>2. PayrollTable'
    BY <1>0, <1>1 DEF PayrollTable
  <1>3. /\ LoanTable' /\ DeductionTable' /\ ExpenseTable'
        /\ (asked' \in 0..MaxRequest => Counters')
    BY <1>0, <1>1 DEF LoanTable, DeductionTable, ExpenseTable, Counters
  <1>4. asked' \in 0..MaxRequest => RowsTyped'
    BY <1>2, <1>3 DEF RowsTyped
  <1> QED
    BY <1>1, <1>4, CommitTyped
-----------------------------------------------------------------------------
(* Expenses and their journals.                                             *)

\* What n on the accounts of j adds to account a.
Adds(j, n, a) == (IF a = j.category THEN n ELSE 0) - (IF a = j.till THEN n ELSE 0)

LEMMA BookIs ==
    ASSUME NEW p, p \in [Category \cup Till -> Int],
           NEW j, j.category \in Category, j.till \in Till, NEW n \in Int
    PROVE  /\ Book(p, j, n) \in [Category \cup Till -> Int]
           /\ \A a \in Category \cup Till :
                 Adds(j, n, a) \in Int /\ Book(p, j, n)[a] = p[a] + Adds(j, n, a)
  <1> PICK q, c, m : q = Book(p, j, n) /\ c = j.category /\ m = j.till
    OBVIOUS
  <1>1. q = [p EXCEPT ![c] = @ + n, ![m] = @ - n] /\ c \in Category /\ m \in Till
    BY DEF Book
  <1>2. c # m
    BY <1>1, WagesConstants
  <1>3. /\ q[c] = p[c] + n /\ q[m] = p[m] - n /\ DOMAIN q = Category \cup Till
        /\ q = [a \in Category \cup Till |-> q[a]]
        /\ \A a \in Category \cup Till : a # c /\ a # m => q[a] = p[a]
    BY <1>1, <1>2
  <1>4. ASSUME NEW a \in Category \cup Till
        PROVE  q[a] \in Int /\ Adds(j, n, a) \in Int /\ q[a] = p[a] + Adds(j, n, a)
    <2>1. p[a] \in Int
      OBVIOUS
    <2>2. CASE a = c
      BY <1>2, <1>3, <2>1, <2>2 DEF Adds
    <2>3. CASE a = m
      BY <1>2, <1>3, <2>1, <2>3 DEF Adds
    <2>4. CASE a # c /\ a # m
      <3>1. q[a] = p[a]
        BY <1>3, <2>4
      <3> QED
        BY <2>1, <2>4, <3>1 DEF Adds
    <2> QED
      BY <2>2, <2>3, <2>4
  <1> QED
    BY <1>3, <1>4

LEMMA BookedIs ==
    ASSUME NEW j, j.amount \in Nat, NEW a
    PROVE  Booked(j, a) \in Int
  BY DEF Booked

LEMMA ReferenceIsOne ==
    ASSUME TypedInv
    PROVE  NextReference \in Nat
  <1>1. IsFiniteSet(DOMAIN expense) /\ DOMAIN expense \subseteq RowIds
    BY TableIds
  <1>2. CASE DOMAIN expense # {}
    <2>1. DOMAIN expense \subseteq Int
      BY <1>1 DEF RowIds
    <2>2. \E x \in DOMAIN expense : \A y \in DOMAIN expense : y <= x
      BY <1>1, <1>2, <2>1, Largest
    <2>3. \E x \in DOMAIN expense : \A y \in DOMAIN expense : x >= y
      BY <2>1, <2>2
    <2>4. Max(DOMAIN expense) \in DOMAIN expense
      BY <2>3 DEF Max
    <2> QED
      BY <1>1, <1>2, <2>4 DEF NextReference, RowIds
  <1> QED
    BY <1>2 DEF NextReference

LEMMA NewExpenseTyped ==
    ASSUME NEW ref \in Nat, NEW c \in Category, NEW till \in Till, NEW n \in Nat,
           NEW k \in 0..MaxRow, NEW x, x = NewExpense(ref, c, till, n, k)
    PROVE  /\ x \in Expense /\ x.journal = JournalOf(x)
           /\ x.category = c /\ x.till = till /\ x.amount = n /\ x.payroll = k
  <1>1. x = [ref |-> ref, category |-> c, till |-> till, amount |-> n, payroll |-> k,
             journal |-> [category |-> c, till |-> till, amount |-> n]]
    BY DEF NewExpense
  <1>2. [category |-> c, till |-> till, amount |-> n] \in Journal
    BY DEF Journal
  <1> QED
    BY <1>1, <1>2 DEF Expense, JournalOf

LEMMA BillReadTyped ==
    ASSUME TypedInv, NEW r \in Request, NEW c \in Category, NEW till \in Till, NEW n \in Amount,
           BillRead(r, c, till, n)
    PROVE  TypedInv'
  <1> PICK x : x = NewExpense(NextReference, c, till, n, 0)
    OBVIOUS
  <1> PICK t : t = Session("bill", {<<"category", c>>}, [amount |-> n], [new |-> x])
    OBVIOUS
  <1>1. Begin(r, t)
    BY DEF BillRead
  <1>2. DOMAIN t = SessionFields /\ t.kind = "bill" /\ t.seen = [new |-> x]
    BY DEF Session, SessionFields
  <1>3. n \in Nat /\ 0 \in 0..MaxRow
    BY WagesConstants
  <1>4. x \in Expense /\ x.journal = JournalOf(x)
    BY <1>3, ReferenceIsOne, NewExpenseTyped
  <1>5. Carries(t)
    BY <1>2, <1>4 DEF Carries, BillTyped
  <1> QED
    BY <1>1, <1>5, BeginTyped

LEMMA PayReadTyped ==
    ASSUME TypedInv, NEW r \in Request, NEW k \in DOMAIN payroll, NEW till \in Till,
           PayRead(r, k, till)
    PROVE  TypedInv'
  <1> PICK x : x = NewExpense(NextReference, Salaries, till, payroll[k].net, k)
    OBVIOUS
  <1> DEFINE seen == [booked |-> \E y \in DOMAIN expense : expense[y].payroll = k,
                      wake |-> Salaries \in archived, row |-> payroll[k], new |-> x]
  <1> PICK t : t = Session("pay", {<<"category", Salaries>>}, [payroll |-> k], seen)
    OBVIOUS
  <1>1. Begin(r, t) /\ payroll[k].net > 0
    BY DEF PayRead
  <1>2. /\ DOMAIN t = SessionFields /\ t.kind = "pay" /\ t.arg = [payroll |-> k]
        /\ t.seen.new = x
    BY DEF Session, SessionFields
  <1>3. payroll[k] \in Payroll /\ k \in RowIds
    BY TableIds DEF TypedInv, RowsTyped, PayrollTable
  <1>4. payroll[k].net \in Nat
    BY <1>1, <1>3, PayrollIs
  <1>5. Salaries \in Category /\ k \in 0..MaxRow
    BY <1>3 DEF Category, RowIds
  <1>6. x \in Expense /\ x.journal = JournalOf(x)
    BY <1>4, <1>5, ReferenceIsOne, NewExpenseTyped
  <1>7. Carries(t)
    BY <1>2, <1>3, <1>6 DEF Carries, PayTyped, BillTyped
  <1> QED
    BY <1>1, <1>7, BeginTyped

LEMMA EditIs ==
    ASSUME NEW row \in Expense, NEW new,
           \/ \E n \in Amount : new = [row EXCEPT !.amount = n]
           \/ \E m \in Till : new = [row EXCEPT !.till = m]
           \/ \E c \in Category : new = [row EXCEPT !.category = c],
           NEW y, y = [new EXCEPT !.journal = JournalOf(new)]
    PROVE  /\ y \in Expense /\ y.journal = JournalOf(y)
           /\ y.category = new.category /\ y.payroll = row.payroll
  <1>1. \A n \in Amount : n \in Nat
    BY WagesConstants
  <1>2. new \in Expense /\ new.payroll = row.payroll
    BY <1>1 DEF Expense
  <1>3. JournalOf(new) \in Journal
    BY <1>2 DEF JournalOf, Journal, Expense
  <1>4. /\ y \in Expense /\ y.journal = JournalOf(new) /\ y.payroll = row.payroll
        /\ y.category = new.category /\ y.till = new.till /\ y.amount = new.amount
    BY <1>2, <1>3 DEF Expense
  <1> QED
    BY <1>4 DEF JournalOf

LEMMA EditReadTyped ==
    ASSUME TypedInv, NEW r \in Request, NEW x \in DOMAIN expense, NEW new \in Edits(x),
           EditRead(r, x, new)
    PROVE  TypedInv'
  <1> PICK row, y : row = expense[x] /\ y = [new EXCEPT !.journal = JournalOf(new)]
    OBVIOUS
  <1> PICK t : t = Session("edit", {<<"expense", x>>, <<"category", new.category>>},
                           [expense |-> x], [row |-> row, new |-> y])
    OBVIOUS
  <1>1. Begin(r, t)
    BY DEF EditRead
  <1>2. /\ DOMAIN t = SessionFields /\ t.kind = "edit" /\ t.arg = [expense |-> x]
        /\ t.seen = [row |-> row, new |-> y]
    BY DEF Session, SessionFields
  <1>3. row \in Expense /\ x \in RowIds
    BY TableIds DEF TypedInv, RowsTyped, ExpenseTable
  <1>4. \/ \E n \in Amount : new = [row EXCEPT !.amount = n]
        \/ \E m \in Till : new = [row EXCEPT !.till = m]
        \/ \E c \in Category : new = [row EXCEPT !.category = c]
    BY DEF Edits
  <1>5. y \in Expense /\ y.journal = JournalOf(y)
    BY ONLY <1>3, <1>4, y = [new EXCEPT !.journal = JournalOf(new)], EditIs
  <1>6. Carries(t)
    BY ONLY <1>2, <1>3, <1>5 DEF Carries, EditTyped, DeleteTyped, BillTyped
  <1> QED
    BY <1>1, <1>6, BeginTyped

LEMMA DeleteReadTyped ==
    ASSUME TypedInv, NEW r \in Request, NEW x \in DOMAIN expense, DeleteRead(r, x)
    PROVE  TypedInv'
  <1> PICK t : t = Session("delete", {<<"expense", x>>}, [expense |-> x], [row |-> expense[x]])
    OBVIOUS
  <1>1. Begin(r, t)
    BY DEF DeleteRead
  <1>2. /\ DOMAIN t = SessionFields /\ t.kind = "delete" /\ t.arg = [expense |-> x]
        /\ t.seen = [row |-> expense[x]]
    BY DEF Session, SessionFields
  <1>3. expense[x] \in Expense /\ x \in RowIds
    BY TableIds DEF TypedInv, RowsTyped, ExpenseTable
  <1>4. Carries(t)
    BY <1>2, <1>3 DEF Carries, DeleteTyped
  <1> QED
    BY <1>1, <1>4, BeginTyped

LEMMA ArchiveReadTyped ==
    ASSUME TypedInv, NEW r \in Request, NEW c \in Category, ArchiveRead(r, c)
    PROVE  TypedInv'
  <1> PICK t : t = Session("archive", {<<"category", c>>, <<"uses", c>>}, [category |-> c], None)
    OBVIOUS
  <1>1. Begin(r, t)
    BY DEF ArchiveRead
  <1>2. DOMAIN t = SessionFields /\ t.kind = "archive" /\ t.arg = [category |-> c]
    BY DEF Session, SessionFields
  <1>3. Carries(t)
    BY <1>2 DEF Carries, ArchiveTyped
  <1> QED
    BY <1>1, <1>3, BeginTyped

LEMMA ClearReadTyped ==
    ASSUME TypedInv, NEW r \in Request, ClearRead(r)
    PROVE  TypedInv'
  <1> PICK S : S = {x \in DOMAIN expense : expense[x].payroll # 0}
    OBVIOUS
  <1> PICK J : J = {<<x, expense[x].journal>> : x \in S}
    OBVIOUS
  <1> PICK t : t = Session("clear", {<<"expense", x>> : x \in S}, None, [journals |-> J])
    OBVIOUS
  <1>1. Begin(r, t)
    BY DEF ClearRead
  <1>2. DOMAIN t = SessionFields /\ t.kind = "clear" /\ t.seen = [journals |-> J]
    BY DEF Session, SessionFields
  <1>3. \A x \in S : x \in RowIds /\ expense[x].journal \in Journal
    BY TableIds DEF TypedInv, RowsTyped, ExpenseTable, Expense
  <1>4. J \subseteq RowIds \X Journal /\ \A i, j \in J : i[1] = j[1] => i = j
    BY <1>3
  <1>5. ClearTyped(t)
    <2>1. t.seen.journals = J
      BY ONLY <1>2
    <2> QED
      BY ONLY <1>4, <2>1 DEF ClearTyped
  <1>6. Carries(t)
    BY <1>2, <1>5 DEF Carries
  <1> QED
    BY <1>1, <1>6, BeginTyped

LEMMA InsertWrites ==
    ASSUME TypedInv, NEW x \in Expense, InsertExpense(x)
    PROVE  \E i \in RowIds :
             /\ i = last["expense"] + 1 /\ i \notin DOMAIN expense
             /\ expense' \in [DOMAIN expense \cup {i} -> Expense] /\ expense'[i] = x
             /\ \A y \in DOMAIN expense : expense'[y] = expense[y]
             /\ last' \in [Tables -> 0..MaxRow] /\ last'["expense"] = i
             /\ \A u \in Tables \ {"expense"} : last'[u] = last[u]
             /\ posted' \in [Category \cup Till -> Int]
             /\ \A a \in Category \cup Till : posted'[a] = posted[a] + Booked(x, a)
  <1> PICK i : i = last["expense"] + 1
    OBVIOUS
  <1>1. /\ i <= MaxRow /\ expense' = Insert(expense, i, x)
        /\ posted' = Book(posted, x, x.amount)
        /\ last' = [last EXCEPT !["expense"] = i]
    BY DEF InsertExpense
  <1>2. ExpenseTable /\ Counters
    BY DEF TypedInv, RowsTyped
  <1>3. last \in [Tables -> 0..MaxRow] /\ last["expense"] \in 0..MaxRow
    BY <1>2 DEF Counters, Tables
  <1>4. i \in RowIds /\ i \notin DOMAIN expense
    BY <1>1, <1>2, <1>3, WagesConstants DEF ExpenseTable, RowIds
  <1>5. /\ expense' \in [DOMAIN expense \cup {i} -> Expense] /\ expense'[i] = x
        /\ \A y \in DOMAIN expense : expense'[y] = expense[y]
    <2>1. expense \in [DOMAIN expense -> Expense]
      BY <1>2 DEF ExpenseTable
    <2> QED
      BY <1>1, <1>4, <2>1 DEF Insert
  <1>6. /\ last' \in [Tables -> 0..MaxRow] /\ last'["expense"] = i
        /\ \A u \in Tables \ {"expense"} : last'[u] = last[u]
    <2>1. i \in 0..MaxRow
      BY <1>4, WagesConstants DEF RowIds
    <2> QED
      BY <1>1, <1>3, <2>1 DEF Tables
  <1>7. x.category \in Category /\ x.till \in Till /\ x.amount \in Nat
    BY DEF Expense
  <1>8. posted \in [Category \cup Till -> Int]
    BY <1>2 DEF ExpenseTable
  <1>9. /\ posted' \in [Category \cup Till -> Int]
        /\ \A a \in Category \cup Till : posted'[a] = posted[a] + Adds(x, x.amount, a)
    <2> PICK n : n = x.amount
      OBVIOUS
    <2>1. n \in Int /\ x.category \in Category /\ x.till \in Till
      BY <1>7
    <2>2. Book(posted, x, n) \in [Category \cup Till -> Int]
      BY ONLY <1>8, <2>1, BookIs
    <2>3. \A a \in Category \cup Till : Book(posted, x, n)[a] = posted[a] + Adds(x, n, a)
      BY ONLY <1>8, <2>1, BookIs
    <2>4. posted' = Book(posted, x, n)
      BY <1>1
    <2> QED
      BY <2>2, <2>3, <2>4
  <1>10. \A a \in Category \cup Till : posted'[a] = posted[a] + Booked(x, a)
    BY <1>9 DEF Booked, Adds
  <1> QED
    BY <1>4, <1>5, <1>6, <1>9, <1>10

LEMMA InsertTyped ==
    ASSUME TypedInv, NEW x \in Expense, InsertExpense(x),
           UNCHANGED <<loan, repaid, deduction, staff>>,
           payroll' \in [DOMAIN payroll -> Payroll], taken' = taken, archived' \subseteq Category,
           asked' \in 0..MaxRequest
    PROVE  RowsTyped'
  <1>1. PICK i \in RowIds :
             /\ i = last["expense"] + 1 /\ i \notin DOMAIN expense
             /\ expense' \in [DOMAIN expense \cup {i} -> Expense]
             /\ last' \in [Tables -> 0..MaxRow] /\ last'["expense"] = i
             /\ \A u \in Tables \ {"expense"} : last'[u] = last[u]
             /\ posted' \in [Category \cup Till -> Int]
    BY InsertWrites
  <1>0. LoanTable /\ DeductionTable /\ PayrollTable /\ ExpenseTable /\ Counters
    BY DEF TypedInv, RowsTyped
  <1>2. LoanTable' /\ DeductionTable'
    BY <1>0, <1>1 DEF LoanTable, DeductionTable, Tables
  <1>3. PayrollTable'
    BY <1>0, <1>1 DEF PayrollTable, Tables
  <1>4. Counters'
    BY <1>0, <1>1 DEF Counters
  <1>5. ExpenseTable'
    <2>1. DOMAIN expense' = DOMAIN expense \cup {i} /\ DOMAIN expense \subseteq 1..last["expense"]
      BY <1>0, <1>1 DEF ExpenseTable
    <2>2. last["expense"] \in Nat
      BY <1>0 DEF Counters, Tables
    <2>3. DOMAIN expense' \subseteq 1..last'["expense"]
      BY <1>1, <2>1, <2>2
    <2> QED
      BY <1>1, <2>1, <2>3 DEF ExpenseTable
  <1> QED
    BY <1>2, <1>3, <1>4, <1>5 DEF RowsTyped

LEMMA BillCommitTyped ==
    ASSUME TypedInv, NEW r \in Request, BillCommit(r)
    PROVE  TypedInv'
  <1> PICK x, W : x = tx[r].seen.new /\ W = {<<"uses", x.category>>}
    OBVIOUS
  <1>1. /\ tx[r] # Idle /\ tx[r].kind = "bill" /\ InsertExpense(x) /\ Commit(r, W)
        /\ UNCHANGED <<staff, loan, repaid, deduction, payroll, taken, archived>>
    BY DEF BillCommit, At
  <1>2. x \in Expense
    BY <1>1 DEF TypedInv, Carries, BillTyped
  <1>3. payroll' \in [DOMAIN payroll -> Payroll] /\ archived' \subseteq Category
    BY <1>1 DEF TypedInv, RowsTyped, PayrollTable, Counters
  <1>4. asked' \in 0..MaxRequest => RowsTyped'
    BY <1>1, <1>2, <1>3, InsertTyped
  <1> QED
    BY <1>1, <1>4, CommitTyped

\* What a payment of a salary writes of the payroll.
LEMMA PayWrites ==
    ASSUME TypedInv, NEW r \in Request, PayCommit(r), NEW t, t = tx[r], NEW k, k = t.arg.payroll
    PROVE  /\ t # Idle /\ t.kind = "pay" /\ PayTyped(t) /\ k \in DOMAIN payroll
           /\ payroll' \in [DOMAIN payroll -> Payroll]
           /\ \A j \in DOMAIN payroll : j # k => payroll'[j] = payroll[j]
           /\ \A c \in PayrollFields : c # "paid" => payroll'[k][c] = payroll[k][c]
           /\ \/ UNCHANGED <<expense, posted, last, archived>>
              \/ InsertExpense(t.seen.new) /\ archived' \subseteq Category
           /\ \E W : Commit(r, W)
           /\ UNCHANGED <<staff, loan, repaid, deduction, taken>>
  <1>1. /\ t # Idle /\ t.kind = "pay" /\ k \in DOMAIN payroll
        /\ payroll' = [payroll EXCEPT ![k].paid = TRUE]
        /\ \/ UNCHANGED <<expense, posted, last, archived>>
           \/ InsertExpense(t.seen.new) /\ archived' \in {archived, archived \ {Salaries}}
        /\ UNCHANGED <<staff, loan, repaid, deduction, taken>>
    BY DEF PayCommit, At
  <1>2. PayTyped(t)
    BY <1>1 DEF TypedInv, Carries
  <1>3. /\ payroll \in [DOMAIN payroll -> Payroll] /\ archived \subseteq Category
    BY DEF TypedInv, RowsTyped, PayrollTable, Counters
  <1> PICK w : w = [payroll[k] EXCEPT !.paid = TRUE]
    OBVIOUS
  <1>4. payroll' = [payroll EXCEPT ![k] = w]
    BY <1>1
  <1>5. payroll[k] = [c \in PayrollFields |-> payroll[k][c]]
    BY <1>1, <1>3, PayrollIs
  <1>6. \A c \in PayrollFields : c # "paid" => w[c] = payroll[k][c]
    BY <1>5
  <1>7. w \in Payroll
    BY <1>1, <1>3 DEF Payroll
  <1>8. /\ payroll' \in [DOMAIN payroll -> Payroll] /\ payroll'[k] = w
        /\ \A j \in DOMAIN payroll : j # k => payroll'[j] = payroll[j]
    BY <1>1, <1>3, <1>4, <1>7
  <1>9. \E W : Commit(r, W)
    BY DEF PayCommit
  <1>10. archived' \in {archived, archived \ {Salaries}} => archived' \subseteq Category
    BY <1>3
  <1> QED
    BY <1>1, <1>2, <1>6, <1>8, <1>9, <1>10

LEMMA PayCommitTyped ==
    ASSUME TypedInv, NEW r \in Request, PayCommit(r)
    PROVE  TypedInv'
  <1> PICK t, k : t = tx[r] /\ k = t.arg.payroll
    OBVIOUS
  <1>0. LoanTable /\ DeductionTable /\ PayrollTable /\ ExpenseTable /\ Counters
    BY DEF TypedInv, RowsTyped
  <1>1. /\ PayTyped(t) /\ payroll' \in [DOMAIN payroll -> Payroll]
        /\ UNCHANGED <<staff, loan, repaid, deduction, taken>>
        /\ \/ UNCHANGED <<expense, posted, last, archived>>
           \/ InsertExpense(t.seen.new) /\ archived' \subseteq Category
    BY PayWrites
  <1>2. t.seen.new \in Expense
    BY <1>1 DEF PayTyped, BillTyped
  <1>3. CASE InsertExpense(t.seen.new) /\ archived' \subseteq Category
    BY <1>1, <1>2, <1>3, InsertTyped, PayWrites, CommitTyped
  <1>4. CASE UNCHANGED <<expense, posted, last, archived>>
    <2>1. LoanTable' /\ DeductionTable' /\ PayrollTable' /\ ExpenseTable'
      BY <1>0, <1>1, <1>4 DEF LoanTable, DeductionTable, PayrollTable, ExpenseTable
    <2>2. asked' \in 0..MaxRequest => Counters'
      BY <1>0, <1>1, <1>4 DEF Counters
    <2>3. asked' \in 0..MaxRequest => RowsTyped'
      BY <2>1, <2>2 DEF RowsTyped
    <2> QED
      BY <2>3, PayWrites, CommitTyped
  <1> QED
    BY <1>1, <1>3, <1>4

LEMMA EditWrites ==
    ASSUME TypedInv, NEW r \in Request, EditCommit(r), NEW t, t = tx[r],
           NEW x, x = t.arg.expense
    PROVE  /\ t # Idle /\ t.kind = "edit" /\ EditTyped(t) /\ x \in DOMAIN expense
           /\ expense' \in [DOMAIN expense -> Expense]
           /\ \A y \in DOMAIN expense : y # x => expense'[y] = expense[y]
           /\ expense[x] = t.seen.row => expense'[x] = t.seen.new
           /\ posted' \in [Category \cup Till -> Int]
           /\ \A a \in Category \cup Till :
                 posted'[a] = (posted[a] - Booked(t.seen.row, a)) + Booked(t.seen.new, a)
           /\ Commit(r, {<<"expense", x>>, <<"uses", t.seen.new.category>>})
           /\ UNCHANGED <<staff, loan, repaid, deduction, payroll, taken, archived, last>>
  <1> PICK row, new : row = t.seen.row /\ new = t.seen.new
    OBVIOUS
  <1>1. /\ t # Idle /\ t.kind = "edit" /\ x \in DOMAIN expense
        /\ expense' = [expense EXCEPT ![x] = [Flushed(@, row, new) EXCEPT !.journal = new.journal]]
        /\ posted' = Book(Book(posted, row, -row.amount), new, new.amount)
        /\ Commit(r, {<<"expense", x>>, <<"uses", new.category>>})
        /\ UNCHANGED <<staff, loan, repaid, deduction, payroll, taken, archived, last>>
    BY DEF EditCommit, At, Reversed
  <1>2. EditTyped(t)
    BY <1>1 DEF TypedInv, Carries
  <1>3. row \in Expense /\ new \in Expense
    BY <1>2 DEF EditTyped, DeleteTyped, BillTyped
  <1>4. expense \in [DOMAIN expense -> Expense] /\ posted \in [Category \cup Till -> Int]
    BY DEF TypedInv, RowsTyped, ExpenseTable
  <1> PICK y : y = [Flushed(expense[x], row, new) EXCEPT !.journal = new.journal]
    OBVIOUS
  <1>5. expense[x] \in Expense
    BY <1>1, <1>4
  <1>6. y \in Expense /\ (expense[x] = row => y = new)
    BY ONLY <1>3, <1>5, ExpenseFlushed,
       y = [Flushed(expense[x], row, new) EXCEPT !.journal = new.journal]
  <1>7. expense' = [expense EXCEPT ![x] = y]
    BY <1>1
  <1>8. /\ expense' \in [DOMAIN expense -> Expense] /\ expense'[x] = y
        /\ \A z \in DOMAIN expense : z # x => expense'[z] = expense[z]
    BY ONLY <1>1, <1>4, <1>6, <1>7
  <1> PICK n, m, p : n = -row.amount /\ m = new.amount /\ p = Book(posted, row, n)
    OBVIOUS
  <1>9. /\ n \in Int /\ m \in Int /\ row.category \in Category /\ row.till \in Till
        /\ new.category \in Category /\ new.till \in Till /\ row.amount \in Nat /\ new.amount \in Nat
    BY <1>3, ExpenseIs
  <1>10. Book(posted, row, n) \in [Category \cup Till -> Int]
    BY ONLY <1>4, <1>9, BookIs
  <1>11. \A a \in Category \cup Till :
             Adds(row, n, a) \in Int /\ Book(posted, row, n)[a] = posted[a] + Adds(row, n, a)
    BY ONLY <1>4, <1>9, BookIs
  <1>12. p \in [Category \cup Till -> Int]
    BY <1>10
  <1>13. Book(p, new, m) \in [Category \cup Till -> Int]
    BY ONLY <1>9, <1>12, BookIs
  <1>14. \A a \in Category \cup Till :
             Adds(new, m, a) \in Int /\ Book(p, new, m)[a] = p[a] + Adds(new, m, a)
    BY ONLY <1>9, <1>12, BookIs
  <1>15. posted' = Book(p, new, m)
    BY <1>1
  <1>16. ASSUME NEW a \in Category \cup Till
         PROVE  posted'[a] = (posted[a] - Booked(row, a)) + Booked(new, a)
    <2>1. posted'[a] = (posted[a] + Adds(row, n, a)) + Adds(new, m, a)
      BY <1>11, <1>14, <1>15
    <2>2. Booked(new, a) = Adds(new, m, a) /\ Booked(row, a) = -Adds(row, n, a)
      BY <1>9 DEF Booked, Adds
    <2>3. posted[a] \in Int /\ Adds(row, n, a) \in Int /\ Adds(new, m, a) \in Int
      BY <1>4, <1>11, <1>14
    <2> QED
      BY ONLY <2>1, <2>2, <2>3
  <1> QED
    BY <1>1, <1>2, <1>6, <1>8, <1>13, <1>15, <1>16

LEMMA EditCommitTyped ==
    ASSUME TypedInv, NEW r \in Request, EditCommit(r)
    PROVE  TypedInv'
  <1> PICK t, x, W : /\ t = tx[r] /\ x = t.arg.expense
                     /\ W = {<<"expense", x>>, <<"uses", t.seen.new.category>>}
    OBVIOUS
  <1>0. LoanTable /\ DeductionTable /\ PayrollTable /\ ExpenseTable /\ Counters
    BY DEF TypedInv, RowsTyped
  <1>1. /\ expense' \in [DOMAIN expense -> Expense] /\ posted' \in [Category \cup Till -> Int]
        /\ Commit(r, W)
        /\ UNCHANGED <<staff, loan, repaid, deduction, payroll, taken, archived, last>>
    BY EditWrites
  <1>2. ExpenseTable'
    BY <1>0, <1>1 DEF ExpenseTable
  <1>3. /\ LoanTable' /\ DeductionTable' /\ PayrollTable'
        /\ (asked' \in 0..MaxRequest => Counters')
    BY <1>0, <1>1 DEF LoanTable, DeductionTable, PayrollTable, Counters
  <1>4. asked' \in 0..MaxRequest => RowsTyped'
    BY <1>2, <1>3 DEF RowsTyped
  <1> QED
    BY <1>1, <1>4, CommitTyped

LEMMA DeleteWrites ==
    ASSUME TypedInv, NEW r \in Request, DeleteCommit(r), NEW t, t = tx[r],
           NEW x, x = t.arg.expense
    PROVE  /\ t # Idle /\ t.kind = "delete" /\ DeleteTyped(t)
           /\ expense' \in [DOMAIN expense \ {x} -> Expense]
           /\ \A y \in DOMAIN expense \ {x} : expense'[y] = expense[y]
           /\ posted' \in [Category \cup Till -> Int]
           /\ \A a \in Category \cup Till : posted'[a] = posted[a] - Booked(t.seen.row, a)
           /\ Commit(r, {<<"expense", x>>})
           /\ UNCHANGED <<staff, loan, repaid, deduction, payroll, taken, archived, last>>
  <1> PICK row : row = t.seen.row
    OBVIOUS
  <1>1. /\ t # Idle /\ t.kind = "delete"
        /\ expense' = Without(expense, {x})
        /\ posted' = Book(posted, row, -row.amount)
        /\ Commit(r, {<<"expense", x>>})
        /\ UNCHANGED <<staff, loan, repaid, deduction, payroll, taken, archived, last>>
    BY DEF DeleteCommit, At
  <1>2. DeleteTyped(t)
    BY <1>1 DEF TypedInv, Carries
  <1>3. row \in Expense
    BY <1>2 DEF DeleteTyped
  <1>4. expense \in [DOMAIN expense -> Expense] /\ posted \in [Category \cup Till -> Int]
    BY DEF TypedInv, RowsTyped, ExpenseTable
  <1>5. /\ expense' \in [DOMAIN expense \ {x} -> Expense]
        /\ \A y \in DOMAIN expense \ {x} : expense'[y] = expense[y]
    BY <1>1, <1>4 DEF Without
  <1> PICK n : n = -row.amount
    OBVIOUS
  <1>6. n \in Int /\ row.category \in Category /\ row.till \in Till /\ row.amount \in Nat
    BY <1>3, ExpenseIs
  <1>7. Book(posted, row, n) \in [Category \cup Till -> Int]
    BY ONLY <1>4, <1>6, BookIs
  <1>8. \A a \in Category \cup Till :
             Adds(row, n, a) \in Int /\ Book(posted, row, n)[a] = posted[a] + Adds(row, n, a)
    BY ONLY <1>4, <1>6, BookIs
  <1>9. posted' = Book(posted, row, n)
    BY <1>1
  <1>10. ASSUME NEW a \in Category \cup Till PROVE posted'[a] = posted[a] - Booked(row, a)
    <2>1. Booked(row, a) = -Adds(row, n, a)
      BY <1>6 DEF Booked, Adds
    <2>2. posted[a] \in Int /\ Adds(row, n, a) \in Int
      BY <1>4, <1>8
    <2> QED
      BY <1>8, <1>9, <2>1, <2>2
  <1> QED
    BY <1>1, <1>2, <1>5, <1>7, <1>9, <1>10

LEMMA DeleteCommitTyped ==
    ASSUME TypedInv, NEW r \in Request, DeleteCommit(r)
    PROVE  TypedInv'
  <1> PICK t, x, W : t = tx[r] /\ x = t.arg.expense /\ W = {<<"expense", x>>}
    OBVIOUS
  <1>0. LoanTable /\ DeductionTable /\ PayrollTable /\ ExpenseTable /\ Counters
    BY DEF TypedInv, RowsTyped
  <1>1. /\ expense' \in [DOMAIN expense \ {x} -> Expense]
        /\ posted' \in [Category \cup Till -> Int] /\ Commit(r, W)
        /\ UNCHANGED <<staff, loan, repaid, deduction, payroll, taken, archived, last>>
    BY DeleteWrites
  <1>2. ExpenseTable'
    BY <1>0, <1>1 DEF ExpenseTable
  <1>3. /\ LoanTable' /\ DeductionTable' /\ PayrollTable'
        /\ (asked' \in 0..MaxRequest => Counters')
    BY <1>0, <1>1 DEF LoanTable, DeductionTable, PayrollTable, Counters
  <1>4. asked' \in 0..MaxRequest => RowsTyped'
    BY <1>2, <1>3 DEF RowsTyped
  <1> QED
    BY <1>1, <1>4, CommitTyped

LEMMA ArchiveCommitTyped ==
    ASSUME TypedInv, NEW r \in Request, ArchiveCommit(r)
    PROVE  TypedInv'
  <1> PICK c, W : c = tx[r].arg.category /\ W = {<<"category", c>>}
    OBVIOUS
  <1>0. LoanTable /\ DeductionTable /\ PayrollTable /\ ExpenseTable /\ Counters
    BY DEF TypedInv, RowsTyped
  <1>1. /\ tx[r] # Idle /\ tx[r].kind = "archive"
        /\ archived' = archived \cup {c} /\ Commit(r, W)
        /\ UNCHANGED <<staff, loan, repaid, deduction, payroll, taken, expense, posted, last>>
    BY DEF ArchiveCommit, At
  <1>2. c \in Category
    BY <1>1 DEF TypedInv, Carries, ArchiveTyped
  <1>3. LoanTable' /\ DeductionTable' /\ PayrollTable' /\ ExpenseTable'
    BY <1>0, <1>1 DEF LoanTable, DeductionTable, PayrollTable, ExpenseTable
  <1>4. asked' \in 0..MaxRequest => Counters'
    BY <1>0, <1>1, <1>2 DEF Counters
  <1>5. asked' \in 0..MaxRequest => RowsTyped'
    BY <1>3, <1>4 DEF RowsTyped
  <1> QED
    BY <1>1, <1>5, CommitTyped

\* The journals a clearing has read are finitely many.
LEMMA JournalsFinite ==
    ASSUME NEW S, S \subseteq RowIds \X Journal, \A i, j \in S : i[1] = j[1] => i = j
    PROVE  IsFiniteSet(S)
  <1> PICK X : X = {j[1] : j \in S}
    OBVIOUS
  <1>1. X \subseteq RowIds
    OBVIOUS
  <1>2. IsFiniteSet(X)
    BY <1>1, IdsFinite
  <1> PICK f : f = [x \in X |-> CHOOSE j \in S : j[1] = x]
    OBVIOUS
  <1>3. \A x \in X : f[x] \in S /\ f[x][1] = x
    OBVIOUS
  <1>4. \A j \in S : j[1] \in X /\ f[j[1]] = j
    BY <1>3
  <1>5. f \in Surjection(X, S)
    BY <1>3, <1>4 DEF Surjection
  <1> QED
    BY <1>2, <1>5, FS_Surjection

\* The rows that a clearing's journals belong to.
Cleared(S) == {j[1] : j \in S}
Written(X) == {<<"expense", x>> : x \in X}
BookedBy(S, a) == SumFunction([j \in S |-> Booked(j[2], a)])

LEMMA ClearPosts ==
    ASSUME TypedInv, NEW r \in Request, ClearCommit(r), NEW S, S = tx[r].seen.journals,
           NEW a \in Category \cup Till
    PROVE  BookedBy(S, a) \in Int /\ posted'[a] = posted[a] - BookedBy(S, a)
  <1>1. tx[r] # Idle /\ tx[r].kind = "clear" /\ posted' = Unbooked(S)
    BY DEF ClearCommit, At
  <1>2. ClearTyped(tx[r])
    BY <1>1 DEF TypedInv, Carries
  <1>3. S \subseteq RowIds \X Journal /\ \A i, j \in S : i[1] = j[1] => i = j
    BY <1>2 DEF ClearTyped
  <1>4. IsFiniteSet(S)
    BY ONLY <1>3, JournalsFinite
  <1>5. posted \in [Category \cup Till -> Int]
    BY DEF TypedInv, RowsTyped, ExpenseTable
  <1> PICK f : f = [j \in S |-> Booked(j[2], a)]
    OBVIOUS
  <1>6. \A j \in S : j[2].amount \in Nat
    BY <1>3 DEF Journal
  <1>7. \A j \in S : f[j] \in Int
    BY <1>6, BookedIs
  <1>8. SumFunctionOnSet(f, S) \in Int
    BY <1>4, <1>7, SumIsInt
  <1>9. BookedBy(S, a) = SumFunctionOnSet(f, S)
    BY DEF BookedBy, SumFunction
  <1>10. posted'[a] = posted[a] - BookedBy(S, a)
    BY ONLY <1>1, <1>5, a \in Category \cup Till DEF Unbooked, BookedBy
  <1> QED
    BY <1>8, <1>9, <1>10

LEMMA ClearWrites ==
    ASSUME TypedInv, NEW r \in Request, ClearCommit(r), NEW t, t = tx[r],
           NEW S, S = t.seen.journals, NEW X, X = Cleared(S)
    PROVE  /\ t # Idle /\ t.kind = "clear" /\ ClearTyped(t)
           /\ IsFiniteSet(S)
           /\ staff' = [e \in Employee |-> "gone"]
           /\ loan' = None /\ repaid' = None /\ deduction' = None
           /\ payroll' = None /\ taken' = None
           /\ expense' \in [DOMAIN expense \ X -> Expense]
           /\ \A y \in DOMAIN expense \ X : expense'[y] = expense[y]
           /\ posted' \in [Category \cup Till -> Int]
           /\ Commit(r, Written(X))
           /\ UNCHANGED <<archived, last>>
  <1>1. /\ t # Idle /\ t.kind = "clear"
        /\ staff' = [e \in Employee |-> "gone"]
        /\ loan' = None /\ repaid' = None /\ deduction' = None
        /\ payroll' = None /\ taken' = None
        /\ expense' = Without(expense, X)
        /\ posted' = Unbooked(S)
        /\ Commit(r, Written(X))
        /\ UNCHANGED <<archived, last>>
    BY DEF ClearCommit, At, Cleared, Written
  <1>2. ClearTyped(t)
    BY <1>1 DEF TypedInv, Carries
  <1>3. S \subseteq RowIds \X Journal /\ \A i, j \in S : i[1] = j[1] => i = j
    BY <1>2 DEF ClearTyped
  <1>4. IsFiniteSet(S)
    BY ONLY <1>3, JournalsFinite
  <1>5. expense \in [DOMAIN expense -> Expense] /\ posted \in [Category \cup Till -> Int]
    BY DEF TypedInv, RowsTyped, ExpenseTable
  <1>6. /\ expense' \in [DOMAIN expense \ X -> Expense]
        /\ \A y \in DOMAIN expense \ X : expense'[y] = expense[y]
    BY ONLY <1>1, <1>5 DEF Without
  <1>7. ASSUME NEW a \in Category \cup Till
        PROVE  BookedBy(S, a) \in Int /\ posted'[a] = posted[a] - BookedBy(S, a)
    BY ClearPosts
  <1>8. posted' \in [Category \cup Till -> Int]
    <2>1. posted' = [a \in Category \cup Till |-> posted'[a]]
      BY ONLY <1>1, <1>5 DEF Unbooked
    <2>2. \A a \in Category \cup Till : posted'[a] \in Int
      BY <1>5, <1>7
    <2> QED
      BY <2>1, <2>2
  <1> QED
    BY <1>1, <1>2, <1>4, <1>6, <1>7, <1>8

LEMMA ClearCommitTyped ==
    ASSUME TypedInv, NEW r \in Request, ClearCommit(r)
    PROVE  TypedInv'
  <1> PICK t, S, X : t = tx[r] /\ S = t.seen.journals /\ X = Cleared(S)
    OBVIOUS
  <1> PICK W : W = Written(X)
    OBVIOUS
  <1>0. LoanTable /\ DeductionTable /\ PayrollTable /\ ExpenseTable /\ Counters
    BY DEF TypedInv, RowsTyped
  <1>1. /\ staff' = [e \in Employee |-> "gone"]
        /\ loan' = None /\ repaid' = None /\ deduction' = None
        /\ payroll' = None /\ taken' = None
        /\ expense' \in [DOMAIN expense \ X -> Expense]
        /\ posted' \in [Category \cup Till -> Int]
        /\ Commit(r, W)
        /\ UNCHANGED <<archived, last>>
    BY ClearWrites
  <1>2. ExpenseTable'
    BY <1>0, <1>1 DEF ExpenseTable
  <1>3. LoanTable' /\ DeductionTable' /\ PayrollTable'
    BY <1>1 DEF LoanTable, DeductionTable, PayrollTable, None
  <1>4. asked' \in 0..MaxRequest => Counters'
    BY <1>0, <1>1 DEF Counters
  <1>5. asked' \in 0..MaxRequest => RowsTyped'
    BY <1>2, <1>3, <1>4 DEF RowsTyped
  <1> QED
    BY <1>1, <1>5, CommitTyped

LEMMA AbortTyped ==
    ASSUME TypedInv, NEW r \in Request, Abort(r)
    PROVE  TypedInv'
  <1>1. Moved(r) /\ Carries(tx'[r]) /\ asked' = asked /\ UNCHANGED books
    BY AbortMoves, IdleCarries
  <1>2. RowsTyped'
    BY <1>1, BooksTyped DEF TypedInv, RowsTyped, Counters
  <1> QED
    BY <1>1, <1>2, SessionsCarry

LEMMA TypedStutter ==
    ASSUME TypedInv, UNCHANGED vars
    PROVE  TypedInv'
  <1>1. UNCHANGED books /\ asked' = asked /\ tx' = tx
    BY DEF vars
  <1>2. RowsTyped'
    BY <1>1, BooksTyped DEF TypedInv, RowsTyped, Counters
  <1> QED
    BY <1>1, <1>2 DEF TypedInv

LEMMA TypedStep == TypedInv /\ [Next]_vars => TypedInv'
  <1> SUFFICES ASSUME TypedInv, [Next]_vars PROVE TypedInv'
    OBVIOUS
  <1>1. CASE Next
    BY <1>1, CreateLoanTyped, CreateDeductionTyped, DeactivateTyped,
       RepayReadTyped, RepayFlushTyped, RepayCommitTyped, CancelReadTyped, CancelCommitTyped,
       RunReadTyped, RunCheckTyped, RunLoansTyped, RunCommitTyped,
       UpdateReadTyped, UpdateCommitTyped, BillReadTyped, BillCommitTyped,
       PayReadTyped, PayCommitTyped, EditReadTyped, EditCommitTyped,
       DeleteReadTyped, DeleteCommitTyped, ArchiveReadTyped, ArchiveCommitTyped,
       ClearReadTyped, ClearCommitTyped, AbortTyped DEF Next
  <1> QED
    BY <1>1, TypedStutter

LEMMA TypedHolds == Spec => []TypedInv
  BY TypedInit, TypedStep, PTL DEF Spec

LEMMA TypedIsTypeOK == TypedInv => TypeOK
  <1> SUFFICES ASSUME TypedInv PROVE TypeOK
    OBVIOUS
  <1>1. LoanTable /\ DeductionTable /\ PayrollTable /\ ExpenseTable /\ Counters
    BY DEF TypedInv, RowsTyped
  <1>2. /\ DOMAIN loan \subseteq 1..MaxRow /\ DOMAIN deduction \subseteq 1..MaxRow
        /\ DOMAIN payroll \subseteq 1..MaxRow /\ DOMAIN expense \subseteq 1..MaxRow
    BY TableIds DEF RowIds
  <1>3. Over(Loan, loan) /\ Over(Nat, repaid) /\ DOMAIN repaid = DOMAIN loan
    BY <1>1, <1>2 DEF Over, LoanTable
  <1>4. Over(Deduction, deduction)
    BY <1>1, <1>2 DEF Over, DeductionTable
  <1>5. Over(Payroll, payroll) /\ Over(Nat, taken) /\ DOMAIN taken = DOMAIN payroll
    BY <1>1, <1>2 DEF Over, PayrollTable
  <1>6. Over(Expense, expense)
    BY <1>1, <1>2 DEF Over, ExpenseTable
  <1> QED
    BY <1>1, <1>3, <1>4, <1>5, <1>6 DEF TypeOK, ExpenseTable, Counters

\* Every table of HR and of expenses keeps rows of its columns' types: no run,
\* repayment or rollback makes a repayment or a withholding negative
\* (hr.py:334-391, 1097-1212; expense_service.py:352-571).
THEOREM WagesTypeOK == Spec => []TypeOK
  BY TypedHolds, TypedIsTypeOK, PTL
-----------------------------------------------------------------------------
(* The journals and the expenses they were posted for.  A request that is   *)
(* not stale has read its expense as it is; unless one committed stale, an   *)
(* expense's journal says what the expense says, and the ledger is their sum.*)

NoneCrossed == \A o \in crossed : o[1] # "expense"

EditFresh(t) ==
    /\ <<"expense", t.arg.expense>> \in t.reads
    /\ t.stale \/ (t.arg.expense \in DOMAIN expense /\ expense[t.arg.expense] = t.seen.row)

ClearFresh(t) ==
    /\ \A j \in t.seen.journals : <<"expense", j[1]>> \in t.reads
    /\ t.stale \/ \A j \in t.seen.journals :
                      j[1] \in DOMAIN expense /\ expense[j[1]].journal = j[2]

Fresh(t) ==
    t # Idle => /\ t.kind \in {"edit", "delete"} => EditFresh(t)
                /\ t.kind = "clear" => ClearFresh(t)

JournalsAsRows == \A x \in DOMAIN expense : expense[x].journal = JournalOf(expense[x])
BookedFor(a) == SumFunction([x \in DOMAIN expense |-> Booked(expense[x], a)])
Explained == \A a \in Category \cup Till : posted[a] = BookedFor(a)

LedgerInv ==
    /\ \A r \in Request : Fresh(tx[r])
    /\ NoneCrossed => JournalsAsRows /\ Explained

\* Steps of r that leave all expenses but those of X as they were.
LEMMA FreshKept ==
    ASSUME LedgerInv, NEW r \in Request, Moved(r), Fresh(tx[r])', NEW X,
           \A y \in DOMAIN expense \ X : y \in DOMAIN expense' /\ expense'[y] = expense[y],
           \A s \in Request, x \in X :
              tx'[s] # Idle /\ <<"expense", x>> \in tx[s].reads => tx'[s].stale
    PROVE  \A s \in Request : Fresh(tx[s])'
  <1> SUFFICES ASSUME NEW s \in Request, s # r, tx'[s] # Idle PROVE Fresh(tx[s])'
    BY DEF Fresh
  <1>1. Stays(tx[s], tx'[s]) /\ Fresh(tx[s])
    BY DEF Moved, LedgerInv
  <1>2. /\ tx[s] # Idle /\ tx'[s].kind = tx[s].kind /\ tx'[s].reads = tx[s].reads
        /\ tx'[s].arg = tx[s].arg /\ tx'[s].seen = tx[s].seen /\ (tx[s].stale => tx'[s].stale)
    BY <1>1 DEF Stays
  <1>3. ASSUME tx[s].kind \in {"edit", "delete"} PROVE EditFresh(tx[s])'
    <2>1. EditFresh(tx[s])
      BY <1>1, <1>2, <1>3 DEF Fresh
    <2> QED
      BY <1>2, <2>1 DEF EditFresh
  <1>4. ASSUME tx[s].kind = "clear" PROVE ClearFresh(tx[s])'
    <2>1. ClearFresh(tx[s])
      BY <1>1, <1>2, <1>4 DEF Fresh
    <2>2. CASE \E j \in tx[s].seen.journals : j[1] \in X
      BY <1>2, <2>1, <2>2 DEF ClearFresh
    <2>3. CASE \A j \in tx[s].seen.journals : j[1] \notin X
      BY <1>2, <2>1, <2>3 DEF ClearFresh
    <2> QED
      BY <2>2, <2>3
  <1> QED
    BY <1>2, <1>3, <1>4 DEF Fresh

LEMMA IdleFresh ==
    ASSUME NEW r \in Request, tx'[r] = Idle
    PROVE  Fresh(tx[r])'
  BY DEF Fresh

\* A step that is not about expenses.
LEMMA LedgerKept ==
    ASSUME LedgerInv, NEW r \in Request, Moved(r), Fresh(tx[r])',
           UNCHANGED <<expense, posted>>, crossed \subseteq crossed'
    PROVE  LedgerInv'
  <1>1. \A s \in Request : Fresh(tx[s])'
    <2> PICK X : X = {}
      OBVIOUS
    <2>1. \A y \in DOMAIN expense \ X : y \in DOMAIN expense' /\ expense'[y] = expense[y]
      OBVIOUS
    <2>2. \A s \in Request, x \in X :
              tx'[s] # Idle /\ <<"expense", x>> \in tx[s].reads => tx'[s].stale
      OBVIOUS
    <2> QED
      BY <2>1, <2>2, FreshKept
  <1>2. NoneCrossed' => NoneCrossed
    BY DEF NoneCrossed
  <1> QED
    BY <1>1, <1>2 DEF LedgerInv, JournalsAsRows, Explained, BookedFor

\* What one row inserted, changed or deleted does to the sums.
LEMMA BookedForDiffers ==
    ASSUME TypedInv, TypedInv', NEW x, NEW a \in Category \cup Till,
           DOMAIN expense \ {x} = DOMAIN expense' \ {x},
           \A y \in DOMAIN expense \ {x} : expense'[y] = expense[y]
    PROVE  /\ BookedFor(a) \in Int
           /\ BookedFor(a)' = (BookedFor(a)
                                 - (IF x \in DOMAIN expense THEN Booked(expense[x], a) ELSE 0))
                                 + (IF x \in DOMAIN expense' THEN Booked(expense'[x], a) ELSE 0)
  <1> PICK S, T : S = DOMAIN expense /\ T = DOMAIN expense'
    OBVIOUS
  <1> PICK f, g : /\ f = [y \in S |-> Booked(expense[y], a)]
                  /\ g = [y \in T |-> Booked(expense'[y], a)]
    OBVIOUS
  <1>1. IsFiniteSet(S)
    BY TableIds
  <1>2. IsFiniteSet(T)
    <2>1. T \subseteq S \cup {x}
      OBVIOUS
    <2>2. IsFiniteSet(S \cup {x})
      BY <1>1, FS_AddElement
    <2> QED
      BY <2>1, <2>2, FS_Subset
  <1>3. \A y \in S : expense[y].amount \in Nat
    BY ExpenseIs DEF TypedInv, RowsTyped, ExpenseTable
  <1>4. \A y \in T : expense'[y].amount \in Nat
    BY ExpenseIs DEF TypedInv, RowsTyped, ExpenseTable
  <1>5. f \in [S -> Int] /\ g \in [T -> Int]
    BY <1>3, <1>4, BookedIs
  <1>6. S \ {x} = T \ {x} /\ \A y \in S \ {x} : f[y] = g[y]
    OBVIOUS
  <1>7. SumFunction(g) = SumFunction(f) - (IF x \in S THEN f[x] ELSE 0)
                                        + (IF x \in T THEN g[x] ELSE 0)
    BY <1>1, <1>2, <1>5, <1>6, SumDiffers
  <1>8. SumFunction(f) = BookedFor(a) /\ SumFunction(g) = BookedFor(a)'
    BY DEF BookedFor
  <1>9. SumFunction(f) \in Int
    BY <1>1, <1>5, SumIsInt DEF SumFunction
  <1> PICK m, n : m = (IF x \in S THEN f[x] ELSE 0) /\ n = (IF x \in T THEN g[x] ELSE 0)
    OBVIOUS
  <1>10. m \in Int /\ n \in Int
    BY <1>5
  <1>11. /\ m = (IF x \in DOMAIN expense THEN Booked(expense[x], a) ELSE 0)
         /\ n = (IF x \in DOMAIN expense' THEN Booked(expense'[x], a) ELSE 0)
    OBVIOUS
  <1>12. BookedFor(a)' = (BookedFor(a) - m) + n
    BY <1>7, <1>8, <1>9, <1>10
  <1> QED
    BY <1>8, <1>9, <1>11, <1>12

LEMMA LedgerInsert ==
    ASSUME TypedInv, TypedInv', LedgerInv, NEW r \in Request, Moved(r), tx'[r] = Idle,
           crossed \subseteq crossed', NEW x \in Expense, x.journal = JournalOf(x), InsertExpense(x)
    PROVE  LedgerInv'
  <1>1. PICK i \in RowIds :
             /\ i \notin DOMAIN expense
             /\ expense' \in [DOMAIN expense \cup {i} -> Expense] /\ expense'[i] = x
             /\ \A y \in DOMAIN expense : expense'[y] = expense[y]
             /\ \A a \in Category \cup Till : posted'[a] = posted[a] + Booked(x, a)
    BY InsertWrites
  <1>2. DOMAIN expense' = DOMAIN expense \cup {i}
    BY <1>1
  <1>3. \A s \in Request : Fresh(tx[s])'
    <2> PICK X : X = {}
      OBVIOUS
    <2>1. \A y \in DOMAIN expense \ X : y \in DOMAIN expense' /\ expense'[y] = expense[y]
      BY <1>1, <1>2
    <2>2. \A s \in Request, z \in X :
              tx'[s] # Idle /\ <<"expense", z>> \in tx[s].reads => tx'[s].stale
      OBVIOUS
    <2>3. Fresh(tx[r])'
      BY IdleFresh
    <2> QED
      BY <2>1, <2>2, <2>3, FreshKept
  <1>4. ASSUME NoneCrossed' PROVE JournalsAsRows' /\ Explained'
    <2>1. JournalsAsRows /\ Explained
      BY <1>4 DEF LedgerInv, NoneCrossed
    <2>2. JournalsAsRows'
      BY <1>1, <1>2, <2>1 DEF JournalsAsRows
    <2>3. ASSUME NEW a \in Category \cup Till PROVE posted'[a] = BookedFor(a)'
      <3>1. /\ BookedFor(a) \in Int
            /\ BookedFor(a)' = (BookedFor(a)
                                  - (IF i \in DOMAIN expense THEN Booked(expense[i], a) ELSE 0))
                                  + (IF i \in DOMAIN expense' THEN Booked(expense'[i], a) ELSE 0)
        <4>1. /\ DOMAIN expense \ {i} = DOMAIN expense' \ {i}
              /\ \A y \in DOMAIN expense \ {i} : expense'[y] = expense[y]
          BY <1>1, <1>2
        <4> QED
          BY <4>1, BookedForDiffers
      <3>2. Booked(x, a) \in Int
        BY ExpenseIs, BookedIs
      <3>3. BookedFor(a)' = BookedFor(a) + Booked(x, a)
        BY <1>1, <1>2, <3>1, <3>2
      <3> QED
        BY <1>1, <2>1, <3>3 DEF Explained
    <2> QED
      BY <2>2, <2>3 DEF Explained
  <1> QED
    BY <1>3, <1>4 DEF LedgerInv

LEMMA LedgerEdit ==
    ASSUME TypedInv, TypedInv', LedgerInv, NEW r \in Request, EditCommit(r)
    PROVE  LedgerInv'
  <1> PICK t, x, row, new : t = tx[r] /\ x = t.arg.expense /\ row = t.seen.row /\ new = t.seen.new
    OBVIOUS
  <1> PICK W : W = {<<"expense", x>>, <<"uses", t.seen.new.category>>}
    OBVIOUS
  <1>1. /\ t # Idle /\ t.kind = "edit" /\ EditTyped(t) /\ x \in DOMAIN expense
        /\ expense' \in [DOMAIN expense -> Expense]
        /\ \A y \in DOMAIN expense : y # x => expense'[y] = expense[y]
        /\ expense[x] = row => expense'[x] = new
        /\ \A a \in Category \cup Till :
              posted'[a] = (posted[a] - Booked(row, a)) + Booked(new, a)
    <2>1. t # Idle /\ t.kind = "edit" /\ EditTyped(t) /\ x \in DOMAIN expense
      BY EditWrites
    <2>2. expense' \in [DOMAIN expense -> Expense]
      BY EditWrites
    <2>3. \A y \in DOMAIN expense : y # x => expense'[y] = expense[y]
      BY EditWrites
    <2>4. expense[x] = row => expense'[x] = new
      BY EditWrites
    <2>5. \A a \in Category \cup Till :
          posted'[a] = (posted[a] - Booked(row, a)) + Booked(new, a)
      BY EditWrites
    <2> QED
      BY <2>1, <2>2, <2>3, <2>4, <2>5
  <1>1c. Commit(r, W)
    BY EditWrites
  <1>2. /\ Moved(r) /\ tx'[r] = Idle /\ crossed \subseteq crossed'
        /\ t.stale => t.reads \subseteq crossed'
        /\ \A s \in Request : tx'[s] # Idle /\ <<"expense", x>> \in tx[s].reads => tx'[s].stale
    BY <1>1c, CommitMoves
  <1>3. EditFresh(t)
    BY <1>1 DEF LedgerInv, Fresh
  <1>4. \A s \in Request : Fresh(tx[s])'
    <2> PICK X : X = {x}
      OBVIOUS
    <2>1. \A y \in DOMAIN expense \ X : y \in DOMAIN expense' /\ expense'[y] = expense[y]
      BY <1>1
    <2>2. \A s \in Request, z \in X :
              tx'[s] # Idle /\ <<"expense", z>> \in tx[s].reads => tx'[s].stale
      BY <1>2
    <2>3. Fresh(tx[r])'
      BY <1>2, IdleFresh
    <2> QED
      BY <1>2, <2>1, <2>2, <2>3, FreshKept
  <1>5. ASSUME NoneCrossed' PROVE JournalsAsRows' /\ Explained'
    <2>1. JournalsAsRows /\ Explained
      BY <1>2, <1>5 DEF LedgerInv, NoneCrossed
    <2>2. ~t.stale
      BY <1>2, <1>3, <1>5 DEF EditFresh, NoneCrossed
    <2>3. expense[x] = row /\ expense'[x] = new /\ DOMAIN expense' = DOMAIN expense
      BY <1>1, <1>3, <2>2 DEF EditFresh
    <2>4. row \in Expense /\ new \in Expense /\ new.journal = JournalOf(new)
      BY <1>1 DEF EditTyped, DeleteTyped, BillTyped
    <2>5. JournalsAsRows'
      BY <1>1, <2>1, <2>3, <2>4 DEF JournalsAsRows
    <2>6. ASSUME NEW a \in Category \cup Till PROVE posted'[a] = BookedFor(a)'
      <3>1. /\ BookedFor(a) \in Int
            /\ BookedFor(a)' = (BookedFor(a)
                                  - (IF x \in DOMAIN expense THEN Booked(expense[x], a) ELSE 0))
                                  + (IF x \in DOMAIN expense' THEN Booked(expense'[x], a) ELSE 0)
        <4>1. /\ DOMAIN expense \ {x} = DOMAIN expense' \ {x}
              /\ \A y \in DOMAIN expense \ {x} : expense'[y] = expense[y]
          BY <1>1, <2>3
        <4> QED
          BY <4>1, BookedForDiffers
      <3>2. Booked(row, a) \in Int /\ Booked(new, a) \in Int
        BY <2>4, ExpenseIs, BookedIs
      <3>3. BookedFor(a)' = (BookedFor(a) - Booked(row, a)) + Booked(new, a)
        BY <1>1, <2>3, <3>1, <3>2
      <3> QED
        BY <1>1, <2>1, <3>3 DEF Explained
    <2> QED
      BY <2>5, <2>6 DEF Explained
  <1> QED
    BY <1>4, <1>5 DEF LedgerInv

LEMMA LedgerDelete ==
    ASSUME TypedInv, TypedInv', LedgerInv, NEW r \in Request, DeleteCommit(r)
    PROVE  LedgerInv'
  <1> PICK t, x, row : t = tx[r] /\ x = t.arg.expense /\ row = t.seen.row
    OBVIOUS
  <1> PICK W : W = {<<"expense", x>>}
    OBVIOUS
  <1>1. /\ t # Idle /\ t.kind = "delete" /\ DeleteTyped(t)
        /\ expense' \in [DOMAIN expense \ {x} -> Expense]
        /\ \A y \in DOMAIN expense \ {x} : expense'[y] = expense[y]
        /\ \A a \in Category \cup Till : posted'[a] = posted[a] - Booked(row, a)
    <2>1. t # Idle /\ t.kind = "delete" /\ DeleteTyped(t)
      BY DeleteWrites
    <2>2. expense' \in [DOMAIN expense \ {x} -> Expense]
      BY DeleteWrites
    <2>3. \A y \in DOMAIN expense \ {x} : expense'[y] = expense[y]
      BY DeleteWrites
    <2>4. \A a \in Category \cup Till : posted'[a] = posted[a] - Booked(row, a)
      BY DeleteWrites
    <2> QED
      BY <2>1, <2>2, <2>3, <2>4
  <1>1c. Commit(r, W)
    BY DeleteWrites
  <1>2. /\ Moved(r) /\ tx'[r] = Idle /\ crossed \subseteq crossed'
        /\ t.stale => t.reads \subseteq crossed'
        /\ \A s \in Request : tx'[s] # Idle /\ <<"expense", x>> \in tx[s].reads => tx'[s].stale
    BY <1>1c, CommitMoves
  <1>3. EditFresh(t)
    BY <1>1 DEF LedgerInv, Fresh
  <1>4. \A s \in Request : Fresh(tx[s])'
    <2> PICK X : X = {x}
      OBVIOUS
    <2>1. \A y \in DOMAIN expense \ X : y \in DOMAIN expense' /\ expense'[y] = expense[y]
      BY <1>1
    <2>2. \A s \in Request, z \in X :
              tx'[s] # Idle /\ <<"expense", z>> \in tx[s].reads => tx'[s].stale
      BY <1>2
    <2>3. Fresh(tx[r])'
      BY <1>2, IdleFresh
    <2> QED
      BY <1>2, <2>1, <2>2, <2>3, FreshKept
  <1>5. ASSUME NoneCrossed' PROVE JournalsAsRows' /\ Explained'
    <2>1. JournalsAsRows /\ Explained
      BY <1>2, <1>5 DEF LedgerInv, NoneCrossed
    <2>2. ~t.stale
      BY <1>2, <1>3, <1>5 DEF EditFresh, NoneCrossed
    <2>3. x \in DOMAIN expense /\ expense[x] = row /\ DOMAIN expense' = DOMAIN expense \ {x}
      BY <1>1, <1>3, <2>2 DEF EditFresh
    <2>4. row \in Expense
      BY <1>1 DEF DeleteTyped
    <2>5. JournalsAsRows'
      BY <1>1, <2>1, <2>3 DEF JournalsAsRows
    <2>6. ASSUME NEW a \in Category \cup Till PROVE posted'[a] = BookedFor(a)'
      <3>1. /\ BookedFor(a) \in Int
            /\ BookedFor(a)' = (BookedFor(a)
                                  - (IF x \in DOMAIN expense THEN Booked(expense[x], a) ELSE 0))
                                  + (IF x \in DOMAIN expense' THEN Booked(expense'[x], a) ELSE 0)
        <4>1. /\ DOMAIN expense \ {x} = DOMAIN expense' \ {x}
              /\ \A y \in DOMAIN expense \ {x} : expense'[y] = expense[y]
          BY <1>1, <2>3
        <4> QED
          BY <4>1, BookedForDiffers
      <3>2. Booked(row, a) \in Int
        BY <2>4, ExpenseIs, BookedIs
      <3>3. BookedFor(a)' = BookedFor(a) - Booked(row, a)
        BY <2>3, <3>1, <3>2
      <3> QED
        BY <1>1, <2>1, <3>3 DEF Explained
    <2> QED
      BY <2>5, <2>6 DEF Explained
  <1> QED
    BY <1>4, <1>5 DEF LedgerInv

\* The journals a clearing has read are those of the expenses it deletes.
LEMMA ClearedSum ==
    ASSUME TypedInv, JournalsAsRows, NEW S, S \subseteq RowIds \X Journal,
           \A i, j \in S : i[1] = j[1] => i = j, IsFiniteSet(S),
           \A j \in S : j[1] \in DOMAIN expense /\ expense[j[1]].journal = j[2],
           NEW X, X = Cleared(S), NEW a \in Category \cup Till
    PROVE  /\ SumFunctionOnSet([x \in DOMAIN expense |-> Booked(expense[x], a)], X) = BookedBy(S, a)
           /\ BookedBy(S, a) \in Int
  <1> PICK f, h, g : /\ f = [j \in S |-> Booked(j[2], a)]
                     /\ h = [x \in DOMAIN expense |-> Booked(expense[x], a)]
                     /\ g = [j \in S |-> j[1]]
    OBVIOUS
  <1>1. ASSUME NEW j \in S PROVE f[j] \in Int /\ f[j] = h[g[j]]
    <2>1. j[2] \in Journal /\ j[1] \in DOMAIN expense /\ j[2] = JournalOf(expense[j[1]])
      BY DEF JournalsAsRows
    <2>2. /\ j[2].category = expense[j[1]].category /\ j[2].till = expense[j[1]].till
          /\ j[2].amount = expense[j[1]].amount
      BY <2>1 DEF JournalOf
    <2>3. j[2].amount \in Nat
      BY <2>1 DEF Journal
    <2>4. Booked(j[2], a) = Booked(expense[j[1]], a)
      BY <2>2 DEF Booked
    <2> QED
      BY <2>1, <2>3, <2>4, BookedIs
  <1>2. \A i, j \in S : g[i] = g[j] => i = j
    OBVIOUS
  <1>3. SumFunctionOnSet(f, S) = SumFunctionOnSet(h, {g[j] : j \in S})
    BY ONLY <1>1, <1>2, IsFiniteSet(S), SumRenamed
  <1>4. {g[j] : j \in S} = X
    BY DEF Cleared
  <1>5. BookedBy(S, a) = SumFunctionOnSet(f, S)
    BY DEF BookedBy, SumFunction
  <1>6. SumFunctionOnSet(f, S) \in Int
    BY <1>1, SumIsInt
  <1> QED
    BY <1>3, <1>4, <1>5, <1>6

LEMMA LedgerClear ==
    ASSUME TypedInv, TypedInv', LedgerInv, NEW r \in Request, ClearCommit(r)
    PROVE  LedgerInv'
  <1> PICK t, S, X : t = tx[r] /\ S = t.seen.journals /\ X = Cleared(S)
    OBVIOUS
  <1> PICK W : W = Written(X)
    OBVIOUS
  <1>1. /\ t # Idle /\ t.kind = "clear" /\ ClearTyped(t) /\ IsFiniteSet(S)
        /\ expense' \in [DOMAIN expense \ X -> Expense]
        /\ \A y \in DOMAIN expense \ X : expense'[y] = expense[y]
        /\ \A a \in Category \cup Till :
              BookedBy(S, a) \in Int /\ posted'[a] = posted[a] - BookedBy(S, a)
    <2>1. t # Idle /\ t.kind = "clear" /\ ClearTyped(t) /\ IsFiniteSet(S)
      BY ClearWrites
    <2>2. expense' \in [DOMAIN expense \ X -> Expense]
      BY ClearWrites
    <2>3. ASSUME NEW y \in DOMAIN expense \ X PROVE expense'[y] = expense[y]
      <3>1. expense' = Without(expense, X)
        BY DEF ClearCommit, Cleared
      <3> QED
        BY ONLY <3>1, y \in DOMAIN expense \ X DEF Without
    <2>4. ASSUME NEW a \in Category \cup Till
          PROVE  BookedBy(S, a) \in Int /\ posted'[a] = posted[a] - BookedBy(S, a)
      BY ClearPosts
    <2> QED
      BY <2>1, <2>2, <2>3, <2>4
  <1>1c. Commit(r, W)
    BY ClearWrites
  <1>2. /\ Moved(r) /\ tx'[r] = Idle /\ crossed \subseteq crossed'
        /\ t.stale => t.reads \subseteq crossed'
    BY <1>1c, CommitMoves
  <1>3. \A s \in Request, x \in X :
            tx'[s] # Idle /\ <<"expense", x>> \in tx[s].reads => tx'[s].stale
    <2>1. \A s \in Request : tx'[s] # Idle /\ tx[s].reads \cap W # {} => tx'[s].stale
      BY <1>1c, CommitMoves
    <2>2. \A x \in X : <<"expense", x>> \in W
      BY DEF Written
    <2> QED
      BY ONLY <2>1, <2>2
  <1>4. ClearFresh(t)
    BY <1>1 DEF LedgerInv, Fresh
  <1>5. \A s \in Request : Fresh(tx[s])'
    <2>1. \A y \in DOMAIN expense \ X : y \in DOMAIN expense' /\ expense'[y] = expense[y]
      BY <1>1
    <2>2. Fresh(tx[r])'
      BY <1>2, IdleFresh
    <2> QED
      BY <1>2, <1>3, <2>1, <2>2, FreshKept
  <1>6. ASSUME NoneCrossed' PROVE JournalsAsRows' /\ Explained'
    <2>1. JournalsAsRows /\ Explained
      BY <1>2, <1>6 DEF LedgerInv, NoneCrossed
    <2>2. \A j \in S : j[1] \in DOMAIN expense /\ expense[j[1]].journal = j[2]
      <3>1. CASE t.stale
        <4>1. ASSUME NEW j \in S PROVE FALSE
          BY <1>2, <1>4, <1>6, <3>1, <4>1 DEF ClearFresh, NoneCrossed
        <4> QED
          BY <4>1
      <3> QED
        BY <1>4, <3>1 DEF ClearFresh
    <2>3. DOMAIN expense' = DOMAIN expense \ X /\ X \subseteq DOMAIN expense
      BY <1>1, <2>2 DEF Cleared
    <2>4. JournalsAsRows'
      BY <1>1, <2>1, <2>3 DEF JournalsAsRows
    <2>5. S \subseteq RowIds \X Journal /\ \A i, j \in S : i[1] = j[1] => i = j
      BY <1>1 DEF ClearTyped
    <2>6. ASSUME NEW a \in Category \cup Till PROVE posted'[a] = BookedFor(a)'
      <3> PICK D : D = DOMAIN expense
        OBVIOUS
      <3> PICK h : h = [x \in D |-> Booked(expense[x], a)]
        OBVIOUS
      <3> PICK k : k = [x \in D \ X |-> Booked(expense'[x], a)]
        OBVIOUS
      <3>1. SumFunctionOnSet(h, X) = BookedBy(S, a)
        BY <1>1, <2>1, <2>2, <2>5, ClearedSum
      <3>2. IsFiniteSet(D) /\ X \subseteq D /\ IsFiniteSet(D \ X)
        BY <2>3, TableIds, FS_Subset
      <3>3. \A x \in D : expense[x].amount \in Nat
        BY ExpenseIs DEF TypedInv, RowsTyped, ExpenseTable
      <3>4. \A x \in D : h[x] \in Int
        BY <3>3, BookedIs
      <3>5. SumFunctionOnSet(h, D) = SumFunctionOnSet(h, X) + SumFunctionOnSet(h, D \ X)
        BY ONLY <3>2, <3>4, SumSplit
      <3>6. \A x \in D \ X : h[x] = k[x]
        BY <1>1
      <3>7. SumFunctionOnSet(h, D \ X) = SumFunctionOnSet(k, D \ X)
        BY ONLY <3>2, <3>6, SumSame
      <3>8. BookedFor(a) = SumFunctionOnSet(h, D) /\ BookedFor(a)' = SumFunctionOnSet(k, D \ X)
        BY <2>3 DEF BookedFor, SumFunction
      <3>9. SumFunctionOnSet(h, D \ X) \in Int
        BY <3>2, <3>4, SumIsInt
      <3>10. posted[a] = BookedFor(a) /\ posted'[a] = posted[a] - BookedBy(S, a)
             /\ BookedBy(S, a) \in Int
        BY <1>1, <2>1 DEF Explained
      <3> QED
        BY ONLY <3>1, <3>5, <3>7, <3>8, <3>9, <3>10
    <2> QED
      BY <2>4, <2>6 DEF Explained
  <1> QED
    BY <1>5, <1>6 DEF LedgerInv

\* A request that begins, goes on, or commits without an expense to its name.
LEMMA LedgerBegin ==
    ASSUME TypedInv, LedgerInv, NEW r \in Request, NEW t, Begin(r, t), Fresh(t)
    PROVE  LedgerInv'
  <1>1. /\ Moved(r) /\ tx'[r] = t /\ crossed' = crossed /\ UNCHANGED <<expense, posted>>
    BY BeginMoves DEF books
  <1>2. Fresh(tx[r])'
    BY <1>1 DEF Fresh, EditFresh, ClearFresh
  <1> QED
    BY <1>1, <1>2, LedgerKept

LEMMA PlainFresh ==
    ASSUME NEW kind, kind \notin {"edit", "delete", "clear"}, NEW reads, NEW arg, NEW seen
    PROVE  Fresh(Session(kind, reads, arg, seen))
  BY DEF Session, Fresh

LEMMA LedgerContinue ==
    ASSUME TypedInv, LedgerInv, NEW r \in Request, NEW pc, NEW reads, NEW seen,
           tx[r] # Idle, tx[r].kind \in {"repay", "run"}, Continue(r, pc, reads, seen)
    PROVE  LedgerInv'
  <1>1. /\ Moved(r) /\ crossed' = crossed /\ UNCHANGED <<expense, posted>>
        /\ tx'[r].kind = tx[r].kind
    BY ContinueMoves DEF books
  <1>2. Fresh(tx[r])'
    BY <1>1 DEF Fresh
  <1> QED
    BY <1>1, <1>2, LedgerKept

LEMMA LedgerCommit ==
    ASSUME TypedInv, LedgerInv, NEW r \in Request, NEW W, Commit(r, W),
           UNCHANGED <<expense, posted>>
    PROVE  LedgerInv'
  <1>1. Moved(r) /\ tx'[r] = Idle /\ crossed \subseteq crossed'
    BY CommitMoves
  <1>2. Fresh(tx[r])'
    BY <1>1, IdleFresh
  <1> QED
    BY <1>1, <1>2, LedgerKept

LEMMA LedgerAbort ==
    ASSUME TypedInv, LedgerInv, NEW r \in Request, Abort(r)
    PROVE  LedgerInv'
  <1>1. Moved(r) /\ tx'[r] = Idle /\ crossed' = crossed /\ UNCHANGED <<expense, posted>>
    BY AbortMoves DEF books
  <1>2. Fresh(tx[r])'
    BY <1>1, IdleFresh
  <1> QED
    BY <1>1, <1>2, LedgerKept

LEMMA LedgerStill ==
    ASSUME LedgerInv, UNCHANGED <<tx, crossed, expense, posted>>
    PROVE  LedgerInv'
  BY DEF LedgerInv, Fresh, EditFresh, ClearFresh, NoneCrossed, JournalsAsRows, Explained, BookedFor

LEMMA LedgerReads ==
    ASSUME TypedInv, LedgerInv, NEW r \in Request, NEW x \in DOMAIN expense,
           DeleteRead(r, x) \/ \E new \in Edits(x) : EditRead(r, x, new)
    PROVE  LedgerInv'
  <1>1. CASE DeleteRead(r, x)
    <2> PICK reads, arg, seen, t :
           /\ reads = {<<"expense", x>>} /\ arg = [expense |-> x] /\ seen = [row |-> expense[x]]
           /\ t = Session("delete", reads, arg, seen)
      OBVIOUS
    <2>1. Begin(r, t)
      BY <1>1 DEF DeleteRead
    <2>2. t.kind = "delete" /\ t.arg.expense = x /\ t.seen.row = expense[x] /\ t.reads = reads
      BY DEF Session
    <2>3. Fresh(t)
      BY <2>2 DEF Fresh, EditFresh
    <2> QED
      BY <2>1, <2>3, LedgerBegin
  <1>2. ASSUME NEW new \in Edits(x), EditRead(r, x, new) PROVE LedgerInv'
    <2> PICK reads, arg, seen, t :
           /\ reads = {<<"expense", x>>, <<"category", new.category>>}
           /\ arg = [expense |-> x]
           /\ seen = [row |-> expense[x], new |-> [new EXCEPT !.journal = JournalOf(new)]]
           /\ t = Session("edit", reads, arg, seen)
      OBVIOUS
    <2>1. Begin(r, t)
      BY <1>2 DEF EditRead
    <2>2. t.kind = "edit" /\ t.arg.expense = x /\ t.seen.row = expense[x] /\ t.reads = reads
      BY DEF Session
    <2>3. Fresh(t)
      BY <2>2 DEF Fresh, EditFresh
    <2> QED
      BY <2>1, <2>3, LedgerBegin
  <1> QED
    BY <1>1, <1>2

LEMMA LedgerClearRead ==
    ASSUME TypedInv, LedgerInv, NEW r \in Request, ClearRead(r)
    PROVE  LedgerInv'
  <1> PICK S : S = {x \in DOMAIN expense : expense[x].payroll # 0}
    OBVIOUS
  <1> PICK reads, journals, t :
         /\ reads = {<<"expense", x>> : x \in S}
         /\ journals = {<<x, expense[x].journal>> : x \in S}
         /\ t = Session("clear", reads, None, [journals |-> journals])
    OBVIOUS
  <1>1. Begin(r, t)
    BY DEF ClearRead
  <1>2. t.kind = "clear" /\ t.seen.journals = journals /\ t.reads = reads
    BY DEF Session
  <1>3. \A j \in journals :
           <<"expense", j[1]>> \in reads /\ j[1] \in DOMAIN expense /\ expense[j[1]].journal = j[2]
    OBVIOUS
  <1>4. Fresh(t)
    BY <1>2, <1>3 DEF Fresh, ClearFresh
  <1> QED
    BY <1>1, <1>4, LedgerBegin

LEMMA LedgerOthersRead ==
    ASSUME TypedInv, LedgerInv, NEW r \in Request,
           \/ \E l \in DOMAIN loan, n \in Instalment : RepayRead(r, l, n)
           \/ \E l \in DOMAIN loan, admin \in BOOLEAN : CancelRead(r, l, admin)
           \/ \E e \in Employee, p \in Period, b \in {{}} \cup {{n} : n \in Amount},
                n \in Instalment \cup {0} : RunRead(r, e, p, b, n)
           \/ \E k \in DOMAIN payroll, b \in Amount \cup {0}, m \in Amount \cup {0} :
                UpdateRead(r, k, b, m)
           \/ \E c \in Category, till \in Till, n \in Amount : BillRead(r, c, till, n)
           \/ \E k \in DOMAIN payroll, till \in Till : PayRead(r, k, till)
           \/ \E c \in Category : ArchiveRead(r, c)
    PROVE  LedgerInv'
  <1>1. \E kind, reads, arg, seen :
           /\ kind \notin {"edit", "delete", "clear"}
           /\ Begin(r, Session(kind, reads, arg, seen))
    <2>1. CASE \E l \in DOMAIN loan, n \in Instalment : RepayRead(r, l, n)
      BY <2>1 DEF RepayRead
    <2>2. CASE \E l \in DOMAIN loan, admin \in BOOLEAN : CancelRead(r, l, admin)
      BY <2>2 DEF CancelRead
    <2>3. CASE \E e \in Employee, p \in Period, b \in {{}} \cup {{n} : n \in Amount},
                n \in Instalment \cup {0} : RunRead(r, e, p, b, n)
      <3>1. PICK e, p, b, n : RunRead(r, e, p, b, n)
        BY <2>3
      <3> QED
        BY ONLY <3>1 DEF RunRead
    <2>4. CASE \E k \in DOMAIN payroll, b \in Amount \cup {0}, m \in Amount \cup {0} :
                UpdateRead(r, k, b, m)
      BY <2>4 DEF UpdateRead
    <2>5. CASE \E c \in Category, till \in Till, n \in Amount : BillRead(r, c, till, n)
      BY <2>5 DEF BillRead
    <2>6. CASE \E k \in DOMAIN payroll, till \in Till : PayRead(r, k, till)
      BY <2>6 DEF PayRead
    <2>7. CASE \E c \in Category : ArchiveRead(r, c)
      BY <2>7 DEF ArchiveRead
    <2> QED
      BY <2>1, <2>2, <2>3, <2>4, <2>5, <2>6, <2>7
  <1> QED
    BY <1>1, PlainFresh, LedgerBegin

LEMMA LedgerContinues ==
    ASSUME TypedInv, LedgerInv, NEW r \in Request, RepayFlush(r) \/ RunCheck(r) \/ RunLoans(r)
    PROVE  LedgerInv'
  <1>1. \E pc, reads, seen : /\ tx[r] # Idle /\ tx[r].kind \in {"repay", "run"}
                             /\ Continue(r, pc, reads, seen)
    BY DEF RepayFlush, RunCheck, RunLoans, At
  <1> QED
    BY <1>1, LedgerContinue

LEMMA LedgerOthersCommit ==
    ASSUME TypedInv, LedgerInv, NEW r \in Request,
           RepayCommit(r) \/ CancelCommit(r) \/ RunCommit(r) \/ UpdateCommit(r) \/ ArchiveCommit(r)
    PROVE  LedgerInv'
  <1>1. \E W : Commit(r, W) /\ UNCHANGED <<expense, posted>>
    BY DEF RepayCommit, CancelCommit, RunCommit, UpdateCommit, ArchiveCommit
  <1> QED
    BY <1>1, LedgerCommit

LEMMA LedgerBill ==
    ASSUME TypedInv, TypedInv', LedgerInv, NEW r \in Request, BillCommit(r)
    PROVE  LedgerInv'
  <1> PICK x : x = tx[r].seen.new
    OBVIOUS
  <1>1. tx[r] # Idle /\ tx[r].kind = "bill" /\ InsertExpense(x) /\ \E W : Commit(r, W)
    BY DEF BillCommit, At
  <1>2. x \in Expense /\ x.journal = JournalOf(x)
    BY <1>1 DEF TypedInv, Carries, BillTyped
  <1>3. Moved(r) /\ tx'[r] = Idle /\ crossed \subseteq crossed'
    BY <1>1, CommitMoves
  <1> QED
    BY <1>1, <1>2, <1>3, LedgerInsert

LEMMA LedgerPay ==
    ASSUME TypedInv, TypedInv', LedgerInv, NEW r \in Request, PayCommit(r)
    PROVE  LedgerInv'
  <1> PICK t, x : t = tx[r] /\ x = t.seen.new
    OBVIOUS
  <1>1. /\ t # Idle /\ t.kind = "pay" /\ (UNCHANGED <<expense, posted>> \/ InsertExpense(x))
        /\ \E W : Commit(r, W)
    BY DEF PayCommit, At
  <1>2. x \in Expense /\ x.journal = JournalOf(x)
    BY <1>1 DEF TypedInv, Carries, PayTyped, BillTyped
  <1>3. Moved(r) /\ tx'[r] = Idle /\ crossed \subseteq crossed'
    BY <1>1, CommitMoves
  <1> QED
    BY <1>1, <1>2, <1>3, LedgerInsert, LedgerCommit

LEMMA LedgerStep == TypedInv /\ TypedInv' /\ LedgerInv /\ [Next]_vars => LedgerInv'
  <1> SUFFICES ASSUME TypedInv, TypedInv', LedgerInv, [Next]_vars PROVE LedgerInv'
    OBVIOUS
  <1>1. CASE UNCHANGED vars
    BY <1>1, LedgerStill DEF vars, books
  <1>2. ASSUME \/ \E e \in Employee, n \in Principal : CreateLoan(e, n)
               \/ \E e \in Employee, p \in Period, n \in Amount, kind \in {"day", "manual"} :
                     CreateDeduction(e, p, kind, n)
               \/ \E e \in Employee : Deactivate(e)
        PROVE  LedgerInv'
    BY <1>2, LedgerStill DEF CreateLoan, CreateDeduction, Deactivate, Alone
  <1> QED
    BY <1>1, <1>2, LedgerOthersRead, LedgerReads, LedgerClearRead, LedgerContinues,
       LedgerOthersCommit, LedgerBill, LedgerPay, LedgerEdit, LedgerDelete, LedgerClear,
       LedgerAbort DEF Next

LEMMA LedgerInit == Init => LedgerInv
  <1> SUFFICES ASSUME Init PROVE LedgerInv
    OBVIOUS
  <1>1. \A r \in Request : Fresh(tx[r])
    BY DEF Init, Fresh
  <1>2. DOMAIN expense = {}
    BY DEF Init, None
  <1>3. ASSUME NEW a \in Category \cup Till PROVE BookedFor(a) = 0
    <2> PICK f : f = [x \in DOMAIN expense |-> Booked(expense[x], a)]
      OBVIOUS
    <2>1. SumFunctionOnSet(f, {}) = 0
      BY SumEmpty
    <2> QED
      BY <1>2, <2>1 DEF BookedFor, SumFunction
  <1>4. Explained
    BY <1>3 DEF Init, Explained
  <1> QED
    BY <1>1, <1>2, <1>4 DEF LedgerInv, JournalsAsRows

LEMMA LedgerHolds == Spec => []LedgerInv
  <1>1. Spec => []TypedInv
    BY TypedHolds
  <1>2. TypedInv /\ TypedInv' /\ LedgerInv /\ [Next]_vars => LedgerInv'
    BY LedgerStep
  <1> QED
    BY <1>1, <1>2, LedgerInit, PTL DEF Spec

LEMMA LedgerIsProperty == LedgerInv => LedgerIsLiveExpenses
  BY DEF LedgerInv, LedgerIsLiveExpenses, NoneCrossed, Explained, BookedFor

\* The journal entries are those of the live expenses, whatever was edited,
\* deleted or cleared, unless a request crossed another on one expense
\* (expense_service.py:102, hr.py:455).
THEOREM LedgerIsOfLiveExpenses == Spec => []LedgerIsLiveExpenses
  BY LedgerHolds, LedgerIsProperty, PTL
-----------------------------------------------------------------------------
(* Loans.  A repayment in flight knows, if no other session wrote its loan,  *)
(* that the loan is as it read it; and whoever wrote it, that a status it    *)
(* has settled on counts its own repayment, because balances only fall.  A   *)
(* run of the payroll knows the same of the balances it is going to share.   *)

RepayKnows(t) ==
    LET l == t.arg.loan IN
    /\ l <= last["loan"] /\ <<"loan", l>> \in t.reads
    /\ l \in DOMAIN loan =>
        /\ t.pc = "flushed" /\ t.seen.status = "paid" => repaid[l] + t.arg.amount >= loan[l].amount
        /\ t.stale \/ /\ t.arg.amount <= Balance(l) /\ loan[l] = t.seen.row
                      /\ t.pc = "flushed" => t.seen.status = LoanStatus(l, t.arg.amount)

RunKnows(t) ==
    LET open == t.seen.open IN
    /\ DOMAIN open \subseteq 1..last["loan"]
    /\ \A l \in DOMAIN open : <<"loan", l>> \in t.reads
    /\ \A l \in DOMAIN open \cap DOMAIN loan :
        /\ open[l] >= Balance(l)
        /\ t.stale \/ (loan[l].status = "open" /\ open[l] = Balance(l))

Knows(t) ==
    t # Idle => /\ t.kind = "repay" => RepayKnows(t)
                /\ t.kind = "run" => RunKnows(t)

LoansInv ==
    /\ \A r \in Request : Knows(tx[r])
    /\ PaidLoansAreRepaid /\ LoansStayWithinAmount

\* Ids of loans are not handed out again; a loan keeps its amount, what is repaid
\* of it does not fall, and only those of X are written.
LoansGrow(X) ==
    /\ last["loan"] <= last'["loan"]
    /\ \A l \in DOMAIN loan' \ DOMAIN loan : l > last["loan"]
    /\ \A l \in DOMAIN loan' \cap DOMAIN loan :
          /\ loan'[l].amount = loan[l].amount /\ loan'[l].emp = loan[l].emp
          /\ repaid'[l] >= repaid[l]
          /\ l \notin X => loan'[l] = loan[l] /\ repaid'[l] = repaid[l]

LEMMA LastIs ==
    ASSUME TypedInv, NEW u \in Tables
    PROVE  last[u] \in Nat /\ DOMAIN last = Tables
  BY WagesConstants DEF TypedInv, RowsTyped, Counters

\* What a request knows, another request's step leaves it knowing.
LEMMA RepayKnowsKept ==
    ASSUME TypedInv, TypedInv', NEW t, NEW u, Stays(t, u), RepayTyped(t), RepayKnows(t),
           NEW X, LoansGrow(X), \A l \in X : <<"loan", l>> \in t.reads => u.stale
    PROVE  RepayKnows(u)'
  <1> PICK l, n : l = t.arg.loan /\ n = t.arg.amount
    OBVIOUS
  <1>1. /\ u.pc = t.pc /\ u.reads = t.reads /\ u.arg.loan = l /\ u.arg.amount = n
        /\ u.seen = t.seen /\ (t.stale => u.stale)
    BY DEF Stays
  <1>2. l \in Nat /\ n \in Nat
    BY DEF RepayTyped, RowIds
  <1>3. /\ l <= last["loan"] /\ <<"loan", l>> \in t.reads
        /\ l \in DOMAIN loan =>
            /\ t.pc = "flushed" /\ t.seen.status = "paid" => repaid[l] + n >= loan[l].amount
            /\ t.stale \/ /\ n <= Balance(l) /\ loan[l] = t.seen.row
                          /\ t.pc = "flushed" => t.seen.status = LoanStatus(l, n)
    BY DEF RepayKnows
  <1>4. last["loan"] \in Nat /\ last'["loan"] \in Nat /\ last["loan"] <= last'["loan"]
    BY LastIs DEF LoansGrow, Tables, TypedInv, RowsTyped, Counters
  <1>5. ASSUME l \in DOMAIN loan'
        PROVE  /\ t.pc = "flushed" /\ t.seen.status = "paid" => repaid'[l] + n >= loan'[l].amount
               /\ u.stale \/ /\ n <= Balance(l)' /\ loan'[l] = t.seen.row
                             /\ t.pc = "flushed" => t.seen.status = LoanStatus(l, n)'
    <2>1. l \in DOMAIN loan
      BY <1>2, <1>3, <1>4, <1>5 DEF LoansGrow
    <2>2. /\ loan'[l].amount = loan[l].amount /\ repaid'[l] >= repaid[l]
          /\ l \notin X => loan'[l] = loan[l] /\ repaid'[l] = repaid[l]
      BY <1>5, <2>1 DEF LoansGrow
    <2>3. loan[l].amount \in Nat /\ repaid[l] \in Nat /\ repaid'[l] \in Nat
      <3>1. repaid' \in [DOMAIN loan' -> Nat]
        BY DEF TypedInv, RowsTyped, LoanTable
      <3> QED
        BY <1>5, <2>1, <3>1, BalanceIs
    <2>4. t.pc = "flushed" /\ t.seen.status = "paid" => repaid'[l] + n >= loan'[l].amount
      BY <1>2, <1>3, <2>1, <2>2, <2>3
    <2>5. CASE l \in X
      BY <1>3, <2>4, <2>5
    <2>6. CASE l \notin X
      BY <1>1, <1>3, <2>1, <2>2, <2>4, <2>6 DEF Balance, LoanStatus
    <2> QED
      BY <2>5, <2>6
  <1> QED
    BY <1>1, <1>2, <1>3, <1>4, <1>5 DEF RepayKnows

LEMMA RunKnowsKept ==
    ASSUME TypedInv, TypedInv', NEW t, NEW u, Stays(t, u), RunTyped(t), RunKnows(t),
           NEW X, LoansGrow(X), \A l \in X : <<"loan", l>> \in t.reads => u.stale
    PROVE  RunKnows(u)'
  <1> PICK open : open = t.seen.open
    OBVIOUS
  <1>1. u.reads = t.reads /\ u.seen.open = open /\ (t.stale => u.stale)
    BY DEF Stays
  <1>2. open \in [DOMAIN open -> Int] /\ DOMAIN open \subseteq Nat
    BY DEF RunTyped, RowIds
  <1>3. /\ DOMAIN open \subseteq 1..last["loan"]
        /\ \A l \in DOMAIN open : <<"loan", l>> \in t.reads
        /\ \A l \in DOMAIN open \cap DOMAIN loan :
            /\ open[l] >= Balance(l)
            /\ t.stale \/ (loan[l].status = "open" /\ open[l] = Balance(l))
    BY DEF RunKnows
  <1>4. last["loan"] \in Nat /\ last'["loan"] \in Nat /\ last["loan"] <= last'["loan"]
    BY LastIs DEF LoansGrow, Tables, TypedInv, RowsTyped, Counters
  <1>5. ASSUME NEW l \in DOMAIN open \cap DOMAIN loan'
        PROVE  /\ open[l] >= Balance(l)'
               /\ u.stale \/ (loan'[l].status = "open" /\ open[l] = Balance(l)')
    <2>1. l \in DOMAIN loan
      BY <1>2, <1>3, <1>4 DEF LoansGrow
    <2>2. /\ loan'[l].amount = loan[l].amount /\ repaid'[l] >= repaid[l]
          /\ l \notin X => loan'[l] = loan[l] /\ repaid'[l] = repaid[l]
      BY <2>1 DEF LoansGrow
    <2>3. loan[l].amount \in Nat /\ repaid[l] \in Nat /\ repaid'[l] \in Nat /\ open[l] \in Int
      <3>1. repaid' \in [DOMAIN loan' -> Nat]
        BY DEF TypedInv, RowsTyped, LoanTable
      <3> QED
        BY <1>2, <2>1, <3>1, BalanceIs
    <2>4. open[l] >= Balance(l)'
      BY <1>3, <2>1, <2>2, <2>3 DEF Balance
    <2>5. CASE l \in X
      BY <1>3, <2>4, <2>5
    <2>6. CASE l \notin X
      BY <1>1, <1>3, <2>1, <2>2, <2>4, <2>6 DEF Balance
    <2> QED
      BY <2>5, <2>6
  <1>6. DOMAIN open \subseteq 1..last'["loan"]
    BY <1>2, <1>3, <1>4
  <1> QED
    BY <1>1, <1>3, <1>5, <1>6 DEF RunKnows

LEMMA KnowsKept ==
    ASSUME TypedInv, TypedInv', LoansInv, NEW r \in Request, Moved(r), Knows(tx[r])',
           NEW X, LoansGrow(X),
           \A s \in Request, l \in X :
              tx'[s] # Idle /\ <<"loan", l>> \in tx[s].reads => tx'[s].stale
    PROVE  \A s \in Request : Knows(tx[s])'
  <1> SUFFICES ASSUME NEW s \in Request, s # r, tx'[s] # Idle PROVE Knows(tx[s])'
    BY DEF Knows
  <1>1. Stays(tx[s], tx'[s]) /\ Knows(tx[s]) /\ Carries(tx[s])
    BY DEF Moved, LoansInv, TypedInv
  <1>2. tx[s] # Idle /\ tx'[s].kind = tx[s].kind
    BY <1>1 DEF Stays
  <1>3. \A l \in X : <<"loan", l>> \in tx[s].reads => tx'[s].stale
    OBVIOUS
  <1>4. ASSUME tx[s].kind = "repay" PROVE RepayKnows(tx[s])'
    <2>1. RepayTyped(tx[s]) /\ RepayKnows(tx[s])
      BY <1>1, <1>2, <1>4 DEF Knows, Carries
    <2> QED
      BY ONLY <1>1, <1>3, <2>1, TypedInv, TypedInv', LoansGrow(X), RepayKnowsKept
  <1>5. ASSUME tx[s].kind = "run" PROVE RunKnows(tx[s])'
    <2>1. RunTyped(tx[s]) /\ RunKnows(tx[s])
      BY <1>1, <1>2, <1>5 DEF Knows, Carries
    <2> QED
      BY ONLY <1>1, <1>3, <2>1, TypedInv, TypedInv', LoansGrow(X), RunKnowsKept
  <1> QED
    BY <1>2, <1>4, <1>5 DEF Knows

\* Steps that are not about loans.
LEMMA LoansKept ==
    ASSUME TypedInv, TypedInv', LoansInv, NEW r \in Request, Moved(r), Knows(tx[r])',
           UNCHANGED <<loan, repaid>>, last'["loan"] = last["loan"], crossed \subseteq crossed'
    PROVE  LoansInv'
  <1> PICK X : X = {}
    OBVIOUS
  <1>1. LoansGrow(X)
    <2>1. last["loan"] <= last'["loan"]
      BY LastIs DEF Tables
    <2>2. \A l \in DOMAIN loan : repaid[l] \in Nat
      BY BalanceIs
    <2> QED
      BY <2>1, <2>2 DEF LoansGrow
  <1>2. \A s \in Request : Knows(tx[s])'
    BY <1>1, KnowsKept
  <1>3. PaidLoansAreRepaid' /\ LoansStayWithinAmount'
    BY DEF LoansInv, PaidLoansAreRepaid, LoansStayWithinAmount
  <1> QED
    BY <1>2, <1>3 DEF LoansInv

LEMMA IdleKnows ==
    ASSUME NEW r \in Request, tx'[r] = Idle
    PROVE  Knows(tx[r])'
  BY DEF Knows

LEMMA LoansBegin ==
    ASSUME TypedInv, TypedInv', LoansInv, NEW r \in Request, NEW t, Begin(r, t), Knows(t)
    PROVE  LoansInv'
  <1>1. /\ Moved(r) /\ tx'[r] = t /\ crossed' = crossed /\ UNCHANGED <<loan, repaid, last>>
    BY BeginMoves DEF books
  <1>2. Knows(tx[r])'
    BY <1>1 DEF Knows, RepayKnows, RunKnows, Balance, LoanStatus
  <1> QED
    BY <1>1, <1>2, LoansKept

LEMMA LoansCommit ==
    ASSUME TypedInv, TypedInv', LoansInv, NEW r \in Request, NEW W, Commit(r, W),
           UNCHANGED <<loan, repaid>>, last'["loan"] = last["loan"]
    PROVE  LoansInv'
  <1>1. Moved(r) /\ tx'[r] = Idle /\ crossed \subseteq crossed'
    BY CommitMoves
  <1>2. Knows(tx[r])'
    BY <1>1, IdleKnows
  <1> QED
    BY <1>1, <1>2, LoansKept

LEMMA LoansAbort ==
    ASSUME TypedInv, TypedInv', LoansInv, NEW r \in Request, Abort(r)
    PROVE  LoansInv'
  <1>1. Moved(r) /\ tx'[r] = Idle /\ crossed' = crossed /\ UNCHANGED <<loan, repaid, last>>
    BY AbortMoves DEF books
  <1>2. Knows(tx[r])'
    BY <1>1, IdleKnows
  <1> QED
    BY <1>1, <1>2, LoansKept

LEMMA LoansStill ==
    ASSUME LoansInv, UNCHANGED <<tx, crossed, loan, repaid>>, last'["loan"] = last["loan"]
    PROVE  LoansInv'
  <1>1. \A s \in Request : Knows(tx[s])'
    BY DEF LoansInv, Knows, RepayKnows, RunKnows, Balance, LoanStatus
  <1>2. PaidLoansAreRepaid' /\ LoansStayWithinAmount'
    BY DEF LoansInv, PaidLoansAreRepaid, LoansStayWithinAmount
  <1> QED
    BY <1>1, <1>2 DEF LoansInv

\* A loan is granted.
LEMMA LoansCreate ==
    ASSUME TypedInv, TypedInv', LoansInv, NEW e \in Employee, NEW n \in Principal, CreateLoan(e, n)
    PROVE  LoansInv'
  <1> PICK l, x : l = last["loan"] + 1 /\ x = [emp |-> e, amount |-> n, status |-> "open"]
    OBVIOUS
  <1>1. /\ loan' = Insert(loan, l, x) /\ repaid' = Insert(repaid, l, 0)
        /\ last' = [last EXCEPT !["loan"] = l] /\ UNCHANGED <<tx, crossed>>
    BY DEF CreateLoan, Alone
  <1>2. /\ last["loan"] \in Nat /\ l \in Nat /\ l > last["loan"] /\ last'["loan"] = l
    BY <1>1, LastIs DEF Tables
  <1>3. DOMAIN loan \subseteq 1..last["loan"] /\ DOMAIN repaid = DOMAIN loan
    BY DEF TypedInv, RowsTyped, LoanTable
  <1>4. l \notin DOMAIN loan
    BY <1>2, <1>3
  <1>5. /\ DOMAIN loan' = DOMAIN loan \cup {l}
        /\ loan'[l].amount = n /\ loan'[l].status = "open" /\ repaid'[l] = 0
        /\ \A m \in DOMAIN loan : loan'[m] = loan[m] /\ repaid'[m] = repaid[m]
    BY <1>1, <1>3, <1>4 DEF Insert
  <1>6. \A s \in Request : Knows(tx[s])'
    <2> SUFFICES ASSUME NEW s \in Request, tx[s] # Idle PROVE Knows(tx[s])'
      BY <1>1 DEF Knows
    <2> PICK t : t = tx[s]
      OBVIOUS
    <2>1. Carries(t) /\ Stays(t, t) /\ Knows(t) /\ tx'[s] = t
      BY <1>1, Itself DEF TypedInv, LoansInv
    <2> PICK X : X = {}
      OBVIOUS
    <2>2. LoansGrow(X)
      <3>1. \A m \in DOMAIN loan : repaid[m] \in Nat
        BY BalanceIs
      <3> QED
        BY <1>2, <1>5, <3>1 DEF LoansGrow
    <2>3. \A m \in X : <<"loan", m>> \in t.reads => t.stale
      OBVIOUS
    <2>4. t.kind = "repay" => RepayKnows(t)'
      BY <2>1, <2>2, <2>3, RepayKnowsKept DEF Knows, Carries
    <2>5. t.kind = "run" => RunKnows(t)'
      BY <2>1, <2>2, <2>3, RunKnowsKept DEF Knows, Carries
    <2> QED
      BY <2>1, <2>4, <2>5 DEF Knows, RepayKnows, RunKnows, Balance, LoanStatus
  <1>7. n \in Nat \ {0}
    BY WagesConstants
  <1>8. PaidLoansAreRepaid' /\ LoansStayWithinAmount'
    BY <1>1, <1>5, <1>7 DEF LoansInv, PaidLoansAreRepaid, LoansStayWithinAmount
  <1> QED
    BY <1>6, <1>8 DEF LoansInv

LEMMA LoansRepayRead ==
    ASSUME TypedInv, TypedInv', LoansInv, NEW r \in Request, NEW l \in DOMAIN loan,
           NEW n \in Instalment, RepayRead(r, l, n)
    PROVE  LoansInv'
  <1> PICK reads, arg, seen, t :
         /\ reads = {<<"loan", l>>} /\ arg = [loan |-> l, amount |-> n] /\ seen = [row |-> loan[l]]
         /\ t = Session("repay", reads, arg, seen)
    OBVIOUS
  <1>1. Begin(r, t) /\ n <= Balance(l)
    BY DEF RepayRead
  <1>2. /\ t.kind = "repay" /\ t.pc = "read" /\ t.arg.loan = l /\ t.arg.amount = n
        /\ t.seen.row = loan[l] /\ t.reads = reads
    BY DEF Session
  <1>3. l <= last["loan"]
    BY DEF TypedInv, RowsTyped, LoanTable
  <1>4. Knows(t)
    BY <1>1, <1>2, <1>3 DEF Knows, RepayKnows
  <1> QED
    BY <1>1, <1>4, LoansBegin

LEMMA LoansRepayFlush ==
    ASSUME TypedInv, TypedInv', LoansInv, NEW r \in Request, RepayFlush(r)
    PROVE  LoansInv'
  <1> PICK t, l, n : t = tx[r] /\ l = t.arg.loan /\ n = t.arg.amount
    OBVIOUS
  <1> PICK seen : seen = [row |-> t.seen.row, status |-> LoanStatus(l, n)]
    OBVIOUS
  <1>1. t # Idle /\ t.kind = "repay" /\ l \in DOMAIN loan /\ Continue(r, "flushed", {}, seen)
    BY DEF RepayFlush, At
  <1>2. /\ Moved(r) /\ crossed' = crossed /\ UNCHANGED <<loan, repaid, last>>
        /\ tx'[r].kind = "repay" /\ tx'[r].seen = seen /\ tx'[r].arg = t.arg
        /\ tx'[r].stale = t.stale /\ t.reads \subseteq tx'[r].reads
    <2>1. tx'[r].reads = t.reads \cup {}
      BY <1>1, ContinueMoves
    <2> QED
      BY <1>1, <2>1, ContinueMoves DEF books
  <1>3. RepayKnows(t) /\ RepayTyped(t)
    BY <1>1 DEF LoansInv, Knows, TypedInv, Carries
  <1>4. seen.row = t.seen.row /\ seen.status = LoanStatus(l, n)
    OBVIOUS
  <1>5. n \in Nat /\ loan[l].amount \in Nat /\ repaid[l] \in Nat
    BY <1>1, <1>3, BalanceIs DEF RepayTyped
  <1>6. seen.status = "paid" => repaid[l] + n >= loan[l].amount
    BY <1>4, <1>5 DEF LoanStatus, Balance
  <1>7. /\ l <= last["loan"] /\ <<"loan", l>> \in t.reads
        /\ t.stale \/ (n <= Balance(l) /\ loan[l] = t.seen.row)
    BY <1>1, <1>3 DEF RepayKnows
  <1>8. RepayKnows(tx[r])'
    BY <1>2, <1>4, <1>6, <1>7 DEF RepayKnows, Balance, LoanStatus
  <1>9. Knows(tx[r])'
    BY <1>2, <1>8 DEF Knows
  <1> QED
    BY <1>2, <1>9, LoansKept

\* A repayment.
LEMMA LoansRepayCommit ==
    ASSUME TypedInv, TypedInv', LoansInv, NEW r \in Request, RepayCommit(r)
    PROVE  LoansInv'
  <1> PICK t, l, n, W : t = tx[r] /\ l = t.arg.loan /\ n = t.arg.amount /\ W = {<<"loan", l>>}
    OBVIOUS
  <1>1. /\ l \in DOMAIN loan /\ DOMAIN loan' = DOMAIN loan
        /\ \A m \in DOMAIN loan : m # l => loan'[m] = loan[m] /\ repaid'[m] = repaid[m]
        /\ repaid'[l] = repaid[l] + n
        /\ loan'[l].emp = loan[l].emp /\ loan'[l].amount = loan[l].amount
        /\ loan'[l].status = IF t.seen.status = t.seen.row.status
                             THEN loan[l].status ELSE t.seen.status
        /\ RepayTyped(t) /\ t.pc = "flushed" /\ t.kind = "repay" /\ t # Idle
        /\ Commit(r, W) /\ last' = last
    BY RepayWrites
  <1>2. /\ Moved(r) /\ tx'[r] = Idle /\ crossed \subseteq crossed'
        /\ t.stale => t.reads \subseteq crossed'
        /\ \A s \in Request : tx'[s] # Idle /\ tx[s].reads \cap W # {} => tx'[s].stale
    BY <1>1, CommitMoves
  <1>3. RepayKnows(t)
    BY <1>1 DEF LoansInv, Knows
  <1>4. /\ <<"loan", l>> \in t.reads
        /\ t.seen.status = "paid" => repaid[l] + n >= loan[l].amount
        /\ t.stale \/ (n <= Balance(l) /\ loan[l] = t.seen.row /\ t.seen.status = LoanStatus(l, n))
    BY <1>1, <1>3 DEF RepayKnows
  <1>5. n \in Nat /\ loan[l].amount \in Nat /\ repaid[l] \in Nat
    BY <1>1, BalanceIs DEF RepayTyped
  <1>6. \A m \in DOMAIN loan : repaid[m] \in Nat /\ loan[m].amount \in Nat
    BY BalanceIs
  <1>7. \A s \in Request : Knows(tx[s])'
    <2> PICK X : X = {l}
      OBVIOUS
    <2>1. LoansGrow(X)
      BY <1>1, <1>5, <1>6, LastIs DEF LoansGrow, Tables
    <2>2. \A s \in Request, m \in X :
              tx'[s] # Idle /\ <<"loan", m>> \in tx[s].reads => tx'[s].stale
      BY <1>2
    <2>3. Knows(tx[r])'
      BY <1>2, IdleKnows
    <2> QED
      BY <1>2, <2>1, <2>2, <2>3, KnowsKept
  <1>8. PaidLoansAreRepaid'
    <2>1. loan'[l].status = "paid" => repaid'[l] >= loan'[l].amount
      <3>1. loan[l].status = "paid" => repaid[l] >= loan[l].amount
        BY <1>1 DEF LoansInv, PaidLoansAreRepaid
      <3> QED
        BY <1>1, <1>4, <1>5, <3>1
    <2> QED
      BY <1>1, <2>1 DEF LoansInv, PaidLoansAreRepaid
  <1>9. LoansStayWithinAmount'
    <2>1. ASSUME <<"loan", l>> \notin crossed'
          PROVE  /\ repaid'[l] <= loan'[l].amount
                 /\ loan'[l].status = "open" => repaid'[l] < loan'[l].amount
      <3>1. ~t.stale
        BY <1>2, <1>4, <2>1
      <3>2. n <= Balance(l) /\ loan'[l].status = LoanStatus(l, n)
        BY <1>1, <1>4, <3>1
      <3> QED
        BY <1>1, <1>5, <3>2 DEF Balance, LoanStatus
    <2> QED
      BY <1>1, <1>2, <2>1 DEF LoansInv, LoansStayWithinAmount
  <1> QED
    BY <1>7, <1>8, <1>9 DEF LoansInv

LEMMA LoansCancelCommit ==
    ASSUME TypedInv, TypedInv', LoansInv, NEW r \in Request, CancelCommit(r)
    PROVE  LoansInv'
  <1> PICK t, l, W : t = tx[r] /\ l = t.arg.loan /\ W = {<<"loan", l>>}
    OBVIOUS
  <1>1. /\ l \in DOMAIN loan /\ DOMAIN loan' = DOMAIN loan /\ repaid' = repaid
        /\ \A m \in DOMAIN loan : m # l => loan'[m] = loan[m]
        /\ loan'[l].emp = loan[l].emp /\ loan'[l].amount = loan[l].amount
        /\ loan'[l].status \in {loan[l].status, "cancelled"}
        /\ Commit(r, W) /\ last' = last
    BY CancelWrites
  <1>2. /\ Moved(r) /\ tx'[r] = Idle /\ crossed \subseteq crossed'
        /\ \A s \in Request : tx'[s] # Idle /\ tx[s].reads \cap W # {} => tx'[s].stale
    BY <1>1, CommitMoves
  <1>3. \A m \in DOMAIN loan : repaid[m] \in Nat
    BY BalanceIs
  <1>4. \A s \in Request : Knows(tx[s])'
    <2> PICK X : X = {l}
      OBVIOUS
    <2>1. LoansGrow(X)
      BY <1>1, <1>3, LastIs DEF LoansGrow, Tables
    <2>2. \A s \in Request, m \in X :
              tx'[s] # Idle /\ <<"loan", m>> \in tx[s].reads => tx'[s].stale
      BY <1>2
    <2>3. Knows(tx[r])'
      BY <1>2, IdleKnows
    <2> QED
      BY <1>2, <2>1, <2>2, <2>3, KnowsKept
  <1>5. PaidLoansAreRepaid'
    BY <1>1 DEF LoansInv, PaidLoansAreRepaid
  <1>6. LoansStayWithinAmount'
    BY <1>1, <1>2 DEF LoansInv, LoansStayWithinAmount
  <1> QED
    BY <1>4, <1>5, <1>6 DEF LoansInv

LEMMA LoansRunRead ==
    ASSUME TypedInv, TypedInv', LoansInv, NEW r \in Request, NEW e, NEW p, NEW b, NEW n,
           RunRead(r, e, p, b, n)
    PROVE  LoansInv'
  <1>1. \E reads, arg, seen : seen.open = None /\ Begin(r, Session("run", reads, arg, seen))
    <2> PICK reads, arg, seen :
           /\ seen.open = None /\ Begin(r, Session("run", reads, arg, seen))
      BY DEF RunRead
    <2> QED
      OBVIOUS
  <1> PICK reads, arg, seen, t : /\ seen.open = None /\ t = Session("run", reads, arg, seen)
                                 /\ Begin(r, t)
    BY <1>1
  <1>2. t.kind = "run" /\ t.seen = seen
    BY DEF Session
  <1>3. DOMAIN seen.open = {}
    BY DEF None
  <1>4. Knows(t)
    BY <1>2, <1>3 DEF Knows, RunKnows
  <1> QED
    BY <1>4, LoansBegin

LEMMA LoansRunCheck ==
    ASSUME TypedInv, TypedInv', LoansInv, NEW r \in Request, RunCheck(r)
    PROVE  LoansInv'
  <1> PICK t, reads : t = tx[r] /\ reads = {<<"loan", l>> : l \in LoansOf(t.arg.emp)}
    OBVIOUS
  <1>1. t # Idle /\ t.kind = "run" /\ Continue(r, "checked", reads, t.seen)
    BY DEF RunCheck, At
  <1>2. /\ Moved(r) /\ crossed' = crossed /\ UNCHANGED <<loan, repaid, last>>
        /\ tx'[r].kind = "run" /\ tx'[r].seen = t.seen
        /\ tx'[r].stale = t.stale /\ tx'[r].reads = t.reads \cup reads
    BY <1>1, ContinueMoves DEF books
  <1>3. RunKnows(t)
    BY <1>1 DEF LoansInv, Knows
  <1>4. Knows(tx[r])'
    BY <1>2, <1>3 DEF Knows, RunKnows, Balance
  <1> QED
    BY <1>2, <1>4, LoansKept

LEMMA LoansRunLoans ==
    ASSUME TypedInv, TypedInv', LoansInv, NEW r \in Request, RunLoans(r)
    PROVE  LoansInv'
  <1> PICK t, e : t = tx[r] /\ e = t.arg.emp
    OBVIOUS
  <1> PICK reads, open, seen :
         /\ reads = {<<"loan", l>> : l \in LoansOf(e)}
         /\ open = [l \in {m \in LoansOf(e) : loan[m].status = "open"} |-> Balance(l)]
         /\ seen = [t.seen EXCEPT !.open = open]
    OBVIOUS
  <1>1. t # Idle /\ t.kind = "run" /\ Continue(r, "loans", reads, seen)
    BY DEF RunLoans, At
  <1>2. /\ Moved(r) /\ crossed' = crossed /\ UNCHANGED <<loan, repaid, last>>
        /\ tx'[r].kind = "run" /\ tx'[r].seen = seen
        /\ tx'[r].stale = t.stale /\ tx'[r].reads = t.reads \cup reads
    BY <1>1, ContinueMoves DEF books
  <1>3. DOMAIN t.seen = {"old", "pending", "day", "manual", "open"}
    BY <1>1 DEF TypedInv, Carries, RunTyped
  <1>4. seen.open = open
    BY <1>3
  <1>5. DOMAIN loan \subseteq 1..last["loan"] /\ \A l \in DOMAIN loan : Balance(l) \in Int
    BY BalanceIs DEF TypedInv, RowsTyped, LoanTable
  <1>6. /\ DOMAIN open \subseteq 1..last["loan"]
        /\ \A l \in DOMAIN open : /\ <<"loan", l>> \in reads
                                  /\ loan[l].status = "open" /\ open[l] = Balance(l)
    BY <1>5 DEF LoansOf
  <1>7. RunKnows(tx[r])'
    <2>1. \A l \in DOMAIN open \cap DOMAIN loan : open[l] \in Int /\ open[l] >= Balance(l)
      BY <1>5, <1>6
    <2> QED
      <3>1. /\ tx'[r].seen.open = open /\ reads \subseteq tx'[r].reads
            /\ loan' = loan /\ repaid' = repaid /\ last' = last
        BY <1>2, <1>4
      <3> QED
        BY ONLY <1>6, <2>1, <3>1 DEF RunKnows, Balance
  <1>8. Knows(tx[r])'
    BY <1>2, <1>7 DEF Knows
  <1> QED
    BY <1>2, <1>8, LoansKept

\* A payroll that withholds repayments.
LEMMA LoansRunCommit ==
    ASSUME TypedInv, TypedInv', LoansInv, NEW r \in Request, RunCommit(r)
    PROVE  LoansInv'
  <1> PICK t, open, n, S : /\ t = tx[r] /\ open = t.seen.open /\ n = t.arg.amount
                           /\ S = Paying(t)
    OBVIOUS
  <1> PICK W : W = {<<"wages", t.arg.emp, t.arg.period>>} \cup {<<"loan", l>> : l \in S}
    OBVIOUS
  <1>1. /\ t # Idle /\ t.kind = "run" /\ RunTyped(t)
        /\ S \subseteq DOMAIN loan /\ S \subseteq DOMAIN open
        /\ \A l \in S : ShareOf(t, l) \in Nat
    BY RunCommits
  <1>2. Commit(r, W)
    BY RunCommits
  <1>3. /\ Moved(r) /\ tx'[r] = Idle /\ crossed \subseteq crossed'
        /\ t.stale => t.reads \subseteq crossed'
        /\ \A s \in Request : tx'[s] # Idle /\ tx[s].reads \cap W # {} => tx'[s].stale
    BY <1>2, CommitMoves
  <1>4. DOMAIN loan' = DOMAIN loan
    BY RunWritesLoans
  <1>5. ASSUME NEW l \in DOMAIN loan
        PROVE  /\ loan'[l].emp = loan[l].emp /\ loan'[l].amount = loan[l].amount
               /\ l \notin S => loan'[l] = loan[l] /\ repaid'[l] = repaid[l]
               /\ l \in S =>
                     /\ repaid'[l] = repaid[l] + ShareOf(t, l)
                     /\ loan'[l].status = IF open[l] - ShareOf(t, l) <= 0
                                          THEN "paid" ELSE loan[l].status
    BY RunWritesLoans
  <1>6. RunKnows(t)
    BY <1>1 DEF LoansInv, Knows
  <1>7. ASSUME NEW l \in S
        PROVE  /\ open[l] \in Int /\ ShareOf(t, l) \in Nat
               /\ loan[l].amount \in Nat /\ repaid[l] \in Nat
               /\ open[l] <= 0 => ShareOf(t, l) = 0
               /\ open[l] > 0 => ShareOf(t, l) <= open[l]
               /\ <<"loan", l>> \in t.reads /\ open[l] >= Balance(l)
               /\ t.stale \/ (loan[l].status = "open" /\ open[l] = Balance(l))
    <2>1. /\ open \in [DOMAIN open -> Int] /\ DOMAIN open \subseteq RowIds /\ n \in Nat
          /\ l \in Visited(open, n) /\ ShareOf(t, l) = Share(open, n, l)
      BY <1>1 DEF RunTyped, Paying, ShareOf
    <2>2. /\ open[l] <= 0 => ShareOf(t, l) = 0
          /\ open[l] > 0 => ShareOf(t, l) <= open[l]
      BY ONLY <2>1, ShareIs
    <2>3. l \in DOMAIN open /\ l \in DOMAIN loan
      BY <1>1
    <2>4. open[l] \in Int /\ loan[l].amount \in Nat /\ repaid[l] \in Nat
      BY <2>1, <2>3, BalanceIs
    <2>5. /\ <<"loan", l>> \in t.reads /\ open[l] >= Balance(l)
          /\ t.stale \/ (loan[l].status = "open" /\ open[l] = Balance(l))
      BY <1>6, <2>3 DEF RunKnows
    <2> QED
      BY <1>1, <2>2, <2>4, <2>5
  <1>8. \A s \in Request : Knows(tx[s])'
    <2>1. \A l \in DOMAIN loan : repaid[l] \in Nat
      BY BalanceIs
    <2>2. last["loan"] = last'["loan"] /\ last["loan"] \in Nat
      <3> PICK k : k = RunKey(t)
        OBVIOUS
      <3> QED
        BY RunWritesRow, LastIs DEF Tables
    <2>3. LoansGrow(S)
      BY <1>1, <1>4, <1>5, <2>1, <2>2 DEF LoansGrow
    <2>4. \A s \in Request, l \in S :
              tx'[s] # Idle /\ <<"loan", l>> \in tx[s].reads => tx'[s].stale
      BY <1>3
    <2>5. Knows(tx[r])'
      BY <1>3, IdleKnows
    <2> QED
      BY <1>3, <2>3, <2>4, <2>5, KnowsKept
  <1>9. ASSUME NEW l \in DOMAIN loan, loan'[l].status = "paid"
        PROVE  repaid'[l] >= loan'[l].amount
    <2>1. loan[l].status = "paid" => repaid[l] >= loan[l].amount
      BY DEF LoansInv, PaidLoansAreRepaid
    <2>2. CASE l \notin S
      BY <1>5, <1>9, <2>1, <2>2
    <2>3. CASE l \in S
      <3> PICK a, o, m, q : /\ a = ShareOf(t, l) /\ o = open[l]
                            /\ m = loan[l].amount /\ q = repaid[l]
        OBVIOUS
      <3>1. /\ o \in Int /\ a \in Nat /\ m \in Nat /\ q \in Nat /\ o >= m - q
            /\ (o <= 0 => a = 0) /\ (o > 0 => a <= o)
        BY <1>7, <2>3 DEF Balance
      <3>2. repaid'[l] = q + a /\ loan'[l].amount = m
        BY <1>5, <2>3
      <3>3. loan[l].status = "paid" => q >= m
        BY <2>1
      <3>4. loan'[l].status = IF o - a <= 0 THEN "paid" ELSE loan[l].status
        BY <1>5, <2>3
      <3> QED
        BY ONLY <1>9, <3>1, <3>2, <3>3, <3>4
    <2> QED
      BY <2>2, <2>3
  <1>10. ASSUME NEW l \in DOMAIN loan, <<"loan", l>> \notin crossed'
         PROVE  /\ repaid'[l] <= loan'[l].amount
                /\ loan'[l].status = "open" => repaid'[l] < loan'[l].amount
    <2>1. /\ repaid[l] <= loan[l].amount
          /\ loan[l].status = "open" => repaid[l] < loan[l].amount
      BY <1>3, <1>10 DEF LoansInv, LoansStayWithinAmount
    <2>2. CASE l \notin S
      BY <1>5, <2>1, <2>2
    <2>3. CASE l \in S
      <3>1. ~t.stale
        BY <1>3, <1>7, <1>10, <2>3
      <3>2. loan[l].status = "open" /\ open[l] = Balance(l)
        BY <1>7, <2>3, <3>1
      <3> QED
        <4> PICK a, o, m, q : /\ a = ShareOf(t, l) /\ o = open[l]
                              /\ m = loan[l].amount /\ q = repaid[l]
          OBVIOUS
        <4>1. /\ o \in Int /\ a \in Nat /\ m \in Nat /\ q \in Nat /\ o = m - q /\ q < m
              /\ (o <= 0 => a = 0) /\ (o > 0 => a <= o)
          BY <1>7, <2>1, <2>3, <3>2 DEF Balance
        <4>2. repaid'[l] = q + a /\ loan'[l].amount = m
          BY <1>5, <2>3
        <4>3. loan'[l].status = IF o - a <= 0 THEN "paid" ELSE loan[l].status
          BY <1>5, <2>3
        <4>4. "paid" # "open"
          OBVIOUS
        <4> QED
          BY ONLY <4>1, <4>2, <4>3, <4>4
    <2> QED
      BY <2>2, <2>3
  <1> QED
    BY <1>4, <1>8, <1>9, <1>10 DEF LoansInv, PaidLoansAreRepaid, LoansStayWithinAmount

LEMMA LoansClear ==
    ASSUME TypedInv, TypedInv', LoansInv, NEW r \in Request, ClearCommit(r)
    PROVE  LoansInv'
  <1>1. loan' = None /\ repaid' = None /\ last' = last /\ \E W : Commit(r, W)
    BY DEF ClearCommit
  <1>2. DOMAIN loan' = {}
    BY <1>1 DEF None
  <1>3. Moved(r) /\ tx'[r] = Idle
    BY <1>1, CommitMoves
  <1>4. \A s \in Request : Knows(tx[s])'
    <2> PICK X : X = {}
      OBVIOUS
    <2>1. LoansGrow(X)
      BY <1>1, <1>2, LastIs DEF LoansGrow, Tables
    <2>2. \A s \in Request, m \in X :
              tx'[s] # Idle /\ <<"loan", m>> \in tx[s].reads => tx'[s].stale
      OBVIOUS
    <2>3. Knows(tx[r])'
      BY <1>3, IdleKnows
    <2> QED
      BY <1>3, <2>1, <2>2, <2>3, KnowsKept
  <1> QED
    BY <1>2, <1>4 DEF LoansInv, PaidLoansAreRepaid, LoansStayWithinAmount

LEMMA LoansOthersRead ==
    ASSUME TypedInv, TypedInv', LoansInv, NEW r \in Request,
           \/ \E l \in DOMAIN loan, admin \in BOOLEAN : CancelRead(r, l, admin)
           \/ \E k \in DOMAIN payroll, b \in Amount \cup {0}, m \in Amount \cup {0} :
                UpdateRead(r, k, b, m)
           \/ \E c \in Category, till \in Till, n \in Amount : BillRead(r, c, till, n)
           \/ \E k \in DOMAIN payroll, till \in Till : PayRead(r, k, till)
           \/ \E x \in DOMAIN expense : \E new \in Edits(x) : EditRead(r, x, new)
           \/ \E x \in DOMAIN expense : DeleteRead(r, x)
           \/ \E c \in Category : ArchiveRead(r, c)
           \/ ClearRead(r)
    PROVE  LoansInv'
  <1>1. \E kind, reads, arg, seen :
           kind \notin {"repay", "run"} /\ Begin(r, Session(kind, reads, arg, seen))
    <2>1. CASE \E l \in DOMAIN loan, admin \in BOOLEAN : CancelRead(r, l, admin)
      BY <2>1 DEF CancelRead
    <2>2. CASE \E k \in DOMAIN payroll, b \in Amount \cup {0}, m \in Amount \cup {0} :
                UpdateRead(r, k, b, m)
      BY <2>2 DEF UpdateRead
    <2>3. CASE \E c \in Category, till \in Till, n \in Amount : BillRead(r, c, till, n)
      BY <2>3 DEF BillRead
    <2>4. CASE \E k \in DOMAIN payroll, till \in Till : PayRead(r, k, till)
      BY <2>4 DEF PayRead
    <2>5. CASE \E x \in DOMAIN expense : \E new \in Edits(x) : EditRead(r, x, new)
      BY <2>5 DEF EditRead
    <2>6. CASE \E x \in DOMAIN expense : DeleteRead(r, x)
      BY <2>6 DEF DeleteRead
    <2>7. CASE \E c \in Category : ArchiveRead(r, c)
      BY <2>7 DEF ArchiveRead
    <2>8. CASE ClearRead(r)
      BY <2>8 DEF ClearRead
    <2> QED
      BY <2>1, <2>2, <2>3, <2>4, <2>5, <2>6, <2>7, <2>8
  <1> PICK kind, reads, arg, seen, t :
         /\ kind \notin {"repay", "run"} /\ t = Session(kind, reads, arg, seen) /\ Begin(r, t)
    BY <1>1
  <1>2. Knows(t)
    BY DEF Session, Knows
  <1> QED
    BY <1>2, LoansBegin

LEMMA LoansOthersCommit ==
    ASSUME TypedInv, TypedInv', LoansInv, NEW r \in Request,
           \/ UpdateCommit(r) \/ BillCommit(r) \/ PayCommit(r) \/ EditCommit(r)
           \/ DeleteCommit(r) \/ ArchiveCommit(r)
    PROVE  LoansInv'
  <1>1. \E W : Commit(r, W) /\ UNCHANGED <<loan, repaid>> /\ last'["loan"] = last["loan"]
    <2>1. CASE UpdateCommit(r) \/ EditCommit(r) \/ DeleteCommit(r) \/ ArchiveCommit(r)
      BY <2>1 DEF UpdateCommit, EditCommit, DeleteCommit, ArchiveCommit
    <2>2. ASSUME NEW x, InsertExpense(x) PROVE last'["loan"] = last["loan"]
      BY <2>2, LastIs DEF InsertExpense, Tables
    <2>3. CASE BillCommit(r)
      BY <2>2, <2>3 DEF BillCommit
    <2>4. CASE PayCommit(r)
      <3>1. \/ last' = last
            \/ \E x : InsertExpense(x)
        BY <2>4 DEF PayCommit
      <3>2. last'["loan"] = last["loan"]
        BY <2>2, <3>1
      <3> QED
        BY <2>4, <3>2 DEF PayCommit
    <2> QED
      BY <2>1, <2>3, <2>4
  <1> QED
    BY <1>1, LoansCommit

LEMMA LoansAlone ==
    ASSUME TypedInv, LoansInv,
           \/ \E e \in Employee, p \in Period, n \in Amount, kind \in {"day", "manual"} :
                 CreateDeduction(e, p, kind, n)
           \/ \E e \in Employee : Deactivate(e)
    PROVE  LoansInv'
  <1>1. UNCHANGED <<tx, crossed, loan, repaid>> /\ last'["loan"] = last["loan"]
    <2>1. CASE \E e \in Employee, p \in Period, n \in Amount, kind \in {"day", "manual"} :
                 CreateDeduction(e, p, kind, n)
      BY <2>1, LastIs DEF CreateDeduction, Alone, Tables
    <2>2. CASE \E e \in Employee : Deactivate(e)
      BY <2>2 DEF Deactivate, Alone
    <2> QED
      BY <2>1, <2>2
  <1> QED
    BY <1>1, LoansStill

LEMMA LoansStep == TypedInv /\ TypedInv' /\ LoansInv /\ [Next]_vars => LoansInv'
  <1> SUFFICES ASSUME TypedInv, TypedInv', LoansInv, [Next]_vars PROVE LoansInv'
    OBVIOUS
  <1>1. CASE UNCHANGED vars
    BY <1>1, LoansStill DEF vars, books
  <1>2. ASSUME NEW r \in Request, \E e \in Employee, p \in Period,
               b \in {{}} \cup {{n} : n \in Amount}, n \in Instalment \cup {0} : RunRead(r, e, p, b, n)
        PROVE  LoansInv'
    BY <1>2, LoansRunRead
  <1> QED
    BY <1>1, <1>2, LoansCreate, LoansAlone, LoansRepayRead, LoansRepayFlush, LoansRepayCommit,
       LoansCancelCommit, LoansRunCheck, LoansRunLoans, LoansRunCommit, LoansOthersRead,
       LoansOthersCommit, LoansClear, LoansAbort DEF Next

LEMMA LoansInit == Init => LoansInv
  BY DEF Init, LoansInv, Knows, PaidLoansAreRepaid, LoansStayWithinAmount, None

LEMMA LoansHold == Spec => []LoansInv
  <1>1. Spec => []TypedInv
    BY TypedHolds
  <1>2. TypedInv /\ TypedInv' /\ LoansInv /\ [Next]_vars => LoansInv'
    BY LoansStep
  <1> QED
    BY <1>1, <1>2, LoansInit, PTL DEF Spec

LEMMA LoansInvSays == LoansInv => PaidLoansAreRepaid /\ LoansStayWithinAmount
  BY DEF LoansInv

\* A loan that says it is paid has been repaid in full, whatever overlapped
\* (hr.py:334 and hr.py:388).
THEOREM PaidMeansRepaid == Spec => []PaidLoansAreRepaid
  BY LoansHold, LoansInvSays, PTL

\* Repayments, payrolls and cancellations repay a loan up to its amount and no
\* further, and keep its status true, unless one of them commits on a stale
\* reading of that loan (hr.py:356 and hr.py:641).
THEOREM NoLoanIsOverpaid == Spec => []LoansStayWithinAmount
  BY LoansHold, LoansInvSays, PTL
-----------------------------------------------------------------------------
(* Payroll.  A run that nobody has crossed finds, when it commits, the row   *)
(* and the pending deductions of its period as it read them, and open loans  *)
(* that bear what it withholds.  Clearing HR ends all that: nobody is left   *)
(* that a run could be for.                                                  *)

DeductionsTaken ==
    \A d \in DOMAIN deduction :
        LET k == deduction[d].payroll IN
        k # 0 => /\ k \in DOMAIN payroll
                 /\ payroll[k].emp = deduction[d].emp /\ payroll[k].period = deduction[d].period

SameButPaid(v, w) == \A c \in PayrollFields : c # "paid" => v[c] = w[c]
DayOf(S) == SumFunction([d \in {x \in S : deduction[x].kind = "day"} |-> deduction[d].amount])
OpenOf(e) == {l \in LoansOf(e) : loan[l].status = "open"}
Crossed(e) == \E l \in LoansOf(e) : <<"loan", l>> \in crossed
Owing(S) == SumFunctionOnSet([l \in S |-> Balance(l)], S)

\* What a run has read, it has read of its employee and period.
RunIds(t) ==
    LET e == t.arg.emp
        p == t.arg.period
    IN
    /\ <<"wages", e, p>> \in t.reads
    /\ t.seen.pending \subseteq 1..last["deduction"]
    /\ \A d \in t.seen.pending \cap DOMAIN deduction :
          deduction[d].emp = e /\ deduction[d].period = p
    /\ \A o \in t.seen.old :
          /\ o[1] <= last["payroll"]
          /\ o[1] \in DOMAIN payroll => payroll[o[1]].emp = e /\ payroll[o[1]].period = p

\* ... and finds it as it was,
AsRead(t) ==
    /\ RowsOf(t.arg.emp, t.arg.period) = {o[1] : o \in t.seen.old}
    /\ \A o \in t.seen.old : SameButPaid(payroll[o[1]], o[2])
    /\ t.seen.pending \subseteq DOMAIN deduction
    /\ \A d \in t.seen.pending : deduction[d].payroll = 0
    /\ t.seen.day = DayOf(t.seen.pending)

\* ... with open loans it has read that bear the repayment.
Affords(t) ==
    /\ t.pc = "checked" =>
          \E S \in SUBSET OpenOf(t.arg.emp) :
              (\A l \in S : <<"loan", l>> \in t.reads) /\ t.arg.amount <= Owing(S)
    /\ t.pc = "loans" => /\ \A l \in DOMAIN t.seen.open : t.seen.open[l] > 0
                         /\ t.arg.amount <= SumFunction(t.seen.open)

RunFits(t) ==
    /\ RunIds(t)
    /\ staff[t.arg.emp] # "gone" =>
          /\ t.stale \/ AsRead(t)
          /\ t.stale \/ Crossed(t.arg.emp) \/ Affords(t)

UpdateFits(t) ==
    LET k == t.arg.payroll
        row == t.seen.row
    IN
    /\ <<"wages", row.emp, row.period>> \in t.reads /\ k <= last["payroll"]
    /\ k \in DOMAIN payroll => /\ payroll[k].emp = row.emp /\ payroll[k].period = row.period
                               /\ t.stale \/ SameButPaid(payroll[k], row)

Suits(t) ==
    t # Idle => /\ t.kind = "run" => RunFits(t)
                /\ t.kind = "update" => UpdateFits(t)

PayrollInv ==
    /\ \A r \in Request : Suits(tx[r])
    /\ DeductionsTaken
    /\ PayrollAddsUp

\* What a step that writes the periods P and the loans L leaves as it was.
RowsGrow(P) ==
    /\ last["payroll"] <= last'["payroll"]
    /\ \A k \in DOMAIN payroll' \ DOMAIN payroll : k > last["payroll"]
    /\ \A k \in DOMAIN payroll' \cap DOMAIN payroll :
          /\ payroll'[k].emp = payroll[k].emp /\ payroll'[k].period = payroll[k].period
          /\ <<payroll[k].emp, payroll[k].period>> \notin P => SameButPaid(payroll'[k], payroll[k])

DeductionsGrow(P) ==
    /\ last["deduction"] <= last'["deduction"]
    /\ \A d \in DOMAIN deduction' \ DOMAIN deduction : d > last["deduction"]
    /\ \A d \in DOMAIN deduction' \cap DOMAIN deduction :
          /\ deduction'[d].emp = deduction[d].emp /\ deduction'[d].period = deduction[d].period
          /\ <<deduction[d].emp, deduction[d].period>> \notin P => deduction'[d] = deduction[d]

StaffKeeps(P, L) ==
    \A e \in Employee : staff'[e] # "gone" =>
        /\ staff[e] # "gone"
        /\ DOMAIN loan \subseteq DOMAIN loan' /\ DOMAIN deduction \subseteq DOMAIN deduction'
        /\ \A p \in Period : <<e, p>> \notin P => RowsOf(e, p)' = RowsOf(e, p)
        /\ \A l \in LoansOf(e) : loan'[l].emp = e
        /\ \A l \in LoansOf(e) : l \notin L => loan'[l] = loan[l] /\ repaid'[l] = repaid[l]

HrGrows(P, L) == RowsGrow(P) /\ DeductionsGrow(P) /\ StaffKeeps(P, L)

LEMMA LoansOfGrow ==
    ASSUME NEW P, NEW L, StaffKeeps(P, L), NEW e \in Employee, staff'[e] # "gone"
    PROVE  LoansOf(e) \subseteq LoansOf(e)'
  BY DEF StaffKeeps, LoansOf

LEMMA RunIdsKept ==
    ASSUME TypedInv, TypedInv', NEW t, NEW u, Stays(t, u), RunTyped(t), RunIds(t),
           NEW P, RowsGrow(P), DeductionsGrow(P)
    PROVE  RunIds(u)'
  <1> PICK e, p, pending, old : /\ e = t.arg.emp /\ p = t.arg.period
                                /\ pending = t.seen.pending /\ old = t.seen.old
    OBVIOUS
  <1>1. /\ u.reads = t.reads /\ u.arg.emp = e /\ u.arg.period = p
        /\ u.seen.pending = pending /\ u.seen.old = old
    BY DEF Stays
  <1>2. pending \subseteq Nat /\ \A o \in old : o[1] \in Nat
    BY DEF RunTyped, RowIds
  <1>3. /\ <<"wages", e, p>> \in t.reads
        /\ pending \subseteq 1..last["deduction"]
        /\ \A d \in pending \cap DOMAIN deduction : deduction[d].emp = e /\ deduction[d].period = p
        /\ \A o \in old :
              /\ o[1] <= last["payroll"]
              /\ o[1] \in DOMAIN payroll => payroll[o[1]].emp = e /\ payroll[o[1]].period = p
    BY DEF RunIds
  <1>4. /\ last["payroll"] \in Nat /\ last["deduction"] \in Nat
        /\ last'["payroll"] \in Nat /\ last'["deduction"] \in Nat
    BY WagesConstants DEF TypedInv, RowsTyped, Counters, Tables
  <1>5. pending \subseteq 1..last'["deduction"]
    BY <1>2, <1>3, <1>4 DEF DeductionsGrow
  <1>6. ASSUME NEW d \in pending \cap DOMAIN deduction'
        PROVE  deduction'[d].emp = e /\ deduction'[d].period = p
    <2>1. d \in DOMAIN deduction
      BY <1>2, <1>3, <1>4 DEF DeductionsGrow
    <2> QED
      BY <1>3, <2>1 DEF DeductionsGrow
  <1>7. ASSUME NEW o \in old
        PROVE  /\ o[1] <= last'["payroll"]
               /\ o[1] \in DOMAIN payroll' => payroll'[o[1]].emp = e /\ payroll'[o[1]].period = p
    <2>1. o[1] <= last'["payroll"]
      BY <1>2, <1>3, <1>4 DEF RowsGrow
    <2>2. o[1] \in DOMAIN payroll' => o[1] \in DOMAIN payroll
      BY <1>2, <1>3, <1>4 DEF RowsGrow
    <2> QED
      BY <1>3, <2>1, <2>2 DEF RowsGrow
  <1> QED
    BY <1>1, <1>3, <1>5, <1>6, <1>7 DEF RunIds

LEMMA AsReadKept ==
    ASSUME TypedInv, NEW t, NEW u, Stays(t, u), RunTyped(t), RunIds(t), AsRead(t),
           NEW P, NEW L, HrGrows(P, L), <<t.arg.emp, t.arg.period>> \notin P,
           staff'[t.arg.emp] # "gone"
    PROVE  AsRead(u)'
  <1> PICK e, p, pending, old : /\ e = t.arg.emp /\ p = t.arg.period
                                /\ pending = t.seen.pending /\ old = t.seen.old
    OBVIOUS
  <1>1. /\ u.arg.emp = e /\ u.arg.period = p /\ u.seen.pending = pending /\ u.seen.old = old
        /\ u.seen.day = t.seen.day
    BY DEF Stays
  <1>2. e \in Employee /\ p \in Period
    BY DEF RunTyped
  <1>3. /\ RowsOf(e, p) = {o[1] : o \in old}
        /\ \A o \in old : SameButPaid(payroll[o[1]], o[2])
        /\ pending \subseteq DOMAIN deduction
        /\ \A d \in pending : deduction[d].payroll = 0
        /\ t.seen.day = DayOf(pending)
    BY DEF AsRead
  <1>4. RowsOf(e, p)' = RowsOf(e, p) /\ DOMAIN deduction \subseteq DOMAIN deduction'
    BY <1>2 DEF HrGrows, StaffKeeps
  <1>5. ASSUME NEW o \in old PROVE SameButPaid(payroll'[o[1]], o[2])
    <2>1. o[1] \in RowsOf(e, p) /\ o[1] \in RowsOf(e, p)'
      BY <1>3, <1>4
    <2>2. SameButPaid(payroll'[o[1]], payroll[o[1]])
      BY <2>1 DEF HrGrows, RowsGrow, RowsOf
    <2> QED
      BY <1>3, <2>2 DEF SameButPaid
  <1>6. ASSUME NEW d \in pending PROVE deduction'[d] = deduction[d]
    <2>1. d \in DOMAIN deduction /\ d \in DOMAIN deduction'
      BY <1>3, <1>4
    <2>2. deduction[d].emp = e /\ deduction[d].period = p
      BY <2>1 DEF RunIds
    <2> QED
      BY <2>1, <2>2 DEF HrGrows, DeductionsGrow
  <1>7. DayOf(pending)' = DayOf(pending)
    <2> PICK S : S = {x \in pending : deduction[x].kind = "day"}
      OBVIOUS
    <2>1. S = {x \in pending : deduction'[x].kind = "day"}
      BY <1>6
    <2>2. [d \in S |-> deduction[d].amount] = [d \in S |-> deduction'[d].amount]
      BY <1>6
    <2> QED
      BY <2>1, <2>2 DEF DayOf
  <1> QED
    BY <1>1, <1>3, <1>4, <1>5, <1>6, <1>7 DEF AsRead

LEMMA AffordsKept ==
    ASSUME NEW t, NEW u, Stays(t, u), RunTyped(t), Affords(t),
           NEW P, NEW L, StaffKeeps(P, L), \A l \in L : <<"loan", l>> \notin t.reads,
           staff'[t.arg.emp] # "gone"
    PROVE  Affords(u)'
  <1> PICK e : e = t.arg.emp
    OBVIOUS
  <1>1. u.pc = t.pc /\ u.reads = t.reads /\ u.arg = t.arg /\ u.seen = t.seen
    BY DEF Stays
  <1>2. e \in Employee
    BY DEF RunTyped
  <1>3. ASSUME t.pc = "checked"
        PROVE  \E S \in SUBSET OpenOf(e)' : (\A l \in S : <<"loan", l>> \in t.reads)
                                            /\ t.arg.amount <= Owing(S)'
    <2> PICK S \in SUBSET OpenOf(e) :
           (\A l \in S : <<"loan", l>> \in t.reads) /\ t.arg.amount <= Owing(S)
      BY <1>3 DEF Affords
    <2>1. ASSUME NEW l \in S
          PROVE  /\ loan'[l] = loan[l] /\ repaid'[l] = repaid[l]
                 /\ l \in DOMAIN loan' /\ loan[l].emp = e /\ loan[l].status = "open"
      BY <1>2 DEF StaffKeeps, OpenOf, LoansOf
    <2>2. S \in SUBSET OpenOf(e)'
      BY <2>1 DEF OpenOf, LoansOf
    <2>3. Owing(S)' = Owing(S)
      <3>1. [l \in S |-> Balance(l)]' = [l \in S |-> Balance(l)]
        BY <2>1 DEF Balance
      <3> QED
        BY <3>1 DEF Owing
    <2> QED
      BY <2>2, <2>3
  <1> QED
    BY <1>1, <1>3 DEF Affords

LEMMA UpdateFitsKept ==
    ASSUME TypedInv, TypedInv', NEW t, NEW u, Stays(t, u), UpdateTyped(t), UpdateFits(t),
           NEW P, RowsGrow(P), <<t.seen.row.emp, t.seen.row.period>> \in P => u.stale
    PROVE  UpdateFits(u)'
  <1> PICK k, row : k = t.arg.payroll /\ row = t.seen.row
    OBVIOUS
  <1>1. /\ u.reads = t.reads /\ u.arg.payroll = k /\ u.seen.row = row /\ (t.stale => u.stale)
    BY DEF Stays
  <1>2. k \in Nat
    BY DEF UpdateTyped, RowIds
  <1>3. /\ <<"wages", row.emp, row.period>> \in t.reads /\ k <= last["payroll"]
        /\ k \in DOMAIN payroll => /\ payroll[k].emp = row.emp /\ payroll[k].period = row.period
                                   /\ t.stale \/ SameButPaid(payroll[k], row)
    BY DEF UpdateFits
  <1>4. last["payroll"] \in Nat /\ last'["payroll"] \in Nat
    BY WagesConstants DEF TypedInv, RowsTyped, Counters, Tables
  <1>5. k <= last'["payroll"]
    BY <1>2, <1>3, <1>4 DEF RowsGrow
  <1>6. ASSUME k \in DOMAIN payroll'
        PROVE  /\ payroll'[k].emp = row.emp /\ payroll'[k].period = row.period
               /\ u.stale \/ SameButPaid(payroll'[k], row)
    <2>1. k \in DOMAIN payroll
      BY <1>2, <1>3, <1>4, <1>6 DEF RowsGrow
    <2>2. payroll'[k].emp = payroll[k].emp /\ payroll'[k].period = payroll[k].period
      BY <1>6, <2>1 DEF RowsGrow
    <2>3. u.stale \/ SameButPaid(payroll'[k], payroll[k])
      BY <1>3, <1>6, <2>1 DEF RowsGrow
    <2>4. u.stale \/ SameButPaid(payroll'[k], row)
      BY <1>1, <1>3, <2>1, <2>3 DEF SameButPaid
    <2> QED
      BY <1>3, <2>1, <2>2, <2>4
  <1> QED
    BY <1>1, <1>3, <1>5, <1>6 DEF UpdateFits

LEMMA RunFitsKept ==
    ASSUME TypedInv, TypedInv', NEW t, NEW u, Stays(t, u), RunTyped(t), RunFits(t),
           NEW P, NEW L, HrGrows(P, L), crossed \subseteq crossed',
           <<t.arg.emp, t.arg.period>> \in P => u.stale,
           \A l \in L : <<"loan", l>> \in t.reads => u.stale
    PROVE  RunFits(u)'
  <1> PICK e : e = t.arg.emp
    OBVIOUS
  <1>1. u.arg.emp = e /\ (t.stale => u.stale)
    BY DEF Stays
  <1>2. RunIds(u)'
    BY RunIdsKept DEF RunFits, HrGrows
  <1>3. ASSUME staff'[e] # "gone", ~u.stale
        PROVE  AsRead(u)' /\ (Crossed(e)' \/ Affords(u)')
    <2>1. e \in Employee
      BY DEF RunTyped
    <2>2. staff[e] # "gone" /\ StaffKeeps(P, L)
      BY <1>3, <2>1 DEF HrGrows, StaffKeeps
    <2>3. RunIds(t) /\ AsRead(t) /\ (Crossed(e) \/ Affords(t))
      BY <1>1, <1>3, <2>2 DEF RunFits
    <2>4. AsRead(u)'
      BY <1>3, <2>3, AsReadKept
    <2>5. CASE Crossed(e)
      <3>1. LoansOf(e) \subseteq LoansOf(e)'
        BY ONLY <1>3, <2>1, <2>2, LoansOfGrow
      <3> QED
        BY <2>4, <2>5, <3>1 DEF Crossed
    <2>6. CASE Affords(t)
      <3>1. \A l \in L : <<"loan", l>> \notin t.reads
        BY <1>3
      <3> QED
        BY <1>3, <2>2, <2>4, <2>6, <3>1, AffordsKept
    <2> QED
      BY <2>3, <2>5, <2>6
  <1> QED
    BY <1>1, <1>2, <1>3 DEF RunFits

LEMMA SuitsKept ==
    ASSUME TypedInv, TypedInv', PayrollInv, NEW r \in Request, Moved(r), Suits(tx[r])',
           NEW P, NEW L, HrGrows(P, L), crossed \subseteq crossed',
           \A s \in Request : tx'[s] # Idle =>
              /\ \A q \in P : <<"wages", q[1], q[2]>> \in tx[s].reads => tx'[s].stale
              /\ \A l \in L : <<"loan", l>> \in tx[s].reads => tx'[s].stale
    PROVE  \A s \in Request : Suits(tx[s])'
  <1> SUFFICES ASSUME NEW s \in Request, s # r, tx'[s] # Idle PROVE Suits(tx[s])'
    BY DEF Suits
  <1> PICK t, u : t = tx[s] /\ u = tx'[s]
    OBVIOUS
  <1>1. Stays(t, u) /\ Suits(t) /\ Carries(t)
    BY DEF Moved, PayrollInv, TypedInv
  <1>2. t # Idle /\ u.kind = t.kind
    BY <1>1 DEF Stays
  <1>3. /\ \A q \in P : <<"wages", q[1], q[2]>> \in t.reads => u.stale
        /\ \A l \in L : <<"loan", l>> \in t.reads => u.stale
    OBVIOUS
  <1>4. ASSUME t.kind = "run" PROVE RunFits(u)'
    <2>1. RunTyped(t) /\ RunFits(t)
      BY <1>1, <1>2, <1>4 DEF Suits, Carries
    <2>2. <<t.arg.emp, t.arg.period>> \in P => u.stale
      <3> PICK q : q = <<t.arg.emp, t.arg.period>>
        OBVIOUS
      <3>1. q[1] = t.arg.emp /\ q[2] = t.arg.period
        OBVIOUS
      <3> QED
        BY <1>3, <2>1, <3>1 DEF RunFits, RunIds
    <2> QED
      BY <1>1, <1>3, <2>1, <2>2, RunFitsKept
  <1>5. ASSUME t.kind = "update" PROVE UpdateFits(u)'
    <2>1. UpdateTyped(t) /\ UpdateFits(t)
      BY <1>1, <1>2, <1>5 DEF Suits, Carries
    <2>2. <<t.seen.row.emp, t.seen.row.period>> \in P => u.stale
      <3> PICK q : q = <<t.seen.row.emp, t.seen.row.period>>
        OBVIOUS
      <3>1. q[1] = t.seen.row.emp /\ q[2] = t.seen.row.period
        OBVIOUS
      <3> QED
        BY <1>3, <2>1, <3>1 DEF UpdateFits
    <2>3. RowsGrow(P)
      BY DEF HrGrows
    <2> QED
      BY ONLY <1>1, <2>1, <2>2, <2>3, TypedInv, TypedInv', UpdateFitsKept
  <1>6. RunFits(tx[s])' <=> RunFits(u)'
    BY DEF RunFits, RunIds, AsRead, Affords
  <1>7. UpdateFits(tx[s])' <=> UpdateFits(u)'
    BY DEF UpdateFits
  <1> QED
    BY <1>2, <1>4, <1>5, <1>6, <1>7 DEF Suits

\* A step without a request: what a request knows it knows of itself.
LEMMA SuitsStill ==
    ASSUME TypedInv, TypedInv', PayrollInv, tx' = tx, crossed' = crossed, HrGrows({}, {})
    PROVE  \A s \in Request : Suits(tx[s])'
  <1> SUFFICES ASSUME NEW s \in Request, tx[s] # Idle PROVE Suits(tx[s])'
    BY DEF Suits
  <1> PICK t, P, L : t = tx[s] /\ P = {} /\ L = {}
    OBVIOUS
  <1>0. HrGrows(P, L) /\ RowsGrow(P)
    BY DEF HrGrows
  <1>1. t # Idle /\ Stays(t, t) /\ Suits(t) /\ Carries(t)
    BY Itself DEF PayrollInv, TypedInv
  <1>2. ASSUME t.kind = "run" PROVE RunFits(t)'
    <2>1. RunTyped(t) /\ RunFits(t)
      BY <1>1, <1>2 DEF Suits, Carries
    <2> QED
      <3>1. /\ crossed \subseteq crossed' /\ (<<t.arg.emp, t.arg.period>> \in P => t.stale)
            /\ \A l \in L : <<"loan", l>> \in t.reads => t.stale
        OBVIOUS
      <3> QED
        BY ONLY TypedInv, TypedInv', <1>0, <1>1, <2>1, <3>1, RunFitsKept
  <1>3. ASSUME t.kind = "update" PROVE UpdateFits(t)'
    <2>1. UpdateTyped(t) /\ UpdateFits(t)
      BY <1>1, <1>3 DEF Suits, Carries
    <2> QED
      <3>1. <<t.seen.row.emp, t.seen.row.period>> \in P => t.stale
        OBVIOUS
      <3> QED
        BY ONLY TypedInv, TypedInv', <1>0, <1>1, <2>1, <3>1, UpdateFitsKept
  <1>4. RunFits(tx[s])' <=> RunFits(t)'
    BY DEF RunFits, RunIds, AsRead, Affords
  <1>5. UpdateFits(tx[s])' <=> UpdateFits(t)'
    BY DEF UpdateFits
  <1> QED
    BY <1>1, <1>2, <1>3, <1>4, <1>5 DEF Suits

\* One payroll adds up.
Days(k) == {d \in DOMAIN deduction : deduction[d].payroll = k /\ deduction[d].kind = "day"}
DaySum(k) == SumFunction([d \in Days(k) |-> deduction[d].amount])

RowAdds(k) ==
    LET w == payroll[k] IN
    <<"wages", w.emp, w.period>> \notin crossed =>
        /\ NetAdds(w) /\ w.day = DaySum(k)
        /\ ~Crossed(w.emp) => w.loan = taken[k]
        /\ RowsOf(w.emp, w.period) = {k}

RowsAdd == \A k \in DOMAIN payroll : RowAdds(k)

LEMMA AddsUpIs == PayrollAddsUp <=> RowsAdd
  <1>1. ASSUME NEW e
        PROVE  (\A l \in LoansOf(e) : <<"loan", l>> \notin crossed) <=> ~Crossed(e)
    BY DEF Crossed
  <1>2. ASSUME NEW k
        PROVE  DaySum(k) = SumFunction([d \in {d \in DOMAIN deduction :
                              /\ deduction[d].payroll = k
                              /\ deduction[d].kind = "day"} |-> deduction[d].amount])
    BY DEF DaySum, Days
  <1> QED
    BY <1>1, <1>2 DEF PayrollAddsUp, RowsAdd, RowAdds, NetAdds

AllSuit == \A r \in Request : Suits(tx[r])

LEMMA PayrollParts == PayrollInv <=> AllSuit /\ DeductionsTaken /\ RowsAdd
  BY AddsUpIs DEF PayrollInv, AllSuit

LEMMA PayrollPartsNext ==
    ASSUME \A r \in Request : Suits(tx[r])', DeductionsTaken', RowsAdd'
    PROVE  PayrollInv'
  <1>1. AllSuit'
    BY DEF AllSuit
  <1> QED
    BY <1>1, PayrollParts, PTL

\* Steps that write no payroll and no deduction.
LEMMA RowsAddKept ==
    ASSUME PayrollInv, UNCHANGED <<payroll, taken, deduction>>, crossed \subseteq crossed',
           DOMAIN loan \subseteq DOMAIN loan', \A l \in DOMAIN loan : loan'[l].emp = loan[l].emp
    PROVE  DeductionsTaken' /\ RowsAdd'
  <1>1. DeductionsTaken'
    BY DEF PayrollInv, DeductionsTaken
  <1>2. ASSUME NEW k \in DOMAIN payroll PROVE RowAdds(k)'
    <2>1. RowAdds(k)
      BY PayrollParts DEF RowsAdd
    <2>2. ASSUME NEW e, Crossed(e) PROVE Crossed(e)'
      BY <2>2 DEF Crossed, LoansOf
    <2>3. DaySum(k)' = DaySum(k) /\ \A e, p : RowsOf(e, p)' = RowsOf(e, p)
      BY DEF DaySum, Days, RowsOf
    <2> QED
      BY <2>1, <2>2, <2>3 DEF RowAdds, NetAdds
  <1> QED
    BY <1>1, <1>2 DEF RowsAdd

LEMMA PayrollKept ==
    ASSUME TypedInv, TypedInv', PayrollInv, NEW r \in Request, Moved(r), Suits(tx[r])',
           UNCHANGED <<staff, payroll, taken, deduction>>, crossed \subseteq crossed',
           last'["payroll"] = last["payroll"], last'["deduction"] = last["deduction"],
           NEW L, DOMAIN loan' = DOMAIN loan, \A l \in DOMAIN loan : loan'[l].emp = loan[l].emp,
           \A l \in DOMAIN loan : l \notin L => loan'[l] = loan[l] /\ repaid'[l] = repaid[l],
           \A s \in Request, l \in L :
              tx'[s] # Idle /\ <<"loan", l>> \in tx[s].reads => tx'[s].stale
    PROVE  PayrollInv'
  <1>1. HrGrows({}, L)
    <2>1. RowsGrow({})
      BY LastIs DEF RowsGrow, Tables, SameButPaid
    <2>2. DeductionsGrow({})
      BY LastIs DEF DeductionsGrow, Tables
    <2>3. StaffKeeps({}, L)
      BY DEF StaffKeeps, LoansOf, RowsOf
    <2> QED
      BY <2>1, <2>2, <2>3 DEF HrGrows
  <1> PICK P : P = {}
    OBVIOUS
  <1>2. \A s \in Request : tx'[s] # Idle =>
              /\ \A q \in P : <<"wages", q[1], q[2]>> \in tx[s].reads => tx'[s].stale
              /\ \A l \in L : <<"loan", l>> \in tx[s].reads => tx'[s].stale
    OBVIOUS
  <1>3. \A s \in Request : Suits(tx[s])'
    BY <1>1, <1>2, SuitsKept
  <1>4. DeductionsTaken' /\ RowsAdd'
    BY RowsAddKept
  <1> QED
    BY <1>3, <1>4, PayrollPartsNext

LEMMA IdleSuits ==
    ASSUME NEW r \in Request, tx'[r] = Idle
    PROVE  Suits(tx[r])'
  BY DEF Suits

\* Steps that leave the tables of HR alone.
LEMMA PayrollSame ==
    ASSUME TypedInv, TypedInv', PayrollInv, NEW r \in Request, Moved(r), Suits(tx[r])',
           UNCHANGED <<staff, loan, repaid, payroll, taken, deduction>>, crossed \subseteq crossed',
           last'["payroll"] = last["payroll"], last'["deduction"] = last["deduction"]
    PROVE  PayrollInv'
  <1> PICK L : L = {}
    OBVIOUS
  <1>1. /\ DOMAIN loan' = DOMAIN loan /\ \A l \in DOMAIN loan : loan'[l].emp = loan[l].emp
        /\ \A l \in DOMAIN loan : l \notin L => loan'[l] = loan[l] /\ repaid'[l] = repaid[l]
    OBVIOUS
  <1>2. \A s \in Request, l \in L :
            tx'[s] # Idle /\ <<"loan", l>> \in tx[s].reads => tx'[s].stale
    OBVIOUS
  <1>3. UNCHANGED <<staff, payroll, taken, deduction>>
    OBVIOUS
  <1> QED
    BY ONLY TypedInv, TypedInv', PayrollInv, r \in Request, Moved(r), Suits(tx[r])', <1>1, <1>2,
       <1>3, crossed \subseteq crossed', last'["payroll"] = last["payroll"],
       last'["deduction"] = last["deduction"], PayrollKept

LEMMA PayrollBegin ==
    ASSUME TypedInv, TypedInv', PayrollInv, NEW r \in Request, NEW t, Begin(r, t), Suits(t)
    PROVE  PayrollInv'
  <1>1. /\ Moved(r) /\ tx'[r] = t /\ crossed' = crossed
        /\ UNCHANGED <<staff, loan, repaid, payroll, taken, deduction, last>>
    BY BeginMoves DEF books
  <1>2. Suits(tx[r])'
    BY <1>1 DEF Suits, RunFits, RunIds, AsRead, Affords, UpdateFits, RowsOf, DayOf, Crossed,
                LoansOf, OpenOf, Owing, Balance
  <1> QED
    BY <1>1, <1>2, PayrollSame

LEMMA PayrollAbort ==
    ASSUME TypedInv, TypedInv', PayrollInv, NEW r \in Request, Abort(r)
    PROVE  PayrollInv'
  <1>1. /\ Moved(r) /\ tx'[r] = Idle /\ crossed' = crossed
        /\ UNCHANGED <<staff, loan, repaid, payroll, taken, deduction, last>>
    BY AbortMoves DEF books
  <1> QED
    BY <1>1, IdleSuits, PayrollSame

LEMMA PayrollCommit ==
    ASSUME TypedInv, TypedInv', PayrollInv, NEW r \in Request, NEW W, Commit(r, W),
           UNCHANGED <<staff, loan, repaid, payroll, taken, deduction>>,
           last'["payroll"] = last["payroll"], last'["deduction"] = last["deduction"]
    PROVE  PayrollInv'
  <1>1. Moved(r) /\ tx'[r] = Idle /\ crossed \subseteq crossed'
    BY CommitMoves
  <1> QED
    BY <1>1, IdleSuits, PayrollSame

\* A repayment or a cancellation writes one loan.
LEMMA PayrollLoanCommit ==
    ASSUME TypedInv, TypedInv', PayrollInv, NEW r \in Request, RepayCommit(r) \/ CancelCommit(r)
    PROVE  PayrollInv'
  <1> PICK l, L, W : l = tx[r].arg.loan /\ L = {l} /\ W = {<<"loan", l>>}
    OBVIOUS
  <1>1. /\ l \in DOMAIN loan /\ DOMAIN loan' = DOMAIN loan /\ loan'[l].emp = loan[l].emp
        /\ \A m \in DOMAIN loan : m # l => loan'[m] = loan[m] /\ repaid'[m] = repaid[m]
        /\ Commit(r, W) /\ UNCHANGED <<staff, payroll, taken, deduction, last>>
    <2>1. CASE RepayCommit(r)
      BY <2>1, RepayWrites
    <2>2. CASE CancelCommit(r)
      BY <2>2, CancelWrites
    <2> QED
      BY <2>1, <2>2
  <1>2. /\ Moved(r) /\ tx'[r] = Idle /\ crossed \subseteq crossed'
        /\ \A s \in Request : tx'[s] # Idle /\ tx[s].reads \cap W # {} => tx'[s].stale
    BY <1>1, CommitMoves
  <1>3. \A s \in Request, m \in L :
            tx'[s] # Idle /\ <<"loan", m>> \in tx[s].reads => tx'[s].stale
    BY <1>2
  <1>4. /\ \A m \in DOMAIN loan : loan'[m].emp = loan[m].emp
        /\ \A m \in DOMAIN loan : m \notin L => loan'[m] = loan[m] /\ repaid'[m] = repaid[m]
    BY <1>1
  <1>5. Suits(tx[r])'
    BY <1>2, IdleSuits
  <1> QED
    BY ONLY TypedInv, TypedInv', PayrollInv, r \in Request, <1>1, <1>2, <1>3, <1>4, <1>5,
       PayrollKept

\* Granting a loan, entering a deduction, retiring an employee.
LEMMA PayrollStill ==
    ASSUME TypedInv, TypedInv', PayrollInv, tx' = tx, crossed' = crossed,
           UNCHANGED <<payroll, taken, deduction>>,
           \A e \in Employee : staff'[e] # "gone" => staff[e] # "gone",
           last'["payroll"] = last["payroll"], last'["deduction"] = last["deduction"],
           DOMAIN loan \subseteq DOMAIN loan',
           \A l \in DOMAIN loan : loan'[l] = loan[l] /\ repaid'[l] = repaid[l]
    PROVE  PayrollInv'
  <1>1. HrGrows({}, {})
    <2>1. RowsGrow({})
      BY LastIs DEF RowsGrow, Tables, SameButPaid
    <2>2. DeductionsGrow({})
      BY LastIs DEF DeductionsGrow, Tables
    <2>3. StaffKeeps({}, {})
      BY DEF StaffKeeps, LoansOf, RowsOf
    <2> QED
      BY <2>1, <2>2, <2>3 DEF HrGrows
  <1>2. DeductionsTaken' /\ RowsAdd'
    BY RowsAddKept
  <1> QED
    BY <1>1, <1>2, SuitsStill, PayrollPartsNext

LEMMA PayrollCreateLoan ==
    ASSUME TypedInv, TypedInv', PayrollInv, NEW e \in Employee, NEW n \in Principal, CreateLoan(e, n)
    PROVE  PayrollInv'
  <1> PICK l, x : l = last["loan"] + 1 /\ x = [emp |-> e, amount |-> n, status |-> "open"]
    OBVIOUS
  <1>1. /\ loan' = Insert(loan, l, x) /\ repaid' = Insert(repaid, l, 0)
        /\ last' = [last EXCEPT !["loan"] = l]
        /\ UNCHANGED <<tx, crossed, staff, payroll, taken, deduction>>
    BY DEF CreateLoan, Alone
  <1>2. DOMAIN loan \subseteq 1..last["loan"] /\ DOMAIN repaid = DOMAIN loan
    BY DEF TypedInv, RowsTyped, LoanTable
  <1>3. last["loan"] \in Nat /\ DOMAIN last = Tables
    BY LastIs DEF Tables
  <1>4. l \notin DOMAIN loan
    BY <1>2, <1>3
  <1>5. /\ DOMAIN loan \subseteq DOMAIN loan'
        /\ \A m \in DOMAIN loan : loan'[m] = loan[m] /\ repaid'[m] = repaid[m]
    BY <1>1, <1>2, <1>4 DEF Insert
  <1>6. last'["payroll"] = last["payroll"] /\ last'["deduction"] = last["deduction"]
    BY <1>1, <1>3
  <1> QED
    BY <1>1, <1>5, <1>6, PayrollStill

LEMMA PayrollDeactivate ==
    ASSUME TypedInv, TypedInv', PayrollInv, NEW e \in Employee, Deactivate(e)
    PROVE  PayrollInv'
  <1>1. /\ staff' = [staff EXCEPT ![e] = "inactive"] /\ staff[e] = "active"
        /\ UNCHANGED <<tx, crossed, loan, repaid, payroll, taken, deduction, last>>
    BY DEF Deactivate, Alone
  <1>2. staff \in [Employee -> {"active", "inactive", "gone"}]
    BY DEF TypedInv, RowsTyped, Counters
  <1>3. \A f \in Employee : staff'[f] # "gone" => staff[f] # "gone"
    BY <1>1, <1>2
  <1> QED
    BY <1>1, <1>3, PayrollStill

LEMMA PayrollDeduction ==
    ASSUME TypedInv, TypedInv', PayrollInv, NEW e \in Employee, NEW p \in Period,
           NEW kind \in {"day", "manual"}, NEW n \in Amount, CreateDeduction(e, p, kind, n)
    PROVE  PayrollInv'
  <1> PICK i, x : /\ i = last["deduction"] + 1
                  /\ x = [emp |-> e, period |-> p, kind |-> kind, amount |-> n, payroll |-> 0]
    OBVIOUS
  <1>1. /\ deduction' = Insert(deduction, i, x) /\ last' = [last EXCEPT !["deduction"] = i]
        /\ tx' = tx /\ crossed' = crossed
        /\ UNCHANGED <<staff, loan, repaid, payroll, taken>>
    BY DEF CreateDeduction, Alone
  <1>2. DOMAIN deduction \subseteq 1..last["deduction"]
    BY DEF TypedInv, RowsTyped, DeductionTable
  <1>3. last["deduction"] \in Nat /\ last["payroll"] \in Nat /\ DOMAIN last = Tables
    BY LastIs DEF Tables
  <1>4. i \notin DOMAIN deduction
    BY <1>2, <1>3
  <1>5. /\ DOMAIN deduction' = DOMAIN deduction \cup {i} /\ deduction'[i].payroll = 0
        /\ \A d \in DOMAIN deduction : deduction'[d] = deduction[d]
    BY <1>1, <1>4 DEF Insert
  <1>6. last'["payroll"] = last["payroll"] /\ last'["deduction"] = i
    BY <1>1, <1>3 DEF Tables
  <1>7. HrGrows({}, {})
    <2>1. RowsGrow({})
      BY <1>1, <1>3, <1>6 DEF RowsGrow, SameButPaid
    <2>2. DeductionsGrow({})
      BY <1>3, <1>5, <1>6 DEF DeductionsGrow
    <2>3. StaffKeeps({}, {})
      BY <1>1, <1>5 DEF StaffKeeps, LoansOf, RowsOf
    <2> QED
      BY <2>1, <2>2, <2>3 DEF HrGrows
  <1>8. DeductionsTaken'
    BY <1>1, <1>5 DEF PayrollInv, DeductionsTaken
  <1>9. ASSUME NEW k \in DOMAIN payroll PROVE RowAdds(k)'
    <2>1. RowAdds(k) /\ k # 0
      BY PayrollParts, TableIds DEF RowsAdd, RowIds
    <2>2. Days(k)' = Days(k)
      BY <1>4, <1>5, <2>1 DEF Days
    <2>3. DaySum(k)' = DaySum(k)
      <3>1. \A d \in Days(k) : deduction'[d] = deduction[d]
        BY <1>5 DEF Days
      <3>2. [d \in Days(k) |-> deduction'[d].amount] = [d \in Days(k) |-> deduction[d].amount]
        BY <3>1
      <3> QED
        BY <2>2, <3>2 DEF DaySum
    <2> QED
      BY <1>1, <2>1, <2>3 DEF RowAdds, NetAdds, Crossed, LoansOf, RowsOf
  <1>10. RowsAdd'
    BY <1>1, <1>9 DEF RowsAdd
  <1> QED
    BY <1>1, <1>7, <1>8, <1>10, SuitsStill, PayrollPartsNext

\* The readings of a run.
LEMMA PayrollRunRead ==
    ASSUME TypedInv, TypedInv', PayrollInv, NEW r \in Request, NEW e \in Employee,
           NEW p \in Period, NEW b, NEW n, RunRead(r, e, p, b, n)
    PROVE  PayrollInv'
  <1> PICK P, old, day : /\ P = Pending(e, p)
                         /\ old = {<<k, payroll[k]>> : k \in RowsOf(e, p)} /\ day = DayOf(P)
    OBVIOUS
  <1>1. \E manual : Begin(r, Session("run", {<<"wages", e, p>>},
                        [emp |-> e, period |-> p, bonus |-> b, amount |-> n],
                        [old |-> old, pending |-> P, day |-> day, manual |-> manual,
                         open |-> None]))
    BY DEF RunRead, DayOf
  <1> PICK manual, reads, arg, seen, t :
         /\ reads = {<<"wages", e, p>>}
         /\ arg = [emp |-> e, period |-> p, bonus |-> b, amount |-> n]
         /\ seen = [old |-> old, pending |-> P, day |-> day, manual |-> manual, open |-> None]
         /\ t = Session("run", reads, arg, seen) /\ Begin(r, t)
    BY <1>1
  <1>2. t.kind = "run" /\ t.pc = "read" /\ t.reads = reads /\ t.arg = arg /\ t.seen = seen
    BY DEF Session
  <1>3. /\ t.arg.emp = e /\ t.arg.period = p
        /\ t.seen.old = old /\ t.seen.pending = P /\ t.seen.day = day
    <2>1. t.arg.emp = e /\ t.arg.period = p
      BY ONLY <1>2, arg = [emp |-> e, period |-> p, bonus |-> b, amount |-> n]
    <2>2. t.seen.old = old /\ t.seen.pending = P /\ t.seen.day = day
      BY ONLY <1>2, seen = [old |-> old, pending |-> P, day |-> day, manual |-> manual,
                            open |-> None]
    <2> QED
      BY <2>1, <2>2
  <1>4. /\ DOMAIN deduction \subseteq 1..last["deduction"] /\ DOMAIN payroll \subseteq 1..last["payroll"]
        /\ payroll \in [DOMAIN payroll -> Payroll]
    BY DEF TypedInv, RowsTyped, DeductionTable, PayrollTable
  <1>5. /\ P \subseteq DOMAIN deduction
        /\ \A d \in P : /\ deduction[d].emp = e /\ deduction[d].period = p
                        /\ deduction[d].payroll = 0
    BY DEF Pending
  <1>6. ASSUME NEW o \in old
        PROVE  /\ o[1] \in DOMAIN payroll /\ o[2] = payroll[o[1]]
               /\ payroll[o[1]].emp = e /\ payroll[o[1]].period = p
    BY DEF RowsOf
  <1>7. RowsOf(e, p) = {o[1] : o \in old}
    <2>1. ASSUME NEW o \in old PROVE o[1] \in RowsOf(e, p)
      BY <1>6 DEF RowsOf
    <2>2. ASSUME NEW k \in RowsOf(e, p) PROVE \E o \in old : k = o[1]
      <3>1. <<k, payroll[k]>> \in old
        OBVIOUS
      <3> QED
        BY ONLY <3>1
    <2> QED
      BY ONLY <2>1, <2>2
  <1>8. RunIds(t)
    <2>1. /\ <<"wages", e, p>> \in reads /\ P \subseteq 1..last["deduction"]
          /\ \A o \in old : o[1] <= last["payroll"]
      BY <1>4, <1>5, <1>6
    <2>2. t.reads = reads
      BY <1>2
    <2> QED
      BY ONLY <1>3, <1>5, <1>6, <2>1, <2>2 DEF RunIds
  <1>9. AsRead(t)
    BY <1>3, <1>5, <1>6, <1>7 DEF AsRead, SameButPaid
  <1>10. Affords(t)
    BY <1>2 DEF Affords
  <1>11. Suits(t)
    BY <1>2, <1>8, <1>9, <1>10 DEF Suits, RunFits
  <1> QED
    BY <1>11, PayrollBegin

LEMMA PayrollUpdateRead ==
    ASSUME TypedInv, TypedInv', PayrollInv, NEW r \in Request, NEW k \in DOMAIN payroll,
           NEW b, NEW m, UpdateRead(r, k, b, m)
    PROVE  PayrollInv'
  <1> PICK row, reads, arg, seen, t :
         /\ row = payroll[k] /\ reads = {<<"wages", row.emp, row.period>>}
         /\ arg = [payroll |-> k, bonus |-> b, manual |-> m] /\ seen = [row |-> row]
         /\ t = Session("update", reads, arg, seen)
    OBVIOUS
  <1>1. Begin(r, t)
    BY DEF UpdateRead
  <1>2. t.kind = "update" /\ t.arg.payroll = k /\ t.seen.row = row /\ t.reads = reads
    BY DEF Session
  <1>3. k <= last["payroll"]
    BY DEF TypedInv, RowsTyped, PayrollTable
  <1>4. Suits(t)
    BY <1>2, <1>3 DEF Suits, UpdateFits, SameButPaid
  <1> QED
    BY <1>1, <1>4, PayrollBegin

\* A repayment that passes the check is covered by the open loans: paid ones have
\* no balance left.
LEMMA PayrollRunCheck ==
    ASSUME TypedInv, TypedInv', LoansInv, PayrollInv, NEW r \in Request, RunCheck(r)
    PROVE  PayrollInv'
  <1> PICK t, e, n : t = tx[r] /\ e = t.arg.emp /\ n = t.arg.amount
    OBVIOUS
  <1> PICK reads, N, f : /\ reads = {<<"loan", l>> : l \in LoansOf(e)}
                         /\ N = {m \in LoansOf(e) : loan[m].status # "cancelled"}
                         /\ f = [l \in N |-> Balance(l)]
    OBVIOUS
  <1>1. /\ t # Idle /\ t.kind = "run" /\ n <= SumFunction(f)
        /\ Continue(r, "checked", reads, t.seen)
    BY DEF RunCheck, At
  <1>2. /\ Moved(r) /\ crossed' = crossed
        /\ UNCHANGED <<staff, loan, repaid, payroll, taken, deduction, last>>
        /\ tx'[r].kind = "run" /\ tx'[r].pc = "checked" /\ tx'[r].seen = t.seen
        /\ tx'[r].arg = t.arg /\ tx'[r].stale = t.stale /\ tx'[r].reads = t.reads \cup reads
    BY <1>1, ContinueMoves DEF books
  <1>3. RunFits(t) /\ RunTyped(t)
    BY <1>1 DEF PayrollInv, Suits, TypedInv, Carries
  <1> PICK S, g : S = OpenOf(e) /\ g = [l \in S |-> Balance(l)]
    OBVIOUS
  <1>4. S \subseteq N /\ N \subseteq DOMAIN loan /\ IsFiniteSet(N) /\ IsFiniteSet(S)
        /\ IsFiniteSet(N \ S)
    <2>1. S \subseteq N /\ N \subseteq DOMAIN loan
      BY DEF OpenOf, LoansOf
    <2> QED
      BY <2>1, TableIds, FS_Subset
  <1>5. \A l \in N : f[l] \in Int /\ f[l] = Balance(l)
    BY <1>4, BalanceIs
  <1>6. n <= Owing(S)
    <2> PICK z : z = [l \in N |-> 0]
      OBVIOUS
    <2>1. SumFunctionOnSet(f, N) = SumFunctionOnSet(f, S) + SumFunctionOnSet(f, N \ S)
      BY ONLY <1>4, <1>5, SumSplit
    <2>2. \A l \in N \ S : f[l] <= z[l] /\ z[l] \in Int /\ f[l] \in Int /\ z[l] = 0
      <3>1. ASSUME NEW l \in N \ S PROVE f[l] <= 0
        <4>1. l \in DOMAIN loan /\ loan[l].status = "paid"
          <5>1. l \in DOMAIN loan /\ loan[l].status \notin {"open", "cancelled"}
            BY <1>4 DEF OpenOf
          <5> QED
            BY <5>1, BalanceIs
        <4>2. repaid[l] >= loan[l].amount /\ repaid[l] \in Nat /\ loan[l].amount \in Nat
          BY <4>1, BalanceIs DEF LoansInv, PaidLoansAreRepaid
        <4> QED
          BY <1>5, <4>2 DEF Balance
      <3> QED
        BY <1>5, <3>1
    <2>3. SumFunctionOnSet(f, N \ S) <= SumFunctionOnSet(z, N \ S)
      BY ONLY <1>4, <2>2, SumOrdered
    <2>4. SumFunctionOnSet(z, N \ S) = 0
      BY ONLY <1>4, <2>2, SumZero
    <2>5. SumFunctionOnSet(f, S) = SumFunctionOnSet(g, S)
      <3>1. \A l \in S : f[l] = g[l]
        BY <1>4
      <3> QED
        BY ONLY <1>4, <3>1, SumSame
    <2>6. SumFunctionOnSet(f, S) \in Int /\ SumFunctionOnSet(f, N \ S) \in Int
      BY <1>4, <1>5, SumIsInt
    <2>7. SumFunction(f) = SumFunctionOnSet(f, N) /\ Owing(S) = SumFunctionOnSet(g, S)
      BY DEF SumFunction, Owing
    <2>8. n \in Nat /\ n <= SumFunctionOnSet(f, N)
      BY <1>1, <1>3, <2>7 DEF RunTyped
    <2> QED
      BY ONLY <2>1, <2>3, <2>4, <2>5, <2>6, <2>7, <2>8
  <1>7. \A l \in S : <<"loan", l>> \in reads
    BY DEF OpenOf
  <1>8. Affords(tx[r])'
    <2>1. S \in SUBSET OpenOf(e)' /\ Owing(S)' = Owing(S)
      BY <1>2 DEF OpenOf, LoansOf, Owing, Balance
    <2>2. /\ tx'[r].pc = "checked" /\ tx'[r].arg.emp = e /\ tx'[r].arg.amount = n
          /\ \A l \in S : <<"loan", l>> \in tx'[r].reads
      BY <1>2, <1>7
    <2> QED
      BY ONLY <1>6, <2>1, <2>2 DEF Affords
  <1>9. RunFits(tx[r])'
    <2>1. RunIds(tx[r])'
      BY <1>2, <1>3 DEF RunFits, RunIds
    <2>2. staff[e] # "gone" => t.stale \/ AsRead(tx[r])'
      BY <1>2, <1>3 DEF RunFits, AsRead, RowsOf, DayOf
    <2> QED
      BY <1>2, <1>8, <2>1, <2>2 DEF RunFits
  <1>10. Suits(tx[r])'
    BY <1>2, <1>9 DEF Suits
  <1> QED
    BY <1>2, <1>10, PayrollSame

\* The open loans, read again, still bear the repayment.
LEMMA PayrollRunLoans ==
    ASSUME TypedInv, TypedInv', LoansInv, PayrollInv, NEW r \in Request, RunLoans(r)
    PROVE  PayrollInv'
  <1> PICK t, e, n : t = tx[r] /\ e = t.arg.emp /\ n = t.arg.amount
    OBVIOUS
  <1> PICK reads, N, open, seen :
         /\ reads = {<<"loan", l>> : l \in LoansOf(e)} /\ N = OpenOf(e)
         /\ open = [l \in N |-> Balance(l)] /\ seen = [t.seen EXCEPT !.open = open]
    OBVIOUS
  <1>1. t # Idle /\ t.kind = "run" /\ t.pc = "checked" /\ Continue(r, "loans", reads, seen)
    BY DEF RunLoans, At, OpenOf
  <1>2. /\ Moved(r) /\ crossed' = crossed
        /\ UNCHANGED <<staff, loan, repaid, payroll, taken, deduction, last>>
        /\ tx'[r].kind = "run" /\ tx'[r].pc = "loans" /\ tx'[r].seen = seen
        /\ tx'[r].arg = t.arg /\ tx'[r].stale = t.stale /\ tx'[r].reads = t.reads \cup reads
    BY <1>1, ContinueMoves DEF books
  <1>3. RunFits(t) /\ RunTyped(t)
    BY <1>1 DEF PayrollInv, Suits, TypedInv, Carries
  <1>4. /\ seen.old = t.seen.old /\ seen.pending = t.seen.pending /\ seen.day = t.seen.day
        /\ seen.open = open
    BY <1>3 DEF RunTyped
  <1>5. N \subseteq LoansOf(e) /\ N \subseteq DOMAIN loan /\ IsFiniteSet(N)
    <2>1. N \subseteq LoansOf(e) /\ N \subseteq DOMAIN loan
      BY DEF OpenOf, LoansOf
    <2> QED
      BY <2>1, TableIds, FS_Subset
  <1>6. ASSUME staff[e] # "gone", ~t.stale, ~Crossed(e)
        PROVE  (\A l \in N : open[l] > 0) /\ n <= SumFunction(open)
    <2>1. ASSUME NEW l \in N PROVE open[l] \in Nat /\ open[l] > 0 /\ open[l] = Balance(l)
      <3>1. l \in DOMAIN loan /\ loan[l].status = "open" /\ <<"loan", l>> \notin crossed
        BY <1>5, <1>6 DEF OpenOf, Crossed
      <3>2. repaid[l] < loan[l].amount /\ repaid[l] \in Nat /\ loan[l].amount \in Nat
        BY <3>1, BalanceIs DEF LoansInv, LoansStayWithinAmount
      <3> QED
        BY <3>2 DEF Balance
    <2>2. Affords(t)
      BY <1>3, <1>6 DEF RunFits
    <2>3. PICK S \in SUBSET N : n <= Owing(S)
      BY <1>1, <2>2 DEF Affords
    <2> PICK g : g = [l \in S |-> Balance(l)]
      OBVIOUS
    <2>4. IsFiniteSet(S) /\ IsFiniteSet(N \ S)
      BY <1>5, FS_Subset
    <2>5. SumFunctionOnSet(open, N) = SumFunctionOnSet(open, S) + SumFunctionOnSet(open, N \ S)
      <3>1. \A l \in N : open[l] \in Int
        BY <2>1
      <3> QED
        BY ONLY <1>5, <3>1, S \in SUBSET N, SumSplit
    <2>6. SumFunctionOnSet(open, S) \in Nat /\ SumFunctionOnSet(open, N \ S) \in Nat
      <3>1. (\A l \in S : open[l] \in Nat) /\ (\A l \in N \ S : open[l] \in Nat)
        BY <2>1
      <3> QED
        BY ONLY <2>4, <3>1, SumNat
    <2>7. SumFunctionOnSet(open, S) = SumFunctionOnSet(g, S)
      <3>1. \A l \in S : open[l] = g[l]
        BY <2>1
      <3> QED
        BY ONLY <2>4, <3>1, SumSame
    <2>8. Owing(S) = SumFunctionOnSet(g, S) /\ SumFunction(open) = SumFunctionOnSet(open, N)
      BY DEF Owing, SumFunction
    <2>9. n \in Nat
      BY <1>3 DEF RunTyped
    <2>10. n <= SumFunction(open)
      BY ONLY <2>3, <2>5, <2>6, <2>7, <2>8, <2>9
    <2> QED
      BY <2>1, <2>10
  <1>7. RunFits(tx[r])'
    <2>1. /\ tx'[r].seen.old = t.seen.old /\ tx'[r].seen.pending = t.seen.pending
          /\ tx'[r].seen.day = t.seen.day /\ tx'[r].seen.open = open /\ DOMAIN open = N
      BY <1>2, <1>4
    <2>2. RunIds(tx[r])'
      BY <1>2, <1>3, <2>1 DEF RunFits, RunIds
    <2>3. staff[e] # "gone" => t.stale \/ AsRead(tx[r])'
      BY <1>2, <1>3, <2>1 DEF RunFits, AsRead, RowsOf, DayOf
    <2>4. staff[e] # "gone" => t.stale \/ Crossed(e) \/ Affords(tx[r])'
      <3>1. tx'[r].pc = "loans" /\ tx'[r].arg.amount = n
        BY <1>2
      <3> QED
        BY ONLY <1>6, <2>1, <3>1 DEF Affords
    <2>5. tx'[r].arg.emp = e /\ tx'[r].stale = t.stale /\ staff' = staff /\ Crossed(e)' = Crossed(e)
      BY <1>2 DEF Crossed, LoansOf
    <2> QED
      BY ONLY <2>2, <2>3, <2>4, <2>5 DEF RunFits
  <1>8. Suits(tx[r])'
    BY <1>2, <1>7 DEF Suits
  <1> QED
    BY <1>2, <1>8, PayrollSame

LEMMA PayrollOthersRead ==
    ASSUME TypedInv, TypedInv', PayrollInv, NEW r \in Request,
           \/ \E l \in DOMAIN loan, n \in Instalment : RepayRead(r, l, n)
           \/ \E l \in DOMAIN loan, admin \in BOOLEAN : CancelRead(r, l, admin)
           \/ \E c \in Category, till \in Till, n \in Amount : BillRead(r, c, till, n)
           \/ \E k \in DOMAIN payroll, till \in Till : PayRead(r, k, till)
           \/ \E x \in DOMAIN expense : \E new \in Edits(x) : EditRead(r, x, new)
           \/ \E x \in DOMAIN expense : DeleteRead(r, x)
           \/ \E c \in Category : ArchiveRead(r, c)
           \/ ClearRead(r)
    PROVE  PayrollInv'
  <1>1. \E kind, reads, arg, seen :
           kind \notin {"run", "update"} /\ Begin(r, Session(kind, reads, arg, seen))
    <2>1. CASE \E l \in DOMAIN loan, admin \in BOOLEAN : CancelRead(r, l, admin)
      BY <2>1 DEF CancelRead
    <2>2. CASE \E l \in DOMAIN loan, n \in Instalment : RepayRead(r, l, n)
      BY <2>2 DEF RepayRead
    <2>3. CASE \E c \in Category, till \in Till, n \in Amount : BillRead(r, c, till, n)
      BY <2>3 DEF BillRead
    <2>4. CASE \E k \in DOMAIN payroll, till \in Till : PayRead(r, k, till)
      BY <2>4 DEF PayRead
    <2>5. CASE \E x \in DOMAIN expense : \E new \in Edits(x) : EditRead(r, x, new)
      BY <2>5 DEF EditRead
    <2>6. CASE \E x \in DOMAIN expense : DeleteRead(r, x)
      BY <2>6 DEF DeleteRead
    <2>7. CASE \E c \in Category : ArchiveRead(r, c)
      BY <2>7 DEF ArchiveRead
    <2>8. CASE ClearRead(r)
      BY <2>8 DEF ClearRead
    <2> QED
      BY <2>1, <2>2, <2>3, <2>4, <2>5, <2>6, <2>7, <2>8
  <1> PICK kind, reads, arg, seen, t :
         /\ kind \notin {"run", "update"} /\ t = Session(kind, reads, arg, seen) /\ Begin(r, t)
    BY <1>1
  <1>2. Suits(t)
    BY DEF Session, Suits
  <1> QED
    BY <1>2, PayrollBegin

LEMMA PayrollRepayFlush ==
    ASSUME TypedInv, TypedInv', PayrollInv, NEW r \in Request, RepayFlush(r)
    PROVE  PayrollInv'
  <1>1. tx[r] # Idle /\ tx[r].kind = "repay" /\ \E seen : Continue(r, "flushed", {}, seen)
    BY DEF RepayFlush, At
  <1>2. PICK seen : Continue(r, "flushed", {}, seen)
    BY <1>1
  <1>3. /\ Moved(r) /\ crossed' = crossed /\ tx'[r].kind = "repay"
        /\ UNCHANGED <<staff, loan, repaid, payroll, taken, deduction, last>>
    BY <1>1, <1>2, ContinueMoves DEF books
  <1>4. Suits(tx[r])'
    BY <1>3 DEF Suits
  <1> QED
    BY <1>3, <1>4, PayrollSame

LEMMA PayrollOthersCommit ==
    ASSUME TypedInv, TypedInv', PayrollInv, NEW r \in Request,
           BillCommit(r) \/ EditCommit(r) \/ DeleteCommit(r) \/ ArchiveCommit(r)
    PROVE  PayrollInv'
  <1>1. \E W : /\ Commit(r, W) /\ UNCHANGED <<staff, loan, repaid, payroll, taken, deduction>>
               /\ last'["payroll"] = last["payroll"] /\ last'["deduction"] = last["deduction"]
    <2>1. CASE EditCommit(r) \/ DeleteCommit(r) \/ ArchiveCommit(r)
      BY <2>1 DEF EditCommit, DeleteCommit, ArchiveCommit
    <2>2. ASSUME NEW x, InsertExpense(x)
          PROVE  last'["payroll"] = last["payroll"] /\ last'["deduction"] = last["deduction"]
      BY <2>2, LastIs DEF InsertExpense, Tables
    <2>3. CASE BillCommit(r)
      BY <2>2, <2>3 DEF BillCommit
    <2> QED
      BY <2>1, <2>3
  <1> QED
    BY <1>1, PayrollCommit

\* Nobody is left.
LEMMA PayrollClear ==
    ASSUME TypedInv, TypedInv', PayrollInv, NEW r \in Request, ClearCommit(r)
    PROVE  PayrollInv'
  <1>1. /\ staff' = [e \in Employee |-> "gone"] /\ payroll' = None /\ deduction' = None
        /\ last' = last /\ \E W : Commit(r, W)
    BY DEF ClearCommit
  <1>2. DOMAIN payroll' = {} /\ DOMAIN deduction' = {}
    BY <1>1 DEF None
  <1>3. Moved(r) /\ tx'[r] = Idle /\ crossed \subseteq crossed'
    BY <1>1, CommitMoves
  <1> PICK P, L : P = {} /\ L = {}
    OBVIOUS
  <1>4. HrGrows(P, L)
    <2>1. RowsGrow(P)
      BY <1>1, <1>2, LastIs DEF RowsGrow, Tables
    <2>2. DeductionsGrow(P)
      BY <1>1, <1>2, LastIs DEF DeductionsGrow, Tables
    <2>3. StaffKeeps(P, L)
      BY <1>1 DEF StaffKeeps
    <2> QED
      BY <2>1, <2>2, <2>3 DEF HrGrows
  <1>5. \A s \in Request : tx'[s] # Idle =>
              /\ \A q \in P : <<"wages", q[1], q[2]>> \in tx[s].reads => tx'[s].stale
              /\ \A l \in L : <<"loan", l>> \in tx[s].reads => tx'[s].stale
    OBVIOUS
  <1>6. Suits(tx[r])'
    BY <1>3, IdleSuits
  <1>7. \A s \in Request : Suits(tx[s])'
    BY ONLY TypedInv, TypedInv', PayrollInv, r \in Request, <1>3, <1>4, <1>5, <1>6, SuitsKept
  <1>8. DeductionsTaken' /\ RowsAdd'
    BY <1>2 DEF DeductionsTaken, RowsAdd
  <1> QED
    BY <1>7, <1>8, PayrollPartsNext

\* A payroll is written over, within its period.
LEMMA PayrollRowWritten ==
    ASSUME TypedInv, TypedInv', PayrollInv, NEW r \in Request, NEW W, Commit(r, W),
           UNCHANGED <<staff, loan, repaid, deduction, taken>>,
           last'["payroll"] = last["payroll"], last'["deduction"] = last["deduction"],
           NEW k \in DOMAIN payroll, DOMAIN payroll' = DOMAIN payroll,
           \A j \in DOMAIN payroll : j # k => payroll'[j] = payroll[j],
           NEW e, NEW p, payroll[k].emp = e, payroll[k].period = p,
           payroll'[k].emp = e, payroll'[k].period = p,
           SameButPaid(payroll'[k], payroll[k]) \/ <<"wages", e, p>> \in W,
           NetAdds(payroll[k]) /\ <<"wages", e, p>> \notin crossed' =>
              /\ payroll'[k].loan = payroll[k].loan /\ payroll'[k].day = payroll[k].day
              /\ NetAdds(payroll'[k])
    PROVE  PayrollInv'
  <1>1. /\ Moved(r) /\ tx'[r] = Idle /\ crossed \subseteq crossed'
        /\ \A s \in Request : tx'[s] # Idle /\ tx[s].reads \cap W # {} => tx'[s].stale
    BY CommitMoves
  <1> PICK P, L : /\ P = (IF SameButPaid(payroll'[k], payroll[k]) THEN {} ELSE {<<e, p>>})
                  /\ L = {}
    OBVIOUS
  <1>2. \A f, q : RowsOf(f, q)' = RowsOf(f, q)
    BY DEF RowsOf
  <1>3. HrGrows(P, L)
    <2>1. RowsGrow(P)
      BY LastIs DEF RowsGrow, Tables, SameButPaid
    <2>2. DeductionsGrow(P)
      BY LastIs DEF DeductionsGrow, Tables
    <2>3. StaffKeeps(P, L)
      BY <1>2 DEF StaffKeeps, LoansOf
    <2> QED
      BY <2>1, <2>2, <2>3 DEF HrGrows
  <1>4. \A s \in Request : tx'[s] # Idle =>
              /\ \A q \in P : <<"wages", q[1], q[2]>> \in tx[s].reads => tx'[s].stale
              /\ \A l \in L : <<"loan", l>> \in tx[s].reads => tx'[s].stale
    <2>1. \A q \in P : <<"wages", q[1], q[2]>> \in W
      OBVIOUS
    <2> QED
      BY <1>1, <2>1
  <1>5. Suits(tx[r])'
    BY <1>1, IdleSuits
  <1>6. \A s \in Request : Suits(tx[s])'
    BY ONLY TypedInv, TypedInv', PayrollInv, r \in Request, <1>1, <1>3, <1>4, <1>5, SuitsKept
  <1>7. DeductionsTaken'
    BY DEF PayrollInv, DeductionsTaken
  <1>8. ASSUME NEW j \in DOMAIN payroll PROVE RowAdds(j)'
    <2>1. RowAdds(j)
      BY PayrollParts DEF RowsAdd
    <2>2. DaySum(j)' = DaySum(j) /\ taken' = taken
      BY DEF DaySum, Days
    <2>3. \A f : Crossed(f) => Crossed(f)'
      BY <1>1 DEF Crossed, LoansOf
    <2>4. CASE j # k
      <3>1. payroll'[j] = payroll[j]
        BY <2>4
      <3> QED
        BY <1>1, <1>2, <2>1, <2>2, <2>3, <3>1 DEF RowAdds
    <2>5. CASE j = k
      <3> QED
        BY <1>1, <1>2, <2>1, <2>2, <2>3, <2>5 DEF RowAdds
    <2> QED
      BY <2>4, <2>5
  <1>9. RowsAdd'
    BY <1>8 DEF RowsAdd
  <1> QED
    BY <1>6, <1>7, <1>9, PayrollPartsNext

LEMMA PayrollUpdateCommit ==
    ASSUME TypedInv, TypedInv', PayrollInv, NEW r \in Request, UpdateCommit(r)
    PROVE  PayrollInv'
  <1> PICK t, k, row, W : /\ t = tx[r] /\ k = t.arg.payroll /\ row = t.seen.row
                          /\ W = {<<"wages", row.emp, row.period>>}
    OBVIOUS
  <1>1. /\ t # Idle /\ t.kind = "update" /\ UpdateTyped(t) /\ Commit(r, W)
        /\ k \in DOMAIN payroll /\ payroll' \in [DOMAIN payroll -> Payroll]
        /\ \A j \in DOMAIN payroll : j # k => payroll'[j] = payroll[j]
    BY UpdateWrites
  <1>2. PICK new \in Payroll :
           /\ payroll'[k] = Flushed(payroll[k], row, new)
           /\ new.emp = row.emp /\ new.period = row.period
           /\ new.loan = row.loan /\ new.day = row.day /\ NetAdds(new)
    BY UpdateWrites DEF Updated
  <1>3. UpdateFits(t)
    BY <1>1 DEF PayrollInv, Suits
  <1>4. row \in Payroll /\ payroll[k] \in Payroll
    BY <1>1 DEF UpdateTyped, TypedInv, RowsTyped, PayrollTable
  <1> PICK now, v : now = payroll[k] /\ v = payroll'[k]
    OBVIOUS
  <1>5. \A c \in PayrollFields : v[c] = IF new[c] = row[c] THEN now[c] ELSE new[c]
    BY <1>2, <1>4, PayrollFlushed
  <1>6. now.emp = row.emp /\ now.period = row.period
    BY <1>1, <1>3 DEF UpdateFits
  <1>7. v.emp = row.emp /\ v.period = row.period
    BY <1>2, <1>5, <1>6 DEF PayrollFields
  <1>8. ASSUME <<"wages", row.emp, row.period>> \notin crossed'
        PROVE  v.loan = now.loan /\ v.day = now.day /\ NetAdds(v)
    <2>1. ~t.stale
      BY <1>1, <1>3, <1>8, CommitMoves DEF UpdateFits
    <2>2. SameButPaid(now, row)
      BY <1>1, <1>3, <2>1 DEF UpdateFits
    <2>3. \A c \in PayrollFields : c # "paid" => v[c] = new[c]
      BY <1>5, <2>2 DEF SameButPaid
    <2>4. /\ v.loan = new.loan /\ v.day = new.day /\ v.net = new.net /\ v.base = new.base
          /\ v.bonus = new.bonus /\ v.manual = new.manual
      BY <2>3 DEF PayrollFields
    <2>5. now.loan = row.loan /\ now.day = row.day
      BY <2>2 DEF SameButPaid, PayrollFields
    <2> QED
      BY <1>2, <2>4, <2>5 DEF NetAdds
  <1>9. UNCHANGED <<staff, loan, repaid, deduction, taken, last>>
    BY DEF UpdateCommit
  <1>10. DOMAIN payroll' = DOMAIN payroll
    BY <1>1
  <1>11. <<"wages", row.emp, row.period>> \in W
    OBVIOUS
  <1> PICK e, p : e = row.emp /\ p = row.period
    OBVIOUS
  <1> QED
    BY <1>1, <1>6, <1>7, <1>8, <1>9, <1>10, <1>11, PayrollRowWritten

\* Paying writes nothing of what adds up.
LEMMA PayrollPay ==
    ASSUME TypedInv, TypedInv', PayrollInv, NEW r \in Request, PayCommit(r)
    PROVE  PayrollInv'
  <1> PICK t, k : t = tx[r] /\ k = t.arg.payroll
    OBVIOUS
  <1>1. /\ k \in DOMAIN payroll /\ payroll' \in [DOMAIN payroll -> Payroll]
        /\ \A j \in DOMAIN payroll : j # k => payroll'[j] = payroll[j]
        /\ \A c \in PayrollFields : c # "paid" => payroll'[k][c] = payroll[k][c]
        /\ last' = last \/ InsertExpense(t.seen.new)
        /\ UNCHANGED <<staff, loan, repaid, deduction, taken>>
    BY PayWrites
  <1>2. PICK W : Commit(r, W)
    BY PayWrites
  <1>3. last'["payroll"] = last["payroll"] /\ last'["deduction"] = last["deduction"]
    BY <1>1, LastIs DEF InsertExpense, Tables
  <1> PICK now, v : now = payroll[k] /\ v = payroll'[k]
    OBVIOUS
  <1>4. /\ v.emp = now.emp /\ v.period = now.period /\ v.loan = now.loan /\ v.day = now.day
        /\ v.net = now.net /\ v.base = now.base /\ v.bonus = now.bonus /\ v.manual = now.manual
        /\ SameButPaid(v, now)
    BY <1>1 DEF PayrollFields, SameButPaid
  <1>5. NetAdds(now) => NetAdds(v)
    BY <1>4 DEF NetAdds
  <1>6. DOMAIN payroll' = DOMAIN payroll
    BY <1>1
  <1> PICK e, p : e = now.emp /\ p = now.period
    OBVIOUS
  <1> QED
    BY <1>1, <1>2, <1>3, <1>4, <1>5, <1>6, PayrollRowWritten

\* A repayment the open loans bear is taken from them in full.
LEMMA AppliedIs ==
    ASSUME NEW t, RunTyped(t), Affords(t),
           t.pc = "loans" \/ (t.pc = "read" /\ t.arg.amount = 0)
    PROVE  Applied(t) = t.arg.amount
  <1> PICK open, N, n, S, g : /\ open = t.seen.open /\ N = DOMAIN open /\ n = t.arg.amount
                              /\ S = Paying(t) /\ g = [l \in S |-> ShareOf(t, l)]
    OBVIOUS
  <1>1. open \in [N -> Int] /\ N \subseteq RowIds /\ n \in Nat
    BY DEF RunTyped
  <1>2. S = {l \in N : n > Older(open, l)} /\ Applied(t) = SumFunctionOnSet(g, S)
    BY DEF Paying, Visited, Applied, SumFunction
  <1>3. IsFiniteSet(N) /\ IsFiniteSet(S)
    BY <1>1, <1>2, IdsFinite
  <1>4. ASSUME NEW l \in N PROVE Older(open, l) \in Nat
    <2> PICK M : M = {m \in N : m < l /\ open[m] > 0}
      OBVIOUS
    <2>1. IsFiniteSet(M) /\ \A m \in M : open[m] \in Nat
      BY <1>1, <1>3, FS_Subset
    <2>2. SumFunctionOnSet(open, M) \in Nat
      BY ONLY <2>1, SumNat
    <2> QED
      BY <2>2 DEF Older, Total
  <1>5. CASE n = 0
    <2>1. S = {}
      BY <1>2, <1>4, <1>5
    <2> QED
      BY <1>2, <1>5, <2>1, SumEmpty
  <1>6. CASE n # 0
    <2>1. (\A l \in N : open[l] > 0) /\ n <= SumFunction(open)
      BY <1>6 DEF Affords
    <2> PICK a : a = [l \in N |-> IF l \in S THEN ShareOf(t, l) ELSE 0]
      OBVIOUS
    <2>2. \A l \in N : open[l] \in Nat /\ l \in Int
      BY <1>1, <2>1 DEF RowIds
    <2>3. ASSUME NEW l \in N
          PROVE  LET older == SumFunctionOnSet(open, {j \in N : j < l})
                 IN  a[l] = IF n > older
                            THEN IF open[l] < n - older THEN open[l] ELSE n - older
                            ELSE 0
      <3> PICK o : o = SumFunctionOnSet(open, {j \in N : j < l})
        OBVIOUS
      <3>1. {j \in N : j < l} = {m \in DOMAIN open : m < l /\ open[m] > 0}
        BY <2>1
      <3>2. Older(open, l) = o
        BY <3>1 DEF Older, Total
      <3>3. l \in S <=> n > o
        BY <1>2, <3>2
      <3>4. ShareOf(t, l) = IF open[l] <= 0 THEN 0
                            ELSE IF open[l] < n - o THEN open[l] ELSE n - o
        BY <3>2 DEF ShareOf, Share, Smaller
      <3>5. a[l] = IF l \in S THEN ShareOf(t, l) ELSE 0
        OBVIOUS
      <3>6. open[l] > 0 /\ open[l] \in Nat
        BY <2>1, <2>2
      <3> QED
        BY ONLY <3>3, <3>4, <3>5, <3>6, o = SumFunctionOnSet(open, {j \in N : j < l})
    <2>4. SumFunctionOnSet(a, N)
             = IF SumFunctionOnSet(open, N) < n THEN SumFunctionOnSet(open, N) ELSE n
      <3>1. N \subseteq Int /\ \A l \in N : open[l] \in Nat
        BY <2>2
      <3>2. IsFiniteSet(N) /\ n \in Nat
        BY <1>1, <1>3
      <3> QED
        BY ONLY <2>3, <3>1, <3>2, Spread, ZenonT(60)
    <2>5. SumFunctionOnSet(open, N) \in Nat /\ n <= SumFunctionOnSet(open, N)
      <3>1. SumFunctionOnSet(open, N) \in Nat
        BY ONLY <1>3, <2>2, SumNat
      <3> QED
        BY <2>1, <3>1 DEF SumFunction
    <2>6. SumFunctionOnSet(a, N) = n
      BY ONLY <1>1, <2>4, <2>5
    <2>7. SumFunctionOnSet(g, S) = SumFunctionOnSet(a, S)
      <3>1. \A l \in S : g[l] = a[l]
        BY <1>2
      <3> QED
        BY ONLY <1>3, <3>1, SumSame
    <2>8. SumFunctionOnSet(a, S) = SumFunctionOnSet(a, N)
      <3>1. ASSUME NEW l \in N PROVE a[l] \in Int
        BY <1>1, <1>2, <1>4, <2>1, <3>1 DEF ShareOf, Share, Smaller
      <3>2. S \subseteq N /\ \A l \in N : a[l] = IF l \in S THEN a[l] ELSE 0
        BY <1>2
      <3> QED
        BY ONLY <1>3, <3>1, <3>2, SumOfPart
    <2> QED
      BY ONLY <1>2, <2>6, <2>7, <2>8, n = t.arg.amount
  <1> QED
    BY <1>5, <1>6

\* The row a run writes is that of its employee and period ...
LEMMA RunRow ==
    ASSUME TypedInv, NEW r \in Request, RunCommit(r), NEW t, t = tx[r], RunIds(t),
           NEW k, k = RunKey(t)
    PROVE  /\ k \in RowIds
           /\ DOMAIN payroll' = DOMAIN payroll \cup {k} /\ DOMAIN taken' = DOMAIN payroll'
           /\ payroll'[k] \in Payroll
           /\ payroll'[k].emp = t.arg.emp /\ payroll'[k].period = t.arg.period
           /\ k \in DOMAIN payroll => payroll[k].emp = t.arg.emp /\ payroll[k].period = t.arg.period
           /\ \A j \in DOMAIN payroll : j # k => payroll'[j] = payroll[j] /\ taken'[j] = taken[j]
           /\ RowOfRun(t, k) /\ (k \in DOMAIN payroll \/ k > last["payroll"])
           /\ last["payroll"] <= last'["payroll"] /\ last'["deduction"] = last["deduction"]
           /\ deduction' = WithPayroll(t.seen.pending, k)
  <1>1. RunTyped(t) /\ Applied(t) \in Nat
    BY RunCommits
  <1>2. /\ k \in RowIds
        /\ payroll' \in [DOMAIN payroll \cup {k} -> Payroll]
        /\ taken' \in [DOMAIN payroll \cup {k} -> Nat]
        /\ \A j \in DOMAIN payroll : j # k => payroll'[j] = payroll[j] /\ taken'[j] = taken[j]
        /\ RowOfRun(t, k)
        /\ \A i \in Tables \ {"payroll"} : last'[i] = last[i]
        /\ last["payroll"] <= last'["payroll"]
        /\ deduction' = WithPayroll(t.seen.pending, k)
    BY ONLY TypedInv, r \in Request, RunCommit(r), t = tx[r], k = RunKey(t), RunWritesRow
  <1> PICK s : s = Sheet(t)
    OBVIOUS
  <1>3. s \in Payroll /\ s.emp = t.arg.emp /\ s.period = t.arg.period
    BY <1>1, SheetIs
  <1>4. /\ DOMAIN payroll' = DOMAIN payroll \cup {k} /\ DOMAIN taken' = DOMAIN payroll'
        /\ payroll'[k] \in Payroll
        /\ last'["deduction"] = last["deduction"]
    BY <1>2 DEF Tables
  <1>5. ASSUME NEW w \in Payroll, t.seen.old = {<<k, w>>}, k \in DOMAIN payroll,
               payroll'[k] = Flushed(payroll[k], w, Sheet(t))
        PROVE  /\ payroll'[k].emp = t.arg.emp /\ payroll'[k].period = t.arg.period
               /\ payroll[k].emp = t.arg.emp /\ payroll[k].period = t.arg.period
    <2>1. <<k, w>> \in t.seen.old
      BY <1>5
    <2>2. payroll[k].emp = t.arg.emp /\ payroll[k].period = t.arg.period
      BY <1>5, <2>1 DEF RunIds
    <2>3. w.emp = t.arg.emp /\ w.period = t.arg.period
      BY <1>1, <2>1 DEF RunTyped
    <2>4. payroll[k] \in Payroll
      BY <1>5 DEF TypedInv, RowsTyped, PayrollTable
    <2>5. \A c \in PayrollFields : payroll'[k][c] = IF s[c] = w[c] THEN payroll[k][c] ELSE s[c]
      BY <1>3, <1>5, <2>4, PayrollFlushed
    <2>6. payroll'[k].emp = payroll[k].emp /\ payroll'[k].period = payroll[k].period
      BY <1>3, <2>3, <2>5 DEF PayrollFields
    <2> QED
      BY <2>2, <2>6
  <1>6. /\ payroll'[k].emp = t.arg.emp /\ payroll'[k].period = t.arg.period
        /\ k \in DOMAIN payroll => payroll[k].emp = t.arg.emp /\ payroll[k].period = t.arg.period
    BY <1>2, <1>3, <1>5 DEF RowOfRun
  <1>7. last["payroll"] \in Nat
    BY LastIs DEF Tables
  <1>8. k \in DOMAIN payroll \/ k > last["payroll"]
    BY <1>2, <1>7 DEF RowOfRun
  <1> QED
    BY ONLY <1>2, <1>4, <1>6, <1>8

\* ... and if nobody has crossed it, what the run makes of the row it has read.
LEMMA RunSheetStands ==
    ASSUME NEW t, RunTyped(t), NEW k, NEW w \in Payroll, t.seen.old = {<<k, w>>},
           NEW now \in Payroll, SameButPaid(now, w), NEW v, v = Flushed(now, w, Sheet(t))
    PROVE  SameButPaid(v, Sheet(t)) /\ Was(t, "day") = now.day /\ Was(t, "loan") = now.loan
  <1> PICK s : s = Sheet(t)
    OBVIOUS
  <1>1. s \in Payroll
    BY SheetIs
  <1>2. \A c \in PayrollFields : v[c] = IF s[c] = w[c] THEN now[c] ELSE s[c]
    BY <1>1, PayrollFlushed
  <1>3. SameButPaid(v, s)
    BY <1>2 DEF SameButPaid
  <1>4. now.day = w.day /\ now.loan = w.loan /\ w["day"] \in Int /\ w["loan"] \in Int
    BY PayrollIs DEF SameButPaid, PayrollFields
  <1>5. \A c \in {"bonus", "loan", "day", "manual"} : Was(t, c) = w[c]
    BY WasOfOne
  <1>6. Was(t, "day") = w["day"] /\ Was(t, "loan") = w["loan"]
    BY <1>5
  <1> QED
    BY <1>3, <1>4, <1>5, <1>6

\* The day deductions of the payroll it writes.
LEMMA RunDays ==
    ASSUME TypedInv, NEW t, RunTyped(t), AsRead(t), NEW k \in RowIds,
           deduction' = WithPayroll(t.seen.pending, k)
    PROVE  DaySum(k)' = DaySum(k) + t.seen.day
  <1> PICK Q, S, D, T : /\ Q = t.seen.pending /\ S = Days(k) /\ T = S \cup D
                        /\ D = {d \in Q : deduction[d].kind = "day"}
    OBVIOUS
  <1>1. Q \subseteq DOMAIN deduction /\ \A d \in Q : deduction[d].payroll = 0
    BY DEF AsRead
  <1>2. /\ DOMAIN deduction \subseteq RowIds
        /\ \A d \in DOMAIN deduction : deduction[d] \in Deduction
    BY TableIds DEF TypedInv, RowsTyped, DeductionTable
  <1>3. ASSUME NEW d \in DOMAIN deduction
        PROVE  /\ deduction[d].amount \in Int
               /\ deduction'[d].kind = deduction[d].kind /\ deduction'[d].amount = deduction[d].amount
               /\ deduction'[d].payroll = IF d \in Q THEN k ELSE deduction[d].payroll
    <2>1. deduction[d] \in Deduction
      BY <1>2
    <2>2. deduction'[d] = IF d \in Q THEN [deduction[d] EXCEPT !.payroll = k] ELSE deduction[d]
      BY DEF WithPayroll
    <2> QED
      BY ONLY <2>1, <2>2, WagesConstants DEF Deduction
  <1>4. k # 0 /\ DOMAIN deduction' = DOMAIN deduction
    BY DEF RowIds, WithPayroll
  <1>5. Days(k)' = T
    BY <1>1, <1>3, <1>4 DEF Days
  <1>6. S \cap D = {} /\ T \ S = D /\ T \subseteq DOMAIN deduction
    BY <1>1, <1>4 DEF Days
  <1>7. IsFiniteSet(T) /\ IsFiniteSet(S) /\ IsFiniteSet(D)
    <2>1. T \subseteq RowIds /\ S \subseteq RowIds /\ D \subseteq RowIds
      BY <1>2, <1>6
    <2> QED
      BY <2>1, IdsFinite
  <1> PICK f, g, h : /\ f = [d \in T |-> deduction[d].amount]
                     /\ g = [d \in S |-> deduction[d].amount]
                     /\ h = [d \in D |-> deduction[d].amount]
    OBVIOUS
  <1>8. DaySum(k)' = SumFunctionOnSet(f, T)
    <2>1. f = [d \in T |-> deduction'[d].amount]
      BY <1>3, <1>6
    <2> QED
      BY <1>5, <2>1 DEF DaySum, SumFunction
  <1>9. DaySum(k) = SumFunctionOnSet(g, S) /\ t.seen.day = SumFunctionOnSet(h, D)
    <2>1. t.seen.day = DayOf(Q)
      BY DEF AsRead
    <2> QED
      BY <2>1 DEF DaySum, DayOf, SumFunction
  <1>10. SumFunctionOnSet(f, T) = SumFunctionOnSet(f, S) + SumFunctionOnSet(f, D)
    <2>1. \A d \in T : f[d] \in Int
      BY <1>3, <1>6
    <2>2. SumFunctionOnSet(f, T) = SumFunctionOnSet(f, S) + SumFunctionOnSet(f, T \ S)
      BY ONLY <1>7, <2>1, T = S \cup D, SumSplit
    <2> QED
      BY <1>6, <2>2
  <1>11. SumFunctionOnSet(f, S) = SumFunctionOnSet(g, S)
    BY <1>7, SumSame
  <1>12. SumFunctionOnSet(f, D) = SumFunctionOnSet(h, D)
    BY <1>7, SumSame
  <1> QED
    BY ONLY <1>8, <1>9, <1>10, <1>11, <1>12

\* A run commits: other payrolls are none of its business, and its own adds up.
LEMMA PayrollRunCommit ==
    ASSUME TypedInv, TypedInv', PayrollInv, NEW r \in Request, RunCommit(r)
    PROVE  PayrollInv'
  <1> PICK t, e, p, S, W, k :
         /\ t = tx[r] /\ e = t.arg.emp /\ p = t.arg.period /\ S = Paying(t) /\ k = RunKey(t)
         /\ W = {<<"wages", e, p>>} \cup {<<"loan", l>> : l \in S}
    OBVIOUS
  <1>1. /\ t # Idle /\ t.kind = "run" /\ RunTyped(t)
        /\ t.pc = "loans" \/ (t.pc = "read" /\ t.arg.amount = 0)
        /\ staff[e] # "gone" /\ t.seen.pending \subseteq DOMAIN deduction
        /\ S \subseteq DOMAIN loan /\ staff' = staff
    BY RunCommits
  <1>2. Commit(r, W)
    BY RunCommits
  <1>3. /\ Moved(r) /\ tx'[r] = Idle /\ crossed \subseteq crossed'
        /\ t.stale => t.reads \subseteq crossed'
        /\ \A s \in Request : tx'[s] # Idle /\ tx[s].reads \cap W # {} => tx'[s].stale
    BY <1>2, CommitMoves
  <1>4. /\ RunIds(t) /\ (t.stale \/ AsRead(t))
        /\ t.stale \/ Crossed(e) \/ Affords(t)
    BY <1>1 DEF PayrollInv, Suits, RunFits
  <1> PICK Q : Q = t.seen.pending
    OBVIOUS
  <1>5. /\ k \in RowIds
        /\ DOMAIN payroll' = DOMAIN payroll \cup {k}
        /\ payroll'[k] \in Payroll /\ payroll'[k].emp = e /\ payroll'[k].period = p
        /\ k \in DOMAIN payroll => payroll[k].emp = e /\ payroll[k].period = p
        /\ \A j \in DOMAIN payroll : j # k => payroll'[j] = payroll[j] /\ taken'[j] = taken[j]
        /\ RowOfRun(t, k) /\ (k \in DOMAIN payroll \/ k > last["payroll"])
        /\ last["payroll"] <= last'["payroll"] /\ last'["deduction"] = last["deduction"]
    BY ONLY TypedInv, r \in Request, RunCommit(r), t = tx[r], k = RunKey(t), e = t.arg.emp,
       p = t.arg.period, Q = t.seen.pending, <1>4, RunRow
  <1>6. deduction' = [d \in DOMAIN deduction |->
                        IF d \in Q THEN [deduction[d] EXCEPT !.payroll = k] ELSE deduction[d]]
    <2>1. deduction' = WithPayroll(t.seen.pending, k)
      BY ONLY TypedInv, r \in Request, RunCommit(r), t = tx[r], k = RunKey(t), RunWritesRow
    <2> QED
      BY ONLY <2>1, Q = t.seen.pending DEF WithPayroll
  <1>7. ASSUME NEW d \in DOMAIN deduction
        PROVE  /\ deduction'[d].emp = deduction[d].emp /\ deduction'[d].period = deduction[d].period
               /\ deduction'[d].kind = deduction[d].kind /\ deduction'[d].amount = deduction[d].amount
               /\ deduction'[d].payroll = IF d \in Q THEN k ELSE deduction[d].payroll
               /\ d \notin Q => deduction'[d] = deduction[d]
               /\ d \in Q => deduction[d].emp = e /\ deduction[d].period = p
    <2>1. deduction[d] \in Deduction
      BY DEF TypedInv, RowsTyped, DeductionTable
    <2>2. deduction'[d] = IF d \in Q THEN [deduction[d] EXCEPT !.payroll = k] ELSE deduction[d]
      BY <1>6
    <2>3. d \in Q => deduction[d].emp = e /\ deduction[d].period = p
      BY <1>4 DEF RunIds
    <2> QED
      BY ONLY <2>1, <2>2, <2>3 DEF Deduction
  <1>8. DOMAIN deduction' = DOMAIN deduction
    BY <1>6
  <1>9. /\ DOMAIN loan' = DOMAIN loan
        /\ \A l \in DOMAIN loan :
              /\ loan'[l].emp = loan[l].emp
              /\ l \notin S => loan'[l] = loan[l] /\ repaid'[l] = repaid[l]
    BY RunWritesLoans
  <1> PICK P : P = {<<e, p>>}
    OBVIOUS
  <1>10. ASSUME NEW f, NEW q, <<f, q>> # <<e, p>>
         PROVE  RowsOf(f, q)' = RowsOf(f, q)
    BY ONLY <1>5, <1>10 DEF RowsOf
  <1>11. HrGrows(P, S)
    <2>1. RowsGrow(P)
      BY ONLY <1>5, P = {<<e, p>>} DEF RowsGrow, SameButPaid
    <2>2. DeductionsGrow(P)
      <3>1. last["deduction"] \in Nat
        BY LastIs DEF Tables
      <3> QED
        BY ONLY <1>5, <1>7, <1>8, <3>1, P = {<<e, p>>} DEF DeductionsGrow
    <2>3. StaffKeeps(P, S)
      BY ONLY <1>1, <1>8, <1>9, <1>10, P = {<<e, p>>} DEF StaffKeeps, LoansOf
    <2> QED
      BY <2>1, <2>2, <2>3 DEF HrGrows
  <1>12. \A s \in Request : tx'[s] # Idle =>
              /\ \A q \in P : <<"wages", q[1], q[2]>> \in tx[s].reads => tx'[s].stale
              /\ \A l \in S : <<"loan", l>> \in tx[s].reads => tx'[s].stale
    <2>1. (\A q \in P : <<"wages", q[1], q[2]>> \in W) /\ \A l \in S : <<"loan", l>> \in W
      OBVIOUS
    <2> QED
      BY ONLY <1>3, <2>1
  <1>13. Suits(tx[r])'
    BY <1>3, IdleSuits
  <1>14. \A s \in Request : Suits(tx[s])'
    BY ONLY TypedInv, TypedInv', PayrollInv, r \in Request, <1>3, <1>11, <1>12, <1>13, SuitsKept
  <1>15. DeductionsTaken'
    <2>1. DeductionsTaken
      BY DEF PayrollInv
    <2>2. ASSUME NEW d \in DOMAIN deduction, NEW j, j = deduction'[d].payroll, j # 0
          PROVE  /\ j \in DOMAIN payroll'
                 /\ payroll'[j].emp = deduction[d].emp /\ payroll'[j].period = deduction[d].period
      <3>1. CASE d \in Q
        BY ONLY <1>5, <1>7, <2>2, <3>1
      <3>2. CASE d \notin Q
        <4>1. /\ j \in DOMAIN payroll /\ payroll[j].emp = deduction[d].emp
              /\ payroll[j].period = deduction[d].period
          BY ONLY <1>7, <2>1, <2>2, <3>2 DEF DeductionsTaken
        <4> QED
          BY ONLY <1>5, <4>1
      <3> QED
        BY <3>1, <3>2
    <2> QED
      BY ONLY <1>7, <1>8, <2>2 DEF DeductionsTaken
  <1>16. ASSUME <<"wages", e, p>> \notin crossed' PROVE ~t.stale /\ AsRead(t)
    BY <1>3, <1>4, <1>16 DEF RunIds
  <1>17. ASSUME NEW f, Crossed(f) PROVE Crossed(f)'
    BY ONLY <1>3, <1>9, <1>17 DEF Crossed, LoansOf
  <1>18. ASSUME NEW j \in DOMAIN payroll, j # k PROVE RowAdds(j)'
    <2> SUFFICES ASSUME <<"wages", payroll[j].emp, payroll[j].period>> \notin crossed'
                 PROVE  RowAdds(j)'
      BY <1>5, <1>18 DEF RowAdds
    <2>1. RowAdds(j) /\ payroll'[j] = payroll[j] /\ taken'[j] = taken[j]
      BY <1>5, <1>18, PayrollParts DEF RowsAdd
    <2>2. <<payroll[j].emp, payroll[j].period>> # <<e, p>>
      <3> SUFFICES ASSUME payroll[j].emp = e, payroll[j].period = p PROVE FALSE
        OBVIOUS
      <3>1. AsRead(t)
        BY <1>16
      <3>2. PICK o \in t.seen.old : o[1] = j
        BY <3>1 DEF AsRead, RowsOf
      <3>3. k = j
        BY <1>5, <3>2 DEF RowOfRun
      <3> QED
        BY <1>18, <3>3
    <2>3. Days(j)' = Days(j)
      <3>1. ASSUME NEW d \in Q PROVE deduction[d].payroll # j
        <4>1. deduction[d].emp = e /\ deduction[d].period = p
          BY <1>1, <1>7
        <4>2. j # 0
          BY TableIds DEF RowIds
        <4> QED
          BY <1>1, <2>2, <4>1, <4>2 DEF PayrollInv, DeductionsTaken
      <3> QED
        BY ONLY <1>7, <1>8, <1>18, <3>1 DEF Days
    <2>4. DaySum(j)' = DaySum(j)
      <3>1. [d \in Days(j) |-> deduction'[d].amount] = [d \in Days(j) |-> deduction[d].amount]
        BY ONLY <1>7 DEF Days
      <3> QED
        BY ONLY <2>3, <3>1 DEF DaySum
    <2>5. RowsOf(payroll[j].emp, payroll[j].period)' = RowsOf(payroll[j].emp, payroll[j].period)
      BY <1>10, <2>1, <2>2
    <2> QED
      BY ONLY <1>3, <1>17, <2>1, <2>4, <2>5 DEF RowAdds, RowsOf
  <1>19. RowAdds(k)'
    <2> SUFFICES ASSUME <<"wages", e, p>> \notin crossed'
                 PROVE  /\ NetAdds(payroll'[k]) /\ payroll'[k].day = DaySum(k)'
                        /\ ~Crossed(e)' => payroll'[k].loan = taken'[k]
                        /\ RowsOf(e, p)' = {k}
      BY <1>5 DEF RowAdds
    <2> PICK v, s : v = payroll'[k] /\ s = Sheet(t)
      OBVIOUS
    <2>1. ~t.stale /\ AsRead(t)
      BY <1>16
    <2>2. /\ s.loan = Was(t, "loan") + t.arg.amount /\ s.day = Was(t, "day") + t.seen.day
          /\ NetAdds(s)
      BY <1>1, SheetIs DEF NetAdds
    <2>3. /\ SameButPaid(v, s) /\ Was(t, "day") = DaySum(k)
          /\ ~Crossed(e)' => taken'[k] = Was(t, "loan") + Applied(t)
      <3>1. CASE k \notin DOMAIN payroll
        <4>1. t.seen.old = {} /\ v = s /\ taken'[k] = Applied(t)
          BY <1>5, <3>1 DEF RowOfRun
        <4>2. Was(t, "day") = 0 /\ Was(t, "loan") = 0
          BY <4>1, WasNothing
        <4>3. Days(k) = {}
          <5>1. k # 0
            BY <1>5 DEF RowIds
          <5> QED
            BY <3>1, <5>1 DEF Days, PayrollInv, DeductionsTaken
        <4>4. DaySum(k) = 0
          <5> PICK g : g = [d \in Days(k) |-> deduction[d].amount]
            OBVIOUS
          <5>1. DOMAIN g = {}
            BY <4>3
          <5> QED
            BY <5>1, SumEmpty DEF DaySum, SumFunction
        <4>5. Applied(t) \in Nat
          BY RunCommits
        <4> QED
          BY <4>1, <4>2, <4>4, <4>5 DEF SameButPaid
      <3>2. CASE k \in DOMAIN payroll
        <4>1. PICK w \in Payroll : /\ t.seen.old = {<<k, w>>} /\ v = Flushed(payroll[k], w, s)
                                   /\ taken'[k] = taken[k] + Applied(t)
          BY <1>5, <3>2 DEF RowOfRun
        <4> PICK now : now = payroll[k]
          OBVIOUS
        <4>2. now \in Payroll
          BY <3>2 DEF TypedInv, RowsTyped, PayrollTable
        <4>3. SameButPaid(now, w)
          <5>1. <<k, w>> \in t.seen.old
            BY <4>1
          <5> QED
            BY <2>1, <5>1 DEF AsRead
        <4>4. SameButPaid(v, s) /\ Was(t, "day") = now.day /\ Was(t, "loan") = now.loan
          BY <1>1, <4>1, <4>2, <4>3, RunSheetStands
        <4>5. /\ now.day = DaySum(k)
              /\ ~Crossed(e) => now.loan = taken[k]
          BY <1>3, <1>5, <3>2, PayrollParts DEF RowsAdd, RowAdds
        <4> QED
          BY <1>17, <4>1, <4>4, <4>5
      <3> QED
        BY <3>1, <3>2
    <2>4. /\ v.day = s.day /\ v.loan = s.loan /\ v.net = s.net /\ v.base = s.base
          /\ v.bonus = s.bonus /\ v.manual = s.manual
      BY ONLY <2>3 DEF SameButPaid, PayrollFields
    <2>5. NetAdds(v)
      BY ONLY <2>2, <2>4 DEF NetAdds
    <2>6. DaySum(k)' = DaySum(k) + t.seen.day
      <3>1. deduction' = WithPayroll(t.seen.pending, k)
        BY <1>6 DEF WithPayroll
      <3> QED
        BY ONLY TypedInv, <1>1, <1>5, <2>1, <3>1, RunDays
    <2>7. ASSUME ~Crossed(e)' PROVE v.loan = taken'[k]
      <3>1. Affords(t)
        BY <1>4, <1>17, <2>1, <2>7
      <3>2. Applied(t) = t.arg.amount
        BY <1>1, <3>1, AppliedIs
      <3> QED
        BY <2>2, <2>3, <2>4, <2>7, <3>2
    <2>8. RowsOf(e, p)' = {k}
      <3>1. RowsOf(e, p) \subseteq {k}
        BY <1>5, <2>1 DEF AsRead, RowOfRun
      <3> QED
        BY <1>5, <3>1 DEF RowsOf
    <2> QED
      BY <2>2, <2>3, <2>4, <2>5, <2>6, <2>7, <2>8
  <1>20. RowsAdd'
    BY ONLY <1>5, <1>18, <1>19 DEF RowsAdd
  <1> QED
    BY <1>14, <1>15, <1>20, PayrollPartsNext

LEMMA PayrollStep == TypedInv /\ TypedInv' /\ LoansInv /\ PayrollInv /\ [Next]_vars => PayrollInv'
  <1> SUFFICES ASSUME TypedInv, TypedInv', LoansInv, PayrollInv, [Next]_vars PROVE PayrollInv'
    OBVIOUS
  <1>1. CASE UNCHANGED vars
    <2>1. /\ tx' = tx /\ crossed' = crossed /\ last' = last
          /\ UNCHANGED <<staff, loan, repaid, payroll, taken, deduction>>
      BY <1>1 DEF vars, books
    <2> QED
      BY <2>1, PayrollStill
  <1>2. ASSUME NEW e \in Employee, NEW p \in Period, NEW n \in Amount, NEW kind \in {"day", "manual"},
               CreateDeduction(e, p, kind, n)
        PROVE  PayrollInv'
    BY <1>2, PayrollDeduction
  <1>3. ASSUME NEW r \in Request, NEW e \in Employee, NEW p \in Period, NEW b, NEW n,
               RunRead(r, e, p, b, n)
        PROVE  PayrollInv'
    BY <1>3, PayrollRunRead
  <1>4. ASSUME NEW r \in Request, NEW k \in DOMAIN payroll, NEW b, NEW m, UpdateRead(r, k, b, m)
        PROVE  PayrollInv'
    BY <1>4, PayrollUpdateRead
  <1> QED
    BY <1>1, <1>2, <1>3, <1>4, PayrollCreateLoan, PayrollDeactivate, PayrollLoanCommit,
       PayrollRepayFlush, PayrollRunCheck, PayrollRunLoans, PayrollRunCommit, PayrollUpdateCommit,
       PayrollPay, PayrollOthersRead, PayrollOthersCommit, PayrollClear, PayrollAbort DEF Next

LEMMA PayrollInit == Init => PayrollInv
  BY DEF Init, PayrollInv, Suits, DeductionsTaken, PayrollAddsUp, None

LEMMA PayrollHolds == Spec => []PayrollInv
  <1>1. Spec => []TypedInv /\ []LoansInv
    BY TypedHolds, LoansHold, PTL
  <1>2. TypedInv /\ TypedInv' /\ LoansInv /\ PayrollInv /\ [Next]_vars => PayrollInv'
    BY PayrollStep
  <1> QED
    BY <1>1, <1>2, PayrollInit, PTL DEF Spec

LEMMA PayrollInvSays == PayrollInv => PayrollAddsUp
  BY DEF PayrollInv

\* Any number of runs, re-runs and edits leave payrolls that add up, withhold what
\* was applied to loans and hold each day deduction once, whoever writes in
\* between, as long as no two crossed on that period or on one of the employee's
\* loans (hr.py:1097).
THEOREM PayrollsAddUp == Spec => []PayrollAddsUp
  BY PayrollHolds, PayrollInvSays, PTL
=============================================================================
