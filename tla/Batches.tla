------------------------------- MODULE Batches -------------------------------
(***************************************************************************)
(* Spreadsheet imports of expenses and of receipts                         *)
(* (app/services/expense_import_service.py, receive_import_service.py) and *)
(* their reverts.                                                          *)
(*                                                                         *)
(* Neither has a batch column.  An import creates its rows one by one, and *)
(* each row's commit carries the activity-log item of the row BEFORE it;   *)
(* the last commit carries the last item and the log of the batch.  A      *)
(* revert finds its rows by those items, deletes them one by one, each     *)
(* with a commit of its own, and logs itself at the end.  The process may  *)
(* die between any two commits, and users delete rows by hand meanwhile.   *)
(*                                                                         *)
(* A row is an expense with its journal, or a receipt with its stock move. *)
(***************************************************************************)
EXTENDS Integers, FiniteSets

CONSTANTS
    Worker,         \* requests in flight
    Size,           \* valid rows of a file
    MaxBatch,       \* bound: files imported
    MaxCrash        \* bound: requests cut off

Batch == 1..MaxBatch
Row == Batch \X (1..Size)

ASSUME BatchesConstants == Size \in Nat \ {0} /\ MaxBatch \in Nat /\ MaxCrash \in Nat

VARIABLES
    row,            \* expenses or receipts that exist
    effect,         \* what was posted for each row, less what was reversed
    item,           \* rows with an item in the activity log
    batch,          \* batches with a summary in the activity log
    reverted,       \* reverts in the activity log, by batch
    job,            \* requests in flight
    begun,          \* files begun so far
    crashes,        \* requests cut off so far
    wanted,         \* history: batches a user asked to revert
    doubled         \* history: rows two overlapping deletions both reversed

log == <<item, batch, reverted>>
batchesVars == <<row, effect, log, job, begun, crashes, wanted, doubled>>

Free == [kind |-> "free"]

BatchesInit ==
    /\ row = {}
    /\ effect = [r \in Row |-> 0]
    /\ item = {} /\ batch = {}
    /\ reverted = [b \in Batch |-> 0]
    /\ job = [w \in Worker |-> Free]
    /\ begun = 0 /\ crashes = 0
    /\ wanted = {} /\ doubled = {}
-----------------------------------------------------------------------------
StartImport(w) ==
    /\ job[w] = Free /\ begun < MaxBatch
    /\ begun' = begun + 1
    /\ job' = [job EXCEPT ![w] = [kind |-> "import", batch |-> begun + 1, next |-> 1,
                                  pending |-> {}]]
    /\ UNCHANGED <<row, effect, log, crashes, wanted, doubled>>

\* create_expense_entry or create_receipt commits the row, and with it the item
\* that was recorded after the commit before.
ImportRow(w) ==
    LET j == job[w]
        r == <<j.batch, j.next>>
    IN
    /\ j.kind = "import" /\ j.next <= Size
    /\ row' = row \cup {r}
    /\ effect' = [effect EXCEPT ![r] = @ + 1]
    /\ item' = item \cup j.pending
    /\ job' = [job EXCEPT ![w].next = @ + 1, ![w].pending = {r}]
    /\ UNCHANGED <<batch, reverted, begun, crashes, wanted, doubled>>

\* Mutant: the batch is logged and committed without the last item.
ImportEndEarly(w) ==
    /\ job[w].kind = "import" /\ job[w].next > Size
    /\ batch' = batch \cup {job[w].batch}
    /\ job' = [job EXCEPT ![w] = Free]
    /\ UNCHANGED <<row, effect, item, reverted, begun, crashes, wanted, doubled>>
ImportEnd(w) ==
    /\ job[w].kind = "import" /\ job[w].next > Size
    /\ item' = item \cup job[w].pending
    /\ batch' = batch \cup {job[w].batch}
    /\ job' = [job EXCEPT ![w] = Free]
    /\ UNCHANGED <<row, effect, reverted, begun, crashes, wanted, doubled>>

\* A revert starts from the items of a batch that is logged and not yet reverted.
StartRevert(w, b) ==
    /\ job[w] = Free
    /\ b \in batch /\ reverted[b] = 0
    /\ job' = [job EXCEPT ![w] = [kind |-> "revert", batch |-> b, seen |-> {},
                                  todo |-> {r \in item : r[1] = b}]]
    /\ wanted' = wanted \cup {b}
    /\ UNCHANGED <<row, effect, log, begun, crashes, doubled>>

\* delete_expense or delete_receipt, from its page.
StartDelete(w, r) ==
    /\ job[w] = Free
    /\ r \in row
    /\ job' = [job EXCEPT ![w] = [kind |-> "delete", batch |-> r[1], seen |-> {r},
                                  todo |-> {}]]
    /\ UNCHANGED <<row, effect, log, begun, crashes, wanted, doubled>>

\* The next row, the latest first; one that is gone already is skipped.
Found(r) == {r} \cap row
\* Mutant: a row that is gone ends the revert with an error.
FindRowOrFail(w) ==
    LET j == job[w] IN
    /\ j.kind = "revert" /\ j.seen = {}
    /\ \E r \in j.todo :
          /\ \A s \in j.todo : s[2] <= r[2]
          /\ job' = [job EXCEPT ![w] = IF r \in row
                                      THEN [j EXCEPT !.todo = @ \ {r}, !.seen = {r}] ELSE Free]
    /\ UNCHANGED <<row, effect, log, begun, crashes, wanted, doubled>>
FindRow(w) ==
    LET j == job[w] IN
    /\ j.kind = "revert" /\ j.seen = {}
    /\ \E r \in j.todo :
          /\ \A s \in j.todo : s[2] <= r[2]
          /\ job' = [job EXCEPT ![w].todo = @ \ {r}, ![w].seen = Found(r)]
    /\ UNCHANGED <<row, effect, log, begun, crashes, wanted, doubled>>

\* The row is reversed as it was read and deleted; a DELETE of no row is no error.
\* Mutant: the reversal has a commit of its own, before the deletion's.
DeleteRowApart(w) ==
    LET j == job[w]
        posted == {r \in j.seen : effect[r] > 0}
    IN
    /\ j.kind \in {"revert", "delete"} /\ j.seen # {}
    /\ effect' = [r \in Row |-> IF r \in posted THEN 0 ELSE effect[r]]
    /\ row' = IF posted = {} THEN row \ j.seen ELSE row
    /\ job' = IF posted # {} THEN job
              ELSE [job EXCEPT ![w] = IF j.kind = "delete" THEN Free ELSE [j EXCEPT !.seen = {}]]
    /\ UNCHANGED <<log, begun, crashes, wanted, doubled>>
DeleteRow(w) ==
    LET j == job[w] IN
    /\ j.kind \in {"revert", "delete"} /\ j.seen # {}
    /\ effect' = [r \in Row |-> IF r \in j.seen THEN effect[r] - 1 ELSE effect[r]]
    /\ doubled' = doubled \cup (j.seen \ row)
    /\ row' = row \ j.seen
    /\ job' = [job EXCEPT ![w] = IF j.kind = "delete" THEN Free ELSE [j EXCEPT !.seen = {}]]
    /\ UNCHANGED <<log, begun, crashes, wanted>>

\* Mutant: the revert logs itself while rows are left.
EndRevertEarly(w) ==
    /\ job[w].kind = "revert" /\ job[w].seen = {}
    /\ reverted' = [reverted EXCEPT ![job[w].batch] = @ + 1]
    /\ job' = [job EXCEPT ![w] = Free]
    /\ UNCHANGED <<row, effect, item, batch, begun, crashes, wanted, doubled>>
EndRevert(w) ==
    /\ job[w].kind = "revert" /\ job[w].seen = {} /\ job[w].todo = {}
    /\ reverted' = [reverted EXCEPT ![job[w].batch] = @ + 1]
    /\ job' = [job EXCEPT ![w] = Free]
    /\ UNCHANGED <<row, effect, item, batch, begun, crashes, wanted, doubled>>

\* An error on a row, or the end of the process: what is not committed is lost.
Crash(w) ==
    /\ job[w] # Free /\ crashes < MaxCrash
    /\ job' = [job EXCEPT ![w] = Free]
    /\ crashes' = crashes + 1
    /\ UNCHANGED <<row, effect, log, begun, wanted, doubled>>

Step(w) == ImportRow(w) \/ ImportEnd(w) \/ FindRow(w) \/ DeleteRow(w) \/ EndRevert(w)

BatchesNext ==
    \E w \in Worker :
        \/ StartImport(w)
        \/ \E b \in Batch : StartRevert(w, b)
        \/ \E r \in Row : StartDelete(w, r)
        \/ ImportRow(w)
        \/ ImportEnd(w)
        \/ FindRow(w)
        \/ DeleteRow(w)
        \/ EndRevert(w)
        \/ Crash(w)

\* The server carries on with a request it has; a user whose revert failed asks
\* again.  Nothing makes anyone start an import or a deletion.
BatchesFairness ==
    /\ \A w \in Worker : WF_batchesVars(Step(w))
    /\ \A b \in Batch : WF_batchesVars(\E w \in Worker : b \in wanted /\ StartRevert(w, b))

BatchesSpec == BatchesInit /\ [][BatchesNext]_batchesVars /\ BatchesFairness
-----------------------------------------------------------------------------
BatchesTypeOK ==
    /\ row \subseteq Row /\ item \subseteq Row
    /\ effect \in [Row -> Int]
    /\ batch \subseteq Batch
    /\ reverted \in [Batch -> Nat]
    /\ begun \in 0..MaxBatch /\ crashes \in 0..MaxCrash

\* Rows that were ever created.
Created == row \cup {r \in Row : effect[r] # 0} \cup doubled \cup item

\* However an import ends, at most one of its rows has no item in the log, and
\* none has once the batch is logged (expense_import_service.py:409-452): a
\* revert of a logged batch finds every row.
ItemsTrailByOne ==
    \A b \in Batch :
        LET unlogged == {r \in Created : r[1] = b} \ item IN
        /\ Cardinality(unlogged) <= 1
        /\ b \in batch => unlogged = {}

\* A batch the log calls reverted has no row left, through crashes, retries and
\* deletions by hand at the same time (expense_import_service.py:202-252).
RevertedIsGone == \A b \in Batch : reverted[b] > 0 => \A r \in row : r[1] # b

\* Each row is posted once and reversed once, however often a revert is cut off
\* and started again, unless two deletions of it overlapped.
EffectsAreRows ==
    \A r \in Row \ doubled : effect[r] = (IF r \in row THEN 1 ELSE 0)

\* A revert that a user keeps asking for is done in the end.
WantedRevertsEnd == \A b \in Batch : b \in wanted ~> reverted[b] > 0
=============================================================================
