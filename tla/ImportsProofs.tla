---------------------------- MODULE ImportsProofs ----------------------------
(***************************************************************************)
(* Proofs about Batches, ClientImports and Imports.                        *)
(*                                                                         *)
(* For files of any size and any number of imports, reverts, deletions by  *)
(* hand and crashes, at most one row of an import lacks its item, every    *)
(* row is posted and reversed once, and a batch the log calls reverted is  *)
(* gone.                                                                   *)
(*                                                                         *)
(* For any clients, files, amounts and number of requests in flight, no    *)
(* invoice shows more paid than was received, and what a client owes is    *)
(* what the live invoices leave unpaid less the refunds, but for clients   *)
(* some commit overwrote from an old reading.                              *)
(*                                                                         *)
(* For any files, names, products and number of imports of past sales in   *)
(* flight, a group is imported once, what an import created is on one of   *)
(* its invoices or used by others, and stock is what the moves left of it. *)
(*                                                                         *)
(* The rows of each are typed, and every invoice has the client, the file, *)
(* the customer and the products it names.                                 *)
(***************************************************************************)
EXTENDS Batches, Imports, ClientImports, SumsProofs, FiniteSetTheorems, TLAPS

ImportJob == [kind : {"import"}, batch : Batch, next : 1..(Size + 1), pending : SUBSET Row]
EraseJob == [kind : {"revert", "delete"}, batch : Batch, seen : SUBSET Row, todo : SUBSET Row]
JobsTyped == job \in [Worker -> {Free} \cup ImportJob \cup EraseJob]

\* Rows a deletion has read, which another may have deleted since.
Seen(w) == IF job[w].kind \in {"revert", "delete"} THEN job[w].seen ELSE {}
Ever == Created \cup {r \in Row : \E w \in Worker : r \in Seen(w)}

\* An import that runs has a batch of its own, not logged yet.
ImportsApart ==
    /\ batch \subseteq 1..begun
    /\ \A w \in Worker :
          job[w].kind = "import" =>
             /\ job[w].batch <= begun /\ job[w].batch \notin batch
             /\ job[w].pending \subseteq {<<job[w].batch, job[w].next - 1>>}
             /\ \A v \in Worker : job[v].kind = "import" /\ job[v].batch = job[w].batch => v = w

\* Where a row stands: behind its import, if that still runs; logged, if its
\* batch is.
Placed(r) ==
    /\ r[1] <= begun
    /\ r[1] \in batch => r \in item
    /\ \A w \in Worker :
          job[w].kind = "import" /\ job[w].batch = r[1] =>
             r[2] < job[w].next /\ r \in item \cup job[w].pending

RowsPlaced ==
    /\ \A r \in Ever : Placed(r)
    /\ \A r, s \in Ever \ item : r[1] = s[1] => r = s

\* A revert that runs has the rows of its batch before it.
RevertsReach ==
    \A w \in Worker :
        job[w].kind = "revert" =>
           /\ job[w].batch \in batch
           /\ \A r \in row : r[1] = job[w].batch => r \in job[w].todo \cup job[w].seen

RevertedLogged == \A b \in Batch : reverted[b] > 0 => b \in batch

BatchesInv ==
    /\ BatchesTypeOK /\ JobsTyped /\ doubled \subseteq Row
    /\ ImportsApart /\ RowsPlaced
    /\ RevertsReach /\ RevertedLogged
    /\ RevertedIsGone /\ EffectsAreRows
-----------------------------------------------------------------------------
LEMMA RowIsPair ==
    ASSUME NEW r \in Row
    PROVE  r[1] \in Batch /\ r[2] \in 1..Size /\ r = <<r[1], r[2]>>
  BY DEF Row

LEMMA JobKinds ==
    ASSUME JobsTyped, NEW w \in Worker
    PROVE  /\ job[w].kind = "import" => job[w] \in ImportJob
           /\ job[w].kind \in {"revert", "delete"} => job[w] \in EraseJob
  <1>1. job[w] = Free \/ job[w] \in ImportJob \/ job[w] \in EraseJob
    BY DEF JobsTyped
  <1>2. Free.kind = "free"
    BY DEF Free
  <1>3. /\ \A j \in ImportJob : j.kind = "import"
        /\ \A j \in EraseJob : j.kind \in {"revert", "delete"}
    BY DEF ImportJob, EraseJob
  <1> QED
    BY <1>1, <1>2, <1>3

LEMMA EverAreRows ==
    ASSUME BatchesInv
    PROVE  /\ Ever \subseteq Row
           /\ \A w \in Worker : Seen(w) \subseteq Ever
  <1>1. \A w \in Worker : Seen(w) \subseteq Row
    BY JobKinds DEF BatchesInv, Seen, EraseJob
  <1> QED
    BY <1>1 DEF BatchesInv, Ever, Created, BatchesTypeOK

\* One request goes on with another job.
LEMMA JobMoves ==
    ASSUME JobsTyped, NEW w \in Worker, NEW j \in {Free} \cup ImportJob \cup EraseJob,
           job' = [job EXCEPT ![w] = j]
    PROVE  /\ JobsTyped'
           /\ job'[w] = j
           /\ \A v \in Worker : v # w => job'[v] = job[v]
  BY DEF JobsTyped, ImportJob, EraseJob, Row, Batch

\* Rows that were ever created, or are being erased, keep their places in a step
\* that creates none and logs none.
LEMMA PlacesKept ==
    ASSUME BatchesInv, Ever' \subseteq Ever, item' = item, batch' = batch, begun' = begun,
           \A w \in Worker : job'[w].kind = "import" => job'[w] = job[w]
    PROVE  ImportsApart' /\ RowsPlaced'
  <1>1. ImportsApart'
    BY DEF BatchesInv, ImportsApart
  <1>2. \A r \in Ever : Placed(r)'
    BY DEF BatchesInv, RowsPlaced, Placed
  <1>3. \A r, s \in Ever' \ item' : r[1] = s[1] => r = s
    BY DEF BatchesInv, RowsPlaced
  <1> QED
    BY <1>1, <1>2, <1>3 DEF RowsPlaced

\* What is left of Ever when no row comes and none is erased twice.
LEMMA EverKept ==
    ASSUME BatchesInv, row' = row, effect' = effect, item' = item, doubled' = doubled,
           \A w \in Worker : Seen(w)' \subseteq Ever
    PROVE  Ever' \subseteq Ever
  BY DEF Ever, Created
-----------------------------------------------------------------------------
LEMMA StartImportKeeps ==
    ASSUME BatchesInv, NEW w \in Worker, StartImport(w)
    PROVE  BatchesInv'
  <1> DEFINE j == [kind |-> "import", batch |-> begun + 1, next |-> 1, pending |-> {}]
  <1> USE BatchesConstants DEF BatchesInv
  <1>1. begun \in Nat /\ begun < MaxBatch /\ begun + 1 \in Batch /\ begun \in 0..MaxBatch
    BY DEF StartImport, BatchesTypeOK, Batch
  <1>2. j \in ImportJob
    BY <1>1 DEF ImportJob
  <1>3. /\ job' = [job EXCEPT ![w] = j] /\ begun' = begun + 1
        /\ UNCHANGED <<row, effect, item, batch, reverted, crashes, wanted, doubled>>
    BY DEF StartImport, log
  <1>4. /\ JobsTyped' /\ job'[w] = j
        /\ \A v \in Worker : v # w => job'[v] = job[v]
    BY <1>2, <1>3, JobMoves
  <1>5. j.kind = "import" /\ j.batch = begun + 1 /\ j.next = 1 /\ j.pending = {}
    OBVIOUS
  <1> HIDE DEF j
  <1>6. BatchesTypeOK'
    BY <1>1, <1>3 DEF BatchesTypeOK, Batch
  <1>7. batch \subseteq 1..begun
    BY DEF ImportsApart
  <1>8. \A v \in Worker : v # w /\ job[v].kind = "import" => job[v].batch \in Batch /\ job[v].batch <= begun
    BY JobKinds DEF ImportsApart, ImportJob
  <1>9. ImportsApart'
    <2>1. batch' \subseteq 1..begun' /\ begun + 1 \notin batch
      BY <1>1, <1>3, <1>7
    <2>2. \A v \in Worker : v # w /\ job[v].kind = "import" =>
             job[v].batch <= begun + 1 /\ job[v].batch # begun + 1
      BY <1>1, <1>8 DEF Batch
    <2> QED
      BY <1>1, <1>3, <1>4, <1>5, <2>1, <2>2 DEF ImportsApart
  <1>10. Ever' \subseteq Ever
    <2>1. \A v \in Worker : Seen(v)' \subseteq Ever
      BY <1>4, <1>5, EverAreRows DEF Seen
    <2> QED
      BY <1>3, <2>1, EverKept
  <1>11. RowsPlaced'
    <2> SUFFICES ASSUME NEW r \in Ever PROVE Placed(r)'
      BY <1>3, <1>10 DEF RowsPlaced
    <2>1. Placed(r) /\ r[1] \in Batch
      BY EverAreRows, RowIsPair DEF RowsPlaced
    <2>2. r[1] <= begun + 1 /\ r[1] # begun + 1
      BY <1>1, <2>1 DEF Placed, Batch
    <2> QED
      BY <1>3, <1>4, <1>5, <2>1, <2>2 DEF Placed
  <1>12. RevertsReach'
    BY <1>3, <1>4, <1>5 DEF RevertsReach
  <1>13. RevertedLogged' /\ RevertedIsGone' /\ EffectsAreRows'
    BY <1>3 DEF RevertedLogged, RevertedIsGone, EffectsAreRows
  <1> QED
    BY <1>3, <1>4, <1>6, <1>9, <1>11, <1>12, <1>13

LEMMA ImportRowKeeps ==
    ASSUME BatchesInv, NEW w \in Worker, ImportRow(w)
    PROVE  BatchesInv'
  <1> DEFINE i == job[w]
             r == <<i.batch, i.next>>
             j == [i EXCEPT !.next = @ + 1, !.pending = {r}]
  <1> USE BatchesConstants DEF BatchesInv
  <1>1. i \in ImportJob /\ i.kind = "import" /\ i.next <= Size
    BY JobKinds DEF ImportRow
  <1>2. r \in Row /\ r[1] = i.batch /\ r[2] = i.next
    BY <1>1 DEF ImportJob, Row
  <1>3. /\ j \in ImportJob /\ j.kind = "import" /\ j.batch = i.batch
        /\ j.next = i.next + 1 /\ j.pending = {r}
    <2>1. i.next + 1 \in 1..(Size + 1) /\ {r} \in SUBSET Row
      BY <1>1, <1>2 DEF ImportJob
    <2> HIDE DEF r
    <2> QED
      BY <1>1, <2>1 DEF ImportJob
  <1>4. /\ job' = [job EXCEPT ![w] = j]
        /\ row' = row \cup {r} /\ effect' = [effect EXCEPT ![r] = @ + 1]
        /\ item' = item \cup i.pending
        /\ UNCHANGED <<batch, reverted, begun, crashes, wanted, doubled>>
    <2>1. job' = [job EXCEPT ![w].next = @ + 1, ![w].pending = {r}]
      BY DEF ImportRow
    <2>2. job' = [job EXCEPT ![w] = j]
      BY <1>1, <2>1 DEF JobsTyped, ImportJob
    <2> QED
      BY <2>2 DEF ImportRow
  <1> HIDE DEF j, r
  <1>5. /\ JobsTyped' /\ job'[w] = j
        /\ \A v \in Worker : v # w => job'[v] = job[v]
    BY <1>3, <1>4, JobMoves
  <1>6. r \notin Ever /\ Ever \subseteq Row /\ \A v \in Worker : Seen(v) \subseteq Ever
    <2>1. i.next \in Int
      BY <1>1 DEF ImportJob
    <2>2. \A s \in Ever : s[1] = i.batch => s[2] < i.next
      BY <1>1 DEF RowsPlaced, Placed
    <2> QED
      BY <1>2, <2>1, <2>2, EverAreRows
  <1>7. BatchesTypeOK'
    BY <1>1, <1>2, <1>4 DEF BatchesTypeOK, ImportJob
  <1>8. ImportsApart'
    BY <1>2, <1>3, <1>4, <1>5, <1>1 DEF ImportsApart, ImportJob, Row
  <1>9. Ever' \subseteq Ever \cup {r} \cup i.pending
    <2>1. \A v \in Worker : Seen(v)' \subseteq Ever
      BY <1>3, <1>5, <1>6 DEF Seen
    <2>2. \A s \in Row : effect'[s] # 0 => s = r \/ effect[s] # 0
      BY <1>4 DEF BatchesTypeOK
    <2> QED
      BY <1>4, <2>1, <2>2 DEF Ever, Created
  <1>10. /\ i.batch <= begun /\ i.batch \notin batch
         /\ i.pending \subseteq {<<i.batch, i.next - 1>>} /\ i.next \in Int /\ i.batch \in Int
         /\ \A v \in Worker : v # w /\ job[v].kind = "import" => job[v].batch # i.batch
    BY <1>1 DEF ImportsApart, ImportJob, Batch
  <1>11. \A s \in Ever : s[1] = i.batch => s[2] < i.next /\ s \in item'
    BY <1>1, <1>4 DEF RowsPlaced, Placed
  <1>12. \A s \in Ever' : Placed(s)'
    <2> SUFFICES ASSUME NEW s \in Ever' PROVE Placed(s)'
      OBVIOUS
    <2>1. CASE s \in Ever
      <3>1. Placed(s) /\ s[2] \in Int
        BY <1>6, <2>1, RowIsPair DEF RowsPlaced
      <3>2. s[1] = i.batch => s[2] < i.next + 1 /\ s \in item'
        BY <1>10, <1>11, <2>1, <3>1
      <3> QED
        BY <1>3, <1>4, <1>5, <3>1, <3>2 DEF Placed
    <2>2. CASE s = r
      <3>1. i.next < i.next + 1
        BY <1>10
      <3> QED
        BY <1>2, <1>3, <1>4, <1>5, <1>10, <2>2, <3>1 DEF Placed
    <2>3. CASE s \in i.pending
      <3>1. s[1] = i.batch /\ s[2] < i.next + 1 /\ s \in item'
        BY <1>4, <1>10, <2>3
      <3> QED
        BY <1>3, <1>4, <1>5, <1>10, <3>1 DEF Placed
    <2> QED
      BY <1>9, <2>1, <2>2, <2>3
  <1>13. RowsPlaced'
    <2> SUFFICES ASSUME NEW s \in Ever' \ item', NEW t \in Ever' \ item', s[1] = t[1]
                 PROVE  s = t
      BY <1>12 DEF RowsPlaced
    <2>1. s \in Ever \cup {r} /\ t \in Ever \cup {r} /\ s \notin item /\ t \notin item
      BY <1>4, <1>9
    <2>2. CASE s[1] = i.batch
      BY <1>11, <2>1, <2>2
    <2>3. CASE s[1] # i.batch
      BY <1>2, <2>1, <2>3 DEF RowsPlaced
    <2> QED
      BY <2>2, <2>3
  <1>14. RevertsReach'
    BY <1>2, <1>3, <1>4, <1>5, <1>10 DEF RevertsReach
  <1>15. RevertedLogged' /\ RevertedIsGone'
    BY <1>2, <1>4, <1>10 DEF RevertedLogged, RevertedIsGone
  <1>16. EffectsAreRows'
    <2>1. r \notin row /\ effect[r] = 0
      BY <1>2, <1>6 DEF Ever, Created
    <2> QED
      BY <1>2, <1>4, <2>1 DEF EffectsAreRows, BatchesTypeOK
  <1> QED
    BY <1>4, <1>5, <1>7, <1>8, <1>13, <1>14, <1>15, <1>16

LEMMA ImportEndKeeps ==
    ASSUME BatchesInv, NEW w \in Worker, ImportEnd(w)
    PROVE  BatchesInv'
  <1> DEFINE i == job[w]
  <1> USE BatchesConstants DEF BatchesInv
  <1>1. i \in ImportJob /\ i.kind = "import" /\ i.next > Size
    BY JobKinds DEF ImportEnd
  <1>2. /\ job' = [job EXCEPT ![w] = Free]
        /\ item' = item \cup i.pending /\ batch' = batch \cup {i.batch}
        /\ UNCHANGED <<row, effect, reverted, begun, crashes, wanted, doubled>>
    BY DEF ImportEnd
  <1>3. /\ JobsTyped' /\ job'[w] = Free /\ Free.kind = "free"
        /\ \A v \in Worker : v # w => job'[v] = job[v]
    BY <1>2, JobMoves DEF Free
  <1>4. BatchesTypeOK'
    BY <1>1, <1>2 DEF BatchesTypeOK, ImportJob
  <1>5. /\ i.batch \in 1..begun /\ i.batch \notin batch
        /\ i.pending \subseteq {<<i.batch, i.next - 1>>} /\ i.next \in Int
        /\ \A v \in Worker : v # w /\ job[v].kind = "import" => job[v].batch # i.batch
    BY <1>1 DEF ImportsApart, ImportJob, Batch, BatchesTypeOK
  <1>6. ImportsApart'
    <2>1. batch' \subseteq 1..begun'
      BY <1>2, <1>5 DEF ImportsApart
    <2>2. \A v \in Worker : job'[v].kind = "import" => v # w /\ job'[v] = job[v]
      BY <1>3
    <2> QED
      BY <1>2, <1>5, <2>1, <2>2 DEF ImportsApart
  <1>7. Ever' \subseteq Ever \cup i.pending
    <2>1. \A v \in Worker : Seen(v)' \subseteq Ever
      BY <1>3, EverAreRows DEF Seen
    <2> QED
      BY <1>2, <2>1 DEF Ever, Created
  <1>8. \A s \in Ever : s[1] = i.batch => s \in item'
    BY <1>1, <1>2 DEF RowsPlaced, Placed
  <1>9. RowsPlaced'
    <2>1. ASSUME NEW s \in Ever' PROVE Placed(s)'
      <3>1. CASE s \in Ever
        BY <1>2, <1>3, <1>8, <3>1 DEF RowsPlaced, Placed
      <3>2. CASE s \in i.pending
        <4>1. s[1] = i.batch /\ s \in item'
          BY <1>2, <1>5, <3>2
        <4>2. i.batch <= begun'
          BY <1>1, <1>2 DEF ImportsApart
        <4> QED
          BY <1>2, <1>3, <1>5, <4>1, <4>2 DEF Placed
      <3> QED
        BY <1>7, <2>1, <3>1, <3>2
    <2>2. \A s, t \in Ever' \ item' : s[1] = t[1] => s = t
      BY <1>2, <1>7 DEF RowsPlaced
    <2> QED
      BY <2>1, <2>2 DEF RowsPlaced
  <1>10. RevertsReach'
    BY <1>2, <1>3 DEF RevertsReach
  <1>11. RevertedLogged' /\ RevertedIsGone' /\ EffectsAreRows'
    BY <1>2 DEF RevertedLogged, RevertedIsGone, EffectsAreRows
  <1> QED
    BY <1>2, <1>3, <1>4, <1>6, <1>9, <1>10, <1>11

LEMMA StartRevertKeeps ==
    ASSUME BatchesInv, NEW w \in Worker, NEW b \in Batch, StartRevert(w, b)
    PROVE  BatchesInv'
  <1> DEFINE j == [kind |-> "revert", batch |-> b, seen |-> {}, todo |-> {r \in item : r[1] = b}]
  <1> USE DEF BatchesInv
  <1>1. j \in EraseJob
    BY DEF EraseJob, BatchesTypeOK
  <1>2. /\ job' = [job EXCEPT ![w] = j] /\ b \in batch
        /\ UNCHANGED <<row, effect, item, batch, reverted, begun, crashes, doubled>>
    BY DEF StartRevert, log
  <1>3. /\ JobsTyped' /\ job'[w] = j
        /\ \A v \in Worker : v # w => job'[v] = job[v]
    BY <1>1, <1>2, JobMoves
  <1>4. /\ j.kind = "revert" /\ j.batch = b /\ j.seen = {}
        /\ j.todo = {r \in item : r[1] = b}
    OBVIOUS
  <1> HIDE DEF j
  <1>5. BatchesTypeOK'
    BY <1>2 DEF BatchesTypeOK
  <1>6. Ever' \subseteq Ever
    <2>1. \A v \in Worker : Seen(v)' \subseteq Ever
      BY <1>3, <1>4, EverAreRows DEF Seen
    <2> QED
      BY <1>2, <2>1, EverKept
  <1>7. ImportsApart' /\ RowsPlaced'
    BY <1>2, <1>3, <1>4, <1>6, PlacesKept
  <1>8. \A r \in row : r[1] = b => r \in j.todo
    BY <1>2, <1>4 DEF RowsPlaced, Placed, Ever, Created
  <1>9. RevertsReach'
    BY <1>2, <1>3, <1>4, <1>8 DEF RevertsReach
  <1>10. RevertedLogged' /\ RevertedIsGone' /\ EffectsAreRows'
    BY <1>2 DEF RevertedLogged, RevertedIsGone, EffectsAreRows
  <1> QED
    BY <1>2, <1>3, <1>5, <1>7, <1>9, <1>10

LEMMA StartDeleteKeeps ==
    ASSUME BatchesInv, NEW w \in Worker, NEW r \in Row, StartDelete(w, r)
    PROVE  BatchesInv'
  <1> DEFINE j == [kind |-> "delete", batch |-> r[1], seen |-> {r}, todo |-> {}]
  <1> USE DEF BatchesInv
  <1>1. j \in EraseJob
    BY RowIsPair DEF EraseJob
  <1>2. /\ job' = [job EXCEPT ![w] = j] /\ r \in row
        /\ UNCHANGED <<row, effect, item, batch, reverted, begun, crashes, doubled>>
    BY DEF StartDelete, log
  <1>3. /\ JobsTyped' /\ job'[w] = j
        /\ \A v \in Worker : v # w => job'[v] = job[v]
    BY <1>1, <1>2, JobMoves
  <1>4. j.kind = "delete" /\ j.seen = {r}
    OBVIOUS
  <1> HIDE DEF j
  <1>5. BatchesTypeOK'
    BY <1>2 DEF BatchesTypeOK
  <1>6. Ever' \subseteq Ever
    <2>1. r \in Ever
      BY <1>2 DEF Ever, Created
    <2>2. \A v \in Worker : Seen(v)' \subseteq Ever
      BY <1>3, <1>4, <2>1, EverAreRows DEF Seen
    <2> QED
      BY <1>2, <2>2, EverKept
  <1>7. ImportsApart' /\ RowsPlaced'
    BY <1>2, <1>3, <1>4, <1>6, PlacesKept
  <1>8. RevertsReach'
    BY <1>2, <1>3, <1>4 DEF RevertsReach
  <1>9. RevertedLogged' /\ RevertedIsGone' /\ EffectsAreRows'
    BY <1>2 DEF RevertedLogged, RevertedIsGone, EffectsAreRows
  <1> QED
    BY <1>2, <1>3, <1>5, <1>7, <1>8, <1>9

LEMMA FindRowKeeps ==
    ASSUME BatchesInv, NEW w \in Worker, FindRow(w)
    PROVE  BatchesInv'
  <1> DEFINE i == job[w]
  <1> USE DEF BatchesInv
  <1>1. i \in EraseJob /\ i.kind = "revert" /\ i.seen = {}
    BY JobKinds DEF FindRow
  <1> PICK r \in i.todo : job' = [job EXCEPT ![w].todo = @ \ {r}, ![w].seen = Found(r)]
    BY DEF FindRow
  <1> DEFINE j == [i EXCEPT !.todo = @ \ {r}, !.seen = Found(r)]
  <1>2. /\ j \in EraseJob /\ j.kind = "revert" /\ j.batch = i.batch
        /\ j.todo = i.todo \ {r} /\ j.seen = Found(r)
    <2>1. Found(r) \in SUBSET Row
      BY DEF Found, BatchesTypeOK
    <2> QED
      BY <1>1, <2>1 DEF EraseJob
  <1>3. /\ job' = [job EXCEPT ![w] = j]
        /\ UNCHANGED <<row, effect, item, batch, reverted, begun, crashes, wanted, doubled>>
    <2>1. job' = [job EXCEPT ![w] = j]
      BY <1>1 DEF JobsTyped, EraseJob
    <2> QED
      BY <2>1 DEF FindRow, log
  <1> HIDE DEF j
  <1>4. /\ JobsTyped' /\ job'[w] = j
        /\ \A v \in Worker : v # w => job'[v] = job[v]
    BY <1>2, <1>3, JobMoves
  <1>5. BatchesTypeOK'
    BY <1>3 DEF BatchesTypeOK
  <1>6. Ever' \subseteq Ever
    <2>1. Found(r) \subseteq Ever
      BY DEF Found, Ever, Created
    <2>2. \A v \in Worker : Seen(v)' \subseteq Ever
      BY <1>2, <1>4, <2>1, EverAreRows DEF Seen
    <2> QED
      BY <1>3, <2>2, EverKept
  <1>7. ImportsApart' /\ RowsPlaced'
    BY <1>2, <1>3, <1>4, <1>6, PlacesKept
  <1>8. RevertsReach'
    BY <1>1, <1>2, <1>3, <1>4 DEF RevertsReach, Found
  <1>9. RevertedLogged' /\ RevertedIsGone' /\ EffectsAreRows'
    BY <1>3 DEF RevertedLogged, RevertedIsGone, EffectsAreRows
  <1> QED
    BY <1>3, <1>4, <1>5, <1>7, <1>8, <1>9

LEMMA DeleteRowKeeps ==
    ASSUME BatchesInv, NEW w \in Worker, DeleteRow(w)
    PROVE  BatchesInv'
  <1> DEFINE i == job[w]
             j == IF i.kind = "delete" THEN Free ELSE [i EXCEPT !.seen = {}]
  <1> USE DEF BatchesInv
  <1>1. i \in EraseJob /\ i.kind \in {"revert", "delete"} /\ i.seen \subseteq Row
    BY JobKinds DEF DeleteRow, EraseJob
  <1>2. /\ job' = [job EXCEPT ![w] = j]
        /\ effect' = [r \in Row |-> IF r \in i.seen THEN effect[r] - 1 ELSE effect[r]]
        /\ doubled' = doubled \cup (i.seen \ row)
        /\ row' = row \ i.seen
        /\ UNCHANGED <<item, batch, reverted, begun, crashes, wanted>>
    BY DEF DeleteRow, log
  <1>3. /\ j \in {Free} \cup ImportJob \cup EraseJob
        /\ j.kind # "import" /\ j.kind # "delete"
        /\ j.kind = "revert" =>
              i.kind = "revert" /\ j.batch = i.batch /\ j.todo = i.todo /\ j.seen = {}
    <2>1. CASE i.kind = "delete"
      BY <2>1 DEF Free
    <2>2. CASE i.kind = "revert"
      BY <1>1, <2>2 DEF EraseJob
    <2> QED
      BY <1>1, <2>1, <2>2
  <1> HIDE DEF j
  <1>4. /\ JobsTyped' /\ job'[w] = j
        /\ \A v \in Worker : v # w => job'[v] = job[v]
    BY <1>2, <1>3, JobMoves
  <1>5. BatchesTypeOK' /\ doubled' \subseteq Row
    BY <1>1, <1>2 DEF BatchesTypeOK
  <1>6. Ever' \subseteq Ever
    <2>1. i.seen \subseteq Ever
      BY <1>1, EverAreRows DEF Seen
    <2>2. \A v \in Worker : Seen(v)' \subseteq Ever
      BY <1>3, <1>4, EverAreRows DEF Seen
    <2>3. \A r \in Row : effect'[r] # 0 => r \in Ever
      BY <1>2, <2>1 DEF Ever, Created
    <2>4. row \cup doubled \cup item \subseteq Ever
      BY DEF Ever, Created
    <2> QED
      BY <1>2, <2>1, <2>2, <2>3, <2>4 DEF Ever, Created
  <1>7. ImportsApart' /\ RowsPlaced'
    BY <1>2, <1>3, <1>4, <1>6, PlacesKept
  <1>8. RevertsReach'
    BY <1>2, <1>3, <1>4 DEF RevertsReach
  <1>9. RevertedLogged' /\ RevertedIsGone'
    BY <1>2 DEF RevertedLogged, RevertedIsGone
  <1>10. EffectsAreRows'
    BY <1>1, <1>2 DEF EffectsAreRows, BatchesTypeOK
  <1> QED
    BY <1>4, <1>5, <1>7, <1>8, <1>9, <1>10

LEMMA EndRevertKeeps ==
    ASSUME BatchesInv, NEW w \in Worker, EndRevert(w)
    PROVE  BatchesInv'
  <1> DEFINE i == job[w]
  <1> USE DEF BatchesInv
  <1>1. /\ i \in EraseJob /\ i.kind = "revert" /\ i.seen = {} /\ i.todo = {}
        /\ i.batch \in Batch
    BY JobKinds DEF EndRevert, EraseJob
  <1>2. /\ job' = [job EXCEPT ![w] = Free]
        /\ reverted' = [reverted EXCEPT ![i.batch] = @ + 1]
        /\ UNCHANGED <<row, effect, item, batch, begun, crashes, wanted, doubled>>
    BY DEF EndRevert
  <1>3. /\ JobsTyped' /\ job'[w] = Free /\ Free.kind = "free"
        /\ \A v \in Worker : v # w => job'[v] = job[v]
    BY <1>2, JobMoves DEF Free
  <1>4. BatchesTypeOK'
    BY <1>1, <1>2 DEF BatchesTypeOK
  <1>5. Ever' \subseteq Ever
    <2>1. \A v \in Worker : Seen(v)' \subseteq Ever
      BY <1>3, EverAreRows DEF Seen
    <2> QED
      BY <1>2, <2>1, EverKept
  <1>6. ImportsApart' /\ RowsPlaced'
    BY <1>2, <1>3, <1>5, PlacesKept
  <1>7. i.batch \in batch /\ \A r \in row : r[1] # i.batch
    BY <1>1 DEF RevertsReach
  <1>8. RevertsReach' /\ EffectsAreRows'
    BY <1>2, <1>3 DEF RevertsReach, EffectsAreRows
  <1>9. RevertedLogged' /\ RevertedIsGone'
    BY <1>2, <1>7 DEF RevertedLogged, RevertedIsGone, BatchesTypeOK
  <1> QED
    BY <1>2, <1>3, <1>4, <1>6, <1>8, <1>9

LEMMA CrashKeeps ==
    ASSUME BatchesInv, NEW w \in Worker, Crash(w)
    PROVE  BatchesInv'
  <1> USE BatchesConstants DEF BatchesInv
  <1>1. /\ job' = [job EXCEPT ![w] = Free] /\ crashes < MaxCrash /\ crashes' = crashes + 1
        /\ UNCHANGED <<row, effect, item, batch, reverted, begun, wanted, doubled>>
    BY DEF Crash, log
  <1>2. /\ JobsTyped' /\ job'[w] = Free /\ Free.kind = "free"
        /\ \A v \in Worker : v # w => job'[v] = job[v]
    BY <1>1, JobMoves DEF Free
  <1>3. BatchesTypeOK'
    BY <1>1 DEF BatchesTypeOK
  <1>4. Ever' \subseteq Ever
    <2>1. \A v \in Worker : Seen(v)' \subseteq Ever
      BY <1>2, EverAreRows DEF Seen
    <2> QED
      BY <1>1, <2>1, EverKept
  <1>5. ImportsApart' /\ RowsPlaced'
    BY <1>1, <1>2, <1>4, PlacesKept
  <1>6. RevertsReach' /\ RevertedLogged' /\ RevertedIsGone' /\ EffectsAreRows'
    BY <1>1, <1>2 DEF RevertsReach, RevertedLogged, RevertedIsGone, EffectsAreRows
  <1> QED
    BY <1>1, <1>2, <1>3, <1>5, <1>6
-----------------------------------------------------------------------------
LEMMA BatchesInvInit == BatchesInit => BatchesInv
  <1> SUFFICES ASSUME BatchesInit PROVE BatchesInv
    OBVIOUS
  <1> USE BatchesConstants DEF BatchesInit
  <1>1. \A w \in Worker : job[w].kind = "free"
    BY DEF Free
  <1>2. BatchesTypeOK /\ JobsTyped
    BY DEF BatchesTypeOK, JobsTyped
  <1>3. Ever = {}
    BY <1>1 DEF Ever, Created, Seen
  <1>4. ImportsApart /\ RowsPlaced /\ RevertsReach
    BY <1>1, <1>3 DEF ImportsApart, RowsPlaced, RevertsReach
  <1>5. RevertedLogged /\ RevertedIsGone /\ EffectsAreRows
    BY DEF RevertedLogged, RevertedIsGone, EffectsAreRows
  <1> QED
    BY <1>2, <1>4, <1>5 DEF BatchesInv

LEMMA BatchesInvStep == BatchesInv /\ [BatchesNext]_batchesVars => BatchesInv'
  <1> SUFFICES ASSUME BatchesInv, [BatchesNext]_batchesVars PROVE BatchesInv'
    OBVIOUS
  <1>1. CASE BatchesNext
    BY <1>1, StartImportKeeps, StartRevertKeeps, StartDeleteKeeps, ImportRowKeeps,
       ImportEndKeeps, FindRowKeeps, DeleteRowKeeps, EndRevertKeeps, CrashKeeps
       DEF BatchesNext
  <1>2. CASE UNCHANGED batchesVars
    BY <1>2 DEF batchesVars, log, BatchesInv, BatchesTypeOK, JobsTyped, ImportsApart,
                RowsPlaced, Placed, Ever, Created, Seen, RevertsReach, RevertedLogged,
                RevertedIsGone, EffectsAreRows
  <1> QED
    BY <1>1, <1>2

LEMMA BatchesInvHolds == BatchesSpec => []BatchesInv
  <1> QED
    BY BatchesInvInit, BatchesInvStep, PTL DEF BatchesSpec

\* Of an import's rows at most one has no item in the log, and none once the batch
\* is logged, for files of any size (expense_import_service.py:409-452).
THEOREM AtMostOneUnlogged == BatchesSpec => []ItemsTrailByOne
  <1>1. ASSUME BatchesInv PROVE ItemsTrailByOne
    <2> SUFFICES ASSUME NEW b \in Batch
                 PROVE  LET unlogged == {r \in Created : r[1] = b} \ item IN
                        Cardinality(unlogged) <= 1 /\ (b \in batch => unlogged = {})
      BY DEF ItemsTrailByOne
    <2> DEFINE unlogged == {r \in Created : r[1] = b} \ item
    <2>1. b \in batch => unlogged = {}
      BY <1>1 DEF BatchesInv, RowsPlaced, Placed, Ever
    <2>2. \A r, s \in unlogged : r = s
      BY <1>1 DEF BatchesInv, RowsPlaced, Ever
    <2>3. unlogged = {} \/ \E r : unlogged = {r}
      BY <2>2
    <2> HIDE DEF unlogged
    <2>4. Cardinality(unlogged) <= 1
      <3>1. CASE unlogged = {}
        BY <3>1, FS_EmptySet
      <3>2. CASE \E r : unlogged = {r}
        <4>1. PICK r : unlogged = {r}
          BY <3>2
        <4>2. Cardinality({r}) = 1
          BY FS_Singleton
        <4> QED
          BY <4>1, <4>2
      <3> QED
        BY <2>3, <3>1, <3>2
    <2> QED
      BY <2>1, <2>4 DEF unlogged
  <1> QED
    BY <1>1, BatchesInvHolds, PTL

\* A batch the log calls reverted has no row left, whatever crashed, was retried or
\* deleted by hand meanwhile (expense_import_service.py:202-252).
THEOREM RevertedBatchesAreGone == BatchesSpec => []RevertedIsGone
  BY BatchesInvHolds, PTL DEF BatchesInv

\* A row is posted once and reversed once unless two deletions of it overlapped.
THEOREM PostedOnceReversedOnce == BatchesSpec => []EffectsAreRows
  BY BatchesInvHolds, PTL DEF BatchesInv
-----------------------------------------------------------------------------
(* Requests at the desk.                                                    *)

Bill == [buyer : Buyer, date : Int, type : PaymentType, book : Nat, total : Nat, paid : Nat]

BillsTyped ==
    /\ lastBill \in 0..MaxBill /\ books \in Nat
    /\ bill \in [DOMAIN bill -> Bill] /\ DOMAIN bill \subseteq 1..lastBill
    /\ received \in [1..MaxBill -> Nat]

\* A payment was within the balance it read, and what it read was received.
PaymentFits(j) ==
    /\ j.bill \in 1..lastBill
    /\ j.paid \in Nat /\ j.amount \in Nat
    /\ j.paid <= received[j.bill]
    /\ j.bill \in DOMAIN bill => j.paid + j.amount <= bill[j.bill].total

JobFits(j) ==
    /\ j.kind = "import" => j \in [kind : {"import"}, book : Nat, file : Workbook,
                                   at : Nat \ {0}]
    /\ j.kind = "group" => j.file \in Workbook /\ j.at \in 1..Len(j.file) /\ j.book \in Nat
    /\ j.kind = "pay" => PaymentFits(j)

ClientsInv ==
    /\ BillsTyped
    /\ desk = [w \in Desk |-> desk[w]]
    /\ \A w \in Desk : JobFits(desk[w])
    /\ PaidWasReceived
-----------------------------------------------------------------------------
\* A request that goes on without touching invoices.
LEMMA RequestMoves ==
    ASSUME ClientsInv, NEW w \in Desk, NEW j, JobFits(j),
           desk' = [desk EXCEPT ![w] = j],
           UNCHANGED <<bill, lastBill, received>>, books' \in Nat
    PROVE  ClientsInv'
  <1>1. desk' = [v \in Desk |-> desk'[v]]
    BY DEF ClientsInv
  <1>2. \A v \in Desk : desk'[v] = j \/ desk'[v] = desk[v]
    BY DEF ClientsInv
  <1>3. \A v \in Desk : JobFits(desk[v]) /\ JobFits(j)
    BY DEF ClientsInv
  <1>4. \A v \in Desk : JobFits(desk'[v])
    BY <1>2, <1>3
  <1>5. \A v \in Desk : JobFits(desk[v])'
    BY <1>4 DEF JobFits, PaymentFits
  <1>6. BillsTyped' /\ PaidWasReceived'
    BY DEF ClientsInv, BillsTyped, PaidWasReceived
  <1> QED
    BY <1>1, <1>5, <1>6 DEF ClientsInv

LEMMA VacantFits == JobFits(Vacant)
  BY DEF JobFits, Vacant

LEMMA StartBookKeeps ==
    ASSUME ClientsInv, NEW w \in Desk, NEW f \in Workbook, StartBook(w, f)
    PROVE  ClientsInv'
  <1> DEFINE j == [kind |-> "import", book |-> books + 1, file |-> f, at |-> 1]
  <1>1. books + 1 \in Nat
    BY DEF ClientsInv, BillsTyped
  <1>2. JobFits(j)
    BY <1>1 DEF JobFits
  <1>3. /\ desk' = [desk EXCEPT ![w] = j] /\ UNCHANGED <<bill, lastBill, received>>
        /\ books' = books + 1
    BY DEF StartBook
  <1> HIDE DEF j
  <1> QED
    BY <1>1, <1>2, <1>3, RequestMoves

LEMMA ReadGroupKeeps ==
    ASSUME ClientsInv, NEW w \in Desk, ReadGroup(w)
    PROVE  ClientsInv'
  <1> DEFINE i == desk[w]
             g == i.file[i.at]
             skip == [i EXCEPT !.at = @ + 1]
             take == [kind |-> "group", book |-> i.book, file |-> i.file, at |-> i.at,
                      owed |-> owed[g.buyer]]
  <1>1. /\ i \in [kind : {"import"}, book : Nat, file : Workbook, at : Nat \ {0}]
        /\ i.at <= Len(i.file)
    BY DEF ReadGroup, ClientsInv, JobFits
  <1>2. i.at \in 1..Len(i.file)
    BY <1>1, ClientImportsConstants
  <1>3. JobFits(skip)
    BY <1>1 DEF JobFits
  <1>4. JobFits(take)
    BY <1>1, <1>2 DEF JobFits
  <1>5. /\ desk' = [desk EXCEPT ![w] = IF Same(g) # {} THEN skip ELSE take]
        /\ UNCHANGED <<bill, lastBill, received, books>>
    BY DEF ReadGroup
  <1>6. books' \in Nat
    BY <1>5 DEF ClientsInv, BillsTyped
  <1> HIDE DEF skip, take
  <1> QED
    BY <1>3, <1>4, <1>5, <1>6, RequestMoves

LEMMA GroupDoneFits ==
    ASSUME ClientsInv, NEW w \in Desk, desk[w].kind = "group"
    PROVE  JobFits(GroupDone(desk[w]))
  <1> DEFINE i == desk[w]
  <1>1. i.file \in Workbook /\ i.book \in Nat /\ i.at + 1 \in Nat \ {0}
    BY ClientImportsConstants DEF ClientsInv, JobFits
  <1> QED
    BY <1>1 DEF JobFits, GroupDone

LEMMA ItemOfSeq ==
    ASSUME NEW S, NEW f \in Seq(S), NEW k \in 1..Len(f)
    PROVE  f[k] \in S
  OBVIOUS

LEMMA CommitBillKeeps ==
    ASSUME ClientsInv, NEW w \in Desk, CommitBill(w)
    PROVE  ClientsInv'
  <1> DEFINE j == desk[w]
             g == j.file[j.at]
             n == lastBill + 1
             done == GroupDone(j)
             d == [buyer |-> g.buyer, date |-> g.date, type |-> g.type, book |-> j.book,
                   total |-> Total, paid |-> IF g.type = "cash" THEN Total ELSE 0]
  <1>1. /\ lastBill < MaxBill /\ lastBill' = n
        /\ bill' = [i \in DOMAIN bill \cup {n} |-> IF i = n THEN d ELSE bill[i]]
        /\ received' = [received EXCEPT ![n] = d.paid]
        /\ desk' = [desk EXCEPT ![w] = done] /\ books' = books
    BY DEF CommitBill
  <1>2. /\ j.file \in Seq([buyer : Buyer, date : Int, type : PaymentType])
        /\ j.at \in 1..Len(j.file) /\ j.book \in Nat
    BY ClientImportsConstants DEF CommitBill, ClientsInv, JobFits
  <1>3. g \in [buyer : Buyer, date : Int, type : PaymentType]
    BY <1>2, ItemOfSeq
  <1>4. d \in Bill /\ d.total = Total /\ d.paid \in {0, Total} /\ Total \in Nat
    BY <1>2, <1>3, ClientImportsConstants DEF Bill
  <1>5. JobFits(done) /\ done.kind = "import"
    BY GroupDoneFits DEF CommitBill, GroupDone
  <1> HIDE DEF d, g, done
  <1>6. /\ lastBill \in Nat /\ MaxBill \in Nat /\ n \in 1..MaxBill /\ n \notin DOMAIN bill
        /\ n \in 1..n /\ 1..lastBill \subseteq 1..n /\ n \notin 1..lastBill
    BY <1>1, ClientImportsConstants DEF ClientsInv, BillsTyped
  <1>7. /\ DOMAIN bill' = DOMAIN bill \cup {n} /\ bill'[n] = d
        /\ \A i \in DOMAIN bill : bill'[i] = bill[i]
    BY <1>1, <1>6
  <1>8. /\ received'[n] = d.paid /\ received' \in [1..MaxBill -> Nat]
        /\ \A i \in 1..lastBill : received'[i] = received[i]
    BY <1>1, <1>4, <1>6 DEF ClientsInv, BillsTyped
  <1> HIDE DEF n
  <1>9. BillsTyped'
    <2>1. bill' \in [DOMAIN bill' -> Bill]
      BY <1>1, <1>4, <1>7 DEF ClientsInv, BillsTyped
    <2>2. DOMAIN bill' \subseteq 1..lastBill' /\ lastBill' \in 0..MaxBill
      BY <1>1, <1>6, <1>7 DEF ClientsInv, BillsTyped
    <2> QED
      BY <1>1, <1>8, <2>1, <2>2 DEF ClientsInv, BillsTyped
  <1>10. desk' = [v \in Desk |-> desk'[v]]
    BY <1>1 DEF ClientsInv
  <1>11. ASSUME NEW v \in Desk PROVE JobFits(desk[v])'
    <2>1. CASE desk'[v] = done
      BY <1>5, <2>1 DEF JobFits
    <2>2. CASE desk'[v] = desk[v] /\ desk[v].kind = "pay"
      <3>1. PaymentFits(desk[v])
        BY <2>2 DEF ClientsInv, JobFits
      <3>2. PaymentFits(desk[v])'
        BY <1>1, <1>6, <1>7, <1>8, <2>2, <3>1 DEF PaymentFits
      <3> QED
        BY <2>2, <3>2 DEF JobFits
    <2>3. CASE desk'[v] = desk[v] /\ desk[v].kind # "pay"
      BY <2>3 DEF ClientsInv, JobFits
    <2> QED
      BY <1>1, <2>1, <2>2, <2>3 DEF ClientsInv
  <1>12. PaidWasReceived'
    BY <1>4, <1>6, <1>7, <1>8 DEF PaidWasReceived, ClientsInv, BillsTyped
  <1> QED
    BY <1>9, <1>10, <1>11, <1>12 DEF ClientsInv

LEMMA ReadBillKeeps ==
    ASSUME ClientsInv, NEW w \in Desk, NEW i \in DOMAIN bill, NEW n \in Instalment,
           ReadBill(w, i, n)
    PROVE  ClientsInv'
  <1> DEFINE d == bill[i]
             j == [kind |-> "pay", bill |-> i, amount |-> n, buyer |-> d.buyer,
                   paid |-> d.paid, owed |-> owed[d.buyer]]
  <1>1. /\ desk' = [desk EXCEPT ![w] = j] /\ n <= d.total - d.paid
        /\ UNCHANGED <<bill, lastBill, received, books>>
    BY DEF ReadBill
  <1>2. d.total \in Nat /\ d.paid \in Nat /\ n \in Nat /\ books' \in Nat
    BY <1>1, ClientImportsConstants DEF ClientsInv, BillsTyped, Bill
  <1>3. PaymentFits(j)
    <2>1. i \in 1..lastBill /\ d.paid <= received[i]
      BY DEF ClientsInv, BillsTyped, PaidWasReceived
    <2>2. d.paid + n <= d.total
      BY <1>1, <1>2
    <2> QED
      BY <1>2, <2>1, <2>2 DEF PaymentFits
  <1>4. JobFits(j)
    <2>1. j.kind = "pay"
      OBVIOUS
    <2> HIDE DEF j
    <2> QED
      BY <1>3, <2>1 DEF JobFits
  <1> HIDE DEF j
  <1> QED
    BY <1>1, <1>2, <1>4, RequestMoves

LEMMA CommitPaymentKeeps ==
    ASSUME ClientsInv, NEW w \in Desk, CommitPayment(w)
    PROVE  ClientsInv'
  <1> DEFINE j == desk[w]
             k == j.bill
             sum == j.paid + j.amount
  <1>1. /\ k \in DOMAIN bill
        /\ bill' = [bill EXCEPT ![k].paid = sum]
        /\ received' = [received EXCEPT ![k] = @ + j.amount]
        /\ desk' = [desk EXCEPT ![w] = Vacant]
        /\ lastBill' = lastBill /\ books' = books
    BY DEF CommitPayment, PaidNow, Leave
  <1>2. PaymentFits(j)
    BY DEF CommitPayment, ClientsInv, JobFits
  <1>3. /\ j.paid \in Nat /\ j.amount \in Nat /\ sum \in Nat /\ k \in 1..lastBill
        /\ j.paid <= received[k] /\ sum <= bill[k].total
    BY <1>1, <1>2 DEF PaymentFits
  <1>4. k \in 1..MaxBill /\ 1..lastBill \subseteq 1..MaxBill
    BY <1>3, ClientImportsConstants DEF ClientsInv, BillsTyped
  <1> HIDE DEF sum, k
  <1>5. /\ DOMAIN bill' = DOMAIN bill
        /\ bill' \in [DOMAIN bill -> Bill]
        /\ bill'[k].paid = sum
        /\ \A i \in DOMAIN bill : bill'[i].total = bill[i].total
        /\ \A i \in DOMAIN bill : i # k => bill'[i] = bill[i]
    BY <1>1, <1>3 DEF ClientsInv, BillsTyped, Bill
  <1>6. /\ received' \in [1..MaxBill -> Nat]
        /\ received'[k] = received[k] + j.amount
        /\ \A i \in 1..MaxBill : received'[i] >= received[i]
    BY <1>1, <1>3, <1>4 DEF ClientsInv, BillsTyped
  <1>7. BillsTyped'
    BY <1>1, <1>5, <1>6 DEF ClientsInv, BillsTyped
  <1>8. desk' = [v \in Desk |-> desk'[v]]
    BY <1>1 DEF ClientsInv
  <1>9. ASSUME NEW v \in Desk PROVE JobFits(desk[v])'
    <2>1. CASE desk'[v] = Vacant
      BY <2>1 DEF JobFits, Vacant
    <2>2. CASE desk'[v] = desk[v] /\ desk[v].kind = "pay"
      <3> DEFINE p == desk[v]
      <3>1. PaymentFits(p)
        BY <2>2 DEF ClientsInv, JobFits
      <3>2. /\ p.bill \in 1..lastBill' /\ p.paid \in Nat /\ p.amount \in Nat
            /\ p.bill \in DOMAIN bill' => p.paid + p.amount <= bill'[p.bill].total
        BY <1>1, <1>5, <3>1 DEF PaymentFits
      <3>3. p.paid <= received'[p.bill]
        <4>1. /\ p.bill \in 1..MaxBill /\ p.paid <= received[p.bill]
              /\ received'[p.bill] >= received[p.bill]
          BY <1>4, <1>6, <3>1 DEF PaymentFits
        <4>2. received[p.bill] \in Nat /\ received'[p.bill] \in Nat
          BY <1>6, <4>1 DEF ClientsInv, BillsTyped
        <4> QED
          BY <3>2, <4>1, <4>2
      <3>4. PaymentFits(desk[v])'
        BY <2>2, <3>2, <3>3 DEF PaymentFits
      <3> QED
        BY <2>2, <3>4 DEF JobFits
    <2>3. CASE desk'[v] = desk[v] /\ desk[v].kind # "pay"
      BY <2>3 DEF ClientsInv, JobFits
    <2> QED
      BY <1>1, <2>1, <2>2, <2>3 DEF ClientsInv
  <1>10. PaidWasReceived'
    <2> SUFFICES ASSUME NEW i \in DOMAIN bill
                 PROVE  bill'[i].paid <= bill'[i].total /\ bill'[i].paid <= received'[i]
      BY <1>5 DEF PaidWasReceived
    <2>1. CASE i = k
      <3>1. received[k] \in Nat /\ sum <= received[k] + j.amount
        BY <1>3, <1>4 DEF ClientsInv, BillsTyped, sum
      <3> QED
        BY <1>3, <1>5, <1>6, <2>1, <3>1
    <2>2. CASE i # k
      <3>1. /\ bill[i].paid \in Nat /\ received[i] \in Nat /\ received'[i] \in Nat
            /\ i \in 1..MaxBill
        BY <1>4, <1>6 DEF ClientsInv, BillsTyped, Bill
      <3>2. bill[i].paid <= bill[i].total /\ bill[i].paid <= received[i]
        BY DEF ClientsInv, PaidWasReceived
      <3>3. bill'[i] = bill[i] /\ received'[i] >= received[i]
        BY <1>5, <1>6, <2>2, <3>1
      <3> QED
        BY <3>1, <3>2, <3>3
    <2> QED
      BY <2>1, <2>2
  <1> QED
    BY <1>7, <1>8, <1>9, <1>10 DEF ClientsInv

LEMMA CommitRevertKeeps ==
    ASSUME ClientsInv, NEW w \in Desk, CommitRevert(w)
    PROVE  ClientsInv'
  <1>1. /\ desk' = [desk EXCEPT ![w] = Vacant]
        /\ DOMAIN bill' \subseteq DOMAIN bill
        /\ bill' = [i \in DOMAIN bill' |-> bill[i]]
        /\ UNCHANGED <<lastBill, received, books>>
    BY DEF CommitRevert, Restrict, Leave
  <1>2. BillsTyped' /\ PaidWasReceived'
    BY <1>1 DEF ClientsInv, BillsTyped, PaidWasReceived
  <1>3. desk' = [v \in Desk |-> desk'[v]]
    BY <1>1 DEF ClientsInv
  <1>4. ASSUME NEW v \in Desk PROVE JobFits(desk[v])'
    <2>1. CASE desk'[v] = Vacant
      BY <2>1 DEF JobFits, Vacant
    <2>2. CASE desk'[v] = desk[v]
      BY <1>1, <2>2 DEF ClientsInv, JobFits, PaymentFits
    <2> QED
      BY <1>1, <2>1, <2>2 DEF ClientsInv
  <1> QED
    BY <1>2, <1>3, <1>4 DEF ClientsInv

\* Requests that leave, or go on with a client rather than an invoice.
LEMMA OthersKeep ==
    ASSUME ClientsInv, NEW w \in Desk,
           \/ FailBill(w) \/ EndBook(w) \/ TakeNumber(w) \/ CommitCredit(w) \/ GiveUp(w)
           \/ \E c \in Buyer, n \in Instalment : ReadBuyer(w, c, n)
           \/ \E b \in 1..MaxBook : ReadBatch(w, b)
    PROVE  ClientsInv'
  <1>1. books \in Nat
    BY DEF ClientsInv, BillsTyped
  <1>2. CASE FailBill(w)
    BY <1>1, <1>2, GroupDoneFits, RequestMoves DEF FailBill
  <1>3. CASE EndBook(w) \/ CommitCredit(w) \/ GiveUp(w)
    BY <1>1, <1>3, VacantFits, RequestMoves DEF EndBook, CommitCredit, GiveUp, Leave
  <1>4. CASE TakeNumber(w)
    <2> DEFINE j == [kind |-> "refund", buyer |-> desk[w].buyer, amount |-> desk[w].amount,
                     owed |-> desk[w].owed, number |-> lastCredit + 1]
    <2>1. JobFits(j)
      BY DEF JobFits
    <2>2. desk' = [desk EXCEPT ![w] = j] /\ UNCHANGED <<bill, lastBill, received, books>>
      BY <1>4 DEF TakeNumber
    <2> HIDE DEF j
    <2> QED
      BY <1>1, <2>1, <2>2, RequestMoves
  <1>5. ASSUME NEW c \in Buyer, NEW n \in Instalment, ReadBuyer(w, c, n) PROVE ClientsInv'
    <2> DEFINE j == [kind |-> "client", buyer |-> c, amount |-> n, owed |-> owed[c]]
    <2>1. JobFits(j)
      BY DEF JobFits
    <2>2. desk' = [desk EXCEPT ![w] = j] /\ UNCHANGED <<bill, lastBill, received, books>>
      BY <1>5 DEF ReadBuyer
    <2> HIDE DEF j
    <2> QED
      BY <1>1, <2>1, <2>2, RequestMoves
  <1>6. ASSUME NEW b \in 1..MaxBook, ReadBatch(w, b) PROVE ClientsInv'
    <2> DEFINE j == [kind |-> "revert", rows |-> Restrict(bill, {i \in DOMAIN bill : bill[i].book = b}),
                     owed |-> owed]
    <2>1. JobFits(j)
      BY DEF JobFits
    <2>2. desk' = [desk EXCEPT ![w] = j] /\ UNCHANGED <<bill, lastBill, received, books>>
      BY <1>6 DEF ReadBatch
    <2> HIDE DEF j
    <2> QED
      BY <1>1, <2>1, <2>2, RequestMoves
  <1> QED
    BY <1>2, <1>3, <1>4, <1>5, <1>6
-----------------------------------------------------------------------------
LEMMA ClientsInvInit == ClientsInit => ClientsInv
  <1> SUFFICES ASSUME ClientsInit PROVE ClientsInv
    OBVIOUS
  <1> USE ClientImportsConstants DEF ClientsInit
  <1>1. DOMAIN bill = {}
    OBVIOUS
  <1>2. BillsTyped
    BY <1>1 DEF BillsTyped
  <1>3. PaidWasReceived
    BY <1>1 DEF PaidWasReceived
  <1>4. \A w \in Desk : JobFits(desk[w])
    BY VacantFits
  <1> QED
    BY <1>2, <1>3, <1>4 DEF ClientsInv

LEMMA ClientsInvStep == ClientsInv /\ [ClientsNext]_clientsVars => ClientsInv'
  <1> SUFFICES ASSUME ClientsInv, [ClientsNext]_clientsVars PROVE ClientsInv'
    OBVIOUS
  <1>1. CASE ClientsNext
    BY <1>1, StartBookKeeps, ReadGroupKeeps, CommitBillKeeps, ReadBillKeeps,
       CommitPaymentKeeps, CommitRevertKeeps, OthersKeep DEF ClientsNext
  <1>2. CASE UNCHANGED clientsVars
    BY <1>2 DEF clientsVars, ClientsInv, BillsTyped, JobFits, PaymentFits, PaidWasReceived
  <1> QED
    BY <1>1, <1>2

LEMMA ClientsInvHolds == ClientsSpec => []ClientsInv
  <1> QED
    BY ClientsInvInit, ClientsInvStep, PTL DEF ClientsSpec

\* However many payments of one invoice overlap, with each other and with reverts,
\* it never shows more paid than was received, nor than its total (b2b.py:676-692).
THEOREM InvoicesShowWhatWasPaid == ClientsSpec => []PaidWasReceived
  BY ClientsInvHolds, PTL DEF ClientsInv
-----------------------------------------------------------------------------
\* What a request at the desk has read of a client, and of the invoices it means
\* to write.
ReadingFits(j) ==
    /\ j.kind = "group" => j.owed \in Nat
    /\ j.kind = "pay" =>
         /\ j.buyer \in Buyer /\ j.owed \in Nat /\ j.amount \in Nat
         /\ j.bill \in DOMAIN bill => /\ bill[j.bill].buyer = j.buyer
                                      /\ bill[j.bill].type # "cash"
    /\ j.kind \in {"client", "refund"} =>
         j.buyer \in Buyer /\ j.owed \in Nat /\ j.amount \in Nat /\ j.amount <= j.owed
    /\ j.kind = "revert" =>
         /\ j.owed \in [Buyer -> Nat]
         /\ j.rows \in [DOMAIN j.rows -> Bill] /\ DOMAIN j.rows \subseteq 1..lastBill
         /\ \A i \in DOMAIN bill \cap DOMAIN j.rows : bill[i].buyer = j.rows[i].buyer

CashIsPaid == \A i \in DOMAIN bill : bill[i].type = "cash" => bill[i].paid = bill[i].total

AccountsTyped == owed \in [Buyer -> Nat] /\ credit \in [Buyer -> Nat] /\ spared \in [Buyer -> Nat]

AccountsInv ==
    /\ AccountsTyped /\ CashIsPaid
    /\ \A w \in Desk : ReadingFits(desk[w])
    /\ OwedIsUnpaid

\* A client's invoices among some, and what each leaves unpaid.
BillsOf(rows, c) == {x \in DOMAIN rows : rows[x].buyer = c}
Due(rows, c) == [i \in BillsOf(rows, c) |-> Unpaid(rows[i])]
Listed(rows, n) == rows \in [DOMAIN rows -> Bill] /\ n \in Nat /\ DOMAIN rows \subseteq 1..n

LEMMA GivenUpIsDue == ASSUME NEW rows, NEW c PROVE GivenUp(rows, c) = SumFunction(Due(rows, c))
  BY DEF GivenUp, Due, BillsOf

\* Invoices are finitely many and leave a whole amount.
LEMMA DueTyped ==
    ASSUME NEW rows, NEW n, Listed(rows, n), NEW c
    PROVE  /\ Due(rows, c) \in [BillsOf(rows, c) -> Int]
           /\ IsFiniteSet(BillsOf(rows, c))
           /\ GivenUp(rows, c) \in Int
           /\ GivenUp(rows, c) = SumFunctionOnSet(Due(rows, c), BillsOf(rows, c))
  <1> PICK S : S = BillsOf(rows, c)
    OBVIOUS
  <1>0. S \subseteq 1..n /\ n \in Int /\ 1 \in Int
    BY DEF Listed, BillsOf
  <1>1. S \subseteq 1..n /\ IsFiniteSet(1..n)
    BY <1>0, FS_Interval
  <1>2. IsFiniteSet(S)
    BY <1>1, FS_Subset
  <1>3. \A i \in S : Unpaid(rows[i]) \in Int
    BY DEF Unpaid, Bill, Listed, BillsOf
  <1>4. Due(rows, c) \in [S -> Int]
    BY <1>3 DEF Due
  <1>5. DOMAIN Due(rows, c) = S /\ \A i \in S : Due(rows, c)[i] \in Int
    BY <1>4
  <1>6. SumFunctionOnSet(Due(rows, c), S) \in Int
    BY <1>2, <1>5, SumIsInt
  <1>7. GivenUp(rows, c) = SumFunctionOnSet(Due(rows, c), S)
    BY <1>5, GivenUpIsDue DEF SumFunction
  <1> QED
    BY <1>2, <1>4, <1>6, <1>7

\* One invoice is added, or changed; the others are as they were.
LEMMA OneBillChanges ==
    ASSUME NEW rows, NEW n, Listed(rows, n), NEW next, NEW m, Listed(next, m),
           NEW k \in DOMAIN next, DOMAIN next = DOMAIN rows \cup {k},
           \A i \in DOMAIN rows \ {k} : next[i] = rows[i],
           NEW c
    PROVE  GivenUp(next, c) = GivenUp(rows, c)
             - (IF k \in BillsOf(rows, c) THEN Unpaid(rows[k]) ELSE 0)
             + (IF k \in BillsOf(next, c) THEN Unpaid(next[k]) ELSE 0)
  <1> PICK S : S = BillsOf(rows, c)
    OBVIOUS
  <1> PICK T : T = BillsOf(next, c)
    OBVIOUS
  <1>0. Listed(rows, n) /\ Listed(next, m)
    OBVIOUS
  <1>1. S \ {k} = T \ {k}
    BY DEF BillsOf
  <1>2. Due(rows, c) \in [S -> Int] /\ IsFiniteSet(S)
    BY DueTyped
  <1>3. Due(next, c) \in [T -> Int] /\ IsFiniteSet(T)
    BY DueTyped
  <1>4. \A i \in S \ {k} : Due(rows, c)[i] = Due(next, c)[i]
    BY <1>1 DEF Due, BillsOf
  <1>5. SumFunction(Due(next, c)) = SumFunction(Due(rows, c))
             - (IF k \in S THEN Due(rows, c)[k] ELSE 0)
             + (IF k \in T THEN Due(next, c)[k] ELSE 0)
    BY ONLY <1>1, <1>2, <1>3, <1>4, SumDiffers
  <1>6. /\ k \in S => Due(rows, c)[k] = Unpaid(rows[k])
        /\ k \in T => Due(next, c)[k] = Unpaid(next[k])
    BY DEF Due
  <1> QED
    BY <1>5, <1>6, GivenUpIsDue

\* Invoices are taken out, as they are.
LEMMA BillsTakenOut ==
    ASSUME NEW rows, NEW n, Listed(rows, n), NEW out, Listed(out, n),
           NEW next, next = [i \in DOMAIN rows \ DOMAIN out |-> rows[i]],
           NEW c,
           \A i \in BillsOf(out, c) : i \in DOMAIN rows /\ rows[i] = out[i],
           \A i \in DOMAIN out \cap DOMAIN rows : rows[i].buyer = out[i].buyer
    PROVE  GivenUp(next, c) = GivenUp(rows, c) - GivenUp(out, c)
  <1> PICK S : S = BillsOf(rows, c)
    OBVIOUS
  <1> PICK R : R = BillsOf(out, c)
    OBVIOUS
  <1> PICK T : T = BillsOf(next, c)
    OBVIOUS
  <1>1. R \subseteq S
    BY DEF BillsOf
  <1>2. T = S \ R
    BY DEF BillsOf
  <1>3. Listed(rows, n) /\ Listed(out, n)
    OBVIOUS
  <1>5. Listed(next, n)
    BY DEF Listed
  <1>4. /\ Due(rows, c) \in [S -> Int] /\ IsFiniteSet(S) /\ GivenUp(rows, c) \in Int
        /\ GivenUp(rows, c) = SumFunctionOnSet(Due(rows, c), S)
    BY <1>3, DueTyped
  <1>6. /\ Due(out, c) \in [R -> Int] /\ IsFiniteSet(R) /\ GivenUp(out, c) \in Int
        /\ GivenUp(out, c) = SumFunctionOnSet(Due(out, c), R)
    BY <1>3, DueTyped
  <1>7. /\ Due(next, c) \in [T -> Int] /\ IsFiniteSet(T) /\ GivenUp(next, c) \in Int
        /\ GivenUp(next, c) = SumFunctionOnSet(Due(next, c), T)
    BY <1>5, DueTyped
  <1>8. \A i \in R : Due(rows, c)[i] = Due(out, c)[i]
    BY <1>1 DEF Due
  <1>9. \A i \in T : Due(rows, c)[i] = Due(next, c)[i]
    BY <1>2 DEF Due, BillsOf
  <1>10. SumFunctionOnSet(Due(rows, c), S)
          = SumFunctionOnSet(Due(rows, c), R) + SumFunctionOnSet(Due(rows, c), S \ R)
    <2>1. \A i \in S : Due(rows, c)[i] \in Int
      BY <1>4
    <2> QED
      BY ONLY <1>1, <1>4, <2>1, SumSplit
  <1>11. SumFunctionOnSet(Due(rows, c), R) = SumFunctionOnSet(Due(out, c), R)
    BY ONLY <1>6, <1>8, SumSame
  <1>12. SumFunctionOnSet(Due(rows, c), T) = SumFunctionOnSet(Due(next, c), T)
    BY ONLY <1>7, <1>9, SumSame
  <1>13. GivenUp(rows, c) = GivenUp(out, c) + GivenUp(next, c)
    BY ONLY <1>2, <1>4, <1>6, <1>7, <1>10, <1>11, <1>12
  <1> QED
    BY ONLY <1>4, <1>6, <1>7, <1>13
-----------------------------------------------------------------------------
\* What a request has read stays so while invoices keep their clients and kinds.
LEMMA ReadingsStay ==
    ASSUME ClientsInv, \A v \in Desk : ReadingFits(desk[v]),
           lastBill' \in Nat, lastBill <= lastBill',
           \A i \in DOMAIN bill' \cap (1..lastBill) :
              i \in DOMAIN bill /\ bill'[i].buyer = bill[i].buyer /\ bill'[i].type = bill[i].type,
           NEW w \in Desk, NEW j, desk' = [desk EXCEPT ![w] = j], ReadingFits(j)'
    PROVE  (\A v \in Desk : ReadingFits(desk[v]))'
  <1> SUFFICES ASSUME NEW v \in Desk PROVE ReadingFits(desk[v])'
    OBVIOUS
  <1>0. lastBill \in Nat /\ 1..lastBill \subseteq 1..lastBill'
    BY DEF ClientsInv, BillsTyped
  <1>1. CASE v = w
    <2>1. desk'[v] = j
      BY <1>1 DEF ClientsInv
    <2> QED
      BY <2>1 DEF ReadingFits
  <1>2. CASE v # w
    <2>1. desk'[v] = desk[v]
      BY <1>2 DEF ClientsInv
    <2>2. ReadingFits(desk[v]) /\ JobFits(desk[v])
      BY DEF ClientsInv
    <2> PICK p : p = desk[v]
      OBVIOUS
    <2>3. ReadingFits(p) /\ JobFits(p)
      BY <2>2
    <2>4. /\ p.kind = "group" => p.owed \in Nat
          /\ p.kind \in {"client", "refund"} =>
               p.buyer \in Buyer /\ p.owed \in Nat /\ p.amount \in Nat /\ p.amount <= p.owed
      BY <2>3 DEF ReadingFits
    <2>5. ASSUME p.kind = "pay"
          PROVE  /\ p.buyer \in Buyer /\ p.owed \in Nat /\ p.amount \in Nat
                 /\ p.bill \in DOMAIN bill' => /\ bill'[p.bill].buyer = p.buyer
                                               /\ bill'[p.bill].type # "cash"
      <3>1. p.bill \in 1..lastBill
        BY <2>3, <2>5 DEF JobFits, PaymentFits
      <3> QED
        BY <2>3, <2>5, <3>1 DEF ReadingFits
    <2>6. ASSUME p.kind = "revert"
          PROVE  /\ p.owed \in [Buyer -> Nat]
                 /\ p.rows \in [DOMAIN p.rows -> Bill] /\ DOMAIN p.rows \subseteq 1..lastBill'
                 /\ \A i \in DOMAIN bill' \cap DOMAIN p.rows : bill'[i].buyer = p.rows[i].buyer
      BY <1>0, <2>3, <2>6 DEF ReadingFits
    <2>7. ReadingFits(p)'
      BY <2>4, <2>5, <2>6 DEF ReadingFits
    <2> QED
      BY <2>1, <2>7 DEF ReadingFits
  <1> QED
    BY <1>1, <1>2

\* A request that goes on without touching accounts.
LEMMA AccountsStay ==
    ASSUME ClientsInv, AccountsInv, NEW w \in Desk, NEW j, ReadingFits(j),
           desk' = [desk EXCEPT ![w] = j],
           UNCHANGED <<bill, lastBill, owed, credit, spared, raced>>
    PROVE  AccountsInv'
  <1>1. ReadingFits(j)'
    BY DEF ReadingFits
  <1>2. (\A v \in Desk : ReadingFits(desk[v]))'
    <2>1. \A v \in Desk : ReadingFits(desk[v])
      BY DEF AccountsInv
    <2>2. lastBill' \in Nat /\ lastBill <= lastBill'
      BY DEF ClientsInv, BillsTyped
    <2> QED
      BY <1>1, <2>1, <2>2, ReadingsStay
  <1>3. AccountsTyped' /\ CashIsPaid' /\ OwedIsUnpaid'
    BY DEF AccountsInv, AccountsTyped, CashIsPaid, OwedIsUnpaid, GivenUp, Unpaid
  <1> QED
    BY <1>2, <1>3 DEF AccountsInv

LEMMA VacantReads == ReadingFits(Vacant) /\ ReadingFits(Vacant)'
  BY DEF ReadingFits, Vacant

LEMMA StartBookAccounts ==
    ASSUME ClientsInv, AccountsInv, NEW w \in Desk, NEW f \in Workbook, StartBook(w, f)
    PROVE  AccountsInv'
  <1> DEFINE j == [kind |-> "import", book |-> books + 1, file |-> f, at |-> 1]
  <1>1. ReadingFits(j)
    BY DEF ReadingFits
  <1>2. /\ desk' = [desk EXCEPT ![w] = j]
        /\ UNCHANGED <<bill, lastBill, owed, credit, spared, raced>>
    BY DEF StartBook
  <1> HIDE DEF j
  <1> QED
    BY <1>1, <1>2, AccountsStay

LEMMA ReadGroupAccounts ==
    ASSUME ClientsInv, AccountsInv, NEW w \in Desk, ReadGroup(w)
    PROVE  AccountsInv'
  <1> DEFINE i == desk[w]
             g == i.file[i.at]
             skip == [i EXCEPT !.at = @ + 1]
             take == [kind |-> "group", book |-> i.book, file |-> i.file, at |-> i.at,
                      owed |-> owed[g.buyer]]
  <1>1. /\ i \in [kind : {"import"}, book : Nat, file : Workbook, at : Nat \ {0}]
        /\ i.at <= Len(i.file)
    BY DEF ReadGroup, ClientsInv, JobFits
  <1>2. i.at \in 1..Len(i.file)
    BY <1>1, ClientImportsConstants
  <1>8. i.file \in Seq([buyer : Buyer, date : Int, type : PaymentType])
    BY <1>1, ClientImportsConstants
  <1>3. g \in [buyer : Buyer, date : Int, type : PaymentType]
    BY <1>2, <1>8, ItemOfSeq
  <1>4. ReadingFits(skip)
    BY <1>1 DEF ReadingFits
  <1>5. owed[g.buyer] \in Nat
    BY <1>3 DEF AccountsInv, AccountsTyped
  <1>6. ReadingFits(take)
    BY <1>5 DEF ReadingFits
  <1>7. /\ desk' = [desk EXCEPT ![w] = IF Same(g) # {} THEN skip ELSE take]
        /\ UNCHANGED <<bill, lastBill, owed, credit, spared, raced>>
    BY DEF ReadGroup
  <1> HIDE DEF skip, take
  <1> QED
    BY <1>4, <1>6, <1>7, AccountsStay

LEMMA ReadBillAccounts ==
    ASSUME ClientsInv, AccountsInv, NEW w \in Desk, NEW i \in DOMAIN bill, NEW n \in Instalment,
           ReadBill(w, i, n)
    PROVE  AccountsInv'
  <1> DEFINE d == bill[i]
             j == [kind |-> "pay", bill |-> i, amount |-> n, buyer |-> d.buyer,
                   paid |-> d.paid, owed |-> owed[d.buyer]]
  <1>1. /\ desk' = [desk EXCEPT ![w] = j] /\ n <= d.total - d.paid
        /\ UNCHANGED <<bill, lastBill, owed, credit, spared, raced>>
    BY DEF ReadBill
  <1>2. d.total \in Nat /\ d.paid \in Nat /\ n \in Nat \ {0} /\ d.buyer \in Buyer
    BY ClientImportsConstants DEF ClientsInv, BillsTyped, Bill
  <1>3. d.type # "cash"
    BY <1>1, <1>2 DEF AccountsInv, CashIsPaid
  <1>4. owed[d.buyer] \in Nat
    BY <1>2 DEF AccountsInv, AccountsTyped
  <1>5. ReadingFits(j)
    BY <1>2, <1>3, <1>4 DEF ReadingFits
  <1> HIDE DEF j
  <1> QED
    BY <1>1, <1>5, AccountsStay

LEMMA ReadBuyerAccounts ==
    ASSUME ClientsInv, AccountsInv, NEW w \in Desk, NEW c \in Buyer, NEW n \in Instalment,
           ReadBuyer(w, c, n)
    PROVE  AccountsInv'
  <1> DEFINE j == [kind |-> "client", buyer |-> c, amount |-> n, owed |-> owed[c]]
  <1>1. /\ desk' = [desk EXCEPT ![w] = j] /\ n <= owed[c] /\ n \in Nat /\ owed[c] \in Nat
        /\ UNCHANGED <<bill, lastBill, owed, credit, spared, raced>>
    BY ClientImportsConstants DEF ReadBuyer, AccountsInv, AccountsTyped
  <1>2. ReadingFits(j)
    BY <1>1 DEF ReadingFits
  <1> HIDE DEF j
  <1> QED
    BY <1>1, <1>2, AccountsStay

LEMMA ReadBatchAccounts ==
    ASSUME ClientsInv, AccountsInv, NEW w \in Desk, NEW b \in 1..MaxBook, ReadBatch(w, b)
    PROVE  AccountsInv'
  <1> PICK rows : rows = Restrict(bill, {i \in DOMAIN bill : bill[i].book = b})
    OBVIOUS
  <1> DEFINE j == [kind |-> "revert", rows |-> rows, owed |-> owed]
  <1>1. /\ desk' = [desk EXCEPT ![w] = j]
        /\ UNCHANGED <<bill, lastBill, owed, credit, spared, raced>>
    BY DEF ReadBatch
  <1>2. /\ DOMAIN rows \subseteq DOMAIN bill /\ rows = [i \in DOMAIN rows |-> bill[i]]
    BY DEF Restrict
  <1>3. /\ rows \in [DOMAIN rows -> Bill] /\ DOMAIN rows \subseteq 1..lastBill
        /\ \A i \in DOMAIN rows : bill[i].buyer = rows[i].buyer
    BY <1>2 DEF ClientsInv, BillsTyped
  <1>4. owed \in [Buyer -> Nat]
    BY DEF AccountsInv, AccountsTyped
  <1>5. ReadingFits(j)
    BY <1>3, <1>4 DEF ReadingFits
  <1> HIDE DEF j
  <1> QED
    BY <1>1, <1>5, AccountsStay

\* Requests that leave, or go on as they are.
LEMMA OtherAccounts ==
    ASSUME ClientsInv, AccountsInv, NEW w \in Desk,
           FailBill(w) \/ EndBook(w) \/ TakeNumber(w) \/ GiveUp(w)
    PROVE  AccountsInv'
  <1>1. CASE FailBill(w)
    <2>1. ReadingFits(GroupDone(desk[w]))
      BY DEF ReadingFits, GroupDone
    <2> QED
      BY <1>1, <2>1, AccountsStay DEF FailBill
  <1>2. CASE EndBook(w) \/ GiveUp(w)
    BY <1>2, VacantReads, AccountsStay DEF EndBook, GiveUp, Leave
  <1>3. CASE TakeNumber(w)
    <2> DEFINE j == [kind |-> "refund", buyer |-> desk[w].buyer, amount |-> desk[w].amount,
                     owed |-> desk[w].owed, number |-> lastCredit + 1]
    <2>1. ReadingFits(desk[w]) /\ desk[w].kind = "client"
      BY <1>3 DEF TakeNumber, AccountsInv
    <2>2. ReadingFits(j)
      BY <2>1 DEF ReadingFits
    <2>3. /\ desk' = [desk EXCEPT ![w] = j]
          /\ UNCHANGED <<bill, lastBill, owed, credit, spared, raced>>
      BY <1>3 DEF TakeNumber
    <2> HIDE DEF j
    <2> QED
      BY <2>2, <2>3, AccountsStay
  <1> QED
    BY <1>1, <1>2, <1>3
-----------------------------------------------------------------------------
\* What is not taken off because it would go below zero is spared.
LEMMA FloorSpares ==
    ASSUME NEW o \in Int, NEW n \in Int
    PROVE  /\ Floor(o - n) \in Nat /\ Floor(n - o) \in Nat
           /\ Floor(o - n) = (o - n) + Floor(n - o)
           /\ n <= o => Floor(o - n) = o - n
  BY DEF Floor

LEMMA BillsListed == ASSUME ClientsInv PROVE Listed(bill, lastBill)
  BY DEF ClientsInv, BillsTyped, Listed

LEMMA CommitBillAccounts ==
    ASSUME ClientsInv, AccountsInv, NEW w \in Desk, CommitBill(w)
    PROVE  AccountsInv'
  <1> DEFINE j == desk[w]
             g == j.file[j.at]
             n == lastBill + 1
             done == GroupDone(j)
             d == [buyer |-> g.buyer, date |-> g.date, type |-> g.type, book |-> j.book,
                   total |-> Total, paid |-> IF g.type = "cash" THEN Total ELSE 0]
  <1>1. /\ lastBill' = n
        /\ bill' = [i \in DOMAIN bill \cup {n} |-> IF i = n THEN d ELSE bill[i]]
        /\ IF g.type = "cash"
           THEN UNCHANGED <<owed, raced>>
           ELSE /\ owed' = [owed EXCEPT ![g.buyer] = j.owed + Total]
                /\ raced' = raced \cup Outrun(g.buyer, j.owed)
        /\ desk' = [desk EXCEPT ![w] = done] /\ UNCHANGED <<credit, spared>>
    BY DEF CommitBill
  <1>2. /\ j.file \in Seq([buyer : Buyer, date : Int, type : PaymentType])
        /\ j.at \in 1..Len(j.file) /\ j.book \in Nat
    BY ClientImportsConstants DEF CommitBill, ClientsInv, JobFits
  <1>3. g \in [buyer : Buyer, date : Int, type : PaymentType]
    BY <1>2, ItemOfSeq
  <1>4. d \in Bill /\ d.buyer = g.buyer /\ Total \in Nat /\ d.total = Total
        /\ d.type = g.type /\ d.paid = (IF g.type = "cash" THEN Total ELSE 0)
    BY <1>2, <1>3, ClientImportsConstants DEF Bill
  <1>5. Unpaid(d) = IF g.type = "cash" THEN 0 ELSE Total
    BY <1>4 DEF Unpaid
  <1>6. done.kind = "import"
    BY DEF GroupDone
  <1>7. j.owed \in Nat /\ g.buyer \in Buyer
    BY <1>3 DEF CommitBill, AccountsInv, ReadingFits
  <1> PICK b, e, a, o, q : b = g.buyer /\ e = d /\ a = done /\ o = j.owed /\ q = g.type
    OBVIOUS
  <1>8. /\ lastBill' = n
        /\ bill' = [i \in DOMAIN bill \cup {n} |-> IF i = n THEN e ELSE bill[i]]
        /\ IF q = "cash"
           THEN UNCHANGED <<owed, raced>>
           ELSE /\ owed' = [owed EXCEPT ![b] = o + Total]
                /\ raced' = raced \cup Outrun(b, o)
        /\ desk' = [desk EXCEPT ![w] = a] /\ credit' = credit /\ spared' = spared
    BY <1>1
  <1>9. /\ e \in Bill /\ e.buyer = b /\ Total \in Nat /\ e.total = Total
        /\ e.type = q /\ e.paid = (IF q = "cash" THEN Total ELSE 0)
        /\ Unpaid(e) = (IF q = "cash" THEN 0 ELSE Total)
        /\ o \in Nat /\ b \in Buyer
    BY <1>4, <1>5, <1>7
  <1>19. ReadingFits(a)'
    BY <1>6 DEF ReadingFits
  <1>10. /\ lastBill \in Nat /\ n \notin DOMAIN bill /\ n \notin 1..lastBill /\ n \in Nat
         /\ 1..lastBill \subseteq 1..n /\ n \in 1..n
    BY DEF ClientsInv, BillsTyped
  <1>11. Listed(bill, lastBill)
    BY BillsListed
  <1> HIDE DEF d, g, done, n, j
  <1>12. /\ DOMAIN bill' = DOMAIN bill \cup {n} /\ bill'[n] = e
         /\ \A i \in DOMAIN bill : bill'[i] = bill[i]
    BY <1>8, <1>10
  <1>13. Listed(bill', n)
    <2>1. DOMAIN bill' \subseteq 1..n
      BY <1>10, <1>11, <1>12 DEF Listed
    <2>2. bill' = [i \in DOMAIN bill' |-> bill'[i]]
      BY <1>8
    <2>3. \A i \in DOMAIN bill' : bill'[i] \in Bill
      BY <1>9, <1>11, <1>12 DEF Listed
    <2> QED
      BY <1>10, <2>1, <2>2, <2>3 DEF Listed
  <1>14. ASSUME NEW c
         PROVE  GivenUp(bill', c) = GivenUp(bill, c)
                  + (IF c = b THEN IF q = "cash" THEN 0 ELSE Total ELSE 0)
    <2>1. GivenUp(bill, c) \in Int
      BY <1>11, DueTyped
    <2>2. \A i \in DOMAIN bill \ {n} : bill'[i] = bill[i]
      BY <1>12
    <2>3. GivenUp(bill', c) = GivenUp(bill, c)
             - (IF n \in BillsOf(bill, c) THEN Unpaid(bill[n]) ELSE 0)
             + (IF n \in BillsOf(bill', c) THEN Unpaid(bill'[n]) ELSE 0)
      BY ONLY <1>11, <1>12, <1>13, <2>2, OneBillChanges
    <2>4. n \notin BillsOf(bill, c) /\ (n \in BillsOf(bill', c) <=> c = b)
      BY <1>9, <1>10, <1>12 DEF BillsOf
    <2>5. Unpaid(bill'[n]) = IF q = "cash" THEN 0 ELSE Total
      BY <1>9, <1>12
    <2> QED
      BY ONLY <1>9, <2>1, <2>3, <2>4, <2>5
  <1>15. CashIsPaid'
    BY <1>9, <1>12 DEF AccountsInv, CashIsPaid
  <1>16. AccountsTyped'
    BY <1>8, <1>9 DEF AccountsInv, AccountsTyped
  <1>17. (\A v \in Desk : ReadingFits(desk[v]))'
    <2>1. \A v \in Desk : ReadingFits(desk[v])
      BY DEF AccountsInv
    <2>2. lastBill' \in Nat /\ lastBill <= lastBill'
      BY <1>8, <1>10 DEF n
    <2>3. \A i \in DOMAIN bill' \cap (1..lastBill) :
             i \in DOMAIN bill /\ bill'[i].buyer = bill[i].buyer /\ bill'[i].type = bill[i].type
      BY <1>10, <1>12
    <2> QED
      BY ONLY ClientsInv, <1>8, <1>19, <2>1, <2>2, <2>3, ReadingsStay
  <1>18. OwedIsUnpaid'
    <2> SUFFICES ASSUME NEW c \in Buyer \ raced'
                 PROVE  owed'[c] = (GivenUp(bill', c) - credit'[c]) + spared'[c]
      BY DEF OwedIsUnpaid
    <2>1. /\ c \in Buyer /\ c \notin raced /\ (c = b /\ q # "cash" => owed[c] = o)
      BY <1>8 DEF Outrun
    <2>2. owed[c] = (GivenUp(bill, c) - credit[c]) + spared[c]
      BY <2>1 DEF AccountsInv, OwedIsUnpaid
    <2>3. owed'[c] = IF c = b /\ q # "cash" THEN owed[c] + Total ELSE owed[c]
      BY <1>8, <1>9, <2>1 DEF AccountsInv, AccountsTyped
    <2>4. owed[c] \in Int /\ credit[c] \in Int /\ spared[c] \in Int /\ GivenUp(bill, c) \in Int
      BY <1>11, <2>1, DueTyped DEF AccountsInv, AccountsTyped
    <2>5. GivenUp(bill', c) = GivenUp(bill, c)
                  + (IF c = b THEN IF q = "cash" THEN 0 ELSE Total ELSE 0)
      BY <1>14
    <2> QED
      BY ONLY <1>8, <1>9, <2>2, <2>3, <2>4, <2>5
  <1> QED
    BY <1>15, <1>16, <1>17, <1>18 DEF AccountsInv

LEMMA CommitPaymentAccounts ==
    ASSUME ClientsInv, AccountsInv, NEW w \in Desk, CommitPayment(w)
    PROVE  AccountsInv'
  <1> PICK j : j = desk[w]
    OBVIOUS
  <1> PICK k, n, b, o, p : k = j.bill /\ n = j.amount /\ b = j.buyer /\ o = j.owed /\ p = j.paid
    OBVIOUS
  <1>1. /\ k \in DOMAIN bill
        /\ bill' = [bill EXCEPT ![k].paid = p + n]
        /\ owed' = [owed EXCEPT ![b] = Floor(o - n)]
        /\ spared' = [spared EXCEPT ![b] = @ + Floor(n - o)]
        /\ raced' = raced \cup Outrun(b, o) \cup (IF bill[k].paid # p THEN {b} ELSE {})
        /\ desk' = [desk EXCEPT ![w] = Vacant]
        /\ lastBill' = lastBill /\ credit' = credit
    BY DEF CommitPayment, PaidNow, Leave
  <1>2. PaymentFits(j) /\ ReadingFits(j) /\ j.kind = "pay"
    BY DEF CommitPayment, ClientsInv, JobFits, AccountsInv
  <1>3. /\ p \in Nat /\ n \in Nat /\ o \in Nat /\ b \in Buyer
        /\ bill[k].buyer = b /\ bill[k].type # "cash"
    BY <1>1, <1>2 DEF PaymentFits, ReadingFits
  <1>4. Listed(bill, lastBill)
    BY BillsListed
  <1>5. bill[k] \in Bill /\ bill[k].total \in Nat /\ bill[k].paid \in Nat
    BY <1>1, <1>4 DEF Listed, Bill
  <1>6. /\ DOMAIN bill' = DOMAIN bill /\ bill' = [i \in DOMAIN bill' |-> bill'[i]]
        /\ bill'[k] = [bill[k] EXCEPT !.paid = p + n]
        /\ \A i \in DOMAIN bill : i # k => bill'[i] = bill[i]
    BY <1>1, <1>4 DEF Listed
  <1>7. /\ bill'[k] \in Bill /\ bill'[k].buyer = b /\ bill'[k].type = bill[k].type
        /\ bill'[k].paid = p + n /\ bill'[k].total = bill[k].total
    BY <1>3, <1>5, <1>6 DEF Bill
  <1>8. Listed(bill', lastBill)
    <2>1. \A i \in DOMAIN bill' : bill'[i] \in Bill
      BY <1>4, <1>6, <1>7 DEF Listed
    <2> QED
      BY <1>4, <1>6, <2>1 DEF Listed
  <1>9. ASSUME NEW c
        PROVE  GivenUp(bill', c) = GivenUp(bill, c)
                  - (IF c = b THEN (p + n) - bill[k].paid ELSE 0)
    <2>1. GivenUp(bill, c) \in Int
      BY <1>4, DueTyped
    <2>2. k \in DOMAIN bill' /\ DOMAIN bill' = DOMAIN bill \cup {k}
          /\ \A i \in DOMAIN bill \ {k} : bill'[i] = bill[i]
      BY <1>1, <1>6
    <2>3. GivenUp(bill', c) = GivenUp(bill, c)
             - (IF k \in BillsOf(bill, c) THEN Unpaid(bill[k]) ELSE 0)
             + (IF k \in BillsOf(bill', c) THEN Unpaid(bill'[k]) ELSE 0)
      BY ONLY <1>4, <1>8, <2>2, OneBillChanges
    <2>4. (k \in BillsOf(bill, c) <=> c = b) /\ (k \in BillsOf(bill', c) <=> c = b)
      BY <1>1, <1>3, <1>6, <1>7 DEF BillsOf
    <2>5. /\ Unpaid(bill[k]) = bill[k].total - bill[k].paid
          /\ Unpaid(bill'[k]) = bill[k].total - (p + n)
      BY <1>3, <1>7 DEF Unpaid
    <2> QED
      BY ONLY <1>3, <1>5, <2>1, <2>3, <2>4, <2>5
  <1>10. CashIsPaid'
    BY <1>3, <1>6, <1>7, ZenonT(60) DEF AccountsInv, CashIsPaid
  <1>11. Floor(o - n) \in Nat /\ Floor(n - o) \in Nat /\ Floor(o - n) = (o - n) + Floor(n - o)
    BY <1>3, FloorSpares
  <1>12. AccountsTyped'
    BY <1>1, <1>3, <1>11 DEF AccountsInv, AccountsTyped
  <1>13. (\A v \in Desk : ReadingFits(desk[v]))'
    <2>1. \A v \in Desk : ReadingFits(desk[v])
      BY DEF AccountsInv
    <2>2. lastBill' \in Nat /\ lastBill <= lastBill'
      BY <1>1, <1>4 DEF Listed
    <2>3. \A i \in DOMAIN bill' \cap (1..lastBill) :
             i \in DOMAIN bill /\ bill'[i].buyer = bill[i].buyer /\ bill'[i].type = bill[i].type
      BY <1>3, <1>6, <1>7
    <2> QED
      BY <1>1, <2>1, <2>2, <2>3, VacantReads, ReadingsStay
  <1>14. OwedIsUnpaid'
    <2> SUFFICES ASSUME NEW c \in Buyer \ raced'
                 PROVE  owed'[c] = (GivenUp(bill', c) - credit'[c]) + spared'[c]
      BY DEF OwedIsUnpaid
    <2>1. c \in Buyer /\ c \notin raced /\ (c = b => owed[c] = o /\ bill[k].paid = p)
      BY <1>1 DEF Outrun
    <2>2. owed[c] = (GivenUp(bill, c) - credit[c]) + spared[c]
      BY <2>1 DEF AccountsInv, OwedIsUnpaid
    <2>3. /\ owed'[c] = (IF c = b THEN Floor(o - n) ELSE owed[c])
          /\ spared'[c] = (IF c = b THEN spared[c] + Floor(n - o) ELSE spared[c])
          /\ credit'[c] = credit[c]
      BY <1>1, <2>1 DEF AccountsInv, AccountsTyped
    <2>4. owed[c] \in Int /\ credit[c] \in Int /\ spared[c] \in Int /\ GivenUp(bill, c) \in Int
      BY <1>4, <2>1, DueTyped DEF AccountsInv, AccountsTyped
    <2>5. GivenUp(bill', c) = GivenUp(bill, c) - (IF c = b THEN n ELSE 0)
      <3>1. GivenUp(bill', c) = GivenUp(bill, c)
                  - (IF c = b THEN (p + n) - bill[k].paid ELSE 0)
        BY <1>9
      <3> QED
        BY ONLY <1>3, <2>1, <3>1
    <2> QED
      BY ONLY <1>3, <1>11, <2>1, <2>2, <2>3, <2>4, <2>5
  <1> QED
    BY <1>10, <1>12, <1>13, <1>14 DEF AccountsInv

LEMMA CommitCreditAccounts ==
    ASSUME ClientsInv, AccountsInv, NEW w \in Desk, CommitCredit(w)
    PROVE  AccountsInv'
  <1> PICK j : j = desk[w]
    OBVIOUS
  <1> PICK n, b, o : n = j.amount /\ b = j.buyer /\ o = j.owed
    OBVIOUS
  <1>1. /\ credit' = [credit EXCEPT ![b] = @ + n]
        /\ owed' = [owed EXCEPT ![b] = Floor(o - n)]
        /\ raced' = raced \cup Outrun(b, o)
        /\ desk' = [desk EXCEPT ![w] = Vacant]
        /\ UNCHANGED <<bill, lastBill, spared>>
    BY DEF CommitCredit, Credited, Leave
  <1>2. ReadingFits(j) /\ j.kind = "refund"
    BY DEF CommitCredit, AccountsInv
  <1>3. n \in Nat /\ o \in Nat /\ b \in Buyer /\ n <= o
    BY <1>2 DEF ReadingFits
  <1>4. Floor(o - n) \in Nat /\ Floor(o - n) = o - n
    BY <1>3 DEF Floor
  <1>5. AccountsTyped' /\ CashIsPaid'
    BY <1>1, <1>3, <1>4 DEF AccountsInv, AccountsTyped, CashIsPaid
  <1>6. (\A v \in Desk : ReadingFits(desk[v]))'
    <2>1. \A v \in Desk : ReadingFits(desk[v])
      BY DEF AccountsInv
    <2>2. lastBill' \in Nat /\ lastBill <= lastBill'
      BY <1>1 DEF ClientsInv, BillsTyped
    <2> QED
      BY <1>1, <2>1, <2>2, VacantReads, ReadingsStay
  <1>7. OwedIsUnpaid'
    <2> SUFFICES ASSUME NEW c \in Buyer \ raced'
                 PROVE  owed'[c] = (GivenUp(bill', c) - credit'[c]) + spared'[c]
      BY DEF OwedIsUnpaid
    <2>1. c \in Buyer /\ c \notin raced /\ (c = b => owed[c] = o)
      BY <1>1 DEF Outrun
    <2>2. owed[c] = (GivenUp(bill, c) - credit[c]) + spared[c]
      BY <2>1 DEF AccountsInv, OwedIsUnpaid
    <2>3. /\ owed'[c] = (IF c = b THEN o - n ELSE owed[c])
          /\ credit'[c] = (IF c = b THEN credit[c] + n ELSE credit[c])
          /\ spared'[c] = spared[c] /\ bill' = bill
      BY <1>1, <1>4, <2>1 DEF AccountsInv, AccountsTyped
    <2>4. owed[c] \in Int /\ credit[c] \in Int /\ spared[c] \in Int /\ GivenUp(bill, c) \in Int
      BY <2>1, BillsListed, DueTyped DEF AccountsInv, AccountsTyped
    <2> QED
      BY ONLY <1>3, <2>1, <2>2, <2>3, <2>4
  <1> QED
    BY <1>5, <1>6, <1>7 DEF AccountsInv

LEMMA CommitRevertAccounts ==
    ASSUME ClientsInv, AccountsInv, NEW w \in Desk, CommitRevert(w)
    PROVE  AccountsInv'
  <1> PICK j : j = desk[w]
    OBVIOUS
  <1> PICK rows, o : rows = j.rows /\ o = j.owed
    OBVIOUS
  <1> PICK hit : hit = Concerned(rows)
    OBVIOUS
  <1> PICK gone : gone = {i \in DOMAIN rows : i \notin DOMAIN bill \/ bill[i] # rows[i]}
    OBVIOUS
  <1>1. /\ bill' = [i \in DOMAIN bill \ DOMAIN rows |-> bill[i]]
        /\ owed' = [c \in Buyer |-> IF c \in hit THEN Floor(o[c] - GivenUp(rows, c)) ELSE owed[c]]
        /\ spared' = [c \in Buyer |->
                        spared[c] + (IF c \in hit THEN Floor(GivenUp(rows, c) - o[c]) ELSE 0)]
        /\ raced \subseteq raced' /\ \A c \in hit : Outrun(c, o[c]) \subseteq raced'
        /\ \A i \in gone : rows[i].buyer \in raced'
        /\ desk' = [desk EXCEPT ![w] = Vacant]
        /\ lastBill' = lastBill /\ credit' = credit
    <2>1. bill' = Restrict(bill, DOMAIN bill \ DOMAIN rows)
      BY DEF CommitRevert
    <2>2. bill' = [i \in DOMAIN bill \ DOMAIN rows |-> bill[i]]
      BY <2>1 DEF Restrict
    <2> DEFINE U == UNION {Outrun(c, desk[w].owed[c]) : c \in Concerned(desk[w].rows)}
               B == {desk[w].rows[i].buyer : i \in {k \in DOMAIN desk[w].rows :
                                       k \notin DOMAIN bill \/ bill[k] # desk[w].rows[k]}}
    <2>3. raced' = raced \cup U \cup B
      BY DEF CommitRevert
    <2>7. ASSUME NEW c \in Concerned(desk[w].rows) PROVE Outrun(c, desk[w].owed[c]) \subseteq U
      OBVIOUS
    <2>8. ASSUME NEW i \in DOMAIN desk[w].rows, i \notin DOMAIN bill \/ bill[i] # desk[w].rows[i]
          PROVE  desk[w].rows[i].buyer \in B
      BY <2>8
    <2> HIDE DEF U, B
    <2>4. raced \subseteq raced'
      BY ONLY <2>3
    <2>5. ASSUME NEW c \in hit PROVE Outrun(c, o[c]) \subseteq raced'
      <3>1. Outrun(c, desk[w].owed[c]) \subseteq U
        BY <2>7
      <3> QED
        BY <2>3, <3>1
    <2>6. ASSUME NEW i \in gone PROVE rows[i].buyer \in raced'
      <3>1. desk[w].rows[i].buyer \in B
        BY <2>8
      <3> QED
        BY <2>3, <3>1
    <2> QED
      BY <2>2, <2>4, <2>5, <2>6 DEF CommitRevert, Leave
  <1>2. ReadingFits(j) /\ j.kind = "revert"
    BY DEF CommitRevert, AccountsInv
  <1>3. /\ o \in [Buyer -> Nat] /\ rows \in [DOMAIN rows -> Bill] /\ DOMAIN rows \subseteq 1..lastBill
        /\ \A i \in DOMAIN bill \cap DOMAIN rows : bill[i].buyer = rows[i].buyer
    BY <1>2 DEF ReadingFits
  <1>4. Listed(bill, lastBill)
    BY BillsListed
  <1>5. Listed(rows, lastBill)
    BY <1>3, <1>4 DEF Listed
  <1>6. DOMAIN bill' \subseteq DOMAIN bill /\ \A i \in DOMAIN bill' : bill'[i] = bill[i]
    BY <1>1
  <1>7. \A c \in Buyer : GivenUp(rows, c) \in Int
    BY <1>5, DueTyped
  <1>8. ASSUME NEW c \in Buyer
        PROVE  /\ Floor(o[c] - GivenUp(rows, c)) \in Nat /\ Floor(GivenUp(rows, c) - o[c]) \in Nat
               /\ Floor(o[c] - GivenUp(rows, c))
                    = (o[c] - GivenUp(rows, c)) + Floor(GivenUp(rows, c) - o[c])
    <2>1. o[c] \in Int /\ GivenUp(rows, c) \in Int
      BY <1>3, <1>7
    <2> QED
      BY <2>1, FloorSpares
  <1>9. CashIsPaid'
    BY <1>6 DEF AccountsInv, CashIsPaid
  <1>10. AccountsTyped'
    BY <1>1, <1>8 DEF AccountsInv, AccountsTyped
  <1>11. (\A v \in Desk : ReadingFits(desk[v]))'
    <2>1. \A v \in Desk : ReadingFits(desk[v])
      BY DEF AccountsInv
    <2>2. lastBill' \in Nat /\ lastBill <= lastBill'
      BY <1>1, <1>4 DEF Listed
    <2>3. \A i \in DOMAIN bill' \cap (1..lastBill) :
             i \in DOMAIN bill /\ bill'[i].buyer = bill[i].buyer /\ bill'[i].type = bill[i].type
      BY <1>6
    <2>4. desk' = [desk EXCEPT ![w] = Vacant]
      BY <1>1
    <2> QED
      BY ONLY ClientsInv, <2>1, <2>2, <2>3, <2>4, VacantReads, ReadingsStay
  <1>12. OwedIsUnpaid'
    <2> SUFFICES ASSUME NEW c \in Buyer \ raced'
                 PROVE  owed'[c] = (GivenUp(bill', c) - credit'[c]) + spared'[c]
      BY DEF OwedIsUnpaid
    <2>1. c \in Buyer /\ c \notin raced
      BY <1>1
    <2>2. c \in hit => owed[c] = o[c]
      <3>1. c \in hit => c \notin Outrun(c, o[c])
        BY <1>1
      <3> QED
        BY ONLY <3>1 DEF Outrun
    <2>3. owed[c] = (GivenUp(bill, c) - credit[c]) + spared[c]
      BY <2>1 DEF AccountsInv, OwedIsUnpaid
    <2>4. owed[c] \in Int /\ credit[c] \in Int /\ spared[c] \in Int /\ GivenUp(bill, c) \in Int
      BY <1>4, <2>1, DueTyped DEF AccountsInv, AccountsTyped
    <2>5. \A i \in BillsOf(rows, c) : i \in DOMAIN bill /\ bill[i] = rows[i]
      <3>1. \A i \in gone : rows[i].buyer # c
        BY <1>1
      <3> QED
        BY <3>1 DEF BillsOf
    <2>11. bill' = [i \in DOMAIN bill \ DOMAIN rows |-> bill[i]]
      BY <1>1
    <2>6. GivenUp(bill', c) = GivenUp(bill, c) - GivenUp(rows, c)
      BY ONLY <2>11, <1>3, <1>4, <1>5, <2>5, BillsTakenOut
    <2>7. c \notin hit => GivenUp(rows, c) = 0
      <3> SUFFICES ASSUME c \notin hit PROVE GivenUp(rows, c) = 0
        OBVIOUS
      <3>1. \A i \in BillsOf(rows, c) : Due(rows, c)[i] = 0
        BY <2>1 DEF Concerned, Due, BillsOf, Unpaid
      <3>2. /\ IsFiniteSet(BillsOf(rows, c))
            /\ GivenUp(rows, c) = SumFunctionOnSet(Due(rows, c), BillsOf(rows, c))
        BY <1>5, DueTyped
      <3> QED
        BY ONLY <3>1, <3>2, SumZero
    <2>8. /\ owed'[c] = (IF c \in hit THEN Floor(o[c] - GivenUp(rows, c)) ELSE owed[c])
          /\ spared'[c] = spared[c] + (IF c \in hit THEN Floor(GivenUp(rows, c) - o[c]) ELSE 0)
          /\ credit'[c] = credit[c]
      BY <1>1, <2>1
    <2>9. /\ Floor(GivenUp(rows, c) - o[c]) \in Nat
          /\ Floor(o[c] - GivenUp(rows, c))
                    = (o[c] - GivenUp(rows, c)) + Floor(GivenUp(rows, c) - o[c])
          /\ GivenUp(rows, c) \in Int
      BY <1>7, <1>8, <2>1
    <2> QED
      BY ONLY <2>2, <2>3, <2>4, <2>6, <2>7, <2>8, <2>9
  <1> QED
    BY <1>9, <1>10, <1>11, <1>12 DEF AccountsInv

LEMMA AccountsInvInit == ClientsInit => AccountsInv
  <1> SUFFICES ASSUME ClientsInit PROVE AccountsInv
    OBVIOUS
  <1>1. AccountsTyped /\ CashIsPaid
    BY DEF ClientsInit, AccountsTyped, CashIsPaid
  <1>2. \A w \in Desk : ReadingFits(desk[w])
    BY VacantReads DEF ClientsInit
  <1>3. ASSUME NEW c \in Buyer PROVE GivenUp(bill, c) = 0
    <2>1. DOMAIN bill = {}
      BY DEF ClientsInit
    <2>2. BillsOf(bill, c) = {}
      BY <2>1 DEF BillsOf
    <2>3. DOMAIN Due(bill, c) = {}
      BY <2>2 DEF Due
    <2> QED
      BY <2>3, SumEmpty, GivenUpIsDue DEF SumFunction
  <1>4. OwedIsUnpaid
    BY <1>3 DEF ClientsInit, OwedIsUnpaid
  <1> QED
    BY <1>1, <1>2, <1>4 DEF AccountsInv

LEMMA AccountsInvStep == ClientsInv /\ AccountsInv /\ [ClientsNext]_clientsVars => AccountsInv'
  <1> SUFFICES ASSUME ClientsInv, AccountsInv, [ClientsNext]_clientsVars PROVE AccountsInv'
    OBVIOUS
  <1>1. CASE ClientsNext
    BY <1>1, StartBookAccounts, ReadGroupAccounts, CommitBillAccounts, ReadBillAccounts,
       CommitPaymentAccounts, ReadBuyerAccounts, CommitCreditAccounts, ReadBatchAccounts,
       CommitRevertAccounts, OtherAccounts DEF ClientsNext
  <1>2. CASE UNCHANGED clientsVars
    <2>1. AccountsTyped' /\ CashIsPaid' /\ OwedIsUnpaid'
      BY <1>2 DEF clientsVars, AccountsInv, AccountsTyped, CashIsPaid, OwedIsUnpaid, GivenUp, Unpaid
    <2>2. (\A w \in Desk : ReadingFits(desk[w]))'
      BY <1>2 DEF clientsVars, AccountsInv, ReadingFits
    <2> QED
      BY <2>1, <2>2 DEF AccountsInv
  <1> QED
    BY <1>1, <1>2

\* What a client owes is what the live invoices leave unpaid less the refunds, but for
\* what was spared, unless a commit overwrote the client from an old reading
\* (b2b.py:684, 926, b2b_sales_import_service.py:800, import_data.py:690-703).
THEOREM AccountsShowWhatIsOwed == ClientsSpec => []OwedIsUnpaid
  <1>1. ClientsSpec => []AccountsInv
    BY AccountsInvInit, AccountsInvStep, ClientsInvHolds, PTL DEF ClientsSpec
  <1> QED
    BY <1>1, PTL DEF AccountsInv
-----------------------------------------------------------------------------
\* Every request's file, and the number of every refund in flight, is one of those
\* handed out.
NumbersFit(j) ==
    /\ j.kind \in {"import", "group"} => j.book \in 1..books
    /\ j.kind = "refund" => j.number \in 1..MaxCredit

NumbersInv ==
    /\ ClientsTypeOK
    /\ \A w \in Desk : NumbersFit(desk[w])

LEMMA NumbersInvInit == ClientsInit => NumbersInv
  BY ClientImportsConstants DEF ClientsInit, NumbersInv, ClientsTypeOK, NumbersFit, Vacant

\* A request moves on, and clients and invoices stay.
LEMMA NumbersStay ==
    ASSUME ClientsInv, AccountsInv', NumbersInv, NEW w \in Desk, NEW j, NumbersFit(j),
           desk' = [desk EXCEPT ![w] = j],
           UNCHANGED <<buyer, bill, lastBill, lastCredit, books>>
    PROVE  NumbersInv'
  <1>1. \A v \in Desk : desk'[v] = IF v = w THEN j ELSE desk[v]
    BY DEF ClientsInv
  <1>2. \A v \in Desk : NumbersFit(desk[v])'
    BY <1>1 DEF NumbersInv, NumbersFit
  <1>3. ClientsTypeOK'
    BY DEF NumbersInv, ClientsTypeOK, AccountsInv, AccountsTyped
  <1> QED
    BY <1>2, <1>3 DEF NumbersInv

\* A commit ends the request, or takes it to the next group, and the numbers handed
\* out only grow.
LEMMA NumbersCommit ==
    ASSUME ClientsInv, NumbersInv, NEW w \in Desk, NEW j, NumbersFit(j),
           desk' = [desk EXCEPT ![w] = j], books' = books, ClientsTypeOK'
    PROVE  NumbersInv'
  <1>1. \A v \in Desk : desk'[v] = IF v = w THEN j ELSE desk[v]
    BY DEF ClientsInv
  <1>2. \A v \in Desk : NumbersFit(desk[v])'
    BY <1>1 DEF NumbersInv, NumbersFit
  <1> QED
    BY <1>2 DEF NumbersInv

LEMMA VacantNumbers == NumbersFit(Vacant)
  BY DEF NumbersFit, Vacant

LEMMA NumbersRead ==
    ASSUME ClientsInv, AccountsInv', NumbersInv, NEW w \in Desk,
           \/ ReadGroup(w) \/ FailBill(w) \/ EndBook(w) \/ TakeNumber(w) \/ GiveUp(w)
           \/ \E i \in DOMAIN bill, n \in Instalment : ReadBill(w, i, n)
           \/ \E c \in Buyer, n \in Instalment : ReadBuyer(w, c, n)
           \/ \E b \in 1..MaxBook : ReadBatch(w, b)
    PROVE  NumbersInv'
  <1>1. NumbersFit(desk[w]) /\ JobFits(desk[w])
    BY DEF NumbersInv, ClientsInv
  <1>2. CASE ReadGroup(w)
    <2> DEFINE old == desk[w]
               skip == [old EXCEPT !.at = @ + 1]
               go == [kind |-> "group", book |-> old.book, file |-> old.file, at |-> old.at,
                      owed |-> owed[old.file[old.at].buyer]]
    <2>1. old.kind = "import" /\ old.book \in 1..books
      BY <1>1, <1>2 DEF ReadGroup, NumbersFit
    <2>2. old \in [kind : {"import"}, book : Nat, file : Workbook, at : Nat \ {0}]
      BY <1>1, <2>1 DEF JobFits
    <2>3. NumbersFit(skip) /\ NumbersFit(go)
      BY <2>1, <2>2 DEF NumbersFit
    <2>4. \/ desk' = [desk EXCEPT ![w] = skip]
          \/ desk' = [desk EXCEPT ![w] = go]
      BY <1>2 DEF ReadGroup
    <2>5. UNCHANGED <<buyer, bill, lastBill, lastCredit, books>>
      BY <1>2 DEF ReadGroup
    <2> HIDE DEF skip, go
    <2> QED
      BY <2>3, <2>4, <2>5, NumbersStay
  <1>3. CASE FailBill(w)
    <2>1. NumbersFit(GroupDone(desk[w]))
      BY <1>1, <1>3 DEF FailBill, NumbersFit, GroupDone
    <2> QED
      BY <1>3, <2>1, NumbersStay DEF FailBill
  <1>4. CASE EndBook(w) \/ GiveUp(w)
    BY <1>4, VacantNumbers, NumbersStay DEF EndBook, GiveUp, Leave
  <1>5. CASE TakeNumber(w)
    <2> DEFINE j == [kind |-> "refund", buyer |-> desk[w].buyer, amount |-> desk[w].amount,
                     owed |-> desk[w].owed, number |-> lastCredit + 1]
    <2>1. NumbersFit(j)
      BY <1>5, ClientImportsConstants DEF TakeNumber, NumbersFit, NumbersInv, ClientsTypeOK
    <2>2. desk' = [desk EXCEPT ![w] = j] /\ UNCHANGED <<buyer, bill, lastBill, lastCredit, books>>
      BY <1>5 DEF TakeNumber
    <2> HIDE DEF j
    <2> QED
      BY <2>1, <2>2, NumbersStay
  <1>6. ASSUME NEW i \in DOMAIN bill, NEW n \in Instalment, ReadBill(w, i, n) PROVE NumbersInv'
    <2> DEFINE j == [kind |-> "pay", bill |-> i, amount |-> n, buyer |-> bill[i].buyer,
                     paid |-> bill[i].paid, owed |-> owed[bill[i].buyer]]
    <2>1. NumbersFit(j)
      BY DEF NumbersFit
    <2>2. desk' = [desk EXCEPT ![w] = j] /\ UNCHANGED <<buyer, bill, lastBill, lastCredit, books>>
      BY <1>6 DEF ReadBill
    <2> HIDE DEF j
    <2> QED
      BY <2>1, <2>2, NumbersStay
  <1>7. ASSUME NEW c \in Buyer, NEW n \in Instalment, ReadBuyer(w, c, n) PROVE NumbersInv'
    <2> DEFINE j == [kind |-> "client", buyer |-> c, amount |-> n, owed |-> owed[c]]
    <2>1. NumbersFit(j)
      BY DEF NumbersFit
    <2>2. desk' = [desk EXCEPT ![w] = j] /\ UNCHANGED <<buyer, bill, lastBill, lastCredit, books>>
      BY <1>7 DEF ReadBuyer
    <2> HIDE DEF j
    <2> QED
      BY <2>1, <2>2, NumbersStay
  <1>8. ASSUME NEW b \in 1..MaxBook, ReadBatch(w, b) PROVE NumbersInv'
    <2> DEFINE j == [kind |-> "revert", owed |-> owed,
                     rows |-> Restrict(bill, {i \in DOMAIN bill : bill[i].book = b})]
    <2>1. NumbersFit(j)
      BY DEF NumbersFit
    <2>2. desk' = [desk EXCEPT ![w] = j] /\ UNCHANGED <<buyer, bill, lastBill, lastCredit, books>>
      BY <1>8 DEF ReadBatch
    <2> HIDE DEF j
    <2> QED
      BY <2>1, <2>2, NumbersStay
  <1> QED
    BY <1>2, <1>3, <1>4, <1>5, <1>6, <1>7, <1>8

LEMMA NumbersStart ==
    ASSUME ClientsInv, AccountsInv', NumbersInv, NEW w \in Desk, NEW f \in Workbook,
           StartBook(w, f)
    PROVE  NumbersInv'
  <1> DEFINE j == [kind |-> "import", book |-> books + 1, file |-> f, at |-> 1]
  <1>1. books \in 0..MaxBook /\ books' = books + 1 /\ books < MaxBook /\ MaxBook \in Nat
    BY ClientImportsConstants DEF StartBook, NumbersInv, ClientsTypeOK
  <1>2. desk' = [desk EXCEPT ![w] = j] /\ UNCHANGED <<buyer, bill, lastBill, lastCredit>>
    BY DEF StartBook
  <1>3. books' \in 0..MaxBook /\ 1..books \subseteq 1..books' /\ books + 1 \in 1..books'
    BY <1>1
  <1>4. j.kind = "import" /\ j.book = books + 1
    OBVIOUS
  <1> HIDE DEF j
  <1>5. \A v \in Desk : desk'[v] = IF v = w THEN j ELSE desk[v]
    BY <1>2 DEF ClientsInv
  <1>6. \A v \in Desk : NumbersFit(desk[v])'
    BY <1>3, <1>4, <1>5 DEF NumbersInv, NumbersFit
  <1>7. ClientsTypeOK'
    BY <1>2, <1>3 DEF NumbersInv, ClientsTypeOK, AccountsInv, AccountsTyped
  <1> QED
    BY <1>6, <1>7 DEF NumbersInv

LEMMA NumbersBill ==
    ASSUME ClientsInv, AccountsInv', NumbersInv, NEW w \in Desk, CommitBill(w)
    PROVE  NumbersInv'
  <1> DEFINE j == desk[w]
             g == j.file[j.at]
             d == [buyer |-> g.buyer, date |-> g.date, type |-> g.type, book |-> j.book,
                   total |-> Total, paid |-> IF g.type = "cash" THEN Total ELSE 0]
  <1>1. j.kind = "group" /\ j.book \in 1..books /\ j.file \in Workbook /\ j.at \in 1..Len(j.file)
    BY DEF CommitBill, NumbersInv, NumbersFit, ClientsInv, JobFits
  <1>2. g.buyer \in Buyer
    <2>1. j.file \in Seq([buyer : Buyer, date : Int, type : PaymentType])
      BY <1>1, ClientImportsConstants
    <2>2. j.file[j.at] \in [buyer : Buyer, date : Int, type : PaymentType]
      BY <1>1, <2>1, ItemOfSeq
    <2> QED
      BY <2>2
  <1>3. /\ buyer' = buyer \cup {g.buyer} /\ lastBill' = lastBill + 1 /\ lastBill < MaxBill
        /\ bill' = [i \in DOMAIN bill \cup {lastBill + 1} |-> IF i = lastBill + 1 THEN d ELSE bill[i]]
        /\ desk' = [desk EXCEPT ![w] = GroupDone(j)] /\ UNCHANGED <<lastCredit, books>>
    BY DEF CommitBill
  <1>4. d.buyer = g.buyer /\ d.book = j.book
    OBVIOUS
  <1>5. NumbersFit(GroupDone(j))
    BY <1>1 DEF NumbersFit, GroupDone
  <1> HIDE DEF d, g
  <1>6. lastBill \in 0..MaxBill /\ MaxBill \in Nat /\ DOMAIN bill \subseteq 1..lastBill
    BY ClientImportsConstants DEF NumbersInv, ClientsTypeOK
  <1>7. lastBill' \in 0..MaxBill /\ DOMAIN bill' \subseteq 1..lastBill'
    BY <1>3, <1>6
  <1>8. \A i \in DOMAIN bill' : bill'[i].buyer \in buyer' /\ bill'[i].book \in 1..books'
    BY <1>1, <1>3, <1>4 DEF NumbersInv, ClientsTypeOK
  <1>9. ClientsTypeOK'
    BY <1>2, <1>3, <1>7, <1>8 DEF NumbersInv, ClientsTypeOK, AccountsInv, AccountsTyped
  <1> QED
    BY <1>3, <1>5, <1>9, NumbersCommit

LEMMA NumbersPay ==
    ASSUME ClientsInv, AccountsInv', NumbersInv, NEW w \in Desk, CommitPayment(w)
    PROVE  NumbersInv'
  <1> DEFINE j == desk[w]
  <1>1. /\ bill' = [bill EXCEPT ![j.bill].paid = PaidNow(j)] /\ j.bill \in DOMAIN bill
        /\ desk' = [desk EXCEPT ![w] = Vacant] /\ UNCHANGED <<buyer, lastBill, lastCredit, books>>
    BY DEF CommitPayment, Leave
  <1>2. bill \in [DOMAIN bill -> Bill]
    BY DEF ClientsInv, BillsTyped
  <1>3. /\ DOMAIN bill' = DOMAIN bill
        /\ \A i \in DOMAIN bill : bill'[i].buyer = bill[i].buyer /\ bill'[i].book = bill[i].book
    BY <1>1, <1>2 DEF Bill
  <1>4. ClientsTypeOK'
    BY <1>1, <1>3 DEF NumbersInv, ClientsTypeOK, AccountsInv, AccountsTyped
  <1> QED
    BY <1>1, <1>4, VacantNumbers, NumbersCommit

LEMMA NumbersCredit ==
    ASSUME ClientsInv, AccountsInv', NumbersInv, NEW w \in Desk, CommitCredit(w)
    PROVE  NumbersInv'
  <1>1. /\ lastCredit' = desk[w].number /\ desk[w].kind = "refund"
        /\ desk' = [desk EXCEPT ![w] = Vacant] /\ UNCHANGED <<buyer, bill, lastBill, books>>
    BY DEF CommitCredit, Leave
  <1>2. lastCredit' \in 0..MaxCredit
    BY <1>1 DEF NumbersInv, NumbersFit
  <1>3. ClientsTypeOK'
    BY <1>1, <1>2 DEF NumbersInv, ClientsTypeOK, AccountsInv, AccountsTyped
  <1> QED
    BY <1>1, <1>3, VacantNumbers, NumbersCommit

LEMMA NumbersRevert ==
    ASSUME ClientsInv, AccountsInv', NumbersInv, NEW w \in Desk, CommitRevert(w)
    PROVE  NumbersInv'
  <1>1. /\ bill' = Restrict(bill, DOMAIN bill \ DOMAIN desk[w].rows)
        /\ desk' = [desk EXCEPT ![w] = Vacant]
        /\ UNCHANGED <<buyer, lastBill, lastCredit, books>>
    BY DEF CommitRevert, Leave
  <1>2. DOMAIN bill' \subseteq DOMAIN bill /\ \A i \in DOMAIN bill' : bill'[i] = bill[i]
    BY <1>1 DEF Restrict
  <1>3. ClientsTypeOK'
    BY <1>1, <1>2 DEF NumbersInv, ClientsTypeOK, AccountsInv, AccountsTyped
  <1> QED
    BY <1>1, <1>3, VacantNumbers, NumbersCommit

LEMMA NumbersInvStep ==
    ClientsInv /\ AccountsInv /\ NumbersInv /\ [ClientsNext]_clientsVars => NumbersInv'
  <1> SUFFICES ASSUME ClientsInv, AccountsInv, NumbersInv, [ClientsNext]_clientsVars
               PROVE  NumbersInv'
    OBVIOUS
  <1>1. AccountsInv'
    BY AccountsInvStep
  <1>2. CASE ClientsNext
    BY <1>1, <1>2, NumbersStart, NumbersRead, NumbersBill, NumbersPay, NumbersCredit,
       NumbersRevert DEF ClientsNext
  <1>3. CASE UNCHANGED clientsVars
    BY <1>3 DEF clientsVars, NumbersInv, ClientsTypeOK, NumbersFit
  <1> QED
    BY <1>2, <1>3

\* Clients, invoices, refunds and files are typed, nobody owes less than nothing, and
\* every invoice has its client and its file (b2b_sales_import_service.py, b2b.py).
THEOREM ClientsAreTyped == ClientsSpec => []ClientsTypeOK
  <1>1. ClientsInit => ClientsInv /\ AccountsInv /\ NumbersInv
    BY ClientsInvInit, AccountsInvInit, NumbersInvInit
  <1>2. ClientsInv /\ AccountsInv /\ NumbersInv /\ [ClientsNext]_clientsVars
          => (ClientsInv /\ AccountsInv /\ NumbersInv)'
    BY ClientsInvStep, AccountsInvStep, NumbersInvStep
  <1>3. NumbersInv => ClientsTypeOK
    BY DEF NumbersInv
  <1> QED
    BY <1>1, <1>2, <1>3, PTL DEF ClientsSpec
-----------------------------------------------------------------------------
\* The imports of past sales: a session's file is one of those imported, and it is at one of its groups;
\* an open group has its new products to itself.
NextFields == {"kind", "batch", "file", "at", "customer"}

ImportFits(j) ==
    /\ j.kind = "next" => NextFields \subseteq DOMAIN j
    /\ j.kind \in {"next", "open"} => j.file \in File /\ j.at \in Nat \ {0}
    /\ j.kind = "open" =>
         /\ j.at <= Len(j.file)
         /\ j.made \subseteq Group(j).skus
         /\ \A s \in j.made : j.product[s].by = j.batch

MadeApart ==
    \A w \in Importer : import[w].kind = "open" =>
        /\ import[w].made \cap DOMAIN goods = {}
        /\ \A v \in Importer \ {w} :
              import[v].kind = "open" => import[v].made \cap import[w].made = {}

\* What one batch alone uses is of its making.
OwnUnlessShared ==
    /\ \A x \in sale : x.customer[2] # x.batch => x.customer \in shared
    /\ \A x \in sale : \A s \in x.skus \ shared : s \in DOMAIN goods /\ goods[s].by = x.batch
    /\ \A s \in Sku \ shared : counter[s] = 0

ImportsInv ==
    /\ DOMAIN goods \subseteq Sku
    /\ \A s \in DOMAIN goods : DOMAIN goods[s] = {"by", "stock", "shelved"}
    /\ import = [w \in Importer |-> import[w]]
    /\ counter = [s \in Sku |-> counter[s]]
    /\ \A w \in Importer : ImportFits(import[w])
    /\ MadeApart /\ OwnUnlessShared /\ CreatedAreUsed

LEMMA ImportsInvInit == ImportsInit => ImportsInv
  BY ImportsConstants
  DEF ImportsInit, ImportsInv, ImportFits, MadeApart, OwnUnlessShared, CreatedAreUsed, Idle

LEMMA GroupType ==
    ASSUME NEW j, j.file \in File, j.at \in Nat \ {0}, j.at <= Len(j.file)
    PROVE  Group(j).name \in Name /\ Group(j).skus \subseteq Sku
  <1>1. j.file \in Seq([name : Name, date : Int, skus : SUBSET Sku])
    BY ImportsConstants
  <1>2. j.at \in 1..Len(j.file)
    BY <1>1
  <1>3. j.file[j.at] \in [name : Name, date : Int, skus : SUBSET Sku]
    BY <1>1, <1>2, ItemOfSeq
  <1> QED
    BY <1>3 DEF Group

\* A session moves and the tables stay.
LEMMA ImportMoves ==
    ASSUME ImportsInv, NEW w \in Importer, NEW j, ImportFits(j),
           import' = [import EXCEPT ![w] = j],
           UNCHANGED <<goods, customer, sale, counter, shared>>,
           j.kind = "open" =>
              /\ j.made \cap DOMAIN goods = {}
              /\ \A v \in Importer \ {w} :
                    import[v].kind = "open" => import[v].made \cap j.made = {}
    PROVE  ImportsInv'
  <1>1. \A v \in Importer : import'[v] = IF v = w THEN j ELSE import[v]
    BY DEF ImportsInv
  <1>2. import' = [v \in Importer |-> import'[v]]
    BY DEF ImportsInv
  <1>3. \A v \in Importer : ImportFits(import'[v])
    BY <1>1 DEF ImportsInv
  <1>4. MadeApart'
    BY <1>1 DEF ImportsInv, MadeApart
  <1>5. (OwnUnlessShared /\ CreatedAreUsed)'
    BY DEF ImportsInv, OwnUnlessShared, CreatedAreUsed
  <1> QED
    BY <1>2, <1>3, <1>4, <1>5 DEF ImportsInv, ImportFits, Group

LEMMA StartFits ==
    ASSUME ImportsInv, NEW w \in Importer, NEW file \in File, NEW force \in BOOLEAN,
           NEW moves \in BOOLEAN, StartSalesImport(w, file, force, moves)
    PROVE  ImportsInv'
  <1> DEFINE j == [kind |-> "next", batch |-> imports + 1, file |-> file, at |-> 1,
                   force |-> force, moves |-> moves,
                   product |-> [s \in Sku |-> IF s \in DOMAIN goods
                                              THEN [state |-> "live", by |-> goods[s].by,
                                                    stock |-> goods[s].stock]
                                              ELSE None],
                   customer |-> [n \in Name |-> None]]
  <1>1. import' = [import EXCEPT ![w] = j]
    BY DEF StartSalesImport
  <1>2. ImportFits(j) /\ j.kind = "next"
    BY DEF ImportFits, NextFields
  <1> HIDE DEF j
  <1> QED
    BY <1>1, <1>2, ImportMoves DEF StartSalesImport

LEMMA IdleMoves ==
    ASSUME ImportsInv, NEW w \in Importer, Die(w) \/ EndSalesImport(w) \/ CutImport(w)
    PROVE  ImportsInv'
  <1>1. ImportFits(Idle) /\ Idle.kind # "open"
    BY DEF ImportFits, Idle
  <1> QED
    BY <1>1, ImportMoves DEF Die, EndSalesImport, CutImport

LEMMA SkipFits ==
    ASSUME ImportsInv, NEW w \in Importer, SkipGroup(w)
    PROVE  ImportsInv'
  <1> DEFINE old == import[w]
             j == [old EXCEPT !.customer = Registered(old), !.at = @ + 1]
  <1>1. ImportFits(old) /\ old.kind = "next"
    BY DEF SkipGroup, Ahead, ImportsInv
  <1>2. import' = [import EXCEPT ![w] = j]
    BY DEF SkipGroup, ImportsInv
  <1>3. /\ j.kind = "next" /\ j.file = old.file /\ j.at = old.at + 1
        /\ NextFields \subseteq DOMAIN j
    BY <1>1 DEF ImportFits, NextFields
  <1> HIDE DEF j
  <1>4. ImportFits(j)
    BY <1>1, <1>3 DEF ImportFits
  <1> QED
    BY <1>2, <1>3, <1>4, ImportMoves DEF SkipGroup

LEMMA NewSkus ==
    ASSUME ImportsInv, NEW w \in Importer, Ahead(import[w])
    PROVE  /\ import[w].file \in File /\ import[w].at \in Nat \ {0}
           /\ Group(import[w]).skus \subseteq Sku
           /\ New(import[w]) \subseteq Group(import[w]).skus
  BY GroupType DEF ImportsInv, ImportFits, Ahead, New

LEMMA OpenFits ==
    ASSUME ImportsInv, NEW w \in Importer, OpenGroup(w)
    PROVE  ImportsInv'
  <1> DEFINE old == import[w]
  <1>1. /\ Ahead(old) /\ New(old) \cap DOMAIN goods = {}
        /\ \A v \in Busy \ {w} : import[v].kind = "open" => New(old) \cap import[v].made = {}
    BY DEF OpenGroup, Dies
  <1> DEFINE made == [s \in Sku |-> IF s \in New(old)
                                     THEN [state |-> "live", by |-> old.batch, stock |-> 0]
                                     ELSE old.product[s]]
             j == [kind |-> "open", batch |-> old.batch, file |-> old.file, at |-> old.at,
                   force |-> old.force, moves |-> old.moves, made |-> New(old),
                   met |-> IF Matching(old) = {} THEN {Group(old).name} ELSE {},
                   customer |-> Registered(old), product |-> made]
  <1>2. /\ import' = [import EXCEPT ![w] = j]
        /\ j.kind = "open" /\ j.file = old.file /\ j.at = old.at /\ j.batch = old.batch
        /\ j.made = New(old) /\ j.product = made
    BY DEF OpenGroup
  <1> HIDE DEF j
  <1>3. /\ old.file \in File /\ old.at \in Nat \ {0} /\ old.at <= Len(old.file)
        /\ New(old) \subseteq Group(old).skus /\ Group(old).skus \subseteq Sku
    BY <1>1, NewSkus DEF Ahead
  <1>4. ImportFits(j)
    BY <1>2, <1>3 DEF ImportFits, Group
  <1>5. \A v \in Importer \ {w} : import[v].kind = "open" => import[v].made \cap j.made = {}
    <2>1. \A v \in Importer : import[v].kind = "open" => v \in Busy
      BY DEF Busy, Idle
    <2> QED
      BY <1>1, <1>2, <2>1
  <1> QED
    BY <1>1, <1>2, <1>4, <1>5, ImportMoves DEF OpenGroup

LEMMA OnwardFits ==
    ASSUME NEW j, ImportFits(j), j.kind = "open", NEW c, NEW p, NEW k,
           k = [Onward(j) EXCEPT !.customer = c, !.product = p]
    PROVE  ImportFits(k) /\ k.kind = "next"
  BY DEF ImportFits, Onward, NextFields

LEMMA FailFits ==
    ASSUME ImportsInv, NEW w \in Importer, FailGroup(w)
    PROVE  ImportsInv'
  <1> DEFINE j == import[w]
  <1>1. j.kind = "open" /\ ImportFits(j)
    BY DEF FailGroup, ImportsInv
  <1>2. PICK k : import' = [import EXCEPT ![w] = k] /\ ImportFits(k) /\ k.kind = "next"
    <2>1. PICK c, p : import' = [import EXCEPT ![w] =
                                   [Onward(j) EXCEPT !.customer = c, !.product = p]]
      BY DEF FailGroup
    <2> HIDE DEF j
    <2> QED
      BY <1>1, <2>1, OnwardFits
  <1> QED
    BY <1>2, ImportMoves DEF FailGroup

LEMMA CommitFits ==
    ASSUME ImportsInv, NEW w \in Importer, CommitGroup(w)
    PROVE  ImportsInv'
  <1> DEFINE j == import[w]
             g == Group(j)
             c == <<g.name, j.customer[g.name].by>>
             moved == IF j.moves THEN g.skus ELSE {}
             x == [batch |-> j.batch, customer |-> c, date |-> g.date,
                   skus |-> g.skus, moved |-> moved]
  <1>1. /\ j.kind = "open" /\ ImportFits(j) /\ j.made \subseteq g.skus /\ g.skus \subseteq Sku
        /\ \A s \in j.made : j.product[s].by = j.batch
        /\ j.made \cap DOMAIN goods = {}
    <2>1. j.kind = "open" /\ ImportFits(j)
      BY DEF CommitGroup, ImportsInv
    <2>2. j.made \cap DOMAIN goods = {}
      BY <2>1 DEF ImportsInv, MadeApart
    <2> QED
      BY <2>1, <2>2, GroupType DEF ImportFits
  <1>2. \A s \in g.skus : s \in j.made \/ (s \in DOMAIN goods /\ goods[s].by = j.product[s].by)
    BY DEF CommitGroup, Sound
  <1>3. PICK k : import' = [import EXCEPT ![w] = k] /\ ImportFits(k) /\ k.kind = "next"
    <2>1. PICK p : import' = [import EXCEPT ![w] = [Onward(j) EXCEPT !.product = p]]
      BY DEF CommitGroup
    <2>2. \A n : LET k == [Onward(j) EXCEPT !.product = n] IN
                 ImportFits(k) /\ k.kind = "next"
      BY <1>1 DEF ImportFits, Onward, NextFields
    <2> QED
      BY <2>1, <2>2
  <1>4. /\ sale' = sale \cup {x} /\ customer' = customer \cup {c}
        /\ shared' = shared \cup {s \in g.skus : j.product[s].by # j.batch}
                            \cup (IF c[2] = j.batch THEN {} ELSE {c})
        /\ counter' = counter
        /\ DOMAIN goods' = DOMAIN goods \cup j.made
    BY DEF CommitGroup
  <1>5. \A s \in DOMAIN goods' : goods'[s].by = IF s \in DOMAIN goods THEN goods[s].by ELSE j.batch
    <2>1. \A s \in DOMAIN goods' :
             goods'[s].by = IF s \in moved THEN j.product[s].by
                            ELSE IF s \in j.made THEN j.batch ELSE goods[s].by
      BY DEF CommitGroup
    <2> HIDE DEF j
    <2> QED
      BY <1>1, <1>2, <1>4, <2>1
  <1>6. /\ x.batch = j.batch /\ x.customer = c /\ x.skus = g.skus
    OBVIOUS
  <1>13. \A s \in DOMAIN goods' : DOMAIN goods'[s] = {"by", "stock", "shelved"}
    BY <1>4 DEF CommitGroup, ImportsInv
  <1> HIDE DEF j, g, c, moved, x
  <1>7. \A v \in Importer : import'[v] = IF v = w THEN k ELSE import[v]
    BY <1>3 DEF ImportsInv
  <1>8. MadeApart'
    <2> SUFFICES ASSUME NEW v \in Importer, import'[v].kind = "open"
                 PROVE  /\ import'[v].made \cap DOMAIN goods' = {}
                        /\ \A u \in Importer \ {v} : import'[u].kind = "open" =>
                              import'[u].made \cap import'[v].made = {}
      BY DEF MadeApart
    <2>1. v # w /\ import'[v] = import[v]
      BY <1>3, <1>7
    <2>2. import[v].made \cap DOMAIN goods = {} /\ import[v].made \cap j.made = {}
      BY <1>1, <2>1 DEF ImportsInv, MadeApart, j
    <2>3. \A u \in Importer \ {v} : import'[u].kind = "open" =>
             import'[u].made \cap import'[v].made = {}
      BY <1>3, <1>7, <2>1 DEF ImportsInv, MadeApart
    <2> QED
      BY <1>4, <2>1, <2>2, <2>3
  <1>9. OwnUnlessShared'
    <2>1. \A y \in sale' : y.customer[2] # y.batch => y.customer \in shared'
      BY <1>4, <1>6 DEF ImportsInv, OwnUnlessShared
    <2>2. \A y \in sale' : \A s \in y.skus \ shared' :
             s \in DOMAIN goods' /\ goods'[s].by = y.batch
      <3>1. ASSUME NEW y \in sale, NEW s \in y.skus \ shared'
            PROVE  s \in DOMAIN goods' /\ goods'[s].by = y.batch
        BY <1>4, <1>5 DEF ImportsInv, OwnUnlessShared
      <3>2. ASSUME NEW s \in x.skus \ shared'
            PROVE  s \in DOMAIN goods' /\ goods'[s].by = x.batch
        BY <1>1, <1>2, <1>4, <1>5, <1>6
      <3> QED
        BY <1>4, <3>1, <3>2
    <2>3. \A s \in Sku \ shared' : counter'[s] = 0
      BY <1>4 DEF ImportsInv, OwnUnlessShared
    <2> QED
      BY <2>1, <2>2, <2>3 DEF OwnUnlessShared
  <1>10. CreatedAreUsed'
    <2>1. ASSUME NEW s \in DOMAIN goods', goods'[s].by > 0, s \notin shared'
          PROVE  \E y \in sale' : y.batch = goods'[s].by /\ s \in y.skus
      <3>1. CASE s \in DOMAIN goods
        BY <1>4, <1>5, <2>1, <3>1 DEF ImportsInv, CreatedAreUsed
      <3>2. CASE s \notin DOMAIN goods
        BY <1>1, <1>4, <1>5, <1>6, <3>2
      <3> QED
        BY <3>1, <3>2
    <2>2. ASSUME NEW d \in customer' \ shared'
          PROVE  \E y \in sale' : y.customer = d
      BY <1>4, <1>6 DEF ImportsInv, CreatedAreUsed
    <2> QED
      BY <2>1, <2>2 DEF CreatedAreUsed
  <1>11. DOMAIN goods' \subseteq Sku
    BY <1>1, <1>4 DEF ImportsInv
  <1>12. import' = [v \in Importer |-> import'[v]] /\ \A v \in Importer : ImportFits(import'[v])
    BY <1>3, <1>7 DEF ImportsInv
  <1> QED
    BY <1>4, <1>8, <1>9, <1>10, <1>11, <1>12, <1>13 DEF ImportsInv, ImportFits, Group

LEMMA RevertFits ==
    ASSUME ImportsInv, NEW b \in 1..MaxImport, RevertSales(b)
    PROVE  ImportsInv'
  <1>1. /\ sale' = {x \in sale : x.batch # b} /\ customer' = customer \ Unknown(b)
        /\ UNCHANGED <<import, counter, shared>>
        /\ DOMAIN goods' = DOMAIN goods \ Unused(b)
    BY DEF RevertSales
  <1>2. \A s \in DOMAIN goods' : /\ goods'[s].by = goods[s].by
                                /\ DOMAIN goods'[s] = {"by", "stock", "shelved"}
    <2>1. \A s \in DOMAIN goods' :
             goods'[s] = [goods[s] EXCEPT !.stock = @ + Back(b, s)]
      BY DEF RevertSales
    <2> QED
      BY <1>1, <2>1 DEF ImportsInv
  <1>3. OwnUnlessShared'
    <2>1. ASSUME NEW x \in sale', NEW s \in x.skus \ shared
          PROVE  s \in DOMAIN goods' /\ goods'[s].by = x.batch
      BY <1>1, <1>2 DEF ImportsInv, OwnUnlessShared, Unused
    <2> QED
      BY <1>1, <2>1 DEF ImportsInv, OwnUnlessShared
  <1>4. CreatedAreUsed'
    <2>1. ASSUME NEW s \in DOMAIN goods', goods'[s].by > 0, s \notin shared
          PROVE  \E x \in sale' : x.batch = goods'[s].by /\ s \in x.skus
      <3>1. PICK x \in sale : x.batch = goods[s].by /\ s \in x.skus
        BY <1>1, <1>2, <2>1 DEF ImportsInv, CreatedAreUsed
      <3>2. goods[s].by # b
        <4> SUFFICES ASSUME goods[s].by = b PROVE FALSE
          OBVIOUS
        <4>1. counter[s] = 0
          BY <1>1, <2>1 DEF ImportsInv, OwnUnlessShared
        <4>2. PICK y \in sale : s \in y.skus /\ y.batch # b
          BY <1>1, <2>1, <4>1 DEF Unused
        <4> QED
          BY <2>1, <4>2 DEF ImportsInv, OwnUnlessShared
      <3> QED
        BY <1>1, <1>2, <3>1, <3>2
    <2>2. ASSUME NEW d \in customer' \ shared
          PROVE  \E x \in sale' : x.customer = d
      <3>1. PICK x \in sale : x.customer = d
        BY <1>1 DEF ImportsInv, CreatedAreUsed
      <3>2. CASE d[2] = b
        BY <1>1, <3>2 DEF Unknown
      <3>3. CASE d[2] # b
        BY <1>1, <3>1, <3>3 DEF ImportsInv, OwnUnlessShared
      <3> QED
        BY <3>2, <3>3
    <2> QED
      BY <1>1, <2>1, <2>2 DEF CreatedAreUsed
  <1>5. MadeApart'
    BY <1>1 DEF ImportsInv, MadeApart
  <1> QED
    BY <1>1, <1>2, <1>3, <1>4, <1>5 DEF ImportsInv, ImportFits, Group

LEMMA SellFits ==
    ASSUME ImportsInv, NEW s \in Sku, SellOver(s)
    PROVE  ImportsInv'
  <1>1. /\ UNCHANGED <<customer, sale, import>> /\ shared' = shared \cup {s}
        /\ counter' = [counter EXCEPT ![s] = @ + 1]
        /\ DOMAIN goods' = DOMAIN goods
    BY DEF SellOver
  <1>2. /\ \A t \in DOMAIN goods : t # s => goods'[t] = goods[t]
        /\ DOMAIN goods'[s] = DOMAIN goods[s]
    BY DEF SellOver
  <1>3. counter' = [t \in Sku |-> counter'[t]] /\ \A t \in Sku : t # s => counter'[t] = counter[t]
    BY <1>1 DEF ImportsInv
  <1>4. OwnUnlessShared'
    BY <1>1, <1>2, <1>3 DEF ImportsInv, OwnUnlessShared
  <1>5. CreatedAreUsed'
    BY <1>1, <1>2 DEF ImportsInv, CreatedAreUsed
  <1>6. MadeApart'
    BY <1>1 DEF ImportsInv, MadeApart
  <1> QED
    BY <1>1, <1>2, <1>3, <1>4, <1>5, <1>6 DEF ImportsInv, ImportFits, Group

LEMMA ImportsInvStep == ImportsInv /\ [ImportsNext]_importsVars => ImportsInv'
  <1> SUFFICES ASSUME ImportsInv, [ImportsNext]_importsVars PROVE ImportsInv'
    OBVIOUS
  <1>1. CASE UNCHANGED importsVars
    BY <1>1 DEF importsVars, ImportsInv, ImportFits, Group, MadeApart, OwnUnlessShared,
                CreatedAreUsed
  <1> QED
    BY <1>1, StartFits, IdleMoves, SkipFits, OpenFits, CommitFits, FailFits, RevertFits,
       SellFits
    DEF ImportsNext

LEMMA ImportsInvHolds == ImportsSpec => []ImportsInv
  BY ImportsInvInit, ImportsInvStep, PTL DEF ImportsSpec

\* What an import made is on an invoice of its own, or others use it, whatever
\* groups failed, imports were cut off, batches reverted and goods sold meanwhile
\* (sales_import_service.py:246-380, import_data.py:500-540).
THEOREM MadeIsUsed == ImportsSpec => []CreatedAreUsed
  BY ImportsInvHolds, PTL DEF ImportsInv
-----------------------------------------------------------------------------
\* An import that excuses nothing is alone, does not force, and no customer of a
\* name it registered is another than the one it registered; its open group has
\* no invoice yet.
Registry == [Name -> [state : {"none", "live", "stale", "dead"}, by : Nat, stock : {0}]]

KnowsItsGroup(w, j) ==
    j = Idle \/
    /\ j.kind \in {"next", "open"}
    /\ j.batch \in 1..imports
    /\ j.customer \in Registry
    /\ j.batch \notin excused =>
         /\ ~j.force
         /\ \A v \in Importer \ {w} : import[v] = Idle
         /\ \A c \in customer : j.customer[c[1]].state # "none" => c[2] = j.customer[c[1]].by
         /\ j.kind = "open" =>
              \A x \in sale : x.customer[1] = Group(j).name => x.date # Group(j).date

OnceInv ==
    /\ imports \in Nat /\ excused \subseteq 1..imports
    /\ IsFiniteSet(customer) /\ customer \subseteq Name \X Nat
    /\ \A x \in sale : x.customer \in customer
    /\ \A w \in Importer : KnowsItsGroup(w, import[w])
    /\ OneInvoicePerGroup

LEMMA AtMostOne ==
    ASSUME NEW S, IsFiniteSet(S), ~(Cardinality(S) > 1), NEW x \in S, NEW y \in S
    PROVE  x = y
  <1> SUFFICES ASSUME x # y PROVE FALSE
    OBVIOUS
  <1>1. IsFiniteSet({x}) /\ Cardinality({x}) = 1
    BY FS_Singleton
  <1>2. IsFiniteSet({x} \cup {y}) /\ Cardinality({x} \cup {y}) = 2
    <2>1. y \notin {x}
      OBVIOUS
    <2>2. Cardinality({x} \cup {y}) = Cardinality({x}) + 1 /\ IsFiniteSet({x} \cup {y})
      BY <1>1, <2>1, FS_AddElement
    <2> QED
      BY <1>1, <2>2
  <1>3. Cardinality({x} \cup {y}) <= Cardinality(S) /\ Cardinality(S) \in Nat
    BY FS_Subset, FS_CardinalityType
  <1> QED
    BY <1>2, <1>3

LEMMA OnceInvInit == ImportsInit => OnceInv
  <1> SUFFICES ASSUME ImportsInit PROVE OnceInv
    OBVIOUS
  <1>1. IsFiniteSet({})
    BY FS_EmptySet
  <1> QED
    BY <1>1, ImportsConstants DEF ImportsInit, OnceInv, KnowsItsGroup, OneInvoicePerGroup

\* A request in flight moves and the tables stay.
LEMMA OnceMoves ==
    ASSUME OnceInv, ImportsInv, NEW w \in Importer, import[w] # Idle,
           NEW j, KnowsItsGroup(w, j),
           import' = [import EXCEPT ![w] = j],
           UNCHANGED <<customer, sale, imports, excused>>
    PROVE  OnceInv'
  <1>1. \A v \in Importer : import'[v] = IF v = w THEN j ELSE import[v]
    BY DEF ImportsInv
  <1>2. KnowsItsGroup(w, j)'
    BY <1>1 DEF KnowsItsGroup, Group
  <1>3. ASSUME NEW v \in Importer \ {w} PROVE KnowsItsGroup(v, import[v])'
    BY <1>1, <1>3 DEF OnceInv, KnowsItsGroup, Group
  <1> QED
    BY <1>1, <1>2, <1>3 DEF OnceInv, OneInvoicePerGroup

\* What a request registers.
LEMMA RegisteredKnows ==
    ASSUME OnceInv, ImportsInv, NEW w \in Importer, Ahead(import[w]), ~Dies(import[w])
    PROVE  LET j == import[w]
               r == Registered(j)
           IN
           /\ j # Idle /\ Group(j).name \in Name
           /\ r \in Registry
           /\ j.batch \notin excused =>
                \A c \in customer : r[c[1]].state # "none" => c[2] = r[c[1]].by
           /\ j.batch \notin excused /\ Earlier(j) = {} =>
                \A x \in sale : x.customer[1] = Group(j).name => x.date # Group(j).date
  <1> DEFINE j == import[w]
             n == Group(j).name
             r == Registered(j)
             m == Matching(j)
  <1>1. j.kind = "next" /\ j # Idle /\ j.at <= Len(j.file)
    BY DEF Ahead, Idle
  <1>2. n \in Name
    BY <1>1, GroupType DEF ImportsInv, ImportFits
  <1>3. j.customer \in Registry /\ j.batch \in Nat
    BY <1>1 DEF OnceInv, KnowsItsGroup
  <1>4. ~(Cardinality(m) > 1)
    BY DEF Dies
  <1>5. CASE j.customer[n].state # "none"
    <2>1. r = j.customer
      BY <1>2, <1>3, <1>5 DEF Registered, Registry
    <2>2. m = {<<n, j.customer[n].by>>}
      BY <1>5 DEF Matching
    <2>3. j.batch \notin excused => \A c \in customer : c[1] = n => c \in m
      <3> SUFFICES ASSUME j.batch \notin excused, NEW c \in customer, c[1] = n PROVE c \in m
        OBVIOUS
      <3>1. c[2] = j.customer[n].by
        BY <1>1, <1>5 DEF OnceInv, KnowsItsGroup
      <3>2. c = <<c[1], c[2]>>
        BY DEF OnceInv
      <3> QED
        BY <2>2, <3>1, <3>2
    <2>4. j.batch \notin excused =>
             \A c \in customer : r[c[1]].state # "none" => c[2] = r[c[1]].by
      BY <1>1, <2>1 DEF OnceInv, KnowsItsGroup
    <2>5. j.batch \notin excused /\ Earlier(j) = {} =>
             \A x \in sale : x.customer[1] = n => x.date # Group(j).date
      BY <1>1, <2>3 DEF OnceInv, KnowsItsGroup, Earlier
    <2> QED
      BY <1>1, <1>2, <1>3, <2>1, <2>4, <2>5
  <1>6. CASE j.customer[n].state = "none"
    <2>1. m = {c \in customer : c[1] = n}
      BY <1>6 DEF Matching
    <2> DEFINE by == IF m = {} THEN j.batch ELSE (CHOOSE c \in m : TRUE)[2]
    <2>2. \A c \in customer : c[1] = n => c[2] = by
      <3> SUFFICES ASSUME NEW c \in customer, c[1] = n PROVE c[2] = by
        OBVIOUS
      <3>1. c \in m /\ (CHOOSE d \in m : TRUE) \in m
        BY <2>1
      <3>2. IsFiniteSet(m)
        BY <2>1, FS_Subset DEF OnceInv
      <3>3. c = (CHOOSE d \in m : TRUE)
        BY <1>4, <3>1, <3>2, AtMostOne
      <3> QED
        BY <3>1, <3>3
    <2>3. by \in Nat
      <3>1. CASE m = {}
        BY <1>3, <3>1
      <3>2. CASE m # {}
        <4>1. (CHOOSE c \in m : TRUE) \in m
          BY <3>2
        <4> QED
          BY <2>1, <3>2, <4>1 DEF OnceInv
      <3> QED
        BY <3>1, <3>2
    <2>4. r = [j.customer EXCEPT ![n] = [state |-> "live", stock |-> 0, by |-> by]]
      BY <1>2, <1>3, <1>6 DEF Registered, Registry
    <2> HIDE DEF by, r, m
    <2>5. r \in Registry
      BY <1>2, <1>3, <2>3, <2>4 DEF Registry
    <2>6. j.batch \notin excused =>
             \A c \in customer : r[c[1]].state # "none" => c[2] = r[c[1]].by
      <3> SUFFICES ASSUME j.batch \notin excused, NEW c \in customer, r[c[1]].state # "none"
                   PROVE  c[2] = r[c[1]].by
        OBVIOUS
      <3>1. c[1] \in Name
        BY DEF OnceInv
      <3>2. CASE c[1] = n
        BY <1>2, <1>3, <2>2, <2>4, <3>2 DEF Registry
      <3>3. CASE c[1] # n
        <4>1. r[c[1]] = j.customer[c[1]]
          BY <1>3, <2>4, <3>1, <3>3 DEF Registry
        <4> QED
          BY <1>1, <4>1 DEF OnceInv, KnowsItsGroup
      <3> QED
        BY <3>2, <3>3
    <2>7. j.batch \notin excused /\ Earlier(j) = {} =>
             \A x \in sale : x.customer[1] = n => x.date # Group(j).date
      BY <1>1, <2>1 DEF OnceInv, KnowsItsGroup, Earlier, m
    <2> QED
      BY <1>1, <1>2, <2>5, <2>6, <2>7 DEF r
  <1> QED
    BY <1>5, <1>6

LEMMA OnceStart ==
    ASSUME OnceInv, ImportsInv, NEW w \in Importer, NEW file \in File, NEW force \in BOOLEAN,
           NEW moves \in BOOLEAN, StartSalesImport(w, file, force, moves)
    PROVE  OnceInv'
  <1>1. /\ imports' = imports + 1 /\ UNCHANGED <<customer, sale>> /\ import[w] = Idle
        /\ excused' = excused \cup (IF force \/ Busy # {} THEN {imports + 1} ELSE {})
                              \cup {import[v].batch : v \in Busy}
    BY DEF StartSalesImport
  <1>3. PICK j : /\ import' = [import EXCEPT ![w] = j]
                 /\ j.kind = "next" /\ j.batch = imports + 1 /\ j.force = force
                 /\ j.customer = [n \in Name |-> None]
    <2> DEFINE j == [kind |-> "next", batch |-> imports + 1, file |-> file, at |-> 1,
                     force |-> force, moves |-> moves,
                     product |-> [s \in Sku |-> IF s \in DOMAIN goods
                                                THEN [state |-> "live", by |-> goods[s].by,
                                                      stock |-> goods[s].stock]
                                                ELSE None],
                     customer |-> [n \in Name |-> None]]
    <2>1. import' = [import EXCEPT ![w] = j]
      BY DEF StartSalesImport
    <2>2. /\ j.kind = "next" /\ j.batch = imports + 1 /\ j.force = force
          /\ j.customer = [n \in Name |-> None]
      OBVIOUS
    <2> QED
      BY <2>1, <2>2
  <1>2. \A v \in Importer : import'[v] = IF v = w THEN j ELSE import[v]
    BY <1>3 DEF ImportsInv
  <1>4. imports' \in Nat /\ 1..imports \subseteq 1..imports' /\ imports + 1 \in 1..imports'
    BY <1>1 DEF OnceInv
  <1>5. \A v \in Busy : v # w /\ v \in Importer /\ import[v].batch \in 1..imports
    BY <1>1 DEF Busy, OnceInv, KnowsItsGroup
  <1>6. excused' \subseteq 1..imports'
    BY <1>1, <1>4, <1>5 DEF OnceInv
  <1>7. KnowsItsGroup(w, j)'
    <2>1. j.customer \in Registry
      BY <1>3 DEF Registry, None
    <2>2. \A n \in Name : j.customer[n].state = "none"
      BY <1>3 DEF None
    <2>3. \A c \in customer : c[1] \in Name
      BY DEF OnceInv
    <2>4. ASSUME imports + 1 \notin excused'
          PROVE  ~force /\ \A v \in Importer \ {w} : import'[v] = Idle
      BY <1>1, <1>2, <2>4 DEF Busy
    <2> QED
      BY <1>1, <1>3, <1>4, <2>1, <2>2, <2>3, <2>4 DEF KnowsItsGroup, Registry
  <1>8. ASSUME NEW v \in Importer \ {w} PROVE KnowsItsGroup(v, import[v])'
    <2>1. import'[v] = import[v]
      BY <1>2
    <2>2. CASE import[v] = Idle
      BY <2>1, <2>2 DEF KnowsItsGroup, Idle
    <2>3. CASE import[v] # Idle
      <3>1. import[v].batch \in excused' /\ import[v].batch \in 1..imports'
        BY <1>1, <1>4, <1>5, <2>3 DEF Busy
      <3> QED
        BY <2>1, <2>3, <3>1 DEF OnceInv, KnowsItsGroup, Registry
    <2> QED
      BY <2>2, <2>3
  <1>9. OneInvoicePerGroup'
    BY <1>1 DEF OnceInv, OneInvoicePerGroup
  <1> QED
    BY <1>1, <1>2, <1>4, <1>6, <1>7, <1>8, <1>9 DEF OnceInv

LEMMA OnceEnds ==
    ASSUME OnceInv, ImportsInv, NEW w \in Importer, Die(w) \/ EndSalesImport(w) \/ CutImport(w)
    PROVE  OnceInv'
  <1>1. KnowsItsGroup(w, Idle)
    BY DEF KnowsItsGroup
  <1>2. import[w] # Idle
    BY DEF Die, Ahead, EndSalesImport, CutImport, Idle
  <1> QED
    BY <1>1, <1>2, OnceMoves DEF Die, EndSalesImport, CutImport

LEMMA OnceSkip ==
    ASSUME OnceInv, ImportsInv, NEW w \in Importer, SkipGroup(w)
    PROVE  OnceInv'
  <1> DEFINE old == import[w]
             j == [old EXCEPT !.customer = Registered(old), !.at = @ + 1]
  <1>1. Ahead(old) /\ ~Dies(old) /\ old.kind = "next"
    BY DEF SkipGroup, Ahead
  <1>2. import' = [import EXCEPT ![w] = j]
    BY DEF SkipGroup, ImportsInv
  <1>3. NextFields \subseteq DOMAIN old
    BY <1>1 DEF ImportsInv, ImportFits
  <1>4. /\ j.kind = "next" /\ j.batch = old.batch /\ j.customer = Registered(old)
        /\ j.force = old.force
    BY <1>1, <1>3 DEF NextFields
  <1> HIDE DEF j
  <1>5. KnowsItsGroup(w, j)
    BY <1>1, <1>4, RegisteredKnows DEF OnceInv, KnowsItsGroup
  <1> QED
    BY <1>1, <1>2, <1>5, RegisteredKnows, OnceMoves DEF SkipGroup

LEMMA OnceOpen ==
    ASSUME OnceInv, ImportsInv, NEW w \in Importer, OpenGroup(w)
    PROVE  OnceInv'
  <1> DEFINE old == import[w]
             made == [s \in Sku |-> IF s \in New(old)
                                     THEN [state |-> "live", by |-> old.batch, stock |-> 0]
                                     ELSE old.product[s]]
             j == [kind |-> "open", batch |-> old.batch, file |-> old.file, at |-> old.at,
                   force |-> old.force, moves |-> old.moves, made |-> New(old),
                   met |-> IF Matching(old) = {} THEN {Group(old).name} ELSE {},
                   customer |-> Registered(old), product |-> made]
  <1>1. Ahead(old) /\ ~Dies(old) /\ old.kind = "next" /\ Earlier(old) = {}
    BY DEF OpenGroup, Ahead
  <1>2. import' = [import EXCEPT ![w] = j]
    BY DEF OpenGroup
  <1>3. /\ j.kind = "open" /\ j.batch = old.batch /\ j.customer = Registered(old)
        /\ j.force = old.force /\ Group(j) = Group(old)
    BY DEF Group
  <1> HIDE DEF j
  <1>4. KnowsItsGroup(w, j)
    BY <1>1, <1>3, RegisteredKnows DEF OnceInv, KnowsItsGroup
  <1> QED
    BY <1>1, <1>2, <1>4, RegisteredKnows, OnceMoves DEF OpenGroup

LEMMA OnceFail ==
    ASSUME OnceInv, ImportsInv, NEW w \in Importer, FailGroup(w)
    PROVE  OnceInv'
  <1> DEFINE old == import[w]
             r == After(old.customer, old.met)
  <1>1. old.kind = "open" /\ old # Idle
    BY DEF FailGroup, Idle
  <1>2. PICK j : /\ import' = [import EXCEPT ![w] = j]
                 /\ j.kind = "next" /\ j.batch = old.batch /\ j.force = old.force
                 /\ j.customer = r
    <2> DEFINE j == [Onward(old) EXCEPT !.customer = After(@, old.met),
                                        !.product = After(@, old.made)]
    <2>1. import' = [import EXCEPT ![w] = j]
      BY DEF FailGroup
    <2>2. j.kind = "next" /\ j.batch = old.batch /\ j.force = old.force /\ j.customer = r
      BY DEF Onward
    <2> QED
      BY <2>1, <2>2
  <1>3. old.customer \in Registry
    BY <1>1 DEF OnceInv, KnowsItsGroup
  <1>4. /\ r \in Registry
        /\ \A n \in Name : r[n].by = old.customer[n].by
                           /\ (r[n].state = "none" <=> old.customer[n].state = "none")
    BY <1>3 DEF After, Registry
  <1> HIDE DEF r
  <1>5. \A c \in customer : c[1] \in Name
    BY DEF OnceInv
  <1>6. KnowsItsGroup(w, j)
    BY <1>1, <1>2, <1>4, <1>5 DEF OnceInv, KnowsItsGroup
  <1> QED
    BY <1>1, <1>2, <1>6, OnceMoves DEF FailGroup

LEMMA OnceCommit ==
    ASSUME OnceInv, ImportsInv, NEW w \in Importer, CommitGroup(w)
    PROVE  OnceInv'
  <1> DEFINE old == import[w]
             g == Group(old)
             c == <<g.name, old.customer[g.name].by>>
             x == [batch |-> old.batch, customer |-> c, date |-> g.date, skus |-> g.skus,
                   moved |-> IF old.moves THEN g.skus ELSE {}]
  <1>1. old.kind = "open" /\ old # Idle
    BY DEF CommitGroup, Idle
  <1>2. g.name \in Name
    BY <1>1, GroupType DEF ImportsInv, ImportFits
  <1>3. old.customer \in Registry /\ old.batch \in 1..imports
    BY <1>1 DEF OnceInv, KnowsItsGroup
  <1>4. c \in Name \X Nat /\ c[1] = g.name /\ c[2] = old.customer[g.name].by
    BY <1>2, <1>3 DEF Registry
  <1>5. x.batch = old.batch /\ x.customer = c /\ x.date = g.date
    OBVIOUS
  <1>6. sale' = sale \cup {x} /\ customer' = customer \cup {c} /\ UNCHANGED <<imports, excused>>
    BY DEF CommitGroup
  <1>7. PICK j : /\ import' = [import EXCEPT ![w] = j]
                 /\ j.kind = "next" /\ j.batch = old.batch /\ j.force = old.force
                 /\ j.customer = old.customer
    <2>1. PICK p : import' = [import EXCEPT ![w] = [Onward(old) EXCEPT !.product = p]]
      BY DEF CommitGroup
    <2> DEFINE k == [Onward(old) EXCEPT !.product = p]
    <2>2. k.kind = "next" /\ k.batch = old.batch /\ k.force = old.force
          /\ k.customer = old.customer
      BY DEF Onward
    <2> QED
      BY <2>1, <2>2
  <1> HIDE DEF x, c, g
  <1>8. \A v \in Importer : import'[v] = IF v = w THEN j ELSE import[v]
    BY <1>7 DEF ImportsInv
  <1>9. KnowsItsGroup(w, j)'
    <2>1. ASSUME old.batch \notin excused
          PROVE  /\ ~old.force
                 /\ \A v \in Importer \ {w} : import[v] = Idle
                 /\ \A d \in customer' : old.customer[d[1]].state # "none" =>
                                           d[2] = old.customer[d[1]].by
      BY <1>1, <1>4, <1>6, <2>1 DEF OnceInv, KnowsItsGroup
    <2> QED
      BY <1>3, <1>6, <1>7, <1>8, <2>1 DEF KnowsItsGroup, Registry
  <1>10. ASSUME NEW v \in Importer \ {w} PROVE KnowsItsGroup(v, import[v])'
    BY <1>1, <1>6, <1>8, <1>10 DEF OnceInv, KnowsItsGroup, Registry
  <1>11. IsFiniteSet(customer') /\ customer' \subseteq Name \X Nat
    BY <1>4, <1>6, FS_AddElement DEF OnceInv
  <1>12. \A y \in sale' : y.customer \in customer'
    BY <1>5, <1>6 DEF OnceInv
  <1>13. OneInvoicePerGroup'
    <2>1. ASSUME NEW y \in sale, old.batch \notin excused
          PROVE  ~(y.customer[1] = c[1] /\ y.date = x.date)
      BY <1>1, <1>4, <1>5, <2>1 DEF OnceInv, KnowsItsGroup, g
    <2>2. ASSUME NEW y \in sale', NEW z \in sale',
                 y.customer[1] = z.customer[1], y.date = z.date,
                 {y.batch, z.batch} \cap excused = {}
          PROVE  y = z
      <3>1. CASE y \in sale /\ z \in sale
        BY <2>2, <3>1 DEF OnceInv, OneInvoicePerGroup
      <3>2. CASE y = x /\ z \in sale
        BY <1>5, <2>1, <2>2, <3>2
      <3>3. CASE z = x /\ y \in sale
        BY <1>5, <2>1, <2>2, <3>3
      <3> QED
        BY <1>6, <2>2, <3>1, <3>2, <3>3
    <2> QED
      BY <1>6, <2>2 DEF OneInvoicePerGroup
  <1> QED
    BY <1>6, <1>8, <1>9, <1>10, <1>11, <1>12, <1>13 DEF OnceInv

LEMMA OnceRevert ==
    ASSUME OnceInv, ImportsInv, NEW b \in 1..MaxImport, RevertSales(b)
    PROVE  OnceInv'
  <1>1. /\ sale' \subseteq sale /\ customer' \subseteq customer
        /\ UNCHANGED <<import, imports, excused>>
    BY DEF RevertSales, Unknown
  <1>2. \A x \in sale' : x.customer \in customer'
    BY DEF RevertSales, Unknown, OnceInv
  <1>3. IsFiniteSet(customer')
    BY <1>1, FS_Subset DEF OnceInv
  <1>4. \A w \in Importer : KnowsItsGroup(w, import[w])'
    BY <1>1 DEF OnceInv, KnowsItsGroup, Registry, Group, Idle
  <1> QED
    BY <1>1, <1>2, <1>3, <1>4 DEF OnceInv, OneInvoicePerGroup

LEMMA OnceStays ==
    ASSUME OnceInv, UNCHANGED <<customer, sale, import, imports, excused>>
    PROVE  OnceInv'
  BY DEF OnceInv, KnowsItsGroup, Registry, Group, Idle, OneInvoicePerGroup

LEMMA OnceInvStep == OnceInv /\ ImportsInv /\ [ImportsNext]_importsVars => OnceInv'
  <1> SUFFICES ASSUME OnceInv, ImportsInv, [ImportsNext]_importsVars PROVE OnceInv'
    OBVIOUS
  <1>1. CASE UNCHANGED importsVars
    BY <1>1, OnceStays DEF importsVars
  <1>2. ASSUME NEW s \in Sku, SellOver(s) PROVE OnceInv'
    BY <1>2, OnceStays DEF SellOver
  <1> QED
    BY <1>1, <1>2, OnceStart, OnceEnds, OnceSkip, OnceOpen, OnceFail, OnceCommit, OnceRevert
    DEF ImportsNext

\* A file imported again adds no second invoice for a customer and a date, whatever
\* groups failed, imports were cut off and batches reverted, but for forced and
\* overlapping imports (sales_import_service.py:308-328).
THEOREM GroupsAreImportedOnce == ImportsSpec => []OneInvoicePerGroup
  <1>1. OnceInv => OneInvoicePerGroup
    BY DEF OnceInv
  <1> QED
    BY <1>1, OnceInvInit, OnceInvStep, ImportsInvHolds, PTL DEF ImportsSpec
-----------------------------------------------------------------------------
\* What a session holds of the products, and the invoices of its batch: all of
\* groups that are behind it.
Shelf == [Sku -> [state : {"none", "live", "stale", "dead"}, by : Nat, stock : Int]]

Behind(j, x) ==
    \E a \in DOMAIN j.file : a < j.at /\ x.customer[1] = j.file[a].name /\ x.date = j.file[a].date

ReadsStock(j) ==
    j # Idle =>
      /\ j.kind \in {"next", "open"} /\ "product" \in DOMAIN j
      /\ j.batch \in 1..imports
      /\ j.product \in Shelf
      /\ j.kind = "open" => \A s \in j.made : j.product[s].stock = 0
      /\ \A x \in sale : x.batch = j.batch => Behind(j, x)

BatchesApart ==
    \A v, w \in Importer : v # w /\ import[v] # Idle /\ import[w] # Idle =>
                             import[v].batch # import[w].batch

\* Products there were before any import are never taken away; those that are not
\* there were not sold, nor moved.
GoodsKept ==
    /\ goods \in [DOMAIN goods -> [by : Nat, stock : Int, shelved : BOOLEAN]]
    /\ DOMAIN goods \subseteq Sku
    /\ OldSku \subseteq DOMAIN goods /\ \A s \in OldSku : goods[s].by = 0
    /\ counter \in [Sku -> Nat] /\ \A s \in Sku \ DOMAIN goods : counter[s] = 0

SalesListed ==
    /\ IsFiniteSet(sale) /\ imports \in Nat
    /\ \A x \in sale : x.batch \in 1..imports /\ x.moved \subseteq x.skus /\ x.skus \subseteq DOMAIN goods

StockInv ==
    /\ GoodsKept /\ SalesListed /\ BatchesApart
    /\ \A w \in Importer : ReadsStock(import[w])
    /\ StockFollowsMoves

LEMMA StockInvInit == ImportsInit => StockInv
  <1> SUFFICES ASSUME ImportsInit PROVE StockInv
    OBVIOUS
  <1>1. GoodsKept
    BY ImportsConstants DEF ImportsInit, GoodsKept
  <1>2. SalesListed
    BY FS_EmptySet DEF ImportsInit, SalesListed
  <1>3. BatchesApart /\ \A w \in Importer : ReadsStock(import[w])
    BY DEF ImportsInit, BatchesApart, ReadsStock
  <1>4. StockFollowsMoves
    <2> SUFFICES ASSUME NEW s \in DOMAIN goods
                 PROVE  goods[s].stock = ((IF s \in OldSku THEN OldQty ELSE 0) - counter[s])
                                           - Cardinality({x \in sale : s \in x.moved})
      BY DEF StockFollowsMoves
    <2>1. {x \in sale : s \in x.moved} = {}
      BY DEF ImportsInit
    <2>2. Cardinality({x \in sale : s \in x.moved}) = 0
      BY <2>1, FS_EmptySet
    <2>3. goods[s].stock = OldQty /\ s \in OldSku /\ s \in Sku /\ counter[s] = 0 /\ OldQty \in Nat
      BY ImportsConstants DEF ImportsInit
    <2> QED
      BY <2>2, <2>3
  <1> QED
    BY <1>1, <1>2, <1>3, <1>4 DEF StockInv

\* A session moves and the tables stay.
LEMMA StockMoves ==
    ASSUME StockInv, ImportsInv, NEW w \in Importer, import[w] # Idle,
           NEW j, ReadsStock(j), j # Idle => j.batch = import[w].batch,
           import' = [import EXCEPT ![w] = j],
           UNCHANGED <<goods, sale, imports, counter, overwritten>>
    PROVE  StockInv'
  <1>1. \A v \in Importer : import'[v] = IF v = w THEN j ELSE import[v]
    BY DEF ImportsInv
  <1>2. ASSUME NEW v \in Importer PROVE ReadsStock(import[v])'
    <2>1. ReadsStock(j) /\ ReadsStock(import[v])
      BY DEF StockInv
    <2>2. ReadsStock(import'[v])
      BY <1>1, <2>1
    <2> QED
      BY <2>2 DEF ReadsStock, Behind, Shelf, Idle
  <1>3. BatchesApart'
    BY <1>1 DEF StockInv, BatchesApart, Idle
  <1>4. GoodsKept' /\ SalesListed' /\ StockFollowsMoves'
    BY DEF StockInv, GoodsKept, SalesListed, StockFollowsMoves
  <1> QED
    BY <1>2, <1>3, <1>4 DEF StockInv

LEMMA StockEnds ==
    ASSUME StockInv, ImportsInv, NEW w \in Importer, Die(w) \/ EndSalesImport(w) \/ CutImport(w)
    PROVE  StockInv'
  <1>1. ReadsStock(Idle)
    BY DEF ReadsStock
  <1>2. import[w] # Idle
    BY DEF Die, Ahead, EndSalesImport, CutImport, Idle
  <1> QED
    BY <1>1, <1>2, StockMoves DEF Die, EndSalesImport, CutImport

LEMMA StockStart ==
    ASSUME StockInv, ImportsInv, NEW w \in Importer, NEW file \in File, NEW force \in BOOLEAN,
           NEW moves \in BOOLEAN, StartSalesImport(w, file, force, moves)
    PROVE  StockInv'
  <1> DEFINE shelf == [s \in Sku |-> IF s \in DOMAIN goods
                                     THEN [state |-> "live", by |-> goods[s].by,
                                           stock |-> goods[s].stock]
                                     ELSE None]
             j == [kind |-> "next", batch |-> imports + 1, file |-> file, at |-> 1,
                   force |-> force, moves |-> moves, product |-> shelf,
                   customer |-> [n \in Name |-> None]]
  <1>1. /\ import' = [import EXCEPT ![w] = j] /\ import[w] = Idle
        /\ imports' = imports + 1
        /\ UNCHANGED <<goods, sale, counter, overwritten>>
    BY DEF StartSalesImport
  <1>2. shelf \in Shelf
    BY DEF StockInv, GoodsKept, Shelf, None
  <1>3. /\ j.kind = "next" /\ "product" \in DOMAIN j /\ j.batch = imports + 1 /\ j # Idle
        /\ j.product \in Shelf
    BY <1>2 DEF Idle
  <1> HIDE DEF j, shelf
  <1>4. \A v \in Importer : import'[v] = IF v = w THEN j ELSE import[v]
    BY <1>1 DEF ImportsInv
  <1>5. imports \in Nat /\ imports' \in Nat /\ 1..imports \subseteq 1..imports'
        /\ imports + 1 \in 1..imports' /\ imports + 1 \notin 1..imports
    BY <1>1 DEF StockInv, SalesListed
  <1>6. ASSUME NEW v \in Importer PROVE ReadsStock(import[v])'
    <2>1. CASE v = w
      <3>1. \A x \in sale : x.batch # j.batch
        BY <1>3, <1>5 DEF StockInv, SalesListed
      <3> QED
        BY <1>1, <1>3, <1>4, <1>5, <2>1, <3>1 DEF ReadsStock, Shelf
    <2>2. CASE v # w
      <3>1. ReadsStock(import[v]) /\ import'[v] = import[v]
        BY <1>4, <2>2 DEF StockInv
      <3> QED
        BY <1>1, <1>5, <3>1 DEF ReadsStock, Behind, Shelf, Idle
    <2> QED
      BY <2>1, <2>2
  <1>7. BatchesApart'
    <2>1. \A v \in Importer : v # w /\ import[v] # Idle => import[v].batch \in 1..imports
      BY DEF StockInv, ReadsStock
    <2> QED
      BY <1>3, <1>4, <1>5, <2>1 DEF StockInv, BatchesApart, Idle
  <1>8. GoodsKept' /\ StockFollowsMoves'
    BY <1>1 DEF StockInv, GoodsKept, StockFollowsMoves
  <1>9. SalesListed'
    BY <1>1, <1>5 DEF StockInv, SalesListed
  <1> QED
    BY <1>6, <1>7, <1>8, <1>9 DEF StockInv

\* The session goes on to a later group of the same file.
LEMMA GoesOn ==
    ASSUME NEW i, ReadsStock(i), i # Idle, i.at \in Nat, i.file \in File,
           NEW j, j # Idle, j.kind \in {"next", "open"}, "product" \in DOMAIN j,
           j.batch = i.batch, j.file = i.file, j.at \in {i.at, i.at + 1},
           j.product \in Shelf, j.kind = "open" => \A s \in j.made : j.product[s].stock = 0
    PROVE  ReadsStock(j)
  <1>1. i.file \in Seq([name : Name, date : Int, skus : SUBSET Sku])
    BY ImportsConstants
  <1>2. \A a \in DOMAIN i.file : a \in Nat
    BY <1>1
  <1>3. \A a \in DOMAIN i.file : a < i.at => a < j.at
    BY <1>2
  <1>4. \A x : Behind(i, x) => Behind(j, x)
    BY <1>3 DEF Behind
  <1> QED
    BY <1>4 DEF ReadsStock

LEMMA StockSkip ==
    ASSUME StockInv, ImportsInv, NEW w \in Importer, SkipGroup(w)
    PROVE  StockInv'
  <1> DEFINE old == import[w]
             j == [old EXCEPT !.customer = Registered(old), !.at = @ + 1]
  <1>1. old.kind = "next" /\ old # Idle /\ ReadsStock(old)
    BY DEF SkipGroup, Ahead, Idle, StockInv
  <1>2. import' = [import EXCEPT ![w] = j]
    BY DEF SkipGroup, ImportsInv
  <1>3. NextFields \subseteq DOMAIN old /\ old.at \in Nat /\ "product" \in DOMAIN old
    BY <1>1 DEF ImportsInv, ImportFits, ReadsStock
  <1>4. /\ j.kind = "next" /\ j.batch = old.batch /\ j.file = old.file /\ j.at = old.at + 1
        /\ j.product = old.product /\ "product" \in DOMAIN j
    BY <1>1, <1>3 DEF NextFields
  <1>5. j # Idle
    BY <1>4 DEF Idle
  <1>6. old.product \in Shelf
    BY <1>1 DEF ReadsStock
  <1> HIDE DEF j
  <1>10. old.file \in File
    BY <1>1 DEF ImportsInv, ImportFits
  <1>7. ReadsStock(j)
    BY <1>1, <1>3, <1>4, <1>5, <1>6, <1>10, GoesOn
  <1> QED
    BY <1>1, <1>2, <1>4, <1>7, StockMoves DEF SkipGroup

LEMMA StockOpen ==
    ASSUME StockInv, ImportsInv, NEW w \in Importer, OpenGroup(w)
    PROVE  StockInv'
  <1> DEFINE old == import[w]
             made == [s \in Sku |-> IF s \in New(old)
                                     THEN [state |-> "live", by |-> old.batch, stock |-> 0]
                                     ELSE old.product[s]]
             j == [kind |-> "open", batch |-> old.batch, file |-> old.file, at |-> old.at,
                   force |-> old.force, moves |-> old.moves, made |-> New(old),
                   met |-> IF Matching(old) = {} THEN {Group(old).name} ELSE {},
                   customer |-> Registered(old), product |-> made]
  <1>1. Ahead(old) /\ old.kind = "next" /\ old # Idle /\ ReadsStock(old)
    BY DEF OpenGroup, Ahead, Idle, StockInv
  <1>2. import' = [import EXCEPT ![w] = j]
    BY DEF OpenGroup
  <1>3. old.at \in Nat /\ old.product \in Shelf /\ old.batch \in Nat
    BY <1>1 DEF ImportsInv, ImportFits, ReadsStock
  <1>4. made \in Shelf
    BY <1>3 DEF Shelf
  <1>5. New(old) \subseteq Sku
    BY <1>1, NewSkus
  <1>6. \A s \in New(old) : made[s].stock = 0
    BY <1>5
  <1>7. /\ j.kind = "open" /\ j.batch = old.batch /\ j.file = old.file /\ j.at = old.at
        /\ "product" \in DOMAIN j /\ j.product = made /\ j.made = New(old)
    OBVIOUS
  <1>8. j # Idle
    BY <1>7 DEF Idle
  <1> HIDE DEF j, made
  <1>10. old.file \in File
    BY <1>1 DEF ImportsInv, ImportFits
  <1>9. ReadsStock(j)
    BY <1>1, <1>3, <1>4, <1>6, <1>7, <1>8, <1>10, GoesOn
  <1> QED
    BY <1>1, <1>2, <1>7, <1>9, StockMoves DEF OpenGroup

LEMMA StockFail ==
    ASSUME StockInv, ImportsInv, NEW w \in Importer, FailGroup(w)
    PROVE  StockInv'
  <1> DEFINE old == import[w]
             shelf == After(old.product, old.made)
             j == [Onward(old) EXCEPT !.customer = After(@, old.met),
                                      !.product = After(@, old.made)]
  <1>1. old.kind = "open" /\ old # Idle /\ ReadsStock(old)
    BY DEF FailGroup, Idle, StockInv
  <1>2. import' = [import EXCEPT ![w] = j]
    BY DEF FailGroup
  <1>3. old.at \in Nat /\ old.product \in Shelf
    BY <1>1 DEF ImportsInv, ImportFits, ReadsStock
  <1>4. shelf \in Shelf
    BY <1>3 DEF After, Shelf
  <1>5. /\ j.kind = "next" /\ j.batch = old.batch /\ j.file = old.file /\ j.at = old.at + 1
        /\ "product" \in DOMAIN j /\ j.product = shelf
    BY DEF Onward
  <1>6. j # Idle
    BY <1>5 DEF Idle
  <1> HIDE DEF j, shelf
  <1>10. old.file \in File
    BY <1>1 DEF ImportsInv, ImportFits
  <1>7. ReadsStock(j)
    BY <1>1, <1>3, <1>4, <1>5, <1>6, <1>10, GoesOn
  <1> QED
    BY <1>1, <1>2, <1>5, <1>7, StockMoves DEF FailGroup

\* Invoices that moved a product.
Movers(s) == {x \in sale : s \in x.moved}

LEMMA MoversCount ==
    ASSUME SalesListed, NEW s
    PROVE  IsFiniteSet(Movers(s)) /\ Cardinality(Movers(s)) \in Nat
  <1>1. IsFiniteSet(Movers(s))
    BY FS_Subset DEF SalesListed, Movers
  <1> QED
    BY <1>1, FS_CardinalityType

LEMMA StockSell ==
    ASSUME StockInv, ImportsInv, NEW s \in Sku, SellOver(s)
    PROVE  StockInv'
  <1>1. /\ s \in DOMAIN goods
        /\ goods' = [goods EXCEPT ![s].stock = @ - 1, ![s].shelved = TRUE]
        /\ counter' = [counter EXCEPT ![s] = @ + 1]
        /\ UNCHANGED <<sale, import, imports, overwritten>>
    BY DEF SellOver
  <1>2. /\ goods \in [DOMAIN goods -> [by : Nat, stock : Int, shelved : BOOLEAN]]
        /\ counter \in [Sku -> Nat]
    BY DEF StockInv, GoodsKept
  <1>3. /\ DOMAIN goods' = DOMAIN goods
        /\ goods' \in [DOMAIN goods -> [by : Nat, stock : Int, shelved : BOOLEAN]]
        /\ \A t \in DOMAIN goods : /\ goods'[t].by = goods[t].by
                                   /\ goods'[t].stock = IF t = s THEN goods[t].stock - 1
                                                        ELSE goods[t].stock
    <2>1. goods'[s] = [goods[s] EXCEPT !.stock = @ - 1, !.shelved = TRUE]
      BY <1>1
    <2>2. /\ goods'[s] \in [by : Nat, stock : Int, shelved : BOOLEAN]
          /\ goods'[s].by = goods[s].by /\ goods'[s].stock = goods[s].stock - 1
      <3>1. goods[s] \in [by : Nat, stock : Int, shelved : BOOLEAN]
        BY <1>1, <1>2
      <3> PICK a, e : a = goods[s] /\ e = goods'[s]
        OBVIOUS
      <3>2. e = [a EXCEPT !.stock = a.stock - 1, !.shelved = TRUE]
        BY <2>1
      <3>3. e.by = a.by /\ e.stock = a.stock - 1 /\ e.shelved = TRUE
        BY ONLY <3>1, <3>2, a = goods[s]
      <3>5. a \in [by : Nat, stock : Int, shelved : BOOLEAN] /\ a.stock - 1 \in Int
        BY <3>1
      <3>6. e = [by |-> a.by, stock |-> a.stock - 1, shelved |-> TRUE]
        BY ONLY <3>2, <3>5
      <3>4. e \in [by : Nat, stock : Int, shelved : BOOLEAN]
        BY ONLY <3>5, <3>6
      <3> QED
        BY <3>3, <3>4
    <2>3. /\ goods' = [t \in DOMAIN goods |-> goods'[t]]
          /\ \A t \in DOMAIN goods : t # s => goods'[t] = goods[t]
      BY <1>1, <1>2
    <2> QED
      BY <1>2, <2>2, <2>3
  <1>4. /\ counter' \in [Sku -> Nat]
        /\ \A t \in Sku : counter'[t] = IF t = s THEN counter[t] + 1 ELSE counter[t]
    BY <1>1, <1>2
  <1>5. GoodsKept'
    BY <1>1, <1>3, <1>4 DEF StockInv, GoodsKept
  <1>6. SalesListed' /\ BatchesApart' /\ \A w \in Importer : ReadsStock(import[w])'
    BY <1>1, <1>3 DEF StockInv, SalesListed, BatchesApart, ReadsStock, Behind, Idle, Shelf
  <1>7. StockFollowsMoves'
    <2> SUFFICES ASSUME NEW t \in DOMAIN goods' \ overwritten'
                 PROVE  goods'[t].stock = ((IF t \in OldSku THEN OldQty ELSE 0) - counter'[t])
                                           - Cardinality({x \in sale' : t \in x.moved})
      BY DEF StockFollowsMoves
    <2> PICK q : q = IF t \in OldSku THEN OldQty ELSE 0
      OBVIOUS
    <2>1. t \in DOMAIN goods \ overwritten /\ t \in Sku /\ q \in Nat
      BY <1>1, <1>3, ImportsConstants DEF StockInv, GoodsKept
    <2>2. goods[t].stock = (q - counter[t]) - Cardinality(Movers(t))
      BY <2>1 DEF StockInv, StockFollowsMoves, Movers
    <2>3. goods[t].stock \in Int /\ counter[t] \in Nat /\ Cardinality(Movers(t)) \in Nat
      BY <1>2, <2>1, MoversCount DEF StockInv
    <2>4. /\ goods'[t].stock = (IF t = s THEN goods[t].stock - 1 ELSE goods[t].stock)
          /\ counter'[t] = IF t = s THEN counter[t] + 1 ELSE counter[t]
      BY <1>3, <1>4, <2>1
    <2>5. goods'[t].stock = (q - counter'[t]) - Cardinality(Movers(t))
      BY ONLY <2>1, <2>2, <2>3, <2>4
    <2> QED
      BY <1>1, <2>5 DEF Movers
  <1> QED
    BY <1>5, <1>6, <1>7 DEF StockInv

LEMMA StockRevert ==
    ASSUME StockInv, ImportsInv, NEW b \in 1..MaxImport, RevertSales(b)
    PROVE  StockInv'
  <1> PICK out : out = Unused(b)
    OBVIOUS
  <1>1. /\ sale' = {x \in sale : x.batch # b}
        /\ goods' = [s \in DOMAIN goods \ out |-> [goods[s] EXCEPT !.stock = @ + Back(b, s)]]
        /\ UNCHANGED <<import, imports, counter, overwritten>>
    BY DEF RevertSales
  <1>2. GoodsKept /\ SalesListed
    BY DEF StockInv
  <1>3. b \in Nat \ {0}
    OBVIOUS
  <1>4. \A s \in out : s \in DOMAIN goods /\ goods[s].by = b /\ counter[s] = 0
                       /\ \A x \in sale : s \in x.skus => x.batch = b
    BY DEF Unused
  <1>5. ASSUME NEW s
        PROVE  /\ Back(b, s) \in Nat /\ Cardinality({x \in sale' : s \in x.moved}) \in Nat
               /\ Cardinality(Movers(s)) = Back(b, s) + Cardinality({x \in sale' : s \in x.moved})
    <2> DEFINE B == {x \in sale : x.batch = b /\ s \in x.moved}
               K == {x \in sale' : s \in x.moved}
    <2>1. Movers(s) = B \cup K /\ B \cap K = {} /\ B \subseteq sale /\ K \subseteq sale
      BY <1>1 DEF Movers
    <2>2. IsFiniteSet(sale)
      BY <1>2 DEF SalesListed
    <2> HIDE DEF B, K
    <2>3. IsFiniteSet(B) /\ IsFiniteSet(K)
      BY <2>1, <2>2, FS_Subset
    <2>4. Cardinality(B) \in Nat /\ Cardinality(K) \in Nat
      BY <2>3, FS_CardinalityType
    <2>5. Cardinality(B \cup K) = Cardinality(B) + (Cardinality(K) - Cardinality(B \cap K))
      BY ONLY <2>3, FS_Union
    <2>6. Cardinality(B \cap K) = 0
      BY <2>1, FS_EmptySet
    <2> QED
      BY <2>1, <2>4, <2>5, <2>6 DEF Back, B, K
  <1>6. /\ DOMAIN goods' = DOMAIN goods \ out
        /\ goods' \in [DOMAIN goods' -> [by : Nat, stock : Int, shelved : BOOLEAN]]
        /\ \A s \in DOMAIN goods' : /\ goods'[s].by = goods[s].by
                                    /\ goods'[s].stock = goods[s].stock + Back(b, s)
    <2>1. DOMAIN goods' = DOMAIN goods \ out /\ goods' = [s \in DOMAIN goods' |-> goods'[s]]
      BY <1>1
    <2>2. ASSUME NEW s \in DOMAIN goods'
          PROVE  /\ goods'[s] \in [by : Nat, stock : Int, shelved : BOOLEAN]
                 /\ goods'[s].by = goods[s].by /\ goods'[s].stock = goods[s].stock + Back(b, s)
      <3>1. goods'[s] = [goods[s] EXCEPT !.stock = @ + Back(b, s)]
        BY <1>1
      <3>2. goods[s] \in [by : Nat, stock : Int, shelved : BOOLEAN] /\ Back(b, s) \in Nat
        BY <1>2, <1>5, <2>1 DEF GoodsKept
      <3> QED
        BY ONLY <3>1, <3>2
    <2> QED
      BY <2>1, <2>2
  <1>7. GoodsKept'
    <2>1. OldSku \subseteq DOMAIN goods'
      BY <1>2, <1>3, <1>4, <1>6 DEF GoodsKept
    <2> QED
      BY <1>1, <1>2, <1>4, <1>6, <2>1 DEF GoodsKept
  <1>8. SalesListed'
    <2>1. sale' \subseteq sale /\ IsFiniteSet(sale')
      BY <1>1, <1>2, FS_Subset DEF SalesListed
    <2>2. \A x \in sale' : x.skus \subseteq DOMAIN goods'
      BY <1>1, <1>2, <1>4, <1>6 DEF SalesListed
    <2> QED
      BY <1>1, <1>2, <2>1, <2>2 DEF SalesListed
  <1>9. BatchesApart' /\ \A w \in Importer : ReadsStock(import[w])'
    <2>1. sale' \subseteq sale /\ UNCHANGED <<import, imports>>
      BY <1>1
    <2> QED
      BY <2>1 DEF StockInv, BatchesApart, ReadsStock, Behind, Idle, Shelf
  <1>10. StockFollowsMoves'
    <2> SUFFICES ASSUME NEW t \in DOMAIN goods' \ overwritten'
                 PROVE  goods'[t].stock = ((IF t \in OldSku THEN OldQty ELSE 0) - counter'[t])
                                           - Cardinality({x \in sale' : t \in x.moved})
      BY DEF StockFollowsMoves
    <2> PICK q : q = IF t \in OldSku THEN OldQty ELSE 0
      OBVIOUS
    <2>1. t \in DOMAIN goods \ overwritten /\ t \in Sku /\ q \in Nat /\ counter' = counter
      BY <1>1, <1>2, <1>6, ImportsConstants DEF GoodsKept
    <2>2. goods[t].stock = (q - counter[t]) - Cardinality(Movers(t))
      BY <2>1 DEF StockInv, StockFollowsMoves, Movers
    <2>3. goods[t].stock \in Int /\ counter[t] \in Nat
      BY <1>2, <2>1 DEF GoodsKept
    <2>4. goods'[t].stock = goods[t].stock + Back(b, t)
      BY <1>6
    <2> PICK n, m, k : /\ n = Cardinality(Movers(t)) /\ m = Back(b, t)
                       /\ k = Cardinality({x \in sale' : t \in x.moved})
      OBVIOUS
    <2>5. m \in Nat /\ k \in Nat /\ n = m + k
      BY <1>5
    <2>6. goods'[t].stock = (q - counter'[t]) - k
      BY <2>1, <2>2, <2>3, <2>4, <2>5
    <2> QED
      BY <2>6
  <1> QED
    BY <1>7, <1>8, <1>9, <1>10 DEF StockInv

\* A group has no invoice of its own before it is committed.
LEMMA GroupIsNew ==
    ASSUME NEW j, ReadsStock(j), j # Idle, j.file \in File, j.at \in Nat \ {0}, j.at <= Len(j.file),
           NEW x \in sale, x.batch = j.batch, x.customer[1] = Group(j).name
    PROVE  x.date # Group(j).date
  <1>1. j.file \in Seq([name : Name, date : Int, skus : SUBSET Sku])
    BY ImportsConstants
  <1>2. j.at \in DOMAIN j.file /\ \A a \in DOMAIN j.file : a \in Nat
    BY <1>1
  <1>3. PICK a \in DOMAIN j.file :
            a < j.at /\ x.customer[1] = j.file[a].name /\ x.date = j.file[a].date
    BY DEF ReadsStock, Behind
  <1>4. a # j.at
    BY <1>2, <1>3
  <1>5. j.file[a].name = j.file[j.at].name
    BY <1>3 DEF Group
  <1>6. j.file[a].date # j.file[j.at].date
    BY <1>2, <1>4, <1>5, ImportsConstants
  <1> QED
    BY <1>3, <1>6 DEF Group

LEMMA StockCommit ==
    ASSUME StockInv, ImportsInv, NEW w \in Importer, CommitGroup(w)
    PROVE  StockInv'
  <1> DEFINE j == import[w]
             g == Group(j)
             c == <<g.name, j.customer[g.name].by>>
             moved == IF j.moves THEN g.skus ELSE {}
             left(s) == j.product[s].stock - (IF s \in moved THEN 1 ELSE 0)
             x == [batch |-> j.batch, customer |-> c, date |-> g.date,
                   skus |-> g.skus, moved |-> moved]
             shelf == [s \in Sku |-> [j.product[s] EXCEPT !.stock = left(s)]]
             k == [Onward(j) EXCEPT !.product = shelf]
  <1>1. j.kind = "open" /\ j # Idle /\ ReadsStock(j) /\ ImportFits(j)
    BY DEF CommitGroup, Idle, StockInv, ImportsInv
  <1>2. /\ j.file \in File /\ j.at \in Nat \ {0} /\ j.at <= Len(j.file)
        /\ j.made \subseteq g.skus /\ g.skus \subseteq Sku
        /\ \A s \in j.made : j.product[s].by = j.batch
        /\ j.made \cap DOMAIN goods = {}
    <2>1. j.made \cap DOMAIN goods = {}
      BY <1>1 DEF ImportsInv, MadeApart
    <2> QED
      BY <1>1, <2>1, GroupType DEF ImportFits
  <1>3. /\ j.product \in Shelf /\ j.batch \in 1..imports
        /\ \A s \in j.made : j.product[s].stock = 0
        /\ \A y \in sale : y.batch = j.batch => Behind(j, y)
    BY <1>1 DEF ReadsStock
  <1>4. \A s \in g.skus : s \in j.made \/ (s \in DOMAIN goods /\ goods[s].by = j.product[s].by)
    BY DEF CommitGroup, Sound
  <1>5. sale' = sale \cup {x} /\ UNCHANGED <<counter, imports>>
    BY DEF CommitGroup
  <1>6. goods' = [s \in DOMAIN goods \cup j.made |->
                   IF s \in moved THEN [by |-> j.product[s].by, stock |-> left(s), shelved |-> TRUE]
                   ELSE IF s \in j.made THEN [by |-> j.batch, stock |-> 0, shelved |-> FALSE]
                   ELSE goods[s]]
    BY DEF CommitGroup
  <1>7. import' = [import EXCEPT ![w] = k]
    BY DEF CommitGroup
  <1>8. /\ overwritten \subseteq overwritten'
        /\ \A s \in (moved \cap DOMAIN goods) \ overwritten' : goods[s].stock = j.product[s].stock
    BY DEF CommitGroup
  <1>9. shelf \in Shelf
    <2>1. \A s \in Sku : j.product[s] \in [state : {"none", "live", "stale", "dead"}, by : Nat, stock : Int]
      BY <1>3 DEF Shelf
    <2>2. \A s \in Sku : left(s) \in Int
      BY <1>3 DEF Shelf
    <2> HIDE DEF j, left, moved
    <2>3. \A s \in Sku : [j.product[s] EXCEPT !.stock = left(s)]
                              \in [state : {"none", "live", "stale", "dead"}, by : Nat, stock : Int]
      BY ONLY <2>1, <2>2
    <2> QED
      BY <2>3 DEF Shelf
  <1>10. /\ k.kind = "next" /\ k.batch = j.batch /\ k.file = j.file /\ k.at = j.at + 1
         /\ "product" \in DOMAIN k /\ k.product = shelf
    BY DEF Onward
  <1>11. /\ x.batch = j.batch /\ x.customer[1] = g.name /\ x.date = g.date
         /\ x.skus = g.skus /\ x.moved = moved
    OBVIOUS
  <1>12. moved \subseteq g.skus
    OBVIOUS
  <1>13. k # Idle
    BY <1>10 DEF Idle
  <1> PICK m : m = moved
    OBVIOUS
  <1>14. /\ DOMAIN goods' = DOMAIN goods \cup j.made
         /\ goods' \in [DOMAIN goods' -> [by : Nat, stock : Int, shelved : BOOLEAN]]
         /\ \A s \in DOMAIN goods' :
              goods'[s].stock = IF s \in m THEN j.product[s].stock - 1
                                ELSE IF s \in j.made THEN 0 ELSE goods[s].stock
         /\ \A s \in DOMAIN goods : goods'[s].by = goods[s].by
    <2>1. goods \in [DOMAIN goods -> [by : Nat, stock : Int, shelved : BOOLEAN]]
      BY DEF StockInv, GoodsKept
    <2>2. DOMAIN goods' = DOMAIN goods \cup j.made /\ goods' = [s \in DOMAIN goods' |-> goods'[s]]
      BY <1>6
    <2>3. ASSUME NEW s \in DOMAIN goods'
          PROVE  /\ goods'[s] \in [by : Nat, stock : Int, shelved : BOOLEAN]
                 /\ goods'[s].stock = IF s \in m THEN j.product[s].stock - 1
                                      ELSE IF s \in j.made THEN 0 ELSE goods[s].stock
                 /\ s \in DOMAIN goods => goods'[s].by = goods[s].by
      <3>1. CASE s \in m
        <4>1. goods'[s] = [by |-> j.product[s].by, stock |-> j.product[s].stock - 1, shelved |-> TRUE]
          BY <1>6, <2>2, <3>1
        <4>2. j.product[s].by \in Nat /\ j.product[s].stock \in Int
          BY <1>2, <1>3, <1>12, <3>1 DEF Shelf
        <4>3. s \in DOMAIN goods => j.product[s].by = goods[s].by
          BY <1>2, <1>4, <1>12, <3>1
        <4> HIDE DEF j, moved
        <4> QED
          BY <3>1, <4>1, <4>2, <4>3
      <3>2. CASE s \notin m /\ s \in j.made
        <4>1. goods'[s] = [by |-> j.batch, stock |-> 0, shelved |-> FALSE]
          BY <1>6, <2>2, <3>2
        <4>2. j.batch \in Nat /\ s \notin DOMAIN goods
          BY <1>2, <1>3, <3>2
        <4> HIDE DEF j, moved
        <4> QED
          BY <3>2, <4>1, <4>2
      <3>3. CASE s \notin m /\ s \notin j.made
        <4>1. goods'[s] = goods[s] /\ s \in DOMAIN goods
          BY <1>6, <2>2, <3>3
        <4> HIDE DEF j, moved
        <4> QED
          BY <2>1, <3>3, <4>1
      <3> QED
        BY <3>1, <3>2, <3>3
    <2> QED
      BY <2>2, <2>3
  <1>15. m \subseteq DOMAIN goods'
    BY <1>4, <1>12, <1>14
  <1> HIDE DEF shelf, k, x
  <1>16. x \notin sale
    BY <1>1, <1>2, <1>11, GroupIsNew
  <1>17. GoodsKept'
    BY <1>2, <1>5, <1>14 DEF StockInv, GoodsKept
  <1>18. SalesListed'
    <2>1. IsFiniteSet(sale')
      BY <1>5, FS_AddElement DEF StockInv, SalesListed
    <2>2. g.skus \subseteq DOMAIN goods'
      BY <1>4, <1>14
    <2> QED
      BY <1>3, <1>5, <1>11, <1>12, <1>14, <2>1, <2>2 DEF StockInv, SalesListed
  <1>19. \A v \in Importer : import'[v] = IF v = w THEN k ELSE import[v]
    BY <1>7 DEF ImportsInv
  <1>20. BatchesApart'
    BY <1>1, <1>10, <1>19 DEF StockInv, BatchesApart, Idle
  <1>21. ASSUME NEW v \in Importer PROVE ReadsStock(import[v])'
    <2>1. CASE v = w
      <3>1. ReadsStock(k)
        BY <1>1, <1>2, <1>9, <1>10, <1>13, GoesOn
      <3>2. Behind(k, x)
        <4>1. j.file \in Seq([name : Name, date : Int, skus : SUBSET Sku])
          BY <1>2, ImportsConstants
        <4>2. j.at \in DOMAIN j.file /\ j.at < j.at + 1
          BY <1>2, <4>1
        <4> QED
          BY <1>10, <1>11, <4>2 DEF Behind, Group
      <3>3. import'[v] = k
        BY <1>19, <2>1
      <3> QED
        BY <1>5, <1>10, <3>1, <3>2, <3>3 DEF ReadsStock, Behind, Shelf, Idle
    <2>2. CASE v # w
      <3>1. ReadsStock(import[v]) /\ import'[v] = import[v]
        BY <1>19, <2>2 DEF StockInv
      <3>2. import[v] # Idle => import[v].batch # x.batch
        BY <1>1, <1>11, <2>2 DEF StockInv, BatchesApart
      <3> QED
        BY <1>5, <3>1, <3>2 DEF ReadsStock, Behind, Shelf, Idle
    <2> QED
      BY <2>1, <2>2
  <1>22. StockFollowsMoves'
    <2> SUFFICES ASSUME NEW t \in DOMAIN goods' \ overwritten'
                 PROVE  goods'[t].stock = ((IF t \in OldSku THEN OldQty ELSE 0) - counter'[t])
                                           - Cardinality({y \in sale' : t \in y.moved})
      BY DEF StockFollowsMoves
    <2> PICK q : q = IF t \in OldSku THEN OldQty ELSE 0
      OBVIOUS
    <2> PICK n : n = Cardinality(Movers(t))
      OBVIOUS
    <2>1. t \in Sku /\ q \in Nat /\ counter' = counter /\ t \notin overwritten /\ counter[t] \in Nat
      BY <1>5, <1>8, <1>17, ImportsConstants DEF GoodsKept
    <2>2. IsFiniteSet(Movers(t)) /\ n \in Nat
      BY MoversCount DEF StockInv
    <2>3. Cardinality({y \in sale' : t \in y.moved}) = IF t \in m THEN n + 1 ELSE n
      <3>1. CASE t \in m
        <4>1. {y \in sale' : t \in y.moved} = Movers(t) \cup {x} /\ x \notin Movers(t)
          BY <1>5, <1>11, <1>16, <3>1 DEF Movers
        <4>2. Cardinality(Movers(t) \cup {x}) = n + 1
          BY ONLY <2>2, <4>1, n = Cardinality(Movers(t)), FS_AddElement
        <4> QED
          BY <3>1, <4>1, <4>2
      <3>2. CASE t \notin m
        <4>1. {y \in sale' : t \in y.moved} = Movers(t)
          BY <1>5, <1>11, <3>2 DEF Movers
        <4> QED
          BY <3>2, <4>1
      <3> QED
        BY <3>1, <3>2
    <2>4. CASE t \in DOMAIN goods
      <3>1. goods[t].stock = (q - counter[t]) - n
        BY <2>1, <2>4 DEF StockInv, StockFollowsMoves, Movers
      <3>2. t \notin j.made /\ (t \in m => j.product[t].stock = goods[t].stock)
        BY <1>2, <1>8, <2>4
      <3>3. goods'[t].stock = IF t \in m THEN goods[t].stock - 1 ELSE goods[t].stock
        BY <1>14, <3>2
      <3>4. goods'[t].stock = (q - counter[t]) - (IF t \in m THEN n + 1 ELSE n)
        BY ONLY <2>1, <2>2, <3>1, <3>3
      <3> QED
        BY <2>1, <2>3, <3>4
    <2>5. CASE t \notin DOMAIN goods
      <3>1. t \in j.made /\ j.product[t].stock = 0
        BY <1>3, <1>14, <2>5
      <3>2. counter[t] = 0 /\ q = 0
        BY <2>1, <2>5 DEF StockInv, GoodsKept
      <3>3. Movers(t) = {}
        BY <2>5 DEF StockInv, SalesListed, Movers
      <3>4. n = 0
        BY <3>3, FS_EmptySet
      <3>5. goods'[t].stock = IF t \in m THEN 0 - 1 ELSE 0
        BY <1>14, <3>1
      <3>6. goods'[t].stock = (q - counter[t]) - (IF t \in m THEN n + 1 ELSE n)
        BY ONLY <3>2, <3>4, <3>5
      <3> QED
        BY <2>1, <2>3, <3>6
    <2> QED
      BY <2>4, <2>5
  <1> QED
    BY <1>17, <1>18, <1>20, <1>21, <1>22 DEF StockInv

LEMMA StockInvStep == StockInv /\ ImportsInv /\ [ImportsNext]_importsVars => StockInv'
  <1> SUFFICES ASSUME StockInv, ImportsInv, [ImportsNext]_importsVars PROVE StockInv'
    OBVIOUS
  <1>1. CASE UNCHANGED importsVars
    <2>1. (GoodsKept /\ SalesListed /\ BatchesApart /\ StockFollowsMoves)'
      BY <1>1 DEF importsVars, StockInv, GoodsKept, SalesListed, BatchesApart, StockFollowsMoves
    <2>2. ASSUME NEW w \in Importer PROVE ReadsStock(import[w])'
      BY <1>1 DEF importsVars, StockInv, ReadsStock, Behind, Shelf, Idle
    <2> QED
      BY <2>1, <2>2 DEF StockInv
  <1> QED
    BY <1>1, StockStart, StockEnds, StockSkip, StockOpen, StockCommit, StockFail, StockRevert,
       StockSell
    DEF ImportsNext

\* Through imports, reverts and sales at the counter, stock is what there was less
\* what was moved and sold, but for products sold between an import's loading and
\* its writing (sales_import_service.py:425-447, import_data.py:457-478).
THEOREM StockIsWhatWasMoved == ImportsSpec => []StockFollowsMoves
  <1>1. StockInv => StockFollowsMoves
    BY DEF StockInv
  <1> QED
    BY <1>1, StockInvInit, StockInvStep, ImportsInvHolds, PTL DEF ImportsSpec
-----------------------------------------------------------------------------
\* What was made was made by an import that has begun, and so was what a session
\* holds of it.
OriginsFit(j) ==
    j # Idle =>
      /\ j.batch \in 1..imports
      /\ \A s \in Sku : j.product[s].by \in 0..imports
      /\ \A n \in Name : j.customer[n].state # "none" => j.customer[n].by \in 1..imports

OriginsInv ==
    /\ imports \in 0..MaxImport /\ faults \in 0..MaxFault
    /\ customer \subseteq Name \X (1..imports)
    /\ \A s \in DOMAIN goods : goods[s].by \in 0..imports
    /\ \A w \in Importer : OriginsFit(import[w])

LEMMA OriginsInvInit == ImportsInit => OriginsInv
  <1> SUFFICES ASSUME ImportsInit PROVE OriginsInv
    OBVIOUS
  <1>1. imports \in 0..MaxImport /\ faults \in 0..MaxFault
    BY ImportsConstants DEF ImportsInit
  <1>2. customer = {} /\ \A w \in Importer : import[w] = Idle
    BY DEF ImportsInit
  <1>3. \A s \in DOMAIN goods : goods[s].by \in 0..imports
    BY DEF ImportsInit
  <1> QED
    BY <1>1, <1>2, <1>3 DEF OriginsInv, OriginsFit

\* A session moves, and no other import begins.
LEMMA OriginsStay ==
    ASSUME ImportsInv, OriginsInv, NEW w \in Importer, NEW j, OriginsFit(j),
           import' = [import EXCEPT ![w] = j],
           UNCHANGED <<goods, customer, imports>>, faults' \in 0..MaxFault
    PROVE  OriginsInv'
  <1>1. \A v \in Importer : import'[v] = IF v = w THEN j ELSE import[v]
    BY DEF ImportsInv
  <1>2. \A v \in Importer : OriginsFit(import[v])'
    BY <1>1 DEF OriginsInv, OriginsFit, Idle
  <1> QED
    BY <1>2 DEF OriginsInv

LEMMA IdleOrigins == OriginsFit(Idle)
  BY DEF OriginsFit

LEMMA OriginsEnd ==
    ASSUME ImportsInv, OriginsInv, NEW w \in Importer,
           Die(w) \/ EndSalesImport(w) \/ CutImport(w)
    PROVE  OriginsInv'
  <1>1. faults' \in 0..MaxFault
    BY ImportsConstants DEF Die, EndSalesImport, CutImport, OriginsInv
  <1> QED
    BY <1>1, IdleOrigins, OriginsStay DEF Die, EndSalesImport, CutImport

LEMMA OriginsStart ==
    ASSUME ImportsInv, OriginsInv, NEW w \in Importer, NEW file \in File,
           NEW force \in BOOLEAN, NEW moves \in BOOLEAN,
           StartSalesImport(w, file, force, moves)
    PROVE  OriginsInv'
  <1> DEFINE shelf == [s \in Sku |-> IF s \in DOMAIN goods
                                     THEN [state |-> "live", by |-> goods[s].by,
                                           stock |-> goods[s].stock]
                                     ELSE None]
             j == [kind |-> "next", batch |-> imports + 1, file |-> file, at |-> 1,
                   force |-> force, moves |-> moves, product |-> shelf,
                   customer |-> [n \in Name |-> None]]
  <1>1. /\ import' = [import EXCEPT ![w] = j] /\ imports' = imports + 1 /\ imports < MaxImport
        /\ UNCHANGED <<goods, customer, faults>>
    BY DEF StartSalesImport
  <1>2. /\ imports' \in 0..MaxImport /\ 1..imports \subseteq 1..imports'
        /\ 0..imports \subseteq 0..imports' /\ imports + 1 \in 1..imports'
    BY <1>1, ImportsConstants DEF OriginsInv
  <1>3. \A s \in Sku : shelf[s].by \in 0..imports'
    BY <1>2 DEF OriginsInv, None
  <1>4. j.batch \in 1..imports' /\ j.product = shelf /\ \A n \in Name : j.customer[n].state = "none"
    BY <1>2 DEF None
  <1> HIDE DEF j, shelf
  <1>5. \A v \in Importer : import'[v] = IF v = w THEN j ELSE import[v]
    BY <1>1 DEF ImportsInv
  <1>6. \A v \in Importer : OriginsFit(import[v])'
    BY <1>2, <1>3, <1>4, <1>5 DEF OriginsInv, OriginsFit, Idle
  <1>7. customer' \subseteq Name \X (1..imports') /\ \A s \in DOMAIN goods' : goods'[s].by \in 0..imports'
    BY <1>1, <1>2 DEF OriginsInv
  <1> QED
    BY <1>1, <1>2, <1>6, <1>7 DEF OriginsInv

\* The customer a group finds was made by an import that has begun, or is made by
\* this one.
LEMMA RegisteredOrigins ==
    ASSUME OriginsInv, NEW j, j # Idle, OriginsFit(j), Group(j).name \in Name,
           DOMAIN j.customer = Name
    PROVE  \A n \in Name : Registered(j)[n].state # "none" => Registered(j)[n].by \in 1..imports
  <1> DEFINE g == Group(j).name
             m == IF Matching(j) = {} THEN j.batch ELSE (CHOOSE c \in Matching(j) : TRUE)[2]
  <1>1. j.batch \in 1..imports
    BY DEF OriginsFit
  <1>2. j.customer[g].state = "none" => m \in 1..imports
    <2> SUFFICES ASSUME j.customer[g].state = "none", Matching(j) # {} PROVE m \in 1..imports
      BY <1>1
    <2> PICK d : d = CHOOSE c \in Matching(j) : TRUE
      OBVIOUS
    <2>1. d \in Matching(j)
      OBVIOUS
    <2>2. d \in customer
      BY <2>1 DEF Matching
    <2>3. d[2] \in 1..imports
      BY <2>2 DEF OriginsInv
    <2> QED
      BY <2>3
  <1> HIDE DEF m
  <1>3. Registered(j) = [j.customer EXCEPT ![g] = IF j.customer[g].state # "none" THEN j.customer[g]
                           ELSE [state |-> "live", stock |-> 0, by |-> m]]
    BY DEF Registered, m
  <1>4. ASSUME NEW n \in Name, Registered(j)[n].state # "none"
        PROVE  Registered(j)[n].by \in 1..imports
    <2>1. CASE n = g /\ j.customer[g].state = "none"
      <3>1. Registered(j)[n] = [state |-> "live", stock |-> 0, by |-> m]
        BY ONLY <1>3, <2>1, DOMAIN j.customer = Name, n \in Name
      <3> QED
        BY <1>2, <2>1, <3>1
    <2>2. CASE ~(n = g /\ j.customer[g].state = "none")
      <3>1. Registered(j)[n] = j.customer[n]
        BY ONLY <1>3, <2>2, DOMAIN j.customer = Name, n \in Name
      <3> QED
        BY <1>4, <3>1 DEF OriginsFit
    <2> QED
      BY <2>1, <2>2
  <1> QED
    BY <1>4

\* What holds of a session before it takes up a group.
LEMMA AheadOrigins ==
    ASSUME ImportsInv, OnceInv, OriginsInv, NEW w \in Importer, Ahead(import[w])
    PROVE  LET j == import[w]
           IN  /\ j # Idle /\ j.kind = "next" /\ OriginsFit(j)
               /\ NextFields \subseteq DOMAIN j
               /\ \A n \in Name : Registered(j)[n].state # "none" => Registered(j)[n].by \in 1..imports
  <1> DEFINE j == import[w]
  <1>1. j.kind = "next" /\ j # Idle /\ j.at <= Len(j.file) /\ ImportFits(j) /\ OriginsFit(j)
    BY DEF Ahead, Idle, ImportsInv, OriginsInv
  <1>2. j.file \in File /\ j.at \in Nat \ {0} /\ NextFields \subseteq DOMAIN j
    BY <1>1 DEF ImportFits
  <1>3. KnowsItsGroup(w, j)
    BY DEF OnceInv
  <1>4. DOMAIN j.customer = Name
    BY <1>1, <1>3 DEF KnowsItsGroup, Registry
  <1> HIDE DEF j
  <1>5. Group(j).name \in Name
    BY <1>1, <1>2, GroupType
  <1>6. \A n \in Name : Registered(j)[n].state # "none" => Registered(j)[n].by \in 1..imports
    BY <1>1, <1>4, <1>5, RegisteredOrigins
  <1> QED
    BY <1>1, <1>2, <1>6 DEF j

LEMMA OriginsSkip ==
    ASSUME ImportsInv, OnceInv, OriginsInv, NEW w \in Importer, SkipGroup(w)
    PROVE  OriginsInv'
  <1> DEFINE old == import[w]
             j == [old EXCEPT !.customer = Registered(old), !.at = @ + 1]
  <1>1. /\ old # Idle /\ OriginsFit(old) /\ NextFields \subseteq DOMAIN old
        /\ \A n \in Name : Registered(old)[n].state # "none" => Registered(old)[n].by \in 1..imports
    BY AheadOrigins DEF SkipGroup
  <1>2. import' = [import EXCEPT ![w] = j]
    BY DEF SkipGroup, ImportsInv
  <1>3. j.batch = old.batch /\ j.product = old.product /\ j.customer = Registered(old)
    BY <1>1 DEF NextFields
  <1> HIDE DEF j
  <1>4. OriginsFit(j)
    BY <1>1, <1>3 DEF OriginsFit
  <1>5. faults' \in 0..MaxFault /\ UNCHANGED <<goods, customer, imports>>
    BY DEF SkipGroup, OriginsInv
  <1> QED
    BY <1>2, <1>4, <1>5, OriginsStay

LEMMA OriginsOpen ==
    ASSUME ImportsInv, OnceInv, OriginsInv, NEW w \in Importer, OpenGroup(w)
    PROVE  OriginsInv'
  <1> DEFINE old == import[w]
             made == [s \in Sku |-> IF s \in New(old)
                                     THEN [state |-> "live", by |-> old.batch, stock |-> 0]
                                     ELSE old.product[s]]
             j == [kind |-> "open", batch |-> old.batch, file |-> old.file, at |-> old.at,
                   force |-> old.force, moves |-> old.moves, made |-> New(old),
                   met |-> IF Matching(old) = {} THEN {Group(old).name} ELSE {},
                   customer |-> Registered(old), product |-> made]
  <1>1. /\ old # Idle /\ OriginsFit(old)
        /\ \A n \in Name : Registered(old)[n].state # "none" => Registered(old)[n].by \in 1..imports
    BY AheadOrigins DEF OpenGroup
  <1>2. import' = [import EXCEPT ![w] = j]
    BY DEF OpenGroup
  <1>3. \A s \in Sku : made[s].by \in 0..imports
    BY <1>1 DEF OriginsFit
  <1>4. j.batch = old.batch /\ j.product = made /\ j.customer = Registered(old)
    OBVIOUS
  <1> HIDE DEF j, made
  <1>5. OriginsFit(j)
    BY <1>1, <1>3, <1>4 DEF OriginsFit
  <1>6. faults' \in 0..MaxFault /\ UNCHANGED <<goods, customer, imports>>
    BY DEF OpenGroup, OriginsInv
  <1> QED
    BY <1>2, <1>5, <1>6, OriginsStay

LEMMA OriginsFail ==
    ASSUME ImportsInv, OnceInv, StockInv, OriginsInv, NEW w \in Importer, FailGroup(w)
    PROVE  OriginsInv'
  <1> DEFINE old == import[w]
             who == After(old.customer, old.met)
             shelf == After(old.product, old.made)
             j == [Onward(old) EXCEPT !.customer = After(@, old.met),
                                      !.product = After(@, old.made)]
  <1>1. old.kind = "open" /\ old # Idle /\ OriginsFit(old)
    BY DEF FailGroup, Idle, OriginsInv
  <1>2. old.product \in Shelf /\ old.customer \in Registry
    BY <1>1 DEF StockInv, ReadsStock, OnceInv, KnowsItsGroup
  <1>3. \A s \in Sku : shelf[s].by = old.product[s].by
    BY <1>2 DEF After, Shelf
  <1>4. \A n \in Name : /\ who[n].by = old.customer[n].by
                        /\ who[n].state # "none" => old.customer[n].state # "none"
    BY <1>2 DEF After, Registry
  <1>5. import' = [import EXCEPT ![w] = j]
    BY DEF FailGroup
  <1>6. j.batch = old.batch /\ j.product = shelf /\ j.customer = who
    BY DEF Onward
  <1>7. j # Idle
    BY DEF Onward, Idle
  <1> HIDE DEF j, shelf, who
  <1>8. OriginsFit(j)
    <2>1. /\ old.batch \in 1..imports
          /\ \A s \in Sku : old.product[s].by \in 0..imports
          /\ \A n \in Name : old.customer[n].state # "none" => old.customer[n].by \in 1..imports
      BY <1>1 DEF OriginsFit
    <2> HIDE DEF old
    <2>2. j.batch \in 1..imports
      BY <1>6, <2>1
    <2>3. ASSUME NEW s \in Sku PROVE j.product[s].by \in 0..imports
      BY <1>3, <1>6, <2>1
    <2>4. ASSUME NEW n \in Name, j.customer[n].state # "none"
          PROVE  j.customer[n].by \in 1..imports
      <3>1. who[n].by = old.customer[n].by /\ old.customer[n].state # "none"
        BY <1>4, <1>6, <2>4
      <3> QED
        BY <1>6, <2>1, <3>1
    <2> QED
      BY <2>2, <2>3, <2>4 DEF OriginsFit
  <1>9. faults' \in 0..MaxFault
    BY ImportsConstants DEF FailGroup, OriginsInv
  <1>10. UNCHANGED <<goods, customer, imports>>
    BY DEF FailGroup
  <1> QED
    BY <1>5, <1>8, <1>9, <1>10, OriginsStay

LEMMA OriginsCommit ==
    ASSUME ImportsInv, OnceInv, StockInv, OriginsInv, NEW w \in Importer, CommitGroup(w)
    PROVE  OriginsInv'
  <1> DEFINE j == import[w]
             g == Group(j)
             c == <<g.name, j.customer[g.name].by>>
             moved == IF j.moves THEN g.skus ELSE {}
             left(s) == j.product[s].stock - (IF s \in moved THEN 1 ELSE 0)
             shelf == [s \in Sku |-> [j.product[s] EXCEPT !.stock = left(s)]]
             k == [Onward(j) EXCEPT !.product = shelf]
  <1>1. j.kind = "open" /\ j # Idle /\ OriginsFit(j) /\ ImportFits(j)
    BY DEF CommitGroup, Idle, OriginsInv, ImportsInv
  <1>2. g.name \in Name /\ g.skus \subseteq Sku /\ j.made \subseteq Sku
    BY <1>1, GroupType DEF ImportFits
  <1>3. j.customer[g.name].state = "live"
    BY DEF CommitGroup, Sound
  <1>4. c \in Name \X (1..imports)
    BY <1>1, <1>2, <1>3 DEF OriginsFit
  <1>5. /\ customer' = customer \cup {c} /\ UNCHANGED <<imports, faults>>
        /\ import' = [import EXCEPT ![w] = k]
    BY DEF CommitGroup
  <1>6. goods' = [s \in DOMAIN goods \cup j.made |->
                   IF s \in moved THEN [by |-> j.product[s].by, stock |-> left(s), shelved |-> TRUE]
                   ELSE IF s \in j.made THEN [by |-> j.batch, stock |-> 0, shelved |-> FALSE]
                   ELSE goods[s]]
    BY DEF CommitGroup
  <1>7. \A s \in DOMAIN goods' : goods'[s].by \in 0..imports
    <2>1. moved \subseteq Sku
      BY <1>2
    <2>2. \A s \in moved : j.product[s].by \in 0..imports
      BY <1>1, <2>1 DEF OriginsFit
    <2>3. j.batch \in 0..imports
      BY <1>1 DEF OriginsFit
    <2>4. \A s \in DOMAIN goods : goods[s].by \in 0..imports
      BY DEF OriginsInv
    <2> HIDE DEF j, moved, left
    <2> QED
      BY <1>6, <2>2, <2>3, <2>4
  <1>8. \A s \in Sku : shelf[s].by = j.product[s].by
    <2>1. j.product \in Shelf
      BY <1>1 DEF StockInv, ReadsStock
    <2>2. \A s \in Sku : j.product[s] \in [state : {"none", "live", "stale", "dead"}, by : Nat, stock : Int]
      BY <2>1 DEF Shelf
    <2> HIDE DEF j, left
    <2> QED
      BY <2>2
  <1>9. k.batch = j.batch /\ k.product = shelf /\ k.customer = j.customer
    BY DEF Onward
  <1> HIDE DEF k, shelf, c
  <1>10. \A v \in Importer : import'[v] = IF v = w THEN k ELSE import[v]
    BY <1>5 DEF ImportsInv
  <1>11. OriginsFit(k)
    BY <1>1, <1>8, <1>9 DEF OriginsFit
  <1>12. \A v \in Importer : OriginsFit(import[v])'
    <2>1. \A v \in Importer : OriginsFit(import'[v])
      BY <1>10, <1>11 DEF OriginsInv
    <2> QED
      BY <1>5, <2>1 DEF OriginsFit, Idle
  <1> QED
    BY <1>4, <1>5, <1>7, <1>12 DEF OriginsInv

LEMMA OriginsElse ==
    ASSUME ImportsInv, OriginsInv,
           \/ \E b \in 1..MaxImport : RevertSales(b)
           \/ \E s \in Sku : SellOver(s)
           \/ UNCHANGED importsVars
    PROVE  OriginsInv'
  <1>1. /\ customer' \subseteq customer /\ UNCHANGED <<import, imports, faults>>
        /\ DOMAIN goods' \subseteq DOMAIN goods
    BY DEF RevertSales, SellOver, importsVars
  <1>2. \A s \in DOMAIN goods' : goods'[s].by = goods[s].by
    <2>1. \A s \in DOMAIN goods : DOMAIN goods[s] = {"by", "stock", "shelved"}
      BY DEF ImportsInv
    <2>2. ASSUME NEW b \in 1..MaxImport, RevertSales(b), NEW s \in DOMAIN goods'
          PROVE  goods'[s].by = goods[s].by
      <3>1. s \in DOMAIN goods /\ goods'[s] = [goods[s] EXCEPT !.stock = @ + Back(b, s)]
        BY <2>2 DEF RevertSales
      <3> QED
        BY <2>1, <3>1
    <2>3. ASSUME NEW s \in Sku, SellOver(s), NEW t \in DOMAIN goods'
          PROVE  goods'[t].by = goods[t].by
      BY <2>1, <2>3 DEF SellOver
    <2> QED
      BY <2>2, <2>3 DEF importsVars
  <1> QED
    BY <1>1, <1>2 DEF OriginsInv, OriginsFit, Idle

LEMMA OriginsInvStep ==
    ImportsInv /\ OnceInv /\ StockInv /\ OriginsInv /\ [ImportsNext]_importsVars => OriginsInv'
  BY OriginsStart, OriginsEnd, OriginsSkip, OriginsOpen, OriginsCommit, OriginsFail, OriginsElse
  DEF ImportsNext

LEMMA OriginsAreTyped == OnceInv /\ StockInv /\ OriginsInv => ImportsTypeOK
  <1> SUFFICES ASSUME OnceInv, StockInv, OriginsInv PROVE ImportsTypeOK
    OBVIOUS
  <1>1. imports \in Nat /\ MaxImport \in Nat /\ imports <= MaxImport
    BY ImportsConstants DEF OriginsInv
  <1>2. 1..imports \subseteq 1..MaxImport /\ 0..imports \subseteq 0..MaxImport
    BY <1>1
  <1>3. ASSUME NEW s \in DOMAIN goods
        PROVE  goods[s] \in [by : 0..MaxImport, stock : Int, shelved : BOOLEAN]
    <2>1. goods[s] \in [by : Nat, stock : Int, shelved : BOOLEAN] /\ goods[s].by \in 0..MaxImport
      BY <1>2 DEF StockInv, GoodsKept, OriginsInv
    <2> QED
      BY ONLY <2>1
  <1>4. \A x \in sale : x.batch \in 1..MaxImport /\ x.customer \in customer /\ x.skus \subseteq DOMAIN goods
    BY <1>2 DEF StockInv, SalesListed, OnceInv
  <1> QED
    BY <1>2, <1>3, <1>4 DEF ImportsTypeOK, OriginsInv, StockInv, GoodsKept

\* Products, customers and invoices of past sales are typed; what was made was made by
\* an import that has begun, and every invoice has its customer, its products and its
\* batch (sales_import_service.py:246-380, import_data.py:500-540).
THEOREM ImportsAreTyped == ImportsSpec => []ImportsTypeOK
  <1>1. ImportsInit => ImportsInv /\ OnceInv /\ StockInv /\ OriginsInv
    BY ImportsInvInit, OnceInvInit, StockInvInit, OriginsInvInit
  <1>2. ImportsInv /\ OnceInv /\ StockInv /\ OriginsInv /\ [ImportsNext]_importsVars
          => (ImportsInv /\ OnceInv /\ StockInv /\ OriginsInv)'
    BY ImportsInvStep, OnceInvStep, StockInvStep, OriginsInvStep
  <1>3. OnceInv /\ StockInv /\ OriginsInv => ImportsTypeOK
    BY OriginsAreTyped
  <1> QED
    BY <1>1, <1>2, <1>3, PTL DEF ImportsSpec
=============================================================================
