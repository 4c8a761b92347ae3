------------------------------- MODULE Imports -------------------------------
(***************************************************************************)
(* Import of past retail sales (app/services/sales_import_service.py) and  *)
(* the revert of a batch (delete_import_batch in import_data.py).          *)
(*                                                                         *)
(* The rows of a file are grouped by customer and date; each group becomes *)
(* one invoice in a transaction of its own.  A group that fails is rolled  *)
(* back and reported, and the import goes on, in the same session: what    *)
(* the session had loaded is expired by the rollback, and what it had      *)
(* inserted no longer exists, but both stay in the registries the import   *)
(* looks customers and products up in.                                     *)
(*                                                                         *)
(* Quantities are one unit a line.                                         *)
(***************************************************************************)
EXTENDS Integers, FiniteSets, Sequences, Functions

CONSTANTS
    Importer,       \* requests that may be in flight, numbered
    Sku,
    Name,           \* customers' names
    OldSku,         \* products there are before any import
    OldQty,         \* the stock of each of them
    File,           \* sequences of groups [name, date, skus], as parsed
    MaxImport,      \* bound: imports begun
    MaxFault        \* bound: groups the database refuses, and imports cut off

ASSUME ImportsConstants ==
    /\ Importer \subseteq Nat
    /\ OldSku \subseteq Sku /\ OldQty \in Nat
    /\ File \subseteq Seq([name : Name, date : Int, skus : SUBSET Sku])
    /\ \A f \in File : \A i, k \in DOMAIN f :       \* one group for a name and a date
          f[i].name = f[k].name /\ f[i].date = f[k].date => i = k
    /\ MaxImport \in Nat /\ MaxFault \in Nat

VARIABLES
    goods,          \* products by SKU: [by, stock, shelved]
    customer,       \* customers <<name, by>>; names are not unique
    sale,           \* imported invoices
    import,         \* imports in flight
    imports,        \* imports begun so far
    faults,         \* refusals and cuts so far
    excused,        \* history: batches forced, or begun or running beside another
    counter,        \* history: units sold over the counter, by SKU
    overwritten,    \* history: SKUs whose stock was written from an old reading
    shared          \* history: SKUs and customers used by two batches or a sale

importsVars == <<goods, customer, sale, import, imports, faults, excused, counter,
                 overwritten, shared>>

Idle == [kind |-> "idle"]
None == [state |-> "none", by |-> 0, stock |-> 0]

ImportsInit ==
    /\ goods = [s \in OldSku |-> [by |-> 0, stock |-> OldQty, shelved |-> TRUE]]
    /\ customer = {}
    /\ sale = {}
    /\ import = [w \in Importer |-> Idle]
    /\ imports = 0 /\ faults = 0
    /\ excused = {}
    /\ counter = [s \in Sku |-> 0]
    /\ overwritten = {} /\ shared = {}
-----------------------------------------------------------------------------
Busy == {w \in Importer : import[w] # Idle}

\* All products are loaded once, before the first group.  Requests are alike: the
\* first that is idle is taken.
StartSalesImport(w, file, force, moves) ==
    /\ import[w] = Idle /\ imports < MaxImport
    /\ \A v \in Importer \ Busy : w <= v
    /\ imports' = imports + 1
    /\ import' = [import EXCEPT ![w] =
         [kind |-> "next", batch |-> imports + 1, file |-> file, at |-> 1,
          force |-> force, moves |-> moves,
          product |-> [s \in Sku |-> IF s \in DOMAIN goods
                                     THEN [state |-> "live", by |-> goods[s].by,
                                           stock |-> goods[s].stock]
                                     ELSE None],
          customer |-> [n \in Name |-> None]]]
    /\ excused' = excused \cup (IF force \/ Busy # {} THEN {imports + 1} ELSE {})
                          \cup {import[v].batch : v \in Busy}
    /\ UNCHANGED <<goods, customer, sale, faults, counter, overwritten, shared>>

Group(j) == j.file[j.at]
Ahead(j) == j.kind = "next" /\ j.at <= Len(j.file)

\* The customer of the next group: the registry first, then the table.
Matching(j) ==
    LET n == Group(j).name
        r == j.customer[n]
    IN IF r.state = "none" THEN {c \in customer : c[1] = n} ELSE {<<n, r.by>>}

\* An earlier import's invoice of the same customer and date; forced imports do
\* not look.
\* Mutant: only the file's own batch is looked at.
EarlierOwn(j) ==
    {x \in sale : x.batch = j.batch /\ x.customer \in Matching(j) /\ x.date = Group(j).date}
Earlier(j) ==
    IF j.force THEN {}
    ELSE {x \in sale : x.customer \in Matching(j) /\ x.date = Group(j).date}

New(j) == {s \in Group(j).skus : j.product[s].state = "none"}

\* What ends the whole import: a registered customer that a rollback expired, two
\* customers of one name, two earlier invoices, or a product of the file's SKU
\* that the import did not load.
Dies(j) ==
    \/ j.customer[Group(j).name].state = "stale"
    \/ Cardinality(Matching(j)) > 1
    \/ Cardinality(Earlier(j)) > 1
    \/ Earlier(j) = {} /\ New(j) \cap DOMAIN goods # {}

Die(w) ==
    /\ Ahead(import[w]) /\ Dies(import[w])
    /\ import' = [import EXCEPT ![w] = Idle]
    /\ UNCHANGED <<goods, customer, sale, imports, faults, excused, counter,
                   overwritten, shared>>

Registered(j) ==
    LET n == Group(j).name IN
    [j.customer EXCEPT ![n] =
        IF @.state # "none" THEN @
        ELSE [state |-> "live", stock |-> 0,
              by |-> IF Matching(j) = {} THEN j.batch
                     ELSE (CHOOSE c \in Matching(j) : TRUE)[2]]]

\* A group that was imported before is skipped.
SkipGroup(w) ==
    LET j == import[w] IN
    /\ Ahead(j) /\ ~Dies(j)
    /\ Earlier(j) # {}
    /\ import' = [import EXCEPT ![w].customer = Registered(j), ![w].at = @ + 1]
    /\ UNCHANGED <<goods, customer, sale, imports, faults, excused, counter,
                   overwritten, shared>>

\* The customer and the products that are missing are inserted and flushed; the
\* INSERT of a SKU waits for another transaction that inserted it.
OpenGroup(w) ==
    LET j == import[w] IN
    /\ Ahead(j) /\ ~Dies(j)
    /\ Earlier(j) = {}
    /\ \A v \in Busy \ {w} : import[v].kind = "open" => New(j) \cap import[v].made = {}
    /\ import' = [import EXCEPT ![w] =
         [kind |-> "open", batch |-> j.batch, file |-> j.file, at |-> j.at,
          force |-> j.force, moves |-> j.moves,
          made |-> New(j),
          met |-> IF Matching(j) = {} THEN {Group(j).name} ELSE {},
          customer |-> Registered(j),
          product |-> [s \in Sku |-> IF s \in New(j)
                                     THEN [state |-> "live", by |-> j.batch, stock |-> 0]
                                     ELSE j.product[s]]]]
    /\ UNCHANGED <<goods, customer, sale, imports, faults, excused, counter,
                   overwritten, shared>>

\* The group's rows still exist, and the session has not expired them.
Sound(j) ==
    LET n == Group(j).name
        c == j.customer[n]
    IN
    /\ c.state = "live"
    /\ n \in j.met \/ <<n, c.by>> \in customer
    /\ \A s \in Group(j).skus :
          /\ j.product[s].state = "live"
          /\ \/ s \in j.made
             \/ s \in DOMAIN goods /\ goods[s].by = j.product[s].by

Onward(j) == [kind |-> "next", batch |-> j.batch, file |-> j.file, at |-> j.at + 1,
             force |-> j.force, moves |-> j.moves,
             customer |-> j.customer, product |-> j.product]

\* Stock is written from the reading the session holds, and the default location
\* gets a row.
CommitGroup(w) ==
    LET j == import[w]
        g == Group(j)
        c == <<g.name, j.customer[g.name].by>>
        moved == IF j.moves THEN g.skus ELSE {}
        left(s) == j.product[s].stock - (IF s \in moved THEN 1 ELSE 0)
    IN
    /\ j.kind = "open" /\ Sound(j)
    /\ customer' = customer \cup {c}
    /\ goods' = [s \in DOMAIN goods \cup j.made |->
                   IF s \in moved THEN [by |-> j.product[s].by, stock |-> left(s), shelved |-> TRUE]
                   ELSE IF s \in j.made THEN [by |-> j.batch, stock |-> 0, shelved |-> FALSE]
                   ELSE goods[s]]
    /\ sale' = sale \cup {[batch |-> j.batch, customer |-> c, date |-> g.date,
                           skus |-> g.skus, moved |-> moved]}
    /\ import' = [import EXCEPT ![w] =
         [Onward(j) EXCEPT !.product =
            [s \in Sku |-> [j.product[s] EXCEPT !.stock = left(s)]]]]
    /\ overwritten' = overwritten \cup
         {s \in moved \cap DOMAIN goods : goods[s].stock # j.product[s].stock}
    /\ shared' = shared \cup {s \in g.skus : j.product[s].by # j.batch}
                        \cup (IF c[2] = j.batch THEN {} ELSE {c})
    /\ UNCHANGED <<imports, faults, excused, counter>>

\* After a rollback, rows the group inserted are gone and all others expired.
After(r, gone) ==
    [x \in DOMAIN r |->
       IF r[x].state = "live" THEN [r[x] EXCEPT !.state = IF x \in gone THEN "dead" ELSE "stale"]
       ELSE r[x]]

\* A group whose rows are not sound, or that the database refuses.
FailGroup(w) ==
    LET j == import[w] IN
    /\ j.kind = "open"
    /\ IF Sound(j) THEN faults < MaxFault /\ faults' = faults + 1 ELSE faults' = faults
    /\ import' = [import EXCEPT ![w] =
         [Onward(j) EXCEPT !.customer = After(@, j.met), !.product = After(@, j.made)]]
    /\ UNCHANGED <<goods, customer, sale, imports, excused, counter, overwritten, shared>>

EndSalesImport(w) ==
    /\ import[w].kind = "next" /\ import[w].at > Len(import[w].file)
    /\ import' = [import EXCEPT ![w] = Idle]
    /\ UNCHANGED <<goods, customer, sale, imports, faults, excused, counter,
                   overwritten, shared>>

CutImport(w) ==
    /\ import[w] # Idle /\ faults < MaxFault
    /\ faults' = faults + 1
    /\ import' = [import EXCEPT ![w] = Idle]
    /\ UNCHANGED <<goods, customer, sale, imports, excused, counter, overwritten, shared>>
-----------------------------------------------------------------------------
\* Products and customers of a batch that nothing refers to once its invoices are
\* deleted.
Unused(b) ==
    {s \in DOMAIN goods : /\ goods[s].by = b /\ counter[s] = 0
                          /\ \A x \in sale : s \in x.skus => x.batch = b}
\* Mutant: customers stay.
UnknownNone(b) == {}
Unknown(b) ==
    {c \in customer : c[2] = b /\ \A x \in sale : x.customer = c => x.batch = b}

\* Stock comes back by the moves; the location rows stay, and one of an unused
\* product makes the whole revert fail.
\* Mutant: one unit for every line, moved or not.
BackLines(b, s) == Cardinality({x \in sale : x.batch = b /\ s \in x.skus})
Back(b, s) == Cardinality({x \in sale : x.batch = b /\ s \in x.moved})
RevertSales(b) ==
    /\ \E x \in sale : x.batch = b
    /\ \A s \in Unused(b) : ~goods[s].shelved
    /\ sale' = {x \in sale : x.batch # b}
    /\ goods' = [s \in DOMAIN goods \ Unused(b) |->
                   [goods[s] EXCEPT !.stock = @ + Back(b, s)]]
    /\ customer' = customer \ Unknown(b)
    /\ UNCHANGED <<import, imports, faults, excused, counter, overwritten, shared>>

\* create_invoice at the counter, as far as it concerns imports.
SellOver(s) ==
    /\ s \in DOMAIN goods /\ goods[s].stock > 0
    /\ goods' = [goods EXCEPT ![s].stock = @ - 1, ![s].shelved = TRUE]
    /\ counter' = [counter EXCEPT ![s] = @ + 1]
    /\ shared' = shared \cup {s}
    /\ UNCHANGED <<customer, sale, import, imports, faults, excused, overwritten>>

ImportsNext ==
    \/ \E w \in Importer :
          \/ \E file \in File, force, moves \in BOOLEAN : StartSalesImport(w, file, force, moves)
          \/ Die(w)
          \/ SkipGroup(w)
          \/ OpenGroup(w)
          \/ CommitGroup(w)
          \/ FailGroup(w)
          \/ EndSalesImport(w)
          \/ CutImport(w)
    \/ \E b \in 1..MaxImport : RevertSales(b)
    \/ \E s \in Sku : SellOver(s)

ImportsSpec == ImportsInit /\ [][ImportsNext]_importsVars
-----------------------------------------------------------------------------
\* Rows are typed, and every invoice has its customer, its products and its batch.
ImportsTypeOK ==
    /\ DOMAIN goods \subseteq Sku
    /\ \A s \in DOMAIN goods :
          goods[s] \in [by : 0..MaxImport, stock : Int, shelved : BOOLEAN]
    /\ customer \subseteq Name \X (1..MaxImport)
    /\ \A x \in sale : /\ x.batch \in 1..MaxImport
                       /\ x.customer \in customer
                       /\ x.skus \subseteq DOMAIN goods
    /\ imports \in 0..MaxImport /\ faults \in 0..MaxFault

\* sales_import_service.py:308-328: a file that is imported again, after an import
\* that was cut off or skipped groups, adds no second invoice for a customer and a
\* date; only force, or two imports at a time, does.
OneInvoicePerGroup ==
    \A x, y \in sale :
        /\ x.customer[1] = y.customer[1] /\ x.date = y.date
        /\ {x.batch, y.batch} \cap excused = {}
        => x = y

\* sales_import_service.py:425-447, import_data.py:457-478: through imports, their
\* reverts and sales at the counter, stock is what there was less what was moved,
\* but for products sold between an import's loading and its writing.
StockFollowsMoves ==
    \A s \in DOMAIN goods \ overwritten :
        goods[s].stock = (IF s \in OldSku THEN OldQty ELSE 0) - counter[s]
                         - Cardinality({x \in sale : s \in x.moved})

\* sales_import_service.py:246-380, import_data.py:500-540: a product or a customer
\* an import created is on one of its invoices, whatever failed or was cut off,
\* and goes with the batch; only one another batch or the counter used may stay.
CreatedAreUsed ==
    /\ \A s \in DOMAIN goods : goods[s].by > 0 /\ s \notin shared
                                 => \E x \in sale : x.batch = goods[s].by /\ s \in x.skus
    /\ \A c \in customer \ shared : \E x \in sale : x.customer = c
=============================================================================
