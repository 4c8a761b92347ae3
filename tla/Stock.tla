-------------------------------- MODULE Stock --------------------------------
(***************************************************************************)
(* Stock and the documents that move it: products.stock, its split over    *)
(* locations, the ledger of stock moves, and the receipts, production      *)
(* batches, spoilage records and farm deliveries that are created, edited, *)
(* deleted and reverted afterwards.                                        *)
(*                                                                         *)
(* The handlers are written apart and each keeps the three books in its    *)
(* own way: some sync the default location, some write the ledger, some    *)
(* rewrite or delete ledger rows of an earlier handler.  What is at stake  *)
(* is the ORDER of handlers on one document, so each handler is one step;  *)
(* how two of them interleave inside their transactions is in Retail.      *)
(***************************************************************************)
EXTENDS Integers, FiniteSets, FiniteSetsExt, Functions

CONSTANTS
    Product,
    Location,
    Main,           \* the default location
    Qty,            \* quantities a request may ask for
    OpeningStock,   \* products.stock before the first request
    MaxStock,       \* bound: no request raises a stock or a location above it
    MaxDocs,        \* bound: documents ever created
    MaxLogged       \* bound: sum of the ledger rows an edited delivery collects

Basket == [Product -> Nat]
Kind == {"receipt", "batch", "spoilage", "delivery"}
Key == [kind : Kind, id : 1..MaxDocs]

ASSUME StockConstants ==
    /\ Main \in Location
    /\ Qty \subseteq Nat \ {0}
    /\ OpeningStock \in Basket
    /\ MaxStock \in Nat /\ MaxDocs \in Nat /\ MaxLogged \in Nat

VARIABLES
    stock,      \* products.stock
    located,    \* location_stocks: product -> its rows, location -> qty
    moved,      \* SUM(stock_moves.qty) per product since the opening
    docs,       \* the live documents, by kind and id
    lastId,     \* last id each kind's sequence handed out
    figures,    \* history: what sales, purchases and operators added, in sum
    strayed     \* history: products a handler moved without cause, see Stray

vars == <<stock, located, moved, docs, lastId, figures, strayed>>

Empty == [p \in Product |-> 0]
One(p, q) == [Empty EXCEPT ![p] = q]
Load == {One(p, q) : p \in Product, q \in Qty}

Plus(a, b) == [p \in Product |-> a[p] + b[p]]
Minus(a, b) == [p \in Product |-> a[p] - b[p]]
Lines(b) == {p \in Product : b[p] > 0}

\* A product's rows; a location without a row holds nothing.
At(p, l) == IF l \in DOMAIN located[p] THEN located[p][l] ELSE 0
WithRow(rows, l, n) == [x \in DOMAIN rows \cup {l} |-> IF x = l THEN n ELSE rows[x]]

\* A document: its number, what it took from stock and what it put there, the
\* sum of the ledger rows a later handler may rewrite or delete, and whether its
\* notes say it was imported.
Doc == [num : Nat, used : Basket, made : Basket, logged : Basket,
        imported : BOOLEAN]

Net(d) == Minus(d.made, d.used)
Of(kind) == {k \in DOMAIN docs : k.kind = kind}

\* A product with opening stock has a row in the default location if it was
\* added on the products page, and none if it was imported or predates locations.
Init ==
    /\ stock = OpeningStock
    /\ \E placed \in SUBSET Product :
          located = [p \in Product |->
                       [l \in (IF p \in placed THEN {Main} ELSE {}) |-> OpeningStock[p]]]
    /\ moved = Empty
    /\ docs = [k \in {} |-> 0]
    /\ lastId = [k \in Kind |-> 0]
    /\ figures = Empty
    /\ strayed = {}
-----------------------------------------------------------------------------
\* products.stock changes and a stock move records the change.
Move(change) ==
    /\ stock' = Plus(stock, change)
    /\ moved' = Plus(moved, change)

\* Room below the bound for what a request adds.
Fits(change) == \A p \in Product : change[p] > 0 => stock[p] + change[p] <= MaxStock

Store(k, d) == docs' = [x \in DOMAIN docs \cup {k} |-> IF x = k THEN d ELSE docs[x]]
Discard(k) == docs' = [x \in DOMAIN docs \ {k} |-> docs[x]]

\* The number of a new document: one more than the largest live id of its kind.
\* Mutant: one more than the number of live documents.
CountedNumber(kind) == Cardinality(Of(kind)) + 1
NextNumber(kind) == Max({k.id : k \in Of(kind)} \cup {0}) + 1

\* Documents created so far, for the bound.
Created == lastId["receipt"] + lastId["batch"] + lastId["spoilage"] + lastId["delivery"]

\* The row gets the next id of its table's sequence.
\* Mutant: the sequence is not advanced.
CreateUnsequenced(kind, used, made, logged, imported) ==
    /\ Created < MaxDocs
    /\ UNCHANGED lastId
    /\ Store([kind |-> kind, id |-> lastId[kind] + 1],
             [num |-> NextNumber(kind), used |-> used, made |-> made,
              logged |-> logged, imported |-> imported])
Create(kind, used, made, logged, imported) ==
    /\ Created < MaxDocs
    /\ lastId' = [lastId EXCEPT ![kind] = @ + 1]
    /\ Store([kind |-> kind, id |-> lastId[kind] + 1],
             [num |-> NextNumber(kind), used |-> used, made |-> made,
              logged |-> logged, imported |-> imported])

\* A handler takes off stock for a document that never put it there, or removes
\* ledger rows other than those of the stock it takes off.
Stray(when, b) == strayed' = strayed \cup (IF when THEN Lines(b) ELSE {})
-----------------------------------------------------------------------------
\* Changes of stock that leave no document to be edited or deleted.

\* create_purchase adds the goods to products.stock alone.
Purchase(p, q) ==
    /\ Fits(One(p, q))
    /\ Move(One(p, q))
    /\ figures' = Plus(figures, One(p, q))
    /\ UNCHANGED <<located, docs, lastId, strayed>>

\* A sale makes the default location equal to what is left in total.
Sell(p, q) ==
    /\ q <= stock[p]
    /\ Move(One(p, -q))
    /\ located' = [located EXCEPT ![p] = WithRow(@, Main, stock[p] - q)]
    /\ figures' = Minus(figures, One(p, q))
    /\ UNCHANGED <<docs, lastId, strayed>>

\* adjust_stock at the default location, which it first sets to the total.
AdjustTotal(p, n) ==
    /\ Fits(One(p, n))
    /\ stock[p] + n >= 0
    /\ Move(One(p, n))
    /\ located' = [located EXCEPT ![p] = WithRow(@, Main, stock[p] + n)]
    /\ figures' = Plus(figures, One(p, n))
    /\ UNCHANGED <<docs, lastId, strayed>>

\* adjust_stock at a location of the operator's choice: both must stay >= 0.
\* Mutant: only the total is checked.
AdjustUnchecked(p, l, n) ==
    /\ Fits(One(p, n))
    /\ stock[p] + n >= 0
    /\ At(p, l) + n <= MaxStock
    /\ Move(One(p, n))
    /\ located' = [located EXCEPT ![p] = WithRow(@, l, At(p, l) + n)]
    /\ figures' = Plus(figures, One(p, n))
    /\ UNCHANGED <<docs, lastId, strayed>>
AdjustAt(p, l, n) ==
    /\ Fits(One(p, n))
    /\ stock[p] + n >= 0
    /\ At(p, l) + n \in 0..MaxStock
    /\ Move(One(p, n))
    /\ located' = [located EXCEPT ![p] = WithRow(@, l, At(p, l) + n)]
    /\ figures' = Plus(figures, One(p, n))
    /\ UNCHANGED <<docs, lastId, strayed>>

\* A transfer moves stock between two locations and nothing else.
Transfer(p, from, to, q) ==
    /\ from # to
    /\ q <= At(p, from)
    /\ At(p, to) + q <= MaxStock
    /\ located' = [located EXCEPT ![p] =
                     WithRow(WithRow(@, from, At(p, from) - q), to, At(p, to) + q)]
    /\ UNCHANGED <<stock, moved, docs, lastId, figures, strayed>>

\* edit_product with a new stock figure sets the default location to it.
EditStock(p, n) ==
    /\ n # stock[p]
    /\ Move(One(p, n - stock[p]))
    /\ located' = [located EXCEPT ![p] = WithRow(@, Main, n)]
    /\ figures' = Plus(figures, One(p, n - stock[p]))
    /\ UNCHANGED <<docs, lastId, strayed>>

\* import_stock sets the figure and leaves the locations alone.
ImportStock(p, n) ==
    /\ n # stock[p]
    /\ Move(One(p, n - stock[p]))
    /\ figures' = Plus(figures, One(p, n - stock[p]))
    /\ UNCHANGED <<located, docs, lastId, strayed>>

\* Looking at a page of the location view writes: a product in stock that has
\* no row yet is put in the default location.
ViewLocations(page) ==
    LET unplaced == {p \in page : DOMAIN located[p] = {} /\ stock[p] > 0} IN
    /\ unplaced # {}
    /\ located' = [p \in Product |-> IF p \in unplaced
                                     THEN WithRow(located[p], Main, stock[p])
                                     ELSE located[p]]
    /\ UNCHANGED <<stock, moved, docs, lastId, figures, strayed>>
-----------------------------------------------------------------------------
\* Receipts.  affect_stock is FALSE for an import that only keeps records: then
\* neither the stock nor the ledger is touched, and the document does not say so.

Receive(b, affectStock) ==
    /\ Fits(b)
    /\ Create("receipt", Empty, b, IF affectStock THEN b ELSE Empty, FALSE)
    /\ Move(IF affectStock THEN b ELSE Empty)
    /\ UNCHANGED <<located, figures, strayed>>

\* update_receipt: the stock changes by the difference, and the receipt's ledger
\* row, if it has one, is rewritten.
\* Mutant: a new row is appended instead.
UpdateReceiptAppends(k, b) ==
    LET d == docs[k] IN
    /\ Lines(b) = Lines(d.made)
    /\ Fits(Minus(b, d.made))
    /\ \A p \in Lines(b) : stock[p] - d.made[p] + b[p] >= 0
    /\ stock' = Plus(stock, Minus(b, d.made))
    /\ moved' = IF d.logged = Empty THEN moved ELSE Plus(moved, b)
    /\ Store(k, [d EXCEPT !.made = b,
                          !.logged = IF d.logged = Empty THEN Empty ELSE b])
    /\ Stray(d.logged = Empty /\ b # d.made, d.made)
    /\ UNCHANGED <<located, lastId, figures>>
UpdateReceipt(k, b) ==
    LET d == docs[k] IN
    /\ Lines(b) = Lines(d.made)
    /\ Fits(Minus(b, d.made))
    /\ \A p \in Lines(b) : stock[p] - d.made[p] + b[p] >= 0
    /\ stock' = Plus(stock, Minus(b, d.made))
    /\ moved' = IF d.logged = Empty THEN moved ELSE Plus(moved, Minus(b, d.made))
    /\ Store(k, [d EXCEPT !.made = b,
                          !.logged = IF d.logged = Empty THEN Empty ELSE b])
    /\ Stray(d.logged = Empty /\ b # d.made, d.made)
    /\ UNCHANGED <<located, lastId, figures>>

\* delete_receipt refuses to take off stock that is no longer there; it deletes
\* the receipt's ledger row.
DeleteReceipt(k) ==
    LET d == docs[k] IN
    /\ \A p \in Lines(d.made) : stock[p] - d.made[p] >= 0
    /\ stock' = Minus(stock, d.made)
    /\ moved' = Minus(moved, d.logged)
    /\ Discard(k)
    /\ Stray(d.logged = Empty, d.made)
    /\ UNCHANGED <<located, lastId, figures>>
-----------------------------------------------------------------------------
\* Production batches and spoilage.  Ledger rows are only ever appended.

CreateBatch(used, made) ==
    /\ Fits(made)
    /\ \A p \in Lines(used) : used[p] <= stock[p]
    /\ Create("batch", used, made, Empty, FALSE)
    /\ Move(Minus(made, used))
    /\ UNCHANGED <<located, figures, strayed>>

\* edit_batch takes the old lines back first and checks the new inputs against
\* what that leaves.
\* Mutant: it takes back the inputs only.
EditBatchInputs(k, used, made) ==
    LET d == docs[k] IN
    /\ Fits(Minus(Minus(made, used), Net(d)))
    /\ \A p \in Lines(used) : used[p] <= stock[p] - Net(d)[p]
    /\ Move(Plus(Minus(made, used), d.used))
    /\ Store(k, [d EXCEPT !.used = used, !.made = made])
    /\ UNCHANGED <<located, lastId, figures, strayed>>
EditBatch(k, used, made) ==
    LET d == docs[k] IN
    /\ Fits(Minus(Minus(made, used), Net(d)))
    /\ \A p \in Lines(used) : used[p] <= stock[p] - Net(d)[p]
    /\ Move(Minus(Minus(made, used), Net(d)))
    /\ Store(k, [d EXCEPT !.used = used, !.made = made])
    /\ UNCHANGED <<located, lastId, figures, strayed>>

\* delete_batch takes the outputs off stock whether or not they are still there.
DeleteBatch(k) ==
    /\ Move(Minus(Empty, Net(docs[k])))
    /\ Discard(k)
    /\ UNCHANGED <<located, lastId, figures, strayed>>

\* Mutant: spoilage is not checked against stock.
SpoilUnchecked(b) ==
    /\ Create("spoilage", b, Empty, Empty, FALSE)
    /\ Move(Minus(Empty, b))
    /\ UNCHANGED <<located, figures, strayed>>
Spoil(b) ==
    /\ \A p \in Lines(b) : b[p] <= stock[p]
    /\ Create("spoilage", b, Empty, Empty, FALSE)
    /\ Move(Minus(Empty, b))
    /\ UNCHANGED <<located, figures, strayed>>

DeleteSpoilage(k) ==
    /\ Fits(docs[k].used)
    /\ Move(docs[k].used)
    /\ Discard(k)
    /\ UNCHANGED <<located, lastId, figures, strayed>>
-----------------------------------------------------------------------------
\* Farm deliveries, entered by hand or imported from a sheet; an import may
\* leave stock and ledger alone, and says so in the delivery's notes only.

Deliver(b, imported, recorded) ==
    /\ imported \/ recorded
    /\ Fits(b)
    /\ Create("delivery", Empty, b, IF recorded THEN b ELSE Empty, imported)
    /\ Move(IF recorded THEN b ELSE Empty)
    /\ UNCHANGED <<located, figures, strayed>>

\* edit_delivery takes the old items off stock and puts the new ones on, each
\* with a ledger row; the rows of the old items stay.  The notes are replaced,
\* with or without what said the delivery was imported.
EditDelivery(k, b, notesKept) ==
    LET d == docs[k] IN
    /\ \A p \in Product : d.logged[p] + b[p] <= MaxLogged
    /\ Fits(Minus(b, d.made))
    /\ Move(Minus(b, d.made))
    /\ Store(k, [d EXCEPT !.made = b, !.logged = Plus(d.logged, b),
                          !.imported = @ /\ notesKept])
    /\ Stray(d.logged = Empty, d.made)
    /\ UNCHANGED <<located, lastId, figures>>

DeleteDelivery(k) ==
    LET d == docs[k] IN
    /\ Move(Minus(Empty, d.made))
    /\ Discard(k)
    /\ Stray(d.logged = Empty, d.made)
    /\ UNCHANGED <<located, lastId, figures>>

\* Reverting an import deletes the delivery and its ledger rows, but not the
\* rows an edit wrote to take old items off; items without a row are skipped.
RevertDelivery(k) ==
    LET d == docs[k]
        gone == [p \in Product |-> IF d.made[p] > 0 THEN d.logged[p] ELSE 0]
        back == [p \in Product |-> IF d.logged[p] > 0 THEN d.made[p] ELSE 0]
    IN
    /\ d.imported
    /\ stock' = Minus(stock, back)
    /\ moved' = Minus(moved, gone)
    /\ Discard(k)
    /\ Stray(gone # back, gone)
    /\ UNCHANGED <<located, lastId, figures>>
-----------------------------------------------------------------------------
Signed == Qty \cup {-q : q \in Qty}

Trade ==
    \E p \in Product :
        \/ \E q \in Qty : Purchase(p, q) \/ Sell(p, q)
        \/ \E n \in Signed : \/ AdjustTotal(p, n)
                             \/ \E l \in Location : AdjustAt(p, l, n)
        \/ \E q \in Qty, from, to \in Location : Transfer(p, from, to, q)
        \/ \E n \in 0..MaxStock : EditStock(p, n) \/ ImportStock(p, n)

Receipts ==
    \/ \E b \in Load, affectStock \in BOOLEAN : Receive(b, affectStock)
    \/ \E k \in Of("receipt") : \/ \E b \in Load : UpdateReceipt(k, b)
                                \/ DeleteReceipt(k)

Production ==
    \/ \E used, made \in Load : CreateBatch(used, made)
    \/ \E k \in Of("batch") : \/ \E used, made \in Load : EditBatch(k, used, made)
                              \/ DeleteBatch(k)
    \/ \E b \in Load : Spoil(b)
    \/ \E k \in Of("spoilage") : DeleteSpoilage(k)

Deliveries ==
    \/ \E b \in Load, imported, recorded \in BOOLEAN : Deliver(b, imported, recorded)
    \/ \E k \in Of("delivery") :
          \/ \E b \in Load, notesKept \in BOOLEAN : EditDelivery(k, b, notesKept)
          \/ DeleteDelivery(k)
          \/ RevertDelivery(k)

Next ==
    \/ Trade
    \/ \E page \in SUBSET Product : ViewLocations(page)
    \/ Receipts
    \/ Production
    \/ Deliveries

Spec == Init /\ [][Next]_vars
-----------------------------------------------------------------------------
\* Every variable has its type.
TypeOK ==
    /\ stock \in [Product -> Int]
    /\ DOMAIN located = Product
    /\ \A p \in Product : /\ DOMAIN located[p] \subseteq Location
                          /\ located[p] \in [DOMAIN located[p] -> Int]
    /\ moved \in [Product -> Int]
    /\ DOMAIN docs \subseteq Key
    /\ \A k \in DOMAIN docs : docs[k] \in Doc /\ k.id <= lastId[k.kind]
    /\ lastId \in [Kind -> 0..MaxDocs]
    /\ figures \in [Product -> Int]
    /\ strayed \subseteq Product

\* receive_service.py, production.py, farm.py, inventory.py: whatever has been
\* created, edited, deleted or reverted, stock is the opening stock plus the
\* ledger, except for the products of the two cases named at Stray.
LedgerBalances ==
    \A p \in Product \ strayed : stock[p] = OpeningStock[p] + moved[p]

\* What a live document has put in stock, net; a record-only document nothing.
Put(k, p) ==
    IF k.kind \in {"receipt", "delivery"} /\ docs[k].logged = Empty
    THEN 0 ELSE Net(docs[k])[p]

\* The same handlers: stock is what the live documents put there plus what was
\* bought, sold and set by hand: an edited document counts once, as it is now,
\* and a deleted one not at all.
DocumentsBalance ==
    \A p \in Product \ strayed :
        stock[p] = OpeningStock[p] + figures[p]
                   + SumFunction([k \in DOMAIN docs |-> Put(k, p)])

\* import_data.py:1840, a reverted import reverses the "linked stock": the same
\* without exception.  Documents imported without stock have none to reverse.
DocumentsAlwaysBalance ==
    \A p \in Product :
        stock[p] = OpeningStock[p] + figures[p]
                   + SumFunction([k \in DOMAIN docs |-> Put(k, p)])

\* inventory.py, location_inventory_service.py: no location ever holds less than
\* nothing, although products.stock may and the default location is copied from it.
LocationsNeverNegative ==
    \A p \in Product : \A l \in DOMAIN located[p] : located[p][l] >= 0

\* Stock is refused to whoever asks for more than there is: it falls below zero
\* only where a delivery, or the output of a batch, is taken back after its goods
\* have gone.
OnlyReversalsGoNegative ==
    [][\A p \in Product : stock[p] >= 0 /\ stock'[p] < 0 =>
         \E k \in DOMAIN docs :
            /\ k.kind \in {"batch", "delivery"}
            /\ docs[k].made[p] > 0
            /\ k \in DOMAIN docs' => docs'[k] # docs[k]]_vars

\* Numbers are taken from the largest live id, and documents are deleted: still
\* no two live documents of a kind carry one number.
LiveNumbersUnique ==
    \A j, k \in DOMAIN docs :
        j.kind = k.kind /\ docs[j].num = docs[k].num => j = k
=============================================================================
