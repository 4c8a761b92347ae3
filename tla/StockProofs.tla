----------------------------- MODULE StockProofs -----------------------------
(***************************************************************************)
(* Theorems about Stock, for any products, locations, quantities and       *)
(* bounds: the ledger explains the stock, no location is negative, live    *)
(* numbers are unique, and only reversals take stock below zero.           *)
(***************************************************************************)
EXTENDS Stock, SumsProofs

\* The books: stock is the opening stock plus its moves, strays apart.
BooksInv ==
    /\ stock \in [Product -> Int] /\ moved \in [Product -> Int] /\ figures \in [Product -> Int]
    /\ strayed \subseteq Product
    /\ LedgerBalances

PlacesInv ==
    /\ DOMAIN located = Product
    /\ \A p \in Product : /\ DOMAIN located[p] \subseteq Location
                          /\ located[p] \in [DOMAIN located[p] -> Nat]

\* A receipt has a ledger row of all it holds, or none; a number is above every
\* id that lived when it was given out, and never above its own.
DocFits(k) ==
    /\ docs[k] \in Doc /\ k.id <= lastId[k.kind]
    /\ k.kind = "receipt" => docs[k].logged \in {Empty, docs[k].made}
    /\ docs[k].num <= k.id
DocsInv ==
    /\ lastId \in [Kind -> 0..MaxDocs]
    /\ DOMAIN docs \subseteq Key
    /\ \A k \in DOMAIN docs : DocFits(k)
    /\ \A j, k \in DOMAIN docs : j.kind = k.kind /\ j.id < k.id => j.id < docs[k].num

StockInv == BooksInv /\ PlacesInv /\ DocsInv
-----------------------------------------------------------------------------
\* A set of naturals with a bound has a largest element, and Max is it.
LEMMA LargestIsMax ==
    ASSUME NEW n \in Nat, NEW S \in SUBSET (0..n), S # {}
    PROVE  Max(S) \in S /\ \A y \in S : y <= Max(S)
  <1> DEFINE T == {u \in Nat : \A y \in S : y <= u}
  <1>1. n \in T /\ T \subseteq Nat
    OBVIOUS
  <1>2. PICK m \in T : \A u \in T : ~(<<u, m>> \in OpToRel(<, Nat))
    BY <1>1, NatLessThanWellFounded, WFMin
  <1>3. \A u \in T : ~(u < m)
    BY <1>1, <1>2 DEF OpToRel
  <1>4. m \in S
    <2> SUFFICES ASSUME m \notin S PROVE FALSE
      OBVIOUS
    <2>1. m \in Nat /\ \A y \in S : y \in Nat /\ y < m
      OBVIOUS
    <2>2. PICK y \in S : TRUE
      OBVIOUS
    <2>3. m - 1 \in Nat
      <3>1. y \in Nat /\ y < m /\ m \in Nat
        BY <2>1, <2>2
      <3> QED
        BY <3>1
    <2>4. \A x \in S : x <= m - 1
      BY <2>1
    <2>5. m - 1 \in T
      BY <2>3, <2>4
    <2> QED
      BY <1>3, <2>1, <2>5
  <1>5. \E x \in S : \A y \in S : x >= y
    BY <1>4
  <1> QED
    BY <1>5 DEF Max

LEMMA LoadType ==
    /\ Empty \in Basket /\ OpeningStock \in Basket
    /\ Load \subseteq Basket
    /\ \A p \in Product, n \in Int : /\ One(p, n) \in [Product -> Int]
                                     /\ One(p, n)[p] = n
                                     /\ \A o \in Product \ {p} : One(p, n)[o] = 0
    /\ \A b \in Load : Lines(b) # {}
  BY StockConstants DEF Empty, Basket, One, Load, Lines

LEMMA PlusType ==
    ASSUME NEW a \in [Product -> Int], NEW b \in [Product -> Int]
    PROVE  /\ Plus(a, b) \in [Product -> Int] /\ Minus(a, b) \in [Product -> Int]
           /\ \A p \in Product : /\ Plus(a, b)[p] = a[p] + b[p]
                                 /\ Minus(a, b)[p] = a[p] - b[p]
  BY DEF Plus, Minus

LEMMA BasketType == \A b \in Basket : b \in [Product -> Int]
  BY DEF Basket

\* A stock and a ledger that change by one amount still agree.
LEMMA MoveKeeps ==
    ASSUME BooksInv, NEW change \in [Product -> Int], Move(change),
           figures' \in [Product -> Int],
           strayed' \subseteq Product, strayed \subseteq strayed'
    PROVE  BooksInv'
  <1>1. /\ stock' \in [Product -> Int] /\ moved' \in [Product -> Int]
        /\ \A p \in Product : /\ stock'[p] = stock[p] + change[p]
                              /\ moved'[p] = moved[p] + change[p]
    BY PlusType DEF BooksInv, Move
  <1>2. ASSUME NEW p \in Product \ strayed' PROVE stock'[p] = OpeningStock[p] + moved'[p]
    <2>1. /\ stock[p] = OpeningStock[p] + moved[p]
          /\ OpeningStock[p] \in Int /\ moved[p] \in Int /\ change[p] \in Int
      BY StockConstants DEF BooksInv, LedgerBalances, Basket
    <2> QED
      BY <1>1, <2>1
  <1> QED
    BY <1>1, <1>2 DEF BooksInv, LedgerBalances

\* So do they where each changes its own way but not for products that strayed.
LEMMA ApartKeeps ==
    ASSUME BooksInv, stock' \in [Product -> Int], moved' \in [Product -> Int],
           figures' = figures, strayed' \subseteq Product, strayed \subseteq strayed',
           \A p \in Product \ strayed' : stock'[p] - stock[p] = moved'[p] - moved[p]
    PROVE  BooksInv'
  <1>1. ASSUME NEW p \in Product \ strayed' PROVE stock'[p] = OpeningStock[p] + moved'[p]
    <2>1. /\ stock[p] = OpeningStock[p] + moved[p]
          /\ stock'[p] - stock[p] = moved'[p] - moved[p]
          /\ OpeningStock[p] \in Int /\ moved[p] \in Int /\ moved'[p] \in Int
          /\ stock[p] \in Int /\ stock'[p] \in Int
      BY StockConstants DEF BooksInv, LedgerBalances, Basket
    <2> QED
      BY <2>1
  <1> QED
    BY <1>1 DEF BooksInv, LedgerBalances
-----------------------------------------------------------------------------
LEMMA NextNumberFits ==
    ASSUME DocsInv, NEW kind \in Kind
    PROVE  /\ NextNumber(kind) \in Nat /\ NextNumber(kind) <= lastId[kind] + 1
           /\ \A k \in DOMAIN docs : k.kind = kind => k.id < NextNumber(kind)
  <1> DEFINE S == {k.id : k \in Of(kind)} \cup {0}
  <1>1. lastId[kind] \in Nat
    BY DEF DocsInv
  <1>2. S \in SUBSET (0..lastId[kind]) /\ S # {}
    <2>1. ASSUME NEW k \in Of(kind) PROVE k.id \in 0..lastId[kind]
      BY <1>1 DEF Of, DocsInv, DocFits, Key
    <2> QED
      BY <1>1, <2>1
  <1>3. Max(S) \in S /\ \A y \in S : y <= Max(S)
    BY <1>1, <1>2, LargestIsMax
  <1>4. Max(S) \in 0..lastId[kind] /\ NextNumber(kind) = Max(S) + 1
    BY <1>2, <1>3 DEF NextNumber
  <1>5. ASSUME NEW k \in DOMAIN docs, k.kind = kind PROVE k.id \in S
    BY <1>5 DEF Of
  <1>6. ASSUME NEW k \in DOMAIN docs, k.kind = kind PROVE k.id < NextNumber(kind)
    <2>1. k.id \in Nat /\ k.id <= Max(S)
      BY <1>2, <1>3, <1>5, <1>6
    <2> HIDE DEF S
    <2> QED
      BY <1>4, <2>1
  <1> HIDE DEF S
  <1> QED
    BY <1>1, <1>4, <1>6

LEMMA CreateKeeps ==
    ASSUME DocsInv, NEW kind \in Kind, NEW used \in Basket, NEW made \in Basket,
           NEW logged \in Basket, NEW imported \in BOOLEAN,
           Create(kind, used, made, logged, imported),
           kind = "receipt" => logged \in {Empty, made}
    PROVE  DocsInv'
  <1> DEFINE n == lastId[kind] + 1
             key == [kind |-> kind, id |-> n]
             doc == [num |-> NextNumber(kind), used |-> used, made |-> made,
                     logged |-> logged, imported |-> imported]
  <1>1. \A x \in Kind : lastId[x] \in Nat
    BY DEF DocsInv
  <1>2. n \in 1..MaxDocs
    BY <1>1, StockConstants DEF Create, Created, Kind
  <1>3. /\ lastId' \in [Kind -> 0..MaxDocs] /\ lastId'[kind] = n
        /\ \A x \in Kind : lastId[x] <= lastId'[x]
    BY <1>1, <1>2 DEF Create, DocsInv
  <1>4. key \in Key /\ key.kind = kind /\ key.id = n
    BY <1>2 DEF Key
  <1>5. /\ NextNumber(kind) \in Nat /\ NextNumber(kind) <= n
        /\ \A k \in DOMAIN docs : k.kind = kind => k.id < NextNumber(kind)
    BY NextNumberFits
  <1>6. /\ doc \in Doc /\ doc.num = NextNumber(kind)
        /\ doc.made = made /\ doc.logged = logged
    BY <1>5 DEF Doc
  <1>7. /\ DOMAIN docs' = DOMAIN docs \cup {key}
        /\ docs'[key] = doc
        /\ \A k \in DOMAIN docs : k # key => docs'[k] = docs[k]
    BY DEF Create, Store
  <1>8. ASSUME NEW k \in DOMAIN docs
        PROVE  /\ k \in Key /\ k.kind \in Kind /\ k.id \in Nat
               /\ k.id <= lastId[k.kind] /\ k # key
               /\ k.kind = kind => k.id < n
    <2>1. k \in Key /\ k.kind \in Kind /\ k.id \in Nat /\ k.id <= lastId[k.kind]
      BY StockConstants DEF DocsInv, DocFits, Key
    <2> QED
      BY <1>1, <1>4, <2>1
  <1> HIDE DEF key, doc
  <1>9. ASSUME NEW k \in DOMAIN docs' PROVE DocFits(k)'
    <2>1. CASE k = key
      BY <1>1, <1>3, <1>4, <1>5, <1>6, <1>7, <2>1 DEF DocFits
    <2>2. CASE k # key
      <3>1. DocFits(k) /\ docs'[k] = docs[k] /\ k \in DOMAIN docs
        BY <1>7, <2>2 DEF DocsInv
      <3>2. k.id <= lastId'[k.kind]
        BY <1>1, <1>3, <1>8, <3>1
      <3> QED
        BY <3>1, <3>2 DEF DocFits
    <2> QED
      BY <2>1, <2>2
  <1>10. ASSUME NEW j \in DOMAIN docs', NEW k \in DOMAIN docs', j.kind = k.kind, j.id < k.id
         PROVE  j.id < docs'[k].num
    <2>1. CASE k = key
      <3>1. j # key
        BY <1>2, <1>4, <1>10, <2>1
      <3>2. j \in DOMAIN docs /\ j.kind = kind
        BY <1>4, <1>7, <1>10, <2>1, <3>1
      <3> QED
        BY <1>5, <1>6, <1>7, <2>1, <3>2
    <2>2. CASE k # key
      <3>1. k \in DOMAIN docs /\ docs'[k] = docs[k]
        BY <1>7, <2>2
      <3>2. j # key
        BY <1>1, <1>4, <1>8, <1>10, <3>1
      <3> QED
        BY <1>7, <1>10, <3>1, <3>2 DEF DocsInv
    <2> QED
      BY <2>1, <2>2
  <1>11. DOMAIN docs' \subseteq Key
    BY <1>4, <1>7 DEF DocsInv
  <1> QED
    BY <1>3, <1>9, <1>10, <1>11 DEF DocsInv

\* An edited document keeps its number.
LEMMA StoreKeeps ==
    ASSUME DocsInv, NEW k \in DOMAIN docs, NEW d \in Doc, Store(k, d), UNCHANGED lastId,
           d.num = docs[k].num, k.kind = "receipt" => d.logged \in {Empty, d.made}
    PROVE  DocsInv'
  <1>1. /\ DOMAIN docs' = DOMAIN docs /\ docs'[k] = d
        /\ \A x \in DOMAIN docs : /\ x # k => docs'[x] = docs[x]
                                  /\ docs'[x].num = docs[x].num
    BY DEF Store
  <1>2. ASSUME NEW x \in DOMAIN docs PROVE DocFits(x)'
    <2>1. DocFits(x)
      BY DEF DocsInv
    <2> QED
      BY <1>1, <2>1 DEF DocFits
  <1> QED
    BY <1>1, <1>2 DEF DocsInv

LEMMA DiscardKeeps ==
    ASSUME DocsInv, NEW k \in DOMAIN docs, Discard(k), UNCHANGED lastId
    PROVE  DocsInv'
  <1>1. DOMAIN docs' \subseteq DOMAIN docs /\ \A x \in DOMAIN docs' : docs'[x] = docs[x]
    BY DEF Discard
  <1> QED
    BY <1>1 DEF DocsInv, DocFits
-----------------------------------------------------------------------------
LEMMA WithRowType ==
    ASSUME NEW rows, rows \in [DOMAIN rows -> Nat], DOMAIN rows \subseteq Location,
           NEW l \in Location, NEW n \in Nat
    PROVE  /\ DOMAIN WithRow(rows, l, n) \subseteq Location
           /\ WithRow(rows, l, n) \in [DOMAIN WithRow(rows, l, n) -> Nat]
  BY DEF WithRow

\* A handler that gives one product other rows.
LEMMA PlaceKeeps ==
    ASSUME PlacesInv, NEW p \in Product, NEW rows, located' = [located EXCEPT ![p] = rows],
           DOMAIN rows \subseteq Location, rows \in [DOMAIN rows -> Nat]
    PROVE  PlacesInv'
  <1>1. /\ DOMAIN located' = Product /\ located'[p] = rows
        /\ \A o \in Product \ {p} : located'[o] = located[o]
    BY DEF PlacesInv
  <1> QED
    BY <1>1 DEF PlacesInv

LEMMA RowKeeps ==
    ASSUME PlacesInv, NEW p \in Product, NEW l \in Location, NEW n \in Nat,
           located' = [located EXCEPT ![p] = WithRow(@, l, n)]
    PROVE  PlacesInv'
  <1>1. located[p] \in [DOMAIN located[p] -> Nat] /\ DOMAIN located[p] \subseteq Location
    BY DEF PlacesInv
  <1>2. located' = [located EXCEPT ![p] = WithRow(located[p], l, n)]
    OBVIOUS
  <1> QED
    BY <1>1, <1>2, WithRowType, PlaceKeeps

LEMMA AtType ==
    ASSUME PlacesInv, NEW p \in Product, NEW l PROVE At(p, l) \in Nat
  BY DEF PlacesInv, At

LEMMA SameDocs == DocsInv /\ UNCHANGED <<docs, lastId>> => DocsInv'
  BY DEF DocsInv, DocFits

LEMMA SamePlaces == PlacesInv /\ UNCHANGED located => PlacesInv'
  BY DEF PlacesInv

LEMMA SameBooks == BooksInv /\ UNCHANGED <<stock, moved, figures, strayed>> => BooksInv'
  BY DEF BooksInv, LedgerBalances

\* A change by hand of one product, noted in figures.
LEMMA FigureKeeps ==
    ASSUME BooksInv, NEW p \in Product, NEW n \in Int, Move(One(p, n)),
           figures' \in [Product -> Int], UNCHANGED strayed
    PROVE  BooksInv'
  <1>1. One(p, n) \in [Product -> Int] /\ strayed \subseteq Product
    BY LoadType DEF BooksInv
  <1> QED
    BY <1>1, MoveKeeps

LEMMA TradeKeeps ==
    ASSUME StockInv, Trade
    PROVE  StockInv'
  <1>1. BooksInv /\ PlacesInv /\ DocsInv
    BY DEF StockInv
  <1>2. UNCHANGED <<docs, lastId, strayed>>
    BY DEF Trade, Purchase, Sell, AdjustTotal, AdjustAt, Transfer, EditStock, ImportStock
  <1>3. DocsInv'
    BY <1>1, <1>2, SameDocs
  <1>4. PICK p \in Product :
           \/ \E q \in Qty : Purchase(p, q) \/ Sell(p, q)
           \/ \E n \in Signed : \/ AdjustTotal(p, n)
                                \/ \E l \in Location : AdjustAt(p, l, n)
           \/ \E q \in Qty, from, to \in Location : Transfer(p, from, to, q)
           \/ \E n \in 0..MaxStock : EditStock(p, n) \/ ImportStock(p, n)
    BY DEF Trade
  <1>5. /\ stock \in [Product -> Int] /\ stock[p] \in Int /\ figures \in [Product -> Int]
        /\ Main \in Location /\ Qty \subseteq Nat /\ Signed \subseteq Int
        /\ \A n \in Int : One(p, n) \in [Product -> Int]
    BY <1>1, StockConstants, LoadType DEF BooksInv, Signed
  <1>6. ASSUME NEW n \in Int
        PROVE  /\ Plus(figures, One(p, n)) \in [Product -> Int]
               /\ Minus(figures, One(p, n)) \in [Product -> Int]
    BY <1>5, PlusType
  <1>7. ASSUME NEW q \in Qty, Purchase(p, q) PROVE BooksInv' /\ PlacesInv'
    <2>1. q \in Int /\ Move(One(p, q)) /\ figures' = Plus(figures, One(p, q))
      BY <1>5, <1>7 DEF Purchase
    <2>2. BooksInv'
      BY <1>1, <1>2, <1>6, <2>1, FigureKeeps
    <2> QED
      BY <1>1, <1>7, <2>2, SamePlaces DEF Purchase
  <1>8. ASSUME NEW q \in Qty, Sell(p, q) PROVE BooksInv' /\ PlacesInv'
    <2>1. /\ q \in Int /\ -q \in Int /\ Move(One(p, -q))
          /\ figures' = Minus(figures, One(p, q))
          /\ located' = [located EXCEPT ![p] = WithRow(@, Main, stock[p] - q)]
      BY <1>5, <1>8 DEF Sell
    <2>2. BooksInv'
      BY <1>1, <1>2, <1>6, <2>1, FigureKeeps
    <2>3. stock[p] - q \in Nat
      BY <1>5, <1>8 DEF Sell
    <2> QED
      BY <1>1, <1>5, <2>1, <2>2, <2>3, RowKeeps
  <1>9. ASSUME NEW n \in Signed, AdjustTotal(p, n) PROVE BooksInv' /\ PlacesInv'
    <2>1. /\ n \in Int /\ Move(One(p, n)) /\ figures' = Plus(figures, One(p, n))
          /\ located' = [located EXCEPT ![p] = WithRow(@, Main, stock[p] + n)]
      BY <1>5, <1>9 DEF AdjustTotal
    <2>2. BooksInv'
      BY <1>1, <1>2, <1>6, <2>1, FigureKeeps
    <2>3. stock[p] + n \in Nat
      BY <1>5, <1>9, <2>1 DEF AdjustTotal
    <2> QED
      BY <1>1, <1>5, <2>1, <2>2, <2>3, RowKeeps
  <1>10. ASSUME NEW n \in Signed, NEW l \in Location, AdjustAt(p, l, n)
         PROVE  BooksInv' /\ PlacesInv'
    <2>1. /\ n \in Int /\ Move(One(p, n)) /\ figures' = Plus(figures, One(p, n))
          /\ located' = [located EXCEPT ![p] = WithRow(@, l, At(p, l) + n)]
      BY <1>5, <1>10 DEF AdjustAt
    <2>2. BooksInv'
      BY <1>1, <1>2, <1>6, <2>1, FigureKeeps
    <2>3. At(p, l) + n \in Nat
      BY <1>10, StockConstants DEF AdjustAt
    <2> QED
      BY <1>1, <2>1, <2>2, <2>3, RowKeeps
  <1>11. ASSUME NEW q \in Qty, NEW from \in Location, NEW to \in Location,
                Transfer(p, from, to, q)
         PROVE  BooksInv' /\ PlacesInv'
    <2> DEFINE rest == WithRow(located[p], from, At(p, from) - q)
               rows == WithRow(rest, to, At(p, to) + q)
    <2>1. At(p, from) \in Nat /\ At(p, to) \in Nat
      BY <1>1, AtType
    <2>2. At(p, from) - q \in Nat /\ At(p, to) + q \in Nat
      BY <1>5, <1>11, <2>1 DEF Transfer
    <2>3. /\ located[p] \in [DOMAIN located[p] -> Nat] /\ DOMAIN located[p] \subseteq Location
      BY <1>1 DEF PlacesInv
    <2>4. /\ DOMAIN rest \subseteq Location /\ rest \in [DOMAIN rest -> Nat]
      BY <2>2, <2>3, WithRowType
    <2>5. located' = [located EXCEPT ![p] = rows]
      BY <1>11 DEF Transfer
    <2> HIDE DEF rest
    <2>6. /\ DOMAIN rows \subseteq Location /\ rows \in [DOMAIN rows -> Nat]
      BY <2>2, <2>4, WithRowType
    <2> HIDE DEF rows
    <2>7. PlacesInv'
      BY <1>1, <2>5, <2>6, PlaceKeeps
    <2> QED
      BY <1>1, <1>11, <2>7, SameBooks DEF Transfer
  <1>12. ASSUME NEW n \in 0..MaxStock, EditStock(p, n) \/ ImportStock(p, n)
         PROVE  BooksInv' /\ PlacesInv'
    <2>1. n \in Nat /\ n - stock[p] \in Int
      BY <1>5, StockConstants
    <2>2. Move(One(p, n - stock[p])) /\ figures' = Plus(figures, One(p, n - stock[p]))
      BY <1>12 DEF EditStock, ImportStock
    <2>3. BooksInv'
      BY <1>1, <1>2, <1>6, <2>1, <2>2, FigureKeeps
    <2>4. PlacesInv'
      <3>1. CASE EditStock(p, n)
        <4>1. located' = [located EXCEPT ![p] = WithRow(@, Main, n)]
          BY <3>1 DEF EditStock
        <4> QED
          BY <1>1, <1>5, <2>1, <4>1, RowKeeps
      <3>2. CASE ImportStock(p, n)
        BY <1>1, <3>2, SamePlaces DEF ImportStock
      <3> QED
        BY <1>12, <3>1, <3>2
    <2> QED
      BY <2>3, <2>4
  <1> QED
    BY <1>3, <1>4, <1>7, <1>8, <1>9, <1>10, <1>11, <1>12 DEF StockInv

LEMMA ViewKeeps ==
    ASSUME StockInv, NEW page \in SUBSET Product, ViewLocations(page)
    PROVE  StockInv'
  <1>1. BooksInv /\ PlacesInv /\ DocsInv /\ stock \in [Product -> Int]
    BY DEF StockInv, BooksInv
  <1>2. BooksInv' /\ DocsInv'
    BY <1>1, SameBooks, SameDocs DEF ViewLocations
  <1>3. DOMAIN located' = Product
    BY DEF ViewLocations
  <1>4. ASSUME NEW p \in Product
        PROVE  /\ DOMAIN located'[p] \subseteq Location
               /\ located'[p] \in [DOMAIN located'[p] -> Nat]
    <2>1. /\ located[p] \in [DOMAIN located[p] -> Nat] /\ DOMAIN located[p] \subseteq Location
          /\ Main \in Location
      BY <1>1, StockConstants DEF PlacesInv
    <2>2. \/ located'[p] = located[p]
          \/ stock[p] > 0 /\ located'[p] = WithRow(located[p], Main, stock[p])
      BY DEF ViewLocations
    <2>3. CASE stock[p] > 0 /\ located'[p] = WithRow(located[p], Main, stock[p])
      <3>1. stock[p] \in Nat
        BY <1>1, <2>3
      <3> QED
        BY <2>1, <2>3, <3>1, WithRowType
    <2> QED
      BY <2>1, <2>2, <2>3
  <1> QED
    BY <1>2, <1>3, <1>4 DEF StockInv, PlacesInv
-----------------------------------------------------------------------------
LEMMA DocType ==
    ASSUME DocsInv, NEW k \in DOMAIN docs
    PROVE  /\ k.kind \in Kind /\ docs[k] \in Doc
           /\ docs[k].num \in Nat /\ docs[k].imported \in BOOLEAN
           /\ docs[k].made \in Basket /\ docs[k].made \in [Product -> Int]
           /\ docs[k].used \in Basket /\ docs[k].used \in [Product -> Int]
           /\ docs[k].logged \in Basket /\ docs[k].logged \in [Product -> Int]
           /\ Net(docs[k]) \in [Product -> Int]
  <1>1. k \in Key /\ docs[k] \in Doc
    BY DEF DocsInv, DocFits
  <1>2. /\ docs[k].num \in Nat /\ docs[k].imported \in BOOLEAN
        /\ docs[k].made \in Basket /\ docs[k].used \in Basket /\ docs[k].logged \in Basket
    BY <1>1 DEF Doc
  <1>3. /\ docs[k].made \in [Product -> Int] /\ docs[k].used \in [Product -> Int]
        /\ docs[k].logged \in [Product -> Int]
    BY <1>2, BasketType
  <1> QED
    BY <1>1, <1>2, <1>3, PlusType DEF Net, Key

LEMMA StrayGrows ==
    ASSUME strayed \subseteq Product, NEW when, NEW b \in [Product -> Int], Stray(when, b)
    PROVE  /\ strayed' \subseteq Product /\ strayed \subseteq strayed'
           /\ when => Lines(b) \subseteq strayed'
  BY DEF Stray, Lines

\* A new document, with what it moves.
LEMMA NewDocKeeps ==
    ASSUME StockInv, NEW kind \in Kind, NEW used \in Basket, NEW made \in Basket,
           NEW logged \in Basket, NEW imported \in BOOLEAN, NEW change \in [Product -> Int],
           Create(kind, used, made, logged, imported), Move(change),
           kind = "receipt" => logged \in {Empty, made},
           UNCHANGED <<located, figures, strayed>>
    PROVE  StockInv'
  <1>1. DocsInv'
    BY CreateKeeps DEF StockInv
  <1>2. BooksInv /\ strayed' \subseteq Product /\ strayed \subseteq strayed'
        /\ figures' \in [Product -> Int]
    BY DEF StockInv, BooksInv
  <1>3. BooksInv'
    BY <1>2, MoveKeeps
  <1>4. PlacesInv'
    BY SamePlaces DEF StockInv
  <1> QED
    BY <1>1, <1>3, <1>4 DEF StockInv

LEMMA UpdateReceiptKeeps ==
    ASSUME StockInv, NEW k \in Of("receipt"), NEW b \in Load, UpdateReceipt(k, b)
    PROVE  StockInv'
  <1> DEFINE d == docs[k]
             new == [d EXCEPT !.made = b,
                              !.logged = IF d.logged = Empty THEN Empty ELSE b]
  <1>1. /\ BooksInv /\ PlacesInv /\ DocsInv /\ k \in DOMAIN docs
        /\ stock \in [Product -> Int] /\ moved \in [Product -> Int]
        /\ strayed \subseteq Product
    BY DEF StockInv, BooksInv, Of
  <1>2. /\ d \in Doc /\ d.made \in Basket /\ d.made \in [Product -> Int]
    BY <1>1, DocType
  <1>3. b \in Basket /\ b \in [Product -> Int] /\ Empty \in Basket
    BY LoadType, BasketType
  <1>4. DocsInv'
    <2>1. /\ new \in Doc /\ new.num = d.num /\ new.logged \in {Empty, new.made}
      BY <1>2, <1>3 DEF Doc
    <2>2. Store(k, new) /\ UNCHANGED lastId
      BY DEF UpdateReceipt
    <2> HIDE DEF new
    <2> QED
      BY <1>1, <2>1, <2>2, StoreKeeps
  <1>5. /\ Minus(b, d.made) \in [Product -> Int]
        /\ \A p \in Product : Minus(b, d.made)[p] = b[p] - d.made[p]
    BY <1>2, <1>3, PlusType
  <1>6. /\ stock' \in [Product -> Int]
        /\ \A p \in Product : stock'[p] = stock[p] + (b[p] - d.made[p])
    BY <1>1, <1>5, PlusType DEF UpdateReceipt
  <1>7. /\ moved' \in [Product -> Int]
        /\ \A p \in Product : moved'[p] = IF d.logged = Empty THEN moved[p]
                                           ELSE moved[p] + (b[p] - d.made[p])
    BY <1>1, <1>5, PlusType DEF UpdateReceipt
  <1>8. /\ strayed' \subseteq Product /\ strayed \subseteq strayed'
        /\ d.logged = Empty /\ b # d.made => Lines(d.made) \subseteq strayed'
    BY <1>1, <1>2, StrayGrows DEF UpdateReceipt
  <1>9. ASSUME NEW p \in Product \ strayed'
        PROVE  stock'[p] - stock[p] = moved'[p] - moved[p]
    <2>1. /\ b[p] \in Nat /\ d.made[p] \in Nat /\ stock[p] \in Int /\ moved[p] \in Int
      BY <1>1, <1>2, <1>3 DEF Basket
    <2>2. d.logged = Empty => b[p] = d.made[p]
      <3>1. CASE d.logged = Empty /\ b # d.made
        <4>1. p \notin Lines(d.made) /\ p \notin Lines(b)
          BY <1>8, <3>1 DEF UpdateReceipt
        <4> QED
          BY <2>1, <4>1 DEF Lines
      <3> QED
        BY <3>1
    <2> HIDE DEF d
    <2> QED
      BY <1>6, <1>7, <2>1, <2>2
  <1>10. BooksInv' /\ PlacesInv'
    <2>1. figures' = figures /\ UNCHANGED located
      BY DEF UpdateReceipt
    <2> QED
      BY <1>1, <1>6, <1>7, <1>8, <1>9, <2>1, ApartKeeps, SamePlaces
  <1> QED
    BY <1>4, <1>10 DEF StockInv

\* A document that goes, with what is taken off stock and off the ledger.
LEMMA GoneKeeps ==
    ASSUME StockInv, NEW k \in DOMAIN docs, Discard(k), UNCHANGED <<located, lastId, figures>>,
           NEW off \in [Product -> Int], NEW struck \in [Product -> Int],
           stock' = Minus(stock, off), moved' = Minus(moved, struck),
           strayed' \subseteq Product, strayed \subseteq strayed',
           \A p \in Product \ strayed' : off[p] = struck[p]
    PROVE  StockInv'
  <1>1. /\ BooksInv /\ PlacesInv /\ DocsInv
        /\ stock \in [Product -> Int] /\ moved \in [Product -> Int]
    BY DEF StockInv, BooksInv
  <1>2. /\ stock' \in [Product -> Int] /\ moved' \in [Product -> Int]
        /\ \A p \in Product : /\ stock'[p] = stock[p] - off[p]
                              /\ moved'[p] = moved[p] - struck[p]
    BY <1>1, PlusType, ZenonT(60)
  <1>3. ASSUME NEW p \in Product \ strayed'
        PROVE  stock'[p] - stock[p] = moved'[p] - moved[p]
    <2>1. /\ stock[p] \in Int /\ moved[p] \in Int /\ off[p] \in Int /\ off[p] = struck[p]
      BY <1>1
    <2> QED
      BY <1>2, <2>1
  <1> QED
    BY <1>1, <1>2, <1>3, ApartKeeps, SamePlaces, DiscardKeeps DEF StockInv

LEMMA DeleteReceiptKeeps ==
    ASSUME StockInv, NEW k \in Of("receipt"), DeleteReceipt(k)
    PROVE  StockInv'
  <1> DEFINE d == docs[k]
  <1>1. /\ k \in DOMAIN docs /\ DocsInv /\ strayed \subseteq Product
        /\ d.logged \in {Empty, d.made}
    BY DEF StockInv, BooksInv, DocsInv, DocFits, Of
  <1>2. d.made \in Basket /\ d.made \in [Product -> Int] /\ d.logged \in [Product -> Int]
    BY <1>1, DocType
  <1>3. /\ strayed' \subseteq Product /\ strayed \subseteq strayed'
        /\ d.logged = Empty => Lines(d.made) \subseteq strayed'
    BY <1>1, <1>2, StrayGrows DEF DeleteReceipt
  <1>4. ASSUME NEW p \in Product \ strayed' PROVE d.made[p] = d.logged[p]
    <2>1. CASE d.logged = Empty
      <3>1. p \notin Lines(d.made) /\ d.made[p] \in Nat
        BY <1>2, <1>3, <2>1 DEF Basket
      <3>2. d.made[p] = 0 /\ d.logged[p] = 0
        BY <2>1, <3>1 DEF Lines, Empty
      <3> QED
        BY <3>2
    <2> QED
      BY <1>1, <2>1
  <1>5. /\ stock' = Minus(stock, d.made) /\ moved' = Minus(moved, d.logged)
        /\ Discard(k) /\ UNCHANGED <<located, lastId, figures>>
    BY DEF DeleteReceipt
  <1> HIDE DEF d
  <1> QED
    BY <1>1, <1>2, <1>3, <1>4, <1>5, GoneKeeps

\* A document that is edited or goes, where stock and ledger change alike.
LEMMA MovedDocKeeps ==
    ASSUME StockInv, NEW change \in [Product -> Int], Move(change), DocsInv',
           UNCHANGED <<located, figures>>, strayed' \subseteq Product, strayed \subseteq strayed'
    PROVE  StockInv'
  <1>1. BooksInv /\ figures' \in [Product -> Int]
    BY DEF StockInv, BooksInv
  <1>2. BooksInv'
    BY <1>1, MoveKeeps
  <1> QED
    BY <1>2, SamePlaces DEF StockInv

LEMMA BatchKeeps ==
    ASSUME StockInv, NEW k \in Of("batch"),
           DeleteBatch(k) \/ \E used, made \in Load : EditBatch(k, used, made)
    PROVE  StockInv'
  <1>1. /\ DocsInv /\ k \in DOMAIN docs /\ k.kind = "batch" /\ strayed \subseteq Product
        /\ Empty \in [Product -> Int]
    BY LoadType, BasketType DEF StockInv, BooksInv, Of
  <1>2. docs[k] \in Doc /\ Net(docs[k]) \in [Product -> Int]
    BY <1>1, DocType
  <1>3. CASE DeleteBatch(k)
    <2>1. DocsInv'
      BY <1>1, <1>3, DiscardKeeps DEF DeleteBatch
    <2>2. /\ Minus(Empty, Net(docs[k])) \in [Product -> Int]
      BY <1>1, <1>2, PlusType
    <2>3. /\ Move(Minus(Empty, Net(docs[k]))) /\ UNCHANGED <<located, figures, strayed>>
      BY <1>3 DEF DeleteBatch
    <2> QED
      BY <1>1, <2>1, <2>2, <2>3, MovedDocKeeps
  <1>4. ASSUME NEW used \in Load, NEW made \in Load, EditBatch(k, used, made)
        PROVE  StockInv'
    <2> DEFINE new == [docs[k] EXCEPT !.used = used, !.made = made]
               change == Minus(Minus(made, used), Net(docs[k]))
    <2>1. /\ used \in Basket /\ made \in Basket
          /\ used \in [Product -> Int] /\ made \in [Product -> Int]
      BY LoadType, BasketType
    <2>2. new \in Doc /\ new.num = docs[k].num
      BY <1>2, <2>1 DEF Doc
    <2>3. /\ Store(k, new) /\ Move(change) /\ UNCHANGED <<located, lastId, figures, strayed>>
      BY <1>4 DEF EditBatch
    <2>4. change \in [Product -> Int]
      BY <1>2, <2>1, PlusType
    <2> HIDE DEF new, change
    <2>5. DocsInv'
      BY <1>1, <2>2, <2>3, StoreKeeps
    <2> QED
      BY <1>1, <2>3, <2>4, <2>5, MovedDocKeeps
  <1> QED
    BY <1>3, <1>4

LEMMA DeleteSpoilageKeeps ==
    ASSUME StockInv, NEW k \in Of("spoilage"), DeleteSpoilage(k)
    PROVE  StockInv'
  <1>1. /\ DocsInv /\ k \in DOMAIN docs /\ strayed \subseteq Product
    BY DEF StockInv, BooksInv, Of
  <1>2. docs[k].used \in [Product -> Int]
    BY <1>1, DocType
  <1>3. DocsInv'
    BY <1>1, DiscardKeeps DEF DeleteSpoilage
  <1>4. Move(docs[k].used) /\ UNCHANGED <<located, figures, strayed>>
    BY DEF DeleteSpoilage
  <1> QED
    BY <1>1, <1>2, <1>3, <1>4, MovedDocKeeps

LEMMA DeliveryKeeps ==
    ASSUME StockInv, NEW k \in Of("delivery"),
           \/ \E b \in Load, notesKept \in BOOLEAN : EditDelivery(k, b, notesKept)
           \/ DeleteDelivery(k)
    PROVE  StockInv'
  <1>1. /\ DocsInv /\ k \in DOMAIN docs /\ k.kind = "delivery" /\ strayed \subseteq Product
        /\ Empty \in [Product -> Int]
    BY LoadType, BasketType DEF StockInv, BooksInv, Of
  <1>2. /\ docs[k] \in Doc /\ docs[k].imported \in BOOLEAN
        /\ docs[k].made \in [Product -> Int]
        /\ docs[k].logged \in Basket /\ docs[k].logged \in [Product -> Int]
    BY <1>1, DocType
  <1>3. strayed' \subseteq Product /\ strayed \subseteq strayed'
    BY <1>1, <1>2, StrayGrows DEF EditDelivery, DeleteDelivery
  <1>4. CASE DeleteDelivery(k)
    <2>1. DocsInv'
      BY <1>1, <1>4, DiscardKeeps DEF DeleteDelivery
    <2>2. /\ Minus(Empty, docs[k].made) \in [Product -> Int]
      BY <1>1, <1>2, PlusType
    <2>3. /\ Move(Minus(Empty, docs[k].made)) /\ UNCHANGED <<located, figures>>
      BY <1>4 DEF DeleteDelivery
    <2> QED
      BY <1>3, <2>1, <2>2, <2>3, MovedDocKeeps
  <1>5. ASSUME NEW b \in Load, NEW notesKept \in BOOLEAN, EditDelivery(k, b, notesKept)
        PROVE  StockInv'
    <2> DEFINE new == [docs[k] EXCEPT !.made = b, !.logged = Plus(docs[k].logged, b),
                                      !.imported = docs[k].imported /\ notesKept]
               change == Minus(b, docs[k].made)
    <2>1. b \in Basket /\ b \in [Product -> Int]
      BY LoadType, BasketType
    <2>2. Plus(docs[k].logged, b) \in Basket
      BY <1>2, <2>1 DEF Plus, Basket
    <2>3. (docs[k].imported /\ notesKept) \in BOOLEAN
      OBVIOUS
    <2>4. new \in Doc /\ new.num = docs[k].num
      BY <1>2, <2>1, <2>2, <2>3 DEF Doc
    <2>5. /\ Store(k, new) /\ Move(change) /\ UNCHANGED <<located, lastId, figures>>
      BY <1>5 DEF EditDelivery
    <2>6. change \in [Product -> Int]
      BY <1>2, <2>1, PlusType
    <2> HIDE DEF new, change
    <2>7. DocsInv'
      BY <1>1, <2>4, <2>5, StoreKeeps
    <2> QED
      BY <1>3, <2>5, <2>6, <2>7, MovedDocKeeps
  <1> QED
    BY <1>4, <1>5

\* A revert takes off stock what it struck from the ledger, or the product strays.
LEMMA RevertDeliveryKeeps ==
    ASSUME StockInv, NEW k \in Of("delivery"), RevertDelivery(k)
    PROVE  StockInv'
  <1> DEFINE d == docs[k]
             gone == [p \in Product |-> IF d.made[p] > 0 THEN d.logged[p] ELSE 0]
             back == [p \in Product |-> IF d.logged[p] > 0 THEN d.made[p] ELSE 0]
  <1>1. k \in DOMAIN docs /\ DocsInv /\ strayed \subseteq Product
    BY DEF StockInv, BooksInv, Of
  <1>2. d.made \in Basket /\ d.logged \in Basket
    BY <1>1, DocType
  <1>3. gone \in [Product -> Int] /\ back \in [Product -> Int]
    BY <1>2 DEF Basket
  <1>4. /\ stock' = Minus(stock, back) /\ moved' = Minus(moved, gone) /\ Discard(k)
        /\ Stray(gone # back, gone) /\ UNCHANGED <<located, lastId, figures>>
    BY DEF RevertDelivery
  <1>5. /\ strayed' \subseteq Product /\ strayed \subseteq strayed'
        /\ gone # back => Lines(gone) \subseteq strayed'
    BY <1>1, <1>3, <1>4, StrayGrows
  <1>6. ASSUME NEW p \in Product \ strayed' PROVE back[p] = gone[p]
    <2>1. CASE gone # back
      <3>1. gone[p] <= 0 /\ d.made[p] \in Nat /\ d.logged[p] \in Nat
        BY <1>2, <1>3, <1>5, <2>1 DEF Lines, Basket
      <3> QED
        BY <3>1
    <2> QED
      BY <2>1
  <1> HIDE DEF gone, back
  <1> QED
    BY <1>1, <1>3, <1>4, <1>5, <1>6, GoneKeeps
-----------------------------------------------------------------------------
LEMMA NewDocsKeep ==
    ASSUME StockInv,
           \/ \E b \in Load, affectStock \in BOOLEAN : Receive(b, affectStock)
           \/ \E used, made \in Load : CreateBatch(used, made)
           \/ \E b \in Load : Spoil(b)
           \/ \E b \in Load, imported, recorded \in BOOLEAN : Deliver(b, imported, recorded)
    PROVE  StockInv'
  <1>1. /\ Empty \in Basket /\ Empty \in [Product -> Int] /\ Load \subseteq Basket
        /\ Load \subseteq [Product -> Int] /\ {"receipt", "batch", "spoilage", "delivery"} = Kind
    BY LoadType, BasketType DEF Kind
  <1>2. ASSUME NEW b \in Load, NEW affectStock \in BOOLEAN, Receive(b, affectStock)
        PROVE  StockInv'
    <2> DEFINE seen == IF affectStock THEN b ELSE Empty
    <2>1. seen \in Basket /\ seen \in [Product -> Int] /\ seen \in {Empty, b} /\ b \in Basket
      BY <1>1
    <2>2. /\ Create("receipt", Empty, b, seen, FALSE) /\ Move(seen)
          /\ UNCHANGED <<located, figures, strayed>>
      BY <1>2 DEF Receive
    <2> HIDE DEF seen
    <2> QED
      BY <1>1, <2>1, <2>2, NewDocKeeps
  <1>3. ASSUME NEW used \in Load, NEW made \in Load, CreateBatch(used, made)
        PROVE  StockInv'
    <2>1. Minus(made, used) \in [Product -> Int]
      BY <1>1, PlusType
    <2>2. /\ Create("batch", used, made, Empty, FALSE) /\ Move(Minus(made, used))
          /\ UNCHANGED <<located, figures, strayed>>
      BY <1>3 DEF CreateBatch
    <2> QED
      BY <1>1, <2>1, <2>2, NewDocKeeps
  <1>4. ASSUME NEW b \in Load, Spoil(b) PROVE StockInv'
    <2>1. Minus(Empty, b) \in [Product -> Int]
      BY <1>1, PlusType
    <2>2. /\ Create("spoilage", b, Empty, Empty, FALSE) /\ Move(Minus(Empty, b))
          /\ UNCHANGED <<located, figures, strayed>>
      BY <1>4 DEF Spoil
    <2> QED
      BY <1>1, <2>1, <2>2, NewDocKeeps
  <1>5. ASSUME NEW b \in Load, NEW imported \in BOOLEAN, NEW recorded \in BOOLEAN,
               Deliver(b, imported, recorded)
        PROVE  StockInv'
    <2> DEFINE seen == IF recorded THEN b ELSE Empty
    <2>1. seen \in Basket /\ seen \in [Product -> Int] /\ b \in Basket
      BY <1>1
    <2>2. /\ Create("delivery", Empty, b, seen, imported) /\ Move(seen)
          /\ UNCHANGED <<located, figures, strayed>>
      BY <1>5 DEF Deliver
    <2> HIDE DEF seen
    <2> QED
      BY <1>1, <2>1, <2>2, NewDocKeeps
  <1> QED
    BY <1>2, <1>3, <1>4, <1>5

LEMMA StockInvInit == Init => StockInv
  <1> SUFFICES ASSUME Init PROVE StockInv
    OBVIOUS
  <1>1. /\ OpeningStock \in Basket /\ OpeningStock \in [Product -> Int]
        /\ Empty \in [Product -> Int]
    BY LoadType, BasketType
  <1>2. BooksInv
    <2>1. /\ stock = OpeningStock /\ moved = Empty /\ figures = Empty /\ strayed = {}
      BY DEF Init
    <2>2. ASSUME NEW p \in Product PROVE stock[p] = OpeningStock[p] + moved[p]
      <3>1. OpeningStock[p] \in Nat /\ moved[p] = 0
        BY <1>1, <2>1 DEF Basket, Empty
      <3> QED
        BY <2>1, <3>1
    <2> QED
      BY <1>1, <2>1, <2>2 DEF BooksInv, LedgerBalances
  <1>3. PlacesInv
    <2>1. PICK placed \in SUBSET Product :
             located = [p \in Product |->
                          [l \in (IF p \in placed THEN {Main} ELSE {}) |-> OpeningStock[p]]]
      BY DEF Init
    <2>2. ASSUME NEW p \in Product
          PROVE  /\ DOMAIN located[p] \subseteq Location
                 /\ located[p] \in [DOMAIN located[p] -> Nat]
      <3>1. OpeningStock[p] \in Nat /\ Main \in Location
        BY <1>1, StockConstants DEF Basket
      <3>2. /\ DOMAIN located[p] = IF p \in placed THEN {Main} ELSE {}
            /\ located[p] = [l \in (IF p \in placed THEN {Main} ELSE {}) |-> OpeningStock[p]]
        BY <2>1
      <3> QED
        BY <3>1, <3>2
    <2> QED
      BY <2>1, <2>2 DEF PlacesInv
  <1>4. DocsInv
    <2>1. DOMAIN docs = {} /\ lastId = [k \in Kind |-> 0]
      BY DEF Init
    <2> QED
      BY <2>1, StockConstants DEF DocsInv
  <1> QED
    BY <1>2, <1>3, <1>4 DEF StockInv

LEMMA StockInvStep == StockInv /\ [Next]_vars => StockInv'
  <1> SUFFICES ASSUME StockInv, [Next]_vars PROVE StockInv'
    OBVIOUS
  <1>1. CASE UNCHANGED vars
    BY <1>1, SameBooks, SamePlaces, SameDocs DEF vars, StockInv
  <1>2. CASE Receipts
    BY <1>2, NewDocsKeep, UpdateReceiptKeeps, DeleteReceiptKeeps DEF Receipts
  <1>3. CASE Production
    BY <1>3, NewDocsKeep, BatchKeeps, DeleteSpoilageKeeps DEF Production
  <1>4. CASE Deliveries
    BY <1>4, NewDocsKeep, DeliveryKeeps, RevertDeliveryKeeps DEF Deliveries
  <1> QED
    BY <1>1, <1>2, <1>3, <1>4, TradeKeeps, ViewKeeps DEF Next

LEMMA StockInvHolds == Spec => []StockInv
  BY StockInvInit, StockInvStep, PTL DEF Spec

\* Every variable has its type.
THEOREM StockIsTyped == Spec => []TypeOK
  <1>1. StockInv => TypeOK
    <2> SUFFICES ASSUME StockInv PROVE TypeOK
      OBVIOUS
    <2>1. ASSUME NEW p \in Product
          PROVE  DOMAIN located[p] \subseteq Location /\ located[p] \in [DOMAIN located[p] -> Int]
      BY DEF StockInv, PlacesInv
    <2> QED
      BY <2>1 DEF TypeOK, StockInv, BooksInv, PlacesInv, DocsInv, DocFits
  <1> QED
    BY <1>1, StockInvHolds, PTL

\* Whatever was created, edited, deleted or reverted, the ledger explains the
\* stock, except for the products of record-only documents and uneven reverts
\* (receive_service.py:617, farm_intake_service.py).
THEOREM LedgerExplainsStock == Spec => []LedgerBalances
  BY StockInvHolds, PTL DEF StockInv, BooksInv

\* No handler leaves a location with less than nothing
\* (location_inventory_service.py:157).
THEOREM LocationsStayPositive == Spec => []LocationsNeverNegative
  <1>1. StockInv => LocationsNeverNegative
    BY DEF StockInv, PlacesInv, LocationsNeverNegative
  <1> QED
    BY <1>1, StockInvHolds, PTL

\* No two live documents of a kind have one number, though numbers come from the
\* largest live id and documents are deleted (receive_service.py:86): of two, the
\* later one's number is above the id, and so the number, of the earlier.
THEOREM LiveNumbersDiffer == Spec => []LiveNumbersUnique
  <1>1. StockInv => LiveNumbersUnique
    <2> SUFFICES ASSUME StockInv, NEW j \in DOMAIN docs, NEW k \in DOMAIN docs,
                        j.kind = k.kind, docs[j].num = docs[k].num
                 PROVE  j = k
      BY DEF LiveNumbersUnique
    <2>1. /\ j \in Key /\ k \in Key /\ j.id \in Nat /\ k.id \in Nat
          /\ docs[j].num \in Nat /\ docs[j].num <= j.id /\ docs[k].num <= k.id
          /\ j.id < k.id => j.id < docs[k].num
          /\ k.id < j.id => k.id < docs[j].num
      BY StockConstants DEF StockInv, DocsInv, DocFits, Key, Doc
    <2>2. j.id = k.id
      BY <2>1
    <2> QED
      BY <2>1, <2>2 DEF Key
  <1> QED
    BY <1>1, StockInvHolds, PTL
-----------------------------------------------------------------------------
\* What a document of each kind holds: receipts and deliveries consume nothing,
\* spoilage makes nothing, and the ledger has seen of a delivery, if anything, all
\* its items.
KindFits(k) ==
    /\ k.kind \in {"receipt", "delivery"} => docs[k].used = Empty
    /\ k.kind = "spoilage" => docs[k].made = Empty
    /\ k.kind = "delivery" /\ docs[k].logged # Empty =>
          \A p \in Product : docs[k].made[p] <= docs[k].logged[p]

\* What the documents have put in stock, and the equation it has to satisfy.
Held(p) == SumFunction([k \in DOMAIN docs |-> Put(k, p)])
Balanced(p) == stock[p] = OpeningStock[p] + figures[p] + Held(p)

BalanceInv ==
    /\ \A k \in DOMAIN docs : KindFits(k)
    /\ \A p \in Product \ strayed : Balanced(p)

LEMMA KeysFinite == IsFiniteSet(Key)
  <1>1. IsFiniteSet(Kind) /\ IsFiniteSet(1..MaxDocs)
    <2>1. IsFiniteSet({}) /\ IsFiniteSet({} \cup {"receipt"})
      BY FS_EmptySet, FS_AddElement
    <2>2. IsFiniteSet({"receipt"} \cup {"batch"})
      BY <2>1, FS_AddElement
    <2>3. IsFiniteSet({"receipt", "batch"} \cup {"spoilage"})
      BY <2>2, FS_AddElement
    <2>4. IsFiniteSet({"receipt", "batch", "spoilage"} \cup {"delivery"})
      BY <2>3, FS_AddElement
    <2>5. IsFiniteSet(1..MaxDocs)
      BY FS_Interval, StockConstants
    <2> QED
      BY <2>4, <2>5 DEF Kind
  <1>2. IsFiniteSet(Kind \X (1..MaxDocs))
    BY <1>1, FS_Product
  <1> DEFINE f == [c \in Kind \X (1..MaxDocs) |-> [kind |-> c[1], id |-> c[2]]]
  <1>3. f \in Surjection(Kind \X (1..MaxDocs), Key)
    <2>1. f \in [Kind \X (1..MaxDocs) -> Key]
      BY DEF Key
    <2>2. ASSUME NEW k \in Key PROVE \E c \in Kind \X (1..MaxDocs) : f[c] = k
      <3>1. <<k.kind, k.id>> \in Kind \X (1..MaxDocs) /\ f[<<k.kind, k.id>>] = k
        BY DEF Key
      <3> QED
        BY <3>1
    <2> QED
      BY <2>1, <2>2 DEF Surjection
  <1> QED
    BY <1>2, <1>3, FS_Surjection

PutTyped ==
    /\ IsFiniteSet(DOMAIN docs)
    /\ \A k \in DOMAIN docs, p \in Product : Put(k, p) \in Int
    /\ \A p \in Product : Held(p) \in Int

LEMMA PutType == StockInv => PutTyped
  <1> SUFFICES ASSUME StockInv PROVE PutTyped
    OBVIOUS
  <1>1. DocsInv /\ IsFiniteSet(DOMAIN docs)
    BY KeysFinite, FS_Subset DEF StockInv, DocsInv
  <1>2. ASSUME NEW k \in DOMAIN docs, NEW p \in Product PROVE Put(k, p) \in Int
    BY <1>1, DocType DEF Put
  <1>3. ASSUME NEW p \in Product PROVE Held(p) \in Int
    <2> DEFINE f == [k \in DOMAIN docs |-> Put(k, p)]
    <2>1. DOMAIN f = DOMAIN docs /\ \A k \in DOMAIN docs : f[k] \in Int
      BY <1>2
    <2> HIDE DEF f
    <2>2. SumFunctionOnSet(f, DOMAIN docs) \in Int
      BY <1>1, <2>1, SumIsInt
    <2> QED
      BY <2>1, <2>2 DEF SumFunction, Held, f
  <1> QED
    BY <1>1, <1>2, <1>3 DEF PutTyped

\* One document is created, edited or deleted, and the stock of a product changes
\* by what the document has more or less of it.
LEMMA OneDocBalances ==
    ASSUME StockInv, StockInv', NEW x, DOMAIN docs \ {x} = DOMAIN docs' \ {x},
           \A k \in DOMAIN docs \ {x} : docs'[k] = docs[k],
           NEW p \in Product, Balanced(p), UNCHANGED figures,
           stock'[p] = stock[p] - (IF x \in DOMAIN docs THEN Put(x, p) ELSE 0)
                                + (IF x \in DOMAIN docs' THEN Put(x, p)' ELSE 0)
    PROVE  Balanced(p)'
  <1> DEFINE f == [k \in DOMAIN docs |-> Put(k, p)]
             g == [k \in DOMAIN docs' |-> Put(k, p)']
  <1>1. f \in [DOMAIN docs -> Int] /\ IsFiniteSet(DOMAIN docs) /\ Held(p) \in Int
    BY PutType DEF PutTyped
  <1>2. (\A k \in DOMAIN docs : Put(k, p) \in Int)' /\ IsFiniteSet(DOMAIN docs')
    <2>1. PutTyped'
      BY PutType, PTL
    <2> QED
      BY <2>1 DEF PutTyped
  <1>3. g \in [DOMAIN docs' -> Int]
    BY <1>2
  <1>4. \A k \in DOMAIN docs \ {x} : f[k] = g[k]
    BY DEF Put
  <1>5. /\ x \in DOMAIN docs => f[x] = Put(x, p) /\ f[x] \in Int
        /\ x \in DOMAIN docs' => g[x] = Put(x, p)' /\ g[x] \in Int
    BY <1>1, <1>3
  <1>6. Held(p) = SumFunction(f) /\ Held(p)' = SumFunction(g)
    BY DEF Held
  <1> HIDE DEF f, g
  <1>7. SumFunction(g) = SumFunction(f) - (IF x \in DOMAIN docs THEN f[x] ELSE 0)
                                        + (IF x \in DOMAIN docs' THEN g[x] ELSE 0)
    BY <1>1, <1>2, <1>3, <1>4, SumDiffers
  <1>8. stock[p] \in Int /\ OpeningStock[p] \in Int /\ figures[p] \in Int
    BY StockConstants DEF StockInv, BooksInv, Basket
  <1> QED
    BY <1>1, <1>5, <1>6, <1>7, <1>8 DEF Balanced

\* A figure set by hand moves the stock and no document.
LEMMA TradeBalances ==
    ASSUME StockInv, BalanceInv, Trade
    PROVE  BalanceInv'
  <1>1. UNCHANGED <<docs, strayed>>
    BY DEF Trade, Purchase, Sell, AdjustTotal, AdjustAt, Transfer, EditStock, ImportStock
  <1>2. /\ stock \in [Product -> Int] /\ figures \in [Product -> Int]
        /\ Qty \subseteq Int /\ Signed \subseteq Int /\ 0..MaxStock \subseteq Int
    <2>1. Qty \subseteq Int /\ 0..MaxStock \subseteq Int
      BY StockConstants
    <2>2. ASSUME NEW n \in Signed PROVE n \in Int
      BY <2>1 DEF Signed
    <2> QED
      BY <2>1, <2>2 DEF StockInv, BooksInv
  <1>3. ASSUME NEW p \in Product PROVE stock'[p] - stock[p] = figures'[p] - figures[p]
    <2>1. PICK o \in Product, n \in Int :
             \/ Move(One(o, n)) /\ figures' = Plus(figures, One(o, n))
             \/ Move(One(o, -n)) /\ figures' = Minus(figures, One(o, n))
             \/ UNCHANGED <<stock, figures>>
      <3>1. PICK o \in Product :
               \/ \E q \in Qty : Purchase(o, q) \/ Sell(o, q)
               \/ \E n \in Signed : \/ AdjustTotal(o, n)
                                    \/ \E l \in Location : AdjustAt(o, l, n)
               \/ \E q \in Qty, from, to \in Location : Transfer(o, from, to, q)
               \/ \E n \in 0..MaxStock : EditStock(o, n) \/ ImportStock(o, n)
        BY DEF Trade
      <3>2. CASE \E q \in Qty : Purchase(o, q) \/ Sell(o, q)
        BY <1>2, <3>2 DEF Purchase, Sell
      <3>3. CASE \E n \in Signed : \/ AdjustTotal(o, n)
                                   \/ \E l \in Location : AdjustAt(o, l, n)
        BY <1>2, <3>3 DEF AdjustTotal, AdjustAt
      <3>4. CASE \E q \in Qty, from, to \in Location : Transfer(o, from, to, q)
        BY <3>4 DEF Transfer
      <3>5. CASE \E n \in 0..MaxStock : EditStock(o, n) \/ ImportStock(o, n)
        <4>1. PICK n \in 0..MaxStock : EditStock(o, n) \/ ImportStock(o, n)
          BY <3>5
        <4>2. n - stock[o] \in Int
          BY <1>2
        <4>3. /\ Move(One(o, n - stock[o]))
              /\ figures' = Plus(figures, One(o, n - stock[o]))
          BY <4>1 DEF EditStock, ImportStock
        <4> QED
          BY <4>2, <4>3
      <3> QED
        BY <3>1, <3>2, <3>3, <3>4, <3>5
    <2>2. /\ -n \in Int
          /\ One(o, n) \in [Product -> Int] /\ One(o, -n) \in [Product -> Int]
          /\ One(o, -n)[p] = - One(o, n)[p]
      <3>1. -n \in Int
        OBVIOUS
      <3>2. /\ One(o, n) \in [Product -> Int] /\ One(o, -n) \in [Product -> Int]
            /\ One(o, n)[p] = IF p = o THEN n ELSE 0
            /\ One(o, -n)[p] = IF p = o THEN -n ELSE 0
        BY <3>1, LoadType
      <3> QED
        BY <3>1, <3>2
    <2>3. stock[p] \in Int /\ figures[p] \in Int /\ One(o, n)[p] \in Int
      BY <1>2, <2>2
    <2>4. CASE Move(One(o, n)) /\ figures' = Plus(figures, One(o, n))
      <3>1. stock'[p] = stock[p] + One(o, n)[p] /\ figures'[p] = figures[p] + One(o, n)[p]
        BY <1>2, <2>2, <2>4, PlusType DEF Move
      <3> QED
        BY <2>3, <3>1
    <2>5. CASE Move(One(o, -n)) /\ figures' = Minus(figures, One(o, n))
      <3>1. stock'[p] = stock[p] + One(o, -n)[p] /\ figures'[p] = figures[p] - One(o, n)[p]
        BY <1>2, <2>2, <2>5, PlusType DEF Move
      <3> QED
        BY <2>2, <2>3, <3>1
    <2>6. CASE UNCHANGED <<stock, figures>>
      BY <2>3, <2>6
    <2> QED
      BY <2>1, <2>4, <2>5, <2>6
  <1>4. ASSUME NEW p \in Product \ strayed PROVE Balanced(p)'
    <2>1. Held(p)' = Held(p)
      BY <1>1 DEF Held, Put
    <2>7. Held(p) \in Int
      BY PutType DEF PutTyped
    <2>2. StockInv'
      BY TradeKeeps
    <2>3. /\ stock[p] \in Int /\ figures[p] \in Int /\ OpeningStock[p] \in Int
          /\ stock'[p] \in Int /\ figures'[p] \in Int
      BY <2>2, StockConstants DEF StockInv, BooksInv, Basket
    <2>4. stock[p] = OpeningStock[p] + figures[p] + Held(p)
      BY DEF BalanceInv, Balanced
    <2>5. stock'[p] - stock[p] = figures'[p] - figures[p]
      BY <1>3
    <2>6. stock'[p] = OpeningStock[p] + figures'[p] + Held(p)
      <3>1. PICK s, o, f, h, s1, f1 \in Int :
               /\ s = stock[p] /\ o = OpeningStock[p] /\ f = figures[p] /\ h = Held(p)
               /\ s1 = stock'[p] /\ f1 = figures'[p]
        BY <2>3, <2>7
      <3>2. s = o + f + h
        BY <2>4, <3>1
      <3>3. s1 - s = f1 - f
        BY <2>5, <3>1
      <3>4. s1 = o + f1 + h
        BY <3>2, <3>3
      <3> QED
        BY <3>1, <3>4
    <2> QED
      BY <2>1, <2>6 DEF Balanced
  <1>5. \A k \in DOMAIN docs : KindFits(k)'
    BY <1>1 DEF BalanceInv, KindFits
  <1> QED
    BY <1>1, <1>4, <1>5 DEF BalanceInv

\* What a document d under the key k has put in stock.
PutBy(k, d, p) ==
    IF k.kind \in {"receipt", "delivery"} /\ d.logged = Empty THEN 0 ELSE d.made[p] - d.used[p]

PutsAre == \A k \in DOMAIN docs, p \in Product : Put(k, p) = PutBy(k, docs[k], p)

LEMMA PutIs == StockInv => PutsAre
  <1> SUFFICES ASSUME StockInv, NEW k \in DOMAIN docs, NEW p \in Product
               PROVE  Put(k, p) = PutBy(k, docs[k], p)
    BY DEF PutsAre
  <1>1. docs[k].made \in [Product -> Int] /\ docs[k].used \in [Product -> Int]
    BY DocType DEF StockInv
  <1>2. Net(docs[k])[p] = docs[k].made[p] - docs[k].used[p]
    BY <1>1, PlusType DEF Net
  <1> QED
    BY <1>2 DEF Put, PutBy

\* A document written under its key, new or not.
LEMMA StoreBalances ==
    ASSUME StockInv, StockInv', BalanceInv, NEW k, NEW d, Store(k, d), KindFits(k)',
           UNCHANGED figures, strayed \subseteq strayed',
           \A p \in Product \ strayed' :
               stock'[p] = stock[p] - (IF k \in DOMAIN docs THEN Put(k, p) ELSE 0)
                                    + PutBy(k, d, p)
    PROVE  BalanceInv'
  <1>1. /\ DOMAIN docs' = DOMAIN docs \cup {k} /\ docs'[k] = d
        /\ \A x \in DOMAIN docs \ {k} : docs'[x] = docs[x]
    BY DEF Store
  <1>2. ASSUME NEW p \in Product \ strayed' PROVE Balanced(p)'
    <2>1. PutsAre'
      BY PutIs, PTL
    <2>2. Put(k, p)' = PutBy(k, d, p)
      BY <1>1, <2>1 DEF PutsAre, PutBy
    <2>3. /\ DOMAIN docs \ {k} = DOMAIN docs' \ {k} /\ Balanced(p)
          /\ stock'[p] = stock[p] - (IF k \in DOMAIN docs THEN Put(k, p) ELSE 0)
                                  + (IF k \in DOMAIN docs' THEN Put(k, p)' ELSE 0)
      BY <1>1, <2>2 DEF BalanceInv
    <2> QED
      BY <1>1, <2>3, OneDocBalances
  <1>3. ASSUME NEW x \in DOMAIN docs' PROVE KindFits(x)'
    <2>1. CASE x # k
      BY <1>1, <2>1 DEF BalanceInv, KindFits
    <2> QED
      BY <2>1
  <1> QED
    BY <1>2, <1>3 DEF BalanceInv

\* A document that goes takes off stock what it put there.
LEMMA GoneBalances ==
    ASSUME StockInv, StockInv', BalanceInv, NEW k \in DOMAIN docs, Discard(k),
           UNCHANGED figures, strayed \subseteq strayed',
           \A p \in Product \ strayed' : stock'[p] = stock[p] - PutBy(k, docs[k], p)
    PROVE  BalanceInv'
  <1>1. /\ DOMAIN docs' = DOMAIN docs \ {k}
        /\ \A x \in DOMAIN docs \ {k} : docs'[x] = docs[x]
    BY DEF Discard
  <1>2. ASSUME NEW p \in Product \ strayed' PROVE Balanced(p)'
    <2>1. Put(k, p) = PutBy(k, docs[k], p) /\ Put(k, p) \in Int /\ stock[p] \in Int
      BY PutIs, PutType DEF PutsAre, PutTyped, StockInv, BooksInv
    <2>2. stock'[p] = stock[p] - Put(k, p) + 0
      BY <2>1
    <2>3. /\ DOMAIN docs \ {k} = DOMAIN docs' \ {k} /\ Balanced(p)
          /\ stock'[p] = stock[p] - (IF k \in DOMAIN docs THEN Put(k, p) ELSE 0)
                                  + (IF k \in DOMAIN docs' THEN Put(k, p)' ELSE 0)
      BY <1>1, <2>2 DEF BalanceInv
    <2> QED
      BY <1>1, <2>3, OneDocBalances
  <1>3. \A x \in DOMAIN docs' : KindFits(x)'
    BY <1>1 DEF BalanceInv, KindFits
  <1> QED
    BY <1>2, <1>3 DEF BalanceInv

\* A new document, whose goods the stock moves by.
LEMMA NewDocBalances ==
    ASSUME StockInv, StockInv', BalanceInv, NEW kind \in Kind, NEW used \in Basket,
           NEW made \in Basket, NEW logged \in Basket, NEW imported \in BOOLEAN,
           NEW change \in [Product -> Int], Create(kind, used, made, logged, imported),
           Move(change), UNCHANGED <<figures, strayed>>,
           kind \in {"receipt", "delivery"} => used = Empty /\ change = logged,
           kind \in {"receipt", "delivery"} => logged \in {Empty, made},
           kind \in {"batch", "spoilage"} => change = Minus(made, used),
           kind = "spoilage" => made = Empty
    PROVE  BalanceInv'
  <1>0. PICK k, d : /\ k = [kind |-> kind, id |-> lastId[kind] + 1]
                    /\ d = [num |-> NextNumber(kind), used |-> used, made |-> made,
                            logged |-> logged, imported |-> imported]
    OBVIOUS
  <1>1. /\ Store(k, d) /\ k.kind = kind /\ k.id = lastId[kind] + 1 /\ docs'[k] = d
        /\ d.used = used /\ d.made = made /\ d.logged = logged
    BY <1>0 DEF Create, Store
  <1>2. k \notin DOMAIN docs
    <2>1. lastId[kind] \in Nat
      BY DEF StockInv, DocsInv
    <2>2. k \in DOMAIN docs => lastId[kind] + 1 <= lastId[kind]
      BY <1>1 DEF StockInv, DocsInv, DocFits
    <2> QED
      BY <2>1, <2>2
  <1>3. KindFits(k)'
    <2>1. \A p \in Product : made[p] <= made[p]
      BY DEF Basket
    <2> QED
      BY <1>1, <2>1 DEF KindFits
  <1>4. ASSUME NEW p \in Product
        PROVE  stock'[p] = stock[p] - (IF k \in DOMAIN docs THEN Put(k, p) ELSE 0)
                                    + PutBy(k, d, p)
    <2>1. /\ stock[p] \in Int /\ made[p] \in Int /\ used[p] \in Int /\ logged[p] \in Int
          /\ stock \in [Product -> Int] /\ made \in [Product -> Int] /\ used \in [Product -> Int]
      BY DEF StockInv, BooksInv, Basket
    <2>2. stock'[p] = stock[p] + change[p] /\ change[p] \in Int
      BY <2>1, PlusType DEF Move
    <2>3. PutBy(k, d, p) = IF kind \in {"receipt", "delivery"} /\ logged = Empty
                           THEN 0 ELSE made[p] - used[p]
      BY <1>1 DEF PutBy
    <2>4. kind \in {"receipt", "delivery"} \/ kind \in {"batch", "spoilage"}
      BY DEF Kind
    <2>5. change[p] = PutBy(k, d, p)
      <3>1. CASE kind \in {"receipt", "delivery"}
        BY <2>1, <2>3, <3>1 DEF Empty
      <3>2. CASE kind \in {"batch", "spoilage"}
        <4>1. change[p] = made[p] - used[p]
          BY <2>1, <3>2, PlusType
        <4> QED
          BY <2>3, <3>2, <4>1
      <3> QED
        BY <2>4, <3>1, <3>2
    <2> QED
      BY <1>2, <2>1, <2>2, <2>5
  <1> QED
    BY <1>1, <1>3, <1>4, StoreBalances

LEMMA NewDocsBalance ==
    ASSUME StockInv, StockInv', BalanceInv,
           \/ \E b \in Load, affectStock \in BOOLEAN : Receive(b, affectStock)
           \/ \E used, made \in Load : CreateBatch(used, made)
           \/ \E b \in Load : Spoil(b)
           \/ \E b \in Load, imported, recorded \in BOOLEAN : Deliver(b, imported, recorded)
    PROVE  BalanceInv'
  <1>1. /\ Empty \in Basket /\ Empty \in [Product -> Int] /\ Load \subseteq Basket
        /\ Load \subseteq [Product -> Int] /\ {"receipt", "batch", "spoilage", "delivery"} = Kind
    BY LoadType, BasketType DEF Kind
  <1>2. ASSUME NEW b \in Load, NEW affectStock \in BOOLEAN, Receive(b, affectStock)
        PROVE  BalanceInv'
    <2> DEFINE seen == IF affectStock THEN b ELSE Empty
    <2>1. seen \in Basket /\ seen \in [Product -> Int] /\ seen \in {Empty, b} /\ b \in Basket
      BY <1>1
    <2>2. /\ Create("receipt", Empty, b, seen, FALSE) /\ Move(seen)
          /\ UNCHANGED <<figures, strayed>>
      BY <1>2 DEF Receive
    <2> HIDE DEF seen
    <2> QED
      BY <1>1, <2>1, <2>2, NewDocBalances
  <1>3. ASSUME NEW used \in Load, NEW made \in Load, CreateBatch(used, made)
        PROVE  BalanceInv'
    <2>1. Minus(made, used) \in [Product -> Int]
      BY <1>1, PlusType
    <2>2. /\ Create("batch", used, made, Empty, FALSE) /\ Move(Minus(made, used))
          /\ UNCHANGED <<figures, strayed>>
      BY <1>3 DEF CreateBatch
    <2> QED
      BY <1>1, <2>1, <2>2, NewDocBalances
  <1>4. ASSUME NEW b \in Load, Spoil(b) PROVE BalanceInv'
    <2>1. Minus(Empty, b) \in [Product -> Int]
      BY <1>1, PlusType
    <2>2. /\ Create("spoilage", b, Empty, Empty, FALSE) /\ Move(Minus(Empty, b))
          /\ UNCHANGED <<figures, strayed>>
      BY <1>4 DEF Spoil
    <2> QED
      BY <1>1, <2>1, <2>2, NewDocBalances
  <1>5. ASSUME NEW b \in Load, NEW imported \in BOOLEAN, NEW recorded \in BOOLEAN,
               Deliver(b, imported, recorded)
        PROVE  BalanceInv'
    <2> DEFINE seen == IF recorded THEN b ELSE Empty
    <2>1. seen \in Basket /\ seen \in [Product -> Int] /\ seen \in {Empty, b} /\ b \in Basket
      BY <1>1
    <2>2. /\ Create("delivery", Empty, b, seen, imported) /\ Move(seen)
          /\ UNCHANGED <<figures, strayed>>
      BY <1>5 DEF Deliver
    <2> HIDE DEF seen
    <2> QED
      BY <1>1, <2>1, <2>2, NewDocBalances
  <1> QED
    BY <1>2, <1>3, <1>4, <1>5

\* A document and its quantities, as far as the kind says.
LEMMA KindType ==
    ASSUME StockInv, BalanceInv, NEW k \in DOMAIN docs
    PROVE  /\ KindFits(k)
           /\ \A p \in Product : /\ docs[k].made[p] \in Nat /\ docs[k].used[p] \in Nat
                                 /\ docs[k].logged[p] \in Nat /\ stock[p] \in Int
                                 /\ Put(k, p) = PutBy(k, docs[k], p)
           /\ docs[k].made \in [Product -> Int] /\ docs[k].used \in [Product -> Int]
           /\ docs[k].logged \in [Product -> Int] /\ stock \in [Product -> Int]
           /\ \A p \in Product : Empty[p] = 0
           /\ strayed \subseteq Product
  BY DocType, PutIs DEF StockInv, BooksInv, BalanceInv, Basket, Empty, PutsAre

LEMMA ReceiptBalances ==
    ASSUME StockInv, StockInv', BalanceInv, NEW k \in Of("receipt"),
           DeleteReceipt(k) \/ \E b \in Load : UpdateReceipt(k, b)
    PROVE  BalanceInv'
  <1> DEFINE d == docs[k]
  <1>1. /\ k \in DOMAIN docs /\ k.kind = "receipt" /\ d.logged \in {Empty, d.made}
        /\ d.used = Empty
    BY DEF Of, StockInv, DocsInv, DocFits, BalanceInv, KindFits
  <1>2. CASE DeleteReceipt(k)
    <2>1. /\ Discard(k) /\ stock' = Minus(stock, d.made) /\ UNCHANGED figures
          /\ Stray(d.logged = Empty, d.made)
      BY <1>2 DEF DeleteReceipt
    <2>2. strayed \subseteq strayed' /\ (d.logged = Empty => Lines(d.made) \subseteq strayed')
      BY <1>1, <2>1, KindType, StrayGrows
    <2>3. ASSUME NEW p \in Product \ strayed' PROVE stock'[p] = stock[p] - PutBy(k, docs[k], p)
      <3>1. /\ stock'[p] = stock[p] - d.made[p] /\ stock[p] \in Int /\ d.made[p] \in Nat
            /\ d.used[p] = 0
        BY <1>1, <2>1, KindType, PlusType
      <3>2. d.logged = Empty => d.made[p] = 0
        BY <2>2, <3>1 DEF Lines
      <3>3. PutBy(k, d, p) = d.made[p]
        BY <1>1, <3>1, <3>2 DEF PutBy
      <3> QED
        BY <3>1, <3>3
    <2> QED
      BY <1>1, <2>1, <2>2, <2>3, GoneBalances
  <1>3. ASSUME NEW b \in Load, UpdateReceipt(k, b) PROVE BalanceInv'
    <2> DEFINE new == [d EXCEPT !.made = b,
                                !.logged = IF d.logged = Empty THEN Empty ELSE b]
    <2>1. /\ Store(k, new) /\ stock' = Plus(stock, Minus(b, d.made)) /\ UNCHANGED figures
          /\ Stray(d.logged = Empty /\ b # d.made, d.made) /\ Lines(b) = Lines(d.made)
      BY <1>3 DEF UpdateReceipt
    <2>2. /\ strayed \subseteq strayed'
          /\ d.logged = Empty /\ b # d.made => Lines(d.made) \subseteq strayed'
      BY <1>1, <2>1, KindType, StrayGrows
    <2>3. /\ b \in [Product -> Int] /\ b # Empty /\ \A p \in Product : b[p] \in Nat
      BY LoadType, BasketType DEF Basket, Lines, Empty
    <2>4. /\ new.used = Empty /\ new.made = b
          /\ new.logged = IF d.logged = Empty THEN Empty ELSE b
      BY <1>1 DEF StockInv, DocsInv, DocFits, Doc
    <2>5. KindFits(k)'
      BY <1>1, <2>1, <2>4 DEF KindFits, Store
    <2> HIDE DEF new
    <2>6. ASSUME NEW p \in Product \ strayed'
          PROVE  stock'[p] = stock[p] - (IF k \in DOMAIN docs THEN Put(k, p) ELSE 0)
                                      + PutBy(k, new, p)
      <3>1. /\ stock'[p] = stock[p] + (b[p] - d.made[p]) /\ stock[p] \in Int
            /\ d.made[p] \in Nat /\ d.used[p] = 0 /\ b[p] \in Nat /\ new.used[p] = 0
            /\ Put(k, p) = PutBy(k, d, p)
        BY <1>1, <2>1, <2>3, <2>4, KindType, PlusType
      <3>2. CASE d.logged = Empty
        <4>1. b[p] = d.made[p]
          BY <2>1, <2>2, <3>1, <3>2 DEF Lines
        <4>2. Put(k, p) = 0 /\ PutBy(k, new, p) = 0
          BY <1>1, <2>4, <3>1, <3>2 DEF PutBy
        <4> QED
          BY <1>1, <3>1, <4>1, <4>2
      <3>3. CASE d.logged # Empty
        <4>1. Put(k, p) = d.made[p] /\ PutBy(k, new, p) = b[p]
          BY <1>1, <2>3, <2>4, <3>1, <3>3 DEF PutBy
        <4> QED
          BY <1>1, <3>1, <4>1
      <3> QED
        BY <3>2, <3>3
    <2> QED
      BY <2>1, <2>2, <2>5, <2>6, StoreBalances
  <1> QED
    BY <1>2, <1>3

LEMMA BatchBalances ==
    ASSUME StockInv, StockInv', BalanceInv, NEW k \in Of("batch"),
           DeleteBatch(k) \/ \E used, made \in Load : EditBatch(k, used, made)
    PROVE  BalanceInv'
  <1> DEFINE d == docs[k]
  <1>1. k \in DOMAIN docs /\ k.kind = "batch"
    BY DEF Of
  <1>2. /\ Net(d) \in [Product -> Int] /\ Empty \in [Product -> Int]
        /\ \A p \in Product : PutBy(k, d, p) = Net(d)[p] /\ Put(k, p) = Net(d)[p]
    <2>1. Empty \in [Product -> Int]
      BY LoadType, BasketType
    <2>2. d.made \in [Product -> Int] /\ d.used \in [Product -> Int]
      BY <1>1, KindType
    <2>3. /\ Net(d) \in [Product -> Int]
          /\ \A p \in Product : Net(d)[p] = d.made[p] - d.used[p]
      BY <2>2, PlusType DEF Net
    <2>4. \A p \in Product : PutBy(k, d, p) = d.made[p] - d.used[p]
      BY <1>1 DEF PutBy
    <2>5. \A p \in Product : Put(k, p) = PutBy(k, d, p)
      BY <1>1, KindType
    <2> QED
      BY <2>1, <2>3, <2>4, <2>5
  <1>3. CASE DeleteBatch(k)
    <2>1. Discard(k) /\ Move(Minus(Empty, Net(d))) /\ UNCHANGED <<figures, strayed>>
      BY <1>3 DEF DeleteBatch
    <2>2. ASSUME NEW p \in Product PROVE stock'[p] = stock[p] - PutBy(k, docs[k], p)
      <3>1. /\ Minus(Empty, Net(d)) \in [Product -> Int]
            /\ Minus(Empty, Net(d))[p] = 0 - Net(d)[p]
        BY <1>1, <1>2, KindType, PlusType
      <3>2. stock'[p] = stock[p] + (0 - Net(d)[p]) /\ stock[p] \in Int /\ Net(d)[p] \in Int
        BY <1>1, <1>2, <2>1, <3>1, KindType, PlusType DEF Move
      <3> QED
        BY <1>2, <3>2
    <2> QED
      BY <1>1, <2>1, <2>2, GoneBalances
  <1>4. ASSUME NEW used \in Load, NEW made \in Load, EditBatch(k, used, made)
        PROVE  BalanceInv'
    <2> DEFINE new == [d EXCEPT !.used = used, !.made = made]
    <2>1. /\ Store(k, new) /\ Move(Minus(Minus(made, used), Net(d)))
          /\ UNCHANGED <<figures, strayed>>
      BY <1>4 DEF EditBatch
    <2>2. used \in [Product -> Int] /\ made \in [Product -> Int]
      BY LoadType, BasketType
    <2>3. new.used = used /\ new.made = made
      BY <1>1 DEF StockInv, DocsInv, DocFits, Doc
    <2>4. KindFits(k)'
      BY <1>1 DEF KindFits
    <2> HIDE DEF new
    <2>5. ASSUME NEW p \in Product
          PROVE  stock'[p] = stock[p] - (IF k \in DOMAIN docs THEN Put(k, p) ELSE 0)
                                      + PutBy(k, new, p)
      <3>1. /\ Minus(made, used) \in [Product -> Int]
            /\ Minus(made, used)[p] = made[p] - used[p]
        BY <2>2, PlusType
      <3>2. /\ Minus(Minus(made, used), Net(d)) \in [Product -> Int]
            /\ Minus(Minus(made, used), Net(d))[p] = (made[p] - used[p]) - Net(d)[p]
        BY <1>2, <3>1, PlusType
      <3>3. /\ stock'[p] = stock[p] + ((made[p] - used[p]) - Net(d)[p])
            /\ stock[p] \in Int /\ made[p] \in Int /\ used[p] \in Int /\ Net(d)[p] \in Int
        <4>1. stock \in [Product -> Int]
          BY <1>1, KindType
        <4> QED
          BY <1>2, <2>1, <2>2, <3>2, <4>1, PlusType DEF Move
      <3>4. Put(k, p) = Net(d)[p] /\ PutBy(k, new, p) = made[p] - used[p]
        BY <1>1, <1>2, <2>3 DEF PutBy
      <3> QED
        BY <1>1, <3>3, <3>4
    <2> QED
      BY <2>1, <2>4, <2>5, StoreBalances
  <1> QED
    BY <1>3, <1>4

LEMMA DeleteSpoilageBalances ==
    ASSUME StockInv, StockInv', BalanceInv, NEW k \in Of("spoilage"), DeleteSpoilage(k)
    PROVE  BalanceInv'
  <1>1. /\ k \in DOMAIN docs /\ k.kind = "spoilage"
        /\ Discard(k) /\ Move(docs[k].used) /\ UNCHANGED <<figures, strayed>>
    BY DEF Of, DeleteSpoilage
  <1>2. ASSUME NEW p \in Product PROVE stock'[p] = stock[p] - PutBy(k, docs[k], p)
    <2>1. /\ stock'[p] = stock[p] + docs[k].used[p] /\ stock[p] \in Int
          /\ docs[k].used[p] \in Nat /\ docs[k].made[p] = 0
      BY <1>1, KindType, PlusType DEF Move, KindFits
    <2>2. PutBy(k, docs[k], p) = 0 - docs[k].used[p]
      BY <1>1, <2>1 DEF PutBy
    <2> QED
      BY <2>1, <2>2
  <1> QED
    BY <1>1, <1>2, GoneBalances

LEMMA DeliveryBalances ==
    ASSUME StockInv, StockInv', BalanceInv, NEW k \in Of("delivery"),
           \/ \E b \in Load, notesKept \in BOOLEAN : EditDelivery(k, b, notesKept)
           \/ DeleteDelivery(k)
           \/ RevertDelivery(k)
    PROVE  BalanceInv'
  <1> DEFINE d == docs[k]
  <1>1. k \in DOMAIN docs /\ k.kind = "delivery" /\ d.used = Empty
    BY DEF Of, BalanceInv, KindFits
  <1>2. ASSUME NEW p \in Product
        PROVE  /\ stock[p] \in Int /\ d.made[p] \in Nat /\ d.logged[p] \in Nat
               /\ d.used[p] = 0 /\ Empty[p] = 0
               /\ Put(k, p) = PutBy(k, d, p)
               /\ PutBy(k, d, p) = IF d.logged = Empty THEN 0 ELSE d.made[p]
               /\ d.logged # Empty => d.made[p] <= d.logged[p]
    BY <1>1, KindType DEF PutBy, KindFits
  <1>3. CASE DeleteDelivery(k)
    <2>1. /\ Discard(k) /\ Move(Minus(Empty, d.made)) /\ UNCHANGED figures
          /\ Stray(d.logged = Empty, d.made)
      BY <1>3 DEF DeleteDelivery
    <2>2. strayed \subseteq strayed' /\ (d.logged = Empty => Lines(d.made) \subseteq strayed')
      BY <1>1, <2>1, KindType, StrayGrows
    <2>3. ASSUME NEW p \in Product \ strayed' PROVE stock'[p] = stock[p] - PutBy(k, docs[k], p)
      <3>1. /\ Minus(Empty, d.made) \in [Product -> Int]
            /\ Minus(Empty, d.made)[p] = 0 - d.made[p]
        <4>1. Empty \in [Product -> Int] /\ d.made \in [Product -> Int]
          BY <1>1, KindType, LoadType, BasketType
        <4> QED
          BY <1>2, <4>1, PlusType
      <3>2. stock'[p] = stock[p] + (0 - d.made[p])
        BY <1>1, <2>1, <3>1, KindType, PlusType DEF Move
      <3>3. d.logged = Empty => d.made[p] = 0
        BY <1>2, <2>2 DEF Lines
      <3> QED
        BY <1>2, <3>2, <3>3
    <2> QED
      BY <1>1, <2>1, <2>2, <2>3, GoneBalances
  <1>4. CASE RevertDelivery(k)
    <2> DEFINE gone == [p \in Product |-> IF d.made[p] > 0 THEN d.logged[p] ELSE 0]
               back == [p \in Product |-> IF d.logged[p] > 0 THEN d.made[p] ELSE 0]
    <2>1. /\ Discard(k) /\ stock' = Minus(stock, back) /\ UNCHANGED figures
          /\ Stray(gone # back, gone)
      BY <1>4 DEF RevertDelivery
    <2>2. back \in [Product -> Int] /\ gone \in [Product -> Int]
      BY <1>2
    <2>3. strayed \subseteq strayed'
      BY <1>1, <2>1, <2>2, KindType, StrayGrows
    <2>4. ASSUME NEW p \in Product PROVE stock'[p] = stock[p] - PutBy(k, docs[k], p)
      <3>1. back[p] = PutBy(k, d, p)
        BY <1>2
      <3> HIDE DEF back
      <3>2. stock'[p] = stock[p] - back[p]
        BY <1>1, <2>1, <2>2, KindType, PlusType
      <3> QED
        BY <3>1, <3>2
    <2> QED
      BY <1>1, <2>1, <2>3, <2>4, GoneBalances
  <1>5. ASSUME NEW b \in Load, NEW notesKept \in BOOLEAN, EditDelivery(k, b, notesKept)
        PROVE  BalanceInv'
    <2> DEFINE new == [d EXCEPT !.made = b, !.logged = Plus(d.logged, b),
                                !.imported = d.imported /\ notesKept]
    <2>1. /\ Store(k, new) /\ Move(Minus(b, d.made)) /\ UNCHANGED figures
          /\ Stray(d.logged = Empty, d.made)
      BY <1>5 DEF EditDelivery
    <2>2. strayed \subseteq strayed' /\ (d.logged = Empty => Lines(d.made) \subseteq strayed')
      BY <1>1, <2>1, KindType, StrayGrows
    <2>3. /\ b \in [Product -> Int] /\ b # Empty /\ \A p \in Product : b[p] \in Nat
          /\ \E p \in Product : b[p] > 0
      BY LoadType, BasketType DEF Basket, Lines, Empty
    <2>4. new.used = Empty /\ new.made = b /\ new.logged = Plus(d.logged, b)
      BY <1>1 DEF StockInv, DocsInv, DocFits, Doc
    <2>5. \A p \in Product : Plus(d.logged, b)[p] = d.logged[p] + b[p]
      BY DEF Plus
    <2>6. /\ new.logged # Empty /\ \A p \in Product : b[p] <= new.logged[p]
      <3>1. PICK p \in Product : b[p] > 0
        BY <2>3
      <3>2. Plus(d.logged, b)[p] # Empty[p]
        BY <1>2, <2>3, <2>5, <3>1
      <3>3. \A o \in Product : b[o] <= Plus(d.logged, b)[o]
        BY <1>2, <2>3, <2>5
      <3> QED
        BY <2>4, <3>2, <3>3
    <2>7. docs'[k] = new
      BY <2>1 DEF Store
    <2> HIDE DEF new
    <2>8. KindFits(k)'
      BY <1>1, <2>4, <2>6, <2>7 DEF KindFits
    <2>9. ASSUME NEW p \in Product \ strayed'
          PROVE  stock'[p] = stock[p] - (IF k \in DOMAIN docs THEN Put(k, p) ELSE 0)
                                      + PutBy(k, new, p)
      <3>1. /\ Minus(b, d.made) \in [Product -> Int]
            /\ Minus(b, d.made)[p] = b[p] - d.made[p]
        BY <1>1, <2>3, KindType, PlusType
      <3>2. stock'[p] = stock[p] + (b[p] - d.made[p])
        BY <1>1, <2>1, <3>1, KindType, PlusType DEF Move
      <3>3. PutBy(k, new, p) = b[p]
        BY <1>2, <2>3, <2>4, <2>6 DEF PutBy
      <3>4. Put(k, p) = d.made[p]
        <4>1. d.logged = Empty => d.made[p] = 0
          BY <1>2, <2>2 DEF Lines
        <4> QED
          BY <1>2, <4>1
      <3>5. stock[p] \in Int /\ b[p] \in Nat /\ d.made[p] \in Nat
        BY <1>2, <2>3
      <3> QED
        BY <1>1, <3>2, <3>3, <3>4, <3>5
    <2> QED
      BY <2>1, <2>2, <2>8, <2>9, StoreBalances
  <1> QED
    BY <1>3, <1>4, <1>5

LEMMA BalanceInit == Init => BalanceInv
  <1> SUFFICES ASSUME Init PROVE BalanceInv
    OBVIOUS
  <1>1. /\ stock = OpeningStock /\ figures = Empty /\ DOMAIN docs = {}
    BY DEF Init
  <1>2. ASSUME NEW p \in Product PROVE Balanced(p)
    <2> DEFINE f == [k \in DOMAIN docs |-> Put(k, p)]
    <2>1. SumFunctionOnSet(f, {}) = 0 /\ DOMAIN f = {}
      BY <1>1, SumEmpty
    <2>2. Held(p) = 0
      BY <2>1 DEF Held, SumFunction
    <2>3. OpeningStock[p] \in Int /\ Empty[p] = 0
      BY StockConstants DEF Basket, Empty
    <2> QED
      BY <1>1, <2>2, <2>3 DEF Balanced
  <1> QED
    BY <1>1, <1>2 DEF BalanceInv

LEMMA BalanceStep == StockInv /\ BalanceInv /\ [Next]_vars => BalanceInv'
  <1> SUFFICES ASSUME StockInv, BalanceInv, [Next]_vars PROVE BalanceInv'
    OBVIOUS
  <1>1. StockInv'
    BY StockInvStep
  <1>2. CASE UNCHANGED <<stock, docs, figures, strayed>>
    BY <1>2 DEF BalanceInv, KindFits, Balanced, Held, Put
  <1>3. CASE UNCHANGED vars
    BY <1>2, <1>3 DEF vars
  <1>4. ASSUME NEW page \in SUBSET Product, ViewLocations(page) PROVE BalanceInv'
    BY <1>2, <1>4 DEF ViewLocations
  <1>5. CASE Receipts
    BY <1>1, <1>5, NewDocsBalance, ReceiptBalances DEF Receipts
  <1>6. CASE Production
    BY <1>1, <1>6, NewDocsBalance, BatchBalances, DeleteSpoilageBalances DEF Production
  <1>7. CASE Deliveries
    BY <1>1, <1>7, NewDocsBalance, DeliveryBalances DEF Deliveries
  <1> QED
    BY <1>3, <1>4, <1>5, <1>6, <1>7, TradeBalances DEF Next

\* receive_service.py, production.py, farm.py: through any order of creations,
\* edits, deletions and reverts, stock is what the live documents have put there
\* plus what was bought, sold and set by hand: an edited document counts once, a
\* deleted one not at all, except for the products of record-only documents and
\* uneven reverts.
THEOREM DocumentsExplainStock == Spec => []DocumentsBalance
  <1>1. BalanceInv => DocumentsBalance
    BY DEF BalanceInv, Balanced, Held, DocumentsBalance
  <1> QED
    BY <1>1, StockInvInit, StockInvStep, BalanceInit, BalanceStep, PTL DEF Spec
-----------------------------------------------------------------------------
\* What takes the stock of a product below zero.
Reversed(p) ==
    \E k \in DOMAIN docs : /\ k.kind \in {"batch", "delivery"}
                           /\ docs[k].made[p] > 0
                           /\ k \in DOMAIN docs' => docs'[k] # docs[k]

LEMMA TradeRefuses ==
    ASSUME StockInv, Trade, NEW p \in Product, stock[p] >= 0
    PROVE  stock'[p] >= 0
  <1>1. /\ stock \in [Product -> Int] /\ Qty \subseteq Nat /\ Signed \subseteq Int
        /\ \A o \in Product, n \in Int : /\ One(o, n) \in [Product -> Int]
                                         /\ One(o, n)[o] = n
                                         /\ \A x \in Product \ {o} : One(o, n)[x] = 0
    <2>1. stock \in [Product -> Int]
      BY DEF StockInv, BooksInv
    <2>2. Qty \subseteq Nat
      BY StockConstants
    <2>3. ASSUME NEW n \in Signed PROVE n \in Int
      <3>1. n \in Qty \/ \E q \in Qty : n = -q
        BY DEF Signed
      <3>2. ASSUME NEW q \in Qty PROVE q \in Int /\ -q \in Int
        <4>1. q \in Nat
          BY <2>2
        <4> QED
          BY <4>1
      <3> QED
        BY <3>1, <3>2
    <2> QED
      BY <2>1, <2>2, <2>3, LoadType
  <1>2. ASSUME NEW o \in Product, NEW n \in Int, Move(One(o, n)), stock[o] + n >= 0
        PROVE  stock'[p] >= 0
    <2> DEFINE c == One(o, n)
    <2>4. c \in [Product -> Int] /\ stock' = Plus(stock, c)
      BY <1>1, <1>2 DEF Move
    <2>1. stock'[p] = stock[p] + One(o, n)[p]
      <3> HIDE DEF c
      <3>1. stock'[p] = stock[p] + c[p]
        BY <1>1, <2>4, PlusType, ZenonT(60)
      <3> QED
        BY <3>1 DEF c
    <2>2. CASE p = o
      BY <1>1, <1>2, <2>1, <2>2
    <2>3. CASE p # o
      BY <1>1, <2>1, <2>3
    <2> QED
      BY <2>2, <2>3
  <1>3. PICK o \in Product :
           \/ \E q \in Qty : Purchase(o, q) \/ Sell(o, q)
           \/ \E n \in Signed : \/ AdjustTotal(o, n)
                                \/ \E l \in Location : AdjustAt(o, l, n)
           \/ \E q \in Qty, from, to \in Location : Transfer(o, from, to, q)
           \/ \E n \in 0..MaxStock : EditStock(o, n) \/ ImportStock(o, n)
    BY DEF Trade
  <1>4. stock[o] \in Int
    BY <1>1
  <1>5. ASSUME NEW q \in Qty, Purchase(o, q) PROVE stock'[p] >= 0
    <2>1. q \in Nat /\ Move(One(o, q))
      BY <1>1, <1>5 DEF Purchase
    <2>2. CASE stock[o] + q >= 0
      BY <1>2, <2>1, <2>2
    <2>3. CASE ~(stock[o] + q >= 0)
      <3>1. p # o
        BY <1>4, <2>1, <2>3
      <3>2. One(o, q) \in [Product -> Int] /\ One(o, q)[p] = 0 /\ stock' = Plus(stock, One(o, q))
        BY <1>1, <2>1, <3>1 DEF Move
      <3>3. stock'[p] = stock[p] + One(o, q)[p]
        BY <3>2, PlusType DEF Plus
      <3> QED
        BY <1>1, <3>2, <3>3
    <2> QED
      BY <2>2, <2>3
  <1>6. ASSUME NEW q \in Qty, Sell(o, q) PROVE stock'[p] >= 0
    <2>1. q \in Int /\ -q \in Int /\ q <= stock[o] /\ Move(One(o, -q))
      BY <1>1, <1>6 DEF Sell
    <2>2. stock[o] + (-q) >= 0
      BY <1>4, <2>1
    <2> QED
      BY <1>2, <2>1, <2>2
  <1>7. ASSUME NEW n \in Signed,
               AdjustTotal(o, n) \/ \E l \in Location : AdjustAt(o, l, n)
        PROVE  stock'[p] >= 0
    BY <1>1, <1>2, <1>7 DEF AdjustTotal, AdjustAt
  <1>8. ASSUME NEW n \in 0..MaxStock, EditStock(o, n) \/ ImportStock(o, n)
        PROVE  stock'[p] >= 0
    <2>1. n \in Nat /\ n - stock[o] \in Int /\ stock[o] + (n - stock[o]) >= 0
      BY <1>4, StockConstants
    <2> QED
      BY <1>2, <1>8, <2>1 DEF EditStock, ImportStock
  <1>9. ASSUME NEW q \in Qty, NEW from \in Location, NEW to \in Location, Transfer(o, from, to, q)
        PROVE  stock'[p] >= 0
    BY <1>9 DEF Transfer
  <1> QED
    BY <1>3, <1>5, <1>6, <1>7, <1>8, <1>9

LEMMA DocsRefuse ==
    ASSUME StockInv, Receipts \/ Production \/ Deliveries,
           NEW p \in Product, stock[p] >= 0, stock'[p] < 0
    PROVE  Reversed(p)
  <1>1. /\ stock \in [Product -> Int] /\ stock[p] \in Int /\ DocsInv
        /\ Empty \in [Product -> Int] /\ Empty[p] = 0
        /\ \A b \in Load : b \in [Product -> Int] /\ b[p] \in Nat
    BY LoadType, BasketType DEF StockInv, BooksInv, Empty, Basket
  <1>2. ASSUME NEW a \in [Product -> Int], NEW b \in [Product -> Int]
        PROVE  /\ Plus(a, b) \in [Product -> Int] /\ Minus(a, b) \in [Product -> Int]
               /\ Plus(a, b)[p] = a[p] + b[p] /\ Minus(a, b)[p] = a[p] - b[p]
    BY PlusType
  <1>3. ASSUME NEW k \in DOMAIN docs
        PROVE  /\ docs[k].made \in [Product -> Int] /\ docs[k].made[p] \in Nat
               /\ docs[k].used \in [Product -> Int] /\ docs[k].used[p] \in Nat
               /\ docs[k] \in Doc
    BY <1>1, DocType DEF Basket
  <1>4. ASSUME NEW b \in Load, NEW affectStock \in BOOLEAN,
               \/ Receive(b, affectStock)
               \/ \E imported \in BOOLEAN : Deliver(b, imported, affectStock)
        PROVE  FALSE
    <2>1. stock' = Plus(stock, IF affectStock THEN b ELSE Empty)
      BY <1>4 DEF Receive, Deliver, Move
    <2> QED
      BY <1>1, <1>2, <2>1
  <1>5. ASSUME NEW k \in Of("receipt"), NEW b \in Load, UpdateReceipt(k, b) PROVE FALSE
    <2>1. /\ k \in DOMAIN docs /\ stock' = Plus(stock, Minus(b, docs[k].made))
          /\ Lines(b) = Lines(docs[k].made)
          /\ p \in Lines(b) => stock[p] - docs[k].made[p] + b[p] >= 0
      BY <1>5 DEF UpdateReceipt, Of
    <2>2. stock'[p] = stock[p] + (b[p] - docs[k].made[p])
      BY <1>1, <1>3, <2>1 DEF Plus, Minus
    <2>3. /\ b[p] \in Nat /\ docs[k].made[p] \in Nat
          /\ b[p] > 0 <=> docs[k].made[p] > 0
      BY <1>1, <1>3, <2>1 DEF Lines
    <2>4. b[p] > 0 => stock[p] - docs[k].made[p] + b[p] >= 0
      BY <2>1 DEF Lines
    <2> QED
      BY <1>1, <2>2, <2>3, <2>4
  <1>6. ASSUME NEW k \in Of("receipt"), DeleteReceipt(k) PROVE FALSE
    <2>1. /\ k \in DOMAIN docs /\ stock' = Minus(stock, docs[k].made)
          /\ docs[k].made[p] > 0 => stock[p] - docs[k].made[p] >= 0
      BY <1>6 DEF DeleteReceipt, Of, Lines
    <2>2. stock'[p] = stock[p] - docs[k].made[p] /\ docs[k].made[p] \in Nat
      BY <1>1, <1>2, <1>3, <2>1
    <2> QED
      BY <1>1, <2>1, <2>2
  <1>7. ASSUME NEW used \in Load, NEW made \in Load, CreateBatch(used, made) PROVE FALSE
    <2>1. /\ stock' = Plus(stock, Minus(made, used))
          /\ used[p] > 0 => used[p] <= stock[p]
      BY <1>7 DEF CreateBatch, Move, Lines
    <2>2. stock'[p] = stock[p] + (made[p] - used[p]) /\ made[p] \in Nat /\ used[p] \in Nat
      BY <1>1, <1>2, <2>1
    <2> QED
      BY <1>1, <2>1, <2>2
  <1>8. ASSUME NEW b \in Load, Spoil(b) PROVE FALSE
    <2>1. /\ stock' = Plus(stock, Minus(Empty, b))
          /\ b[p] > 0 => b[p] <= stock[p]
      BY <1>8 DEF Spoil, Move, Lines
    <2>2. stock'[p] = stock[p] + (0 - b[p]) /\ b[p] \in Nat
      BY <1>1, <1>2, <2>1
    <2> QED
      BY <1>1, <2>1, <2>2
  <1>9. ASSUME NEW k \in Of("spoilage"), DeleteSpoilage(k) PROVE FALSE
    <2>1. k \in DOMAIN docs /\ stock' = Plus(stock, docs[k].used)
      BY <1>9 DEF DeleteSpoilage, Move, Of
    <2>2. stock'[p] = stock[p] + docs[k].used[p] /\ docs[k].used[p] \in Nat
      BY <1>1, <1>2, <1>3, <2>1
    <2> QED
      BY <1>1, <2>2
  <1>10. ASSUME NEW k \in Of("batch"), NEW used \in Load, NEW made \in Load,
                EditBatch(k, used, made)
         PROVE  Reversed(p)
    <2> DEFINE d == docs[k]
    <2>1. /\ k \in DOMAIN docs /\ k.kind = "batch"
          /\ stock' = Plus(stock, Minus(Minus(made, used), Net(d)))
          /\ used[p] > 0 => used[p] <= stock[p] - Net(d)[p]
          /\ docs' = [x \in DOMAIN docs \cup {k} |->
                        IF x = k THEN [d EXCEPT !.used = used, !.made = made] ELSE docs[x]]
      BY <1>10 DEF EditBatch, Move, Of, Lines, Store
    <2>2. Net(d) \in [Product -> Int] /\ Net(d)[p] = d.made[p] - d.used[p]
      BY <1>2, <1>3, <2>1 DEF Net
    <2>3. /\ stock'[p] = stock[p] + ((made[p] - used[p]) - (d.made[p] - d.used[p]))
          /\ made[p] \in Nat /\ used[p] \in Nat /\ d.made[p] \in Nat /\ d.used[p] \in Nat
      <3>1. stock'[p] = stock[p] + ((made[p] - used[p]) - Net(d)[p])
        BY <2>1 DEF Plus, Minus
      <3> QED
        BY <1>1, <1>3, <2>1, <2>2, <3>1
    <2>4. docs'[k].made = made /\ docs'[k].used = used
      <3>1. d \in Doc
        BY <1>3, <2>1
      <3> QED
        BY <2>1, <3>1 DEF Doc
    <2>5. d.made[p] > 0
      BY <1>1, <2>1, <2>2, <2>3
    <2>6. docs'[k] # d
      BY <1>1, <2>3, <2>4
    <2> QED
      BY <2>1, <2>5, <2>6 DEF Reversed
  <1>11. ASSUME NEW k \in Of("batch"), DeleteBatch(k) PROVE Reversed(p)
    <2> DEFINE d == docs[k]
    <2>1. /\ k \in DOMAIN docs /\ k.kind = "batch" /\ k \notin DOMAIN docs'
          /\ stock' = Plus(stock, Minus(Empty, Net(d)))
      BY <1>11 DEF DeleteBatch, Move, Of, Discard
    <2>2. Net(d) \in [Product -> Int] /\ Net(d)[p] = d.made[p] - d.used[p]
      BY <1>2, <1>3, <2>1 DEF Net
    <2>3. /\ stock'[p] = stock[p] + (0 - (d.made[p] - d.used[p]))
          /\ d.made[p] \in Nat /\ d.used[p] \in Nat
      BY <1>1, <1>2, <1>3, <2>1, <2>2
    <2>4. d.made[p] > 0
      BY <1>1, <2>3
    <2> QED
      BY <2>1, <2>4 DEF Reversed
  <1>12. ASSUME NEW k \in Of("delivery"), NEW b \in Load, NEW notesKept \in BOOLEAN,
                EditDelivery(k, b, notesKept)
         PROVE  Reversed(p)
    <2> DEFINE d == docs[k]
    <2>1. /\ k \in DOMAIN docs /\ k.kind = "delivery"
          /\ stock' = Plus(stock, Minus(b, d.made))
          /\ docs'[k] = [d EXCEPT !.made = b, !.logged = Plus(d.logged, b),
                                  !.imported = @ /\ notesKept]
      BY <1>12 DEF EditDelivery, Move, Of, Store
    <2>2. stock'[p] = stock[p] + (b[p] - d.made[p]) /\ b[p] \in Nat /\ d.made[p] \in Nat
      BY <1>1, <1>2, <1>3, <2>1
    <2>3. docs'[k].made = b
      <3>1. d \in Doc
        BY <1>3, <2>1
      <3> QED
        BY <2>1, <3>1 DEF Doc
    <2>4. d.made[p] > 0 /\ docs'[k] # d
      BY <1>1, <2>2, <2>3
    <2> QED
      BY <2>1, <2>4 DEF Reversed
  <1>13. ASSUME NEW k \in Of("delivery"), DeleteDelivery(k) \/ RevertDelivery(k)
         PROVE  Reversed(p)
    <2> DEFINE d == docs[k]
    <2>1. /\ k \in DOMAIN docs /\ k.kind = "delivery" /\ k \notin DOMAIN docs'
          /\ \/ stock' = Plus(stock, Minus(Empty, d.made))
             \/ stock' = Minus(stock, [x \in Product |-> IF d.logged[x] > 0
                                                         THEN d.made[x] ELSE 0])
      BY <1>13 DEF DeleteDelivery, RevertDelivery, Move, Of, Discard
    <2>2. /\ d.made[p] \in Nat
          /\ stock'[p] \in {stock[p] + (0 - d.made[p]), stock[p] - d.made[p], stock[p] - 0}
      <3>1. CASE stock' = Plus(stock, Minus(Empty, d.made))
        BY <1>1, <1>2, <1>3, <2>1, <3>1
      <3>2. CASE stock' = Minus(stock, [x \in Product |-> IF d.logged[x] > 0
                                                          THEN d.made[x] ELSE 0])
        <4>1. stock'[p] = stock[p] - (IF d.logged[p] > 0 THEN d.made[p] ELSE 0)
          BY <3>2 DEF Minus
        <4> QED
          BY <1>3, <2>1, <4>1
      <3> QED
        BY <2>1, <3>1, <3>2
    <2>3. d.made[p] > 0
      BY <1>1, <2>2
    <2> QED
      BY <2>1, <2>3 DEF Reversed
  <1> QED
    BY <1>4, <1>5, <1>6, <1>7, <1>8, <1>9, <1>10, <1>11, <1>12, <1>13
    DEF Receipts, Production, Deliveries

\* Stock falls below zero only where a delivery, or the output of a batch, is taken
\* back after its goods have gone (production.py:301, farm.py): every other handler
\* refuses.
THEOREM OthersRefuse == Spec => OnlyReversalsGoNegative
  <1> DEFINE A == \A p \in Product : stock[p] >= 0 /\ stock'[p] < 0 => Reversed(p)
  <1>1. StockInv /\ [Next]_vars => [A]_vars
    <2> SUFFICES ASSUME StockInv, Next PROVE A
      OBVIOUS
    <2> SUFFICES ASSUME NEW p \in Product, stock[p] >= 0, stock'[p] < 0 PROVE Reversed(p)
      OBVIOUS
    <2>1. stock[p] \in Int
      BY DEF StockInv, BooksInv
    <2>2. CASE Trade \/ \E page \in SUBSET Product : ViewLocations(page)
      <3>1. stock'[p] >= 0
        BY <2>2, TradeRefuses DEF ViewLocations
      <3>2. CASE Trade
        <4>1. stock'[p] \in Int
          BY <3>2, TradeKeeps DEF StockInv, BooksInv
        <4> QED
          BY <3>1, <4>1
      <3>3. CASE ~Trade
        BY <2>1, <2>2, <3>3 DEF ViewLocations
      <3> QED
        BY <3>2, <3>3
    <2> QED
      BY <2>2, DocsRefuse DEF Next
  <1> QED
    BY <1>1, StockInvHolds, PTL DEF Spec, OnlyReversalsGoNegative, Reversed
=============================================================================
