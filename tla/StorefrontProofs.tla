--------------------------- MODULE StorefrontProofs ---------------------------
(* Proofs about Catalog and Storefront, for every set of administrators, rows,  *)
(* requests and payment references and every bound.                             *)
EXTENDS Storefront, TLAPS

-----------------------------------------------------------------------------
(* The catalog.  NoLostUpdate needs to know what a version says: a dialog whose *)
(* version is still the version of the row has seen the row as it is, since     *)
(* every change of a row raises its version and rows are never removed.         *)

Fresh(seen, row) ==
    /\ row # NoRow
    /\ seen.version <= row.version
    /\ seen.version = row.version => seen = row

DialogOK(d) ==
    \/ d.flow \in {"category_create", "product_create"}
    \/ /\ d.flow \in {"category_edit", "category_toggle"}
       /\ d.row \in Categories /\ d.seen \in CategoryRow /\ Fresh(d.seen, category[d.row])
    \/ /\ d.flow \in {"product_edit", "product_toggle"}
       /\ d.row \in Products /\ d.seen \in ProductRow /\ Fresh(d.seen, product[d.row])

DialogsFresh == \A a \in Admins : dialog[a] # NoDialog => DialogOK(dialog[a])

\* A product is listed in a category that exists.
Categorised == \A p \in Products : product[p] # NoRow => category[product[p].category] # NoRow

CatalogInv == CatalogTypeOK /\ DialogsFresh /\ Categorised

\* The three things a dialog of administrator a may do to a category ...
CategoryChange(a, c) ==
    \/ category'[c] = category[c]
    \/ category[c] = NoRow /\ category'[c] \in CategoryRow
    \/ /\ category[c] \in CategoryRow /\ category'[c] \in CategoryRow
       /\ category'[c].version = category[c].version + 1
       /\ Exclusive(c)
       /\ dialog[a] # NoDialog /\ dialog'[a] = NoDialog
       /\ dialog[a].flow \in {"category_edit", "category_toggle"}
       /\ dialog[a].row = c /\ dialog[a].seen.version = category[c].version

\* ... and to a product.
ProductChange(a, p) ==
    \/ product'[p] = product[p]
    \/ product[p] = NoRow /\ product'[p] \in ProductRow /\ category[product'[p].category] # NoRow
    \/ /\ product[p] \in ProductRow /\ product'[p] \in ProductRow
       /\ product'[p].version = product[p].version + 1
       /\ product'[p].category = product[p].category \/ category[product'[p].category] # NoRow
       /\ Exclusive(p)
       /\ dialog[a] # NoDialog /\ dialog'[a] = NoDialog
       /\ dialog[a].flow \in {"product_edit", "product_toggle"}
       /\ dialog[a].row = p /\ dialog[a].seen.version = product[p].version

\* A step of an administrator leaves a category, creates it, or changes it from a
\* dialog that has its version, under the row lock.
LEMMA CategoryStep ==
  ASSUME CatalogTypeOK, DialogsFresh, NEW a \in Admins, AdminStep(a)
  PROVE  /\ category' \in [Categories -> CategoryRow \cup {NoRow}]
         /\ \A c \in Categories : CategoryChange(a, c)
<1> USE CatalogAssumption
<1>1. CASE UNCHANGED category
  BY <1>1 DEF CatalogTypeOK, CategoryChange
<1>2. CASE CreateCategory(a)
  <2> PICK c \in Categories, name \in Names : InsertCategory(c, name)
    BY <1>2 DEF CreateCategory
  <2>1. [name |-> name, active |-> TRUE, version |-> 1] \in CategoryRow
    BY DEF CategoryRow
  <2> QED BY <2>1 DEF CatalogTypeOK, InsertCategory, CategoryChange
<1>3. CASE UpdateCategory(a)
  <2> DEFINE c == dialog[a].row
  <2>0. /\ dialog[a] # NoDialog /\ dialog[a].flow = "category_edit"
        /\ dialog' = [dialog EXCEPT ![a] = NoDialog]
        /\ category[c] # NoRow /\ Exclusive(c)
    BY <1>3 DEF UpdateCategory, FinishSession, LockCategoryByID
  <2>1. c \in Categories /\ dialog'[a] = NoDialog
    BY <2>0 DEF DialogsFresh, DialogOK, CatalogTypeOK
  <2> PICK name \in Names : UpdateCategoryDetailsGuarded(c, dialog[a].seen.version, name)
    BY <1>3 DEF UpdateCategory
  <2> DEFINE row == [name |-> name, active |-> category[c].active, version |-> category[c].version + 1]
  <2>2. category[c] \in CategoryRow
    BY <2>0, <2>1 DEF CatalogTypeOK
  <2>3. category[c].version = dialog[a].seen.version /\ category[c].version < VersionBound
        /\ category' = [category EXCEPT ![c] = row]
    BY DEF UpdateCategoryDetailsGuarded
  <2>4. row \in CategoryRow /\ row.version = category[c].version + 1
    BY <2>2, <2>3 DEF CategoryRow
  <2> HIDE DEF row
  <2>5. category' \in [Categories -> CategoryRow \cup {NoRow}] /\ category'[c] = row
    BY <2>1, <2>3, <2>4 DEF CatalogTypeOK
  <2>6. CategoryChange(a, c)
    BY <2>0, <2>1, <2>2, <2>3, <2>4, <2>5 DEF CategoryChange
  <2>7. \A b \in Categories \ {c} : category'[b] = category[b]
    BY <2>3 DEF CatalogTypeOK
  <2> QED BY <2>5, <2>6, <2>7 DEF CategoryChange
<1>4. CASE SetCategoryActive(a)
  <2> DEFINE c == dialog[a].row
  <2>0. /\ dialog[a] # NoDialog /\ dialog[a].flow = "category_toggle"
        /\ dialog' = [dialog EXCEPT ![a] = NoDialog]
        /\ category[c] # NoRow /\ Exclusive(c)
        /\ category[c].active = dialog[a].seen.active
    BY <1>4 DEF SetCategoryActive, FinishSession, LockCategoryByID
  <2>1. c \in Categories /\ dialog'[a] = NoDialog /\ dialog[a].seen \in CategoryRow
    BY <2>0 DEF DialogsFresh, DialogOK, CatalogTypeOK
  <2> DEFINE active == ~dialog[a].seen.active
             row == [name |-> category[c].name, active |-> active, version |-> category[c].version + 1]
  <2>2. category[c] \in CategoryRow
    BY <2>0, <2>1 DEF CatalogTypeOK
  <2>3. category[c].version = dialog[a].seen.version /\ category[c].version < VersionBound
        /\ category' = [category EXCEPT ![c] = row]
    BY <1>4 DEF SetCategoryActive, SetCategoryActiveGuarded
  <2>9. active \in BOOLEAN
    BY Zenon
  <2> HIDE DEF active
  <2>4. row \in CategoryRow /\ row.version = category[c].version + 1
    BY <2>2, <2>3, <2>9 DEF CategoryRow
  <2> HIDE DEF row
  <2>5. category' \in [Categories -> CategoryRow \cup {NoRow}] /\ category'[c] = row
    BY <2>1, <2>3, <2>4 DEF CatalogTypeOK
  <2>6. CategoryChange(a, c)
    BY <2>0, <2>1, <2>2, <2>3, <2>4, <2>5 DEF CategoryChange
  <2>7. \A b \in Categories \ {c} : category'[b] = category[b]
    BY <2>3 DEF CatalogTypeOK
  <2> QED BY <2>5, <2>6, <2>7 DEF CategoryChange
<1> QED BY <1>1, <1>2, <1>3, <1>4
    DEF AdminStep, StartDialog, CloseDialog, CreateProduct, UpdateProduct, SetProductActive

\* The same for products, which stay in categories that exist.
LEMMA ProductStep ==
  ASSUME CatalogTypeOK, DialogsFresh, NEW a \in Admins, AdminStep(a)
  PROVE  /\ product' \in [Products -> ProductRow \cup {NoRow}]
         /\ \A p \in Products : ProductChange(a, p)
<1> USE CatalogAssumption
<1>1. CASE UNCHANGED product
  BY <1>1 DEF CatalogTypeOK, ProductChange
<1>2. CASE CreateProduct(a)
  <2> PICK p \in Products, c \in Categories, price \in Prices : GetCategoryByID(c) /\ InsertProduct(p, c, price)
    BY <1>2 DEF CreateProduct
  <2> DEFINE row == [category |-> c, price |-> price, active |-> TRUE, version |-> 1]
  <2>1. row \in ProductRow /\ row.category = c /\ category[c] # NoRow
    BY DEF ProductRow, GetCategoryByID
  <2>2. product[p] = NoRow /\ product' = [product EXCEPT ![p] = row]
    BY DEF InsertProduct
  <2> HIDE DEF row
  <2>3. product' \in [Products -> ProductRow \cup {NoRow}] /\ product'[p] = row
        /\ \A q \in Products \ {p} : product'[q] = product[q]
    BY <2>1, <2>2 DEF CatalogTypeOK
  <2>4. ProductChange(a, p)
    BY <2>1, <2>2, <2>3 DEF ProductChange
  <2> QED BY <2>3, <2>4 DEF ProductChange
<1>3. CASE UpdateProduct(a)
  <2> DEFINE p == dialog[a].row
  <2>0. /\ dialog[a] # NoDialog /\ dialog[a].flow = "product_edit"
        /\ dialog' = [dialog EXCEPT ![a] = NoDialog]
        /\ product[p] # NoRow /\ Exclusive(p)
    BY <1>3 DEF UpdateProduct, FinishSession, LockProductByID
  <2>1. p \in Products /\ dialog'[a] = NoDialog
    BY <2>0 DEF DialogsFresh, DialogOK, CatalogTypeOK
  <2> PICK c \in Categories, price \in Prices :
         GetCategoryByID(c) /\ UpdateProductDetailsGuarded(p, dialog[a].seen.version, c, price)
    BY <1>3 DEF UpdateProduct
  <2> DEFINE row == [category |-> c, price |-> price, active |-> product[p].active, version |-> product[p].version + 1]
  <2>2. product[p] \in ProductRow /\ category[c] # NoRow
    BY <2>0, <2>1 DEF CatalogTypeOK, GetCategoryByID
  <2>3. product[p].version = dialog[a].seen.version /\ product[p].version < VersionBound
        /\ product' = [product EXCEPT ![p] = row]
    BY DEF UpdateProductDetailsGuarded
  <2>4. row \in ProductRow /\ row.version = product[p].version + 1 /\ row.category = c
    BY <2>2, <2>3 DEF ProductRow
  <2> HIDE DEF row
  <2>5. product' \in [Products -> ProductRow \cup {NoRow}] /\ product'[p] = row
    BY <2>1, <2>3, <2>4 DEF CatalogTypeOK
  <2>6. ProductChange(a, p)
    BY <2>0, <2>1, <2>2, <2>3, <2>4, <2>5 DEF ProductChange
  <2>7. \A q \in Products \ {p} : product'[q] = product[q]
    BY <2>3 DEF CatalogTypeOK
  <2> QED BY <2>5, <2>6, <2>7 DEF ProductChange
<1>4. CASE SetProductActive(a)
  <2> DEFINE p == dialog[a].row
  <2>0. /\ dialog[a] # NoDialog /\ dialog[a].flow = "product_toggle"
        /\ dialog' = [dialog EXCEPT ![a] = NoDialog]
        /\ product[p] # NoRow /\ Exclusive(p)
    BY <1>4 DEF SetProductActive, FinishSession, LockProductByID
  <2>1. p \in Products /\ dialog'[a] = NoDialog /\ dialog[a].seen \in ProductRow
    BY <2>0 DEF DialogsFresh, DialogOK, CatalogTypeOK
  <2> DEFINE active == ~dialog[a].seen.active
             row == [category |-> product[p].category, price |-> product[p].price,
                     active |-> active, version |-> product[p].version + 1]
  <2>2. product[p] \in ProductRow
    BY <2>0, <2>1 DEF CatalogTypeOK
  <2>3. product[p].version = dialog[a].seen.version /\ product[p].version < VersionBound
        /\ product' = [product EXCEPT ![p] = row]
    BY <1>4 DEF SetProductActive, SetProductActiveGuarded
  <2>9. active \in BOOLEAN
    BY Zenon
  <2> HIDE DEF active
  <2>4. row \in ProductRow /\ row.version = product[p].version + 1 /\ row.category = product[p].category
    BY <2>2, <2>3, <2>9 DEF ProductRow
  <2> HIDE DEF row
  <2>5. product' \in [Products -> ProductRow \cup {NoRow}] /\ product'[p] = row
    BY <2>1, <2>3, <2>4 DEF CatalogTypeOK
  <2>6. ProductChange(a, p)
    BY <2>0, <2>1, <2>2, <2>3, <2>4, <2>5 DEF ProductChange
  <2>7. \A q \in Products \ {p} : product'[q] = product[q]
    BY <2>3 DEF CatalogTypeOK
  <2> QED BY <2>5, <2>6, <2>7 DEF ProductChange
<1> QED BY <1>1, <1>2, <1>3, <1>4
    DEF AdminStep, StartDialog, CloseDialog, CreateCategory, UpdateCategory, SetCategoryActive

\* A step of an administrator closes or opens that administrator's dialog only, and
\* a dialog opens with the row as it is.
LEMMA DialogStep ==
  ASSUME CatalogTypeOK, NEW a \in Admins, AdminStep(a)
  PROVE  /\ dialog' \in [Admins -> Dialog \cup {NoDialog}]
         /\ \A b \in Admins \ {a} : dialog'[b] = dialog[b]
         /\ \/ dialog'[a] = NoDialog
            \/ /\ UNCHANGED <<category, product>>
               /\ DialogOK(dialog'[a])
<1> USE CatalogAssumption
<1>1. CASE dialog' = [dialog EXCEPT ![a] = NoDialog]
  BY <1>1 DEF CatalogTypeOK
<1>2. CASE StartDialog(a)
  <2>1. PICK d \in ListedDialogs : dialog' = [dialog EXCEPT ![a] = d]
    BY <1>2 DEF StartDialog
  <2>2. d \in Dialog /\ DialogOK(d)
    <3>1. CASE d \in [flow : {"category_create", "product_create"}, row : {NoRow}, seen : {NoRow}]
      BY <3>1 DEF Dialog, Flows, DialogOK
    <3>2. ASSUME NEW f \in {"category_edit", "category_toggle"}, NEW c \in ListAdminCategoriesPage,
                 d = [flow |-> f, row |-> c, seen |-> category[c]]
          PROVE  d \in Dialog /\ DialogOK(d)
      <4>1. c \in Categories /\ category[c] # NoRow /\ category[c] \in CategoryRow
        BY DEF ListAdminCategoriesPage, CatalogTypeOK
      <4>2. category[c].version \in Nat
        BY <4>1 DEF CategoryRow
      <4>3. Fresh(category[c], category[c])
        BY <4>1, <4>2 DEF Fresh
      <4> QED BY <3>2, <4>1, <4>3 DEF Dialog, Flows, DialogOK
    <3>3. ASSUME NEW f \in {"product_edit", "product_toggle"}, NEW p \in ListAdminProductsPage,
                 d = [flow |-> f, row |-> p, seen |-> product[p]]
          PROVE  d \in Dialog /\ DialogOK(d)
      <4>1. p \in Products /\ product[p] # NoRow /\ product[p] \in ProductRow
        BY DEF ListAdminProductsPage, CatalogTypeOK
      <4>2. product[p].version \in Nat
        BY <4>1 DEF ProductRow
      <4>3. Fresh(product[p], product[p])
        BY <4>1, <4>2 DEF Fresh
      <4> QED BY <3>3, <4>1, <4>3 DEF Dialog, Flows, DialogOK
    <3> QED BY <3>1, <3>2, <3>3 DEF ListedDialogs
  <2>3. UNCHANGED <<category, product>>
    BY <1>2 DEF StartDialog
  <2>4. /\ dialog' \in [Admins -> Dialog \cup {NoDialog}] /\ dialog'[a] = d
        /\ \A b \in Admins \ {a} : dialog'[b] = dialog[b]
    BY <2>1, <2>2 DEF CatalogTypeOK
  <2> QED BY <2>2, <2>3, <2>4
<1> QED BY <1>1, <1>2
    DEF AdminStep, CloseDialog, FinishSession, CreateCategory, UpdateCategory, SetCategoryActive,
        CreateProduct, UpdateProduct, SetProductActive

\* A row that changes leaves what a dialog has seen behind it.
LEMMA FreshKept ==
  ASSUME NEW seen, NEW row, NEW new, seen.version \in Nat, row.version \in Nat, Fresh(seen, row),
         new # NoRow, new = row \/ new.version = row.version + 1
  PROVE  Fresh(seen, new)
  BY DEF Fresh

\* Every administrator's step keeps the dialogs of the others honest.
LEMMA AdminKeepsCatalog ==
  ASSUME CatalogInv, NEW a \in Admins, AdminStep(a)
  PROVE  CatalogInv'
<1> USE CatalogAssumption
<1>0. CatalogTypeOK /\ DialogsFresh /\ Categorised
  BY DEF CatalogInv
<1>1. CatalogTypeOK'
  BY <1>0, CategoryStep, ProductStep, DialogStep DEF CatalogTypeOK
<1>2. ASSUME NEW c \in Categories, category[c] # NoRow
      PROVE  /\ category'[c] # NoRow
             /\ category'[c] = category[c] \/ category'[c].version = category[c].version + 1
  BY <1>0, <1>2, CategoryStep DEF CategoryChange
<1>3. ASSUME NEW p \in Products, product[p] # NoRow
      PROVE  /\ product'[p] # NoRow
             /\ product'[p] = product[p] \/ product'[p].version = product[p].version + 1
  BY <1>0, <1>3, ProductStep DEF ProductChange
<1>4. ASSUME NEW b \in Admins, dialog'[b] # NoDialog PROVE DialogOK(dialog[b])'
  <2>1. CASE b = a
    <3>1. UNCHANGED <<category, product>> /\ DialogOK(dialog'[b])
      BY <1>0, <1>4, <2>1, DialogStep
    <3> QED BY <3>1 DEF DialogOK
  <2>2. CASE b # a
    <3> DEFINE d == dialog[b]
    <3>1. dialog'[b] = d /\ d # NoDialog /\ DialogOK(d)
      BY <1>0, <1>4, <2>2, DialogStep DEF DialogsFresh
    <3> HIDE DEF d
    <3>2. CASE d.flow \in {"category_create", "product_create"}
      BY <3>1, <3>2 DEF DialogOK
    <3>3. CASE /\ d.flow \in {"category_edit", "category_toggle"}
               /\ d.row \in Categories /\ d.seen \in CategoryRow /\ Fresh(d.seen, category[d.row])
      <4>1. category[d.row] # NoRow
        BY <3>3 DEF Fresh
      <4>2. d.seen.version \in Nat /\ category[d.row].version \in Nat
        BY <1>0, <3>3, <4>1 DEF CatalogTypeOK, CategoryRow
      <4>3. Fresh(d.seen, category'[d.row])
        BY <1>2, <3>3, <4>1, <4>2, FreshKept
      <4> QED BY <3>1, <3>3, <4>3 DEF DialogOK, Fresh
    <3>4. CASE /\ d.flow \in {"product_edit", "product_toggle"}
               /\ d.row \in Products /\ d.seen \in ProductRow /\ Fresh(d.seen, product[d.row])
      <4>1. product[d.row] # NoRow
        BY <3>4 DEF Fresh
      <4>2. d.seen.version \in Nat /\ product[d.row].version \in Nat
        BY <1>0, <3>4, <4>1 DEF CatalogTypeOK, ProductRow
      <4>3. Fresh(d.seen, product'[d.row])
        BY <1>3, <3>4, <4>1, <4>2, FreshKept
      <4> QED BY <3>1, <3>4, <4>3 DEF DialogOK, Fresh
    <3> QED BY <3>1, <3>2, <3>3, <3>4 DEF DialogOK
  <2> QED BY <2>1, <2>2
<1>5. ASSUME NEW p \in Products, product'[p] # NoRow PROVE category'[product'[p].category] # NoRow
  <2>1. category[product'[p].category] # NoRow
    BY <1>0, <1>5, ProductStep DEF ProductChange, Categorised
  <2>2. product'[p].category \in Categories
    BY <1>1, <1>5 DEF CatalogTypeOK, ProductRow
  <2> QED BY <1>2, <2>1, <2>2
<1> QED BY <1>1, <1>4, <1>5 DEF CatalogInv, DialogsFresh, Categorised

\* A change of an existing row ends a dialog that has seen that row as it was.
LEMMA AdminOverwritesNothing ==
  ASSUME CatalogInv, NEW a \in Admins, AdminStep(a)
  PROVE  /\ \A c \in Categories : category[c] # NoRow /\ category'[c] # category[c] =>
              \E b \in Admins : /\ dialog[b] # NoDialog /\ dialog'[b] = NoDialog
                                /\ dialog[b].row = c /\ dialog[b].seen = category[c]
         /\ \A p \in Products : product[p] # NoRow /\ product'[p] # product[p] =>
              \E b \in Admins : /\ dialog[b] # NoDialog /\ dialog'[b] = NoDialog
                                /\ dialog[b].row = p /\ dialog[b].seen = product[p]
<1>0. CatalogTypeOK /\ DialogsFresh
  BY DEF CatalogInv
<1>1. ASSUME NEW c \in Categories, category[c] # NoRow, category'[c] # category[c]
      PROVE  /\ dialog[a] # NoDialog /\ dialog'[a] = NoDialog
             /\ dialog[a].row = c /\ dialog[a].seen = category[c]
  <2>1. /\ dialog[a] # NoDialog /\ dialog'[a] = NoDialog
        /\ dialog[a].flow \in {"category_edit", "category_toggle"}
        /\ dialog[a].row = c /\ dialog[a].seen.version = category[c].version
    BY <1>0, <1>1, CategoryStep DEF CategoryChange
  <2>2. DialogOK(dialog[a])
    BY <1>0, <2>1 DEF DialogsFresh
  <2>3. Fresh(dialog[a].seen, category[c])
    BY <2>1, <2>2 DEF DialogOK
  <2> QED BY <2>1, <2>3 DEF Fresh
<1>2. ASSUME NEW p \in Products, product[p] # NoRow, product'[p] # product[p]
      PROVE  /\ dialog[a] # NoDialog /\ dialog'[a] = NoDialog
             /\ dialog[a].row = p /\ dialog[a].seen = product[p]
  <2>1. /\ dialog[a] # NoDialog /\ dialog'[a] = NoDialog
        /\ dialog[a].flow \in {"product_edit", "product_toggle"}
        /\ dialog[a].row = p /\ dialog[a].seen.version = product[p].version
    BY <1>0, <1>2, ProductStep DEF ProductChange
  <2>2. DialogOK(dialog[a])
    BY <1>0, <2>1 DEF DialogsFresh
  <2>3. Fresh(dialog[a].seen, product[p])
    BY <2>1, <2>2 DEF DialogOK
  <2> QED BY <2>1, <2>3 DEF Fresh
<1> QED BY <1>1, <1>2

\* Orders are placed without touching the catalog; every other step is an
\* administrator's.
LEMMA CatalogSteps ==
  ASSUME [Next]_vars
  PROVE  \/ UNCHANGED catalog
         \/ \E a \in Admins : AdminStep(a) /\ UNCHANGED <<shared, bank, transaction, placed, answer>>
  BY DEF Next, vars, UpdateEncryptedBankAccountGuarded, SetBankAccountActiveGuarded, Create,
     CommitOrder, Rollback, Repeat, InsertPendingOrder

\* The catalog is empty at first.
LEMMA InitCatalog == Init => CatalogInv
  BY DEF Init, CatalogInit, CatalogInv, CatalogTypeOK, DialogsFresh, Categorised

\* Every step keeps the catalog invariant.
LEMMA NextCatalog == ASSUME CatalogInv, [Next]_vars PROVE CatalogInv'
<1>1. CASE UNCHANGED catalog
  BY <1>1 DEF catalog, CatalogInv, CatalogTypeOK, DialogsFresh, DialogOK, Fresh, Categorised
<1> QED BY <1>1, CatalogSteps, AdminKeepsCatalog

\* No administrator overwrites what another one changed meanwhile: every change of a
\* category or product ends a dialog that has seen the row exactly as it was.
THEOREM NoUpdateIsLost == Spec => NoLostUpdate
<1>1. CatalogInv /\ [Next]_vars =>
        [/\ \A c \in Categories : category[c] # NoRow /\ category'[c] # category[c] =>
              \E a \in Admins : /\ dialog[a] # NoDialog /\ dialog'[a] = NoDialog
                                /\ dialog[a].row = c /\ dialog[a].seen = category[c]
         /\ \A p \in Products : product[p] # NoRow /\ product'[p] # product[p] =>
              \E a \in Admins : /\ dialog[a] # NoDialog /\ dialog'[a] = NoDialog
                                /\ dialog[a].row = p /\ dialog[a].seen = product[p]]_<<category, product, dialog>>
  BY CatalogSteps, AdminOverwritesNothing DEF catalog
<1>2. CatalogInv /\ [Next]_vars => CatalogInv'
  BY NextCatalog
<1> QED BY InitCatalog, <1>1, <1>2, PTL DEF Spec, NoLostUpdate

-----------------------------------------------------------------------------
(* Orders.  A transaction that has priced its order holds a share of the rows it  *)
(* read until it ends, so they still say what its draft says; a transaction that  *)
(* has inserted its order has the key and the reference to itself.                *)

Open == {"priced", "inserted"}

Listed(r) ==
    LET p == product[ProductOf[r]]
    IN  /\ p # NoRow /\ p.active /\ category[p.category].active /\ bank.active
        /\ p.price = draft[r].price /\ p.category = draft[r].category
        /\ bank.version = draft[r].bank
        /\ <<ProductOf[r], r>> \in shared /\ <<p.category, r>> \in shared /\ <<Bank, r>> \in shared

DraftsListed == \A r \in Requests : pc[r] \in Open => draft[r] \in Order /\ Listed(r)

Alone(r) ==
    /\ \A q \in Requests : placed[q] # NoOrder => KeyOf[q] # KeyOf[r] /\ placed[q].ref # draft[r].ref
    /\ \A q \in Requests \ {r} : pc[q] = "inserted" => KeyOf[q] # KeyOf[r] /\ draft[q].ref # draft[r].ref

InsertsAlone == \A r \in Requests : pc[r] = "inserted" => Alone(r)

StorefrontInv == CatalogInv /\ TypeOK /\ DraftsListed /\ InsertsAlone /\ OneOrderPerKey

\* A step of the transaction of request r.
RequestStep(r) ==
    \/ Create(r) \/ CommitOrder(r) \/ Rollback(r) \/ Repeat(r)
    \/ \E ref \in References : InsertPendingOrder(r, ref)

\* A step of one request leaves the transactions of the others their state and locks.
LEMMA OthersKept ==
  ASSUME TypeOK, NEW r \in Requests, RequestStep(r), NEW q \in Requests, q # r
  PROVE  /\ UNCHANGED <<catalog, bank>>
         /\ pc'[q] = pc[q] /\ draft'[q] = draft[q]
         /\ placed'[q] = placed[q] /\ answer'[q] = answer[q]
         /\ \A x : <<x, q>> \in shared => <<x, q>> \in shared'
<1>0. /\ pc \in [Requests -> {"idle", "priced", "inserted", "done"}]
      /\ draft \in [Requests -> Order \cup {NoOrder}]
      /\ placed \in [Requests -> Order \cup {NoOrder}]
      /\ answer \in [Requests -> Requests \cup {NoRequest}]
  BY DEF TypeOK
<1>1. CASE Create(r)
  <2>1. CASE AnswerDuplicate(r)
    BY <1>0, <1>1, <2>1 DEF Create, AnswerDuplicate, End
  <2>2. CASE ~AnswerDuplicate(r)
    BY <1>0, <1>1, <2>2 DEF Create, GetProductForOrderCreation
  <2> QED BY <2>1, <2>2
<1>2. CASE CommitOrder(r) \/ Rollback(r) \/ Repeat(r)
  BY <1>0, <1>2 DEF CommitOrder, Rollback, Repeat, End
<1>3. CASE \E ref \in References : InsertPendingOrder(r, ref)
  BY <1>0, <1>3 DEF InsertPendingOrder, AnswerDuplicate, End
<1> QED BY <1>1, <1>2, <1>3 DEF RequestStep

\* A draft is true as long as its rows, its bank account and its locks stay.
LEMMA ListedKept ==
  ASSUME NEW q, Listed(q), UNCHANGED <<catalog, bank>>,
         draft'[q].price = draft[q].price, draft'[q].category = draft[q].category,
         draft'[q].bank = draft[q].bank, \A x : <<x, q>> \in shared => <<x, q>> \in shared'
  PROVE  Listed(q)'
  BY DEF Listed, catalog

\* What the step of request r does to its own transaction.
Ends(r) == pc'[r] \in {"idle", "done"} /\ UNCHANGED placed
Answers(r) == Ends(r) /\ \E q \in FindOrderByUserIdempotency(KeyOf[r]) : answer' = [answer EXCEPT ![r] = q]
Leaves(r) == Ends(r) /\ UNCHANGED answer
Quotes(r) == /\ pc'[r] = "priced" /\ UNCHANGED <<placed, answer>>
              /\ draft'[r] \in Order /\ Listed(r)'
Inserts(r) == \E ref \in References :
                /\ pc[r] = "priced" /\ pc'[r] = "inserted" /\ UNCHANGED <<placed, answer, shared>>
                /\ ~InsertWaits(r, ref) /\ ~OrderConflicts(r, ref)
                /\ draft'[r] = [draft[r] EXCEPT !.ref = ref]
TriesAgain(r) == pc[r] = "priced" /\ UNCHANGED <<pc, draft, shared, placed, answer>>
Places(r) == /\ pc[r] = "inserted" /\ pc'[r] = "done"
             /\ placed' = [placed EXCEPT ![r] = draft[r]]
             /\ answer' = [answer EXCEPT ![r] = r]

\* A request is answered, refused, priced, inserted, tried again or placed.
LEMMA OwnStep ==
  ASSUME CatalogInv, TypeOK, NEW r \in Requests, RequestStep(r)
  PROVE  Answers(r) \/ Leaves(r) \/ Quotes(r) \/ Inserts(r) \/ TriesAgain(r) \/ Places(r)
<1>0. /\ pc \in [Requests -> {"idle", "priced", "inserted", "done"}]
      /\ draft \in [Requests -> Order \cup {NoOrder}]
      /\ bank \in [active : BOOLEAN, version : 1..BankVersionBound]
      /\ product \in [Products -> ProductRow \cup {NoRow}]
      /\ ProductOf[r] \in Products
  BY StorefrontAssumption DEF TypeOK, CatalogTypeOK
<1>1. CASE Create(r)
  <2>1. CASE AnswerDuplicate(r)
    BY <1>0, <1>1, <2>1 DEF Answers, Ends, AnswerDuplicate, End
  <2>2. CASE ~AnswerDuplicate(r)
    <3> DEFINE p == product[ProductOf[r]]
               d == [price |-> p.price, category |-> p.category, bank |-> bank.version, ref |-> NoOrder]
    <3>1. /\ p # NoRow /\ p.active /\ category[p.category].active /\ bank.active
          /\ shared' = shared \cup {<<ProductOf[r], r>>, <<p.category, r>>, <<Bank, r>>}
          /\ pc' = [pc EXCEPT ![r] = "priced"]
          /\ draft' = [draft EXCEPT ![r] = d]
          /\ UNCHANGED <<placed, answer>> /\ UNCHANGED <<catalog, bank>>
      BY <1>1, <2>2 DEF Create, GetProductForOrderCreation, GetActiveBankAccountForOrder
    <3>2. d \in Order
      BY <1>0, <3>1 DEF Order, ProductRow
    <3>3. draft'[r] = d /\ pc'[r] = "priced"
      BY <1>0, <3>1
    <3>4. d.price = p.price /\ d.category = p.category /\ d.bank = bank.version
      OBVIOUS
    <3> HIDE DEF d
    <3>5. product' = product /\ category' = category /\ bank' = bank
      BY <3>1 DEF catalog
    <3>6. Listed(r)'
      BY <3>1, <3>3, <3>4, <3>5 DEF Listed
    <3> QED BY <3>1, <3>2, <3>3, <3>6 DEF Quotes
  <2> QED BY <2>1, <2>2
<1>2. CASE CommitOrder(r)
  BY <1>0, <1>2 DEF CommitOrder, End, Places
<1>3. CASE Rollback(r) \/ Repeat(r)
  BY <1>0, <1>3 DEF Rollback, Repeat, End, Leaves, Ends
<1>4. ASSUME NEW ref \in References, InsertPendingOrder(r, ref)
      PROVE  Answers(r) \/ Leaves(r) \/ Inserts(r) \/ TriesAgain(r)
  <2>1. CASE /\ ~OrderConflicts(r, ref)
             /\ draft' = [draft EXCEPT ![r] = [@ EXCEPT !.ref = ref]]
             /\ pc' = [pc EXCEPT ![r] = "inserted"]
             /\ UNCHANGED <<tries, shared, placed, answer>>
    <3>1. pc[r] = "priced" /\ ~InsertWaits(r, ref)
      BY <1>4 DEF InsertPendingOrder
    <3> QED BY <1>0, <2>1, <3>1 DEF Inserts
  <2>2. CASE AnswerDuplicate(r)
    BY <1>0, <2>2 DEF Answers, Ends, AnswerDuplicate, End
  <2>3. CASE /\ IF tries[r] + 1 < ReferenceAttempts
                  THEN tries' = [tries EXCEPT ![r] = @ + 1] /\ UNCHANGED <<pc, draft, shared>>
                  ELSE End(r, "idle")
             /\ UNCHANGED <<placed, answer>>
    BY <1>0, <1>4, <2>3 DEF InsertPendingOrder, End, Leaves, Ends, TriesAgain
  <2> QED BY <1>4, <2>1, <2>2, <2>3 DEF InsertPendingOrder
<1> QED BY <1>1, <1>2, <1>3, <1>4 DEF RequestStep

\* A change of the bank account waits for the orders being placed.
BankStep ==
    /\ Exclusive(Bank) /\ bank' \in [active : BOOLEAN, version : 1..BankVersionBound]
    /\ UNCHANGED <<catalog, shared, transaction, placed, answer>>

\* Every step is an administrator's, a change of the bank account or a request's.
LEMMA StorefrontSteps ==
  ASSUME TypeOK, [Next]_vars
  PROVE  \/ \E a \in Admins : AdminStep(a) /\ UNCHANGED <<shared, bank, transaction, placed, answer>>
         \/ BankStep
         \/ \E r \in Requests : RequestStep(r)
         \/ UNCHANGED vars
<1>0. bank \in [active : BOOLEAN, version : 1..BankVersionBound]
  BY DEF TypeOK
<1>1. CASE UpdateEncryptedBankAccountGuarded
  BY <1>0, <1>1, StorefrontAssumption DEF UpdateEncryptedBankAccountGuarded, BankStep
<1>2. CASE SetBankAccountActiveGuarded
  <2>1. (~bank.active) \in BOOLEAN
    BY Zenon
  <2>2. [active |-> ~bank.active, version |-> bank.version + 1] \in [active : BOOLEAN, version : 1..BankVersionBound]
    BY <1>0, <1>2, <2>1, StorefrontAssumption DEF SetBankAccountActiveGuarded
  <2> QED BY <1>2, <2>2 DEF SetBankAccountActiveGuarded, BankStep
<1> QED BY <1>1, <1>2 DEF Next, RequestStep

\* Every step keeps the types.
LEMMA NextStoreTyped ==
  ASSUME CatalogInv, TypeOK, DraftsListed, [Next]_vars
  PROVE  TypeOK'
<1> USE StorefrontAssumption
<1>0. CatalogTypeOK'
  BY NextCatalog DEF CatalogInv
<1>1. CASE \E a \in Admins : AdminStep(a) /\ UNCHANGED <<shared, bank, transaction, placed, answer>>
  BY <1>0, <1>1 DEF TypeOK, transaction
<1>2. CASE BankStep
  BY <1>0, <1>2 DEF TypeOK, BankStep, transaction
<1>3. ASSUME NEW r \in Requests, RequestStep(r) PROVE TypeOK'
  <2>1. CASE Create(r)
    <3>1. CASE AnswerDuplicate(r)
      BY <1>0, <2>1, <3>1 DEF TypeOK, Create, AnswerDuplicate, FindOrderByUserIdempotency, End
    <3>2. CASE ~AnswerDuplicate(r)
      <4> DEFINE p == product[ProductOf[r]]
                 d == [price |-> p.price, category |-> p.category, bank |-> bank.version, ref |-> NoOrder]
      <4>1. /\ p # NoRow
            /\ shared' = shared \cup {<<ProductOf[r], r>>, <<p.category, r>>, <<Bank, r>>}
            /\ pc' = [pc EXCEPT ![r] = "priced"]
            /\ draft' = [draft EXCEPT ![r] = d]
            /\ UNCHANGED <<tries, placed, answer, bank>>
        BY <2>1, <3>2 DEF Create, GetProductForOrderCreation
      <4>2. p \in ProductRow /\ ProductOf[r] \in Products
        BY <4>1 DEF TypeOK, CatalogTypeOK
      <4>3. d \in Order /\ p.category \in Categories
        BY <4>2 DEF TypeOK, Order, ProductRow
      <4> HIDE DEF d, p
      <4> QED BY <1>0, <4>1, <4>2, <4>3 DEF TypeOK
    <3> QED BY <3>1, <3>2
  <2>2. CASE CommitOrder(r) \/ Rollback(r) \/ Repeat(r)
    BY <1>0, <2>2 DEF TypeOK, CommitOrder, Rollback, Repeat, End
  <2>3. ASSUME NEW ref \in References, InsertPendingOrder(r, ref) PROVE TypeOK'
    <3>0. pc[r] = "priced" /\ draft[r] \in Order /\ UNCHANGED bank
      BY <2>3 DEF InsertPendingOrder, DraftsListed, Open
    <3>1. CASE /\ draft' = [draft EXCEPT ![r] = [@ EXCEPT !.ref = ref]]
               /\ pc' = [pc EXCEPT ![r] = "inserted"]
               /\ UNCHANGED <<tries, shared, placed, answer>>
      <4>1. [draft[r] EXCEPT !.ref = ref] \in Order
        BY <3>0 DEF Order
      <4>2. draft' = [draft EXCEPT ![r] = [draft[r] EXCEPT !.ref = ref]]
        BY <3>1
      <4>3. draft' \in [Requests -> Order \cup {NoOrder}]
        BY <4>1, <4>2 DEF TypeOK
      <4> QED BY <1>0, <3>0, <3>1, <4>3 DEF TypeOK
    <3>2. CASE AnswerDuplicate(r)
      BY <1>0, <3>0, <3>2 DEF TypeOK, AnswerDuplicate, FindOrderByUserIdempotency, End
    <3>3. CASE /\ IF tries[r] + 1 < ReferenceAttempts
                    THEN tries' = [tries EXCEPT ![r] = @ + 1] /\ UNCHANGED <<pc, draft, shared>>
                    ELSE End(r, "idle")
               /\ UNCHANGED <<placed, answer>>
      BY <1>0, <3>0, <3>3 DEF TypeOK, End
    <3> QED BY <2>3, <3>1, <3>2, <3>3 DEF InsertPendingOrder
  <2> QED BY <1>3, <2>1, <2>2, <2>3 DEF RequestStep
<1>4. CASE UNCHANGED vars
  BY <1>0, <1>4 DEF TypeOK, vars, transaction
<1> QED BY <1>1, <1>2, <1>3, <1>4, StorefrontSteps

\* While an order is placed its product, its category and its bank account stay as
\* they were read, whatever administrators do.
LEMMA NextDrafts ==
  ASSUME CatalogInv, TypeOK, DraftsListed, [Next]_vars
  PROVE  DraftsListed'
<1> SUFFICES ASSUME NEW q \in Requests, pc'[q] \in Open
             PROVE  draft'[q] \in Order /\ Listed(q)'
  BY DEF DraftsListed, Open
<1>0. CASE /\ UNCHANGED <<catalog, bank>> /\ pc'[q] = pc[q] /\ draft'[q] = draft[q]
           /\ \A x : <<x, q>> \in shared => <<x, q>> \in shared'
  BY <1>0, ListedKept DEF DraftsListed
<1>1. ASSUME NEW a \in Admins, AdminStep(a), UNCHANGED <<shared, bank, transaction, placed, answer>>
      PROVE  draft'[q] \in Order /\ Listed(q)'
  <2> DEFINE p == ProductOf[q]
             c == product[p].category
  <2>1. pc'[q] = pc[q] /\ draft' = draft /\ draft[q] \in Order /\ Listed(q)
    BY <1>1 DEF transaction, DraftsListed
  <2>2. /\ product[p] # NoRow /\ ~Exclusive(p) /\ ~Exclusive(c)
    BY <2>1 DEF Listed, Exclusive
  <2>3. p \in Products /\ c \in Categories /\ category[c] # NoRow
    BY <2>2, StorefrontAssumption DEF CatalogInv, CatalogTypeOK, ProductRow, Categorised
  <2>4. product'[p] = product[p]
    BY <1>1, <2>2, <2>3, ProductStep DEF CatalogInv, ProductChange
  <2>5. category'[c] = category[c]
    BY <1>1, <2>2, <2>3, CategoryStep DEF CatalogInv, CategoryChange
  <2> QED BY <1>1, <2>1, <2>4, <2>5 DEF Listed
<1>2. CASE BankStep
  <2>1. pc[q] \in Open
    BY <1>2 DEF BankStep, transaction
  <2>2. <<Bank, q>> \in shared
    BY <2>1 DEF DraftsListed, Listed
  <2> QED BY <1>2, <2>2 DEF BankStep, Exclusive
<1>3. ASSUME NEW r \in Requests, RequestStep(r), r # q
      PROVE  draft'[q] \in Order /\ Listed(q)'
  BY <1>0, <1>3, OthersKept
<1>4. CASE RequestStep(q)
  <2>1. CASE Answers(q) \/ Leaves(q) \/ Places(q)
    BY <2>1 DEF Answers, Leaves, Ends, Places, Open
  <2>2. CASE Quotes(q)
    BY <2>2 DEF Quotes
  <2>3. CASE Inserts(q)
    <3>1. PICK ref \in References : pc[q] = "priced" /\ draft'[q] = [draft[q] EXCEPT !.ref = ref] /\ UNCHANGED shared
      BY <2>3 DEF Inserts
    <3>2. draft[q] \in Order /\ Listed(q)
      BY <3>1 DEF DraftsListed, Open
    <3>3. /\ draft'[q] \in Order
          /\ draft'[q].price = draft[q].price /\ draft'[q].category = draft[q].category
          /\ draft'[q].bank = draft[q].bank
      BY <3>1, <3>2 DEF Order
    <3>4. UNCHANGED <<catalog, bank>>
      BY <1>4, <2>3 DEF RequestStep, Create, CommitOrder, Rollback, Repeat, InsertPendingOrder, Inserts
    <3> QED BY <3>1, <3>2, <3>3, <3>4, ListedKept
  <2>4. CASE TriesAgain(q)
    <3>1. UNCHANGED <<catalog, bank>>
      BY <1>4 DEF RequestStep, Create, CommitOrder, Rollback, Repeat, InsertPendingOrder
    <3> QED BY <1>0, <2>4, <3>1 DEF TriesAgain
  <2> QED BY <1>4, <2>1, <2>2, <2>3, <2>4, OwnStep
<1>5. CASE UNCHANGED vars
  BY <1>0, <1>5 DEF vars, transaction
<1> QED BY <1>1, <1>2, <1>3, <1>4, <1>5, StorefrontSteps

\* An inserted order keeps its key and its reference to itself until it ends.
LEMMA NextAlone ==
  ASSUME CatalogInv, TypeOK, DraftsListed, InsertsAlone, [Next]_vars
  PROVE  InsertsAlone'
<1>0. CASE UNCHANGED <<pc, draft, placed>>
  BY <1>0 DEF InsertsAlone, Alone
<1>1. ASSUME NEW r \in Requests, RequestStep(r), NEW s \in Requests, pc'[s] = "inserted"
      PROVE  Alone(s)'
  <2>0. ASSUME NEW q \in Requests, q # r
        PROVE  pc'[q] = pc[q] /\ draft'[q] = draft[q] /\ placed'[q] = placed[q]
    BY <1>1, <2>0, OthersKept
  <2>1. CASE pc'[r] # "inserted" /\ UNCHANGED placed
    <3>1. s # r /\ pc[s] = "inserted" /\ draft'[s] = draft[s] /\ Alone(s)
      BY <1>1, <2>0, <2>1 DEF InsertsAlone
    <3> QED BY <2>0, <2>1, <3>1 DEF Alone
  <2>2. CASE Inserts(r)
    <3>1. PICK ref \in References : /\ pc[r] = "priced" /\ UNCHANGED placed
                                    /\ ~InsertWaits(r, ref) /\ ~OrderConflicts(r, ref)
                                    /\ draft'[r] = [draft[r] EXCEPT !.ref = ref]
      BY <2>2 DEF Inserts
    <3>2. draft[r] \in Order
      BY <3>1 DEF DraftsListed, Open
    <3>3. draft'[r].ref = ref
      BY <3>1, <3>2 DEF Order
    <3>4. /\ \A q \in Requests \ {r} : pc[q] = "inserted" => KeyOf[q] # KeyOf[r] /\ draft[q].ref # ref
          /\ \A q \in Requests : placed[q] # NoOrder => KeyOf[q] # KeyOf[r] /\ placed[q].ref # ref
      BY <3>1 DEF InsertWaits, OrderConflicts
    <3>5. CASE s = r
      BY <2>0, <3>1, <3>3, <3>4, <3>5, ZenonT(40) DEF Alone
    <3>6. CASE s # r
      <4>1. pc[s] = "inserted" /\ draft'[s] = draft[s] /\ Alone(s)
        BY <1>1, <2>0, <3>6 DEF InsertsAlone
      <4> QED BY <2>0, <3>1, <3>3, <3>4, <3>6, <4>1, ZenonT(40) DEF Alone
    <3> QED BY <3>5, <3>6
  <2>3. CASE TriesAgain(r)
    BY <1>1, <2>3 DEF TriesAgain, InsertsAlone, Alone
  <2>4. CASE Places(r)
    <3>1. s # r /\ pc[s] = "inserted" /\ pc[r] = "inserted" /\ draft'[s] = draft[s] /\ Alone(s)
      BY <1>1, <2>0, <2>4 DEF InsertsAlone, Places
    <3>2. placed'[r] = draft[r] /\ pc'[r] = "done"
      BY <2>4 DEF Places, TypeOK
    <3>3. KeyOf[r] # KeyOf[s] /\ draft[r].ref # draft[s].ref
      BY <3>1 DEF Alone
    <3> QED BY <2>0, <3>1, <3>2, <3>3 DEF Alone
  <2> QED BY <1>1, <2>1, <2>2, <2>3, <2>4, OwnStep DEF Answers, Leaves, Ends, Quotes
<1>2. CASE \E r \in Requests : RequestStep(r)
  BY <1>1, <1>2 DEF InsertsAlone
<1> QED BY <1>0, <1>2, StorefrontSteps DEF BankStep, transaction, vars

\* Orders stay, with their keys and references, and answers point to them.
LEMMA NextOneOrder ==
  ASSUME CatalogInv, TypeOK, DraftsListed, InsertsAlone, OneOrderPerKey, [Next]_vars
  PROVE  OneOrderPerKey'
<1> USE StorefrontAssumption
<1>0. CASE UNCHANGED <<placed, answer>>
  BY <1>0 DEF OneOrderPerKey, FindOrderByUserIdempotency
<1>1. ASSUME NEW r \in Requests, RequestStep(r) PROVE OneOrderPerKey'
  <2>1. CASE Answers(r)
    <3>1. PICK x \in FindOrderByUserIdempotency(KeyOf[r]) : answer' = [answer EXCEPT ![r] = x]
      BY <2>1 DEF Answers
    <3>2. placed' = placed
      BY <2>1 DEF Answers, Ends
    <3>3. \A k : FindOrderByUserIdempotency(k)' = FindOrderByUserIdempotency(k)
      BY <3>2 DEF FindOrderByUserIdempotency
    <3>4. ASSUME NEW s \in Requests, answer'[s] # NoRequest
          PROVE  answer'[s] \in FindOrderByUserIdempotency(KeyOf[s])
      BY <3>1, <3>4 DEF OneOrderPerKey, TypeOK
    <3> QED BY <3>2, <3>3, <3>4 DEF OneOrderPerKey
  <2>2. CASE Places(r)
    <3>1. /\ pc[r] = "inserted" /\ placed' = [placed EXCEPT ![r] = draft[r]]
          /\ answer' = [answer EXCEPT ![r] = r]
      BY <2>2 DEF Places
    <3>2. draft[r] # NoOrder /\ Alone(r)
      BY <3>1 DEF DraftsListed, Open, InsertsAlone
    <3>3. placed'[r] = draft[r] /\ \A q \in Requests \ {r} : placed'[q] = placed[q]
      BY <3>1 DEF TypeOK
    <3>4. answer'[r] = r /\ \A q \in Requests \ {r} : answer'[q] = answer[q]
      BY <3>1 DEF TypeOK
    <3>5. ASSUME NEW s \in Requests, NEW q \in Requests, placed'[s] # NoOrder, placed'[q] # NoOrder, s # q
          PROVE  KeyOf[s] # KeyOf[q] /\ placed'[s].ref # placed'[q].ref
      <4>1. CASE s # r /\ q # r
        BY <3>3, <3>5, <4>1 DEF OneOrderPerKey
      <4>2. CASE s = r
        BY <3>2, <3>3, <3>5, <4>2 DEF Alone
      <4>3. CASE q = r
        BY <3>2, <3>3, <3>5, <4>3 DEF Alone
      <4> QED BY <4>1, <4>2, <4>3
    <3>6. ASSUME NEW s \in Requests, answer'[s] # NoRequest
          PROVE  answer'[s] \in Requests /\ KeyOf[answer'[s]] = KeyOf[s] /\ placed'[answer'[s]] # NoOrder
      <4>1. CASE s = r
        BY <3>2, <3>3, <3>4, <4>1
      <4>2. CASE s # r
        <5>1. answer'[s] = answer[s] /\ answer[s] \in FindOrderByUserIdempotency(KeyOf[s])
          BY <3>4, <3>6, <4>2 DEF OneOrderPerKey
        <5> QED BY <3>2, <3>3, <5>1 DEF FindOrderByUserIdempotency
      <4> QED BY <4>1, <4>2
    <3> QED BY <3>5, <3>6 DEF OneOrderPerKey, FindOrderByUserIdempotency
  <2> QED BY <1>0, <1>1, <2>1, <2>2, OwnStep DEF Leaves, Ends, Quotes, Inserts, TriesAgain
<1> QED BY <1>0, <1>1, StorefrontSteps DEF BankStep, transaction, vars

\* The invariant of the storefront holds in every reachable state.
LEMMA StorefrontAlways == Spec => []StorefrontInv
<1>1. Init => StorefrontInv
  <2> SUFFICES ASSUME Init PROVE StorefrontInv
    OBVIOUS
  <2>1. CatalogInv
    BY InitCatalog
  <2>2. TypeOK
    BY <2>1, StorefrontAssumption DEF Init, TypeOK, CatalogInv
  <2>3. DraftsListed /\ InsertsAlone /\ OneOrderPerKey
    BY DEF Init, DraftsListed, InsertsAlone, OneOrderPerKey, Open
  <2> QED BY <2>1, <2>2, <2>3 DEF StorefrontInv
<1>2. StorefrontInv /\ [Next]_vars => StorefrontInv'
  <2> SUFFICES ASSUME StorefrontInv, [Next]_vars PROVE StorefrontInv'
    OBVIOUS
  <2>0. CatalogInv /\ TypeOK /\ DraftsListed /\ InsertsAlone /\ OneOrderPerKey
    BY DEF StorefrontInv
  <2> QED BY <2>0, NextCatalog, NextStoreTyped, NextDrafts, NextAlone, NextOneOrder DEF StorefrontInv
<1> QED BY <1>1, <1>2, PTL DEF Spec

\* Every reachable state of catalog, bank account and orders is well typed.
THEOREM StorefrontTypes == Spec => []TypeOK
  BY StorefrontAlways, PTL DEF StorefrontInv

\* One order exists per confirmation and one per payment reference, and every copy of
\* the confirmation is answered with that order, for any number of copies side by side.
THEOREM OneOrderPerConfirmation == Spec => []OneOrderPerKey
  BY StorefrontAlways, PTL DEF StorefrontInv

\* An order that appears is one a request had inserted.
LEMMA OrderAppears ==
  ASSUME StorefrontInv, [Next]_vars, NEW r \in Requests, placed[r] = NoOrder, placed'[r] # NoOrder
  PROVE  pc[r] = "inserted" /\ placed'[r] = draft[r]
<1>0. CatalogInv /\ TypeOK
  BY DEF StorefrontInv
<1>1. ASSUME NEW q \in Requests, RequestStep(q) PROVE pc[r] = "inserted" /\ placed'[r] = draft[r]
  <2>1. CASE q # r
    BY <1>0, <1>1, <2>1, OthersKept
  <2>2. CASE q = r
    <3>1. Places(r)
      BY <1>0, <1>1, <2>2, OwnStep DEF Answers, Leaves, Ends, Quotes, Inserts, TriesAgain
    <3> QED BY <1>0, <3>1 DEF Places, TypeOK
  <2> QED BY <2>1, <2>2
<1> QED BY <1>0, <1>1, StorefrontSteps DEF BankStep, vars

\* What an order promises is true when it is placed: product, category, price and bank
\* account are as the order says, although administrators change all of them meanwhile.
THEOREM OrdersAreAsListed == Spec => OrderedAsListed
<1>1. StorefrontInv /\ [Next]_vars =>
        [\A r \in Requests : placed[r] = NoOrder /\ placed'[r] # NoOrder =>
           LET p == product[ProductOf[r]]
           IN /\ p.active /\ p.price = placed'[r].price
              /\ p.category = placed'[r].category /\ category[p.category].active
              /\ bank.active /\ bank.version = placed'[r].bank]_vars
  <2> SUFFICES ASSUME StorefrontInv, [Next]_vars,
                      NEW r \in Requests, placed[r] = NoOrder, placed'[r] # NoOrder
               PROVE  LET p == product[ProductOf[r]]
                      IN /\ p.active /\ p.price = placed'[r].price
                         /\ p.category = placed'[r].category /\ category[p.category].active
                         /\ bank.active /\ bank.version = placed'[r].bank
    OBVIOUS
  <2>1. pc[r] = "inserted" /\ placed'[r] = draft[r]
    BY OrderAppears
  <2>2. Listed(r)
    BY <2>1 DEF StorefrontInv, DraftsListed, Open
  <2> QED BY <2>1, <2>2 DEF Listed
<1> QED BY StorefrontAlways, <1>1, PTL DEF Spec, OrderedAsListed
=============================================================================
