------------------------------- MODULE Catalog -------------------------------
(***************************************************************************)
(* Categories and products, and the administrators' dialogs that change    *)
(* them.  A dialog is about a row as a list has shown it and ends in one   *)
(* transaction that locks the row, compares its version and writes; module *)
(* AdminUpdates has the session and the receipt around it.                 *)
(*                                                                         *)
(* The row lock (FOR UPDATE) waits for the transactions that hold a share  *)
(* of the row; who they are is the matter of the modules that extend this  *)
(* one.                                                                    *)
(***************************************************************************)
EXTENDS Naturals, FiniteSets

CONSTANTS Admins, Categories, Products, Names, Prices,
          NoRow, NoDialog,
          VersionBound    \* bound on the version of a row

VARIABLES
  category,   \* categories: name, is_active, version
  product,    \* products: category_id, price_vnd, is_active, version
  dialog,     \* the dialog of an administrator: what it does and the row as it read it
  shared      \* <<row, transaction>>: the transaction holds the row FOR SHARE

catalog == <<category, product, dialog>>

CategoryRow == [name : Names, active : BOOLEAN, version : 1..VersionBound]
ProductRow == [category : Categories, price : Prices, active : BOOLEAN, version : 1..VersionBound]
Flows == {"category_create", "category_edit", "category_toggle",
          "product_create", "product_edit", "product_toggle"}
Dialog == [flow : Flows, row : Categories \cup Products \cup {NoRow},
           seen : CategoryRow \cup ProductRow \cup {NoRow}]

ASSUME CatalogAssumption ==
  /\ VersionBound \in Nat \ {0}
  /\ NoRow \notin Categories \cup Products \cup CategoryRow \cup ProductRow
  /\ NoDialog \notin Dialog
  /\ Categories \cap Products = {}

CatalogInit ==
  /\ category = [c \in Categories |-> NoRow]
  /\ product = [p \in Products |-> NoRow]
  /\ dialog = [a \in Admins |-> NoDialog]

Exclusive(row) == \A s \in shared : s[1] # row
LockCategoryByID(c) == category[c] # NoRow /\ Exclusive(c)
LockProductByID(p) == product[p] # NoRow /\ Exclusive(p)
GetCategoryByID(c) == category[c] # NoRow
-----------------------------------------------------------------------------
(* The dialogs. *)

ListAdminCategoriesPage == {c \in Categories : category[c] # NoRow}
ListAdminProductsPage == {p \in Products : product[p] # NoRow}

\* The dialogs the lists offer.  The button a dialog is started with carries the
\* version of the row in the list that shows it.
ListedDialogs ==
  [flow : {"category_create", "product_create"}, row : {NoRow}, seen : {NoRow}]
    \cup {[flow |-> f, row |-> c, seen |-> category[c]] :
            f \in {"category_edit", "category_toggle"}, c \in ListAdminCategoriesPage}
    \cup {[flow |-> f, row |-> p, seen |-> product[p]] :
            f \in {"product_edit", "product_toggle"}, p \in ListAdminProductsPage}

StartDialog(a) ==
  /\ dialog[a] = NoDialog
  /\ \E d \in ListedDialogs : dialog' = [dialog EXCEPT ![a] = d]
  /\ UNCHANGED <<category, product>>

\* Cancelled or expired.
CloseDialog(a) ==
  /\ dialog[a] # NoDialog
  /\ dialog' = [dialog EXCEPT ![a] = NoDialog]
  /\ UNCHANGED <<category, product>>

FinishSession(a, flow) ==
  /\ dialog[a] # NoDialog /\ dialog[a].flow = flow
  /\ dialog' = [dialog EXCEPT ![a] = NoDialog]
-----------------------------------------------------------------------------
(* The changes.  A dialog whose row has another version by now is refused and      *)
(* changes nothing.                                                                *)

InsertCategory(c, name) ==
  /\ category[c] = NoRow
  /\ category' = [category EXCEPT ![c] = [name |-> name, active |-> TRUE, version |-> 1]]

UpdateCategoryDetailsGuarded(c, version, name) ==
  /\ category[c].version = version /\ version < VersionBound
  /\ category' = [category EXCEPT ![c] = [name |-> name, active |-> @.active, version |-> @.version + 1]]

SetCategoryActiveGuarded(c, version, active) ==
  /\ category[c].version = version /\ version < VersionBound
  /\ category' = [category EXCEPT ![c] = [name |-> @.name, active |-> active, version |-> @.version + 1]]

InsertProduct(p, c, price) ==
  /\ product[p] = NoRow
  /\ product' = [product EXCEPT ![p] = [category |-> c, price |-> price, active |-> TRUE, version |-> 1]]

UpdateProductDetailsGuarded(p, version, c, price) ==
  /\ product[p].version = version /\ version < VersionBound
  /\ product' = [product EXCEPT ![p] = [category |-> c, price |-> price,
                                        active |-> @.active, version |-> @.version + 1]]

\* Mutant: the switch leaves the version as it is.
SetProductActiveSameVersion(p, version, active) ==
  /\ product[p].version = version
  /\ product' = [product EXCEPT ![p] = [@ EXCEPT !.active = active]]

SetProductActiveGuarded(p, version, active) ==
  /\ product[p].version = version /\ version < VersionBound
  /\ product' = [product EXCEPT ![p] = [category |-> @.category, price |-> @.price,
                                        active |-> active, version |-> @.version + 1]]

CreateCategory(a) ==
  /\ FinishSession(a, "category_create")
  /\ \E c \in Categories, name \in Names : InsertCategory(c, name)
  /\ UNCHANGED product

UpdateCategory(a) ==
  /\ FinishSession(a, "category_edit")
  /\ LockCategoryByID(dialog[a].row)
  /\ \E name \in Names : UpdateCategoryDetailsGuarded(dialog[a].row, dialog[a].seen.version, name)
  /\ UNCHANGED product

\* A switch to the state the row has already is refused as stale.
SetCategoryActive(a) ==
  /\ FinishSession(a, "category_toggle")
  /\ LockCategoryByID(dialog[a].row)
  /\ category[dialog[a].row].active = dialog[a].seen.active
  /\ SetCategoryActiveGuarded(dialog[a].row, dialog[a].seen.version, ~dialog[a].seen.active)
  /\ UNCHANGED product

CreateProduct(a) ==
  /\ FinishSession(a, "product_create")
  /\ \E p \in Products, c \in Categories, price \in Prices : GetCategoryByID(c) /\ InsertProduct(p, c, price)
  /\ UNCHANGED category

UpdateProduct(a) ==
  /\ FinishSession(a, "product_edit")
  /\ LockProductByID(dialog[a].row)
  /\ \E c \in Categories, price \in Prices :
       GetCategoryByID(c) /\ UpdateProductDetailsGuarded(dialog[a].row, dialog[a].seen.version, c, price)
  /\ UNCHANGED category

SetProductActive(a) ==
  /\ FinishSession(a, "product_toggle")
  /\ LockProductByID(dialog[a].row)
  /\ product[dialog[a].row].active = dialog[a].seen.active
  /\ SetProductActiveGuarded(dialog[a].row, dialog[a].seen.version, ~dialog[a].seen.active)
  /\ UNCHANGED category

AdminStep(a) ==
  \/ StartDialog(a) \/ CloseDialog(a)
  \/ CreateCategory(a) \/ UpdateCategory(a) \/ SetCategoryActive(a)
  \/ CreateProduct(a) \/ UpdateProduct(a) \/ SetProductActive(a)
-----------------------------------------------------------------------------
CatalogTypeOK ==
  /\ category \in [Categories -> CategoryRow \cup {NoRow}]
  /\ product \in [Products -> ProductRow \cup {NoRow}]
  /\ dialog \in [Admins -> Dialog \cup {NoDialog}]

\* No administrator overwrites what another one changed meanwhile: a row is changed
\* only by a dialog that ends and that has seen the row exactly as it was, whatever
\* dialogs edit, switch and move the same rows at the same time.
NoLostUpdate ==
  [][/\ \A c \in Categories : category[c] # NoRow /\ category'[c] # category[c] =>
          \E a \in Admins : /\ dialog[a] # NoDialog /\ dialog'[a] = NoDialog
                            /\ dialog[a].row = c /\ dialog[a].seen = category[c]
     /\ \A p \in Products : product[p] # NoRow /\ product'[p] # product[p] =>
          \E a \in Admins : /\ dialog[a] # NoDialog /\ dialog'[a] = NoDialog
                            /\ dialog[a].row = p /\ dialog[a].seen = product[p]]_<<category, product, dialog>>
=============================================================================
