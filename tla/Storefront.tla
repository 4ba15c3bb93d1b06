------------------------------ MODULE Storefront ------------------------------
(***************************************************************************)
(* Orders are placed while administrators change the catalog and the bank  *)
(* account.  A request is one press of a confirmation button; requests     *)
(* with the same key are repetitions of one press (Telegram delivers it    *)
(* again, the customer presses twice).                                     *)
(*                                                                         *)
(* The transaction that places an order reads product, category and bank   *)
(* account under shared row locks, and the stock without a lock; inserts   *)
(* the order, where the unique indexes of the idempotency key and of the   *)
(* payment reference decide; and commits.  Under READ COMMITTED each       *)
(* statement sees what is committed by then.                               *)
(***************************************************************************)
EXTENDS Catalog

CONSTANTS Requests, Keys, KeyOf, ProductOf, NoRequest, NoOrder,
          References,
          ReferenceAttempts,  \* paymentReferenceAttempts
          BankVersionBound    \* bound on the version of the bank account

VARIABLES
  bank,      \* the bank account: is_active, version
  pc,        \* the transaction of a request: "idle", "priced", "inserted" or "done"
  draft,     \* what it has read and will store
  tries,     \* references it has tried
  placed,    \* the order a request has placed
  answer     \* the order a request was answered with, by the request that placed it

transaction == <<pc, draft, tries>>
vars == <<catalog, shared, bank, transaction, placed, answer>>

Bank == "bank"
Order == [price : Prices, category : Categories, bank : 1..BankVersionBound, ref : References \cup {NoOrder}]

ASSUME StorefrontAssumption ==
  /\ KeyOf \in [Requests -> Keys]
  /\ ProductOf \in [Requests -> Products]
  /\ NoRequest \notin Requests
  /\ ReferenceAttempts \in Nat \ {0}
  /\ BankVersionBound \in Nat \ {0}
  /\ NoOrder \notin References \cup Order

Init ==
  /\ CatalogInit
  /\ shared = {}
  /\ bank = [active |-> TRUE, version |-> 1]
  /\ pc = [r \in Requests |-> "idle"]
  /\ draft = [r \in Requests |-> NoOrder]
  /\ tries = [r \in Requests |-> 0]
  /\ placed = [r \in Requests |-> NoOrder]
  /\ answer = [r \in Requests |-> NoRequest]

\* Both end a dialog of AdminUpdates, which has their version check.
UpdateEncryptedBankAccountGuarded ==
  /\ Exclusive(Bank) /\ bank.version < BankVersionBound
  /\ bank' = [bank EXCEPT !.version = @ + 1]
  /\ UNCHANGED <<catalog, shared, transaction, placed, answer>>
SetBankAccountActiveGuarded ==
  /\ Exclusive(Bank) /\ bank.version < BankVersionBound
  /\ bank' = [active |-> ~bank.active, version |-> bank.version + 1]
  /\ UNCHANGED <<catalog, shared, transaction, placed, answer>>

FindOrderByUserIdempotency(key) == {r \in Requests : KeyOf[r] = key /\ placed[r] # NoOrder}

\* Mutant: the rows are read without FOR SHARE.
ReadProductForOrderCreation(r, p) ==
  /\ product[p] # NoRow /\ product[p].active /\ category[product[p].category].active
  /\ shared' = shared \cup {<<Bank, r>>}
\* FOR SHARE OF products, categories; an inactive one is refused.
GetProductForOrderCreation(r, p) ==
  /\ product[p] # NoRow /\ product[p].active /\ category[product[p].category].active
  /\ shared' = shared \cup {<<p, r>>, <<product[p].category, r>>, <<Bank, r>>}

\* FOR SHARE too.
GetActiveBankAccountForOrder == bank.active

\* The transaction of r ends and gives up its locks.
End(r, label) ==
  /\ pc' = [pc EXCEPT ![r] = label]
  /\ draft' = [draft EXCEPT ![r] = NoOrder]
  /\ tries' = [tries EXCEPT ![r] = 0]
  /\ shared' = {s \in shared : s[2] # r}

AnswerDuplicate(r) ==
  /\ \E q \in FindOrderByUserIdempotency(KeyOf[r]) : answer' = [answer EXCEPT ![r] = q]
  /\ End(r, "done")
  /\ UNCHANGED placed

\* A request that is refused (inactive product, category or bank account, too little
\* stock) leaves nothing behind and stays idle.
Create(r) ==
  /\ pc[r] = "idle"
  /\ \/ AnswerDuplicate(r)
     \/ /\ FindOrderByUserIdempotency(KeyOf[r]) = {}
        /\ GetProductForOrderCreation(r, ProductOf[r])
        /\ GetActiveBankAccountForOrder
        /\ pc' = [pc EXCEPT ![r] = "priced"]
        /\ draft' = [draft EXCEPT ![r] = [price |-> product[ProductOf[r]].price,
                                          category |-> product[ProductOf[r]].category,
                                          bank |-> bank.version, ref |-> NoOrder]]
        /\ UNCHANGED <<tries, placed, answer>>
  /\ UNCHANGED <<catalog, bank>>

\* An insert waits for the end of a transaction that has inserted the same key or the
\* same reference.
InsertWaits(r, ref) ==
  \E q \in Requests \ {r} : pc[q] = "inserted" /\ (KeyOf[q] = KeyOf[r] \/ draft[q].ref = ref)

\* Mutant: only the reference conflicts.
ReferenceConflicts(r, ref) == \E q \in Requests : placed[q] # NoOrder /\ placed[q].ref = ref
\* ON CONFLICT DO NOTHING, on either unique index.
OrderConflicts(r, ref) ==
  \E q \in Requests : placed[q] # NoOrder /\ (KeyOf[q] = KeyOf[r] \/ placed[q].ref = ref)

\* The row is inserted; or the order of the key exists by now; or the reference was
\* taken and another one is tried, up to a limit.
InsertPendingOrder(r, ref) ==
  /\ pc[r] = "priced" /\ ~InsertWaits(r, ref)
  /\ \/ /\ ~OrderConflicts(r, ref)
        /\ draft' = [draft EXCEPT ![r] = [@ EXCEPT !.ref = ref]]
        /\ pc' = [pc EXCEPT ![r] = "inserted"]
        /\ UNCHANGED <<tries, shared, placed, answer>>
     \/ OrderConflicts(r, ref) /\ AnswerDuplicate(r)
     \/ /\ OrderConflicts(r, ref) /\ FindOrderByUserIdempotency(KeyOf[r]) = {}
        /\ IF tries[r] + 1 < ReferenceAttempts
             THEN tries' = [tries EXCEPT ![r] = @ + 1] /\ UNCHANGED <<pc, draft, shared>>
             ELSE End(r, "idle")
        /\ UNCHANGED <<placed, answer>>
  /\ UNCHANGED <<catalog, bank>>

\* Item, history and the receipt of the update go with the order.
CommitOrder(r) ==
  /\ pc[r] = "inserted"
  /\ placed' = [placed EXCEPT ![r] = draft[r]]
  /\ answer' = [answer EXCEPT ![r] = r]
  /\ End(r, "done")
  /\ UNCHANGED <<catalog, bank>>

\* A statement or the commit fails, the process dies, or the receipt of the update was
\* completed by another handler.
Rollback(r) ==
  /\ pc[r] \in {"priced", "inserted"}
  /\ End(r, "idle")
  /\ UNCHANGED <<catalog, bank, placed, answer>>

\* The answer is lost, or the customer presses the button again.
Repeat(r) ==
  /\ pc[r] = "done"
  /\ pc' = [pc EXCEPT ![r] = "idle"]
  /\ UNCHANGED <<catalog, shared, bank, draft, tries, placed, answer>>

Next ==
  \/ \E a \in Admins : AdminStep(a) /\ UNCHANGED <<shared, bank, transaction, placed, answer>>
  \/ UpdateEncryptedBankAccountGuarded \/ SetBankAccountActiveGuarded
  \/ \E r \in Requests : Create(r) \/ CommitOrder(r) \/ Rollback(r) \/ Repeat(r)
  \/ \E r \in Requests, ref \in References : InsertPendingOrder(r, ref)

Spec == Init /\ [][Next]_vars
-----------------------------------------------------------------------------
(* Properties *)

TypeOK ==
  /\ CatalogTypeOK
  /\ shared \subseteq (Categories \cup Products \cup {Bank}) \X Requests
  /\ bank \in [active : BOOLEAN, version : 1..BankVersionBound]
  /\ pc \in [Requests -> {"idle", "priced", "inserted", "done"}]
  /\ draft \in [Requests -> Order \cup {NoOrder}]
  /\ tries \in [Requests -> 0..ReferenceAttempts]
  /\ placed \in [Requests -> Order \cup {NoOrder}]
  /\ answer \in [Requests -> Requests \cup {NoRequest}]

\* However often a confirmation is pressed or delivered, and however the copies run
\* side by side, one order exists for its key and every copy is answered with that
\* order; no two orders share a payment reference.
OneOrderPerKey ==
  /\ \A r, q \in Requests : placed[r] # NoOrder /\ placed[q] # NoOrder /\ r # q =>
       KeyOf[r] # KeyOf[q] /\ placed[r].ref # placed[q].ref
  /\ \A r \in Requests : answer[r] # NoRequest => answer[r] \in FindOrderByUserIdempotency(KeyOf[r])

\* What an order promises is true when it is placed: its product is listed in an
\* active category at that price, and its payment goes to an active bank account as
\* it is stored, although administrators change all of them while it is placed.
OrderedAsListed ==
  [][\A r \in Requests : placed[r] = NoOrder /\ placed'[r] # NoOrder =>
       LET p == product[ProductOf[r]]
       IN /\ p.active /\ p.price = placed'[r].price
          /\ p.category = placed'[r].category /\ category[p.category].active
          /\ bank.active /\ bank.version = placed'[r].bank]_vars
=============================================================================
