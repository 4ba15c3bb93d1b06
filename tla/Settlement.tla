----------------------------- MODULE Settlement -----------------------------
(***************************************************************************)
(* Money and stock: orders, wallet top-ups, wallet balances, payments,     *)
(* allocations, review cases and the reservation of inventory items.       *)
(*                                                                         *)
(* A database transaction that takes its locks before it reads is one      *)
(* action.  The acceptance of a payment is two: the payment of the         *)
(* provider transaction is looked up before the order or top-up is locked  *)
(* (internal/postgres/payment_acceptance_store.go:40), and the acceptance  *)
(* time is read before that, so both may be stale when the locks are held. *)
(* The same holds for the time at which a wallet payment was requested.    *)
(***************************************************************************)
EXTENDS Integers, Sequences, FiniteSets

CONSTANTS Users, Orders, Topups, Items,
          Commands,      \* payment evidence: provider events and manual confirmations
          NoTarget,      \* no order and no top-up
          Owner,         \* the user of an order or a top-up
          Total,         \* the amount of an order or a top-up
          Reference,     \* its payment reference
          Qty,           \* the quantity of an order
          Product,       \* the product of an order or an item
          Adjustments,   \* the signed amounts an administrator may post
          LedgerBound,   \* adjustments stop at this ledger length
          Resolutions    \* what an administrator may do with a review case

Targets == Orders \cup Topups

\* The unique (provider, environment, transaction id) of a payment.  The wallet
\* payment of order o has provider "wallet" and transaction id wallet-order-o:
\* the model uses o itself.
Transactions == {c.txn : c \in Commands} \cup Orders

ASSUME SettlementAssumption ==
  /\ Orders \cap Topups = {}
  /\ NoTarget \notin Targets
  /\ Orders \cap {"available", "disabled", "absent", "adjustment", "on", "off"} = {}
  /\ Owner \in [Targets -> Users]
  /\ Total \in [Targets -> Nat \ {0}]
  /\ Qty \in [Orders -> Nat \ {0}]
  /\ DOMAIN Reference = Targets
  /\ DOMAIN Product = Orders \cup Items
  /\ Adjustments \subseteq Int \ {0}
  /\ LedgerBound \in Nat
  /\ Resolutions \subseteq {"held", "resolved"}
  /\ IsFiniteSet(Items)

\* A payment is evidence about one transaction.  payment_events is unique per
\* transaction, and a manual confirmation has the provider "manual".
ASSUME CommandAssumption ==
  \A c \in Commands :
    /\ c.event \in BOOLEAN
    /\ c.direction \in {"inbound", "outbound"}
    /\ c.amount \in Nat \ {0}
    /\ c.txn \notin Orders \cup {"adjustment"}
    /\ c.routed \in BOOLEAN
    /\ \A d \in Commands : c.txn = d.txn /\ c.event => c = d

VARIABLES
  order,     \* orders.status; "none" before the row exists
  topup,     \* wallet_topup_intents.status
  lapsed,    \* targets whose expires_at has passed
  inv,       \* inventory_items: "absent", "available", "disabled" or the reserving order
  pay,       \* payments, per transaction
  alloc,     \* payment_allocations: the target a payment funds
  balance,   \* wallet_accounts.balance_vnd
  ledger,    \* wallet_ledger_entries of an account, oldest first
  decision,  \* payment_events.processing_status, or the outcome of a manual command
  review,    \* payment_review_cases, per command
  req        \* open acceptance (per command) and wallet payment (per order) requests

vars == <<order, topup, lapsed, inv, pay, alloc, balance, ledger, decision, review, req>>

OrderStatus == {"none", "pending_payment", "cancelled", "expired", "out_of_stock", "delivering"}
TopupStatus == {"none", "pending_payment", "credited", "payment_review"}
Reasons == {"amount_mismatch", "currency_mismatch", "late_or_cancelled", "competing_payment",
            "provider_destination_account_mismatch", "topup_expired", "out_of_stock",
            "provider_ambiguous_reference", "unknown_reference",
            "transaction_conflict", "duplicate_unallocated"}

NoPayment == [status |-> "none", ref |-> NoTarget, amount |-> 0]
NoCase == [reason |-> "none", status |-> "none", linked |-> FALSE]

Init ==
  /\ order = [o \in Orders |-> "none"]
  /\ topup = [t \in Topups |-> "none"]
  /\ lapsed = {}
  /\ inv \in [Items -> {"absent", "available"}]
  /\ pay = [x \in Transactions |-> NoPayment]
  /\ alloc = [x \in Transactions |-> NoTarget]
  /\ balance = [u \in Users |-> 0]
  /\ ledger = [u \in Users |-> << >>]
  /\ decision = [c \in Commands |-> "processing"]
  /\ review = [c \in Commands |-> NoCase]
  /\ req = [r \in Commands \cup Orders |-> "idle"]

-----------------------------------------------------------------------------
(* Queries: what one SQL statement reads or writes. *)

Created(x) == IF x \in Orders THEN order[x] # "none" ELSE topup[x] # "none"

\* CountClaimableInventoryForOrder: the items an order of this product may claim.
Claimable(o) == {i \in Items : Product[i] = Product[o] /\ inv[i] = "available"}

ListReservedInventoryIDsByOrder(o) == {i \in Items : inv[i] = o}

\* CountPaymentReferenceTargets, LockOrderByPaymentReference and
\* LockWalletTopupByReference: the targets that carry a payment reference.
ReferenceTargets(ref) == {x \in Targets : Created(x) /\ Reference[x] = ref}

GetPaymentByProviderTransaction(x) == pay[x]
GetPaymentAllocation(x) == alloc[x]

\* The insert returns no row when the transaction already has a payment.
InsertPayment(x, status, ref, amount) ==
  /\ pay[x] = NoPayment
  /\ pay' = [pay EXCEPT ![x] = [status |-> status, ref |-> ref, amount |-> amount]]

InsertPaymentAllocation(x, target) == alloc' = [alloc EXCEPT ![x] = target]

\* A manual confirmation has no event row; its decision is the answer it got.
CompletePaymentEvent(c, status) ==
  /\ decision[c] = "processing"
  /\ decision' = [decision EXCEPT ![c] = status]

InsertPaymentReviewCase(c, reason, linked) ==
  review' = [review EXCEPT ![c] = [reason |-> reason, status |-> "open", linked |-> linked]]

ListOpenPaymentReviews == {c \in Commands : review[c].status \in {"open", "held"}}

\* pending_payment -> paid, under the lock of the order.
MarkOrderPaidGuarded(o) == order[o] = "pending_payment"
\* The statuses between paid and the last one are never committed.
UpdateOrderStatusGuarded(o, status) == order' = [order EXCEPT ![o] = status]

UpdateWalletBalanceUnchecked(u, amount) == balance' = [balance EXCEPT ![u] = @ + amount]
UpdateWalletBalance(u, amount) ==
  /\ balance[u] + amount >= 0
  /\ balance' = [balance EXCEPT ![u] = @ + amount]

InsertWalletLedgerEntryStale(u, amount, after, ref) ==
  ledger' = [ledger EXCEPT ![u] =
               Append(@, [amount |-> amount, after |-> balance[u], ref |-> ref])]
InsertWalletLedgerEntry(u, amount, after, ref) ==
  ledger' = [ledger EXCEPT ![u] =
               Append(@, [amount |-> amount, after |-> after, ref |-> ref])]

MarkWalletTopupCredited(t) ==
  /\ topup[t] = "pending_payment"
  /\ topup' = [topup EXCEPT ![t] = "credited"]

MarkWalletTopupReview(t) ==
  topup' = [topup EXCEPT ![t] = IF @ = "pending_payment" THEN "payment_review" ELSE @]

\* Exactly the ordered quantity or nothing, of the rows no other transaction has
\* locked (FOR UPDATE SKIP LOCKED); the claimed rows get their active mapping
\* (InsertOrderInventoryMapping).
ClaimUpToQuantity(o) ==
  \E S \in SUBSET Claimable(o) :
    /\ S # {} /\ Cardinality(S) <= Qty[o]
    /\ inv' = [i \in Items |-> IF i \in S THEN o ELSE inv[i]]
ClaimExactAvailableInventory(o) ==
  \E S \in SUBSET Claimable(o) :
    /\ Cardinality(S) = Qty[o]
    /\ inv' = [i \in Items |-> IF i \in S THEN o ELSE inv[i]]
\* The claim returns no row: too few items are left that nobody has locked.
ClaimComesShort(o) ==
  \E locked \in SUBSET Claimable(o) : Cardinality(Claimable(o) \ locked) < Qty[o]

\* The wallet of a user moves by a signed amount, with its ledger entry.
Post(u, amount, ref) ==
  /\ UpdateWalletBalance(u, amount)
  /\ InsertWalletLedgerEntry(u, amount, balance[u] + amount, ref)

\* The command is decided and its transaction commits.
Decide(c, d) ==
  /\ CompletePaymentEvent(c, d)
  /\ req' = [req EXCEPT ![c] = "idle"]

\* recordPaymentReview and recordTopupReview: a review case, linked to a payment
\* row when there is one, and the event ends in review.
RecordReview(c, reason, linked) ==
  /\ InsertPaymentReviewCase(c, reason, linked)
  /\ Decide(c, "review")

wallet == <<balance, ledger>>
-----------------------------------------------------------------------------
(* Customers: orders, cancellation, top-up intents; the order expiry job. *)

CreateOrder(o) ==
  /\ order[o] = "none"
  /\ Cardinality(Claimable(o)) >= Qty[o]
  /\ order' = [order EXCEPT ![o] = "pending_payment"]
  /\ UNCHANGED <<topup, lapsed, inv, pay, alloc, wallet, decision, review, req>>

CreateWalletTopup(t) ==
  /\ topup[t] = "none"
  /\ topup' = [topup EXCEPT ![t] = "pending_payment"]
  /\ UNCHANGED <<order, lapsed, inv, pay, alloc, wallet, decision, review, req>>

\* The payment window of a target ends.
Lapse(x) ==
  /\ Created(x) /\ x \notin lapsed
  /\ lapsed' = lapsed \cup {x}
  /\ UNCHANGED <<order, topup, inv, pay, alloc, wallet, decision, review, req>>

CancelPendingOrderOwnedGuarded(o) ==
  /\ order[o] = "pending_payment" /\ o \notin lapsed
  /\ order' = [order EXCEPT ![o] = "cancelled"]

Cancel(o) ==
  /\ CancelPendingOrderOwnedGuarded(o)
  /\ UNCHANGED <<topup, lapsed, inv, pay, alloc, wallet, decision, review, req>>

ClaimOverduePendingOrders == {o \in lapsed \cap Orders : order[o] = "pending_payment"}

\* One batch: overdue pending orders whose rows are not locked.
ExpireOverdueOrders ==
  \E S \in SUBSET ClaimOverduePendingOrders :
    /\ S # {}
    /\ order' = [o \in Orders |-> IF o \in S THEN "expired" ELSE order[o]]
    /\ UNCHANGED <<topup, lapsed, inv, pay, alloc, wallet, decision, review, req>>
-----------------------------------------------------------------------------
(* Acceptance of payment evidence. *)

OrderReviewReason(o, c) ==
  IF c.amount # Total[o] THEN "amount_mismatch"
  ELSE IF c.currency # "VND" THEN "currency_mismatch"
  ELSE IF order[o] \in {"expired", "cancelled"} \/ req[c] = "late" THEN "late_or_cancelled"
  ELSE IF order[o] # "pending_payment" THEN "competing_payment"
  ELSE IF ~c.routed THEN "provider_destination_account_mismatch"
  ELSE ""

TopupReviewReason(t, c) ==
  IF ~c.routed THEN "provider_destination_account_mismatch"
  ELSE IF c.amount # Total[t] THEN "amount_mismatch"
  ELSE IF c.currency # "VND" THEN "currency_mismatch"
  ELSE IF topup[t] # "pending_payment" \/ req[c] = "late" THEN "topup_expired"
  ELSE ""

\* The transaction already has a payment: a duplicate when the evidence agrees
\* and the payment is allocated.  Payments are stored with the currency VND.
HandleExistingPayment(c) ==
  LET p == GetPaymentByProviderTransaction(c.txn)
      agrees == p.ref = c.ref /\ p.amount = c.amount /\ c.currency = "VND"
  IN /\ p # NoPayment
     /\ \/ ~agrees /\ RecordReview(c, "transaction_conflict", TRUE)
        \/ agrees /\ GetPaymentAllocation(c.txn) = NoTarget
                                    /\ RecordReview(c, "duplicate_unallocated", TRUE)
        \/ agrees /\ GetPaymentAllocation(c.txn) # NoTarget
                                    /\ Decide(c, "completed") /\ UNCHANGED review
     /\ UNCHANGED <<order, topup, inv, pay, alloc, wallet>>

\* The event job completes a transfer that left the account, without a payment.
CompleteIgnoredPaymentEvent(c) ==
  /\ c.event /\ c.direction = "outbound"
  /\ CompletePaymentEvent(c, "completed")
  /\ UNCHANGED <<order, topup, lapsed, inv, pay, alloc, wallet, review, req>>

\* The acceptance starts: time, event row and existing payment are read.
LookupPayment(c) ==
  /\ c.direction = "inbound"
  /\ decision[c] = "processing" /\ req[c] = "idle"
  /\ \/ HandleExistingPayment(c)
     \/ /\ pay[c.txn] = NoPayment
        /\ req' = [req EXCEPT ![c] = IF ReferenceTargets(c.ref) \cap lapsed # {} THEN "late" ELSE "fresh"]
        /\ UNCHANGED <<order, topup, inv, pay, alloc, wallet, decision, review>>
  /\ UNCHANGED lapsed

\* The reference names no target, or several.
AcceptUnmatched(c) ==
  /\ \/ ReferenceTargets(c.ref) = {} /\ RecordReview(c, "unknown_reference", FALSE)
     \/ Cardinality(ReferenceTargets(c.ref)) > 1 /\ RecordReview(c, "provider_ambiguous_reference", FALSE)
  /\ UNCHANGED <<order, topup, inv, pay, alloc, wallet>>

ReviewOrderPaymentUpsert(c, o) ==
  /\ OrderReviewReason(o, c) # ""
  /\ pay' = [pay EXCEPT ![c.txn] = [status |-> "review", ref |-> c.ref, amount |-> c.amount]]
  /\ RecordReview(c, OrderReviewReason(o, c), TRUE)
  /\ UNCHANGED <<order, topup, inv, alloc, wallet>>
\* Evidence the order cannot take: kept as a payment in review.
ReviewOrderPayment(c, o) ==
  /\ OrderReviewReason(o, c) # ""
  /\ InsertPayment(c.txn, "review", c.ref, c.amount)
  /\ RecordReview(c, OrderReviewReason(o, c), TRUE)
  /\ UNCHANGED <<order, topup, inv, alloc, wallet>>

AcceptOrderPaymentAgain(c, o) ==
  /\ c.amount = Total[o] /\ req[c] = "fresh"
  /\ InsertPayment(c.txn, "confirmed", c.ref, c.amount)
  /\ ClaimExactAvailableInventory(o)
  /\ UpdateOrderStatusGuarded(o, "delivering")
  /\ InsertPaymentAllocation(c.txn, o)
  /\ Decide(c, "completed")
  /\ UNCHANGED <<topup, wallet, review>>
\* pending_payment -> paid -> reserving -> delivering in one commit, with the
\* exact reservation, the allocation and the delivery job.
AcceptOrderPayment(c, o) ==
  /\ OrderReviewReason(o, c) = ""
  /\ InsertPayment(c.txn, "confirmed", c.ref, c.amount)
  /\ MarkOrderPaidGuarded(o)
  /\ ClaimExactAvailableInventory(o)
  /\ UpdateOrderStatusGuarded(o, "delivering")
  /\ InsertPaymentAllocation(c.txn, o)
  /\ Decide(c, "completed")
  /\ UNCHANGED <<topup, wallet, review>>

AcceptOrderShortUnreviewed(c, o) ==
  /\ OrderReviewReason(o, c) = ""
  /\ InsertPayment(c.txn, "confirmed", c.ref, c.amount)
  /\ MarkOrderPaidGuarded(o)
  /\ ClaimComesShort(o)
  /\ UpdateOrderStatusGuarded(o, "out_of_stock")
  /\ Decide(c, "completed")
  /\ UNCHANGED <<topup, inv, alloc, wallet, review>>
\* The money is there but the stock is not.
AcceptOrderShort(c, o) ==
  /\ OrderReviewReason(o, c) = ""
  /\ InsertPayment(c.txn, "confirmed", c.ref, c.amount)
  /\ MarkOrderPaidGuarded(o)
  /\ ClaimComesShort(o)
  /\ UpdateOrderStatusGuarded(o, "out_of_stock")
  /\ RecordReview(c, "out_of_stock", TRUE)
  /\ UNCHANGED <<topup, inv, alloc, wallet>>

ReviewTopupPaymentUnlinked(c, t) ==
  /\ TopupReviewReason(t, c) # ""
  /\ InsertPayment(c.txn, "review", c.ref, c.amount)
  /\ MarkWalletTopupReview(t)
  /\ RecordReview(c, TopupReviewReason(t, c), FALSE)
  /\ UNCHANGED <<order, inv, alloc, wallet>>

ReviewTopupPayment(c, t) ==
  /\ TopupReviewReason(t, c) # ""
  /\ InsertPayment(c.txn, "review", c.ref, c.amount)
  /\ MarkWalletTopupReview(t)
  /\ RecordReview(c, TopupReviewReason(t, c), TRUE)
  /\ UNCHANGED <<order, inv, alloc, wallet>>

AcceptWalletTopupPaymentAgain(c, t) ==
  /\ c.amount = Total[t] /\ req[c] = "fresh"
  /\ InsertPayment(c.txn, "confirmed", c.ref, c.amount)
  /\ Post(Owner[t], c.amount, c.txn)
  /\ topup' = [topup EXCEPT ![t] = "credited"]
  /\ InsertPaymentAllocation(c.txn, t)
  /\ Decide(c, "completed")
  /\ UNCHANGED <<order, inv, review>>
AcceptWalletTopupPayment(c, t) ==
  /\ TopupReviewReason(t, c) = ""
  /\ InsertPayment(c.txn, "confirmed", c.ref, c.amount)
  /\ Post(Owner[t], c.amount, c.txn)
  /\ MarkWalletTopupCredited(t)
  /\ InsertPaymentAllocation(c.txn, t)
  /\ Decide(c, "completed")
  /\ UNCHANGED <<order, inv, review>>

\* The payment row appeared after the lookup: the insert finds the conflict.  The
\* review branch of an order does not expect it and rolls back.
AcceptRaced(c, x) ==
  /\ pay[c.txn] # NoPayment
  /\ IF x \in Orders /\ OrderReviewReason(x, c) # ""
       THEN /\ req' = [req EXCEPT ![c] = "idle"]
            /\ UNCHANGED <<order, topup, inv, pay, alloc, wallet, decision, review>>
       ELSE HandleExistingPayment(c)

AcceptPayment(c) ==
  /\ req[c] # "idle"
  /\ \/ AcceptUnmatched(c)
     \/ \E x \in Targets :
          /\ ReferenceTargets(c.ref) = {x}
          /\ \/ x \in Orders /\ (ReviewOrderPayment(c, x) \/ AcceptOrderPayment(c, x)
                                                          \/ AcceptOrderShort(c, x))
             \/ x \in Topups /\ (ReviewTopupPayment(c, x) \/ AcceptWalletTopupPayment(c, x))
             \/ AcceptRaced(c, x)
  /\ UNCHANGED lapsed

\* The transaction fails or its process dies before the commit.
Rollback(r) ==
  /\ req[r] # "idle"
  /\ req' = [req EXCEPT ![r] = "idle"]
  /\ UNCHANGED <<order, topup, lapsed, inv, pay, alloc, wallet, decision, review>>
-----------------------------------------------------------------------------
(* The wallet. *)

\* The service reads the time before the store locks the order.  A request from after the
\* deadline ends with ErrOrderExpired or as a duplicate, and changes nothing.
RequestWalletPayment(o) ==
  /\ Created(o) /\ o \notin lapsed /\ req[o] = "idle"
  /\ req' = [req EXCEPT ![o] = "fresh"]
  /\ UNCHANGED <<order, topup, lapsed, inv, pay, alloc, wallet, decision, review>>

PayOrderWithWalletDebitFirst(o) ==
  /\ req[o] = "fresh"
  /\ GetPaymentByProviderTransaction(o) = NoPayment
  /\ MarkOrderPaidGuarded(o)
  /\ Cardinality(Claimable(o)) < Qty[o]
  /\ Post(Owner[o], -Total[o], o)
  /\ req' = [req EXCEPT ![o] = "idle"]
  /\ UNCHANGED <<order, topup, lapsed, inv, pay, alloc, decision, review>>
\* A duplicate, a paid or expired order, a low balance or a short claim leave
\* everything as it was (Rollback).
PayOrderWithWallet(o) ==
  /\ req[o] = "fresh"
  /\ ClaimExactAvailableInventory(o)
  /\ InsertPayment(o, "confirmed", Reference[o], Total[o])
  /\ Post(Owner[o], -Total[o], o)
  /\ MarkOrderPaidGuarded(o)
  /\ UpdateOrderStatusGuarded(o, "delivering")
  /\ InsertPaymentAllocation(o, o)
  /\ req' = [req EXCEPT ![o] = "idle"]
  /\ UNCHANGED <<topup, lapsed, decision, review>>

AdjustWallet(u, amount) ==
  /\ Len(ledger[u]) < LedgerBound
  /\ Post(u, amount, "adjustment")
  /\ UNCHANGED <<order, topup, lapsed, inv, pay, alloc, decision, review, req>>
-----------------------------------------------------------------------------
(* Administration: review cases and stock. *)

ResolvePaymentReview(c, status) ==
  /\ c \in ListOpenPaymentReviews
  /\ review' = [review EXCEPT ![c].status = status]
  /\ UNCHANGED <<order, topup, lapsed, inv, pay, alloc, wallet, decision, req>>

InsertEncryptedInventoryItem(i) ==
  /\ inv[i] = "absent"
  /\ inv' = [inv EXCEPT ![i] = "available"]
DisableAvailableInventoryItem(i) ==
  /\ inv[i] = "available"
  /\ inv' = [inv EXCEPT ![i] = "disabled"]
EnableDisabledInventoryItem(i) ==
  /\ inv[i] = "disabled"
  /\ inv' = [inv EXCEPT ![i] = "available"]

ImportInventory(i) ==
  /\ InsertEncryptedInventoryItem(i)
  /\ UNCHANGED <<order, topup, lapsed, pay, alloc, wallet, decision, review, req>>

SetInventoryItemEnabled(i) ==
  /\ DisableAvailableInventoryItem(i) \/ EnableDisabledInventoryItem(i)
  /\ UNCHANGED <<order, topup, lapsed, pay, alloc, wallet, decision, review, req>>

Next ==
  \/ \E o \in Orders : \/ CreateOrder(o) \/ Cancel(o)
                       \/ RequestWalletPayment(o) \/ PayOrderWithWallet(o)
  \/ \E t \in Topups : CreateWalletTopup(t)
  \/ \E x \in Targets : Lapse(x)
  \/ ExpireOverdueOrders
  \/ \E c \in Commands : \/ CompleteIgnoredPaymentEvent(c)
                         \/ LookupPayment(c) \/ AcceptPayment(c)
  \/ \E r \in Commands \cup Orders : Rollback(r)
  \/ \E u \in Users, amount \in Adjustments : AdjustWallet(u, amount)
  \/ \E c \in Commands, s \in Resolutions : ResolvePaymentReview(c, s)
  \/ \E i \in Items : ImportInventory(i) \/ SetInventoryItemEnabled(i)

Spec == Init /\ [][Next]_vars
-----------------------------------------------------------------------------
(* Properties *)

LedgerEntry == [amount : Int, after : Nat, ref : Transactions \cup {"adjustment"}]
Payment == [status : {"confirmed", "review"},
            ref : {c.ref : c \in Commands} \cup {Reference[o] : o \in Orders},
            amount : Nat \ {0}]

\* Every variable has the values its column may hold.
TypeOK ==
  /\ order \in [Orders -> OrderStatus]
  /\ topup \in [Topups -> TopupStatus]
  /\ lapsed \subseteq Targets
  /\ inv \in [Items -> {"absent", "available", "disabled"} \cup Orders]
  /\ pay \in [Transactions -> Payment \cup {NoPayment}]
  /\ alloc \in [Transactions -> Targets \cup {NoTarget}]
  /\ balance \in [Users -> Nat]
  /\ ledger \in [Users -> Seq(LedgerEntry)]
  /\ decision \in [Commands -> {"processing", "completed", "review"}]
  /\ review \in [Commands -> [reason : Reasons, status : {"open", "held", "resolved"},
                              linked : BOOLEAN] \cup {NoCase}]
  /\ req \in [Commands \cup Orders -> {"idle", "fresh", "late"}]

\* The cached balance of a wallet is what its ledger explains: each entry carries
\* the balance after it, and the last of them is the balance
\* (wallet_balance_mismatches in GetFinancialReconciliation is zero).
LedgerExplainsBalance ==
  \A u \in Users :
    LET entries == ledger[u]
        before(k) == IF k = 1 THEN 0 ELSE entries[k - 1].after
    IN /\ \A k \in 1..Len(entries) : entries[k].after = before(k) + entries[k].amount
       /\ balance[u] = before(Len(entries) + 1)

\* An order is on its way to the customer exactly when one confirmed payment of
\* its full amount is allocated to it, whichever of provider, operator and wallet
\* came first, and it then holds exactly the items it ordered; no other order has
\* money or items: nothing is oversold and nothing leaks.
FundedOnce ==
  \A o \in Orders :
    LET funds == {x \in Transactions : alloc[x] = o}
        items == ListReservedInventoryIDsByOrder(o)
    IN IF order[o] = "delivering"
         THEN /\ \E x \in Transactions : /\ funds = {x}
                                         /\ pay[x].status = "confirmed"
                                         /\ pay[x].amount = Total[o]
              /\ Cardinality(items) = Qty[o] /\ \A i \in items : Product[i] = Product[o]
         ELSE funds = {} /\ items = {}

\* Ledger and payments agree entry by entry: every entry that is not an adjustment
\* belongs to one allocated payment, a credit to the payment of a top-up and a debit
\* to the wallet payment of an order, no payment has two entries, and a top-up is
\* credited exactly when one payment is allocated to it and in its owner's ledger.
EntriesMatchPayments ==
  /\ \A u \in Users : \A k \in 1..Len(ledger[u]) :
       LET e == ledger[u][k]
       IN e.ref # "adjustment" =>
            /\ alloc[e.ref] \in Targets /\ Owner[alloc[e.ref]] = u
            /\ e.amount = IF e.ref \in Orders THEN -pay[e.ref].amount ELSE pay[e.ref].amount
            /\ e.ref \in Orders \/ alloc[e.ref] \in Topups
            /\ \A j \in 1..Len(ledger[u]) : ledger[u][j].ref = e.ref => j = k
  /\ \A t \in Topups :
       LET funds == {x \in Transactions : alloc[x] = t}
       IN IF topup[t] = "credited"
            THEN \E x \in Transactions :
                   /\ funds = {x}
                   /\ \E k \in 1..Len(ledger[Owner[t]]) : /\ ledger[Owner[t]][k].ref = x
                                                           /\ ledger[Owner[t]][k].amount = Total[t]
            ELSE funds = {}

\* No evidence of money is lost: an inbound transfer that was completed funds a
\* target, what was decided as review has a case, and a payment that funds nothing
\* is linked to the case of some command.
MoneyIsAccounted ==
  /\ \A c \in Commands :
       /\ decision[c] = "completed" /\ c.direction = "inbound" => alloc[c.txn] # NoTarget
       /\ (decision[c] = "review") <=> (review[c] # NoCase)
  /\ \A x \in Transactions :
       /\ alloc[x] # NoTarget => pay[x].status = "confirmed"
       /\ pay[x] # NoPayment /\ alloc[x] = NoTarget =>
            \E c \in Commands : c.txn = x /\ review[c].linked

\* The sum of the entries of a wallet (SumWalletLedger).
SumWalletLedger(u) ==
  LET sum[k \in 0..Len(ledger[u])] == IF k = 0 THEN 0 ELSE sum[k - 1] + ledger[u][k].amount
  IN sum[Len(ledger[u])]

\* The financial report, each counter as the set of the rows it counts.
GetFinancialReconciliation ==
  [completed_events_without_payment |->
     {c \in Commands : c.event /\ decision[c] = "completed" /\ pay[c.txn] = NoPayment},
   confirmed_payments_without_outcome |->
     {x \in Transactions : /\ pay[x].status = "confirmed" /\ alloc[x] = NoTarget
                           /\ ~\E c \in ListOpenPaymentReviews : c.txn = x /\ review[c].linked},
   wallet_balance_mismatches |-> {u \in Users : balance[u] # SumWalletLedger(u)},
   reservation_count_mismatches |->
     {o \in Orders : /\ order[o] = "reserving"
                     /\ Cardinality(ListReservedInventoryIDsByOrder(o)) # Qty[o]},
   review_cases_without_reason |-> {c \in Commands : review[c].reason = ""}]

\* Whatever the interleaving, the financial report counts no money the code lost
\* (GetFinancialReconciliation).  Two of its counters may rise: an outbound transfer
\* is completed without a payment (internal/app/payment_event_job.go:70-75), and a
\* confirmed payment has no outcome once an operator has resolved its review case.
ReportIsExplained ==
  LET report == GetFinancialReconciliation
  IN /\ \A c \in report.completed_events_without_payment : c.direction = "outbound"
     /\ report.wallet_balance_mismatches = {}
     /\ report.reservation_count_mismatches = {}
     /\ report.review_cases_without_reason = {}
     /\ \A x \in report.confirmed_payments_without_outcome :
          \E c \in Commands : c.txn = x /\ review[c].status = "resolved"

\* "A clean report contains zero for every counter"
\* (docs/design/payment-reconciliation.md:42).  The code does not keep this: an
\* operator who resolves the out_of_stock review of a payment leaves it without an
\* allocation and without an open case.
ConfirmedHaveOutcome == GetFinancialReconciliation.confirmed_payments_without_outcome = {}

\* What an order is to the customer.
Stage(o) ==
  CASE order[o] = "none" -> "none"
    [] order[o] = "pending_payment" -> "open"
    [] order[o] = "delivering" -> "sold"
    [] OTHER -> "given_up"

Shelf(i) == IF inv[i] \in Orders THEN inv[i] ELSE IF inv[i] = "available" THEN "on" ELSE "off"

Promise == INSTANCE Sales WITH
  Transfers <- Transactions \ Orders,
  stage <- [o \in Orders |-> Stage(o)],
  credited <- {t \in Topups : topup[t] = "credited"},
  used <- {x \in Transactions \ Orders : alloc[x] # NoTarget},
  shelf <- [i \in Items |-> Shelf(i)],
  purse <- balance

\* Settlement implements Sales: under every interleaving of provider, operator,
\* wallet, expiry and cancellation, goods and money change hands in single steps,
\* the full price for the full quantity, and each transfer is used once.
KeepsThePromise == Promise!Spec

\* A payment record, an allocation and a ledger entry are never rewritten.
EvidenceIsFinal ==
  [][/\ \A x \in Transactions : /\ pay[x] # NoPayment => pay'[x] = pay[x]
                                /\ alloc[x] # NoTarget => alloc'[x] = alloc[x]
     /\ \A u \in Users : /\ Len(ledger'[u]) >= Len(ledger[u])
                         /\ \A k \in 1..Len(ledger[u]) : ledger'[u][k] = ledger[u][k]]_vars
=============================================================================
