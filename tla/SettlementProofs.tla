-------------------------- MODULE SettlementProofs --------------------------
(***************************************************************************)
(* Proofs about Settlement, for any orders, top-ups, users and items, any  *)
(* prices and quantities, and any set of evidence that satisfies the       *)
(* assumptions, the bound on adjustments included.                         *)
(*                                                                         *)
(* The inductive invariant (SettlementInv) is the conjunction of the types *)
(* and four invariants.  Its key is that a transaction without a payment   *)
(* funds nothing: the insert of the payment, which fails when the row      *)
(* exists, is the only guard between a transfer and a second purchase.     *)
(*                                                                         *)
(* The steps are grouped by what they touch: quiet steps (no money and no  *)
(* goods move), evidence that ends in a case, evidence about a known       *)
(* payment, the two sales, the credit of a top-up, and administration.     *)
(***************************************************************************)
EXTENDS Settlement, TLAPS

USE SettlementAssumption, CommandAssumption DEF Targets, Transactions, wallet

PaymentRefs == {c.ref : c \in Commands} \cup {Reference[o] : o \in Orders}
Cases == [reason : Reasons, status : {"open", "held", "resolved"}, linked : BOOLEAN]

-----------------------------------------------------------------------------
(* What the queries write has the type of its column. *)

\* A command has a transaction of its own, never that of a wallet payment.
LEMMA TransactionOfCommand ==
  ASSUME NEW c \in Commands
  PROVE  c.txn \in Transactions /\ c.txn \notin Orders /\ c.txn # "adjustment"
OBVIOUS

\* The assumptions about the targets, in the form the proofs use.
LEMMA TargetFacts ==
  /\ \A x \in Targets : Owner[x] \in Users /\ Total[x] \in Nat \ {0} /\ -Total[x] \in Int
  /\ \A o \in Orders : o \in Targets /\ o \in Transactions /\ o \notin Topups /\ o # "adjustment"
  /\ \A t \in Topups : t \in Targets /\ t \notin Orders
OBVIOUS

\* A case is not the absence of one, and has a reason.
LEMMA CaseRecord == ASSUME NEW r \in Cases PROVE r # NoCase /\ r.status # "none" /\ r.reason # ""
<1>1. r.reason \in Reasons /\ r.status \in {"open", "held", "resolved"}
  BY DEF Cases
<1>2. "" \notin Reasons
  BY Zenon DEF Reasons
<1>3. r.reason # ""
  BY <1>1, <1>2, Zenon
<1>4. r.status # "none"
  BY <1>1
<1>5. NoCase.status = "none"
  BY DEF NoCase
<1> QED BY <1>3, <1>4, <1>5, Zenon

\* What is wrong with a payment is a reason of the review queue.
LEMMA OrderReasonType ==
  ASSUME NEW o, NEW c, OrderReviewReason(o, c) # "" PROVE OrderReviewReason(o, c) \in Reasons
BY DEF OrderReviewReason, Reasons

\* The reason to review a payment of a top-up is one of the reasons.
LEMMA TopupReasonType ==
  ASSUME NEW t, NEW c, TopupReviewReason(t, c) # "" PROVE TopupReviewReason(t, c) \in Reasons
BY DEF TopupReviewReason, Reasons

\* The payment of a command is stored for a transaction that had none.
LEMMA InsertPaymentType ==
  ASSUME TypeOK, NEW x \in Transactions, NEW status \in {"confirmed", "review"},
         NEW ref \in PaymentRefs,
         NEW amount \in Nat \ {0}, InsertPayment(x, status, ref, amount)
  PROVE  /\ pay' \in [Transactions -> Payment \cup {NoPayment}]
         /\ pay[x] = NoPayment
         /\ pay'[x] \in Payment
         /\ pay'[x].status = status /\ pay'[x].ref = ref /\ pay'[x].amount = amount
         /\ \A y \in Transactions \ {x} : pay'[y] = pay[y]
<1> DEFINE p == [status |-> status, ref |-> ref, amount |-> amount]
<1>1. p \in Payment /\ p.status = status /\ p.ref = ref /\ p.amount = amount
  BY DEF Payment, PaymentRefs
<1>2. pay' = [pay EXCEPT ![x] = p] /\ pay[x] = NoPayment
  BY DEF InsertPayment
<1>3. pay \in [Transactions -> Payment \cup {NoPayment}]
  BY DEF TypeOK
<1> HIDE DEF p, Transactions
<1> QED BY <1>1, <1>2, <1>3

\* The same for the payment of a command.
LEMMA CommandPaymentType ==
  ASSUME TypeOK, NEW c \in Commands, NEW status \in {"confirmed", "review"},
         InsertPayment(c.txn, status, c.ref, c.amount)
  PROVE  /\ pay' \in [Transactions -> Payment \cup {NoPayment}]
         /\ pay[c.txn] = NoPayment
         /\ pay'[c.txn].status = status /\ pay'[c.txn].amount = c.amount
         /\ \A y \in Transactions \ {c.txn} : pay'[y] = pay[y]
<1>1. c.txn \in Transactions /\ c.ref \in PaymentRefs /\ c.amount \in Nat \ {0}
  BY DEF PaymentRefs
<1> HIDE DEF Transactions
<1> QED BY <1>1, InsertPaymentType

\* One transaction is allocated, the others stay as they are.
LEMMA AllocationType ==
  ASSUME TypeOK, NEW x \in Transactions, NEW target \in Targets, InsertPaymentAllocation(x, target)
  PROVE  /\ alloc' \in [Transactions -> Targets \cup {NoTarget}]
         /\ alloc'[x] = target
         /\ \A y \in Transactions \ {x} : alloc'[y] = alloc[y]
<1> HIDE DEF Transactions, Targets
<1> QED BY DEF TypeOK, InsertPaymentAllocation

\* A decided command was being processed, and its request is closed.
LEMMA DecideType ==
  ASSUME TypeOK, NEW c \in Commands, NEW d \in {"completed", "review"}, Decide(c, d)
  PROVE  /\ decision[c] = "processing" /\ decision'[c] = d
         /\ \A b \in Commands \ {c} : decision'[b] = decision[b]
         /\ decision' \in [Commands -> {"processing", "completed", "review"}]
         /\ req' \in [Commands \cup Orders -> {"idle", "fresh", "late"}]
BY DEF Decide, CompletePaymentEvent, TypeOK

\* A case is opened for a command that was being processed.
LEMMA RecordReviewType ==
  ASSUME TypeOK, NEW c \in Commands, NEW reason \in Reasons, NEW linked \in BOOLEAN,
         RecordReview(c, reason, linked)
  PROVE  /\ decision[c] = "processing" /\ decision'[c] = "review"
         /\ \A b \in Commands \ {c} : decision'[b] = decision[b] /\ review'[b] = review[b]
         /\ decision' \in [Commands -> {"processing", "completed", "review"}]
         /\ req' \in [Commands \cup Orders -> {"idle", "fresh", "late"}]
         /\ review' \in [Commands -> Cases \cup {NoCase}]
         /\ review'[c] \in Cases /\ review'[c].linked = linked
<1> DEFINE r == [reason |-> reason, status |-> "open", linked |-> linked]
<1>1. r \in Cases /\ r.linked = linked
  BY DEF Cases
<1>2. review' = [review EXCEPT ![c] = r]
  BY DEF RecordReview, InsertPaymentReviewCase
<1>3. review \in [Commands -> Cases \cup {NoCase}]
  BY DEF TypeOK, Cases
<1>4. Decide(c, "review")
  BY DEF RecordReview
<1>5. /\ review' \in [Commands -> Cases \cup {NoCase}]
      /\ review'[c] = r /\ \A b \in Commands \ {c} : review'[b] = review[b]
  <2> HIDE DEF r
  <2> QED BY <1>1, <1>2, <1>3
<1> QED BY <1>1, <1>4, <1>5, DecideType

\* A posting moves one wallet and appends its entry.
LEMMA PostType ==
  ASSUME TypeOK, NEW u \in Users, NEW amount \in Int,
         NEW ref \in Transactions \cup {"adjustment"}, Post(u, amount, ref)
  PROVE  /\ balance' \in [Users -> Nat]
         /\ balance'[u] = balance[u] + amount
         /\ \A v \in Users \ {u} : balance'[v] = balance[v] /\ ledger'[v] = ledger[v]
         /\ ledger' \in [Users -> Seq(LedgerEntry)]
         /\ Len(ledger'[u]) = Len(ledger[u]) + 1
         /\ \A k \in 1..Len(ledger[u]) : ledger'[u][k] = ledger[u][k]
         /\ ledger'[u][Len(ledger[u]) + 1].amount = amount
         /\ ledger'[u][Len(ledger[u]) + 1].after = balance[u] + amount
         /\ ledger'[u][Len(ledger[u]) + 1].ref = ref
<1> DEFINE e == [amount |-> amount, after |-> balance[u] + amount, ref |-> ref]
<1>1. balance \in [Users -> Nat] /\ ledger \in [Users -> Seq(LedgerEntry)]
  BY DEF TypeOK
<1>2. balance[u] + amount \in Nat
  BY <1>1 DEF Post, UpdateWalletBalance
<1>3. e \in LedgerEntry /\ e.amount = amount /\ e.after = balance[u] + amount /\ e.ref = ref
  BY <1>2 DEF LedgerEntry
<1>4. balance' = [balance EXCEPT ![u] = balance[u] + amount]
      /\ ledger' = [ledger EXCEPT ![u] = Append(ledger[u], e)]
  BY DEF Post, UpdateWalletBalance, InsertWalletLedgerEntry
<1> HIDE DEF e
<1>5. /\ Append(ledger[u], e) \in Seq(LedgerEntry)
      /\ Len(Append(ledger[u], e)) = Len(ledger[u]) + 1
      /\ \A k \in 1..Len(ledger[u]) : Append(ledger[u], e)[k] = ledger[u][k]
      /\ Append(ledger[u], e)[Len(ledger[u]) + 1] = e
  BY <1>1, <1>3
<1> HIDE DEF Transactions
<1> QED BY <1>1, <1>2, <1>3, <1>4, <1>5

\* The exact claim takes items that were available, as many as the order has.
LEMMA ClaimType ==
  ASSUME TypeOK, NEW o \in Orders, ClaimExactAvailableInventory(o)
  PROVE  \E S \in SUBSET Claimable(o) :
           /\ Cardinality(S) = Qty[o]
           /\ inv' = [i \in Items |-> IF i \in S THEN o ELSE inv[i]]
           /\ inv' \in [Items -> {"absent", "available", "disabled"} \cup Orders]
<1>1. PICK S \in SUBSET Claimable(o) :
        Cardinality(S) = Qty[o] /\ inv' = [i \in Items |-> IF i \in S THEN o ELSE inv[i]]
  BY DEF ClaimExactAvailableInventory
<1>2. inv' \in [Items -> {"absent", "available", "disabled"} \cup Orders]
  BY <1>1 DEF TypeOK
<1> QED BY <1>1, <1>2

-----------------------------------------------------------------------------
(* The steps, grouped by what they touch. *)

\* A request is opened, dropped or abandoned, a payment window ends, a customer
\* opens or cancels, the expiry job runs: no money and no goods move.
QuietStep ==
  \/ \E o \in Orders : CreateOrder(o) \/ Cancel(o) \/ RequestWalletPayment(o)
  \/ \E t \in Topups : CreateWalletTopup(t)
  \/ \E x \in Targets : Lapse(x)
  \/ ExpireOverdueOrders
  \/ \E r \in Commands \cup Orders, v \in {"idle", "fresh", "late"} :
        /\ req' = [req EXCEPT ![r] = v]
        /\ UNCHANGED <<order, topup, lapsed, inv, pay, alloc, wallet, decision, review>>

\* The next-state relation with the two steps of an acceptance unfolded.
StepCases ==
  \/ QuietStep
  \/ \E c \in Commands : CompleteIgnoredPaymentEvent(c)
  \/ \E o \in Orders : PayOrderWithWallet(o)
  \/ \E c \in Commands :
       /\ \/ HandleExistingPayment(c) \/ AcceptUnmatched(c)
          \/ \E o \in Orders : \/ ReviewOrderPayment(c, o) \/ AcceptOrderPayment(c, o)
                               \/ AcceptOrderShort(c, o)
          \/ \E t \in Topups : ReviewTopupPayment(c, t) \/ AcceptWalletTopupPayment(c, t)
       /\ UNCHANGED lapsed
  \/ \E u \in Users, amount \in Adjustments : AdjustWallet(u, amount)
  \/ \E c \in Commands, s \in Resolutions : ResolvePaymentReview(c, s)
  \/ \E i \in Items : ImportInventory(i) \/ SetInventoryItemEnabled(i)

\* Every step is one of the cases.
LEMMA NextIsOneOfTheCases == ASSUME Next PROVE StepCases
<1>1. ASSUME NEW c \in Commands, LookupPayment(c) PROVE StepCases
  <2>1. CASE HandleExistingPayment(c)
    BY <1>1, <2>1 DEF LookupPayment, StepCases
  <2>2. CASE ~HandleExistingPayment(c)
    <3>1. PICK v \in {"fresh", "late"} : req' = [req EXCEPT ![c] = v]
      BY <1>1, <2>2 DEF LookupPayment
    <3>2. UNCHANGED <<order, topup, lapsed, inv, pay, alloc, wallet, decision, review>>
      BY <1>1, <2>2 DEF LookupPayment
    <3> QED BY <3>1, <3>2 DEF StepCases, QuietStep
  <2> QED BY <2>1, <2>2
<1>2. ASSUME NEW c \in Commands, AcceptPayment(c) PROVE StepCases
  <2>1. UNCHANGED lapsed
    BY <1>2 DEF AcceptPayment
  <2>2. CASE AcceptUnmatched(c)
    BY <2>1, <2>2 DEF StepCases
  <2>3. CASE ~AcceptUnmatched(c)
    <3>1. PICK x \in Targets :
            \/ x \in Orders /\ (ReviewOrderPayment(c, x) \/ AcceptOrderPayment(c, x)
                                                         \/ AcceptOrderShort(c, x))
            \/ x \in Topups /\ (ReviewTopupPayment(c, x) \/ AcceptWalletTopupPayment(c, x))
            \/ AcceptRaced(c, x)
      BY <1>2, <2>3 DEF AcceptPayment
    <3>2. CASE AcceptRaced(c, x)
      <4>1. CASE HandleExistingPayment(c)
        BY <2>1, <4>1 DEF StepCases
      <4>2. CASE ~HandleExistingPayment(c)
        BY <2>1, <3>2, <4>2 DEF StepCases, QuietStep, AcceptRaced
      <4> QED BY <4>1, <4>2
    <3>3. CASE ~AcceptRaced(c, x)
      BY <2>1, <3>1, <3>3 DEF StepCases
    <3> QED BY <3>2, <3>3
  <2> QED BY <2>2, <2>3
<1>3. ASSUME NEW r \in Commands \cup Orders, Rollback(r) PROVE StepCases
  BY <1>3 DEF Rollback, StepCases, QuietStep
<1>4. CASE \E o \in Orders : CreateOrder(o) \/ Cancel(o) \/ RequestWalletPayment(o)
  BY <1>4 DEF StepCases, QuietStep
<1>5. CASE \E t \in Topups : CreateWalletTopup(t)
  BY <1>5 DEF StepCases, QuietStep
<1>6. CASE ExpireOverdueOrders \/ \E x \in Targets : Lapse(x)
  BY <1>6 DEF StepCases, QuietStep
<1>7. CASE \/ \E c \in Commands : CompleteIgnoredPaymentEvent(c)
           \/ \E o \in Orders : PayOrderWithWallet(o)
           \/ \E u \in Users, amount \in Adjustments : AdjustWallet(u, amount)
           \/ \E c \in Commands, s \in Resolutions : ResolvePaymentReview(c, s)
           \/ \E i \in Items : ImportInventory(i) \/ SetInventoryItemEnabled(i)
  BY <1>7 DEF StepCases
<1> QED BY <1>1, <1>2, <1>3, <1>4, <1>5, <1>6, <1>7 DEF Next

\* What a quiet step leaves alone, and how far it moves orders and top-ups.
LEMMA QuietEffect ==
  ASSUME TypeOK, QuietStep
  PROVE  /\ UNCHANGED <<inv, pay, alloc, balance, ledger, decision, review>>
         /\ order' \in [Orders -> OrderStatus]
         /\ topup' \in [Topups -> TopupStatus]
         /\ \A o \in Orders : order'[o] = "delivering" <=> order[o] = "delivering"
         /\ \A t \in Topups : topup'[t] = "credited" <=> topup[t] = "credited"
         /\ lapsed' \subseteq Targets
         /\ req' \in [Commands \cup Orders -> {"idle", "fresh", "late"}]
<1> USE DEF TypeOK, OrderStatus, TopupStatus
<1>1. CASE \E o \in Orders : CreateOrder(o)
  BY <1>1 DEF CreateOrder
<1>2. CASE \E o \in Orders : Cancel(o)
  BY <1>2 DEF Cancel, CancelPendingOrderOwnedGuarded
<1>3. CASE \E o \in Orders : RequestWalletPayment(o)
  BY <1>3 DEF RequestWalletPayment
<1>4. CASE \E t \in Topups : CreateWalletTopup(t)
  BY <1>4 DEF CreateWalletTopup
<1>5. CASE \E x \in Targets : Lapse(x)
  BY <1>5 DEF Lapse
<1>6. CASE ExpireOverdueOrders
  BY <1>6 DEF ExpireOverdueOrders, ClaimOverduePendingOrders
<1>7. CASE \E r \in Commands \cup Orders, v \in {"idle", "fresh", "late"} :
             /\ req' = [req EXCEPT ![r] = v]
             /\ UNCHANGED <<order, topup, lapsed, inv, pay, alloc, wallet, decision, review>>
  BY <1>7
<1> QED BY <1>1, <1>2, <1>3, <1>4, <1>5, <1>6, <1>7 DEF QuietStep

-----------------------------------------------------------------------------
(* Types *)

\* The first states are well typed.
LEMMA InitType == Init => TypeOK
BY DEF Init, TypeOK, OrderStatus, TopupStatus

\* Evidence that ends in a review case.
LEMMA ReviewKeepsType ==
  ASSUME TypeOK, NEW c \in Commands, UNCHANGED lapsed,
         \/ AcceptUnmatched(c)
         \/ \E o \in Orders : ReviewOrderPayment(c, o) \/ AcceptOrderShort(c, o)
         \/ \E t \in Topups : ReviewTopupPayment(c, t)
  PROVE  TypeOK'
<1>1. CASE AcceptUnmatched(c)
  <2>1. PICK reason \in Reasons : RecordReview(c, reason, FALSE)
    BY <1>1 DEF AcceptUnmatched, Reasons
  <2>2. /\ decision' \in [Commands -> {"processing", "completed", "review"}]
        /\ req' \in [Commands \cup Orders -> {"idle", "fresh", "late"}]
        /\ review' \in [Commands -> Cases \cup {NoCase}]
    BY <2>1, RecordReviewType
  <2> QED BY <1>1, <2>2 DEF TypeOK, AcceptUnmatched, Cases
<1>2. ASSUME NEW o \in Orders, ReviewOrderPayment(c, o) PROVE TypeOK'
  <2>1. RecordReview(c, OrderReviewReason(o, c), TRUE) /\ OrderReviewReason(o, c) \in Reasons
    BY <1>2, OrderReasonType DEF ReviewOrderPayment
  <2>2. InsertPayment(c.txn, "review", c.ref, c.amount)
    BY <1>2 DEF ReviewOrderPayment
  <2>3. pay' \in [Transactions -> Payment \cup {NoPayment}]
    BY <2>2, CommandPaymentType
  <2> QED BY <1>2, <2>1, <2>3, RecordReviewType DEF TypeOK, ReviewOrderPayment, Cases
<1>3. ASSUME NEW o \in Orders, AcceptOrderShort(c, o) PROVE TypeOK'
  <2>1. RecordReview(c, "out_of_stock", TRUE) /\ "out_of_stock" \in Reasons
    BY <1>3 DEF AcceptOrderShort, Reasons
  <2>2. InsertPayment(c.txn, "confirmed", c.ref, c.amount)
    BY <1>3 DEF AcceptOrderShort
  <2>3. pay' \in [Transactions -> Payment \cup {NoPayment}]
    BY <2>2, CommandPaymentType
  <2>4. order' \in [Orders -> OrderStatus]
    BY <1>3 DEF AcceptOrderShort, UpdateOrderStatusGuarded, TypeOK, OrderStatus
  <2> QED BY <1>3, <2>1, <2>3, <2>4, RecordReviewType DEF TypeOK, AcceptOrderShort, Cases
<1>4. ASSUME NEW t \in Topups, ReviewTopupPayment(c, t) PROVE TypeOK'
  <2>1. RecordReview(c, TopupReviewReason(t, c), TRUE) /\ TopupReviewReason(t, c) \in Reasons
    BY <1>4, TopupReasonType DEF ReviewTopupPayment
  <2>2. InsertPayment(c.txn, "review", c.ref, c.amount)
    BY <1>4 DEF ReviewTopupPayment
  <2>3. pay' \in [Transactions -> Payment \cup {NoPayment}]
    BY <2>2, CommandPaymentType
  <2>4. topup' \in [Topups -> TopupStatus]
    BY <1>4 DEF ReviewTopupPayment, MarkWalletTopupReview, TypeOK, TopupStatus
  <2> QED BY <1>4, <2>1, <2>3, <2>4, RecordReviewType DEF TypeOK, ReviewTopupPayment, Cases
<1> QED BY <1>1, <1>2, <1>3, <1>4

\* Evidence about a transaction that has a payment.
LEMMA ExistingKeepsType ==
  ASSUME TypeOK, NEW c \in Commands, UNCHANGED lapsed, HandleExistingPayment(c)
  PROVE  TypeOK'
<1>1. CASE \E reason \in Reasons : RecordReview(c, reason, TRUE)
  BY <1>1, RecordReviewType DEF TypeOK, HandleExistingPayment, Cases
<1>2. CASE Decide(c, "completed") /\ UNCHANGED review
  BY <1>2, DecideType DEF TypeOK, HandleExistingPayment
<1>3. "transaction_conflict" \in Reasons /\ "duplicate_unallocated" \in Reasons
  BY DEF Reasons
<1> QED BY <1>1, <1>2, <1>3 DEF HandleExistingPayment

\* An order or a top-up is paid.
LEMMA SaleKeepsType ==
  ASSUME TypeOK,
         \/ \E c \in Commands, o \in Orders : AcceptOrderPayment(c, o) /\ UNCHANGED lapsed
         \/ \E c \in Commands, t \in Topups : AcceptWalletTopupPayment(c, t) /\ UNCHANGED lapsed
         \/ \E o \in Orders : PayOrderWithWallet(o)
  PROVE  TypeOK'
<1>1. ASSUME NEW c \in Commands, NEW o \in Orders, AcceptOrderPayment(c, o), UNCHANGED lapsed
      PROVE  TypeOK'
  <2>1. pay' \in [Transactions -> Payment \cup {NoPayment}]
    BY <1>1, CommandPaymentType DEF AcceptOrderPayment
  <2>2. alloc' \in [Transactions -> Targets \cup {NoTarget}]
    BY <1>1, AllocationType DEF AcceptOrderPayment
  <2>3. inv' \in [Items -> {"absent", "available", "disabled"} \cup Orders]
    BY <1>1, ClaimType DEF AcceptOrderPayment
  <2>4. order' \in [Orders -> OrderStatus]
    BY <1>1 DEF AcceptOrderPayment, UpdateOrderStatusGuarded, TypeOK, OrderStatus
  <2>5. Decide(c, "completed")
    BY <1>1 DEF AcceptOrderPayment
  <2> QED BY <1>1, <2>1, <2>2, <2>3, <2>4, <2>5, DecideType DEF TypeOK, AcceptOrderPayment
<1>2. ASSUME NEW c \in Commands, NEW t \in Topups, AcceptWalletTopupPayment(c, t), UNCHANGED lapsed
      PROVE  TypeOK'
  <2>1. pay' \in [Transactions -> Payment \cup {NoPayment}]
    BY <1>2, CommandPaymentType DEF AcceptWalletTopupPayment
  <2>2. alloc' \in [Transactions -> Targets \cup {NoTarget}]
    BY <1>2, AllocationType DEF AcceptWalletTopupPayment
  <2>3. topup' \in [Topups -> TopupStatus]
    BY <1>2 DEF AcceptWalletTopupPayment, MarkWalletTopupCredited, TypeOK, TopupStatus
  <2>4. Post(Owner[t], c.amount, c.txn)
    BY <1>2 DEF AcceptWalletTopupPayment
  <2>5. balance' \in [Users -> Nat] /\ ledger' \in [Users -> Seq(LedgerEntry)]
    BY <2>4, PostType, TransactionOfCommand, TargetFacts
  <2>6. Decide(c, "completed")
    BY <1>2 DEF AcceptWalletTopupPayment
  <2> QED BY <1>2, <2>1, <2>2, <2>3, <2>5, <2>6, DecideType DEF TypeOK, AcceptWalletTopupPayment
<1>3. ASSUME NEW o \in Orders, PayOrderWithWallet(o) PROVE TypeOK'
  <2>0. InsertPayment(o, "confirmed", Reference[o], Total[o])
    BY <1>3 DEF PayOrderWithWallet
  <2>1. pay' \in [Transactions -> Payment \cup {NoPayment}]
    <3>1. o \in Transactions /\ Reference[o] \in PaymentRefs /\ Total[o] \in Nat \ {0}
      BY TargetFacts DEF PaymentRefs
    <3> HIDE DEF Transactions
    <3> QED BY <2>0, <3>1, InsertPaymentType
  <2>2. alloc' \in [Transactions -> Targets \cup {NoTarget}]
    BY <1>3, AllocationType DEF PayOrderWithWallet
  <2>3. inv' \in [Items -> {"absent", "available", "disabled"} \cup Orders]
    BY <1>3, ClaimType DEF PayOrderWithWallet
  <2>4. order' \in [Orders -> OrderStatus]
    BY <1>3 DEF PayOrderWithWallet, UpdateOrderStatusGuarded, TypeOK, OrderStatus
  <2>5. Post(Owner[o], -Total[o], o)
    BY <1>3 DEF PayOrderWithWallet
  <2>6. balance' \in [Users -> Nat] /\ ledger' \in [Users -> Seq(LedgerEntry)]
    BY <2>5, PostType, TargetFacts
  <2>7. req' \in [Commands \cup Orders -> {"idle", "fresh", "late"}]
    BY <1>3 DEF PayOrderWithWallet, TypeOK
  <2> QED BY <1>3, <2>1, <2>2, <2>3, <2>4, <2>6, <2>7 DEF TypeOK, PayOrderWithWallet
<1> QED BY <1>1, <1>2, <1>3

\* Adjustments, the resolution of cases and the administration of stock.
LEMMA AdminKeepsType ==
  ASSUME TypeOK,
         \/ \E u \in Users, amount \in Adjustments : AdjustWallet(u, amount)
         \/ \E c \in Commands, s \in Resolutions : ResolvePaymentReview(c, s)
         \/ \E i \in Items : ImportInventory(i) \/ SetInventoryItemEnabled(i)
  PROVE  TypeOK'
<1>1. ASSUME NEW u \in Users, NEW amount \in Adjustments, AdjustWallet(u, amount) PROVE TypeOK'
  <2>1. balance' \in [Users -> Nat] /\ ledger' \in [Users -> Seq(LedgerEntry)]
    BY <1>1, PostType DEF AdjustWallet
  <2> QED BY <1>1, <2>1 DEF AdjustWallet, TypeOK
<1>2. ASSUME NEW c \in Commands, NEW s \in Resolutions, ResolvePaymentReview(c, s) PROVE TypeOK'
  <2>1. review \in [Commands -> Cases \cup {NoCase}]
    BY DEF TypeOK, Cases
  <2>2. review[c] \in Cases
    BY <1>2, <2>1 DEF ResolvePaymentReview, ListOpenPaymentReviews, NoCase
  <2>3. [review[c] EXCEPT !.status = s] \in Cases
    BY <2>2 DEF Cases
  <2>4. review' = [review EXCEPT ![c] = [review[c] EXCEPT !.status = s]]
    BY <1>2 DEF ResolvePaymentReview
  <2>5. review' \in [Commands -> Cases \cup {NoCase}]
    BY <2>1, <2>3, <2>4
  <2> QED BY <1>2, <2>5 DEF ResolvePaymentReview, TypeOK, Cases
<1>3. ASSUME NEW i \in Items, ImportInventory(i) \/ SetInventoryItemEnabled(i) PROVE TypeOK'
  <2>1. \E v \in {"available", "disabled"} : inv' = [inv EXCEPT ![i] = v]
    BY <1>3 DEF ImportInventory, SetInventoryItemEnabled, InsertEncryptedInventoryItem,
                DisableAvailableInventoryItem, EnableDisabledInventoryItem
  <2>2. inv' \in [Items -> {"absent", "available", "disabled"} \cup Orders]
    BY <2>1 DEF TypeOK
  <2> QED BY <1>3, <2>2 DEF ImportInventory, SetInventoryItemEnabled, TypeOK
<1> QED BY <1>1, <1>2, <1>3

\* An outbound transfer that is completed keeps the types.
LEMMA IgnoredKeepsType ==
  ASSUME TypeOK, NEW c \in Commands, CompleteIgnoredPaymentEvent(c) PROVE TypeOK'
BY DEF TypeOK, CompleteIgnoredPaymentEvent, CompletePaymentEvent

\* Every step keeps the types.
LEMMA NextType == ASSUME TypeOK, [Next]_vars PROVE TypeOK'
<1>1. CASE UNCHANGED vars
  BY <1>1 DEF vars, TypeOK
<1>2. CASE Next
  <2>1. StepCases
    BY <1>2, NextIsOneOfTheCases
  <2>2. CASE QuietStep
    BY <2>2, QuietEffect DEF TypeOK
  <2> QED BY <2>1, <2>2, ReviewKeepsType, ExistingKeepsType, SaleKeepsType, AdminKeepsType,
             IgnoredKeepsType DEF StepCases
<1> QED BY <1>1, <1>2

\* Every column keeps its type, whatever the orders, top-ups, users, items and
\* evidence (TypeOK of run settlement).
THEOREM SettlementTypes == Spec => []TypeOK
BY InitType, NextType, PTL DEF Spec

-----------------------------------------------------------------------------
(* Money and goods *)

\* The inductive invariant.  No conjunct is inductive alone: that a transaction
\* without a payment is not allocated (MoneyIsAccounted) is what lets a new
\* payment be allocated without a second fund, a second entry or a rewritten row.
SettlementInv ==
  /\ TypeOK
  /\ FundedOnce
  /\ MoneyIsAccounted
  /\ LedgerExplainsBalance
  /\ EntriesMatchPayments

\* A transaction that has no payment funds nothing.
LEMMA UnpaidFundsNothing ==
  ASSUME MoneyIsAccounted, NEW x \in Transactions, pay[x] = NoPayment
  PROVE  alloc[x] = NoTarget
BY DEF MoneyIsAccounted, NoPayment

\* Steps that sell nothing keep what orders hold.
LEMMA FundsKept ==
  ASSUME FundedOnce,
         \A o \in Orders : order'[o] = "delivering" <=> order[o] = "delivering",
         \A i \in Items, o \in Orders : inv'[i] = o <=> inv[i] = o,
         \A x \in Transactions, o \in Orders : alloc'[x] = o <=> alloc[x] = o,
         \A x \in Transactions : alloc[x] \in Orders => pay'[x] = pay[x]
  PROVE  FundedOnce'
<1> SUFFICES ASSUME NEW o \in Orders
    PROVE IF order'[o] = "delivering"
            THEN /\ \E x \in Transactions : /\ {y \in Transactions : alloc'[y] = o} = {x}
                                            /\ pay'[x].status = "confirmed"
                                            /\ pay'[x].amount = Total[o]
                 /\ Cardinality({i \in Items : inv'[i] = o}) = Qty[o]
                 /\ \A i \in {j \in Items : inv'[j] = o} : Product[i] = Product[o]
            ELSE {y \in Transactions : alloc'[y] = o} = {} /\ {i \in Items : inv'[i] = o} = {}
  BY DEF FundedOnce, ListReservedInventoryIDsByOrder
<1> HIDE DEF Transactions
<1>1. {y \in Transactions : alloc'[y] = o} = {y \in Transactions : alloc[y] = o}
      /\ {i \in Items : inv'[i] = o} = {i \in Items : inv[i] = o}
  OBVIOUS
<1>2. CASE order'[o] = "delivering"
  <2>1. PICK x \in Transactions : /\ {y \in Transactions : alloc[y] = o} = {x}
                                  /\ pay[x].status = "confirmed"
                                  /\ pay[x].amount = Total[o]
    BY <1>2 DEF FundedOnce
  <2>2. pay'[x] = pay[x]
    BY <2>1
  <2>3. /\ Cardinality({i \in Items : inv[i] = o}) = Qty[o]
        /\ \A i \in {j \in Items : inv[j] = o} : Product[i] = Product[o]
    BY <1>2 DEF FundedOnce, ListReservedInventoryIDsByOrder
  <2>4. \E y \in Transactions : /\ {z \in Transactions : alloc'[z] = o} = {y}
                                /\ pay'[y].status = "confirmed"
                                /\ pay'[y].amount = Total[o]
    BY <1>1, <2>1, <2>2
  <2> QED BY <1>1, <1>2, <2>3, <2>4
<1>3. CASE order'[o] # "delivering"
  BY <1>1, <1>3 DEF FundedOnce, ListReservedInventoryIDsByOrder
<1> QED BY <1>2, <1>3

\* A sale: an order that held nothing gets one payment and its items.
LEMMA FundsSold ==
  ASSUME TypeOK, FundedOnce, NEW o \in Orders, NEW x \in Transactions,
         MarkOrderPaidGuarded(o), UpdateOrderStatusGuarded(o, "delivering"),
         ClaimExactAvailableInventory(o),
         alloc[x] = NoTarget, InsertPaymentAllocation(x, o),
         pay'[x].status = "confirmed", pay'[x].amount = Total[o],
         \A y \in Transactions \ {x} : pay'[y] = pay[y]
  PROVE  FundedOnce'
<1> DEFINE Funds(p) == {y \in Transactions : alloc[y] = p}
           FundsNext(p) == {y \in Transactions : alloc'[y] = p}
           Held(p) == {i \in Items : inv[i] = p}
           HeldNext(p) == {i \in Items : inv'[i] = p}
<1>1. PICK S \in SUBSET Claimable(o) :
        /\ Cardinality(S) = Qty[o]
        /\ inv' = [i \in Items |-> IF i \in S THEN o ELSE inv[i]]
  BY DEF ClaimExactAvailableInventory
<1>2. \A i \in S : i \in Items /\ inv[i] = "available" /\ Product[i] = Product[o]
  BY DEF Claimable
<1>3. Funds(o) = {} /\ Held(o) = {}
  BY DEF FundedOnce, MarkOrderPaidGuarded, ListReservedInventoryIDsByOrder
<1>4. HeldNext(o) = S
  BY <1>1, <1>2, <1>3
<1>5. alloc'[x] = o /\ \A y \in Transactions \ {x} : alloc'[y] = alloc[y]
  BY AllocationType, TargetFacts
<1>6. FundsNext(o) = {x}
  BY <1>3, <1>5
<1>7. order'[o] = "delivering" /\ \A p \in Orders \ {o} : order'[p] = order[p]
  BY DEF UpdateOrderStatusGuarded, TypeOK
<1>8. ASSUME NEW p \in Orders \ {o} PROVE HeldNext(p) = Held(p) /\ FundsNext(p) = Funds(p)
  <2>1. HeldNext(p) = Held(p)
    BY <1>1, <1>2
  <2>2. NoTarget # p
    OBVIOUS
  <2>3. FundsNext(p) = Funds(p)
    BY <1>5, <2>2
  <2> QED BY <2>1, <2>3
<1>9. ASSUME NEW p \in Orders, NEW y \in Funds(p) PROVE pay'[y] = pay[y]
  <2>1. NoTarget # p
    OBVIOUS
  <2> QED BY <2>1
<1> DEFINE Sound(p) ==
      IF order'[p] = "delivering"
        THEN /\ \E y \in Transactions : /\ FundsNext(p) = {y}
                                        /\ pay'[y].status = "confirmed"
                                        /\ pay'[y].amount = Total[p]
             /\ Cardinality(HeldNext(p)) = Qty[p]
             /\ \A i \in HeldNext(p) : Product[i] = Product[p]
        ELSE FundsNext(p) = {} /\ HeldNext(p) = {}
<1>10. Sound(o)
  <2>1. \E y \in Transactions : /\ FundsNext(o) = {y}
                                /\ pay'[y].status = "confirmed"
                                /\ pay'[y].amount = Total[o]
    BY <1>6
  <2> HIDE DEF FundsNext, HeldNext
  <2> QED BY <1>1, <1>2, <1>4, <1>7, <2>1
<1>11. ASSUME NEW p \in Orders \ {o} PROVE Sound(p)
  <2>1. CASE order[p] = "delivering"
    <3>1. PICK y \in Transactions : /\ Funds(p) = {y}
                                    /\ pay[y].status = "confirmed"
                                    /\ pay[y].amount = Total[p]
      BY <2>1 DEF FundedOnce
    <3>2. pay'[y] = pay[y]
      BY <3>1, <1>9
    <3>3. Cardinality(Held(p)) = Qty[p] /\ \A i \in Held(p) : Product[i] = Product[p]
      BY <2>1 DEF FundedOnce, ListReservedInventoryIDsByOrder
    <3> HIDE DEF Funds, FundsNext, Held, HeldNext
    <3> QED BY <1>7, <1>8, <2>1, <3>1, <3>2, <3>3
  <2>2. CASE order[p] # "delivering"
    <3>1. Funds(p) = {} /\ Held(p) = {}
      BY <2>2 DEF FundedOnce, ListReservedInventoryIDsByOrder
    <3> HIDE DEF Funds, FundsNext, Held, HeldNext
    <3> QED BY <1>7, <1>8, <2>2, <3>1
  <2> QED BY <2>1, <2>2
<1>12. \A p \in Orders : Sound(p)
  <2> HIDE DEF Sound
  <2> QED BY <1>10, <1>11
<1> QED BY <1>12 DEF FundedOnce, ListReservedInventoryIDsByOrder

\* A posting extends the chain of balances by one.
LEMMA LedgerPosted ==
  ASSUME TypeOK, LedgerExplainsBalance, NEW u \in Users, NEW amount \in Int,
         NEW ref \in Transactions \cup {"adjustment"}, Post(u, amount, ref)
  PROVE  LedgerExplainsBalance'
<1> DEFINE Before(v, k) == IF k = 1 THEN 0 ELSE ledger[v][k - 1].after
           BeforeNext(v, k) == IF k = 1 THEN 0 ELSE ledger'[v][k - 1].after
           Chained(v) == /\ \A k \in 1..Len(ledger'[v]) :
                              ledger'[v][k].after = BeforeNext(v, k) + ledger'[v][k].amount
                         /\ balance'[v] = BeforeNext(v, Len(ledger'[v]) + 1)
<1>1. \A v \in Users : /\ \A k \in 1..Len(ledger[v]) :
                            ledger[v][k].after = Before(v, k) + ledger[v][k].amount
                       /\ balance[v] = Before(v, Len(ledger[v]) + 1)
  BY DEF LedgerExplainsBalance
<1>2. ASSUME NEW v \in Users \ {u} PROVE Chained(v)
  <2>1. balance'[v] = balance[v] /\ ledger'[v] = ledger[v]
    BY PostType
  <2> QED BY <1>1, <2>1
<1>3. Chained(u)
  <2> DEFINE n == Len(ledger[u])
  <2>1. /\ n \in Nat /\ Len(ledger'[u]) = n + 1
        /\ \A k \in 1..n : ledger'[u][k] = ledger[u][k]
        /\ ledger'[u][n + 1].amount = amount /\ ledger'[u][n + 1].after = balance[u] + amount
        /\ balance'[u] = balance[u] + amount /\ balance[u] \in Nat
    BY PostType DEF TypeOK
  <2> HIDE DEF n
  <2>2. /\ \A k \in 1..n : ledger[u][k].after = Before(u, k) + ledger[u][k].amount
        /\ balance[u] = Before(u, n + 1)
    BY <1>1 DEF n
  <2>3. \A k \in 1..n + 1 : BeforeNext(u, k) = Before(u, k)
    BY <2>1
  <2>4. BeforeNext(u, n + 2) = balance[u] + amount
    BY <2>1
  <2> HIDE DEF Before, BeforeNext
  <2>5. \A k \in 1..n : ledger'[u][k].after = BeforeNext(u, k) + ledger'[u][k].amount
    BY <2>1, <2>2, <2>3, SMTT(40)
  <2>6. ledger'[u][n + 1].after = BeforeNext(u, n + 1) + ledger'[u][n + 1].amount
    BY <2>1, <2>2, <2>3
  <2>7. \A k \in 1..n + 1 : ledger'[u][k].after = BeforeNext(u, k) + ledger'[u][k].amount
    BY <2>1, <2>5, <2>6
  <2>8. n + 1 + 1 = n + 2
    BY <2>1
  <2> QED BY <2>1, <2>4, <2>7, <2>8
<1>4. \A v \in Users : Chained(v)
  <2> HIDE DEF Chained
  <2> QED BY <1>2, <1>3
<1> QED BY <1>4 DEF LedgerExplainsBalance

\* The entries of a ledger refer to transactions or are adjustments.
LEMMA EntryType ==
  ASSUME TypeOK, NEW u \in Users
  PROVE  /\ Len(ledger[u]) \in Nat
         /\ \A k \in 1..Len(ledger[u]) : ledger[u][k].ref \in Transactions \cup {"adjustment"}
<1> HIDE DEF Transactions
<1>1. ledger[u] \in Seq(LedgerEntry)
  BY DEF TypeOK
<1>2. \A k \in 1..Len(ledger[u]) : ledger[u][k] \in LedgerEntry
  BY <1>1
<1> QED BY <1>1, <1>2 DEF LedgerEntry

\* EntriesMatchPayments in parts: one entry, and one top-up.
EntryMatches(u, k) ==
  ledger[u][k].ref # "adjustment" =>
    /\ alloc[ledger[u][k].ref] \in Targets /\ Owner[alloc[ledger[u][k].ref]] = u
    /\ ledger[u][k].amount = IF ledger[u][k].ref \in Orders
                               THEN -pay[ledger[u][k].ref].amount
                               ELSE pay[ledger[u][k].ref].amount
    /\ ledger[u][k].ref \in Orders \/ alloc[ledger[u][k].ref] \in Topups
    /\ \A j \in 1..Len(ledger[u]) : ledger[u][j].ref = ledger[u][k].ref => j = k

CreditMatches(t) ==
  IF topup[t] = "credited"
    THEN \E x \in Transactions :
           /\ {y \in Transactions : alloc[y] = t} = {x}
           /\ \E k \in 1..Len(ledger[Owner[t]]) : /\ ledger[Owner[t]][k].ref = x
                                                   /\ ledger[Owner[t]][k].amount = Total[t]
    ELSE {y \in Transactions : alloc[y] = t} = {}

AllMatch ==
  /\ \A u \in Users : \A k \in 1..Len(ledger[u]) : EntryMatches(u, k)
  /\ \A t \in Topups : CreditMatches(t)

\* EntriesMatchPayments, entry by entry and top-up by top-up.
LEMMA EntriesInParts == EntriesMatchPayments <=> AllMatch
<1> HIDE DEF Transactions, Targets
<1>1. (\A t \in Topups : CreditMatches(t)) <=>
        \A t \in Topups :
          LET funds == {x \in Transactions : alloc[x] = t}
          IN IF topup[t] = "credited"
               THEN \E x \in Transactions :
                   /\ funds = {x}
                   /\ \E k \in 1..Len(ledger[Owner[t]]) : /\ ledger[Owner[t]][k].ref = x
                                                           /\ ledger[Owner[t]][k].amount = Total[t]
               ELSE funds = {}
  BY Zenon DEF CreditMatches
<1>2. (\A u \in Users : \A k \in 1..Len(ledger[u]) : EntryMatches(u, k)) <=>
        \A u \in Users : \A k \in 1..Len(ledger[u]) :
          LET e == ledger[u][k]
          IN e.ref # "adjustment" =>
               /\ alloc[e.ref] \in Targets /\ Owner[alloc[e.ref]] = u
               /\ e.amount = IF e.ref \in Orders THEN -pay[e.ref].amount ELSE pay[e.ref].amount
               /\ e.ref \in Orders \/ alloc[e.ref] \in Topups
               /\ \A j \in 1..Len(ledger[u]) : ledger[u][j].ref = e.ref => j = k
  BY Zenon DEF EntryMatches
<1> QED BY <1>1, <1>2, Zenon DEF EntriesMatchPayments, AllMatch

\* The same after a step.
LEMMA EntriesInPartsNext == EntriesMatchPayments' <=> AllMatch'
BY EntriesInParts, PTL

\* Steps without a posting: what is allocated stays as it is, nothing is newly
\* allocated to a top-up, and no top-up becomes credited.
LEMMA EntriesKept ==
  ASSUME TypeOK, EntriesMatchPayments, UNCHANGED ledger,
         \A x \in Transactions : alloc[x] \in Targets => pay'[x] = pay[x] /\ alloc'[x] = alloc[x],
         \A x \in Transactions : alloc[x] \notin Targets => alloc'[x] \notin Topups,
         \A t \in Topups : topup'[t] = "credited" <=> topup[t] = "credited"
  PROVE  EntriesMatchPayments'
<1> HIDE DEF Transactions
<1>0. /\ \A u \in Users : \A k \in 1..Len(ledger[u]) : EntryMatches(u, k)
      /\ \A t \in Topups : CreditMatches(t)
  BY EntriesInParts DEF AllMatch
<1>1. ASSUME NEW u \in Users, NEW k \in 1..Len(ledger[u]) PROVE EntryMatches(u, k)'
  <2>1. ledger[u][k].ref \in Transactions \cup {"adjustment"}
    BY EntryType
  <2>2. EntryMatches(u, k)
    BY <1>0
  <2> QED BY <2>1, <2>2 DEF EntryMatches
<1>2. ASSUME NEW t \in Topups PROVE CreditMatches(t)'
  <2>1. {y \in Transactions : alloc'[y] = t} = {y \in Transactions : alloc[y] = t}
    BY TargetFacts
  <2>2. CreditMatches(t)
    BY <1>0
  <2> QED BY <2>1, <2>2, SMTT(30) DEF CreditMatches
<1> QED BY <1>1, <1>2, EntriesInPartsNext DEF AllMatch

\* An adjustment refers to no payment.
LEMMA EntriesAdjusted ==
  ASSUME TypeOK, EntriesMatchPayments, NEW v \in Users, NEW amount \in Int,
         Post(v, amount, "adjustment"), UNCHANGED <<pay, alloc, topup>>
  PROVE  EntriesMatchPayments'
<1>0. /\ \A u \in Users : \A k \in 1..Len(ledger[u]) : EntryMatches(u, k)
      /\ \A t \in Topups : CreditMatches(t)
  BY EntriesInParts DEF AllMatch
<1>1. /\ Len(ledger'[v]) = Len(ledger[v]) + 1 /\ Len(ledger[v]) \in Nat
      /\ \A k \in 1..Len(ledger[v]) : ledger'[v][k] = ledger[v][k]
      /\ ledger'[v][Len(ledger[v]) + 1].ref = "adjustment"
      /\ \A u \in Users \ {v} : ledger'[u] = ledger[u]
  BY PostType, EntryType
<1> HIDE DEF Transactions, Targets
<1>2. ASSUME NEW u \in Users, NEW k \in 1..Len(ledger'[u]) PROVE EntryMatches(u, k)'
  <2>1. CASE u # v
    <3>1. ledger'[u] = ledger[u] /\ EntryMatches(u, k)
      BY <1>0, <1>1, <2>1
    <3> QED BY <3>1 DEF EntryMatches
  <2>2. CASE u = v /\ k = Len(ledger[v]) + 1
    BY <1>1, <2>2 DEF EntryMatches
  <2>3. CASE u = v /\ k # Len(ledger[v]) + 1
    <3>1. k \in 1..Len(ledger[v]) /\ ledger'[u][k] = ledger[u][k]
      BY <1>1, <2>3
    <3>2. EntryMatches(u, k)
      BY <1>0, <2>3, <3>1
    <3>3. ASSUME ledger[u][k].ref # "adjustment", NEW j \in 1..Len(ledger'[u]),
                 ledger'[u][j].ref = ledger[u][k].ref
          PROVE  j = k
      <4>1. j \in 1..Len(ledger[u]) /\ ledger'[u][j] = ledger[u][j]
        BY <1>1, <2>3, <3>3
      <4> QED BY <3>2, <3>3, <4>1 DEF EntryMatches
    <3> QED BY <3>1, <3>2, <3>3 DEF EntryMatches
  <2> QED BY <2>1, <2>2, <2>3
<1>3. ASSUME NEW t \in Topups PROVE CreditMatches(t)'
  <2>1. CreditMatches(t) /\ Owner[t] \in Users
    BY <1>0, TargetFacts
  <2>2. \A k \in 1..Len(ledger[Owner[t]]) :
          k \in 1..Len(ledger'[Owner[t]]) /\ ledger'[Owner[t]][k] = ledger[Owner[t]][k]
    <3>1. CASE Owner[t] = v
      <4>1. \A k \in 1..Len(ledger[v]) : k \in 1..Len(ledger[v]) + 1
        BY <1>1
      <4> QED BY <1>1, <3>1, <4>1
    <3>2. CASE Owner[t] # v
      BY <1>1, <2>1, <3>2
    <3> QED BY <3>1, <3>2
  <2>3. topup'[t] = topup[t] /\ alloc' = alloc
    OBVIOUS
  <2>4. CASE topup[t] = "credited"
    <3>1. PICK x \in Transactions, k \in 1..Len(ledger[Owner[t]]) :
            /\ {y \in Transactions : alloc[y] = t} = {x}
            /\ ledger[Owner[t]][k].ref = x
            /\ ledger[Owner[t]][k].amount = Total[t]
      BY <2>1, <2>4 DEF CreditMatches
    <3>2. k \in 1..Len(ledger'[Owner[t]]) /\ ledger'[Owner[t]][k] = ledger[Owner[t]][k]
      BY <2>2
    <3> QED BY <2>3, <2>4, <3>1, <3>2 DEF CreditMatches
  <2>5. CASE topup[t] # "credited"
    BY <2>1, <2>3, <2>5 DEF CreditMatches
  <2> QED BY <2>4, <2>5
<1> QED BY <1>2, <1>3, EntriesInPartsNext DEF AllMatch

\* The posting of a payment that is allocated in the same step.
LEMMA EntriesPaid ==
  ASSUME TypeOK, EntriesMatchPayments,
         NEW x \in Transactions, NEW y \in Targets, NEW amount \in Int,
         alloc[x] = NoTarget, InsertPaymentAllocation(x, y),
         Post(Owner[y], amount, x), x # "adjustment",
         \A z \in Transactions \ {x} : pay'[z] = pay[z],
         amount = IF x \in Orders THEN -pay'[x].amount ELSE pay'[x].amount,
         x \in Orders \/ y \in Topups,
         \/ y \in Orders /\ UNCHANGED topup
         \/ y \in Topups /\ MarkWalletTopupCredited(y) /\ amount = Total[y]
  PROVE  EntriesMatchPayments'
<1>0. /\ \A u \in Users : \A k \in 1..Len(ledger[u]) : EntryMatches(u, k)
      /\ \A t \in Topups : CreditMatches(t)
  BY EntriesInParts DEF AllMatch
<1> DEFINE v == Owner[y]
           n == Len(ledger[v])
<1>1. /\ v \in Users /\ n \in Nat
      /\ Len(ledger'[v]) = n + 1
      /\ \A k \in 1..n : ledger'[v][k] = ledger[v][k]
      /\ ledger'[v][n + 1].ref = x /\ ledger'[v][n + 1].amount = amount
      /\ \A u \in Users \ {v} : ledger'[u] = ledger[u]
  <2>1. v \in Users /\ n \in Nat
    BY TargetFacts, EntryType
  <2> QED BY <2>1, PostType
<1>2. alloc'[x] = y /\ \A z \in Transactions \ {x} : alloc'[z] = alloc[z]
  BY AllocationType
<1>3. NoTarget \notin Targets /\ Orders \subseteq Targets /\ Topups \subseteq Targets
      /\ Orders \cap Topups = {}
  OBVIOUS
<1>4. \A u \in Users : \A k \in 1..Len(ledger[u]) :
         ledger[u][k].ref \in Transactions \cup {"adjustment"}
  BY EntryType
<1> HIDE DEF Transactions, Targets, n
<1>5. \A u \in Users : \A k \in 1..Len(ledger[u]) : ledger[u][k].ref # x
  BY <1>0, <1>3 DEF EntryMatches
<1>6. ASSUME NEW u \in Users, NEW k \in 1..Len(ledger[u]),
             ledger'[u][k] = ledger[u][k],
             \A j \in 1..Len(ledger'[u]) : ledger'[u][j].ref = ledger[u][k].ref =>
                   j \in 1..Len(ledger[u]) /\ ledger'[u][j] = ledger[u][j]
      PROVE  EntryMatches(u, k)'
  <2>1. EntryMatches(u, k)
    BY <1>0
  <2>2. CASE ledger[u][k].ref = "adjustment"
    BY <1>6, <2>2 DEF EntryMatches
  <2>3. CASE ledger[u][k].ref # "adjustment"
    <3>1. ledger[u][k].ref \in Transactions \ {x}
      BY <1>4, <1>5, <2>3
    <3>2. pay'[ledger[u][k].ref] = pay[ledger[u][k].ref]
          /\ alloc'[ledger[u][k].ref] = alloc[ledger[u][k].ref]
      BY <1>2, <3>1
    <3>3. \A j \in 1..Len(ledger'[u]) : ledger'[u][j].ref = ledger[u][k].ref => j = k
      BY <1>6, <2>1, <2>3, SMTT(40) DEF EntryMatches
    <3>4. /\ alloc[ledger[u][k].ref] \in Targets /\ Owner[alloc[ledger[u][k].ref]] = u
          /\ ledger[u][k].amount = IF ledger[u][k].ref \in Orders
                                     THEN -pay[ledger[u][k].ref].amount
                                     ELSE pay[ledger[u][k].ref].amount
          /\ ledger[u][k].ref \in Orders \/ alloc[ledger[u][k].ref] \in Topups
      BY <2>1, <2>3 DEF EntryMatches
    <3> QED BY <1>6, <3>2, <3>3, <3>4 DEF EntryMatches
  <2> QED BY <2>2, <2>3
<1>7. ASSUME NEW u \in Users, NEW k \in 1..Len(ledger'[u]) PROVE EntryMatches(u, k)'
  <2>1. CASE u # v
    <3>1. ledger'[u] = ledger[u]
      BY <1>1, <2>1
    <3> QED BY <1>6, <3>1
  <2>2. CASE u = v /\ k = n + 1
    <3>1. ASSUME NEW j \in 1..Len(ledger'[u]), j # k PROVE ledger'[u][j].ref # x
      <4>1. j \in 1..n /\ ledger'[v][j] = ledger[v][j]
        BY <1>1, <2>2, <3>1
      <4> QED BY <1>1, <1>5, <2>2, <4>1 DEF n
    <3> HIDE DEF v
    <3> QED BY <1>1, <1>2, <2>2, <3>1 DEF EntryMatches, v
  <2>3. CASE u = v /\ k # n + 1
    <3>1. k \in 1..Len(ledger[u]) /\ ledger'[u][k] = ledger[u][k]
      BY <1>1, <2>3 DEF n
    <3>2. \A j \in 1..Len(ledger'[u]) : ledger'[u][j].ref = ledger[u][k].ref =>
             j \in 1..Len(ledger[u]) /\ ledger'[u][j] = ledger[u][j]
      BY <1>1, <1>5, <2>3, <3>1, SMTT(30) DEF n
    <3> QED BY <1>6, <3>1, <3>2
  <2> QED BY <2>1, <2>2, <2>3
<1>8. ASSUME NEW t \in Topups, t # y PROVE CreditMatches(t)'
  <2>1. CreditMatches(t) /\ Owner[t] \in Users
    BY <1>0, TargetFacts
  <2>2. \A k \in 1..Len(ledger[Owner[t]]) :
          k \in 1..Len(ledger'[Owner[t]]) /\ ledger'[Owner[t]][k] = ledger[Owner[t]][k]
    <3>1. CASE Owner[t] = v
      <4>1. \A k \in 1..n : k \in 1..n + 1
        BY <1>1
      <4> QED BY <1>1, <3>1, <4>1 DEF n
    <3>2. CASE Owner[t] # v
      BY <1>1, <2>1, <3>2
    <3> QED BY <3>1, <3>2
  <2>3. {z \in Transactions : alloc'[z] = t} = {z \in Transactions : alloc[z] = t}
    BY <1>2, <1>3, <1>8
  <2>4. topup'[t] = topup[t]
    BY <1>3, <1>8 DEF MarkWalletTopupCredited, TypeOK
  <2>5. CASE topup[t] = "credited"
    <3>1. PICK w \in Transactions, k \in 1..Len(ledger[Owner[t]]) :
            /\ {z \in Transactions : alloc[z] = t} = {w}
            /\ ledger[Owner[t]][k].ref = w
            /\ ledger[Owner[t]][k].amount = Total[t]
      BY <2>1, <2>5 DEF CreditMatches
    <3>2. k \in 1..Len(ledger'[Owner[t]]) /\ ledger'[Owner[t]][k] = ledger[Owner[t]][k]
      BY <2>2
    <3> QED BY <2>3, <2>4, <2>5, <3>1, <3>2 DEF CreditMatches
  <2>6. CASE topup[t] # "credited"
    BY <2>1, <2>3, <2>4, <2>6 DEF CreditMatches
  <2> QED BY <2>5, <2>6
<1>9. ASSUME y \in Topups PROVE CreditMatches(y)'
  <2>1. topup[y] # "credited" /\ topup'[y] = "credited" /\ amount = Total[y]
    BY <1>3, <1>9 DEF MarkWalletTopupCredited, TypeOK
  <2>2. {z \in Transactions : alloc[z] = y} = {}
    BY <1>0, <1>9, <2>1 DEF CreditMatches
  <2>3. {z \in Transactions : alloc'[z] = y} = {x}
    BY <1>2, <2>2
  <2>4. n + 1 \in 1..Len(ledger'[v])
    BY <1>1
  <2>5. \E k \in 1..Len(ledger'[v]) : ledger'[v][k].ref = x /\ ledger'[v][k].amount = Total[y]
    BY <1>1, <2>1, <2>4
  <2> QED BY <2>1, <2>3, <2>5 DEF CreditMatches
<1> QED BY <1>7, <1>8, <1>9, EntriesInPartsNext DEF AllMatch

-----------------------------------------------------------------------------
(* Every group of steps keeps the invariant. *)

\* What was paid, allocated and posted is never rewritten.
EvidenceKept ==
  /\ \A x \in Transactions : /\ pay[x] # NoPayment => pay'[x] = pay[x]
                             /\ alloc[x] # NoTarget => alloc'[x] = alloc[x]
  /\ \A u \in Users : /\ Len(ledger'[u]) >= Len(ledger[u])
                      /\ \A k \in 1..Len(ledger[u]) : ledger'[u][k] = ledger[u][k]

\* A ledger nobody writes keeps its entries.
LEMMA LedgerKept == ASSUME TypeOK, UNCHANGED ledger
  PROVE \A u \in Users : /\ Len(ledger'[u]) >= Len(ledger[u])
                         /\ \A k \in 1..Len(ledger[u]) : ledger'[u][k] = ledger[u][k]
BY EntryType

\* A post keeps the entries before it.
LEMMA LedgerGrows ==
  ASSUME TypeOK, NEW u \in Users, NEW amount \in Int,
         NEW ref \in Transactions \cup {"adjustment"}, Post(u, amount, ref)
  PROVE \A v \in Users : /\ Len(ledger'[v]) >= Len(ledger[v])
                         /\ \A k \in 1..Len(ledger[v]) : ledger'[v][k] = ledger[v][k]
<1>1. \A v \in Users : Len(ledger[v]) \in Nat
  BY EntryType
<1>2. /\ \A v \in Users \ {u} : ledger'[v] = ledger[v]
      /\ Len(ledger'[u]) = Len(ledger[u]) + 1
      /\ \A k \in 1..Len(ledger[u]) : ledger'[u][k] = ledger[u][k]
  BY PostType
<1> QED BY <1>1, <1>2

\* An undecided command has no case.
LEMMA UndecidedHasNoCase ==
  ASSUME MoneyIsAccounted, NEW c \in Commands, decision[c] = "processing"
  PROVE  review[c] = NoCase /\ ~review[c].linked
<1>1. review[c] = NoCase
  BY DEF MoneyIsAccounted
<1> QED BY <1>1 DEF NoCase

\* The invariant holds in the first states.
LEMMA InitInv == Init => SettlementInv
<1> SUFFICES ASSUME Init PROVE SettlementInv
  OBVIOUS
<1>1. TypeOK
  BY InitType
<1>2. FundedOnce
  BY DEF Init, FundedOnce, ListReservedInventoryIDsByOrder
<1>3. MoneyIsAccounted
  BY DEF Init, MoneyIsAccounted
<1>4. LedgerExplainsBalance
  BY DEF Init, LedgerExplainsBalance
<1>5. EntriesMatchPayments
  BY DEF Init, EntriesMatchPayments
<1> QED BY <1>1, <1>2, <1>3, <1>4, <1>5 DEF SettlementInv

\* A case is opened for evidence that funds nothing; no other case changes, and a
\* payment that is new is linked to the case.
LEMMA MoneyInReview ==
  ASSUME TypeOK, MoneyIsAccounted, NEW c \in Commands,
         NEW reason \in Reasons, NEW linked \in BOOLEAN, RecordReview(c, reason, linked),
         UNCHANGED alloc,
         \A x \in Transactions \ {c.txn} : pay'[x] = pay[x],
         pay'[c.txn] = pay[c.txn] \/ (pay[c.txn] = NoPayment /\ linked)
  PROVE  MoneyIsAccounted'
<1>1. /\ decision[c] = "processing" /\ decision'[c] = "review"
      /\ \A b \in Commands \ {c} : decision'[b] = decision[b] /\ review'[b] = review[b]
      /\ review'[c] # NoCase /\ review'[c].linked = linked
  <2>1. /\ decision[c] = "processing" /\ decision'[c] = "review"
        /\ \A b \in Commands \ {c} : decision'[b] = decision[b] /\ review'[b] = review[b]
        /\ review'[c] \in Cases /\ review'[c].linked = linked
    <3>1. CASE linked = TRUE
      BY <3>1, RecordReviewType
    <3>2. CASE linked = FALSE
      BY <3>2, RecordReviewType
    <3> QED BY <3>1, <3>2
  <2> QED BY <2>1, CaseRecord, Zenon
<1>2. ~review[c].linked
  BY <1>1, UndecidedHasNoCase
<1>3. c.txn \in Transactions /\ NoPayment.status # "confirmed"
  BY TransactionOfCommand DEF NoPayment
<1> HIDE DEF Transactions, Targets
<1>4. \A b \in Commands : /\ decision'[b] = "completed" /\ b.direction = "inbound" =>
                                alloc'[b.txn] # NoTarget
                          /\ (decision'[b] = "review") <=> (review'[b] # NoCase)
  BY <1>1 DEF MoneyIsAccounted
<1>5. ASSUME NEW x \in Transactions
      PROVE  /\ alloc'[x] # NoTarget => pay'[x].status = "confirmed"
             /\ pay'[x] # NoPayment /\ alloc'[x] = NoTarget =>
                  \E b \in Commands : b.txn = x /\ review'[b].linked
  <2>1. CASE pay'[x] = pay[x]
    <3>1. alloc'[x] # NoTarget => pay'[x].status = "confirmed"
      BY <2>1 DEF MoneyIsAccounted
    <3>2. ASSUME pay'[x] # NoPayment, alloc'[x] = NoTarget
          PROVE  \E b \in Commands : b.txn = x /\ review'[b].linked
      <4>1. PICK b \in Commands : b.txn = x /\ review[b].linked
        BY <2>1, <3>2 DEF MoneyIsAccounted
      <4> QED BY <1>1, <1>2, <4>1
    <3> QED BY <3>1, <3>2
  <2>2. CASE x = c.txn /\ pay[x] = NoPayment /\ linked
    BY <1>1, <1>3, <2>2 DEF MoneyIsAccounted
  <2> QED BY <2>1, <2>2
<1> QED BY <1>4, <1>5 DEF MoneyIsAccounted

\* Quiet steps.
LEMMA QuietKeepsInv == ASSUME SettlementInv, QuietStep PROVE SettlementInv' /\ EvidenceKept
<1> USE DEF SettlementInv
<1>1. TypeOK'
  BY QuietEffect DEF TypeOK
<1>2. FundedOnce'
  BY QuietEffect, FundsKept
<1>3. MoneyIsAccounted'
  BY QuietEffect DEF MoneyIsAccounted
<1>4. LedgerExplainsBalance'
  BY QuietEffect DEF LedgerExplainsBalance
<1>5. EntriesMatchPayments'
  <2>1. \A x \in Transactions : alloc[x] \notin Targets => alloc[x] \notin Topups
    OBVIOUS
  <2> QED BY <2>1, QuietEffect, EntriesKept
<1>6. EvidenceKept
  BY QuietEffect, LedgerKept DEF EvidenceKept
<1> QED BY <1>1, <1>2, <1>3, <1>4, <1>5, <1>6

\* A step that stores at most one payment, of a transaction that had none, and
\* touches no allocation, no stock and no wallet.
LEMMA StoredOnlyKeeps ==
  ASSUME SettlementInv, NEW x \in Transactions,
         UNCHANGED <<inv, alloc, balance, ledger>>,
         \A y \in Transactions \ {x} : pay'[y] = pay[y],
         pay'[x] = pay[x] \/ pay[x] = NoPayment,
         \A o \in Orders : order'[o] = "delivering" <=> order[o] = "delivering",
         \A t \in Topups : topup'[t] = "credited" <=> topup[t] = "credited"
  PROVE  FundedOnce' /\ LedgerExplainsBalance' /\ EntriesMatchPayments' /\ EvidenceKept
<1> USE DEF SettlementInv
<1>1. NoTarget \notin Targets /\ NoTarget \notin Orders
  OBVIOUS
<1>2. \A y \in Transactions : alloc[y] \in Targets => pay'[y] = pay[y]
  BY <1>1, UnpaidFundsNothing
<1>3. FundedOnce'
  <2>1. \A y \in Transactions : alloc[y] \in Orders => pay'[y] = pay[y]
    BY <1>2
  <2> QED BY <2>1, FundsKept
<1>4. LedgerExplainsBalance'
  BY DEF LedgerExplainsBalance
<1>5. EntriesMatchPayments'
  <2>1. \A y \in Transactions : alloc[y] \notin Targets => alloc'[y] \notin Topups
    OBVIOUS
  <2> QED BY <1>2, <2>1, EntriesKept
<1>6. EvidenceKept
  <2> HIDE DEF Transactions
  <2> QED BY LedgerKept DEF EvidenceKept
<1> QED BY <1>3, <1>4, <1>5, <1>6

\* Evidence that ends in a review case.
LEMMA ReviewKeepsInv ==
  ASSUME SettlementInv, NEW c \in Commands, UNCHANGED lapsed,
         \/ AcceptUnmatched(c)
         \/ \E o \in Orders : ReviewOrderPayment(c, o) \/ AcceptOrderShort(c, o)
         \/ \E t \in Topups : ReviewTopupPayment(c, t)
  PROVE  SettlementInv' /\ EvidenceKept
<1> USE DEF SettlementInv
<1>1. TypeOK'
  BY ReviewKeepsType
<1>2. c.txn \in Transactions
  BY TransactionOfCommand
<1>3. CASE AcceptUnmatched(c)
  <2>1. PICK reason \in Reasons : RecordReview(c, reason, FALSE)
    BY <1>3 DEF AcceptUnmatched, Reasons
  <2>2. UNCHANGED <<order, topup, inv, pay, alloc, balance, ledger>>
    BY <1>3 DEF AcceptUnmatched
  <2>3. MoneyIsAccounted'
    BY <2>1, <2>2, MoneyInReview
  <2>4. FundedOnce' /\ LedgerExplainsBalance' /\ EntriesMatchPayments' /\ EvidenceKept
    BY <1>2, <2>2, StoredOnlyKeeps
  <2> QED BY <1>1, <2>3, <2>4
<1>4. ASSUME NEW o \in Orders, ReviewOrderPayment(c, o) PROVE SettlementInv' /\ EvidenceKept
  <2>1. RecordReview(c, OrderReviewReason(o, c), TRUE) /\ OrderReviewReason(o, c) \in Reasons
    BY <1>4, OrderReasonType DEF ReviewOrderPayment
  <2>2. UNCHANGED <<order, topup, inv, alloc, balance, ledger>>
        /\ InsertPayment(c.txn, "review", c.ref, c.amount)
    BY <1>4 DEF ReviewOrderPayment
  <2>3. pay[c.txn] = NoPayment /\ \A y \in Transactions \ {c.txn} : pay'[y] = pay[y]
    BY <2>2, CommandPaymentType
  <2>4. MoneyIsAccounted'
    BY <2>1, <2>2, <2>3, MoneyInReview
  <2>5. FundedOnce' /\ LedgerExplainsBalance' /\ EntriesMatchPayments' /\ EvidenceKept
    BY <1>2, <2>2, <2>3, StoredOnlyKeeps
  <2> QED BY <1>1, <2>4, <2>5
<1>5. ASSUME NEW o \in Orders, AcceptOrderShort(c, o) PROVE SettlementInv' /\ EvidenceKept
  <2>1. RecordReview(c, "out_of_stock", TRUE) /\ "out_of_stock" \in Reasons
    BY <1>5 DEF AcceptOrderShort, Reasons
  <2>2. UNCHANGED <<topup, inv, alloc, balance, ledger>>
        /\ InsertPayment(c.txn, "confirmed", c.ref, c.amount)
    BY <1>5 DEF AcceptOrderShort
  <2>3. pay[c.txn] = NoPayment /\ \A y \in Transactions \ {c.txn} : pay'[y] = pay[y]
    BY <2>2, CommandPaymentType
  <2>4. \A p \in Orders : order'[p] = "delivering" <=> order[p] = "delivering"
    BY <1>5 DEF AcceptOrderShort, UpdateOrderStatusGuarded, MarkOrderPaidGuarded, TypeOK
  <2>5. MoneyIsAccounted'
    BY <2>1, <2>2, <2>3, MoneyInReview
  <2>6. FundedOnce' /\ LedgerExplainsBalance' /\ EntriesMatchPayments' /\ EvidenceKept
    BY <1>2, <2>2, <2>3, <2>4, StoredOnlyKeeps
  <2> QED BY <1>1, <2>5, <2>6
<1>6. ASSUME NEW t \in Topups, ReviewTopupPayment(c, t) PROVE SettlementInv' /\ EvidenceKept
  <2>1. RecordReview(c, TopupReviewReason(t, c), TRUE) /\ TopupReviewReason(t, c) \in Reasons
    BY <1>6, TopupReasonType DEF ReviewTopupPayment
  <2>2. UNCHANGED <<order, inv, alloc, balance, ledger>>
        /\ InsertPayment(c.txn, "review", c.ref, c.amount)
    BY <1>6 DEF ReviewTopupPayment
  <2>3. pay[c.txn] = NoPayment /\ \A y \in Transactions \ {c.txn} : pay'[y] = pay[y]
    BY <2>2, CommandPaymentType
  <2>4. \A s \in Topups : topup'[s] = "credited" <=> topup[s] = "credited"
    BY <1>6 DEF ReviewTopupPayment, MarkWalletTopupReview, TypeOK
  <2>5. MoneyIsAccounted'
    BY <2>1, <2>2, <2>3, MoneyInReview
  <2>6. FundedOnce' /\ LedgerExplainsBalance' /\ EntriesMatchPayments' /\ EvidenceKept
    BY <1>2, <2>2, <2>3, <2>4, StoredOnlyKeeps
  <2> QED BY <1>1, <2>5, <2>6
<1> QED BY <1>3, <1>4, <1>5, <1>6

\* Evidence about a transaction that has a payment: a duplicate completes only
\* when the payment funds something.
LEMMA ExistingKeepsInv ==
  ASSUME SettlementInv, NEW c \in Commands, UNCHANGED lapsed, HandleExistingPayment(c)
  PROVE  SettlementInv' /\ EvidenceKept
<1> USE DEF SettlementInv
<1>1. TypeOK'
  BY ExistingKeepsType
<1>2. UNCHANGED <<order, topup, inv, pay, alloc, balance, ledger>>
  BY DEF HandleExistingPayment
<1>3. MoneyIsAccounted'
  <2>1. CASE \E reason \in Reasons : RecordReview(c, reason, TRUE)
    BY <1>2, <2>1, MoneyInReview
  <2>2. CASE Decide(c, "completed") /\ UNCHANGED review /\ alloc[c.txn] # NoTarget
    <3>1. decision[c] = "processing" /\ decision'[c] = "completed"
          /\ \A b \in Commands \ {c} : decision'[b] = decision[b]
      BY <2>2, DecideType
    <3> HIDE DEF Transactions
    <3> QED BY <1>2, <2>2, <3>1 DEF MoneyIsAccounted
  <2>3. "transaction_conflict" \in Reasons /\ "duplicate_unallocated" \in Reasons
    BY DEF Reasons
  <2> QED BY <2>1, <2>2, <2>3 DEF HandleExistingPayment, GetPaymentAllocation
<1>4. FundedOnce' /\ LedgerExplainsBalance' /\ EntriesMatchPayments' /\ EvidenceKept
  BY <1>2, TransactionOfCommand, StoredOnlyKeeps
<1> QED BY <1>1, <1>3, <1>4

\* What a sale or a credit does to the accounts of evidence: the new payment is
\* confirmed and allocated, and no case changes.
LEMMA MoneyAllocated ==
  ASSUME TypeOK, MoneyIsAccounted, NEW x \in Transactions, NEW y \in Targets,
         pay'[x].status = "confirmed",
         \A z \in Transactions \ {x} : pay'[z] = pay[z],
         InsertPaymentAllocation(x, y), UNCHANGED review,
         \/ UNCHANGED decision
         \/ \E c \in Commands : c.txn = x /\ Decide(c, "completed")
  PROVE  MoneyIsAccounted'
<1>1. alloc'[x] = y /\ y # NoTarget /\ \A z \in Transactions \ {x} : alloc'[z] = alloc[z]
  BY AllocationType
<1>2. \A c \in Commands : c.txn \in Transactions
  OBVIOUS
<1> HIDE DEF Transactions, Targets
<1>3. ASSUME NEW c \in Commands
      PROVE  /\ decision'[c] = "completed" /\ c.direction = "inbound" =>
                  alloc'[c.txn] # NoTarget
             /\ (decision'[c] = "review") <=> (review'[c] # NoCase)
  <2>1. CASE decision'[c] = decision[c]
    BY <1>1, <1>2, <2>1 DEF MoneyIsAccounted
  <2>2. CASE decision'[c] # decision[c]
    <3>1. c.txn = x /\ decision[c] = "processing" /\ decision'[c] = "completed"
      BY <2>2, DecideType
    <3> QED BY <1>1, <3>1 DEF MoneyIsAccounted
  <2> QED BY <2>1, <2>2
<1>4. ASSUME NEW z \in Transactions
      PROVE  /\ alloc'[z] # NoTarget => pay'[z].status = "confirmed"
             /\ pay'[z] # NoPayment /\ alloc'[z] = NoTarget =>
                  \E b \in Commands : b.txn = z /\ review'[b].linked
  BY <1>1 DEF MoneyIsAccounted
<1> QED BY <1>3, <1>4 DEF MoneyIsAccounted

\* A bank transfer or a manual confirmation buys an order.
LEMMA OrderPaymentKeepsInv ==
  ASSUME SettlementInv, NEW c \in Commands, NEW o \in Orders,
         AcceptOrderPayment(c, o), UNCHANGED lapsed
  PROVE  SettlementInv' /\ EvidenceKept
<1> USE DEF SettlementInv
<1>1. TypeOK'
  BY SaleKeepsType
<1>2. /\ c.txn \in Transactions /\ c.amount = Total[o]
      /\ InsertPayment(c.txn, "confirmed", c.ref, c.amount)
      /\ InsertPaymentAllocation(c.txn, o)
      /\ MarkOrderPaidGuarded(o) /\ UpdateOrderStatusGuarded(o, "delivering")
      /\ ClaimExactAvailableInventory(o) /\ Decide(c, "completed")
      /\ UNCHANGED <<topup, balance, ledger, review>>
  BY TransactionOfCommand DEF AcceptOrderPayment, OrderReviewReason
<1>3. /\ pay[c.txn] = NoPayment /\ \A y \in Transactions \ {c.txn} : pay'[y] = pay[y]
      /\ pay'[c.txn].status = "confirmed" /\ pay'[c.txn].amount = Total[o]
  BY <1>2, CommandPaymentType
<1>4. alloc[c.txn] = NoTarget
  BY <1>2, <1>3, UnpaidFundsNothing
<1>5. alloc'[c.txn] = o /\ \A y \in Transactions \ {c.txn} : alloc'[y] = alloc[y]
  BY <1>2, AllocationType, TargetFacts
<1>6. FundedOnce'
  BY <1>2, <1>3, <1>4, FundsSold
<1>7. MoneyIsAccounted'
  BY <1>2, <1>3, MoneyAllocated, TargetFacts
<1>8. LedgerExplainsBalance'
  BY <1>2 DEF LedgerExplainsBalance
<1>9. EntriesMatchPayments'
  <2>1. NoTarget \notin Targets /\ o \notin Topups /\ Topups \subseteq Targets
    OBVIOUS
  <2> HIDE DEF Transactions, Targets
  <2> QED BY <1>2, <1>3, <1>4, <1>5, <2>1, EntriesKept
<1>10. EvidenceKept
  <2> HIDE DEF Transactions
  <2> QED BY <1>2, <1>3, <1>4, <1>5, LedgerKept DEF EvidenceKept
<1> QED BY <1>1, <1>6, <1>7, <1>8, <1>9, <1>10

\* A bank transfer or a manual confirmation fills a wallet.
LEMMA TopupPaymentKeepsInv ==
  ASSUME SettlementInv, NEW c \in Commands, NEW t \in Topups,
         AcceptWalletTopupPayment(c, t), UNCHANGED lapsed
  PROVE  SettlementInv' /\ EvidenceKept
<1> USE DEF SettlementInv
<1>1. TypeOK'
  BY SaleKeepsType
<1>2. /\ c.txn \in Transactions /\ c.txn \notin Orders /\ c.txn # "adjustment"
      /\ c.amount = Total[t] /\ c.amount \in Int /\ Owner[t] \in Users /\ t \in Targets
      /\ InsertPayment(c.txn, "confirmed", c.ref, c.amount)
      /\ InsertPaymentAllocation(c.txn, t)
      /\ Post(Owner[t], c.amount, c.txn)
      /\ MarkWalletTopupCredited(t) /\ Decide(c, "completed")
      /\ UNCHANGED <<order, inv, review>>
  BY TransactionOfCommand, TargetFacts DEF AcceptWalletTopupPayment, TopupReviewReason
<1>3. /\ pay[c.txn] = NoPayment /\ \A y \in Transactions \ {c.txn} : pay'[y] = pay[y]
      /\ pay'[c.txn].status = "confirmed" /\ pay'[c.txn].amount = c.amount
  BY <1>2, CommandPaymentType
<1>4. alloc[c.txn] = NoTarget
  BY <1>2, <1>3, UnpaidFundsNothing
<1>5. alloc'[c.txn] = t /\ \A y \in Transactions \ {c.txn} : alloc'[y] = alloc[y]
  BY <1>2, AllocationType
<1>6. FundedOnce'
  <2>1. NoTarget \notin Orders /\ t \notin Orders
    OBVIOUS
  <2> HIDE DEF Transactions, Targets
  <2> QED BY <1>2, <1>3, <1>4, <1>5, <2>1, FundsKept
<1>7. MoneyIsAccounted'
  BY <1>2, <1>3, MoneyAllocated
<1>8. LedgerExplainsBalance'
  BY <1>2, LedgerPosted
<1>9. EntriesMatchPayments'
  BY <1>2, <1>3, <1>4, EntriesPaid
<1>10. EvidenceKept
  <2>1. \A u \in Users : /\ Len(ledger'[u]) >= Len(ledger[u])
                         /\ \A k \in 1..Len(ledger[u]) : ledger'[u][k] = ledger[u][k]
    BY <1>2, LedgerGrows
  <2> HIDE DEF Transactions
  <2> QED BY <1>2, <1>3, <1>4, <1>5, <2>1 DEF EvidenceKept
<1> QED BY <1>1, <1>6, <1>7, <1>8, <1>9, <1>10

\* The wallet buys an order.
LEMMA WalletPaymentKeepsInv ==
  ASSUME SettlementInv, NEW o \in Orders, PayOrderWithWallet(o)
  PROVE  SettlementInv' /\ EvidenceKept
<1> USE DEF SettlementInv
<1>1. TypeOK'
  BY SaleKeepsType
<1>2. /\ o \in Transactions /\ o # "adjustment" /\ o \in Targets
      /\ Total[o] \in Nat \ {0} /\ -Total[o] \in Int /\ Owner[o] \in Users
      /\ Reference[o] \in PaymentRefs
  BY TargetFacts DEF PaymentRefs
<1>3. /\ InsertPayment(o, "confirmed", Reference[o], Total[o])
      /\ InsertPaymentAllocation(o, o)
      /\ MarkOrderPaidGuarded(o) /\ UpdateOrderStatusGuarded(o, "delivering")
      /\ ClaimExactAvailableInventory(o)
      /\ Post(Owner[o], -Total[o], o)
      /\ UNCHANGED <<topup, decision, review>>
  BY DEF PayOrderWithWallet
<1>4. /\ pay[o] = NoPayment /\ \A y \in Transactions \ {o} : pay'[y] = pay[y]
      /\ pay'[o].status = "confirmed" /\ pay'[o].amount = Total[o]
  <2> HIDE DEF Transactions
  <2> QED BY <1>2, <1>3, InsertPaymentType
<1>5. alloc[o] = NoTarget
  BY <1>2, <1>4, UnpaidFundsNothing
<1>6. alloc'[o] = o /\ \A y \in Transactions \ {o} : alloc'[y] = alloc[y]
  BY <1>2, <1>3, AllocationType
<1>7. FundedOnce'
  BY <1>2, <1>3, <1>4, <1>5, FundsSold
<1>8. MoneyIsAccounted'
  BY <1>2, <1>3, <1>4, MoneyAllocated
<1>9. LedgerExplainsBalance'
  BY <1>2, <1>3, LedgerPosted
<1>10. EntriesMatchPayments'
  BY <1>2, <1>3, <1>4, <1>5, EntriesPaid
<1>11. EvidenceKept
  <2>1. \A u \in Users : /\ Len(ledger'[u]) >= Len(ledger[u])
                         /\ \A k \in 1..Len(ledger[u]) : ledger'[u][k] = ledger[u][k]
    BY <1>2, <1>3, LedgerGrows
  <2> HIDE DEF Transactions
  <2> QED BY <1>2, <1>4, <1>5, <1>6, <2>1 DEF EvidenceKept
<1> QED BY <1>1, <1>7, <1>8, <1>9, <1>10, <1>11

\* The resolution of a case leaves it a case of the same payment.
LEMMA MoneyResolved ==
  ASSUME MoneyIsAccounted, NEW c \in Commands, UNCHANGED <<pay, alloc, decision>>,
         review[c] # NoCase, review'[c] # NoCase, review'[c].linked = review[c].linked,
         \A b \in Commands \ {c} : review'[b] = review[b]
  PROVE  MoneyIsAccounted'
<1> HIDE DEF Transactions
<1>1. \A b \in Commands : /\ decision'[b] = "completed" /\ b.direction = "inbound" =>
                                alloc'[b.txn] # NoTarget
                         /\ (decision'[b] = "review") <=> (review'[b] # NoCase)
  BY DEF MoneyIsAccounted
<1>2. ASSUME NEW x \in Transactions
      PROVE  /\ alloc'[x] # NoTarget => pay'[x].status = "confirmed"
             /\ pay'[x] # NoPayment /\ alloc'[x] = NoTarget =>
                  \E b \in Commands : b.txn = x /\ review'[b].linked
  BY DEF MoneyIsAccounted
<1> QED BY <1>1, <1>2 DEF MoneyIsAccounted

\* Adjustments, the resolution of cases and the administration of stock.
LEMMA AdminKeepsInv ==
  ASSUME SettlementInv,
         \/ \E u \in Users, amount \in Adjustments : AdjustWallet(u, amount)
         \/ \E c \in Commands, s \in Resolutions : ResolvePaymentReview(c, s)
         \/ \E i \in Items : ImportInventory(i) \/ SetInventoryItemEnabled(i)
  PROVE  SettlementInv' /\ EvidenceKept
<1> USE DEF SettlementInv
<1>1. TypeOK'
  BY AdminKeepsType
<1>2. \A x \in Transactions : alloc[x] \notin Targets => alloc[x] \notin Topups
  OBVIOUS
<1>3. ASSUME NEW u \in Users, NEW amount \in Adjustments, AdjustWallet(u, amount)
      PROVE  SettlementInv' /\ EvidenceKept
  <2>1. /\ Post(u, amount, "adjustment") /\ amount \in Int
        /\ UNCHANGED <<order, topup, lapsed, inv, pay, alloc, decision, review, req>>
    BY <1>3 DEF AdjustWallet
  <2>2. FundedOnce'
    BY <2>1, FundsKept
  <2>3. MoneyIsAccounted'
    BY <2>1 DEF MoneyIsAccounted
  <2>4. LedgerExplainsBalance'
    BY <2>1, LedgerPosted
  <2>5. EntriesMatchPayments'
    BY <2>1, EntriesAdjusted
  <2>6. EvidenceKept
    BY <2>1, LedgerGrows DEF EvidenceKept
  <2> QED BY <1>1, <2>2, <2>3, <2>4, <2>5, <2>6
<1>4. ASSUME NEW c \in Commands, NEW s \in Resolutions, ResolvePaymentReview(c, s)
      PROVE  SettlementInv' /\ EvidenceKept
  <2>1. UNCHANGED <<order, topup, lapsed, inv, pay, alloc, balance, ledger, decision, req>>
    BY <1>4 DEF ResolvePaymentReview
  <2>2. review \in [Commands -> Cases \cup {NoCase}]
    BY DEF TypeOK, Cases
  <2>3. review[c] # NoCase /\ review[c] \in Cases
    BY <1>4, <2>2 DEF ResolvePaymentReview, ListOpenPaymentReviews, NoCase
  <2>4. review'[c] = [review[c] EXCEPT !.status = s]
        /\ \A b \in Commands \ {c} : review'[b] = review[b]
    BY <1>4, <2>2 DEF ResolvePaymentReview
  <2>5. review'[c] # NoCase /\ review'[c].linked = review[c].linked
    BY <2>3, <2>4 DEF NoCase, Cases
  <2>6. MoneyIsAccounted'
    BY <2>1, <2>3, <2>4, <2>5, MoneyResolved
  <2>7. FundedOnce' /\ LedgerExplainsBalance' /\ EntriesMatchPayments' /\ EvidenceKept
    BY <2>1, StoredOnlyKeeps, TransactionOfCommand
  <2> QED BY <1>1, <2>6, <2>7
<1>5. ASSUME NEW i \in Items, ImportInventory(i) \/ SetInventoryItemEnabled(i)
      PROVE  SettlementInv' /\ EvidenceKept
  <2>1. UNCHANGED <<order, topup, lapsed, pay, alloc, balance, ledger, decision, review, req>>
    BY <1>5 DEF ImportInventory, SetInventoryItemEnabled
  <2>2. /\ inv[i] \in {"absent", "available", "disabled"}
        /\ \E v \in {"available", "disabled"} : inv' = [inv EXCEPT ![i] = v]
    BY <1>5 DEF ImportInventory, SetInventoryItemEnabled, InsertEncryptedInventoryItem,
                DisableAvailableInventoryItem, EnableDisabledInventoryItem
  <2>3. \A j \in Items, o \in Orders : inv'[j] = o <=> inv[j] = o
    BY <2>2 DEF TypeOK
  <2>4. FundedOnce'
    BY <2>1, <2>3, FundsKept
  <2>5. MoneyIsAccounted'
    BY <2>1 DEF MoneyIsAccounted
  <2>6. LedgerExplainsBalance'
    BY <2>1 DEF LedgerExplainsBalance
  <2>7. EntriesMatchPayments'
    BY <1>2, <2>1, EntriesKept
  <2>8. EvidenceKept
    BY <2>1, LedgerKept DEF EvidenceKept
  <2> QED BY <1>1, <2>4, <2>5, <2>6, <2>7, <2>8
<1> QED BY <1>3, <1>4, <1>5

\* An outbound transfer is completed: no money moves and no case changes.
LEMMA IgnoredKeepsInv ==
  ASSUME SettlementInv, NEW c \in Commands, CompleteIgnoredPaymentEvent(c)
  PROVE  SettlementInv' /\ EvidenceKept
<1> USE DEF SettlementInv
<1>1. TypeOK'
  BY IgnoredKeepsType
<1>2. /\ UNCHANGED <<order, topup, inv, pay, alloc, balance, ledger, review>>
      /\ c.direction = "outbound" /\ decision[c] = "processing" /\ decision'[c] = "completed"
      /\ \A b \in Commands \ {c} : decision'[b] = decision[b]
  BY DEF CompleteIgnoredPaymentEvent, CompletePaymentEvent, TypeOK
<1>3. MoneyIsAccounted'
  <2> HIDE DEF Transactions
  <2> QED BY <1>2 DEF MoneyIsAccounted
<1>4. FundedOnce' /\ LedgerExplainsBalance' /\ EntriesMatchPayments' /\ EvidenceKept
  BY <1>2, TransactionOfCommand, StoredOnlyKeeps
<1> QED BY <1>1, <1>3, <1>4

\* Every step keeps the invariant and the evidence.
LEMMA NextInv == ASSUME SettlementInv, [Next]_vars PROVE SettlementInv' /\ (EvidenceKept \/ UNCHANGED vars)
<1>1. CASE UNCHANGED vars
  <2>1. TypeOK'
    BY <1>1, NextType DEF SettlementInv
  <2>2. FundedOnce'
    BY <1>1, FundsKept DEF vars, SettlementInv
  <2>3. MoneyIsAccounted'
    BY <1>1 DEF vars, SettlementInv, MoneyIsAccounted
  <2>4. LedgerExplainsBalance'
    BY <1>1 DEF vars, SettlementInv, LedgerExplainsBalance
  <2>5. EntriesMatchPayments'
    <3>1. \A x \in Transactions : alloc[x] \notin Targets => alloc[x] \notin Topups
      OBVIOUS
    <3> QED BY <1>1, <3>1, EntriesKept DEF vars, SettlementInv
  <2> QED BY <1>1, <2>1, <2>2, <2>3, <2>4, <2>5 DEF SettlementInv
<1>2. CASE Next
  BY <1>2, NextIsOneOfTheCases, QuietKeepsInv, ReviewKeepsInv, ExistingKeepsInv,
     OrderPaymentKeepsInv, TopupPaymentKeepsInv, WalletPaymentKeepsInv, AdminKeepsInv,
     IgnoredKeepsInv DEF StepCases
<1> QED BY <1>1, <1>2

\* The invariant always holds.
LEMMA SettlementInvariant == Spec => []SettlementInv
BY InitInv, NextInv, PTL DEF Spec

\* An order is delivering exactly when one confirmed payment of its full amount is
\* allocated to it and it holds the exact items it ordered, whoever paid first
\* (acceptOrderPayment, PayOrderWithWallet): nothing is oversold, for any number of
\* orders, items and competing payments.
THEOREM OrdersAreFundedOnce == Spec => []FundedOnce
BY SettlementInvariant, PTL DEF SettlementInv

\* An inbound transfer that completed funds a target, evidence in review has a case, and a
\* payment that funds nothing is linked to one (recordPaymentReview).
THEOREM EvidenceNeverLost == Spec => []MoneyIsAccounted
BY SettlementInvariant, PTL DEF SettlementInv

\* Every entry carries the balance after it and the last one is the balance of the
\* account (UpdateWalletBalance with InsertWalletLedgerEntry).
THEOREM LedgersExplainBalances == Spec => []LedgerExplainsBalance
BY SettlementInvariant, PTL DEF SettlementInv

\* Every entry that is not an adjustment belongs to one allocated payment of its
\* amount, no payment is posted twice, and a top-up is credited exactly when one
\* payment is allocated to it and posted to its owner (acceptWalletTopup).
THEOREM EntriesAndPaymentsAgree == Spec => []EntriesMatchPayments
BY SettlementInvariant, PTL DEF SettlementInv

\* No step rewrites a payment, an allocation or a ledger entry: the inserts of the
\* code meet no existing row.
THEOREM EvidenceNeverRewritten == Spec => EvidenceIsFinal
<1>1. Spec => [][EvidenceKept]_vars
  BY SettlementInvariant, NextInv, PTL DEF Spec
<1> QED BY <1>1, PTL DEF EvidenceIsFinal, EvidenceKept

-----------------------------------------------------------------------------
(* The financial report.  That the entries of a wallet sum up to its balance   *)
(* is proved without induction over sequences: the steps of the system append  *)
(* the entries one by one, so the induction over steps does it, for every      *)
(* function that satisfies the recursive equation of SumWalletLedger.          *)

SumsUp(f, s) == f = [k \in 0..Len(s) |-> IF k = 0 THEN 0 ELSE f[k - 1] + s[k].amount]

SumIs(s, b) == \A f : SumsUp(f, s) => f[Len(s)] = b

SumsAreBalances == \A u \in Users : SumIs(ledger[u], balance[u])

\* One more entry, one more summand.
LEMMA SumOfAppended ==
  ASSUME NEW s, NEW r, NEW b, Len(s) \in Nat, Len(r) = Len(s) + 1,
         \A k \in 1..Len(s) : r[k] = s[k],
         SumIs(s, b)
  PROVE  SumIs(r, b + r[Len(r)].amount)
<1> SUFFICES ASSUME NEW f, SumsUp(f, r) PROVE f[Len(r)] = b + r[Len(r)].amount
  BY DEF SumIs
<1> DEFINE n == Len(s)
           g == [k \in 0..n |-> f[k]]
<1>1. f = [k \in 0..n + 1 |-> IF k = 0 THEN 0 ELSE f[k - 1] + r[k].amount]
  BY DEF SumsUp
<1>2. n \in Nat
  OBVIOUS
<1>3. \A k \in 0..n + 1 : f[k] = IF k = 0 THEN 0 ELSE f[k - 1] + r[k].amount
  BY <1>1, Zenon
<1>4. \A k \in 0..n : g[k] = f[k]
  OBVIOUS
<1>5. ASSUME NEW k \in 0..n
      PROVE  g[k] = IF k = 0 THEN 0 ELSE g[k - 1] + s[k].amount
  <2>1. k \in 0..n + 1 /\ (k # 0 => k - 1 \in 0..n /\ k \in 1..n)
    BY <1>2
  <2> HIDE DEF g
  <2> QED BY <1>3, <1>4, <1>5, <2>1
<1>6. SumsUp(g, s)
  <2> DEFINE h == [k \in 0..n |-> IF k = 0 THEN 0 ELSE g[k - 1] + s[k].amount]
  <2>1. \A k \in 0..n : g[k] = h[k]
    <3> HIDE DEF g
    <3> QED BY <1>5
  <2>2. g = h
    BY <2>1
  <2> QED BY <2>2 DEF SumsUp
<1>7. f[n] = b
  <2>1. g[n] = b
    BY <1>6 DEF SumIs
  <2> QED BY <1>2, <1>4, <2>1
<1>8. n + 1 \in 0..n + 1 /\ n + 1 # 0 /\ n + 1 - 1 = n
  BY <1>2
<1>9. Len(r) = n + 1
  OBVIOUS
<1>10. f[n + 1] = f[n + 1 - 1] + r[n + 1].amount
  <2> DEFINE m == n + 1
  <2>1. m \in 0..m /\ m # 0
    BY <1>8
  <2>2. \A k \in 0..m : f[k] = IF k = 0 THEN 0 ELSE f[k - 1] + r[k].amount
    BY <1>3
  <2> HIDE DEF m
  <2>3. f[m] = f[m - 1] + r[m].amount
    BY <2>1, <2>2
  <2> QED BY <2>3 DEF m
<1> HIDE DEF n, g
<1> QED BY <1>7, <1>8, <1>9, <1>10

\* A wallet moves only by a posting.
LEMMA WalletMoves ==
  ASSUME TypeOK, [Next]_vars
  PROVE  \/ UNCHANGED <<balance, ledger>>
         \/ \E u \in Users, amount \in Int, ref \in Transactions \cup {"adjustment"} :
              Post(u, amount, ref)
<1>1. CASE UNCHANGED vars
  BY <1>1 DEF vars
<1>2. CASE Next
  <2>1. StepCases
    BY <1>2, NextIsOneOfTheCases
  <2>2. CASE QuietStep
    BY <2>2, QuietEffect
  <2>3. ASSUME NEW o \in Orders, PayOrderWithWallet(o)
        PROVE  \E u \in Users, amount \in Int, ref \in Transactions \cup {"adjustment"} :
                 Post(u, amount, ref)
    <3>1. Post(Owner[o], -Total[o], o)
      BY <2>3 DEF PayOrderWithWallet
    <3> QED BY <3>1, TargetFacts
  <2>4. ASSUME NEW c \in Commands, NEW t \in Topups, AcceptWalletTopupPayment(c, t)
        PROVE  \E u \in Users, amount \in Int, ref \in Transactions \cup {"adjustment"} :
                 Post(u, amount, ref)
    <3>1. Post(Owner[t], c.amount, c.txn)
      BY <2>4 DEF AcceptWalletTopupPayment
    <3>2. c.amount \in Int
      OBVIOUS
    <3> QED BY <3>1, <3>2, TargetFacts, TransactionOfCommand
  <2>5. ASSUME NEW c \in Commands,
               \/ HandleExistingPayment(c) \/ AcceptUnmatched(c)
               \/ \E o \in Orders : \/ ReviewOrderPayment(c, o) \/ AcceptOrderPayment(c, o)
                                    \/ AcceptOrderShort(c, o)
               \/ \E t \in Topups : ReviewTopupPayment(c, t)
        PROVE  UNCHANGED <<balance, ledger>>
    BY <2>5 DEF HandleExistingPayment, AcceptUnmatched, ReviewOrderPayment, AcceptOrderPayment,
                AcceptOrderShort, ReviewTopupPayment
  <2>6. ASSUME NEW u \in Users, NEW amount \in Adjustments, AdjustWallet(u, amount)
        PROVE  Post(u, amount, "adjustment") /\ amount \in Int
    BY <2>6 DEF AdjustWallet
  <2>7. ASSUME \/ \E c \in Commands : CompleteIgnoredPaymentEvent(c)
               \/ \E c \in Commands, s \in Resolutions : ResolvePaymentReview(c, s)
               \/ \E i \in Items : ImportInventory(i) \/ SetInventoryItemEnabled(i)
        PROVE  UNCHANGED <<balance, ledger>>
    BY <2>7 DEF CompleteIgnoredPaymentEvent, ResolvePaymentReview, ImportInventory,
                SetInventoryItemEnabled
  <2> HIDE DEF Transactions
  <2> QED BY <2>1, <2>2, <2>3, <2>4, <2>5, <2>6, <2>7 DEF StepCases
<1> QED BY <1>1, <1>2

\* The sum of an empty ledger is the first balance.
LEMMA InitSums == Init => SumsAreBalances
<1> SUFFICES ASSUME Init, NEW u \in Users, NEW f, SumsUp(f, << >>) PROVE f[0] = 0
  BY DEF Init, SumsAreBalances, SumIs
<1>1. f = [k \in 0..0 |-> IF k = 0 THEN 0 ELSE f[k - 1] + << >>[k].amount]
  BY DEF SumsUp
<1> QED BY <1>1

\* Every step keeps the sums.
LEMMA NextSums == ASSUME TypeOK, SumsAreBalances, [Next]_vars PROVE SumsAreBalances'
<1>1. CASE UNCHANGED <<balance, ledger>>
  BY <1>1 DEF SumsAreBalances
<1>2. ASSUME NEW u \in Users, NEW amount \in Int, NEW ref \in Transactions \cup {"adjustment"},
             Post(u, amount, ref), NEW v \in Users
      PROVE  SumIs(ledger'[v], balance'[v])
  <2>1. CASE v # u
    <3>1. balance'[v] = balance[v] /\ ledger'[v] = ledger[v]
      BY <1>2, <2>1, PostType
    <3> QED BY <3>1 DEF SumsAreBalances
  <2>2. CASE v = u
    <3>1. /\ Len(ledger[u]) \in Nat /\ Len(ledger'[u]) = Len(ledger[u]) + 1
          /\ \A k \in 1..Len(ledger[u]) : ledger'[u][k] = ledger[u][k]
          /\ ledger'[u][Len(ledger[u]) + 1].amount = amount
          /\ balance'[u] = balance[u] + amount
      BY <1>2, PostType, EntryType
    <3>2. SumIs(ledger[u], balance[u])
      BY DEF SumsAreBalances
    <3>3. SumIs(ledger'[u], balance[u] + ledger'[u][Len(ledger'[u])].amount)
      BY <3>1, <3>2, SumOfAppended
    <3>4. balance'[u] = balance[u] + ledger'[u][Len(ledger'[u])].amount
      BY <3>1
    <3> QED BY <2>2, <3>3, <3>4
  <2> QED BY <2>1, <2>2
<1>3. ASSUME NEW u \in Users, NEW amount \in Int, NEW ref \in Transactions \cup {"adjustment"},
             Post(u, amount, ref)
      PROVE  SumsAreBalances'
  BY <1>2, <1>3 DEF SumsAreBalances
<1> QED BY <1>1, <1>3, WalletMoves

\* The balances an account went through solve the equation of the sum.
LEMMA SumExists ==
  ASSUME TypeOK, LedgerExplainsBalance, NEW u \in Users PROVE \E f : SumsUp(f, ledger[u])
<1> DEFINE n == Len(ledger[u])
           before(k) == IF k = 1 THEN 0 ELSE ledger[u][k - 1].after
           f == [k \in 0..n |-> IF k = 0 THEN 0 ELSE ledger[u][k].after]
           h == [k \in 0..n |-> IF k = 0 THEN 0 ELSE f[k - 1] + ledger[u][k].amount]
<1>1. n \in Nat
  BY EntryType
<1>2. \A k \in 1..n : ledger[u][k].after = before(k) + ledger[u][k].amount
  BY DEF LedgerExplainsBalance
<1> HIDE DEF n
<1>3. \A k \in 1..n : f[k - 1] = before(k)
  BY <1>1
<1>4. \A k \in 0..n : f[k] = h[k]
  <2>1. \A k \in 1..n : f[k] = ledger[u][k].after
    BY <1>1
  <2>2. \A k \in 1..n : h[k] = f[k - 1] + ledger[u][k].amount
    <3> HIDE DEF f
    <3> QED BY <1>1
  <2>3. f[0] = 0 /\ h[0] = 0
    BY <1>1
  <2> HIDE DEF f, h, before
  <2> QED BY <1>1, <1>2, <1>3, <2>1, <2>2, <2>3
<1>5. f = h
  BY <1>4
<1>6. SumsUp(f, ledger[u])
  BY <1>5 DEF SumsUp, n
<1> QED BY <1>6

\* What the report counts follows from the invariant and the sums.
LEMMA ReportFromInv == ASSUME SettlementInv, SumsAreBalances PROVE ReportIsExplained
<1> USE DEF SettlementInv
<1>1. ASSUME NEW u \in Users PROVE SumWalletLedger(u) = balance[u]
  <2>1. SumWalletLedger(u) = (CHOOSE f : SumsUp(f, ledger[u]))[Len(ledger[u])]
    BY DEF SumWalletLedger, SumsUp
  <2>2. \E f : SumsUp(f, ledger[u])
    BY SumExists
  <2>3. SumsUp(CHOOSE f : SumsUp(f, ledger[u]), ledger[u])
    BY <2>2, Zenon
  <2> QED BY <2>1, <2>3 DEF SumsAreBalances, SumIs
<1>2. {u \in Users : balance[u] # SumWalletLedger(u)} = {}
  BY <1>1
<1>3. ASSUME NEW c \in Commands, decision[c] = "completed", pay[c.txn] = NoPayment
      PROVE  c.direction = "outbound"
  <2>1. NoPayment.status # "confirmed"
    BY DEF NoPayment
  <2> QED BY <1>3, <2>1, TransactionOfCommand DEF MoneyIsAccounted
<1>4. {o \in Orders : /\ order[o] = "reserving"
                      /\ Cardinality(ListReservedInventoryIDsByOrder(o)) # Qty[o]} = {}
  BY DEF TypeOK, OrderStatus
<1>5. {c \in Commands : review[c].reason = ""} = {}
  <2>1. \A c \in Commands : review[c] \in Cases \/ review[c] = NoCase
    BY DEF TypeOK, Cases
  <2>2. NoCase.reason # ""
    BY Zenon DEF NoCase
  <2> QED BY <2>1, <2>2, CaseRecord, Zenon
<1>6. ASSUME NEW x \in Transactions, pay[x].status = "confirmed", alloc[x] = NoTarget,
             ~\E c \in ListOpenPaymentReviews : c.txn = x /\ review[c].linked
      PROVE  \E c \in Commands : c.txn = x /\ review[c].status = "resolved"
  <2>1. pay[x] # NoPayment
    BY <1>6 DEF NoPayment
  <2>2. PICK c \in Commands : c.txn = x /\ review[c].linked
    BY <1>6, <2>1 DEF MoneyIsAccounted
  <2>3. review[c] # NoCase
    BY <2>2 DEF NoCase
  <2>4. review[c].status \in {"open", "held", "resolved"}
    BY <2>3 DEF TypeOK
  <2>5. review[c].status \notin {"open", "held"}
    BY <1>6, <2>2 DEF ListOpenPaymentReviews
  <2> QED BY <2>2, <2>4, <2>5
<1> HIDE DEF SettlementInv
<1> QED BY <1>2, <1>3, <1>4, <1>5, <1>6 DEF ReportIsExplained, GetFinancialReconciliation

\* The financial report counts no money the code lost: a completed event without a
\* payment is an outbound transfer the event job ignored, the entries of every wallet
\* sum up to its balance, and a confirmed payment without allocation and without an
\* open case is one whose case an operator resolved (GetFinancialReconciliation).
THEOREM ReportsAreExplained == Spec => []ReportIsExplained
<1>1. Spec => []SumsAreBalances
  BY InitSums, NextSums, SettlementTypes, PTL DEF Spec
<1> QED BY <1>1, SettlementInvariant, ReportFromInv, PTL
=============================================================================
