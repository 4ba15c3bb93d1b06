------------------------ MODULE SettlementRefinement ------------------------
(***************************************************************************)
(* Settlement implements Sales, for any orders, top-ups, users, items and  *)
(* evidence: every step of the detailed specification is a step of the     *)
(* abstract one or leaves its five variables alone.  The proof uses the    *)
(* inductive invariant of SettlementProofs where a step of Sales demands   *)
(* what the code does not check in that step: that the transfer of a new   *)
(* payment has not bought anything before.                                 *)
(***************************************************************************)
EXTENDS SettlementProofs

USE SettlementAssumption, CommandAssumption DEF Targets, Transactions, wallet

\* The abstract state, by the names Sales gives it.
AbstractStage == [o \in Orders |-> Stage(o)]
AbstractCredited == {t \in Topups : topup[t] = "credited"}
AbstractUsed == {x \in Transactions \ Orders : alloc[x] # NoTarget}
AbstractShelf == [i \in Items |-> Shelf(i)]

abstract == <<AbstractStage, AbstractCredited, AbstractUsed, AbstractShelf, balance>>

\* A step that leaves the abstract state alone is a stutter of Sales.
LEMMA AbstractStutter == ASSUME UNCHANGED abstract PROVE UNCHANGED Promise!vars
BY DEF Promise!vars, abstract, AbstractStage, AbstractCredited, AbstractUsed, AbstractShelf

\* What an unchanged table means for the abstract state.
LEMMA StageKept == ASSUME UNCHANGED order PROVE UNCHANGED AbstractStage
BY DEF AbstractStage, Stage

\* Items that stay where they are.
LEMMA ShelfKept == ASSUME UNCHANGED inv PROVE UNCHANGED AbstractShelf
BY DEF AbstractShelf, Shelf

\* Transfers that buy nothing new.
LEMMA UsedKept ==
  ASSUME \A x \in Transactions \ Orders : alloc'[x] = alloc[x] PROVE UNCHANGED AbstractUsed
<1> HIDE DEF Transactions
<1> QED BY DEF AbstractUsed

\* Top-ups that are not credited.
LEMMA CreditedKept ==
  ASSUME \A t \in Topups : topup'[t] = "credited" <=> topup[t] = "credited"
  PROVE  UNCHANGED AbstractCredited
BY DEF AbstractCredited

\* An order is opened.
LEMMA StageOpened ==
  ASSUME TypeOK, NEW o \in Orders, order[o] = "none",
         order' = [order EXCEPT ![o] = "pending_payment"]
  PROVE  /\ AbstractStage[o] = "none"
         /\ AbstractStage' = [AbstractStage EXCEPT ![o] = "open"]
BY DEF AbstractStage, Stage, TypeOK

\* An order is sold.
LEMMA StageSold ==
  ASSUME TypeOK, NEW o \in Orders, MarkOrderPaidGuarded(o),
         UpdateOrderStatusGuarded(o, "delivering")
  PROVE  /\ AbstractStage[o] = "open"
         /\ AbstractStage' = [AbstractStage EXCEPT ![o] = "sold"]
BY DEF AbstractStage, Stage, TypeOK, MarkOrderPaidGuarded, UpdateOrderStatusGuarded

\* Pending orders are cancelled, expire or turn out to be out of stock.
EndsPending(S, s) ==
  /\ \A o \in S : order[o] = "pending_payment"
  /\ \A o \in Orders : order'[o] = IF o \in S THEN s ELSE order[o]

\* Cancelled, expired and out of stock are all given up.
LEMMA StageGivenUp ==
  ASSUME TypeOK, NEW S \in SUBSET Orders, NEW s \in {"cancelled", "expired", "out_of_stock"},
         EndsPending(S, s)
  PROVE  /\ \A o \in S : AbstractStage[o] = "open"
         /\ AbstractStage' = [o \in Orders |-> IF o \in S THEN "given_up" ELSE AbstractStage[o]]
BY DEF AbstractStage, Stage, TypeOK, EndsPending

\* Sales counts as Settlement does.
LEMMA SameCardinality == \A S : Promise!Cardinality(S) = Cardinality(S)
BY DEF Promise!Cardinality, Cardinality

\* The claimed items leave the shelf for the order.
LEMMA ShelfHandedOver ==
  ASSUME TypeOK, NEW o \in Orders, ClaimExactAvailableInventory(o)
  PROVE  Promise!HandOver(o)
<1>1. PICK S \in SUBSET Claimable(o) :
        /\ Cardinality(S) = Qty[o]
        /\ inv' = [i \in Items |-> IF i \in S THEN o ELSE inv[i]]
  BY DEF ClaimExactAvailableInventory
<1>2. \A i \in S : i \in Items /\ inv[i] = "available" /\ Product[i] = Product[o]
  BY DEF Claimable
<1>3. "available" \notin Orders
  OBVIOUS
<1>4. S \in SUBSET {i \in Items : [j \in Items |-> Shelf(j)][i] = "on" /\ Product[i] = Product[o]}
  BY <1>2, <1>3 DEF Shelf
<1>5. [i \in Items |-> Shelf(i)]' =
        [i \in Items |-> IF i \in S THEN o ELSE [j \in Items |-> Shelf(j)][i]]
  BY <1>1 DEF Shelf
<1>6. \E R \in SUBSET {i \in Items : [j \in Items |-> Shelf(j)][i] = "on" /\ Product[i] = Product[o]} :
        /\ Cardinality(R) = Qty[o]
        /\ [i \in Items |-> Shelf(i)]' =
             [i \in Items |-> IF i \in R THEN o ELSE [j \in Items |-> Shelf(j)][i]]
  BY <1>1, <1>4, <1>5, Zenon
<1> QED BY <1>6, SameCardinality DEF Promise!HandOver

\* The transfer of a new payment is spent, and no other.
LEMMA TransferSpent ==
  ASSUME SettlementInv, NEW c \in Commands, NEW y \in Targets, pay[c.txn] = NoPayment,
         InsertPaymentAllocation(c.txn, y)
  PROVE  /\ c.txn \in Transactions \ Orders
         /\ c.txn \notin AbstractUsed
         /\ AbstractUsed' = AbstractUsed \cup {c.txn}
<1>1. c.txn \in Transactions /\ c.txn \notin Orders /\ y # NoTarget
  BY TransactionOfCommand
<1>2. alloc[c.txn] = NoTarget
  BY <1>1, UnpaidFundsNothing DEF SettlementInv
<1>3. alloc'[c.txn] = y /\ \A x \in Transactions \ {c.txn} : alloc'[x] = alloc[x]
  BY <1>1, AllocationType DEF SettlementInv
<1> HIDE DEF Transactions, Targets
<1> QED BY <1>1, <1>2, <1>3 DEF AbstractUsed
-----------------------------------------------------------------------------
(* Every group of steps is a step of Sales, or leaves its state alone. *)

\* A step that moves neither money nor items opens or gives up orders, or is a stutter.
LEMMA QuietImplements ==
  ASSUME SettlementInv, QuietStep PROVE Promise!Next \/ UNCHANGED abstract
<1> USE DEF SettlementInv
<1>1. UNCHANGED <<AbstractCredited, AbstractUsed, AbstractShelf, balance>>
  <2>1. \A t \in Topups : topup'[t] = "credited" <=> topup[t] = "credited"
    BY QuietEffect
  <2>2. inv' = inv /\ alloc' = alloc /\ balance' = balance
    BY QuietEffect
  <2> QED BY <2>1, <2>2, CreditedKept, UsedKept, ShelfKept
<1>2. ASSUME NEW o \in Orders, CreateOrder(o) PROVE Promise!Next
  <2>1. AbstractStage[o] = "none" /\ AbstractStage' = [AbstractStage EXCEPT ![o] = "open"]
    BY <1>2, StageOpened DEF CreateOrder
  <2>2. Promise!Open(o)
    BY <1>1, <2>1 DEF Promise!Open, Promise!Move, AbstractStage, AbstractCredited,
                     AbstractUsed, AbstractShelf
  <2> QED BY <2>2 DEF Promise!Next
<1>3. ASSUME NEW S \in SUBSET Orders, NEW s \in {"cancelled", "expired", "out_of_stock"},
             EndsPending(S, s)
      PROVE  Promise!Next
  <2>1. /\ \A o \in S : AbstractStage[o] = "open"
        /\ AbstractStage' = [o \in Orders |-> IF o \in S THEN "given_up" ELSE AbstractStage[o]]
    BY <1>3, StageGivenUp
  <2>2. Promise!GiveUp(S)
    BY <1>1, <2>1 DEF Promise!GiveUp, AbstractStage, AbstractCredited, AbstractUsed, AbstractShelf
  <2> QED BY <2>2 DEF Promise!Next
<1>4. ASSUME NEW o \in Orders, Cancel(o) PROVE Promise!Next
  <2>1. order[o] = "pending_payment" /\ order' = [order EXCEPT ![o] = "cancelled"]
    BY <1>4 DEF Cancel, CancelPendingOrderOwnedGuarded
  <2> DEFINE S == {o}
  <2>2. \A p \in Orders : order'[p] = IF p \in S THEN "cancelled" ELSE order[p]
    BY <2>1 DEF TypeOK
  <2>3. S \in SUBSET Orders /\ \A p \in S : order[p] = "pending_payment"
    BY <2>1
  <2>4. EndsPending(S, "cancelled")
    BY <2>2, <2>3 DEF EndsPending
  <2> HIDE DEF S
  <2> QED BY <1>3, <2>3, <2>4
<1>5. CASE ExpireOverdueOrders
  <2>1. PICK S \in SUBSET ClaimOverduePendingOrders :
          order' = [o \in Orders |-> IF o \in S THEN "expired" ELSE order[o]]
    BY <1>5 DEF ExpireOverdueOrders
  <2>2. S \in SUBSET Orders /\ EndsPending(S, "expired")
    BY <2>1 DEF ClaimOverduePendingOrders, EndsPending
  <2> QED BY <1>3, <2>2
<1>6. CASE UNCHANGED order
  BY <1>1, <1>6, StageKept DEF abstract
<1>7. \/ UNCHANGED order \/ ExpireOverdueOrders
      \/ \E o \in Orders : CreateOrder(o) \/ Cancel(o)
  BY DEF QuietStep, RequestWalletPayment, CreateWalletTopup, Lapse
<1> QED BY <1>2, <1>4, <1>5, <1>6, <1>7

\* Evidence that funds nothing: an order without stock is given up, the rest is
\* invisible.
LEMMA ReviewImplements ==
  ASSUME SettlementInv, NEW c \in Commands,
         \/ HandleExistingPayment(c) \/ AcceptUnmatched(c)
         \/ \E o \in Orders : ReviewOrderPayment(c, o) \/ AcceptOrderShort(c, o)
         \/ \E t \in Topups : ReviewTopupPayment(c, t)
  PROVE  Promise!Next \/ UNCHANGED abstract
<1> USE DEF SettlementInv
<1>1. UNCHANGED <<inv, alloc, balance>>
  BY DEF HandleExistingPayment, AcceptUnmatched, ReviewOrderPayment, AcceptOrderShort,
         ReviewTopupPayment
<1>2. \A t \in Topups : topup'[t] = "credited" <=> topup[t] = "credited"
  <2>1. CASE UNCHANGED topup
    BY <2>1
  <2>2. CASE \E t \in Topups : MarkWalletTopupReview(t)
    BY <2>2 DEF MarkWalletTopupReview, TypeOK
  <2> QED BY <2>1, <2>2 DEF HandleExistingPayment, AcceptUnmatched, ReviewOrderPayment,
                            AcceptOrderShort, ReviewTopupPayment
<1>3. UNCHANGED <<AbstractCredited, AbstractUsed, AbstractShelf, balance>>
  BY <1>1, <1>2, CreditedKept, UsedKept, ShelfKept
<1>4. ASSUME NEW o \in Orders, AcceptOrderShort(c, o) PROVE Promise!Next
  <2>1. order[o] = "pending_payment" /\ order' = [order EXCEPT ![o] = "out_of_stock"]
    BY <1>4 DEF AcceptOrderShort, MarkOrderPaidGuarded, UpdateOrderStatusGuarded
  <2> DEFINE S == {o}
  <2>2. \A p \in Orders : order'[p] = IF p \in S THEN "out_of_stock" ELSE order[p]
    BY <2>1 DEF TypeOK
  <2>3. S \in SUBSET Orders /\ \A p \in S : order[p] = "pending_payment"
    BY <2>1
  <2> HIDE DEF S
  <2>4. /\ \A p \in S : AbstractStage[p] = "open"
        /\ AbstractStage' = [p \in Orders |-> IF p \in S THEN "given_up" ELSE AbstractStage[p]]
    BY <2>2, <2>3, StageGivenUp DEF EndsPending
  <2>5. Promise!GiveUp(S)
    BY <1>3, <2>4 DEF Promise!GiveUp, AbstractStage, AbstractCredited, AbstractUsed, AbstractShelf
  <2> QED BY <2>3, <2>5 DEF Promise!Next
<1>5. CASE UNCHANGED order
  BY <1>3, <1>5, StageKept DEF abstract
<1> QED BY <1>4, <1>5 DEF HandleExistingPayment, AcceptUnmatched, ReviewOrderPayment,
                          ReviewTopupPayment

\* A transfer buys an order.
LEMMA OrderPaymentImplements ==
  ASSUME SettlementInv, NEW c \in Commands, NEW o \in Orders, AcceptOrderPayment(c, o)
  PROVE  Promise!Next
<1> USE DEF SettlementInv
<1>1. /\ pay[c.txn] = NoPayment
      /\ InsertPaymentAllocation(c.txn, o)
      /\ MarkOrderPaidGuarded(o) /\ UpdateOrderStatusGuarded(o, "delivering")
      /\ ClaimExactAvailableInventory(o)
      /\ UNCHANGED <<topup, balance>>
  BY DEF AcceptOrderPayment, InsertPayment
<1>2. AbstractStage[o] = "open" /\ AbstractStage' = [AbstractStage EXCEPT ![o] = "sold"]
  BY <1>1, StageSold
<1>3. Promise!HandOver(o)
  BY <1>1, ShelfHandedOver
<1>4. c.txn \in Transactions \ Orders /\ c.txn \notin AbstractUsed
      /\ AbstractUsed' = AbstractUsed \cup {c.txn}
  BY <1>1, TransferSpent, TargetFacts
<1>5. UNCHANGED <<AbstractCredited, balance>>
  BY <1>1, CreditedKept
<1> HIDE DEF Transactions
<1>6. Promise!Move(o, "open", "sold")
  BY <1>2 DEF Promise!Move, AbstractStage
<1>7. Promise!Spend(c.txn)
  BY <1>4 DEF Promise!Spend, AbstractUsed
<1>8. Promise!SellForTransfer(o, c.txn)
  BY <1>3, <1>5, <1>6, <1>7 DEF Promise!SellForTransfer, AbstractCredited
<1> QED BY <1>4, <1>8 DEF Promise!Next

\* The wallet buys an order: no transfer is spent.
LEMMA WalletPaymentImplements ==
  ASSUME SettlementInv, NEW o \in Orders, PayOrderWithWallet(o)
  PROVE  Promise!Next
<1> USE DEF SettlementInv
<1>1. /\ InsertPaymentAllocation(o, o)
      /\ MarkOrderPaidGuarded(o) /\ UpdateOrderStatusGuarded(o, "delivering")
      /\ ClaimExactAvailableInventory(o)
      /\ Post(Owner[o], -Total[o], o)
      /\ UNCHANGED topup
  BY DEF PayOrderWithWallet
<1>2. AbstractStage[o] = "open" /\ AbstractStage' = [AbstractStage EXCEPT ![o] = "sold"]
  BY <1>1, StageSold
<1>3. Promise!HandOver(o)
  BY <1>1, ShelfHandedOver
<1>4. UNCHANGED AbstractUsed
  <2>1. \A x \in Transactions \ Orders : alloc'[x] = alloc[x]
    <3>1. o \in Transactions /\ o \in Targets /\ TypeOK
      BY TargetFacts
    <3> HIDE DEF Transactions, Targets
    <3> QED BY <1>1, <3>1, AllocationType
  <2> QED BY <2>1, UsedKept
<1>5. UNCHANGED AbstractCredited
  BY <1>1, CreditedKept
<1>6. balance[Owner[o]] >= Total[o]
      /\ balance' = [balance EXCEPT ![Owner[o]] = balance[Owner[o]] - Total[o]]
  <2>1. Owner[o] \in Users /\ Total[o] \in Nat /\ balance \in [Users -> Nat]
    BY TargetFacts DEF TypeOK
  <2>2. balance[Owner[o]] + (-Total[o]) >= 0
        /\ balance' = [balance EXCEPT ![Owner[o]] = balance[Owner[o]] + (-Total[o])]
    BY <1>1 DEF Post, UpdateWalletBalance
  <2>3. balance[Owner[o]] + (-Total[o]) = balance[Owner[o]] - Total[o]
        /\ balance[Owner[o]] >= Total[o]
    BY <2>1, <2>2
  <2> QED BY <2>2, <2>3
<1> HIDE DEF Transactions
<1>7. Promise!Move(o, "open", "sold")
  BY <1>2 DEF Promise!Move, AbstractStage
<1>8. Promise!SellForWallet(o)
  BY <1>3, <1>4, <1>5, <1>6, <1>7 DEF Promise!SellForWallet, AbstractCredited, AbstractUsed
<1> QED BY <1>8 DEF Promise!Next

\* A transfer fills a wallet.
LEMMA TopupPaymentImplements ==
  ASSUME SettlementInv, NEW c \in Commands, NEW t \in Topups, AcceptWalletTopupPayment(c, t)
  PROVE  Promise!Next
<1> USE DEF SettlementInv
<1>1. /\ pay[c.txn] = NoPayment /\ c.amount = Total[t]
      /\ InsertPaymentAllocation(c.txn, t)
      /\ MarkWalletTopupCredited(t)
      /\ Post(Owner[t], c.amount, c.txn)
      /\ UNCHANGED <<order, inv>>
  BY DEF AcceptWalletTopupPayment, InsertPayment, TopupReviewReason
<1>2. t \notin AbstractCredited /\ AbstractCredited' = AbstractCredited \cup {t}
  BY <1>1 DEF MarkWalletTopupCredited, AbstractCredited, TypeOK
<1>3. c.txn \in Transactions \ Orders /\ c.txn \notin AbstractUsed
      /\ AbstractUsed' = AbstractUsed \cup {c.txn}
  BY <1>1, TransferSpent, TargetFacts
<1>4. UNCHANGED <<AbstractStage, AbstractShelf>>
  BY <1>1, StageKept, ShelfKept
<1>5. balance' = [balance EXCEPT ![Owner[t]] = balance[Owner[t]] + Total[t]]
  BY <1>1 DEF Post, UpdateWalletBalance
<1> HIDE DEF Transactions
<1>6. Promise!Spend(c.txn)
  BY <1>3 DEF Promise!Spend, AbstractUsed
<1>7. Promise!Deposit(t, c.txn)
  BY <1>2, <1>4, <1>5, <1>6 DEF Promise!Deposit, AbstractCredited, AbstractStage, AbstractShelf
<1> QED BY <1>3, <1>7 DEF Promise!Next

\* Adjustments move a purse, imports and switches move an item, cases are invisible.
LEMMA AdminImplements ==
  ASSUME SettlementInv,
         \/ \E u \in Users, amount \in Adjustments : AdjustWallet(u, amount)
         \/ \E c \in Commands, s \in Resolutions : ResolvePaymentReview(c, s)
         \/ \E i \in Items : ImportInventory(i) \/ SetInventoryItemEnabled(i)
  PROVE  Promise!Next \/ UNCHANGED abstract
<1> USE DEF SettlementInv
<1>1. UNCHANGED <<order, topup, alloc>>
  BY DEF AdjustWallet, ResolvePaymentReview, ImportInventory, SetInventoryItemEnabled
<1>2. UNCHANGED <<AbstractStage, AbstractCredited, AbstractUsed>>
  BY <1>1, StageKept, CreditedKept, UsedKept
<1>3. ASSUME NEW u \in Users, NEW amount \in Adjustments, AdjustWallet(u, amount)
      PROVE  Promise!Next
  <2>1. UNCHANGED AbstractShelf
    BY <1>3, ShelfKept DEF AdjustWallet
  <2>2. Promise!Adjust(u, amount)
    BY <1>2, <1>3, <2>1 DEF Promise!Adjust, AdjustWallet, Post, UpdateWalletBalance,
                           AbstractStage, AbstractCredited, AbstractUsed, AbstractShelf
  <2> QED BY <2>2 DEF Promise!Next
<1>4. ASSUME NEW c \in Commands, NEW s \in Resolutions, ResolvePaymentReview(c, s)
      PROVE  UNCHANGED abstract
  <2>1. UNCHANGED <<inv, balance>>
    BY <1>4 DEF ResolvePaymentReview
  <2> QED BY <1>2, <2>1, ShelfKept DEF abstract
<1>5. ASSUME NEW i \in Items, ImportInventory(i) \/ SetInventoryItemEnabled(i)
      PROVE  Promise!Next
  <2>1. /\ UNCHANGED balance
        /\ \/ inv[i] \in {"absent", "disabled"} /\ inv' = [inv EXCEPT ![i] = "available"]
           \/ inv[i] = "available" /\ inv' = [inv EXCEPT ![i] = "disabled"]
    BY <1>5 DEF ImportInventory, SetInventoryItemEnabled, InsertEncryptedInventoryItem,
                DisableAvailableInventoryItem, EnableDisabledInventoryItem
  <2>2. /\ AbstractShelf[i] \in {"off", "on"}
        /\ AbstractShelf' = [AbstractShelf EXCEPT ![i] = IF AbstractShelf[i] = "on"
                                                         THEN "off" ELSE "on"]
    <3>1. "available" \notin Orders /\ "absent" \notin Orders /\ "disabled" \notin Orders
          /\ inv \in [Items -> {"absent", "available", "disabled"} \cup Orders]
      BY DEF TypeOK
    <3>2. CASE inv[i] \in {"absent", "disabled"} /\ inv' = [inv EXCEPT ![i] = "available"]
      BY <3>1, <3>2 DEF AbstractShelf, Shelf
    <3>3. CASE inv[i] = "available" /\ inv' = [inv EXCEPT ![i] = "disabled"]
      BY <3>1, <3>3 DEF AbstractShelf, Shelf
    <3> QED BY <2>1, <3>2, <3>3
  <2>3. Promise!Restock(i)
    BY <1>2, <2>1, <2>2 DEF Promise!Restock, AbstractStage, AbstractCredited, AbstractUsed,
                            AbstractShelf
  <2> QED BY <2>3 DEF Promise!Next
<1> QED BY <1>3, <1>4, <1>5

\* An outbound transfer that is ignored is no step of a sale.
LEMMA IgnoredStutters ==
  ASSUME NEW c \in Commands, CompleteIgnoredPaymentEvent(c) PROVE UNCHANGED abstract
<1>1. UNCHANGED <<order, topup, inv, alloc, balance>>
  BY DEF CompleteIgnoredPaymentEvent
<1> QED BY <1>1, StageKept, CreditedKept, UsedKept, ShelfKept DEF abstract

\* Every step of Settlement is a step or a stutter of Sales.
LEMMA NextImplements ==
  ASSUME SettlementInv, [Next]_vars PROVE [Promise!Next]_(Promise!vars)
<1>1. CASE UNCHANGED vars
  <2>1. UNCHANGED <<order, topup, inv, alloc, balance>>
    BY <1>1 DEF vars
  <2>2. UNCHANGED abstract
    BY <2>1, StageKept, CreditedKept, UsedKept, ShelfKept DEF abstract
  <2> QED BY <2>2, AbstractStutter
<1>2. CASE Next
  <2>1. Promise!Next \/ UNCHANGED abstract
    BY <1>2, NextIsOneOfTheCases, QuietImplements, ReviewImplements, OrderPaymentImplements,
       WalletPaymentImplements, TopupPaymentImplements, AdminImplements, IgnoredStutters
       DEF StepCases
  <2> QED BY <2>1, AbstractStutter
<1> QED BY <1>1, <1>2

\* The first states of Settlement are first states of Sales.
LEMMA InitImplements == Init => Promise!Init
BY DEF Init, Promise!Init, Stage, Shelf

\* Settlement implements Sales (KeepsThePromise of runs settlement and
\* settlement_wallet): whatever the number of orders, top-ups, users and items and
\* whatever the evidence, goods and money change hands in single steps, the full
\* price for the full quantity, and a transfer buys once.
THEOREM SettlementKeepsThePromise == Spec => KeepsThePromise
BY InitImplements, NextImplements, SettlementInvariant, PTL DEF Spec, KeepsThePromise, Promise!Spec
=============================================================================
