-------------------------------- MODULE Locks --------------------------------
(***************************************************************************)
(* The row locks of the database transactions, in the order in which each  *)
(* transaction takes them: explicit FOR UPDATE and FOR SHARE, the locks of *)
(* updates, the FOR KEY SHARE of foreign keys, SKIP LOCKED, and the waits  *)
(* in unique indexes: who writes an entry waits for an equal one that is   *)
(* not committed, and for a change of the row that has it.                 *)
(*                                                                         *)
(* Every transaction meets the others on one customer, one order and the   *)
(* rows around them.  PostgreSQL ends one transaction of a wait cycle; the *)
(* Transactor returns its error and tries nothing again, but the payment   *)
(* worker schedules its event once more.                                   *)
(***************************************************************************)
EXTENDS Naturals, Sequences, FiniteSets

CONSTANTS Connections,  \* how many connections run transactions
          None,
          TxBound,      \* bound on the transactions besides the acceptance of the event
          MaxAttempts   \* max_attempts of the payment event

ASSUME LocksAssumption ==
  Connections \in Nat \ {0} /\ TxBound \in Nat /\ MaxAttempts \in Nat \ {0}

VARIABLES
  kind,      \* the transaction a connection runs, or None
  program,   \* the locks it has still to take
  held,      \* triples of connection, row and mode
  event,     \* the payment event: "received", "processing", "decided" or "failed"
  attempts,
  met,       \* the connections whose transactions the retry delay still outlasts
  started,   \* transactions started so far, the acceptances of the event apart
  rivals     \* how many of them an acceptance of the event can be in a cycle with

Txs == 1..Connections
vars == <<kind, program, held, event, attempts, met, started, rivals>>
-----------------------------------------------------------------------------
(* The transactions as sequences of lock requests. *)

\* The four row lock modes by strength.
KeyShareMode == 1
ShareMode == 2
NoKeyUpdateMode == 3
UpdateMode == 4

Request(r, m, s) == [row |-> r, mode |-> m, skip |-> s]
Lock(r) == Request(r, UpdateMode, FALSE)         \* FOR UPDATE
Skip(r) == Request(r, UpdateMode, TRUE)          \* FOR UPDATE SKIP LOCKED
Write(r) == Request(r, NoKeyUpdateMode, FALSE)   \* UPDATE of no key column
Share(r) == Request(r, ShareMode, FALSE)         \* FOR SHARE
Refer(r) == Request(r, KeyShareMode, FALSE)      \* the check of a foreign key

\* Left out, because nobody can be in a cycle through them: the session, the first lock
\* of an administrator's transaction (every one of them has a session of its own here);
\* the receipt of the update, the last lock of a handler; the review case, written under
\* the lock of its event or by an administrator who locks nothing after it; and the
\* entries of an index that are only written under a lock that is held already, such as
\* the payment of an event.  Payment references are random and taken as distinct.

\* The acceptance of event e for an order: accepted, reviewed for want of stock,
\* reviewed at once, or decided by a payment that exists already (handleExistingPayment
\* refers to its order without having locked it).
AcceptOrder(e) ==
  {<<Lock(e), Lock("order"), Refer("user"), Skip("item")>>,
   <<Lock(e), Lock("order"), Refer("user"), Skip("item"), Refer("mapping")>>,
   <<Lock(e), Lock("order"), Refer("user"), Refer("mapping")>>,
   <<Lock(e), Refer("order"), Refer("mapping")>>}
\* The same for a top-up.
AcceptTopup(e) ==
  {<<Lock(e), Lock("topup"), Refer("user"), Lock("wallet")>>,
   <<Lock(e), Lock("topup"), Refer("user"), Refer("mapping")>>,
   <<Lock(e), Refer("topup"), Refer("mapping")>>}

\* The transfer that is followed here, and another one for the same order or customer.
AcceptPayment == AcceptOrder("event")
AcceptSecondPayment ==
  AcceptOrder("second_event") \cup AcceptTopup("second_event")
    \cup {<<Lock("second_event"), Refer("mapping")>>}

\* An operator's confirmation has no event and no mapping; "payment" is the entry of the
\* transaction number that was typed.  When the number turns out to be another order's,
\* the review refers to that order, with the order or top-up of the typed reference held.
ManualAcceptPayment ==
  {<<Lock("order"), Lock("payment"), Refer("user"), Skip("item")>>,
   <<Lock("topup"), Lock("payment"), Refer("user"), Lock("wallet")>>,
   <<Refer("order")>>, <<Lock("topup"), Refer("order")>>,
   <<Lock("order"), Refer("second_order")>>, <<Lock("second_order"), Refer("order")>>}

\* RecordPaymentEventConflict and ReviewPaymentEvent; the first knows no mapping.
ReviewPaymentEvent == {<<Lock("event"), Refer("mapping")>>}
AttachPaymentEventProviderAccount == {<<Write("event"), Refer("mapping")>>}

\* ON CONFLICT (user_id) DO UPDATE SET user_id: the wallet is locked like FOR UPDATE.
\* EnsureWallet is the same without the bank account.
CreateWalletTopup == {<<Lock("user"), Lock("wallet"), Share("bank")>>}
PayOrderWithWallet == {<<Lock("user"), Lock("order"), Lock("wallet"), Skip("item")>>}
AdjustWallet == {<<Lock("user"), Lock("wallet")>>}

UpsertTelegramUser == {<<Write("user")>>}
\* "key" is the idempotency key of the press in the unique index of the orders.  A late
\* copy of the press waits for whoever changes the order the first copy has created.
CreateOrder ==
  {<<Share("user"), Share("product"), Share("category"), Share("bank"), last>> :
     last \in {Lock("key"), Refer("order")}}
CancelOrder == {<<Lock("order")>>}
\* So does BackfillDeliveryJobs.
ExpireOverdueOrders == {<<Skip("order")>>}

BeginDeliveryAttempt == {<<Write("job"), Refer("order")>>}
RecoverStaleDeliveryJobs == {<<Skip("job"), Refer("order")>>}
FinalizeDelivery == {<<Lock("job"), Lock("order"), Lock("item")>>}
CompleteDeliveryOrderFirst == {<<Lock("order"), Lock("job"), Lock("item")>>}
\* RetryDelivery leaves the items alone.
CompleteDelivery == {<<Lock("job"), Lock("order"), Lock("item")>>}

\* A name is the entry of a category and a slug in the unique index of the products: a
\* product leaves one and takes the other when it moves to another category.
UpdateCategory == {<<Lock("category")>>}
CreateProduct == {<<Lock("name"), Refer("category")>>}
UpdateProduct ==
  {<<Lock("product"), Lock("name"), Lock("second_name"), Refer("category")>>,
   <<Lock("second_product"), Lock("second_name"), Lock("name"), Refer("category")>>}

\* The lines of an import are inserted as they were typed; each is an entry in the unique
\* index of the product's fingerprints.  One of them may equal an item that exists and
\* is being changed.
ImportInventory ==
  {<<Lock("line"), Refer("product"), Lock("second_line")>>,
   <<Lock("second_line"), Refer("product"), Lock("line")>>,
   <<Lock("line"), Refer("product"), Refer("item")>>}
SetInventoryItemEnabled == {<<Lock("item")>>}

\* A number is the fingerprint of an account number in the unique index of the bank
\* accounts: the account leaves one and takes the other when the number is corrected.
UpdateBankAccount ==
  {<<Lock("bank"), Lock("number"), Lock("second_number")>>,
   <<Lock("second_bank"), Lock("second_number"), Lock("number")>>}

\* "active_bank" is the entry of the bank account in the partial unique index of the
\* active mappings, "identity" that of the provider's account in its index; the second
\* may also be that of a mapping which is being switched.
CreatePaymentProviderAccount ==
  {<<Lock("bank"), Lock("identity"), Lock("active_bank")>>,
   <<Lock("second_bank"), Lock("identity")>>,
   <<Lock("bank"), Refer("mapping")>>}
SetPaymentProviderAccountStatus == {<<Lock("mapping"), Lock("active_bank"), Lock("bank")>>}

Programs ==
  [AcceptSecondPayment |-> AcceptSecondPayment, ManualAcceptPayment |-> ManualAcceptPayment,
   ReviewPaymentEvent |-> ReviewPaymentEvent,
   AttachPaymentEventProviderAccount |-> AttachPaymentEventProviderAccount,
   CreateWalletTopup |-> CreateWalletTopup,
   PayOrderWithWallet |-> PayOrderWithWallet, AdjustWallet |-> AdjustWallet,
   UpsertTelegramUser |-> UpsertTelegramUser, CreateOrder |-> CreateOrder,
   CancelOrder |-> CancelOrder, ExpireOverdueOrders |-> ExpireOverdueOrders,
   BeginDeliveryAttempt |-> BeginDeliveryAttempt,
   RecoverStaleDeliveryJobs |-> RecoverStaleDeliveryJobs,
   FinalizeDelivery |-> FinalizeDelivery, CompleteDelivery |-> CompleteDelivery,
   UpdateCategory |-> UpdateCategory, CreateProduct |-> CreateProduct,
   UpdateProduct |-> UpdateProduct, ImportInventory |-> ImportInventory,
   SetInventoryItemEnabled |-> SetInventoryItemEnabled, UpdateBankAccount |-> UpdateBankAccount,
   CreatePaymentProviderAccount |-> CreatePaymentProviderAccount,
   SetPaymentProviderAccountStatus |-> SetPaymentProviderAccountStatus]

Kinds == DOMAIN Programs

ASSUME NoneAssumption == None \notin Kinds \cup {"AcceptPayment"}
-----------------------------------------------------------------------------
(* Row locks. *)

\* PostgreSQL's table of conflicting modes: two modes go together when their strengths
\* add up to at most 4.
Conflicts(m, n) == m + n > 4

\* The connections whose locks stand in the way of a request of s.
Blockers(s, q) ==
  {h[1] : h \in {x \in held : x[1] # s /\ x[2] = q.row /\ Conflicts(x[3], q.mode)}}

WaitsFor(s) ==
  IF program[s] = <<>> \/ Head(program[s]).skip THEN {} ELSE Blockers(s, Head(program[s]))

\* The cycles of waiting transactions: the smallest sets whose members all wait for a
\* member.
Cycles ==
  LET waits == [s \in Txs |-> WaitsFor(s)]
      waiting == {s \in Txs : waits[s] # {}}
      knots == {S \in SUBSET waiting : S # {} /\ \A s \in S : waits[s] \cap S # {}}
  IN {S \in knots : \A K \in knots : K \subseteq S => K = S}

Init ==
  /\ kind = [s \in Txs |-> None]
  /\ program = [s \in Txs |-> <<>>]
  /\ held = {}
  /\ event = "received" /\ attempts = 0 /\ met = {} /\ started = 0 /\ rivals = 0
-----------------------------------------------------------------------------
\* The pool hands out the first free connection; which one does not matter.
Free(s) == kind[s] = None /\ \A t \in 1..(s - 1) : kind[t] # None

\* A transaction that waits for its first lock holds up nobody: it begins with it.
Start(s, k, p) ==
  /\ Free(s) /\ Blockers(s, Head(p)) = {}
  /\ kind' = [kind EXCEPT ![s] = k]
  /\ program' = [program EXCEPT ![s] = Tail(p)]
  /\ held' = held \cup {<<s, Head(p).row, Head(p).mode>>}

\* The kinds that can be in a cycle with an acceptance of the event.
Rivals == {"PayOrderWithWallet", "SetPaymentProviderAccountStatus"}

Begin(s, k) ==
  /\ started < TxBound
  /\ \E p \in Programs[k] : Start(s, k, p)
  /\ started' = started + 1
  /\ rivals' = IF k \in Rivals THEN rivals + 1 ELSE rivals
  /\ UNCHANGED <<event, attempts, met>>

\* The payment worker has claimed the event and accepts its payment of the order.  The
\* retry delay is seconds and doubles: the transactions that ran when it began are taken
\* to have ended by then.
BeginAcceptance(s) ==
  /\ event = "received" /\ met = {}
  /\ \E p \in AcceptPayment : Start(s, "AcceptPayment", p)
  /\ event' = "processing" /\ attempts' = attempts + 1
  /\ UNCHANGED <<met, started, rivals>>

TakeLock(s) ==
  /\ kind[s] # None /\ program[s] # <<>> /\ WaitsFor(s) = {}
  /\ program' = [program EXCEPT ![s] = Tail(@)]
  /\ held' = LET q == Head(program[s])
             IN IF Blockers(s, q) = {} THEN held \cup {<<s, q.row, q.mode>>} ELSE held
  /\ UNCHANGED <<kind, event, attempts, met, started, rivals>>

\* Commit and rollback give every lock back.
Release(s) ==
  /\ kind' = [kind EXCEPT ![s] = None]
  /\ program' = [program EXCEPT ![s] = <<>>]
  /\ held' = {h \in held : h[1] # s}
  /\ UNCHANGED <<started, rivals>>

\* The transaction accepts the event that is followed here.
Accepting(s) == kind[s] = "AcceptPayment"

Commit(s) ==
  /\ kind[s] # None /\ program[s] = <<>>
  /\ Release(s)
  /\ event' = IF Accepting(s) THEN "decided" ELSE event
  /\ met' = met \ {s}
  /\ UNCHANGED attempts

\* An early return, an error or a death ends a transaction between two requests.
EndEarly(s) ==
  /\ kind[s] # None /\ ~Accepting(s) /\ program[s] # <<>> /\ WaitsFor(s) = {}
  /\ Release(s)
  /\ met' = met \ {s}
  /\ UNCHANGED <<event, attempts>>

\* The worker tries again at once.
VictimAtOnce(s) ==
  /\ WaitsFor(s) # {} /\ \E S \in Cycles : s \in S
  /\ Release(s)
  /\ event' = IF ~Accepting(s) THEN event
              ELSE IF attempts >= MaxAttempts THEN "failed" ELSE "received"
  /\ met' = met \ {s}
  /\ UNCHANGED attempts

\* PostgreSQL ends a transaction of a cycle.  The payment worker takes the error for a
\* failed acceptance and schedules the event again, as often as its attempts allow.
Victim(s) ==
  /\ WaitsFor(s) # {} /\ \E S \in Cycles : s \in S
  /\ Release(s)
  /\ event' = IF ~Accepting(s) THEN event
              ELSE IF attempts >= MaxAttempts THEN "failed" ELSE "received"
  /\ met' = IF Accepting(s) THEN {x \in Txs \ {s} : kind[x] # None} ELSE met \ {s}
  /\ UNCHANGED attempts

Next ==
  \E s \in Txs : \/ BeginAcceptance(s) \/ TakeLock(s) \/ Commit(s) \/ EndEarly(s) \/ Victim(s)
                 \/ \E k \in Kinds : Begin(s, k)

\* The worker polls, statements return, and PostgreSQL looks for cycles.  There are only
\* so many transactions, so fairness to each of them would say no more.
Fairness ==
  /\ WF_vars(\E s \in Txs : BeginAcceptance(s))
  /\ WF_vars(\E s \in Txs : TakeLock(s) \/ Commit(s))
  /\ WF_vars(\E s \in Txs : Victim(s))

Spec == Init /\ [][Next]_vars /\ Fairness
-----------------------------------------------------------------------------
(* Properties *)

\* The waits at which a cycle of lock requests closes: who waits, for which row, and who
\* has it.
KnownWaits ==
  {<<"AcceptPayment", "user", "PayOrderWithWallet">>,
   <<"AcceptSecondPayment", "user", "PayOrderWithWallet">>,
   <<"ManualAcceptPayment", "user", "PayOrderWithWallet">>,
   <<"ManualAcceptPayment", "second_order", "ManualAcceptPayment">>,
   <<"SetPaymentProviderAccountStatus", "bank", "CreatePaymentProviderAccount">>,
   <<"SetPaymentProviderAccountStatus", "bank", "CreateOrder">>,
   <<"UpdateBankAccount", "number", "UpdateBankAccount">>,
   <<"UpdateProduct", "name", "UpdateProduct">>,
   <<"ImportInventory", "line", "ImportInventory">>}

\* The transactions only deadlock in known ways, each cycle through one of these waits: a
\* wallet payment locks the customer and then the order, an acceptance locks the order
\* and then refers to the customer; a mapping is switched before its bank account is
\* locked, and created, or an order placed, with the bank account locked first; and two
\* transactions of one kind take two entries of a unique index in opposite order (lines
\* of an import, account numbers, products that change places, confirmations typed with
\* each other's transaction numbers).
DeadlocksAreKnown ==
  \A S \in Cycles :
    \E s \in S : \E t \in S \cap WaitsFor(s) :
      <<kind[s], Head(program[s]).row, kind[t]>> \in KnownWaits

\* An acceptance can be the victim again and again, and with its last attempt the event
\* is failed.  But every attempt it loses takes a wallet payment or a switching of its
\* own, because the retry delay outlasts the ones it met: with fewer of them than
\* attempts the payment is accepted.
PaymentSurvivesDeadlocks ==
  <>(event = "decided" \/ (event = "failed" /\ rivals >= MaxAttempts))
=============================================================================
