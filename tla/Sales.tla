------------------------------- MODULE Sales -------------------------------
(***************************************************************************)
(* What the shop promises about money and goods, without payments tables,  *)
(* review cases, locks or retries:                                         *)
(*   - the goods of an order change hands in one step, all of them, for    *)
(*     its full price, which is either one bank transfer or the money of   *)
(*     its owner's wallet;                                                 *)
(*   - a wallet moves only by a top-up, once, by the purchase of an order, *)
(*     or by an administrator, and is never overdrawn;                     *)
(*   - an order that was sold, or that was given up, stays so.             *)
(* Settlement is shown to implement this specification.                    *)
(***************************************************************************)
EXTENDS Integers, FiniteSets

CONSTANTS Users, Orders, Topups, Items, Owner, Total, Qty, Product,
          Transfers,     \* bank transfers
          Adjustments

VARIABLES stage,         \* of an order: "none", "open", "given_up" or "sold"
          credited,      \* the top-ups whose money is in a wallet
          used,          \* the transfers that bought an order or filled a wallet
          shelf,         \* of an item: "off", "on" or the order it was sold to
          purse          \* the money of a user

vars == <<stage, credited, used, shelf, purse>>

Init ==
  /\ stage = [o \in Orders |-> "none"]
  /\ credited = {} /\ used = {}
  /\ shelf \in [Items -> {"off", "on"}]
  /\ purse = [u \in Users |-> 0]

Move(o, from, to) == stage[o] = from /\ stage' = [stage EXCEPT ![o] = to]

Open(o) == Move(o, "none", "open") /\ UNCHANGED <<credited, used, shelf, purse>>

\* Cancelled, expired or found out of stock: several orders may expire at once.
GiveUp(S) ==
  /\ \A o \in S : stage[o] = "open"
  /\ stage' = [o \in Orders |-> IF o \in S THEN "given_up" ELSE stage[o]]
  /\ UNCHANGED <<credited, used, shelf, purse>>

\* The exact quantity, of the product, from the shelf, for good.
HandOver(o) ==
  \E S \in SUBSET {i \in Items : shelf[i] = "on" /\ Product[i] = Product[o]} :
    /\ Cardinality(S) = Qty[o]
    /\ shelf' = [i \in Items |-> IF i \in S THEN o ELSE shelf[i]]

Spend(x) == x \notin used /\ used' = used \cup {x}

SellForTransfer(o, x) ==
  /\ Move(o, "open", "sold") /\ HandOver(o) /\ Spend(x)
  /\ UNCHANGED <<credited, purse>>

SellForWallet(o) ==
  /\ Move(o, "open", "sold") /\ HandOver(o)
  /\ purse[Owner[o]] >= Total[o]
  /\ purse' = [purse EXCEPT ![Owner[o]] = @ - Total[o]]
  /\ UNCHANGED <<credited, used>>

Deposit(t, x) ==
  /\ t \notin credited /\ credited' = credited \cup {t}
  /\ Spend(x)
  /\ purse' = [purse EXCEPT ![Owner[t]] = @ + Total[t]]
  /\ UNCHANGED <<stage, shelf>>

Adjust(u, amount) ==
  /\ purse[u] + amount >= 0
  /\ purse' = [purse EXCEPT ![u] = @ + amount]
  /\ UNCHANGED <<stage, credited, used, shelf>>

\* An administrator adds goods or withdraws them; sold goods never come back.
Restock(i) ==
  /\ shelf[i] \in {"off", "on"}
  /\ shelf' = [shelf EXCEPT ![i] = IF @ = "on" THEN "off" ELSE "on"]
  /\ UNCHANGED <<stage, credited, used, purse>>

Next ==
  \/ \E S \in SUBSET Orders : GiveUp(S)
  \/ \E o \in Orders : Open(o) \/ SellForWallet(o)
  \/ \E o \in Orders, x \in Transfers : SellForTransfer(o, x)
  \/ \E t \in Topups, x \in Transfers : Deposit(t, x)
  \/ \E u \in Users, amount \in Adjustments : Adjust(u, amount)
  \/ \E i \in Items : Restock(i)

Spec == Init /\ [][Next]_vars
=============================================================================
