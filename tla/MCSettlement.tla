---------------------------- MODULE MCSettlement ----------------------------
(* Small instances of Settlement. *)
EXTENDS Settlement, TLC

CONSTANTS o1, o2, t1, t2, u1, i1, i2

Cmd(id, event, txn, ref, amount, routed) ==
  [id |-> id, event |-> event, direction |-> "inbound", txn |-> txn, ref |-> ref,
   amount |-> amount, currency |-> "VND", routed |-> routed]

\* The shop pays somebody else, with an order's reference in the transfer.
Outgoing == [Cmd(9, TRUE, "x9", "r1", 2, TRUE) EXCEPT !.direction = "outbound"]

MCOwner == [x \in Targets |-> u1]
MCTotal == [x \in Targets |-> IF x = o2 THEN 3 ELSE 2]
\* The second top-up has, by accident, the reference of the first order.
MCReference == [x \in Targets |-> IF x \in {o1, t2} THEN "r1" ELSE IF x = o2 THEN "r2" ELSE "rt"]
MCQty == [o \in Orders |-> IF o = o1 THEN 1 ELSE 2]
MCProduct == [x \in Orders \cup Items |-> "p"]

\* A bank transfer for an order, an operator who confirms another transfer for it
\* twice, the second time with the wrong amount, and an outgoing transfer.
MCOrderCommands ==
  {Cmd(1, TRUE, "x1", "r1", 2, TRUE), Cmd(2, FALSE, "x2", "r1", 2, TRUE),
   Cmd(3, FALSE, "x2", "r1", 1, TRUE), Outgoing}

\* A bank transfer for the top-up, the same transfer confirmed by two operators,
\* and a transfer that arrived at the wrong bank account.
MCWalletCommands ==
  {Cmd(1, TRUE, "x1", "rt", 2, TRUE), Cmd(2, FALSE, "x2", "rt", 2, TRUE),
   Cmd(3, FALSE, "x2", "rt", 2, TRUE), Cmd(4, TRUE, "x4", "r1", 2, FALSE)}

MCAdjustments == {1, -1}

ItemSymmetry == Permutations(Items)
=============================================================================
