--------------------------- MODULE MCPaymentEvents ---------------------------
(* Instances of PaymentEvents for TLC: the inbound event names its destination  *)
(* account, which an administrator may map to the right or to the wrong bank.    *)
EXTENDS PaymentEvents

CONSTANTS in1, d1, right

MCDestination == [e \in Events |-> IF e = in1 THEN d1 ELSE NoIdentity]
MCTargetBank == [e \in Events |-> right]
=============================================================================
