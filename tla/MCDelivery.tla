---------------------------- MODULE MCDelivery ----------------------------
(* Instances of Delivery for TLC. *)
EXTENDS Delivery, TLC

CONSTANTS o1, i1, i2, w1, w2, a1

OneOrder == {o1}
TwoItems == {i1, i2}
OwnedByOne == (i1 :> o1 @@ i2 :> o1)

=============================================================================
