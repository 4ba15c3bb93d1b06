----------------------------- MODULE MCStorefront -----------------------------
EXTENDS Storefront, TLC
CONSTANTS r1, r2, r3, p1, k1, k2
\* Two copies of one press and another press of the same button.
MCKeyOf == [r \in Requests |-> IF r = r3 THEN k2 ELSE k1]
MCProductOf == [r \in Requests |-> p1]
\* The copies, the administrators and the references are interchangeable.
MCSymmetry == Permutations({r1, r2}) \cup Permutations(Admins) \cup Permutations(References)
                \cup Permutations(Categories)
=============================================================================
