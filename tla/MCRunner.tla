------------------------------ MODULE MCRunner ------------------------------
EXTENDS Runner

CONSTANTS e1, e2

MCEvents == {e1, e2}
MCPoison == {e1}
=============================================================================
