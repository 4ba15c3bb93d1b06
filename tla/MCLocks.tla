------------------------------- MODULE MCLocks -------------------------------
EXTENDS Locks
=============================================================================
