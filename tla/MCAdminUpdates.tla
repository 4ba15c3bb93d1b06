--------------------------- MODULE MCAdminUpdates ---------------------------
(* Small instances of AdminUpdates: dialogs of two questions and of one. *)
EXTENDS AdminUpdates, TLC

MCSteps == [edit |-> 1, create |-> 2]
UpdateSymmetry == Permutations(Updates) \cup Permutations(Handlers) \cup Permutations(Admins)
=============================================================================
