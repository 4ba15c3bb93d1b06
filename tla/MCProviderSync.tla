--------------------------- MODULE MCProviderSync ---------------------------
(* Instances of ProviderSync for TLC. *)
EXTENDS ProviderSync
=============================================================================
