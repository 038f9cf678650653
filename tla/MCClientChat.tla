----------------------------- MODULE MCClientChat -----------------------------
(* A small instance of ClientChat for TLC. *)
EXTENDS ClientChat

=============================================================================
