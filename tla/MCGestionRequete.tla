-------------------------- MODULE MCGestionRequete ---------------------------
(* A small instance of GestionRequete for TLC. *)
EXTENDS GestionRequete, TLC

=============================================================================
