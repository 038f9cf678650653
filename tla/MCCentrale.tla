------------------------------ MODULE MCCentrale ------------------------------
(* A small instance of Centrale for TLC. *)
EXTENDS Centrale

=============================================================================
