--------------------------- MODULE MCCommunication ---------------------------
(* A small instance of Communication for TLC. *)
EXTENDS Communication, TLC

MCFds == 1..Cardinality(Connexions)

\* Connections of one kind are only compared with each other.
Symetrie == Permutations(Ecoutes) \cup Permutations(Connexions \ Ecoutes)

=============================================================================
