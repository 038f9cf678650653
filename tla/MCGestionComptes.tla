--------------------------- MODULE MCGestionComptes ---------------------------
(* A small instance of GestionComptes for TLC. *)
EXTENDS GestionComptes, TLC

Symetrie ==
  Permutations(Appelants) \cup Permutations(Pseudos) \cup Permutations(Mdps)
    \cup Permutations(Fichiers)

\* No property says anything of the states beyond.
Utile == ~(risque /\ chevauche)

=============================================================================
