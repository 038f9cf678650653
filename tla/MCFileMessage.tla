---------------------------- MODULE MCFileMessage ----------------------------
(* A small instance of FileMessage for TLC. *)
EXTENDS FileMessage, FiniteSets, TLC

\* More clients than slots, so that fin can catch up with debut and slots are
\* used again.
ASSUME Cardinality(Sockets) > MAX_CLIENTS

\* Sockets are only compared with each other: the runs that check invariants
\* only take one representative of each permutation.
Symetrie == Permutations(Sockets)

=============================================================================
