------------------------------ MODULE MCComptes -----------------------------
(* Small instances of Comptes for TLC. *)
EXTENDS Comptes, TLC

Symetrie == Permutations(Jetons) \cup Permutations(Requetes) \cup Permutations(Membres)

=============================================================================
