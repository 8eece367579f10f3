------------------------------- MODULE MCAcces ------------------------------
(* Small instances of Acces for TLC. *)
EXTENDS Acces, TLC

Symetrie == Permutations(Jetons) \cup Permutations(Requetes) \cup Permutations(Membres)

=============================================================================
