----------------------------- MODULE MCCatalogue ----------------------------
(* Small instances of Catalogue for TLC. *)
EXTENDS Catalogue, TLC

Symetrie == Permutations(Livres) \cup Permutations(Lignes)
              \cup Permutations(Demandes) \cup Permutations(Auteurs)

=============================================================================
