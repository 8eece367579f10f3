---------------------------- MODULE MCReferentiel ---------------------------
(* Small instances of Referentiel for TLC. *)
EXTENDS Referentiel, TLC

Symetrie == Permutations(Auteurs) \cup Permutations(Categories)
              \cup Permutations(Requetes) \cup Permutations(Details)

=============================================================================
