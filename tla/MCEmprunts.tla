----------------------------- MODULE MCEmprunts -----------------------------
(* Small instances of Emprunts for TLC. *)
EXTENDS Emprunts, TLC

Symetrie == Permutations(Livres) \cup Permutations(Membres)
              \cup Permutations(Lignes) \cup Permutations(Demandes)

=============================================================================
