-------------------------------- MODULE Prets -------------------------------
(***************************************************************************)
(* What circulation promises, with no request, lock or counter: a loan is  *)
(* one indivisible step, a copy of a book of the catalogue that is not out *)
(* is lent, no member holds more than Plafond loans, and a loan is closed  *)
(* once.  Emprunts is shown to implement it.                               *)
(***************************************************************************)
EXTENDS Integers, FiniteSets

CONSTANTS Livres, Membres, Lignes, StocksInitiaux, Plafond

VARIABLES
  total,       \* copies the library owns
  catalogue,   \* books that may be lent
  prets        \* the loans, by identifier

promesse == <<total, catalogue, prets>>

Jamais == [etat |-> "jamais"]
Pret   == [etat: {"dehors", "rendu"}, membre: Membres, livre: Livres]

SortisDuLivre(l)  == {e \in Lignes : prets[e].etat = "dehors" /\ prets[e].livre = l}
SortisDuMembre(u) == {e \in Lignes : prets[e].etat = "dehors" /\ prets[e].membre = u}

Init ==
  /\ total \in [Livres -> StocksInitiaux]
  /\ catalogue = Livres
  /\ prets = [e \in Lignes |-> Jamais]

Preter(e, u, l) ==
  /\ prets[e] = Jamais
  /\ l \in catalogue
  /\ Cardinality(SortisDuLivre(l)) < total[l]
  /\ Cardinality(SortisDuMembre(u)) < Plafond
  /\ prets' = [prets EXCEPT ![e] = [etat |-> "dehors", membre |-> u, livre |-> l]]
  /\ UNCHANGED <<total, catalogue>>

Restituer(e) ==
  /\ prets[e].etat = "dehors"
  /\ prets' = [prets EXCEPT ![e].etat = "rendu"]
  /\ UNCHANGED <<total, catalogue>>

Retirer(l) ==
  /\ l \in catalogue
  /\ catalogue' = catalogue \ {l}
  /\ UNCHANGED <<total, prets>>

Next ==
  \/ \E e \in Lignes, u \in Membres, l \in Livres : Preter(e, u, l)
  \/ \E e \in Lignes : Restituer(e)
  \/ \E l \in Livres : Retirer(l)

Spec == Init /\ [][Next]_promesse

=============================================================================
