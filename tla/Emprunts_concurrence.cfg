\* Two requests, three loans of one book, three days: every interleaving of loans, returns, cancellations and the overdue event, reads strict or not.
CONSTANTS
  l1 = l1  m1 = m1  e1 = e1  e2 = e2  e3 = e3  d1 = d1  d2 = d2
  Livres = {l1}
  Membres = {m1}
  Lignes = {e1, e2, e3}
  Demandes = {d1, d2}
  Aucun = Aucun
  StocksInitiaux = {1, 3}
  DureesDemandees = {0, 2}
  DureeParDefaut = 1
  DureeMax = 1
  Quota = 1
  LecturesStrictes = {TRUE, FALSE}
  MaxJour = 2
SPECIFICATION Spec
SYMMETRY Symetrie
INVARIANTS InvariantComplet Conservation RetourJamaisRefuse RetourUnique ReponseVeridique DepassementBorne
PROPERTIES RealisePrets
