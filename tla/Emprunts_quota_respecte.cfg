\* The documented quota, under the read views of REPEATABLE READ.
CONSTANTS
  l1 = l1  l2 = l2  m1 = m1  m2 = m2  e1 = e1  e2 = e2  e3 = e3  d1 = d1  d2 = d2  d3 = d3
  Livres = {l1, l2}
  Membres = {m1}
  Lignes = {e1, e2}
  Demandes = {d1, d2}
  Aucun = Aucun
  StocksInitiaux = {1}
  DureesDemandees = {0}
  DureeParDefaut = 1
  DureeMax = 2
  Quota = 1
  LecturesStrictes = {FALSE}
  MaxJour = 0
SPECIFICATION Spec
INVARIANTS QuotaRespecte
