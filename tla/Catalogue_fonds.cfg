\* Creation, edition and deletion of books, authors and members beside a request, under strict read views.
CONSTANTS
  a1 = a1  a2 = a2  c1 = c1  d1 = d1  e1 = e1  e2 = e2  e3 = e3  l1 = l1  m1 = m1
  Livres = {l1}
  Membres = {m1}
  Lignes = {e1, e2, e3}
  Demandes = {d1}
  Aucun = Aucun
  StocksInitiaux = {2}
  DureesDemandees = {0}
  DureeParDefaut = 1
  DureeMax = 1
  Quota = 2
  LecturesStrictes = {TRUE}
  MaxJour = 0
  Editeurs = {c1}
  Auteurs = {a1, a2}
  Inventaire = {}
  Totaux = {1, 2, 3}
SPECIFICATION SpecCatalogue
SYMMETRY Symetrie
INVARIANTS InvariantCatalogue StockBorne IntegriteReferentielle
PROPERTIES RetraitRespecte AjustementPreserve EcartExplique
