\* The number of copies lent, when a loan falls between the read and the write of an edition.
CONSTANTS
  a1 = a1  c1 = c1  d1 = d1  e1 = e1  l1 = l1  m1 = m1
  Livres = {l1}
  Membres = {m1}
  Lignes = {e1}
  Demandes = {d1}
  Aucun = Aucun
  StocksInitiaux = {2}
  DureesDemandees = {0}
  DureeParDefaut = 1
  DureeMax = 1
  Quota = 2
  LecturesStrictes = {FALSE}
  MaxJour = 0
  Editeurs = {c1}
  Auteurs = {a1}
  Inventaire = {l1}
  Totaux = {2, 3}
SPECIFICATION SpecCatalogue
PROPERTIES EditionPreserve
