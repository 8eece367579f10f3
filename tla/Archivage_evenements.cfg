\* The archive event beside circulation, the overdue event and midnights.
CONSTANTS
  l1 = l1  m1 = m1  e1 = e1  e2 = e2  d1 = d1  d2 = d2
  Livres = {l1}
  Membres = {m1}
  Aucun = Aucun
  StocksInitiaux = {1}
  DureesDemandees = {0}
  DureeParDefaut = 1
  DureeMax = 1
  Quota = 1
  LecturesStrictes = {FALSE}
  MaxJour = 2
  DelaiArchive = 0
  Lignes = {e1, e2}
  Demandes = {d1}
SPECIFICATION SpecArchivageEquitable
INVARIANTS InvariantArchivage ArchiveFidele PenaliteJamaisExcessive
PROPERTIES RetardConstate HistoriqueFige PerteDeMinuit
