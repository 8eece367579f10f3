\* Two categories and an author, edited by two requests, read page by page.
CONSTANTS
  a1 = a1  k1 = k1  k2 = k2  r1 = r1  r2 = r2  x1 = x1  x2 = x2
  Auteurs = {a1}
  Categories = {k1, k2}
  Requetes = {r1, r2}
  Noms = {1, 2}
  Details = {x1, x2}
  TaillesDemandees = {0, 3}
  TailleParDefaut = 1
  TailleMax = 1
  Aucun = Aucun
SPECIFICATION Spec
SYMMETRY Symetrie
INVARIANTS InvariantReferentiel ParcoursComplet ParcoursSansDoublon
PROPERTIES ConflitRenommage SuppressionRespectee
