\* Access tokens of an administrator who is demoted, deactivated or deleted, and tokens revoked beside rotations.
CONSTANTS
  m1 = m1  t1 = t1  t2 = t2  r1 = r1  r2 = r2  n1 = n1
  Membres = {m1}
  Jetons = {t1, t2}
  Requetes = {r1, r2}
  Noms = {n1}
  Roles = {"membre", "admin"}
  Admin = "admin"
  DureeJeton = 2
  DureeAcces = 1
  Delai = 1
  MaxHeure = 3
  Aucun = Aucun
SPECIFICATION SpecAcces
SYMMETRY Symetrie
INVARIANTS InvariantAcces InvariantComptes JetonRattache
PROPERTIES CompteSupprimeFige EffetBorne RevocationBornee
