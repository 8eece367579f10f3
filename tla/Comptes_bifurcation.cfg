\* One refresh token, exchanged by two requests at once.
CONSTANTS
  m1 = m1  t1 = t1  t2 = t2  t3 = t3  r1 = r1  r2 = r2  n1 = n1
  Membres = {m1}
  Jetons = {t1, t2, t3}
  Requetes = {r1, r2}
  Noms = {n1}
  Roles = {"membre"}
  DureeJeton = 1
  MaxHeure = 0
  Aucun = Aucun
SPECIFICATION Spec
INVARIANTS EchangeUnique
