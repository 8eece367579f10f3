\* A change of profile beside a change of role.
CONSTANTS
  m1 = m1  t1 = t1  r1 = r1  r2 = r2  n1 = n1  n2 = n2
  Membres = {m1}
  Jetons = {t1}
  Requetes = {r1, r2}
  Noms = {n1, n2}
  Roles = {"admin", "membre"}
  DureeJeton = 1
  MaxHeure = 0
  Aucun = Aucun
SPECIFICATION Spec
PROPERTIES ProfilSeul
