\* The life of the process, its requests and its pool of connections, and its graceful stop.
CONSTANTS
  r1 = r1  r2 = r2  r3 = r3  p1 = p1  k1 = k1  k2 = k2
  Requetes = {r1, r2, r3}
  Connexions = {k1, k2}
  Taches = {p1}
  Aucun = Aucun
SPECIFICATION SpecServeurEquitable
INVARIANTS InvariantServeur PoolFermeEnDernier RessourcesRendues ResultatPropre
PROPERTIES ArretAboutit RequeteRepondue
CHECK_DEADLOCK FALSE
