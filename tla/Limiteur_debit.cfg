\* The rate limiter: a client whose requests may stall anywhere, and the cleaner.
CONSTANTS
  c1 = c1  r1 = r1  r2 = r2  r3 = r3  s1 = s1  s2 = s2  s3 = s3 
  Clients = {c1}
  Requetes = {r1, r2, r3}
  Seaux = {s1, s2, s3}
  Rafale = 2
  Debit = 1
  Inactivite = 4
  Aucun = Aucun
SPECIFICATION SpecLimiteur
INVARIANTS InvariantLimiteur DebitBorne
PROPERTIES ClientOublie
