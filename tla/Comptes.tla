------------------------------- MODULE Comptes ------------------------------
(***************************************************************************)
(* Accounts and their sessions.  A session is made of refresh tokens:      *)
(* login records the first, each rotation (AuthService.Rafraichir) revokes *)
(* the token it is given and records the next; rotations of one token that *)
(* run at once make it fork.  Accounts are created, edited and deleted     *)
(* meanwhile (UtilisateurService).  Every statement is a transaction of    *)
(* its own: a request may be interrupted between any two.                  *)
(* Passwords and e-mail addresses are not modelled; for the access tokens, *)
(* which the server keeps no trace of, see Acces.                          *)
(***************************************************************************)
EXTENDS Integers, FiniteSets

CONSTANTS
  Membres,        \* rows of utilisateurs
  Jetons,         \* rows jetons_rafraichissement may give to refresh tokens
  Requetes,       \* HTTP requests served at the same time
  Noms,           \* values of a profile (nom and prenom)
  Roles,          \* values of utilisateurs.role
  DureeJeton,     \* life of a refresh token
  MaxHeure,       \* bound of the model: the last instant simulated
  Aucun

ASSUME JetonsFinis     == IsFiniteSet(Jetons)
ASSUME RequetesFinies  == IsFiniteSet(Requetes)
ASSUME DureePositive   == DureeJeton \in Nat \ {0}
ASSUME MaxHeureEntier  == MaxHeure \in Nat
ASSUME AucunNiDonnee   == Aucun \notin Membres \cup Jetons \cup Noms \cup Roles

VARIABLES
  comptes,    \* rows of utilisateurs
  jetons,     \* rows of jetons_rafraichissement
  heure,      \* NOW()
  req         \* what each request is doing

vars == <<comptes, jetons, heure, req>>

-----------------------------------------------------------------------------

Profil == [nom: Noms, role: Roles, actif: BOOLEAN]    \* columns a request rewrites
CompteAbsent == [etat |-> "absent", profil |-> Aucun]
CompteEfface == [etat |-> "efface", profil |-> Aucun]
Compte == [etat: {"present", "supprime"}, profil: Profil]
Ouvert(m)  == comptes[m].etat = "present" /\ comptes[m].profil.actif
EnLigne(m) == comptes[m].etat \in {"present", "supprime"}    \* the row exists

(* origine, the token a rotation exchanged for this one, is history: the     *)
(* table does not keep it, and it survives the deletion of the row.          *)
JetonJamais == [etat |-> "jamais", membre |-> Aucun, expire |-> 0, revoque |-> FALSE,
                origine |-> Aucun]
Jeton ==
  [etat: {"jamais", "enregistre", "efface"}, membre: Membres \cup {Aucun}, expire: Nat,
   revoque: BOOLEAN, origine: Jetons \cup {Aucun}]

(* jeton_hash = ? AND revoque = FALSE AND expire_le > NOW() *)
Valide(t) ==
  jetons[t].etat = "enregistre" /\ ~jetons[t].revoque /\ jetons[t].expire > heure

EtapesRotation == {"compte", "revocation"}
Etapes == {"libre", "emission", "ecriture"} \cup EtapesRotation

RequeteLibre ==
  [etape |-> "libre", sorte |-> Aucun, membre |-> Aucun, jeton |-> Aucun,
   profil |-> Aucun]
Requete ==
  [etape: Etapes, sorte: {"session", "profil", "administration", Aucun},
   membre: Membres \cup {Aucun}, jeton: Jetons \cup {Aucun},
   profil: Profil \cup {Aucun}]

(* The reply, whatever it is, goes out with the last step. *)
Terminer(r) == req' = [req EXCEPT ![r] = RequeteLibre]

-----------------------------------------------------------------------------
(* POST /auth/connexion *)

(* ParEmail, the password, then actif *)
Connecter(r, m) ==
  /\ req[r].etape = "libre"
  /\ Ouvert(m)
  /\ req' = [req EXCEPT ![r] = [RequeteLibre EXCEPT !.etape = "emission",
                                                    !.sorte = "session", !.membre = m]]
  /\ UNCHANGED <<comptes, jetons, heure>>

-----------------------------------------------------------------------------
(* POST /auth/rafraichir *)

FauteRevoqueAccepte(r, t) ==       \* WHERE without revoque = FALSE
  /\ req[r].etape = "libre"
  /\ jetons[t].etat = "enregistre" /\ jetons[t].expire > heure
  /\ req' = [req EXCEPT ![r] = [RequeteLibre EXCEPT !.etape = "compte", !.jeton = t,
                                  !.sorte = "session", !.membre = jetons[t].membre]]
  /\ UNCHANGED <<comptes, jetons, heure>>

(* TrouverUtilisateurValide *)
TrouverJeton(r, t) ==
  /\ req[r].etape = "libre"
  /\ Valide(t)
  /\ req' = [req EXCEPT ![r] = [RequeteLibre EXCEPT !.etape = "compte", !.jeton = t,
                                  !.sorte = "session", !.membre = jetons[t].membre]]
  /\ UNCHANGED <<comptes, jetons, heure>>

(* ParID, then actif *)
LireCompte(r) ==
  /\ req[r].etape = "compte"
  /\ Ouvert(req[r].membre)
  /\ req' = [req EXCEPT ![r].etape = "revocation"]
  /\ UNCHANGED <<comptes, jetons, heure>>

RefuserCompte(r) ==
  /\ req[r].etape = "compte"
  /\ ~Ouvert(req[r].membre)
  /\ Terminer(r)
  /\ UNCHANGED <<comptes, jetons, heure>>

FauteRevocationOubliee(r) ==       \* the exchanged token stays valid
  /\ req[r].etape = "revocation"
  /\ req' = [req EXCEPT ![r].etape = "emission"]
  /\ UNCHANGED <<comptes, jetons, heure>>

Revoquer(r) ==
  /\ req[r].etape = "revocation"
  /\ jetons' = [jetons EXCEPT ![req[r].jeton].revoque = TRUE]
  /\ req' = [req EXCEPT ![r].etape = "emission"]
  /\ UNCHANGED <<comptes, heure>>

-----------------------------------------------------------------------------
(* genererPaireDeJetons, and the end of the session requests *)

NouveauJeton(r) ==
  [etat |-> "enregistre", membre |-> req[r].membre, expire |-> heure + DureeJeton,
   revoque |-> FALSE, origine |-> req[r].jeton]

FauteSansCleEtrangere(r) ==        \* no foreign key to utilisateurs
  /\ req[r].etape = "emission"
  /\ \E t \in Jetons :
       /\ jetons[t] = JetonJamais
       /\ jetons' = [jetons EXCEPT ![t] = NouveauJeton(r)]
  /\ Terminer(r)
  /\ UNCHANGED <<comptes, heure>>

Enregistrer(r) ==
  /\ req[r].etape = "emission"
  /\ EnLigne(req[r].membre)
  /\ \E t \in Jetons :
       /\ jetons[t] = JetonJamais
       /\ jetons' = [jetons EXCEPT ![t] = NouveauJeton(r)]
  /\ Terminer(r)
  /\ UNCHANGED <<comptes, heure>>

RefuserEmission(r) ==              \* fk_jetons_utilisateur
  /\ req[r].etape = "emission"
  /\ ~EnLigne(req[r].membre)
  /\ Terminer(r)
  /\ UNCHANGED <<comptes, jetons, heure>>

(* POST /auth/deconnexion: Revoquer *)
Deconnecter(r, t) ==
  /\ req[r].etape = "libre"
  /\ jetons[t].etat = "enregistre" /\ ~jetons[t].revoque
  /\ jetons' = [jetons EXCEPT ![t].revoque = TRUE]
  /\ UNCHANGED <<comptes, heure, req>>

-----------------------------------------------------------------------------
(* Accounts *)

(* POST /auth/inscription and POST /utilisateurs: one INSERT *)
CreerCompte(m, n, role) ==
  /\ comptes[m] = CompteAbsent
  /\ comptes' = [comptes EXCEPT ![m] =
                   [etat |-> "present", profil |-> [nom |-> n, role |-> role, actif |-> TRUE]]]
  /\ UNCHANGED <<jetons, heure, req>>

(* PUT /utilisateurs/{id} and PATCH /moi change the name; PATCH              *)
(* /utilisateurs/{id} any of the columns.  The row read is changed in        *)
(* memory...                                                                 *)
LireProfil(r, m, p, sorte) ==
  /\ req[r].etape = "libre"
  /\ comptes[m].etat = "present"
  /\ sorte = "profil" =>
       p.role = comptes[m].profil.role /\ p.actif = comptes[m].profil.actif
  /\ req' = [req EXCEPT ![r] = [RequeteLibre EXCEPT !.etape = "ecriture", !.sorte = sorte,
                                                    !.membre = m, !.profil = p]]
  /\ UNCHANGED <<comptes, jetons, heure>>

FauteSupprimeEcrit(r) ==           \* UPDATE without supprime_le IS NULL
  /\ req[r].etape = "ecriture"
  /\ EnLigne(req[r].membre)
  /\ comptes[req[r].membre].profil # req[r].profil
  /\ comptes' = [comptes EXCEPT ![req[r].membre].profil = req[r].profil]
  /\ Terminer(r)
  /\ UNCHANGED <<jetons, heure>>

(* ... and written whole: SET nom, prenom, role, actif *)
EcrireProfil(r) ==
  /\ req[r].etape = "ecriture"
  /\ comptes[req[r].membre].etat = "present"
  /\ comptes[req[r].membre].profil # req[r].profil
  /\ comptes' = [comptes EXCEPT ![req[r].membre].profil = req[r].profil]
  /\ Terminer(r)
  /\ UNCHANGED <<jetons, heure>>

ProfilInchange(r) ==               \* no row counted as changed
  /\ req[r].etape = "ecriture"
  /\ comptes[req[r].membre].etat = "present" => comptes[req[r].membre].profil = req[r].profil
  /\ Terminer(r)
  /\ UNCHANGED <<comptes, jetons, heure>>

SupprimerLogique(m) ==
  /\ comptes[m].etat = "present"
  /\ comptes' = [comptes EXCEPT ![m].etat = "supprime", ![m].profil.actif = FALSE]
  /\ UNCHANGED <<jetons, heure, req>>

JetonsDe(m) == {t \in Jetons : jetons[t].etat = "enregistre" /\ jetons[t].membre = m}
Effaces(T)  == [t \in Jetons |-> IF t \in T THEN [jetons[t] EXCEPT !.etat = "efface", !.expire = 0]
                                            ELSE jetons[t]]

SupprimerPhysique(m) ==            \* fk_jetons_utilisateur: ON DELETE CASCADE
  /\ EnLigne(m)
  /\ comptes' = [comptes EXCEPT ![m] = CompteEfface]
  /\ jetons' = Effaces(JetonsDe(m))
  /\ UNCHANGED <<heure, req>>

-----------------------------------------------------------------------------

(* A login, a rotation or an edition refused by its first read *)
RefuserDEmblee(r) ==
  /\ req[r].etape = "libre"
  /\ \/ \E m \in Membres : ~Ouvert(m)
     \/ \E t \in Jetons : ~Valide(t)
  /\ UNCHANGED vars

(* A statement failed, or its answer was lost *)
Interrompre(r) ==
  /\ req[r].etape # "libre"
  /\ Terminer(r)
  /\ UNCHANGED <<comptes, jetons, heure>>

(* ev_purger_jetons_expires: expire_le < NOW() OR revoque = TRUE *)
APurger == {t \in Jetons : jetons[t].etat = "enregistre"
                             /\ (jetons[t].expire < heure \/ jetons[t].revoque)}
PurgerJetons ==
  /\ APurger # {}
  /\ jetons' = Effaces(APurger)
  /\ UNCHANGED <<comptes, heure, req>>

HeureSuivante ==
  /\ heure < MaxHeure
  /\ heure' = heure + 1
  /\ UNCHANGED <<comptes, jetons, req>>

-----------------------------------------------------------------------------

Init ==
  /\ comptes = [m \in Membres |-> CompteAbsent]
  /\ jetons = [t \in Jetons |-> JetonJamais]
  /\ heure = 0
  /\ req = [r \in Requetes |-> RequeteLibre]

Session(r) ==
  \/ \E m \in Membres : Connecter(r, m)
  \/ \E t \in Jetons : TrouverJeton(r, t) \/ Deconnecter(r, t)
  \/ LireCompte(r) \/ RefuserCompte(r) \/ Revoquer(r)
  \/ Enregistrer(r) \/ RefuserEmission(r)

EditionProfil(r) ==
  \/ \E m \in Membres, p \in Profil, s \in {"profil", "administration"} : LireProfil(r, m, p, s)
  \/ EcrireProfil(r) \/ ProfilInchange(r)

VieDuCompte(m) ==
  \/ \E n \in Noms, role \in Roles : CreerCompte(m, n, role)
  \/ SupprimerLogique(m) \/ SupprimerPhysique(m)

Next ==
  \/ \E r \in Requetes : Session(r) \/ EditionProfil(r) \/ RefuserDEmblee(r) \/ Interrompre(r)
  \/ \E m \in Membres : VieDuCompte(m)
  \/ PurgerJetons \/ HeureSuivante

Spec == Init /\ [][Next]_vars

-----------------------------------------------------------------------------
(* Properties *)

(* Every variable keeps its type. *)
TypeComptes ==
  /\ comptes \in [Membres -> Compte \cup {CompteAbsent, CompteEfface}]
  /\ jetons \in [Jetons -> Jeton]
  /\ heure \in Nat
  /\ req \in [Requetes -> Requete]

(* A token on record has its account on record, although the account may be  *)
(* deleted between the statements of the login or rotation that issues it.   *)
JetonRattache ==
  \A t \in Jetons : jetons[t].etat = "enregistre" => EnLigne(jetons[t].membre)

(* A token that was exchanged is not valid any more, wherever its rotation   *)
(* was interrupted ("l'ancien est immediatement revoque").                   *)
Successeurs(t) == {s \in Jetons : jetons[s].origine = t}
EchangeRevoque == \A t \in Jetons : Successeurs(t) # {} => ~Valide(t)

(* A refresh token is exchanged once ("revoque et remplace": used again, it  *)
(* fails).  Two rotations that have both passed the test before either has   *)
(* revoked the token break it: each records a successor.                     *)
EchangeUnique == \A t \in Jetons : Cardinality(Successeurs(t)) <= 1

(* The test and the revocation are two statements, so that requests that run *)
(* at once may exchange one token each; no later request can.                *)
DescendanceBornee == \A t \in Jetons : Cardinality(Successeurs(t)) <= Cardinality(Requetes)

(* An account deleted, logically or not, is never changed or revived by an   *)
(* edition that read it before (WHERE supprime_le IS NULL).                  *)
CompteSupprimeFige ==
  [][\A m \in Membres :
       /\ comptes[m].etat = "supprime" => comptes'[m] \in {comptes[m], CompteEfface}
       /\ comptes[m] = CompteEfface => comptes'[m] = CompteEfface]_vars

(* An edition of the profile changes neither role nor actif ("Le role et     *)
(* l'etat actif ne sont pas modifiables par cette voie").                    *)
ProfilSeul ==
  [][\A r \in Requetes, m \in Membres :
       /\ req[r].etape = "ecriture" /\ req[r].sorte = "profil" /\ req[r].membre = m
       /\ req'[r].etape = "libre" /\ comptes'[m] # comptes[m]
       => /\ comptes'[m].profil.role = comptes[m].profil.role
          /\ comptes'[m].profil.actif = comptes[m].profil.actif]_vars

-----------------------------------------------------------------------------
(* The inductive invariant behind the theorems of Acces_proofs   *)

(* What a request of a given stage has already established *)
RequeteCoherente(r) ==
  /\ req[r].etape # "libre" => req[r].membre \in Membres
  /\ req[r].etape = "ecriture" => req[r].profil \in Profil
  /\ req[r].etape \in EtapesRotation => req[r].jeton \in Jetons
  /\ req[r].jeton \in Jetons => jetons[req[r].jeton].etat # "jamais"
  /\ req[r].etape = "emission" /\ req[r].jeton \in Jetons => jetons[req[r].jeton].revoque

Rotations(t) == {r \in Requetes : req[r].jeton = t}

ChaineCoherente(t) ==
  /\ jetons[t].etat = "enregistre" => jetons[t].membre \in Membres
  /\ Successeurs(t) # {} => jetons[t].revoque /\ jetons[t].etat # "jamais"
  /\ Cardinality(Successeurs(t)) + Cardinality(Rotations(t)) <= Cardinality(Requetes)

InvariantComptes ==
  /\ TypeComptes
  /\ \A r \in Requetes : RequeteCoherente(r)
  /\ \A t \in Jetons : ChaineCoherente(t)
  /\ JetonRattache

=============================================================================
