-------------------------------- MODULE Acces -------------------------------
(***************************************************************************)
(* Access tokens beside the sessions of Comptes.  A login or a rotation    *)
(* signs a token that carries the role of the account as it was read       *)
(* (GenererJetonAcces); afterwards the middleware decides on the token     *)
(* alone (Authentification, ExigerRole): the account is read again only    *)
(* when the token is renewed.  Requests end with the delay of Timeout.     *)
(***************************************************************************)
EXTENDS Comptes

CONSTANTS
  Admin,          \* models.RoleAdmin
  DureeAcces,     \* life of an access token
  Delai           \* from the arrival of a request to its last effect: DelaiTraitement,
                  \* and the lock wait of a statement the database still executes

ASSUME AdminEstUnRole   == Admin \in Roles
ASSUME DureeAccesPositive == DureeAcces \in Nat \ {0}
ASSUME DelaiNaturel     == Delai \in Nat

VARIABLES
  porte,      \* what each request carries in memory besides req
  acces,      \* an access token in the hands of a client
  ouvert,     \* history: the last hour each account was an open administrator
  sortie      \* history: a token revoked while requests exchange it, and the hour

varsAcces == <<comptes, jetons, heure, req, porte, acces, ouvert, sortie>>

-----------------------------------------------------------------------------

Jamais == -1

(* A login or a rotation carries the row it has read; an edition of accounts *)
(* the identity that Authentification put in its context.                    *)
PorteVide == [membre |-> Aucun, role |-> Aucun, limite |-> 0]
Porte == [membre: Membres \cup {Aucun}, role: Roles \cup {Aucun}, limite: Nat]

(* The server keeps no trace of access tokens: one of them, any one, is      *)
(* observed.  Signature and issuer hold of every token a client was given.   *)
AccesAbsent == [membre |-> Aucun, role |-> Aucun, expire |-> 0]
JetonAcces == [membre: Membres \cup {Aucun}, role: Roles \cup {Aucun}, expire: Nat]

FauteExpireAccepte(a, h) == a.membre # Aucun /\ h <= a.expire    \* exp included

(* VerifierJetonAcces: exp is the first instant at which it is refused       *)
AccesValide(a, h) == a.membre # Aucun /\ h < a.expire

SansSortie == [jeton |-> Aucun, heure |-> 0]
Sortie == [jeton: Jetons \cup {Aucun}, heure: Nat]

ATemps(r) == heure <= porte[r].limite

(* What a request carries is gone with it.                                   *)
Rendue == porte' = [r \in Requetes |-> IF req'[r].etape = "libre" THEN PorteVide ELSE porte[r]]

(* The context of the request expires Delai after its arrival.               *)
Arrivee(r, m, role) ==
  porte' = [porte EXCEPT ![r] = [membre |-> m, role |-> role, limite |-> heure + Delai]]

RoleDe(m) == comptes[m].profil.role

-----------------------------------------------------------------------------
(* Sessions *)

ConnecterAcces(r, m) ==
  /\ Connecter(r, m)
  /\ Arrivee(r, m, RoleDe(m))
  /\ UNCHANGED acces

TrouverJetonAcces(r, t) ==
  /\ TrouverJeton(r, t)
  /\ Arrivee(r, jetons[t].membre, Aucun)
  /\ UNCHANGED acces

FauteRoleDuJeton(r) ==             \* the role of the access token in use
  /\ ATemps(r)
  /\ LireCompte(r)
  /\ porte' = [porte EXCEPT ![r].role = IF acces.membre = req[r].membre THEN acces.role
                                        ELSE RoleDe(req[r].membre)]
  /\ UNCHANGED acces

(* The role is that of the account as it is now, not that of the last token. *)
LireCompteAcces(r) ==
  /\ ATemps(r)
  /\ LireCompte(r)
  /\ porte' = [porte EXCEPT ![r].role = RoleDe(req[r].membre)]
  /\ UNCHANGED acces

RevoquerAcces(r) ==
  /\ ATemps(r)
  /\ Revoquer(r)
  /\ UNCHANGED <<porte, acces>>

Signe(r) == [membre |-> porte[r].membre, role |-> porte[r].role, expire |-> heure + DureeAcces]

(* GenererJetonAcces, then Enregistrer: the client has both tokens or none.  *)
(* Whichever token is observed, the new one may take its place.              *)
EnregistrerAcces(r) ==
  /\ ATemps(r)
  /\ Enregistrer(r)
  /\ acces' \in {acces, Signe(r)}
  /\ Rendue

DeconnecterAcces(r, t) ==
  /\ Deconnecter(r, t)
  /\ UNCHANGED <<porte, acces>>

-----------------------------------------------------------------------------
(* Accounts edited under an access token *)

(* PATCH /utilisateurs/{id}: Authentification, ExigerRole(RoleAdmin), then    *)
(* the first statement of the handler.  PATCH /moi, which any valid token    *)
(* opens, and PUT /utilisateurs/{id} are left out: they send a name alone,   *)
(* but write role and actif back as they have read them (ProfilSeul).        *)
Autorise == AccesValide(acces, heure) /\ acces.role = Admin

EditerSousJeton(r, m, p) ==
  /\ Autorise
  /\ LireProfil(r, m, p, "administration")
  /\ Arrivee(r, acces.membre, acces.role)
  /\ UNCHANGED acces

(* 401 or 403 *)
RefuserJeton(r) ==
  /\ req[r].etape = "libre"
  /\ ~Autorise
  /\ UNCHANGED varsAcces

EcrireSousJeton(r) ==
  /\ ATemps(r)
  /\ EcrireProfil(r)
  /\ Rendue
  /\ UNCHANGED acces

-----------------------------------------------------------------------------

(* What needs no token, or a token that is not the one observed: creations   *)
(* and deletions by the administrators, the event, replies to what failed    *)
AutresPas ==
  /\ \/ \E r \in Requetes :
          \/ RefuserDEmblee(r) \/ Interrompre(r)
          \/ RefuserCompte(r) \/ RefuserEmission(r) \/ ProfilInchange(r)
     \/ \E m \in Membres : VieDuCompte(m)
     \/ PurgerJetons
  /\ Rendue
  /\ UNCHANGED acces

(* A token that opens nothing any more is not observed further.              *)
HeureAcces ==
  /\ HeureSuivante
  /\ acces' = IF AccesValide(acces, heure') THEN acces ELSE AccesAbsent
  /\ UNCHANGED porte

PasAcces ==
  \/ \E r \in Requetes, m \in Membres : ConnecterAcces(r, m)
  \/ \E r \in Requetes, t \in Jetons : TrouverJetonAcces(r, t) \/ DeconnecterAcces(r, t)
  \/ \E r \in Requetes : LireCompteAcces(r) \/ RevoquerAcces(r) \/ EnregistrerAcces(r)
  \/ \E r \in Requetes, m \in Membres, p \in Profil : EditerSousJeton(r, m, p)
  \/ \E r \in Requetes : EcrireSousJeton(r) \/ RefuserJeton(r)
  \/ AutresPas \/ HeureAcces

AdminOuvert(m) == Ouvert(m) /\ RoleDe(m) = Admin

(* By a logout, or by the first of the rotations that get that far           *)
Revoques ==
  {t \in Jetons : ~jetons[t].revoque /\ jetons'[t].revoque /\ Rotations(t) # {}}

Historique ==
  /\ ouvert' = [m \in Membres |-> IF AdminOuvert(m)' THEN heure' ELSE ouvert[m]]
  /\ sortie' = IF \E t \in Jetons : t = sortie.jeton /\ Rotations(t)' # {} THEN sortie
               ELSE IF Revoques = {} THEN SansSortie
               ELSE [jeton |-> CHOOSE t \in Jetons : t \in Revoques, heure |-> heure]

InitAcces ==
  /\ Init
  /\ porte = [r \in Requetes |-> PorteVide]
  /\ acces = AccesAbsent
  /\ ouvert = [m \in Membres |-> Jamais]
  /\ sortie = SansSortie

NextAcces == PasAcces /\ Historique

SpecAcces == InitAcces /\ [][NextAcces]_varsAcces

-----------------------------------------------------------------------------
(* Properties *)

(* Every variable keeps its type. *)
TypeAcces ==
  /\ TypeComptes
  /\ porte \in [Requetes -> Porte]
  /\ acces \in JetonAcces
  /\ ouvert \in [Membres -> Nat \cup {Jamais}]
  /\ sortie \in Sortie

(* An open administrator was one at this very hour.                          *)
OuvertsDates ==
  \A m \in Membres : ouvert[m] <= heure /\ (AdminOuvert(m) => ouvert[m] = heure)

(* Behind EffetBorne: a request carries the role Admin no longer than Delai  *)
(* after the account lost it, a token DureeAcces longer, and a request let   *)
(* in by that token Delai longer again.                                      *)
PorteBornee(r) ==
  LET p == porte[r]  ouvertA == ouvert[p.membre]
  IN  /\ p.membre \in Membres
      /\ p.limite <= heure + Delai
      /\ IF req[r].etape = "ecriture"
         THEN p.role = Admin /\ p.limite < ouvertA + DureeAcces + 2 * Delai
         ELSE p.membre = req[r].membre /\ (p.role = Admin => p.limite <= ouvertA + Delai)

PortesBornees ==
  \A r \in Requetes :
    IF req[r].etape = "libre" THEN porte[r] = PorteVide ELSE PorteBornee(r)

AccesBorne ==
  acces.role = Admin =>
    acces.membre \in Membres /\ acces.expire <= ouvert[acces.membre] + DureeAcces + Delai

(* Behind RevocationBornee: the rotations of a token that was revoked had    *)
(* all begun.                                                                *)
SortieBornee ==
  sortie.jeton \in Jetons =>
    /\ jetons[sortie.jeton].revoque
    /\ \A r \in Requetes : req[r].jeton = sortie.jeton => porte[r].limite <= sortie.heure + Delai

InvariantAcces ==
  TypeAcces /\ OuvertsDates /\ PortesBornees /\ AccesBorne /\ SortieBornee

(* A change of role, a deactivation or a deletion takes its full effect      *)
(* within the life of an access token and two requests (one that read the    *)
(* account before and issued the token, one that was let in by the token at  *)
(* its end): no administration of accounts is written later by somebody who  *)
(* is not an open administrator any more ("acceptable vu leur duree de vie   *)
(* reduite").                                                                *)
EffetBorne ==
  [][\A r \in Requetes :
       /\ req[r].etape = "ecriture" /\ req[r].sorte = "administration"
       /\ comptes' # comptes /\ req'[r].etape = "libre"
       => heure < ouvert[porte[r].membre] + DureeAcces + 2 * Delai]_varsAcces

(* A token that was revoked, by a logout or by a rotation of it, gives       *)
(* successors only to the rotations that had passed the test before: none is *)
(* recorded later than the delay of a request after the revocation.  So a    *)
(* session forks between simultaneous rotations only ("sa reutilisation ...  *)
(* echouera"), and a logout ends it but for those under way.                 *)
RevocationBornee ==
  [][\A t \in Jetons :
       t = sortie.jeton /\ Successeurs(t)' # Successeurs(t)
       => heure <= sortie.heure + Delai]_varsAcces

=============================================================================
