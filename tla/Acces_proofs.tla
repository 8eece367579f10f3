---------------------------- MODULE Acces_proofs ----------------------------
(***************************************************************************)
(* Proofs about accounts and sessions (Comptes), then about the access     *)
(* tokens and deadlines they live under (Acces), for every set of members, *)
(* tokens, requests and roles, every life of the two kinds of tokens and   *)
(* every delay.                                                            *)
(***************************************************************************)
EXTENDS Acces, FiniteSetTheorems, TLAPS

-----------------------------------------------------------------------------
(* Counting the successors of a token *)

(* The successors of a token and the rotations of it are finite sets, so     *)
(* that their numbers are natural numbers.                                   *)
LEMMA Denombrement ==
  /\ \A t : IsFiniteSet(Successeurs(t)) /\ Cardinality(Successeurs(t)) \in Nat
  /\ \A t : /\ IsFiniteSet(Rotations(t)) /\ Cardinality(Rotations(t)) \in Nat
            /\ Cardinality(Rotations(t)) <= Cardinality(Requetes)
  /\ Cardinality(Requetes) \in Nat
<1>1. \A t : Successeurs(t) \in SUBSET Jetons
  BY DEF Successeurs
<1>2. \A t : Rotations(t) \in SUBSET Requetes
  BY DEF Rotations
<1>. QED
  BY <1>1, <1>2, JetonsFinis, RequetesFinies, FS_Subset, FS_CardinalityType

(* The same in the next state.                                               *)
LEMMA DenombrementSuivant ==
  /\ \A t : IsFiniteSet(Successeurs(t)') /\ Cardinality(Successeurs(t)') \in Nat
  /\ \A t : /\ IsFiniteSet(Rotations(t)') /\ Cardinality(Rotations(t)') \in Nat
            /\ Cardinality(Rotations(t)') <= Cardinality(Requetes)
<1>1. \A t : Successeurs(t)' \in SUBSET Jetons
  BY DEF Successeurs
<1>2. \A t : Rotations(t)' \in SUBSET Requetes
  BY DEF Rotations
<1>. QED
  BY <1>1, <1>2, JetonsFinis, RequetesFinies, FS_Subset, FS_CardinalityType

-----------------------------------------------------------------------------
(* Steps that record no token *)

(* What a step that records no token may do to those on record: revoke them  *)
(* or remove them.                                                           *)
SansNouveauJeton ==
  \A t \in Jetons :
    /\ jetons'[t].origine = jetons[t].origine
    /\ jetons'[t].membre = jetons[t].membre
    /\ jetons[t].revoque => jetons'[t].revoque
    /\ jetons'[t].etat = "jamais" <=> jetons[t].etat = "jamais"
    /\ jetons'[t].etat = "enregistre" => jetons[t].etat = "enregistre"

(* Such a step keeps the invariant when it starts a rotation only of tokens  *)
(* without successors, leaves the requests it moves coherent, and removes no *)
(* account whose tokens stay.                                                *)
LEMMA EtapeSansNouveauJeton ==
  ASSUME InvariantComptes, TypeComptes', SansNouveauJeton,
         \A r \in Requetes : req'[r] = req[r] \/ RequeteCoherente(r)',
         \A t \in Jetons : Rotations(t)' \subseteq Rotations(t) \/ Successeurs(t) = {},
         \A t \in Jetons : jetons'[t].etat = "enregistre" => EnLigne(jetons[t].membre)'
  PROVE  InvariantComptes'
<1>. USE DEF InvariantComptes
<1>1. \A r \in Requetes : RequeteCoherente(r)'
  <2>. SUFFICES ASSUME NEW r \in Requetes, req'[r] = req[r]
               PROVE  RequeteCoherente(r)'
    OBVIOUS
  <2>. QED
    BY DEF RequeteCoherente, SansNouveauJeton
<1>2. \A t \in Jetons : Successeurs(t)' = Successeurs(t)
  BY DEF Successeurs, SansNouveauJeton
<1>3. \A t \in Jetons : ChaineCoherente(t)'
  <2>. SUFFICES ASSUME NEW t \in Jetons
               PROVE  ChaineCoherente(t)'
    OBVIOUS
  <2>1. /\ jetons'[t].etat = "enregistre" => jetons'[t].membre \in Membres
        /\ Successeurs(t)' # {} => jetons'[t].revoque /\ jetons'[t].etat # "jamais"
    BY <1>2 DEF ChaineCoherente, SansNouveauJeton
  <2>2. Cardinality(Successeurs(t)') + Cardinality(Rotations(t)') <= Cardinality(Requetes)
    <3>1. CASE Rotations(t)' \subseteq Rotations(t)
      <4>1. Cardinality(Rotations(t)') <= Cardinality(Rotations(t))
        BY <3>1, Denombrement, FS_Subset
      <4>. QED
        BY <4>1, <1>2, Denombrement, DenombrementSuivant DEF ChaineCoherente
    <3>2. CASE Successeurs(t) = {}
      BY <3>2, <1>2, FS_EmptySet, Denombrement, DenombrementSuivant
    <3>. QED
      BY <3>1, <3>2
  <2>. QED
    BY <2>1, <2>2 DEF ChaineCoherente
<1>4. JetonRattache'
  BY DEF JetonRattache, SansNouveauJeton, EnLigne
<1>. QED
  BY <1>1, <1>3, <1>4

(* A step of request r that leaves the tokens and the accounts alone.        *)
LEMMA EtapeLocale ==
  ASSUME InvariantComptes, NEW r \in Requetes, NEW q \in Requete,
         req' = [req EXCEPT ![r] = q], UNCHANGED <<comptes, jetons, heure>>,
         RequeteCoherente(r)',
         q.jeton \in Jetons => q.jeton = req[r].jeton \/ Successeurs(q.jeton) = {}
  PROVE  InvariantComptes'
<1>1. TypeComptes'
  BY DEF InvariantComptes, TypeComptes
<1>2. SansNouveauJeton
  BY DEF SansNouveauJeton
<1>3. /\ req'[r] = q
      /\ \A f \in Requetes \ {r} : req'[f] = req[f]
  BY DEF InvariantComptes, TypeComptes
<1>4. \A t \in Jetons : Rotations(t)' \subseteq Rotations(t) \/ Successeurs(t) = {}
  BY <1>3 DEF Rotations
<1>5. \A t \in Jetons : jetons'[t].etat = "enregistre" => EnLigne(jetons[t].membre)'
  BY DEF InvariantComptes, JetonRattache, EnLigne
<1>. QED
  BY <1>1, <1>2, <1>3, <1>4, <1>5, EtapeSansNouveauJeton

(* A reply needs nothing: the request is free again.                         *)
LEMMA EtapeFinale ==
  ASSUME InvariantComptes, NEW r \in Requetes, Terminer(r), SansNouveauJeton,
         comptes' \in [Membres -> Compte \cup {CompteAbsent, CompteEfface}],
         jetons' \in [Jetons -> Jeton], heure' \in Nat,
         \A m \in Membres : EnLigne(m) => EnLigne(m)'
  PROVE  InvariantComptes'
<1>0. Aucun \notin Jetons
  BY AucunNiDonnee
<1>1. RequeteLibre \in Requete
  BY DEF RequeteLibre, Requete, Etapes
<1>2. /\ req' \in [Requetes -> Requete]
      /\ req'[r] = RequeteLibre
      /\ \A f \in Requetes \ {r} : req'[f] = req[f]
  BY <1>1 DEF Terminer, InvariantComptes, TypeComptes
<1>3. TypeComptes'
  BY <1>2 DEF TypeComptes
<1>4. RequeteCoherente(r)'
  BY <1>0, <1>2 DEF RequeteCoherente, RequeteLibre, EtapesRotation
<1>5. \A t \in Jetons : Rotations(t)' \subseteq Rotations(t)
  BY <1>0, <1>2 DEF Rotations, RequeteLibre
<1>6. \A t \in Jetons : jetons'[t].etat = "enregistre" => EnLigne(jetons[t].membre)'
  BY DEF InvariantComptes, JetonRattache, SansNouveauJeton, ChaineCoherente
<1>. QED
  BY <1>2, <1>3, <1>4, <1>5, <1>6, EtapeSansNouveauJeton

-----------------------------------------------------------------------------
(* The actions *)

(* A login that passes begins a request on no token.                        *)
LEMMA PasConnecter ==
  ASSUME InvariantComptes, NEW r \in Requetes, NEW m \in Membres, Connecter(r, m)
  PROVE  InvariantComptes'
<1> DEFINE q == [RequeteLibre EXCEPT !.etape = "emission", !.sorte = "session", !.membre = m]
<1>1. /\ q \in Requete
      /\ q.etape = "emission" /\ q.membre = m /\ q.jeton = Aucun
  BY DEF RequeteLibre, Requete, Etapes
<1>2. req' = [req EXCEPT ![r] = q] /\ UNCHANGED <<comptes, jetons, heure>>
  BY DEF Connecter
<1> HIDE DEF q
<1>3. req'[r] = q /\ Aucun \notin Jetons
  BY <1>2, AucunNiDonnee DEF InvariantComptes, TypeComptes
<1>4. RequeteCoherente(r)'
  BY <1>1, <1>3 DEF RequeteCoherente, EtapesRotation
<1>. QED
  BY <1>1, <1>2, <1>3, <1>4, EtapeLocale

(* The token found is valid: it was never exchanged.                         *)
LEMMA PasTrouverJeton ==
  ASSUME InvariantComptes, NEW r \in Requetes, NEW t \in Jetons, TrouverJeton(r, t)
  PROVE  InvariantComptes'
<1> DEFINE q == [RequeteLibre EXCEPT !.etape = "compte", !.jeton = t,
                                     !.sorte = "session", !.membre = jetons[t].membre]
<1>1. /\ jetons[t].etat = "enregistre" /\ jetons[t].membre \in Membres
      /\ Successeurs(t) = {}
  BY DEF TrouverJeton, Valide, InvariantComptes, ChaineCoherente
<1>2. /\ q \in Requete
      /\ q.etape = "compte" /\ q.membre \in Membres /\ q.jeton = t
  BY <1>1 DEF RequeteLibre, Requete, Etapes, EtapesRotation
<1>3. req' = [req EXCEPT ![r] = q] /\ UNCHANGED <<comptes, jetons, heure>>
  BY DEF TrouverJeton
<1> HIDE DEF q
<1>4. req'[r] = q
  BY <1>3 DEF InvariantComptes, TypeComptes
<1>5. RequeteCoherente(r)'
  BY <1>1, <1>2, <1>3, <1>4 DEF RequeteCoherente, EtapesRotation
<1>. QED
  BY <1>1, <1>2, <1>3, <1>5, EtapeLocale

(* Reading the account changes nothing but the stage.                       *)
LEMMA PasLireCompte ==
  ASSUME InvariantComptes, NEW r \in Requetes, LireCompte(r)
  PROVE  InvariantComptes'
<1> DEFINE q == [req[r] EXCEPT !.etape = "revocation"]
<1>1. /\ q \in Requete
      /\ q.etape = "revocation" /\ q.membre = req[r].membre /\ q.jeton = req[r].jeton
  BY DEF InvariantComptes, TypeComptes, Requete, Etapes, EtapesRotation
<1>2. req' = [req EXCEPT ![r] = q] /\ UNCHANGED <<comptes, jetons, heure>>
  BY DEF LireCompte
<1>3. RequeteCoherente(r) /\ req[r].etape = "compte"
  BY DEF InvariantComptes, LireCompte
<1> HIDE DEF q
<1>4. req'[r] = q
  BY <1>2 DEF InvariantComptes, TypeComptes
<1>5. RequeteCoherente(r)'
  BY <1>1, <1>2, <1>3, <1>4 DEF RequeteCoherente, EtapesRotation
<1>. QED
  BY <1>1, <1>2, <1>5, EtapeLocale

(* An edition takes its values from the row it reads.                       *)
LEMMA PasLireProfil ==
  ASSUME InvariantComptes, NEW r \in Requetes, NEW m \in Membres, NEW p \in Profil,
         NEW s \in {"profil", "administration"}, LireProfil(r, m, p, s)
  PROVE  InvariantComptes'
<1> DEFINE q == [RequeteLibre EXCEPT !.etape = "ecriture", !.sorte = s, !.membre = m,
                                     !.profil = p]
<1>1. /\ q \in Requete
      /\ q.etape = "ecriture" /\ q.membre = m /\ q.jeton = Aucun /\ q.profil = p
  BY DEF RequeteLibre, Requete, Etapes
<1>2. req' = [req EXCEPT ![r] = q] /\ UNCHANGED <<comptes, jetons, heure>>
  BY DEF LireProfil
<1> HIDE DEF q
<1>3. req'[r] = q /\ Aucun \notin Jetons
  BY <1>2, AucunNiDonnee DEF InvariantComptes, TypeComptes
<1>4. RequeteCoherente(r)'
  BY <1>1, <1>3 DEF RequeteCoherente, EtapesRotation
<1>. QED
  BY <1>1, <1>2, <1>3, <1>4, EtapeLocale

(* The token exchanged is revoked before its successor is recorded.          *)
LEMMA PasRevoquer ==
  ASSUME InvariantComptes, NEW r \in Requetes, Revoquer(r)
  PROVE  InvariantComptes'
<1> DEFINE t == req[r].jeton
<1>1. /\ req[r] \in Requete /\ t \in Jetons /\ jetons[t] \in Jeton
      /\ req[r].membre \in Membres /\ jetons[t].etat # "jamais"
  BY DEF Revoquer, InvariantComptes, TypeComptes, RequeteCoherente, EtapesRotation
<1> DEFINE q == [req[r] EXCEPT !.etape = "emission"]
           j == [jetons[t] EXCEPT !.revoque = TRUE]
<1>2. /\ q \in Requete /\ j \in Jeton
      /\ q.etape = "emission" /\ q.membre = req[r].membre /\ q.jeton = t
      /\ j.revoque /\ j.etat = jetons[t].etat /\ j.origine = jetons[t].origine
      /\ j.membre = jetons[t].membre
  BY <1>1 DEF Requete, Jeton, Etapes
<1>3. /\ req' = [req EXCEPT ![r] = q] /\ jetons' = [jetons EXCEPT ![t] = j]
      /\ UNCHANGED <<comptes, heure>>
  BY DEF Revoquer
<1> HIDE DEF q, j
<1>4. /\ req'[r] = q /\ \A f \in Requetes \ {r} : req'[f] = req[f]
      /\ jetons'[t] = j /\ \A s \in Jetons \ {t} : jetons'[s] = jetons[s]
  BY <1>1, <1>3 DEF InvariantComptes, TypeComptes
<1>5. TypeComptes'
  BY <1>1, <1>2, <1>3 DEF InvariantComptes, TypeComptes
<1>6. SansNouveauJeton
  BY <1>2, <1>4 DEF SansNouveauJeton
<1>7. RequeteCoherente(r)'
  BY <1>1, <1>2, <1>4 DEF RequeteCoherente, EtapesRotation
<1>8. \A s \in Jetons : Rotations(s)' \subseteq Rotations(s)
  BY <1>2, <1>4 DEF Rotations
<1>9. \A s \in Jetons : jetons'[s].etat = "enregistre" => EnLigne(jetons[s].membre)'
  BY <1>3, <1>6 DEF InvariantComptes, JetonRattache, SansNouveauJeton, EnLigne
<1>. QED
  BY <1>4, <1>5, <1>6, <1>7, <1>8, <1>9, EtapeSansNouveauJeton

(* A logout revokes one token.                                              *)
LEMMA PasDeconnecter ==
  ASSUME InvariantComptes, NEW r \in Requetes, NEW t \in Jetons, Deconnecter(r, t)
  PROVE  InvariantComptes'
<1> DEFINE j == [jetons[t] EXCEPT !.revoque = TRUE]
<1>1. jetons[t] \in Jeton
  BY DEF InvariantComptes, TypeComptes
<1>2. /\ j \in Jeton
      /\ j.revoque /\ j.etat = jetons[t].etat /\ j.origine = jetons[t].origine
      /\ j.membre = jetons[t].membre
  BY <1>1 DEF Jeton
<1>3. jetons' = [jetons EXCEPT ![t] = j] /\ UNCHANGED <<comptes, heure, req>>
  BY DEF Deconnecter
<1> HIDE DEF j
<1>4. /\ jetons'[t] = j /\ \A s \in Jetons \ {t} : jetons'[s] = jetons[s]
  BY <1>3 DEF InvariantComptes, TypeComptes
<1>5. TypeComptes'
  BY <1>2, <1>3 DEF InvariantComptes, TypeComptes
<1>6. SansNouveauJeton
  BY <1>2, <1>4 DEF SansNouveauJeton
<1>7. \A s \in Jetons : Rotations(s)' \subseteq Rotations(s)
  BY <1>3 DEF Rotations
<1>8. \A s \in Jetons : jetons'[s].etat = "enregistre" => EnLigne(jetons[s].membre)'
  BY <1>3, <1>6 DEF InvariantComptes, JetonRattache, SansNouveauJeton, EnLigne
<1>. QED
  BY <1>3, <1>5, <1>6, <1>7, <1>8, EtapeSansNouveauJeton

(* One successor more, one rotation less.  The token recorded was never      *)
(* used, so that no request and no other token refers to it.                 *)
LEMMA PasEnregistrer ==
  ASSUME InvariantComptes, NEW r \in Requetes, Enregistrer(r)
  PROVE  InvariantComptes'
<1> DEFINE t0 == req[r].jeton
           j == NouveauJeton(r)
<1>1. PICK t \in Jetons : jetons[t] = JetonJamais /\ jetons' = [jetons EXCEPT ![t] = j]
  BY DEF Enregistrer
<1>2. /\ req[r] \in Requete /\ req[r].etape = "emission" /\ req[r].membre \in Membres
      /\ EnLigne(req[r].membre) /\ t0 \in Jetons \cup {Aucun} /\ heure \in Nat
      /\ t0 \in Jetons => jetons[t0].revoque /\ jetons[t0].etat # "jamais"
      /\ UNCHANGED <<comptes, heure>>
  BY DEF Enregistrer, InvariantComptes, TypeComptes, RequeteCoherente, Requete
<1>3. Aucun \notin Jetons
  BY AucunNiDonnee
<1>4. /\ j \in Jeton /\ j.etat = "enregistre" /\ j.membre = req[r].membre
      /\ j.origine = t0 /\ ~j.revoque
  BY <1>2, DureePositive DEF NouveauJeton, Jeton
<1>5. /\ jetons[t].etat = "jamais" /\ jetons[t].origine = Aucun /\ t # t0
  BY <1>1, <1>2 DEF JetonJamais
<1> HIDE DEF j
<1>6. RequeteLibre \in Requete
  BY DEF RequeteLibre, Requete, Etapes
<1>7. /\ req' \in [Requetes -> Requete] /\ req'[r] = RequeteLibre
      /\ \A f \in Requetes \ {r} : req'[f] = req[f]
      /\ jetons' \in [Jetons -> Jeton] /\ jetons'[t] = j
      /\ \A s \in Jetons \ {t} : jetons'[s] = jetons[s]
  BY <1>1, <1>4, <1>6 DEF Enregistrer, Terminer, InvariantComptes, TypeComptes
<1>8. TypeComptes'
  BY <1>2, <1>7 DEF InvariantComptes, TypeComptes
<1>9. \A f \in Requetes : RequeteCoherente(f)'
  <2>1. RequeteCoherente(r)'
    BY <1>3, <1>7 DEF RequeteCoherente, RequeteLibre, EtapesRotation
  <2>2. ASSUME NEW f \in Requetes \ {r}
        PROVE  RequeteCoherente(f)'
    <3>1. RequeteCoherente(f) /\ req'[f] = req[f]
      BY <1>7 DEF InvariantComptes
    <3>2. req[f].jeton \in Jetons => req[f].jeton # t
      BY <3>1, <1>5 DEF RequeteCoherente
    <3>. QED
      BY <3>1, <3>2, <1>7 DEF RequeteCoherente
  <2>. QED
    BY <2>1, <2>2
<1>10. \A s \in Jetons : s # t0 => Successeurs(s)' = Successeurs(s)
  BY <1>3, <1>4, <1>5, <1>7 DEF Successeurs
<1>11. Successeurs(t) = {} /\ Rotations(t) = {}
  BY <1>5 DEF InvariantComptes, ChaineCoherente, RequeteCoherente, Rotations
<1>12. \A s \in Jetons : Rotations(s)' \subseteq Rotations(s)
  BY <1>3, <1>7 DEF Rotations, RequeteLibre
<1>13. ASSUME NEW s \in Jetons
       PROVE  ChaineCoherente(s)'
  <2>. USE DEF InvariantComptes, ChaineCoherente
  <2>1. Cardinality(Rotations(s)') <= Cardinality(Rotations(s))
    BY <1>12, Denombrement, FS_Subset
  <2>2. CASE s = t0
    <3>1. Successeurs(s)' = Successeurs(s) \cup {t} /\ t \notin Successeurs(s)
      BY <2>2, <1>3, <1>4, <1>5, <1>7 DEF Successeurs
    <3>2. Cardinality(Successeurs(s)') = Cardinality(Successeurs(s)) + 1
      BY <3>1, Denombrement, FS_AddElement
    <3>3. Rotations(s)' = Rotations(s) \ {r} /\ r \in Rotations(s)
      BY <2>2, <1>3, <1>7 DEF Rotations, RequeteLibre
    <3>4. Cardinality(Rotations(s)') = Cardinality(Rotations(s)) - 1
      BY <3>3, Denombrement, FS_RemoveElement
    <3>5. Cardinality(Successeurs(s)') + Cardinality(Rotations(s)') <= Cardinality(Requetes)
      BY <3>2, <3>4, Denombrement
    <3>. QED
      BY <2>2, <3>5, <1>2, <1>5, <1>7
  <2>3. CASE s # t0
    <3>1. Successeurs(s)' = Successeurs(s)
      BY <2>3, <1>10
    <3>2. Cardinality(Successeurs(s)') + Cardinality(Rotations(s)') <= Cardinality(Requetes)
      BY <3>1, <2>1, Denombrement, DenombrementSuivant
    <3>3. CASE s = t
      BY <3>1, <3>2, <3>3, <1>2, <1>4, <1>7, <1>11
    <3>4. CASE s # t
      BY <3>1, <3>2, <3>4, <1>7
    <3>. QED
      BY <3>3, <3>4
  <2>. QED
    BY <2>2, <2>3
<1>14. JetonRattache'
  BY <1>2, <1>4, <1>7 DEF InvariantComptes, JetonRattache, EnLigne
<1>. QED
  BY <1>8, <1>9, <1>13, <1>14 DEF InvariantComptes

(* The edition of a profile and the ends that write nothing.                 *)
LEMMA PasFinal ==
  ASSUME InvariantComptes, NEW r \in Requetes,
         EcrireProfil(r) \/ ProfilInchange(r) \/ RefuserCompte(r)
           \/ RefuserEmission(r) \/ Interrompre(r)
  PROVE  InvariantComptes'
<1>1. UNCHANGED <<jetons, heure>> /\ Terminer(r)
  BY DEF EcrireProfil, ProfilInchange, RefuserCompte, RefuserEmission, Interrompre
<1>2. SansNouveauJeton /\ jetons' \in [Jetons -> Jeton] /\ heure' \in Nat
  BY <1>1 DEF SansNouveauJeton, InvariantComptes, TypeComptes
<1>3. CASE UNCHANGED comptes
  <2>1. /\ comptes' \in [Membres -> Compte \cup {CompteAbsent, CompteEfface}]
        /\ \A m \in Membres : EnLigne(m) => EnLigne(m)'
    BY <1>3 DEF EnLigne, InvariantComptes, TypeComptes
  <2>. QED
    BY <2>1, <1>1, <1>2, EtapeFinale
<1>4. CASE EcrireProfil(r)
  <2> DEFINE m == req[r].membre
             c == [comptes[m] EXCEPT !.profil = req[r].profil]
  <2>1. m \in Membres /\ req[r].profil \in Profil /\ comptes[m].etat = "present"
    BY <1>4 DEF EcrireProfil, InvariantComptes, RequeteCoherente
  <2>2. comptes[m] \in Compte
    BY <2>1 DEF InvariantComptes, TypeComptes, CompteAbsent, CompteEfface
  <2>3. c \in Compte /\ c.etat = "present"
    BY <2>1, <2>2 DEF Compte
  <2>4. comptes' = [comptes EXCEPT ![m] = c]
    BY <1>4 DEF EcrireProfil
  <2> HIDE DEF c
  <2>5. /\ comptes' \in [Membres -> Compte \cup {CompteAbsent, CompteEfface}]
        /\ \A a \in Membres : EnLigne(a) => EnLigne(a)'
    BY <2>1, <2>3, <2>4 DEF EnLigne, InvariantComptes, TypeComptes
  <2>. QED
    BY <2>5, <1>1, <1>2, EtapeFinale
<1>. QED
  BY <1>3, <1>4 DEF ProfilInchange, RefuserCompte, RefuserEmission, Interrompre

(* A step that leaves the tokens and the requests alone and keeps the        *)
(* accounts on record.                                                       *)
LEMMA EtapeDesComptes ==
  ASSUME InvariantComptes, UNCHANGED <<jetons, req>>, heure' \in Nat,
         comptes' \in [Membres -> Compte \cup {CompteAbsent, CompteEfface}],
         \A m \in Membres : EnLigne(m) => EnLigne(m)'
  PROVE  InvariantComptes'
<1>1. TypeComptes'
  BY DEF InvariantComptes, TypeComptes
<1>2. SansNouveauJeton /\ \A t \in Jetons : Rotations(t)' \subseteq Rotations(t)
  BY DEF SansNouveauJeton, Rotations
<1>3. \A t \in Jetons : jetons'[t].etat = "enregistre" => EnLigne(jetons[t].membre)'
  BY DEF InvariantComptes, JetonRattache, ChaineCoherente
<1>. QED
  BY <1>1, <1>2, <1>3, EtapeSansNouveauJeton

(* Removing tokens that are on record, those of the accounts not on record   *)
(* any more among them.                                                      *)
LEMMA EtapeEffacement ==
  ASSUME InvariantComptes, NEW T \in SUBSET Jetons,
         \A t \in T : jetons[t].etat = "enregistre",
         jetons' = Effaces(T), UNCHANGED <<heure, req>>,
         comptes' \in [Membres -> Compte \cup {CompteAbsent, CompteEfface}],
         \A t \in Jetons \ T, m \in Membres :
           jetons[t].etat = "enregistre" /\ jetons[t].membre = m => EnLigne(m)'
  PROVE  InvariantComptes'
<1> DEFINE j(t) == [jetons[t] EXCEPT !.etat = "efface", !.expire = 0]
<1>1. \A t \in Jetons : /\ j(t) \in Jeton /\ j(t).etat = "efface"
                        /\ j(t).membre = jetons[t].membre /\ j(t).origine = jetons[t].origine
                        /\ j(t).revoque = jetons[t].revoque
  <2>1. \A t \in Jetons : jetons[t] \in Jeton
    BY DEF InvariantComptes, TypeComptes
  <2>. QED
    BY <2>1 DEF Jeton
<1>2. jetons' = [t \in Jetons |-> IF t \in T THEN j(t) ELSE jetons[t]]
  BY DEF Effaces
<1> HIDE DEF j
<1>3. TypeComptes'
  BY <1>1, <1>2 DEF InvariantComptes, TypeComptes
<1>4. SansNouveauJeton
  BY <1>1, <1>2 DEF SansNouveauJeton
<1>5. \A t \in Jetons : Rotations(t)' \subseteq Rotations(t)
  BY DEF Rotations
<1>6. \A t \in Jetons : jetons'[t].etat = "enregistre" => EnLigne(jetons[t].membre)'
  BY <1>1, <1>2 DEF InvariantComptes, ChaineCoherente
<1>. QED
  BY <1>3, <1>4, <1>5, <1>6, EtapeSansNouveauJeton

(* No token survives its account: the deletion takes all of them along.      *)
LEMMA PasSupprimerPhysique ==
  ASSUME InvariantComptes, NEW m \in Membres, SupprimerPhysique(m)
  PROVE  InvariantComptes'
<1>1. /\ JetonsDe(m) \in SUBSET Jetons
      /\ \A t \in JetonsDe(m) : jetons[t].etat = "enregistre"
  BY DEF JetonsDe
<1>2. /\ comptes' = [comptes EXCEPT ![m] = CompteEfface]
      /\ jetons' = Effaces(JetonsDe(m)) /\ UNCHANGED <<heure, req>>
  BY DEF SupprimerPhysique
<1>3. comptes' \in [Membres -> Compte \cup {CompteAbsent, CompteEfface}]
  BY <1>2 DEF InvariantComptes, TypeComptes
<1>4. \A t \in Jetons \ JetonsDe(m), a \in Membres :
        jetons[t].etat = "enregistre" /\ jetons[t].membre = a => EnLigne(a)'
  BY <1>2 DEF InvariantComptes, TypeComptes, JetonRattache, EnLigne, JetonsDe
<1>. QED
  BY <1>1, <1>2, <1>3, <1>4, EtapeEffacement

(* The purge removes tokens nobody can exchange any more.                   *)
LEMMA PasPurgerJetons ==
  ASSUME InvariantComptes, PurgerJetons
  PROVE  InvariantComptes'
<1>1. /\ APurger \in SUBSET Jetons
      /\ \A t \in APurger : jetons[t].etat = "enregistre"
      /\ jetons' = Effaces(APurger) /\ UNCHANGED <<comptes, heure, req>>
  BY DEF APurger, PurgerJetons
<1>2. comptes' \in [Membres -> Compte \cup {CompteAbsent, CompteEfface}]
  BY <1>1 DEF InvariantComptes, TypeComptes
<1>3. \A t \in Jetons \ APurger, m \in Membres :
        jetons[t].etat = "enregistre" /\ jetons[t].membre = m => EnLigne(m)'
  BY <1>1 DEF InvariantComptes, JetonRattache, EnLigne
<1>. QED
  BY <1>1, <1>2, <1>3, EtapeEffacement

(* Creations, editions by others and both kinds of deletions *)
LEMMA PasVieDuCompte ==
  ASSUME InvariantComptes, NEW m \in Membres, VieDuCompte(m)
  PROVE  InvariantComptes'
<1>1. heure \in Nat /\ comptes[m] \in Compte \cup {CompteAbsent, CompteEfface}
  BY DEF InvariantComptes, TypeComptes
<1>2. ASSUME NEW n \in Noms, NEW role \in Roles, CreerCompte(m, n, role)
      PROVE  InvariantComptes'
  <2> DEFINE c == [etat |-> "present", profil |-> [nom |-> n, role |-> role, actif |-> TRUE]]
  <2>1. c \in Compte /\ c.etat = "present"
    BY DEF Compte, Profil
  <2>2. comptes' = [comptes EXCEPT ![m] = c] /\ UNCHANGED <<jetons, heure, req>>
    BY <1>2 DEF CreerCompte
  <2> HIDE DEF c
  <2>3. /\ comptes' \in [Membres -> Compte \cup {CompteAbsent, CompteEfface}]
        /\ \A a \in Membres : EnLigne(a) => EnLigne(a)'
    BY <2>1, <2>2 DEF EnLigne, InvariantComptes, TypeComptes
  <2>. QED
    BY <1>1, <2>2, <2>3, EtapeDesComptes
<1>3. CASE SupprimerLogique(m)
  <2> DEFINE c == [comptes[m] EXCEPT !.etat = "supprime", !.profil.actif = FALSE]
  <2>1. comptes[m] \in Compte
    BY <1>1, <1>3 DEF SupprimerLogique, CompteAbsent, CompteEfface
  <2>2. c \in Compte /\ c.etat = "supprime"
    BY <2>1 DEF Compte, Profil
  <2>3. comptes' = [comptes EXCEPT ![m] = c] /\ UNCHANGED <<jetons, heure, req>>
    BY <1>3 DEF SupprimerLogique
  <2> HIDE DEF c
  <2>4. /\ comptes' \in [Membres -> Compte \cup {CompteAbsent, CompteEfface}]
        /\ \A a \in Membres : EnLigne(a) => EnLigne(a)'
    BY <2>2, <2>3 DEF EnLigne, InvariantComptes, TypeComptes
  <2>. QED
    BY <1>1, <2>3, <2>4, EtapeDesComptes
<1>. QED
  BY <1>2, <1>3, PasSupprimerPhysique DEF VieDuCompte

-----------------------------------------------------------------------------
(* The theorems *)

(* No account, no token, no request *)
LEMMA InvariantInitial == ASSUME Init PROVE InvariantComptes
<1>. USE DEF Init
<1>0. Aucun \notin Jetons
  BY AucunNiDonnee
<1>1. TypeComptes
  BY DEF TypeComptes, RequeteLibre, Requete, Etapes, JetonJamais, Jeton
<1>2. \A r \in Requetes : RequeteCoherente(r)
  BY <1>0 DEF RequeteCoherente, RequeteLibre, EtapesRotation
<1>3. \A t \in Jetons : Successeurs(t) = {} /\ Rotations(t) = {}
  BY <1>0 DEF Successeurs, Rotations, JetonJamais, RequeteLibre
<1>4. \A t \in Jetons : ChaineCoherente(t)
  BY <1>3, FS_EmptySet, Denombrement DEF ChaineCoherente, JetonJamais
<1>5. JetonRattache
  BY DEF JetonRattache, JetonJamais
<1>. QED
  BY <1>1, <1>2, <1>4, <1>5 DEF InvariantComptes

(* Every statement, interruption and hour keeps the invariant.              *)
LEMMA InvariantInductif == InvariantComptes /\ [Next]_vars => InvariantComptes'
<1>. SUFFICES ASSUME InvariantComptes, [Next]_vars
             PROVE  InvariantComptes'
  OBVIOUS
<1>1. CASE UNCHANGED vars
  BY <1>1 DEF vars, InvariantComptes, TypeComptes, RequeteCoherente, ChaineCoherente,
              Successeurs, Rotations, JetonRattache, EnLigne
<1>2. ASSUME NEW r \in Requetes, Session(r)
      PROVE  InvariantComptes'
  BY <1>2, PasConnecter, PasTrouverJeton, PasDeconnecter, PasLireCompte, PasRevoquer,
     PasEnregistrer, PasFinal DEF Session
<1>3. ASSUME NEW r \in Requetes, EditionProfil(r)
      PROVE  InvariantComptes'
  BY <1>3, PasLireProfil, PasFinal DEF EditionProfil
<1>4. CASE HeureSuivante
  <2>1. heure' \in Nat /\ UNCHANGED <<comptes, jetons, req>>
    BY <1>4 DEF HeureSuivante, InvariantComptes, TypeComptes
  <2>2. /\ comptes' \in [Membres -> Compte \cup {CompteAbsent, CompteEfface}]
        /\ \A m \in Membres : EnLigne(m) => EnLigne(m)'
    BY <2>1 DEF EnLigne, InvariantComptes, TypeComptes
  <2>. QED
    BY <2>1, <2>2, EtapeDesComptes
<1>. QED
  BY <1>1, <1>2, <1>3, <1>4, PasFinal, PasVieDuCompte, PasPurgerJetons
  DEF Next, RefuserDEmblee

(* The bookkeeping behind the sessions always holds: it is the inductive     *)
(* invariant of the other theorems.                                          *)
THEOREM SessionsCorrectes == Spec => []InvariantComptes
<1>1. Init => InvariantComptes
  BY InvariantInitial
<1>. QED
  BY <1>1, InvariantInductif, PTL DEF Spec

(* No token is on record without its account, whatever the order in which    *)
(* the statements that issue it and that delete the account come.            *)
THEOREM JetonToujoursRattache == Spec => []JetonRattache
<1>1. InvariantComptes => JetonRattache
  BY DEF InvariantComptes
<1>. QED
  BY <1>1, SessionsCorrectes, PTL

(* A token that was exchanged is never valid again, even when the rotation   *)
(* was interrupted or ran beside others.                                     *)
THEOREM EchangeToujoursRevoque == Spec => []EchangeRevoque
<1>1. InvariantComptes => EchangeRevoque
  BY DEF InvariantComptes, ChaineCoherente, EchangeRevoque, Valide
<1>. QED
  BY <1>1, SessionsCorrectes, PTL

(* A token is exchanged at most once per request served at the same time.    *)
THEOREM RotationsBornees == Spec => []DescendanceBornee
<1>1. InvariantComptes => DescendanceBornee
  BY Denombrement DEF InvariantComptes, ChaineCoherente, DescendanceBornee
<1>. QED
  BY <1>1, SessionsCorrectes, PTL

(* Whatever an edition read before, it neither changes nor revives an        *)
(* account that was deleted meanwhile.                                       *)
THEOREM SuppressionDefinitive == Spec => CompteSupprimeFige
<1> DEFINE Fige(m) ==
      /\ comptes[m].etat = "supprime" => comptes'[m] \in {comptes[m], CompteEfface}
      /\ comptes[m] = CompteEfface => comptes'[m] = CompteEfface
<1>1. TypeComptes /\ [Next]_vars => \A m \in Membres : Fige(m)
  <2>. SUFFICES ASSUME TypeComptes, [Next]_vars, NEW m \in Membres
               PROVE  Fige(m)
    OBVIOUS
  <2>1. CASE UNCHANGED comptes
    BY <2>1
  <2>2. ASSUME NEW r \in Requetes, EcrireProfil(r)
        PROVE  Fige(m)
    BY <2>2 DEF EcrireProfil, TypeComptes, CompteEfface
  <2>3. ASSUME NEW a \in Membres, VieDuCompte(a)
        PROVE  Fige(m)
    <3>1. ASSUME NEW n \in Noms, NEW role \in Roles, CreerCompte(a, n, role)
          PROVE  Fige(m)
      BY <3>1 DEF CreerCompte, TypeComptes, CompteAbsent, CompteEfface
    <3>2. CASE SupprimerLogique(a)
      BY <3>2 DEF SupprimerLogique, TypeComptes, CompteEfface
    <3>3. CASE SupprimerPhysique(a)
      BY <3>3 DEF SupprimerPhysique, TypeComptes
    <3>. QED
      BY <2>3, <3>1, <3>2, <3>3 DEF VieDuCompte
  <2>4. Next => \/ UNCHANGED comptes
                \/ \E r \in Requetes : EcrireProfil(r)
                \/ \E a \in Membres : VieDuCompte(a)
    BY DEF Next, Session, EditionProfil, RefuserDEmblee, Interrompre, PurgerJetons,
           HeureSuivante, Connecter, TrouverJeton, LireCompte, RefuserCompte, Revoquer,
           Enregistrer, RefuserEmission, Deconnecter, LireProfil, ProfilInchange, vars
  <2>. QED
    BY <2>1, <2>2, <2>3, <2>4 DEF vars
<1>2. InvariantComptes => TypeComptes
  BY DEF InvariantComptes
<1>3. TypeComptes /\ [Next]_vars => [\A m \in Membres : Fige(m)]_vars
  BY <1>1
<1>. QED
  BY <1>2, <1>3, SessionsCorrectes, PTL DEF Spec, CompteSupprimeFige

-----------------------------------------------------------------------------
(* The steps of Acces are steps of Comptes *)

(* Whatever a request carries besides, each step of Acces is one of Comptes  *)
(* or leaves its variables alone.                                            *)
LEMMA PasDeComptes == ASSUME PasAcces PROVE [Next]_vars
<1>1. ASSUME NEW r \in Requetes, NEW m \in Membres, ConnecterAcces(r, m)
      PROVE  Next
  BY <1>1 DEF ConnecterAcces, Next, Session
<1>2. ASSUME NEW r \in Requetes, NEW t \in Jetons,
             TrouverJetonAcces(r, t) \/ DeconnecterAcces(r, t)
      PROVE  Next
  BY <1>2 DEF TrouverJetonAcces, DeconnecterAcces, Next, Session
<1>3. ASSUME NEW r \in Requetes,
             LireCompteAcces(r) \/ RevoquerAcces(r) \/ EnregistrerAcces(r)
      PROVE  Next
  BY <1>3 DEF LireCompteAcces, RevoquerAcces, EnregistrerAcces, Next, Session
<1>4. ASSUME NEW r \in Requetes, NEW m \in Membres, NEW p \in Profil, EditerSousJeton(r, m, p)
      PROVE  Next
  BY <1>4 DEF EditerSousJeton, Next, EditionProfil
<1>5. ASSUME NEW r \in Requetes, EcrireSousJeton(r) \/ RefuserJeton(r)
      PROVE  [Next]_vars
  BY <1>5 DEF EcrireSousJeton, RefuserJeton, Next, EditionProfil, varsAcces, vars
<1>6. CASE AutresPas
  BY <1>6 DEF AutresPas, Next, Session, EditionProfil
<1>7. CASE HeureAcces
  BY <1>7 DEF HeureAcces, Next
<1>. QED
  BY <1>1, <1>2, <1>3, <1>4, <1>5, <1>6, <1>7 DEF PasAcces

(* Sessions under access tokens are sessions: every theorem about Comptes    *)
(* holds of them.                                                            *)
THEOREM AccesRealiseComptes == SpecAcces => Spec
<1>1. InitAcces => Init
  BY DEF InitAcces
<1>2. [NextAcces]_varsAcces => [Next]_vars
  BY PasDeComptes DEF NextAcces, varsAcces, vars
<1>. QED
  BY <1>1, <1>2, PTL DEF SpecAcces, Spec

-----------------------------------------------------------------------------
(* Time and revocation *)

(* Time does not go back, passes in steps of its own, and what is revoked    *)
(* stays so.                                                                 *)
LEMMA RevocationDurable ==
  ASSUME InvariantComptes, [Next]_vars
  PROVE  /\ heure' \in Nat /\ heure <= heure'
         /\ heure' = heure \/ UNCHANGED <<jetons, req>>
         /\ \A t \in Jetons : jetons[t].revoque => jetons'[t].revoque
<1> DEFINE Durable == \A t \in Jetons : jetons[t].revoque => jetons'[t].revoque
<1>0. jetons \in [Jetons -> Jeton] /\ heure \in Nat
  BY DEF InvariantComptes, TypeComptes
<1>1. \/ UNCHANGED <<jetons, req>> /\ heure' \in {heure, heure + 1}
      \/ heure' = heure
  BY DEF Next, Session, EditionProfil, VieDuCompte, RefuserDEmblee, Interrompre, PurgerJetons,
         HeureSuivante, Connecter, TrouverJeton, LireCompte, RefuserCompte, Revoquer,
         Enregistrer, RefuserEmission, Deconnecter, LireProfil, EcrireProfil, ProfilInchange,
         CreerCompte, SupprimerLogique, SupprimerPhysique, vars
<1>2. \/ UNCHANGED jetons
      \/ \E r \in Requetes : Revoquer(r) \/ Enregistrer(r) \/ \E t \in Jetons : Deconnecter(r, t)
      \/ \E T : jetons' = Effaces(T)
  BY DEF Next, Session, EditionProfil, VieDuCompte, RefuserDEmblee, Interrompre, PurgerJetons,
         HeureSuivante, Connecter, TrouverJeton, LireCompte, RefuserCompte,
         RefuserEmission, LireProfil, EcrireProfil, ProfilInchange,
         CreerCompte, SupprimerLogique, SupprimerPhysique, vars
<1>3. ASSUME NEW r \in Requetes, Revoquer(r)
      PROVE  Durable
  BY <1>0, <1>3 DEF Revoquer, Jeton
<1>4. ASSUME NEW r \in Requetes, NEW t \in Jetons, Deconnecter(r, t)
      PROVE  Durable
  BY <1>0, <1>4 DEF Deconnecter, Jeton
<1>5. ASSUME NEW r \in Requetes, Enregistrer(r)
      PROVE  Durable
  BY <1>0, <1>5 DEF Enregistrer, JetonJamais
<1>6. ASSUME NEW T, jetons' = Effaces(T)
      PROVE  Durable
  <2>1. \A t \in Jetons : [jetons[t] EXCEPT !.etat = "efface", !.expire = 0].revoque
                           = jetons[t].revoque
    BY <1>0 DEF Jeton
  <2>. QED
    BY <1>6, <2>1 DEF Effaces
<1>. QED
  BY <1>0, <1>1, <1>2, <1>3, <1>4, <1>5, <1>6

(* The hours of the open administrators follow.                              *)
LEMMA OuvertsSuivants ==
  ASSUME TypeAcces, OuvertsDates, Historique, heure' \in Nat, heure <= heure'
  PROVE  /\ ouvert' \in [Membres -> Nat \cup {Jamais}]
         /\ OuvertsDates'
         /\ \A m \in Membres : ouvert[m] <= ouvert'[m]
<1>1. ouvert' = [m \in Membres |-> IF AdminOuvert(m)' THEN heure' ELSE ouvert[m]]
  BY DEF Historique
<1>2. heure \in Nat /\ \A m \in Membres : ouvert[m] \in Nat \cup {-1} /\ ouvert[m] <= heure
  BY DEF TypeAcces, TypeComptes, OuvertsDates, Jamais
<1>3. ouvert' \in [Membres -> Nat \cup {-1}]
  BY <1>1, <1>2
<1>4. \A m \in Membres : ouvert[m] <= ouvert'[m] /\ ouvert'[m] <= heure'
                            /\ (AdminOuvert(m)' => ouvert'[m] = heure')
  BY <1>1, <1>2
<1>. QED
  BY <1>3, <1>4 DEF OuvertsDates, Jamais

-----------------------------------------------------------------------------
(* What a step may do to the requests and to the token observed *)

(* A request goes on with what it carries, gives it back, or carries what    *)
(* the invariant allows.                                                     *)
PorteNouvelle(r) ==
  LET p == porte'[r]
  IN  /\ req'[r].etape # "libre"
      /\ p.membre \in Membres
      /\ p.limite <= heure + Delai
      /\ IF req'[r].etape = "ecriture"
         THEN p.role = Admin /\ p.limite < ouvert[p.membre] + DureeAcces + 2 * Delai
         ELSE p.membre = req'[r].membre
                /\ (p.role = Admin => p.limite <= ouvert[p.membre] + Delai)

PorteSuivante(r) ==
  \/ req'[r] = req[r] /\ porte'[r] = porte[r]
  \/ req'[r].etape = "libre" /\ porte'[r] = PorteVide
  \/ PorteNouvelle(r)

(* A rotation goes on, or begins with a token that is not revoked.           *)
RotationSuivante(r) ==
  req'[r].jeton \in Jetons =>
    \/ req'[r].jeton = req[r].jeton /\ porte'[r].limite = porte[r].limite
    \/ ~jetons[req'[r].jeton].revoque

AccesSuivant ==
  \/ acces' = acces
  \/ acces'.role = Admin =>
       acces'.membre \in Membres
         /\ acces'.expire <= ouvert[acces'.membre] + DureeAcces + Delai

(* A step that does no more than that keeps the invariant.                   *)
LEMMA EtapeAcces ==
  ASSUME InvariantAcces, InvariantComptes, [Next]_vars, Historique,
         porte' \in [Requetes -> Porte], acces' \in JetonAcces, AccesSuivant,
         \A r \in Requetes : PorteSuivante(r) /\ RotationSuivante(r)
  PROVE  InvariantAcces'
<1>1. /\ heure \in Nat /\ heure' \in Nat /\ heure <= heure'
      /\ heure' = heure \/ UNCHANGED <<jetons, req>>
      /\ \A t \in Jetons : jetons[t].revoque => jetons'[t].revoque
  BY RevocationDurable DEF InvariantComptes, TypeComptes
<1>2. /\ ouvert' \in [Membres -> Nat \cup {-1}] /\ OuvertsDates'
      /\ \A m \in Membres : ouvert[m] <= ouvert'[m]
  BY <1>1, OuvertsSuivants DEF InvariantAcces, Jamais
<1>3. /\ ouvert \in [Membres -> Nat \cup {-1}] /\ porte \in [Requetes -> Porte]
      /\ acces \in JetonAcces /\ sortie \in Sortie
  BY DEF InvariantAcces, TypeAcces, Jamais
<1>4. DureeAcces \in Nat /\ Delai \in Nat /\ Aucun \notin Jetons
  BY DureeAccesPositive, DelaiNaturel, AucunNiDonnee
<1>5. TypeComptes'
  BY InvariantInductif DEF InvariantComptes
<1>6. sortie' \in Sortie
  <2>1. Revoques # {} => (CHOOSE t \in Jetons : t \in Revoques) \in Jetons
    BY DEF Revoques
  <2>. QED
    BY <1>1, <1>3, <2>1 DEF Historique, Sortie, SansSortie
<1>7. PortesBornees'
  <2>. SUFFICES ASSUME NEW r \in Requetes
               PROVE  IF req'[r].etape = "libre" THEN porte'[r] = PorteVide ELSE PorteBornee(r)'
    BY DEF PortesBornees
  <2>1. porte[r] \in Porte /\ porte'[r] \in Porte /\ PorteSuivante(r)
    BY <1>3
  <2>2. CASE req'[r] = req[r] /\ porte'[r] = porte[r]
    <3>1. CASE req[r].etape = "libre"
      BY <2>2, <3>1 DEF InvariantAcces, PortesBornees
    <3>2. CASE req[r].etape # "libre"
      <4>1. PorteBornee(r)
        BY <3>2 DEF InvariantAcces, PortesBornees
      <4>. QED
        BY <1>1, <1>2, <1>3, <1>4, <2>1, <2>2, <3>2, <4>1 DEF PorteBornee, Porte
    <3>. QED
      BY <3>1, <3>2
  <2>3. CASE PorteNouvelle(r)
    BY <1>1, <1>2, <1>3, <1>4, <2>1, <2>3 DEF PorteNouvelle, PorteBornee, Porte
  <2>. QED
    BY <2>1, <2>2, <2>3 DEF PorteSuivante
<1>8. AccesBorne'
  BY <1>1, <1>2, <1>3, <1>4 DEF AccesSuivant, AccesBorne, InvariantAcces, JetonAcces
<1>9. SortieBornee'
  <2>. SUFFICES ASSUME sortie'.jeton \in Jetons
               PROVE  /\ jetons'[sortie'.jeton].revoque
                      /\ \A r \in Requetes : req'[r].jeton = sortie'.jeton =>
                                               porte'[r].limite <= sortie'.heure + Delai
    BY DEF SortieBornee
  <2>1. CASE sortie' = sortie
    <3>1. jetons'[sortie'.jeton].revoque
      BY <1>1, <2>1 DEF InvariantAcces, SortieBornee
    <3>2. ASSUME NEW r \in Requetes, req'[r].jeton = sortie'.jeton
          PROVE  porte'[r].limite <= sortie'.heure + Delai
      BY <2>1, <3>2 DEF InvariantAcces, SortieBornee, RotationSuivante
    <3>. QED
      BY <3>1, <3>2
  <2>2. CASE sortie' # sortie
    <3>1. sortie'.jeton \in Revoques /\ sortie'.heure = heure
      BY <1>4, <2>2 DEF Historique, Revoques, SansSortie
    <3>2. jetons'[sortie'.jeton].revoque /\ heure' = heure
      BY <1>1, <3>1 DEF Revoques
    <3>3. ASSUME NEW r \in Requetes
          PROVE  porte'[r].limite <= heure' + Delai
      BY <1>1, <1>4, <1>7 DEF PortesBornees, PorteBornee, PorteVide
    <3>. QED
      BY <3>1, <3>2, <3>3
  <2>. QED
    BY <2>1, <2>2
<1>10. TypeAcces'
  BY <1>2, <1>5, <1>6 DEF TypeAcces, Jamais
<1>. QED
  BY <1>2, <1>7, <1>8, <1>9, <1>10 DEF InvariantAcces

-----------------------------------------------------------------------------
(* The steps *)

EtapePermise ==
  /\ porte' \in [Requetes -> Porte]
  /\ acces' \in JetonAcces
  /\ AccesSuivant
  /\ \A r \in Requetes : PorteSuivante(r) /\ RotationSuivante(r)

(* What the lemmas below need of the types.                                  *)
LEMMA Types ==
  ASSUME InvariantAcces
  PROVE  /\ req \in [Requetes -> Requete] /\ porte \in [Requetes -> Porte]
         /\ jetons \in [Jetons -> Jeton] /\ ouvert \in [Membres -> Nat \cup {-1}]
         /\ heure \in Nat /\ acces \in JetonAcces
         /\ DureeAcces \in Nat /\ Delai \in Nat
         /\ Aucun \notin Membres /\ Aucun \notin Jetons /\ Aucun # Admin
         /\ \A m \in Membres : Ouvert(m) => RoleDe(m) \in Roles
BY DureeAccesPositive, DelaiNaturel, AucunNiDonnee, AdminEstUnRole
   DEF InvariantAcces, TypeAcces, TypeComptes, Jamais, Ouvert, RoleDe, Compte, Profil,
       CompteAbsent, CompteEfface

(* The requests a step leaves alone do what the invariant allows; what       *)
(* remains is the request it moves.                                          *)
LEMMA EtapeDUneRequete ==
  ASSUME InvariantAcces, NEW r \in Requetes, NEW q, NEW p \in Porte,
         req' = [req EXCEPT ![r] = q], porte' = [porte EXCEPT ![r] = p], acces' = acces,
         PorteSuivante(r), RotationSuivante(r)
  PROVE  EtapePermise
<1>1. porte' \in [Requetes -> Porte] /\ acces' \in JetonAcces /\ AccesSuivant
  BY Types DEF AccesSuivant
<1>2. ASSUME NEW s \in Requetes, s # r
      PROVE  PorteSuivante(s) /\ RotationSuivante(s)
  BY <1>2, Types DEF PorteSuivante, RotationSuivante
<1>. QED
  BY <1>1, <1>2 DEF EtapePermise

(* A step that only ends requests takes back what they carried.              *)
LEMMA EtapeRendue ==
  ASSUME InvariantAcces, Rendue, acces' \in JetonAcces, AccesSuivant,
         \A r \in Requetes : req'[r] = req[r] \/ req'[r] = RequeteLibre
  PROVE  EtapePermise
<1>1. porte' \in [Requetes -> Porte]
  BY Types DEF Rendue, PorteVide, Porte
<1>2. ASSUME NEW r \in Requetes
      PROVE  PorteSuivante(r) /\ RotationSuivante(r)
  <2>1. CASE req'[r].etape = "libre"
    <3>1. porte'[r] = PorteVide
      BY <2>1 DEF Rendue
    <3>2. req'[r] = RequeteLibre \/ (req'[r] = req[r] /\ porte'[r] = porte[r])
      BY <2>1, <3>1 DEF InvariantAcces, PortesBornees
    <3>. QED
      BY <2>1, <3>1, <3>2, Types DEF PorteSuivante, RotationSuivante, RequeteLibre
  <2>2. CASE req'[r].etape # "libre"
    <3>1. porte'[r] = porte[r] /\ req'[r] = req[r]
      BY <2>2 DEF Rendue, RequeteLibre
    <3>. QED
      BY <3>1 DEF PorteSuivante, RotationSuivante
  <2>. QED
    BY <2>1, <2>2
<1>. QED
  BY <1>1, <1>2 DEF EtapePermise

(* A login carries the role of an account that is open now.                  *)
LEMMA PasConnecterAcces ==
  ASSUME InvariantAcces, NEW r \in Requetes, NEW m \in Membres, ConnecterAcces(r, m)
  PROVE  EtapePermise
<1> DEFINE q == [RequeteLibre EXCEPT !.etape = "emission", !.sorte = "session", !.membre = m]
           p == [membre |-> m, role |-> RoleDe(m), limite |-> heure + Delai]
<1>1. /\ req' = [req EXCEPT ![r] = q] /\ porte' = [porte EXCEPT ![r] = p] /\ acces' = acces
      /\ Ouvert(m)
  BY DEF ConnecterAcces, Connecter, Arrivee
<1>2. p \in Porte
  BY <1>1, Types DEF Porte
<1>3. req'[r] = q /\ porte'[r] = p
  BY <1>1, Types
<1>4. p.role = Admin => ouvert[m] = heure
  BY <1>1 DEF InvariantAcces, OuvertsDates, AdminOuvert
<1>5. PorteSuivante(r) /\ RotationSuivante(r)
  BY <1>3, <1>4, Types DEF PorteSuivante, PorteNouvelle, RotationSuivante, RequeteLibre
<1>. QED
  BY <1>1, <1>2, <1>5, EtapeDUneRequete

(* A rotation starts without a role, from a token that is not revoked.       *)
LEMMA PasTrouverJetonAcces ==
  ASSUME InvariantAcces, InvariantComptes, NEW r \in Requetes, NEW t \in Jetons,
         TrouverJetonAcces(r, t)
  PROVE  EtapePermise
<1> DEFINE q == [RequeteLibre EXCEPT !.etape = "compte", !.jeton = t, !.sorte = "session",
                                     !.membre = jetons[t].membre]
           p == [membre |-> jetons[t].membre, role |-> Aucun, limite |-> heure + Delai]
<1>1. /\ req' = [req EXCEPT ![r] = q] /\ porte' = [porte EXCEPT ![r] = p] /\ acces' = acces
      /\ Valide(t)
  BY DEF TrouverJetonAcces, TrouverJeton, Arrivee
<1>2. jetons[t].membre \in Membres /\ ~jetons[t].revoque
  BY <1>1 DEF InvariantComptes, ChaineCoherente, Valide
<1>3. p \in Porte
  BY <1>2, Types DEF Porte
<1>4. req'[r] = q /\ porte'[r] = p
  BY <1>1, Types
<1>5. PorteSuivante(r) /\ RotationSuivante(r)
  BY <1>2, <1>4, Types DEF PorteSuivante, PorteNouvelle, RotationSuivante, RequeteLibre
<1>. QED
  BY <1>1, <1>3, <1>5, EtapeDUneRequete

(* It takes the role of the account as it is now.                            *)
LEMMA PasLireCompteAcces ==
  ASSUME InvariantAcces, NEW r \in Requetes, LireCompteAcces(r)
  PROVE  EtapePermise
<1> DEFINE q == [req[r] EXCEPT !.etape = "revocation"]
           m == req[r].membre
           p == [porte[r] EXCEPT !.role = RoleDe(m)]
<1>1. /\ req' = [req EXCEPT ![r] = q] /\ porte' = [porte EXCEPT ![r] = p] /\ acces' = acces
      /\ Ouvert(m) /\ req[r].etape = "compte"
  BY DEF LireCompteAcces, LireCompte
<1>2. PorteBornee(r) /\ porte[r].membre = m /\ m \in Membres
  BY <1>1 DEF InvariantAcces, PortesBornees, PorteBornee
<1>3. p \in Porte
  BY <1>1, <1>2, Types DEF Porte
<1>4. req'[r] = q /\ porte'[r] = p
  BY <1>1, Types
<1>5. p.role = Admin => ouvert[m] = heure
  BY <1>1, <1>2, Types DEF InvariantAcces, OuvertsDates, AdminOuvert, Porte
<1>6. PorteSuivante(r) /\ RotationSuivante(r)
  BY <1>1, <1>2, <1>4, <1>5, Types
     DEF PorteSuivante, PorteNouvelle, PorteBornee, RotationSuivante, Requete, Porte
<1>. QED
  BY <1>1, <1>3, <1>6, EtapeDUneRequete

(* Revoking the token exchanged changes nothing of what is carried.         *)
LEMMA PasRevoquerAcces ==
  ASSUME InvariantAcces, NEW r \in Requetes, RevoquerAcces(r)
  PROVE  EtapePermise
<1> DEFINE q == [req[r] EXCEPT !.etape = "emission"]
<1>1. /\ req' = [req EXCEPT ![r] = q] /\ porte' = porte /\ acces' = acces
      /\ req[r].etape = "revocation"
  BY DEF RevoquerAcces, Revoquer
<1>2. PorteBornee(r)
  BY <1>1 DEF InvariantAcces, PortesBornees
<1>3. req'[r] = q /\ porte'[r] = porte[r] /\ porte[r] \in Porte
      /\ porte' = [porte EXCEPT ![r] = porte[r]]
  BY <1>1, Types
<1>4. PorteSuivante(r) /\ RotationSuivante(r)
  BY <1>1, <1>2, <1>3, Types
     DEF PorteSuivante, PorteNouvelle, PorteBornee, RotationSuivante, Requete, Porte
<1>. QED
  BY <1>1, <1>3, <1>4, EtapeDUneRequete

(* The token signed by a request in time carries a role read Delai ago at    *)
(* most.                                                                     *)
LEMMA PasEnregistrerAcces ==
  ASSUME InvariantAcces, NEW r \in Requetes, EnregistrerAcces(r)
  PROVE  EtapePermise
<1>1. /\ req' = [req EXCEPT ![r] = RequeteLibre] /\ Rendue /\ ATemps(r)
      /\ acces' = acces \/ acces' = Signe(r)
      /\ req[r].etape = "emission"
  BY DEF EnregistrerAcces, Enregistrer, Terminer
<1>2. PorteBornee(r)
  BY <1>1 DEF InvariantAcces, PortesBornees
<1>3. acces' \in JetonAcces
  BY <1>1, Types DEF Signe, JetonAcces, Porte
<1>4. AccesSuivant
  <2>1. CASE acces' = Signe(r)
    BY <1>1, <1>2, <2>1, Types DEF AccesSuivant, Signe, ATemps, PorteBornee, Porte
  <2>. QED
    BY <1>1, <2>1 DEF AccesSuivant
<1>5. \A s \in Requetes : req'[s] = req[s] \/ req'[s] = RequeteLibre
  BY <1>1, Types
<1>. QED
  BY <1>1, <1>3, <1>4, <1>5, EtapeRendue

(* Logout moves no request.                                                  *)
LEMMA PasDeconnecterAcces ==
  ASSUME InvariantAcces, NEW r \in Requetes, NEW t \in Jetons, DeconnecterAcces(r, t)
  PROVE  EtapePermise
<1>1. req' = req /\ porte' = porte /\ acces' = acces
  BY DEF DeconnecterAcces, Deconnecter
<1>. QED
  BY <1>1, Types DEF EtapePermise, AccesSuivant, PorteSuivante, RotationSuivante

(* An edition is let in by a token of the role Admin that is not over.       *)
LEMMA PasEditerSousJeton ==
  ASSUME InvariantAcces, NEW r \in Requetes, NEW m \in Membres, NEW f \in Profil,
         EditerSousJeton(r, m, f)
  PROVE  EtapePermise
<1> DEFINE q == [RequeteLibre EXCEPT !.etape = "ecriture", !.sorte = "administration",
                                     !.membre = m, !.profil = f]
           p == [membre |-> acces.membre, role |-> acces.role, limite |-> heure + Delai]
<1>1. /\ req' = [req EXCEPT ![r] = q] /\ porte' = [porte EXCEPT ![r] = p] /\ acces' = acces
      /\ heure < acces.expire /\ acces.role = Admin
  BY DEF EditerSousJeton, LireProfil, Arrivee, Autorise, AccesValide
<1>2. acces.membre \in Membres /\ acces.expire <= ouvert[acces.membre] + DureeAcces + Delai
  BY <1>1 DEF InvariantAcces, AccesBorne
<1>3. p \in Porte
  BY <1>2, Types DEF Porte, JetonAcces
<1>4. req'[r] = q /\ porte'[r] = p
  BY <1>1, Types
<1>5. PorteSuivante(r) /\ RotationSuivante(r)
  BY <1>1, <1>2, <1>4, Types
     DEF PorteSuivante, PorteNouvelle, RotationSuivante, RequeteLibre, JetonAcces
<1>. QED
  BY <1>1, <1>3, <1>5, EtapeDUneRequete

(* The remaining steps only end requests.                                    *)
LEMMA PasAcheves ==
  ASSUME InvariantAcces, AutresPas \/ \E r \in Requetes : EcrireSousJeton(r)
  PROVE  EtapePermise
<1>1. Rendue /\ acces' = acces
  BY DEF AutresPas, EcrireSousJeton
<1>2. req' = req \/ \E r \in Requetes : req' = [req EXCEPT ![r] = RequeteLibre]
  BY DEF AutresPas, EcrireSousJeton, EcrireProfil, RefuserDEmblee, Interrompre, RefuserCompte,
         RefuserEmission, ProfilInchange, VieDuCompte, CreerCompte, SupprimerLogique,
         SupprimerPhysique, PurgerJetons, Terminer, vars
<1>3. \A r \in Requetes : req'[r] = req[r] \/ req'[r] = RequeteLibre
  BY <1>2, Types
<1>. QED
  BY <1>1, <1>3, Types, EtapeRendue DEF AccesSuivant

(* Time only takes the token observed away.                                  *)
LEMMA PasHeureAcces ==
  ASSUME InvariantAcces, HeureAcces
  PROVE  EtapePermise
<1>1. req' = req /\ porte' = porte /\ (acces' = acces \/ acces' = AccesAbsent)
  BY DEF HeureAcces, HeureSuivante
<1>2. acces' \in JetonAcces /\ AccesSuivant
  BY <1>1, Types DEF AccesSuivant, AccesAbsent, JetonAcces
<1>. QED
  BY <1>1, <1>2, Types DEF EtapePermise, PorteSuivante, RotationSuivante

-----------------------------------------------------------------------------
(* The theorems *)

(* At the start nothing is carried and no token observed.                    *)
LEMMA AccesInitial == ASSUME InitAcces PROVE InvariantAcces
<1>. USE DEF InitAcces, Init
<1>1. TypeComptes
  BY InvariantInitial DEF InvariantComptes
<1>2. TypeAcces
  BY <1>1 DEF TypeAcces, PorteVide, Porte, AccesAbsent, JetonAcces, SansSortie, Sortie
<1>3. OuvertsDates
  BY DEF OuvertsDates, Jamais, AdminOuvert, Ouvert, CompteAbsent
<1>4. PortesBornees /\ AccesBorne /\ SortieBornee
  BY AucunNiDonnee, AdminEstUnRole
     DEF PortesBornees, RequeteLibre, AccesBorne, AccesAbsent, SortieBornee, SansSortie
<1>. QED
  BY <1>2, <1>3, <1>4 DEF InvariantAcces

(* Every step keeps the invariant, with that of Comptes.                     *)
LEMMA AccesInductif ==
  InvariantAcces /\ InvariantComptes /\ [NextAcces]_varsAcces => InvariantAcces'
<1>. SUFFICES ASSUME InvariantAcces, InvariantComptes, [NextAcces]_varsAcces
             PROVE  InvariantAcces'
  OBVIOUS
<1>1. CASE UNCHANGED varsAcces
  BY <1>1 DEF varsAcces, InvariantAcces, TypeAcces, TypeComptes, OuvertsDates, AdminOuvert,
              Ouvert, RoleDe, PortesBornees, PorteBornee, AccesBorne, SortieBornee
<1>2. CASE NextAcces
  <2>1. [Next]_vars /\ Historique
    BY <1>2, PasDeComptes DEF NextAcces
  <2>2. CASE \E r \in Requetes : RefuserJeton(r)
    BY <1>1, <2>2 DEF RefuserJeton
  <2>3. CASE ~ \E r \in Requetes : RefuserJeton(r)
    <3>1. EtapePermise
      BY <1>2, <2>3, PasConnecterAcces, PasTrouverJetonAcces, PasLireCompteAcces,
         PasRevoquerAcces, PasEnregistrerAcces, PasDeconnecterAcces, PasEditerSousJeton,
         PasAcheves, PasHeureAcces DEF NextAcces, PasAcces
    <3>. QED
      BY <2>1, <3>1, EtapeAcces DEF EtapePermise
  <2>. QED
    BY <2>2, <2>3
<1>. QED
  BY <1>1, <1>2

(* Tokens, requests and history stay within the bounds of InvariantAcces.    *)
THEOREM AccesTenu == SpecAcces => []InvariantAcces
<1>1. SpecAcces => []InvariantComptes
  BY AccesRealiseComptes, SessionsCorrectes
<1>. QED
  BY <1>1, AccesInitial, AccesInductif, PTL DEF SpecAcces

(* No administration of accounts is written later than the life of a token   *)
(* and two requests after its author ceased to be an open administrator.     *)
THEOREM EffetDansLesDelais == SpecAcces => EffetBorne
<1> DEFINE A == \A r \in Requetes :
                  /\ req[r].etape = "ecriture" /\ req[r].sorte = "administration"
                  /\ comptes' # comptes /\ req'[r].etape = "libre"
                  => heure < ouvert[porte[r].membre] + DureeAcces + 2 * Delai
<1>1. ASSUME InvariantAcces, [NextAcces]_varsAcces
      PROVE  [A]_varsAcces
  <2>. SUFFICES ASSUME NEW r \in Requetes, req[r].etape = "ecriture",
                      comptes' # comptes, req'[r].etape = "libre"
               PROVE  heure < ouvert[porte[r].membre] + DureeAcces + 2 * Delai
    OBVIOUS
  <2>1. req' # req
    BY DEF RequeteLibre
  <2>2. PICK s \in Requetes : EcrireSousJeton(s)
    BY <2>1, <1>1
       DEF NextAcces, PasAcces, varsAcces, ConnecterAcces, Connecter, TrouverJetonAcces,
           TrouverJeton, DeconnecterAcces, Deconnecter, LireCompteAcces, LireCompte,
           RevoquerAcces, Revoquer, EnregistrerAcces, Enregistrer, EditerSousJeton, LireProfil,
           RefuserJeton, HeureAcces, HeureSuivante, AutresPas, RefuserDEmblee, Interrompre,
           RefuserCompte, RefuserEmission, ProfilInchange, VieDuCompte, CreerCompte,
           SupprimerLogique, SupprimerPhysique, PurgerJetons, vars
  <2>3. s = r
    BY <2>2, <1>1, Types DEF EcrireSousJeton, EcrireProfil, Terminer
  <2>4. heure <= porte[r].limite
    BY <2>2, <2>3 DEF EcrireSousJeton, ATemps
  <2>5. PorteBornee(r)
    BY <1>1 DEF InvariantAcces, PortesBornees
  <2>. QED
    BY <1>1, <2>4, <2>5, Types DEF PorteBornee, Porte
<1>. QED
  BY <1>1, AccesTenu, PTL DEF SpecAcces, EffetBorne

(* No successor of a token is recorded later than the delay of a request     *)
(* after that token was revoked, by a logout or by a rotation of it.         *)
THEOREM RevocationDansLesDelais == SpecAcces => RevocationBornee
<1> DEFINE A == \A t \in Jetons : t = sortie.jeton /\ Successeurs(t)' # Successeurs(t)
                                    => heure <= sortie.heure + Delai
<1>1. ASSUME InvariantAcces, [NextAcces]_varsAcces
      PROVE  [A]_varsAcces
  <2>. SUFFICES ASSUME NEW t \in Jetons, t = sortie.jeton, Successeurs(t)' # Successeurs(t)
               PROVE  heure <= sortie.heure + Delai
    OBVIOUS
  <2>0. jetons' # jetons /\ \E s \in Jetons : jetons'[s].origine # jetons[s].origine
    BY DEF Successeurs
  <2>1. \A T : jetons' # Effaces(T)
    <3>1. \A s \in Jetons : [jetons[s] EXCEPT !.etat = "efface", !.expire = 0].origine
                             = jetons[s].origine
      BY <1>1, Types DEF Jeton
    <3>. QED
      BY <2>0, <3>1 DEF Effaces
  <2>2. PICK r \in Requetes : EnregistrerAcces(r)
    <3>1. \/ \E r \in Requetes : EnregistrerAcces(r) \/ Revoquer(r)
          \/ \E r \in Requetes, s \in Jetons : Deconnecter(r, s)
      BY <2>0, <2>1, <1>1
         DEF NextAcces, PasAcces, varsAcces, ConnecterAcces, Connecter, TrouverJetonAcces,
             TrouverJeton, DeconnecterAcces, LireCompteAcces, LireCompte,
             RevoquerAcces, EditerSousJeton, LireProfil, EcrireSousJeton, EcrireProfil,
             RefuserJeton, HeureAcces, HeureSuivante, AutresPas, RefuserDEmblee, Interrompre,
             RefuserCompte, RefuserEmission, ProfilInchange, VieDuCompte, CreerCompte,
             SupprimerLogique, SupprimerPhysique, PurgerJetons, vars
    <3>2. ASSUME NEW u, jetons' = [jetons EXCEPT ![u].revoque = TRUE]
          PROVE  FALSE
      BY <2>0, <3>2, <1>1, Types DEF Jeton
    <3>. QED
      BY <3>1, <3>2 DEF Revoquer, Deconnecter
  <2>3. req[r].jeton = t
    <3>1. PICK s \in Jetons : jetons' = [jetons EXCEPT ![s] = NouveauJeton(r)]
                                 /\ jetons[s] = JetonJamais
      BY <2>2 DEF EnregistrerAcces, Enregistrer
    <3>2. ASSUME req[r].jeton # t
          PROVE  Successeurs(t)' = Successeurs(t)
      BY <3>1, <3>2, <1>1, Types DEF Successeurs, NouveauJeton, JetonJamais
    <3>. QED
      BY <3>2
  <2>4. heure <= porte[r].limite /\ porte[r].limite <= sortie.heure + Delai
    BY <2>2, <2>3, <1>1 DEF EnregistrerAcces, ATemps, InvariantAcces, SortieBornee
  <2>5. porte[r].limite \in Nat /\ sortie.heure \in Nat
    BY <1>1, Types DEF InvariantAcces, TypeAcces, Sortie, Porte
  <2>. QED
    BY <2>4, <2>5, <1>1, Types
<1>. QED
  BY <1>1, AccesTenu, PTL DEF SpecAcces, RevocationBornee
=============================================================================
