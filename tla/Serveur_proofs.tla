--------------------------- MODULE Serveur_proofs ----------------------------
(***************************************************************************)
(* Proofs about Serveur and Chaine, for every number of requests,          *)
(* connections and tasks.                                                  *)
(***************************************************************************)
EXTENDS Serveur, FiniteSetTheorems, TLAPS

-----------------------------------------------------------------------------
(* What one step of a request does to the connections *)

(* The gauge may take the number of any set of requests.                     *)
LEMMA ServiceFini ==
  ASSUME NEW S \in SUBSET Requetes
  PROVE  /\ IsFiniteSet(S) /\ Cardinality(S) \in Nat /\ Cardinality(Requetes) \in Nat
         /\ Cardinality(S) <= Cardinality(Requetes)
BY RequetesFinies, FS_Subset, FS_CardinalityType

(* The gauge follows the requests that enter and leave. *)
LEMMA JaugeSuit ==
  ASSUME TypeChaine, jauge = Cardinality(EnCours), NEW r \in Requetes, NEW q \in Traitement,
         traitement' = [traitement EXCEPT ![r] = q],
         \/ En(r, "dehors") /\ q.etape # "dehors" /\ jauge' = jauge + 1
         \/ ~En(r, "dehors") /\ q.etape = "dehors" /\ jauge' = jauge - 1
         \/ ~En(r, "dehors") /\ q.etape # "dehors" /\ jauge' = jauge
  PROVE  jauge' = Cardinality(EnCours)' /\ jauge' \in 0..Cardinality(Requetes)
<1>1. /\ traitement'[r] = q
      /\ \A f \in Requetes \ {r} : traitement'[f] = traitement[f]
  BY DEF TypeChaine
<1>2. EnCours \in SUBSET Requetes /\ EnCours' \in SUBSET Requetes
  BY DEF EnCours
<1>3. /\ IsFiniteSet(EnCours) /\ Cardinality(EnCours) \in Nat
      /\ Cardinality(EnCours') \in Nat /\ Cardinality(EnCours') <= Cardinality(Requetes)
      /\ Cardinality(Requetes) \in Nat
  BY <1>2, ServiceFini
<1>4. CASE En(r, "dehors") /\ q.etape # "dehors" /\ jauge' = jauge + 1
  <2>1. EnCours' = EnCours \cup {r} /\ r \notin EnCours
    BY <1>1, <1>4 DEF EnCours, En
  <2>2. Cardinality(EnCours') = Cardinality(EnCours) + 1
    BY <1>3, <2>1, FS_AddElement
  <2>. QED
    BY <1>3, <1>4, <2>2
<1>5. CASE ~En(r, "dehors") /\ q.etape = "dehors" /\ jauge' = jauge - 1
  <2>1. EnCours' = EnCours \ {r} /\ r \in EnCours
    BY <1>1, <1>5 DEF EnCours, En
  <2>2. Cardinality(EnCours') = Cardinality(EnCours) - 1
    BY <1>3, <2>1, FS_RemoveElement
  <2>. QED
    BY <1>3, <1>5, <2>2
<1>6. CASE ~En(r, "dehors") /\ q.etape # "dehors" /\ jauge' = jauge
  <2>1. EnCours' = EnCours
    BY <1>1, <1>6 DEF EnCours, En
  <2>. QED
    BY <1>3, <1>6, <2>1
<1>. QED
  BY <1>4, <1>5, <1>6

(* A step that keeps the connection it has, or has none. *)
LEMMA ConnexionGardee ==
  ASSUME TypeChaine, UsageExclusif, NEW r \in Requetes, NEW q \in Traitement,
         traitement' = [traitement EXCEPT ![r] = q], UNCHANGED <<libres, fond>>,
         q.conn = traitement[r].conn,
         q.etape \in AvecConnexion <=> traitement[r].etape \in AvecConnexion
  PROVE  UsageExclusif'
<1>1. /\ traitement'[r] = q
      /\ \A f \in Requetes \ {r} : traitement'[f] = traitement[f]
  BY DEF TypeChaine
<1>2. \A f \in Requetes : /\ traitement'[f].conn = traitement[f].conn
                          /\ traitement'[f].etape \in AvecConnexion
                               <=> traitement[f].etape \in AvecConnexion
  BY <1>1
<1>. QED
  BY <1>2 DEF UsageExclusif

(* A connection lent leaves the pool and goes to one request. *)
LEMMA ConnexionPrise ==
  ASSUME TypeChaine, UsageExclusif, NEW r \in Requetes, NEW k \in libres,
         NEW e \in AvecConnexion, ~(traitement[r].etape \in AvecConnexion),
         traitement' = [traitement EXCEPT ![r] = [etape |-> e, conn |-> k]],
         libres' = libres \ {k}, UNCHANGED fond
  PROVE  UsageExclusif'
<1>0. k \in Connexions /\ k # Aucun /\ k \notin fond
  BY AucunNiConnexion DEF TypeChaine, UsageExclusif
<1>1. /\ traitement'[r].etape = e /\ traitement'[r].conn = k
      /\ \A f \in Requetes \ {r} : traitement'[f] = traitement[f]
  BY DEF TypeChaine
<1>2. traitement[r].conn = Aucun /\ \A f \in Requetes : traitement[f].conn # k
  BY <1>0 DEF UsageExclusif
<1>3. libres' \cap fond' = {}
  BY DEF UsageExclusif
<1>4. \A f \in Requetes :
        IF traitement'[f].etape \in AvecConnexion
        THEN traitement'[f].conn \in Connexions \ (libres' \cup fond')
        ELSE traitement'[f].conn = Aucun
  BY <1>0, <1>1 DEF UsageExclusif
<1>5. \A f, g \in Requetes :
        traitement'[f].conn = traitement'[g].conn => f = g \/ traitement'[f].conn = Aucun
  BY <1>1, <1>2 DEF UsageExclusif
<1>6. \A c \in Connexions \ (libres' \cup fond') : \E f \in Requetes : traitement'[f].conn = c
  <2>. SUFFICES ASSUME NEW c \in Connexions \ (libres' \cup fond')
               PROVE  \E f \in Requetes : traitement'[f].conn = c
    OBVIOUS
  <2>1. CASE c = k
    BY <1>1, <2>1
  <2>2. CASE c # k
    <3>1. PICK f \in Requetes : traitement[f].conn = c
      BY <2>2 DEF UsageExclusif
    <3>2. f # r
      BY <1>2, <3>1, AucunNiConnexion
    <3>. QED
      BY <1>1, <3>1, <3>2
  <2>. QED
    BY <2>1, <2>2
<1>. QED
  BY <1>3, <1>4, <1>5, <1>6 DEF UsageExclusif

(* A connection given back goes to the pool, or to a goroutine of sql.Tx.    *)
LEMMA ConnexionRendue ==
  ASSUME TypeChaine, UsageExclusif, NEW r \in Requetes,
         NEW e \in {"handler", "echu"}, traitement[r].etape \in AvecConnexion,
         traitement' = [traitement EXCEPT ![r] = [etape |-> e, conn |-> Aucun]],
         \/ libres' = libres \cup {traitement[r].conn} /\ UNCHANGED fond
         \/ fond' = fond \cup {traitement[r].conn} /\ UNCHANGED libres
  PROVE  UsageExclusif'
<1>k. PICK k \in Connexions \ (libres \cup fond) : k = traitement[r].conn
  BY DEF UsageExclusif
<1>0. k # Aucun /\ e \notin AvecConnexion
  BY AucunNiConnexion DEF AvecConnexion, DansUneInstruction, Clotures
<1>1. /\ traitement'[r].etape = e /\ traitement'[r].conn = Aucun
      /\ \A f \in Requetes \ {r} : traitement'[f] = traitement[f]
  BY DEF TypeChaine
<1>2. \A f \in Requetes \ {r} : traitement[f].conn # k
  BY <1>k, <1>0 DEF UsageExclusif
<1>3. libres' \cup fond' = libres \cup fond \cup {k} /\ libres' \cap fond' = {}
  BY <1>k DEF UsageExclusif
<1>4. \A f \in Requetes :
        IF traitement'[f].etape \in AvecConnexion
        THEN traitement'[f].conn \in Connexions \ (libres' \cup fond')
        ELSE traitement'[f].conn = Aucun
  BY <1>0, <1>1, <1>2, <1>3 DEF UsageExclusif
<1>5. \A f, g \in Requetes :
        traitement'[f].conn = traitement'[g].conn => f = g \/ traitement'[f].conn = Aucun
  BY <1>1 DEF UsageExclusif
<1>6. \A c \in Connexions \ (libres' \cup fond') : \E f \in Requetes : traitement'[f].conn = c
  <2>. SUFFICES ASSUME NEW c \in Connexions \ (libres' \cup fond')
               PROVE  \E f \in Requetes : traitement'[f].conn = c
    OBVIOUS
  <2>1. c \in Connexions \ (libres \cup fond) /\ c # k
    BY <1>3
  <2>2. PICK f \in Requetes : traitement[f].conn = c
    BY <2>1 DEF UsageExclusif
  <2>. QED
    BY <1>1, <1>k, <2>1, <2>2
<1>. QED
  BY <1>3, <1>4, <1>5, <1>6 DEF UsageExclusif

-----------------------------------------------------------------------------
(* The steps of the chain *)

(* Steps that leave the connections alone, for instance to enter, to ask for *)
(* one, to begin a COMMIT or to reply.                                       *)
LEMMA PasSansConnexion ==
  ASSUME InvariantChaine, NEW r \in Requetes, NEW q \in Traitement,
         traitement' = [traitement EXCEPT ![r] = q], UNCHANGED <<libres, fond, session>>,
         q.conn = traitement[r].conn, q.etape # "lecture",
         q.etape \in AvecConnexion <=> traitement[r].etape \in AvecConnexion,
         \/ En(r, "dehors") /\ q.etape # "dehors" /\ jauge' = jauge + 1
         \/ ~En(r, "dehors") /\ q.etape = "dehors" /\ jauge' = jauge - 1
         \/ ~En(r, "dehors") /\ q.etape # "dehors" /\ jauge' = jauge
  PROVE  InvariantChaine'
<1>. USE DEF InvariantChaine
<1>1. jauge' = Cardinality(EnCours)' /\ jauge' \in 0..Cardinality(Requetes)
  BY JaugeSuit
<1>2. UsageExclusif'
  BY ConnexionGardee
<1>3. /\ traitement'[r] = q
      /\ \A f \in Requetes \ {r} : traitement'[f] = traitement[f]
  BY DEF TypeChaine
<1>4. TypeChaine'
  BY <1>1 DEF TypeChaine
<1>5. ResultatPropre'
  BY <1>3 DEF ResultatPropre, En
<1>. QED
  BY <1>1, <1>2, <1>4, <1>5

(* Steps that give a connection back, to the pool or to a rollback *)
LEMMA PasQuiRend ==
  ASSUME InvariantChaine, NEW r \in Requetes, NEW e \in {"handler", "echu"},
         traitement[r].etape \in AvecConnexion, Revenir(r, e), UNCHANGED jauge,
         \/ Rendre(traitement[r].conn) /\ UNCHANGED fond
         \/ fond' = fond \cup {traitement[r].conn} /\ UNCHANGED <<libres, session>>
  PROVE  InvariantChaine'
<1>. USE DEF InvariantChaine
<1> DEFINE q == [etape |-> e, conn |-> Aucun]
<1>0. q \in Traitement /\ q.etape = e /\ q.conn = Aucun
  BY DEF Traitement
<1>k. PICK k \in Connexions : k = traitement[r].conn /\ k # Aucun
  BY AucunNiConnexion DEF UsageExclusif
<1>1. traitement' = [traitement EXCEPT ![r] = q]
  BY DEF Revenir
<1>2. UsageExclusif'
  BY <1>1, ConnexionRendue DEF Rendre
<1>. HIDE DEF q
<1>3. jauge' = Cardinality(EnCours)' /\ jauge' \in 0..Cardinality(Requetes)
  <2>1. ~En(r, "dehors")
    BY DEF En, AvecConnexion, DansUneInstruction, Clotures
  <2>2. q.etape # "dehors"
    BY <1>0
  <2>. QED
    BY <1>0, <1>1, <2>1, <2>2, JaugeSuit
<1>4. /\ traitement'[r] = q
      /\ \A f \in Requetes \ {r} : traitement'[f] = traitement[f]
  BY <1>1 DEF TypeChaine
<1>5. /\ session' \in [Connexions -> Requetes \cup {Aucun}]
      /\ \A c \in Connexions \ {k} : session'[c] = session[c]
      /\ libres' \subseteq Connexions /\ fond' \subseteq Connexions
  BY <1>k DEF TypeChaine, Rendre
<1>6. TypeChaine'
  BY <1>0, <1>1, <1>3, <1>5 DEF TypeChaine
<1>7. ResultatPropre'
  <2>. SUFFICES ASSUME NEW f \in Requetes, traitement'[f].etape = "lecture"
               PROVE  session'[traitement'[f].conn] = f
    BY DEF ResultatPropre, En
  <2>1. f # r /\ traitement'[f] = traitement[f]
    BY <1>0, <1>4
  <2>2. traitement[f].conn \in Connexions \ {k}
    BY <1>k, <2>1 DEF UsageExclusif, AvecConnexion, DansUneInstruction
  <2>. QED
    BY <1>5, <2>1, <2>2 DEF ResultatPropre, En
<1>. QED
  BY <1>2, <1>3, <1>6, <1>7

(* A request obtains a free connection, and it alone.                       *)
LEMMA ObtenirGarde ==
  ASSUME InvariantChaine, NEW r \in Requetes, ObtenirConnexion(r)
  PROVE  InvariantChaine'
<1>. USE DEF InvariantChaine
<1>1. PICK k \in libres, e \in {"instruction", "transaction"} :
        /\ traitement' = [traitement EXCEPT ![r] = [etape |-> e, conn |-> k]]
        /\ libres' = libres \ {k}
  BY DEF ObtenirConnexion
<1>2. traitement[r].etape = "attente" /\ UNCHANGED <<fond, session, jauge>>
  BY DEF ObtenirConnexion, En
<1> DEFINE q == [etape |-> e, conn |-> k]
<1>3. q \in Traitement /\ q.etape = e /\ e \in AvecConnexion /\ e # "lecture" /\ e # "dehors"
  BY DEF Traitement, AvecConnexion, DansUneInstruction, TypeChaine
<1>4. UsageExclusif'
  <2>1. ~(traitement[r].etape \in AvecConnexion)
    BY <1>2 DEF AvecConnexion, DansUneInstruction, Clotures
  <2>. QED
    BY <1>1, <1>2, <1>3, <2>1, ConnexionPrise
<1>5. traitement' = [traitement EXCEPT ![r] = q]
  BY <1>1
<1>. HIDE DEF q
<1>6. jauge' = Cardinality(EnCours)' /\ jauge' \in 0..Cardinality(Requetes)
  <2>1. ~En(r, "dehors") /\ q.etape # "dehors"
    BY <1>2, <1>3 DEF En
  <2>. QED
    BY <1>2, <1>3, <1>5, <2>1, JaugeSuit
<1>7. /\ traitement'[r] = q
      /\ \A f \in Requetes \ {r} : traitement'[f] = traitement[f]
  BY <1>5 DEF TypeChaine
<1>8. TypeChaine'
  BY <1>1, <1>2, <1>3, <1>5, <1>6 DEF TypeChaine
<1>9. ResultatPropre'
  BY <1>2, <1>3, <1>7 DEF ResultatPropre, En
<1>. QED
  BY <1>4, <1>6, <1>8, <1>9

(* The CALL leaves its result on the connection of the request that made it. *)
LEMMA AppelGarde ==
  ASSUME InvariantChaine, NEW r \in Requetes, ExecuterAppel(r)
  PROVE  InvariantChaine'
<1>. USE DEF InvariantChaine
<1> DEFINE q == [traitement[r] EXCEPT !.etape = "lecture"]
<1>1. /\ traitement[r].etape = "instruction" /\ UNCHANGED <<libres, fond, jauge>>
      /\ session' = [session EXCEPT ![traitement[r].conn] = r]
      /\ traitement' = [traitement EXCEPT ![r] = q]
  BY DEF ExecuterAppel, Aller, En
<1>2. traitement[r] \in Traitement
  BY DEF TypeChaine
<1>3. q \in Traitement /\ q.etape = "lecture" /\ q.conn = traitement[r].conn
  BY <1>2 DEF Traitement, AvecConnexion, DansUneInstruction
<1>. HIDE DEF q
<1>4. /\ q.etape \in AvecConnexion /\ traitement[r].etape \in AvecConnexion
      /\ ~En(r, "dehors") /\ q.etape # "dehors"
  BY <1>1, <1>3 DEF AvecConnexion, DansUneInstruction, En
<1>5. UsageExclusif'
  BY <1>1, <1>3, <1>4, ConnexionGardee
<1>6. jauge' = Cardinality(EnCours)' /\ jauge' \in 0..Cardinality(Requetes)
  BY <1>1, <1>3, <1>4, JaugeSuit
<1>7. /\ traitement'[r] = q
      /\ \A f \in Requetes \ {r} : traitement'[f] = traitement[f]
  BY <1>1 DEF TypeChaine
<1>8. TypeChaine'
  BY <1>1, <1>3, <1>6 DEF TypeChaine
<1>9. ResultatPropre'
  <2>. SUFFICES ASSUME NEW f \in Requetes, traitement'[f].etape = "lecture"
               PROVE  session'[traitement'[f].conn] = f
    BY DEF ResultatPropre, En
  <2>1. traitement[r].conn \in Connexions
    BY <1>4 DEF UsageExclusif
  <2>2. CASE f = r
    BY <1>1, <1>3, <1>7, <2>1, <2>2 DEF TypeChaine
  <2>3. CASE f # r
    <3>1. traitement'[f] = traitement[f] /\ traitement[f].etape = "lecture"
      BY <1>7, <2>3
    <3>2. traitement[f].conn \in Connexions /\ traitement[f].conn # traitement[r].conn
      BY <2>3, <3>1, AucunNiConnexion DEF UsageExclusif, AvecConnexion, DansUneInstruction
    <3>. QED
      BY <1>1, <3>1, <3>2 DEF ResultatPropre, En, TypeChaine
  <2>. QED
    BY <2>2, <2>3
<1>. QED
  BY <1>5, <1>6, <1>8, <1>9

(* The rollback of a goroutine of sql.Tx gives its connection back.          *)
LEMMA FondGarde ==
  ASSUME InvariantChaine, NEW k \in Connexions, AcheverFond(k)
  PROVE  InvariantChaine'
<1>. USE DEF InvariantChaine
<1>1. /\ k \in fond /\ fond' = fond \ {k} /\ libres' = libres \cup {k}
      /\ session' = [session EXCEPT ![k] = Aucun] /\ UNCHANGED <<traitement, jauge>>
  BY DEF AcheverFond, Rendre
<1>2. TypeChaine'
  BY <1>1 DEF TypeChaine
<1>3. jauge' = Cardinality(EnCours)'
  BY <1>1 DEF EnCours, En
<1>4. UsageExclusif'
  <2>1. libres' \cup fond' = libres \cup fond /\ libres' \cap fond' = {}
    BY <1>1 DEF UsageExclusif
  <2>. QED
    BY <1>1, <2>1 DEF UsageExclusif
<1>5. ResultatPropre'
  <2>1. \A f \in Requetes : traitement[f].etape = "lecture" =>
          traitement[f].conn \in Connexions \ {k}
    BY <1>1 DEF UsageExclusif, AvecConnexion, DansUneInstruction
  <2>. QED
    BY <1>1, <2>1 DEF ResultatPropre, En, TypeChaine
<1>. QED
  BY <1>2, <1>3, <1>4, <1>5

-----------------------------------------------------------------------------
(* The chain keeps its invariant *)

(* Every request is outside and every connection in the pool: at the start,  *)
(* and again once the process has ended.                                     *)
LEMMA ChaineInitiale == InitChaine => InvariantChaine
<1>. SUFFICES ASSUME InitChaine PROVE InvariantChaine
  OBVIOUS
<1>1. \A r \in Requetes : traitement[r].etape = "dehors" /\ traitement[r].conn = Aucun
  BY DEF InitChaine, AuDehors
<1>2. EnCours = {} /\ Cardinality(EnCours) = 0
  BY <1>1, FS_EmptySet DEF EnCours, En
<1>3. TypeChaine
  <2>1. AuDehors \in Traitement
    BY DEF AuDehors, Traitement
  <2>2. 0 \in 0..Cardinality(Requetes)
    BY ServiceFini
  <2>. QED
    BY <2>1, <2>2 DEF InitChaine, TypeChaine
<1>4. UsageExclusif
  BY <1>1 DEF InitChaine, UsageExclusif, AvecConnexion, DansUneInstruction, Clotures
<1>5. ResultatPropre
  BY <1>1 DEF ResultatPropre, En
<1>. QED
  BY <1>2, <1>3, <1>4, <1>5 DEF InvariantChaine, InitChaine

(* The end of the process leaves no request and no connection in use.       *)
LEMMA ChaineVidee == ViderChaine => InvariantChaine' /\ EnCours' = {}
<1>. SUFFICES ASSUME ViderChaine PROVE InvariantChaine' /\ EnCours' = {}
  OBVIOUS
<1>1. /\ \A r \in Requetes : traitement'[r].etape = "dehors" /\ traitement'[r].conn = Aucun
      /\ traitement' = [r \in Requetes |-> AuDehors]
  BY DEF ViderChaine, AuDehors
<1>2. EnCours' = {} /\ Cardinality(EnCours)' = 0
  BY <1>1, FS_EmptySet DEF EnCours, En
<1>3. TypeChaine'
  <2>1. AuDehors \in Traitement
    BY DEF AuDehors, Traitement
  <2>2. 0 \in 0..Cardinality(Requetes)
    BY ServiceFini
  <2>. QED
    BY <1>1, <2>1, <2>2 DEF ViderChaine, TypeChaine
<1>4. UsageExclusif'
  BY <1>1 DEF ViderChaine, UsageExclusif, AvecConnexion, DansUneInstruction, Clotures
<1>5. ResultatPropre'
  BY <1>1 DEF ResultatPropre, En
<1>. QED
  BY <1>2, <1>3, <1>4, <1>5 DEF InvariantChaine, ViderChaine

(* A request that moves from one place to another with no change to the      *)
(* connections and none to the gauge.                                        *)
LEMMA AllerGarde ==
  ASSUME InvariantChaine, NEW r \in Requetes, NEW e,
         Aller(r, e), UNCHANGED <<libres, fond, session>>,
         \/ traitement[r].etape = "dehors" /\ e = "handler" /\ jauge' = jauge + 1
         \/ traitement[r].etape \in {"handler", "echu"} /\ e = "dehors" /\ jauge' = jauge - 1
         \/ /\ traitement[r].etape \in {"handler", "attente"}
            /\ e \in {"handler", "attente", "echu"} /\ UNCHANGED jauge
         \/ /\ traitement[r].etape \in {"transaction", "cloture"}
            /\ e \in Clotures /\ UNCHANGED jauge
  PROVE  InvariantChaine'
<1> DEFINE q == [traitement[r] EXCEPT !.etape = e]
<1>1. traitement' = [traitement EXCEPT ![r] = q]
  BY DEF Aller
<1>2. traitement[r] \in Traitement
  BY DEF InvariantChaine, TypeChaine
<1>3. q \in Traitement /\ q.etape = e /\ q.conn = traitement[r].conn
  BY <1>2 DEF Traitement, AvecConnexion, Clotures
<1>. HIDE DEF q
<1>4. q.etape \in AvecConnexion <=> traitement[r].etape \in AvecConnexion
  BY <1>3 DEF AvecConnexion, DansUneInstruction, Clotures
<1>5. /\ q.etape # "lecture"
      /\ \/ En(r, "dehors") /\ q.etape # "dehors" /\ jauge' = jauge + 1
         \/ ~En(r, "dehors") /\ q.etape = "dehors" /\ jauge' = jauge - 1
         \/ ~En(r, "dehors") /\ q.etape # "dehors" /\ jauge' = jauge
  BY <1>3 DEF En, Clotures
<1>. QED
  BY <1>1, <1>3, <1>4, <1>5, PasSansConnexion

(* Metriques counts the request that enters.                                *)
LEMMA EntrerGarde ==
  ASSUME InvariantChaine, NEW r \in Requetes, Entrer(r)
  PROVE  InvariantChaine'
BY AllerGarde DEF Entrer, En

(* A reply and a panic both leave by the deferred Dec.                      *)
LEMMA RepondreGarde ==
  ASSUME InvariantChaine, NEW r \in Requetes, Repondre(r) \/ Paniquer(r)
  PROVE  InvariantChaine' /\ EnCours' \subseteq EnCours
<1>1. /\ Aller(r, "dehors") /\ UNCHANGED <<libres, fond, session>> /\ jauge' = jauge - 1
      /\ traitement[r].etape \in {"handler", "echu"}
  BY DEF Repondre, Paniquer, DansLeHandler, En
<1>2. InvariantChaine'
  BY <1>1, AllerGarde
<1>3. EnCours' \subseteq EnCours
  BY <1>1 DEF Aller, InvariantChaine, TypeChaine, EnCours, En
<1>. QED
  BY <1>2, <1>3

-----------------------------------------------------------------------------

(* A step of a request that is being served keeps it among them. *)
LEMMA ResteEnCours ==
  ASSUME InvariantChaine, NEW r \in Requetes, NEW q \in Traitement,
         traitement' = [traitement EXCEPT ![r] = q], ~En(r, "dehors"), q.etape # "dehors"
  PROVE  EnCours' = EnCours
BY DEF InvariantChaine, TypeChaine, EnCours, En

(* The same, where the request keeps what it holds *)
LEMMA AllerEnCours ==
  ASSUME InvariantChaine, NEW r \in Requetes, NEW e, Aller(r, e),
         traitement[r].etape # "dehors",
         e \in {"handler", "attente", "echu", "lecture"} \cup Clotures
  PROVE  EnCours' = EnCours
<1> DEFINE q == [traitement[r] EXCEPT !.etape = e]
<1>1. traitement' = [traitement EXCEPT ![r] = q]
  BY DEF Aller
<1>2. traitement[r] \in Traitement
  BY DEF InvariantChaine, TypeChaine
<1>3. q \in Traitement /\ q.etape = e
  BY <1>2 DEF Traitement, AvecConnexion, DansUneInstruction, Clotures
<1>. HIDE DEF q
<1>. QED
  BY <1>1, <1>3, ResteEnCours DEF En, Clotures

(* The same, where it gives its connection back *)
LEMMA RevenirEnCours ==
  ASSUME InvariantChaine, NEW r \in Requetes, NEW e \in {"handler", "echu"}, Revenir(r, e),
         traitement[r].etape \in AvecConnexion
  PROVE  EnCours' = EnCours
<1> DEFINE q == [etape |-> e, conn |-> Aucun]
<1>1. q \in Traitement /\ q.etape = e /\ traitement' = [traitement EXCEPT ![r] = q]
  BY DEF Traitement, Revenir
<1>2. ~En(r, "dehors")
  BY DEF En, AvecConnexion, DansUneInstruction, Clotures
<1>. HIDE DEF q
<1>. QED
  BY <1>1, <1>2, ResteEnCours

(* What a handler does, whatever its outcome *)
LEMMA TravaillerGarde ==
  ASSUME InvariantChaine, NEW r \in Requetes, Travailler(r)
  PROVE  InvariantChaine' /\ EnCours' = EnCours
<1>1. CASE DemanderConnexion(r) \/ EchouerAttente(r)
  BY <1>1, AllerGarde, AllerEnCours DEF DemanderConnexion, EchouerAttente, En
<1>2. CASE ExecuterAppel(r)
  <2>1. Aller(r, "lecture") /\ traitement[r].etape # "dehors"
    BY <1>2 DEF ExecuterAppel, En
  <2>. QED
    BY <1>2, <2>1, AppelGarde, AllerEnCours
<1>3. CASE TerminerInstruction(r)
  <2>1. /\ traitement[r].etape \in AvecConnexion /\ Revenir(r, "handler")
        /\ Rendre(traitement[r].conn) /\ UNCHANGED <<fond, jauge>>
    BY <1>3 DEF TerminerInstruction, AvecConnexion
  <2>. QED
    BY <2>1, PasQuiRend, RevenirEnCours
<1>4. CASE CloreTransaction(r)
  BY <1>4, AllerGarde, AllerEnCours DEF CloreTransaction, En, Clotures
<1>5. CASE AcheverCloture(r)
  <2>1. PICK e \in {"handler", "echu"} : Revenir(r, e)
    BY <1>5 DEF AcheverCloture
  <2>2. /\ traitement[r].etape \in AvecConnexion
        /\ Rendre(traitement[r].conn) /\ UNCHANGED <<fond, jauge>>
    BY <1>5 DEF AcheverCloture, AvecConnexion
  <2>. QED
    BY <2>1, <2>2, PasQuiRend, RevenirEnCours
<1>. QED
  BY <1>1, <1>2, <1>3, <1>4, <1>5 DEF Travailler

(* Obtaining a connection ends no request.                                  *)
LEMMA ObtenirEnCours ==
  ASSUME InvariantChaine, NEW r \in Requetes, ObtenirConnexion(r)
  PROVE  EnCours' = EnCours
<1>1. PICK k \in libres, e \in {"instruction", "transaction"} :
        traitement' = [traitement EXCEPT ![r] = [etape |-> e, conn |-> k]]
  BY DEF ObtenirConnexion
<1> DEFINE q == [etape |-> e, conn |-> k]
<1>2. /\ q \in Traitement /\ q.etape # "dehors" /\ ~En(r, "dehors")
      /\ traitement' = [traitement EXCEPT ![r] = q]
  BY <1>1 DEF Traitement, AvecConnexion, DansUneInstruction, InvariantChaine, TypeChaine,
              ObtenirConnexion, En
<1>. HIDE DEF q
<1>. QED
  BY <1>2, ResteEnCours

(* The context is done, wherever the request is. *)
LEMMA ExpirerGarde ==
  ASSUME InvariantChaine, NEW r \in Requetes, Expirer(r)
  PROVE  InvariantChaine' /\ EnCours' = EnCours
<1>1. CASE ExpirerHandler(r) \/ ExpirerAttente(r)
  BY <1>1, AllerGarde, AllerEnCours DEF ExpirerHandler, ExpirerAttente, En
<1>2. CASE ExpirerInstruction(r)
  <2>1. /\ traitement[r].etape \in AvecConnexion /\ Revenir(r, "echu")
        /\ Rendre(traitement[r].conn) /\ UNCHANGED <<fond, jauge>>
    BY <1>2 DEF ExpirerInstruction, AvecConnexion
  <2>. QED
    BY <2>1, PasQuiRend, RevenirEnCours
<1>3. CASE ExpirerTransaction(r)
  <2>1. traitement[r].etape = "transaction" /\ traitement[r].etape \in AvecConnexion
    BY <1>3 DEF ExpirerTransaction, En, AvecConnexion
  <2>2. CASE Revenir(r, "echu") /\ Rendre(traitement[r].conn) /\ UNCHANGED <<fond, jauge>>
    BY <2>1, <2>2, PasQuiRend, RevenirEnCours
  <2>3. CASE /\ Revenir(r, "echu") /\ fond' = fond \cup {traitement[r].conn}
             /\ UNCHANGED <<libres, session, jauge>>
    BY <2>1, <2>3, PasQuiRend, RevenirEnCours
  <2>4. CASE Aller(r, "cloture echue") /\ UNCHANGED <<libres, fond, session, jauge>>
    BY <2>1, <2>4, AllerGarde, AllerEnCours DEF Clotures
  <2>. QED
    BY <1>3, <2>2, <2>3, <2>4 DEF ExpirerTransaction
<1>4. CASE ExpirerCloture(r)
  BY <1>4, AllerGarde, AllerEnCours DEF ExpirerCloture, En, Clotures
<1>. QED
  BY <1>1, <1>2, <1>3, <1>4 DEF Expirer

-----------------------------------------------------------------------------
(* The process: its invariant is kept by every step *)

(* executer before its first statement *)
LEMMA ServeurInitial == InitServeur => InvariantServeur
<1>. SUFFICES ASSUME InitServeur PROVE InvariantServeur
  OBVIOUS
<1>1. InvariantChaine
  BY ChaineInitiale DEF InitServeur
<1>2. TypeServeur
  BY <1>1 DEF InitServeur, TypeServeur, InvariantChaine
<1>3. ArretOrdonne
  BY DEF InitServeur, ArretOrdonne, EnArret
<1>. QED
  BY <1>1, <1>2, <1>3 DEF InvariantServeur

(* A step of the requests by which none enters leaves the process as it was. *)
LEMMA RequeteGarde ==
  ASSUME InvariantServeur, UNCHANGED processus, InvariantChaine', EnCours' \subseteq EnCours
  PROVE  InvariantServeur'
<1>1. TypeServeur'
  BY DEF InvariantServeur, InvariantChaine, TypeServeur, processus
<1>2. ArretOrdonne'
  BY DEF InvariantServeur, ArretOrdonne, EnArret, processus
<1>. QED
  BY <1>1, <1>2 DEF InvariantServeur

(* A request enters only while the server listens or Shutdown waits, and     *)
(* then nothing that ArretOrdonne says of the requests applies.              *)
LEMMA RecevoirGarde ==
  ASSUME InvariantServeur, NEW r \in Requetes, Recevoir(r)
  PROVE  InvariantServeur'
<1>1. InvariantChaine'
  BY EntrerGarde DEF InvariantServeur, Recevoir
<1>2. /\ UNCHANGED processus /\ EnVie
      /\ ecoute = "ouverte" \/ principal = "arret"
  BY DEF Recevoir, EnVie
<1>3. TypeServeur'
  BY <1>1, <1>2 DEF InvariantServeur, InvariantChaine, TypeServeur, processus
<1>4. ArretOrdonne'
  BY <1>2 DEF InvariantServeur, ArretOrdonne, EnArret, EnVie, processus
<1>. QED
  BY <1>1, <1>3, <1>4 DEF InvariantServeur

(* A step of the process alone does not touch the requests.                 *)
LEMMA ChaineIntacte ==
  ASSUME InvariantChaine, UNCHANGED varsChaine
  PROVE  InvariantChaine' /\ EnCours' = EnCours
<1>1. EnCours' = EnCours /\ UsageExclusif' /\ TypeChaine' /\ ResultatPropre'
  BY DEF InvariantChaine, varsChaine, EnCours, En, UsageExclusif, TypeChaine, ResultatPropre
<1>. QED
  BY <1>1 DEF InvariantChaine, varsChaine

(* Each statement of executer finds what the ones before it have left. *)
LEMMA ExecuterGarde ==
  ASSUME InvariantServeur, Executer
  PROVE  InvariantServeur'
<1>. USE DEF InvariantServeur
<1>1. CASE Quitter
  <2>1. InvariantChaine' /\ EnCours' = {}
    BY <1>1, ChaineVidee DEF Quitter
  <2>2. TypeServeur'
    BY <1>1, <2>1 DEF Quitter, TypeServeur, InvariantChaine
  <2>3. ArretOrdonne'
    BY <1>1, <2>1 DEF Quitter, ArretOrdonne, EnArret
  <2>. QED
    BY <2>1, <2>2, <2>3
<1>2. CASE ~Quitter
  <2>1. UNCHANGED varsChaine
    BY <1>2 DEF Executer, ConnecterBase, EchouerConnexion, Demarrer, RecevoirErreur,
                CommencerArret, AttendreRequetes, ForcerArret, AttendreTaches, FermerPool
  <2>2. InvariantChaine' /\ EnCours' = EnCours
    BY <2>1, ChaineIntacte
  <2>3. TypeServeur'
    BY <1>2, <2>2 DEF InvariantChaine, TypeServeur, Executer, ConnecterBase,
         EchouerConnexion, Demarrer, RecevoirErreur, CommencerArret, AttendreRequetes,
         ForcerArret, AttendreTaches, FermerPool
  <2>4. ArretOrdonne'
    <3>. USE <2>2 DEF ArretOrdonne, EnArret, TypeServeur
    <3>1. CASE ConnecterBase
      BY <3>1 DEF ConnecterBase
    <3>2. CASE EchouerConnexion
      BY <3>2 DEF EchouerConnexion
    <3>3. CASE Demarrer
      BY <3>3 DEF Demarrer
    <3>4. CASE RecevoirErreur
      BY <3>4 DEF RecevoirErreur
    <3>5. CASE CommencerArret
      BY <3>5 DEF CommencerArret
    <3>6. CASE AttendreRequetes
      BY <3>6 DEF AttendreRequetes
    <3>7. CASE ForcerArret
      BY <3>7 DEF ForcerArret
    <3>8. CASE AttendreTaches
      BY <3>8 DEF AttendreTaches
    <3>9. CASE FermerPool
      BY <3>9 DEF FermerPool
    <3>. QED
      BY <1>2, <3>1, <3>2, <3>3, <3>4, <3>5, <3>6, <3>7, <3>8, <3>9 DEF Executer
  <2>. QED
    BY <2>2, <2>3, <2>4
<1>. QED
  BY <1>1, <1>2

(* The signal and the goroutine that listens *)
LEMMA EcouteGarde ==
  ASSUME InvariantServeur, RecevoirSignal \/ OuvrirEcoute \/ EchouerEcoute
  PROVE  InvariantServeur'
<1>. USE DEF InvariantServeur
<1>1. UNCHANGED <<varsChaine, principal, taches, pool, force>>
  BY DEF RecevoirSignal, OuvrirEcoute, EchouerEcoute
<1>2. InvariantChaine' /\ EnCours' = EnCours
  BY <1>1, ChaineIntacte
<1>3. TypeServeur'
  BY <1>1, <1>2 DEF InvariantChaine, TypeServeur, RecevoirSignal, OuvrirEcoute, EchouerEcoute
<1>4. ArretOrdonne'
  <2>. USE <1>1, <1>2 DEF ArretOrdonne, EnArret, EnVie, TypeServeur
  <2>1. CASE RecevoirSignal
    BY <2>1 DEF RecevoirSignal
  <2>2. CASE OuvrirEcoute
    BY <2>2 DEF OuvrirEcoute
  <2>3. CASE EchouerEcoute
    BY <2>3 DEF EchouerEcoute
  <2>. QED
    BY <2>1, <2>2, <2>3
<1>. QED
  BY <1>2, <1>3, <1>4

(* A task that has stopped does not run again. *)
LEMMA TacheGarde ==
  ASSUME InvariantServeur, NEW t \in Taches,
         ExecuterTache(t) \/ AcheverTache(t) \/ ArreterTache(t)
  PROVE  InvariantServeur'
<1>. USE DEF InvariantServeur
<1>1. PICK e \in {"repos", "execution", "arretee"} : taches' = [taches EXCEPT ![t] = e]
  BY DEF ExecuterTache, AcheverTache, ArreterTache
<1>2. /\ UNCHANGED <<varsChaine, principal, ecoute, arret, pool, force>>
      /\ taches[t] # "arretee" /\ EnVie
  BY DEF ExecuterTache, AcheverTache, ArreterTache
<1>3. InvariantChaine' /\ EnCours' = EnCours
  BY <1>2, ChaineIntacte
<1>4. TypeServeur'
  BY <1>1, <1>2, <1>3 DEF InvariantChaine, TypeServeur
<1>5. ArretOrdonne'
  BY <1>1, <1>2, <1>3 DEF ArretOrdonne, EnArret, EnVie, TypeServeur
<1>. QED
  BY <1>3, <1>4, <1>5

(* Every step of executer, of a goroutine or of a request keeps the invariant. *)
LEMMA ServeurInductif == InvariantServeur /\ [NextServeur]_varsServeur => InvariantServeur'
<1>. SUFFICES ASSUME InvariantServeur, [NextServeur]_varsServeur PROVE InvariantServeur'
  OBVIOUS
<1>c. InvariantChaine
  BY DEF InvariantServeur
<1>1. CASE Executer
  BY <1>1, ExecuterGarde
<1>2. CASE RecevoirSignal \/ OuvrirEcoute \/ EchouerEcoute
  BY <1>2, EcouteGarde
<1>3. ASSUME NEW r \in Requetes, Recevoir(r) PROVE InvariantServeur'
  BY <1>3, RecevoirGarde
<1>4. ASSUME NEW r \in Requetes, Traiter(r) PROVE InvariantServeur'
  <2>1. InvariantChaine' /\ EnCours' = EnCours
    BY <1>c, <1>4, TravaillerGarde, ObtenirGarde, ObtenirEnCours DEF Traiter
  <2>. QED
    BY <1>4, <2>1, RequeteGarde DEF Traiter
<1>5. ASSUME NEW r \in Requetes, ExpirerRequete(r) PROVE InvariantServeur'
  <2>1. InvariantChaine' /\ EnCours' = EnCours
    BY <1>c, <1>5, ExpirerGarde DEF ExpirerRequete
  <2>. QED
    BY <1>5, <2>1, RequeteGarde DEF ExpirerRequete
<1>6. ASSUME NEW r \in Requetes, Terminer(r) PROVE InvariantServeur'
  <2>1. InvariantChaine' /\ EnCours' \subseteq EnCours
    BY <1>c, <1>6, RepondreGarde DEF Terminer
  <2>. QED
    BY <1>6, <2>1, RequeteGarde DEF Terminer
<1>7. ASSUME NEW k \in Connexions, AcheverRollback(k) PROVE InvariantServeur'
  <2>1. InvariantChaine'
    BY <1>c, <1>7, FondGarde DEF AcheverRollback
  <2>2. EnCours' = EnCours
    BY <1>7 DEF AcheverRollback, AcheverFond, EnCours, En
  <2>. QED
    BY <1>7, <2>1, <2>2, RequeteGarde DEF AcheverRollback
<1>8. ASSUME NEW t \in Taches, ExecuterTache(t) \/ AcheverTache(t) \/ ArreterTache(t)
      PROVE  InvariantServeur'
  BY <1>8, TacheGarde
<1>9. CASE UNCHANGED varsServeur
  <2>1. UNCHANGED varsChaine /\ UNCHANGED processus
    BY <1>9 DEF varsServeur, varsChaine, processus
  <2>. QED
    BY <1>c, <2>1, ChaineIntacte, RequeteGarde
<1>. QED
  BY <1>1, <1>2, <1>3, <1>4, <1>5, <1>6, <1>7, <1>8, <1>9 DEF NextServeur

-----------------------------------------------------------------------------
(* The theorems *)

(* In every state of every run the types hold, the pool and the gauge agree  *)
(* with the requests being served, and executer stops in the order of its    *)
(* statements.                                                               *)
THEOREM ServeurTenu == SpecServeur => []InvariantServeur
BY ServeurInitial, ServeurInductif, PTL DEF SpecServeur

(* UsageExclusif, seen from the connections *)
LEMMA UsageDitRessources == InvariantChaine => RessourcesRendues
<1>. SUFFICES ASSUME InvariantChaine PROVE RessourcesRendues
  OBVIOUS
<1>1. \A k \in libres \cup fond : {r \in Requetes : traitement[r].conn = k} = {}
  BY AucunNiConnexion DEF InvariantChaine, UsageExclusif, TypeChaine
<1>2. ASSUME NEW k \in Connexions \ (libres \cup fond)
      PROVE  \E r \in Requetes : /\ {q \in Requetes : traitement[q].conn = k} = {r}
                                 /\ traitement[r].etape \in AvecConnexion
  <2>1. PICK r \in Requetes : traitement[r].conn = k
    BY <1>2 DEF InvariantChaine, UsageExclusif
  <2>2. k # Aucun
    BY AucunNiConnexion
  <2>3. \A q \in Requetes : traitement[q].conn = k => q = r
    BY <2>1, <2>2 DEF InvariantChaine, UsageExclusif
  <2>4. traitement[r].etape \in AvecConnexion
    BY <2>1, <2>2 DEF InvariantChaine, UsageExclusif
  <2>. QED
    BY <2>1, <2>3, <2>4
<1>. QED
  BY <1>1, <1>2 DEF InvariantChaine, UsageExclusif, RessourcesRendues

(* Whatever a handler does, and however its request ends, the connections    *)
(* and the gauge are given back (pool of database.Connecter, Metriques).     *)
THEOREM RessourcesToujoursRendues == SpecServeur => []RessourcesRendues
<1>1. InvariantServeur => RessourcesRendues
  BY UsageDitRessources DEF InvariantServeur
<1>. QED
  BY <1>1, ServeurTenu, PTL

(* The session variables that AppelProcedure reads are those its CALL set.   *)
THEOREM ResultatToujoursPropre == SpecServeur => []ResultatPropre
<1>1. InvariantServeur => ResultatPropre
  BY DEF InvariantServeur, InvariantChaine
<1>. QED
  BY <1>1, ServeurTenu, PTL

(* executer closes the pool after the requests and after the tasks. *)
THEOREM PoolToujoursEnDernier == SpecServeur => []PoolFermeEnDernier
<1>1. InvariantServeur => PoolFermeEnDernier
  BY DEF InvariantServeur, ArretOrdonne, PoolFermeEnDernier, RequetesAvantPool,
         TachesAvantPool
<1>. QED
  BY <1>1, ServeurTenu, PTL

=============================================================================
