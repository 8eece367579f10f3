------------------------------- MODULE Chaine -------------------------------
(***************************************************************************)
(* A request that the rate limiter has admitted: Timeout, Metriques, the   *)
(* handler, the connections it borrows from the pool of sql.DB and how     *)
(* each is given back, under Recuperation.  A connection serves a CALL and *)
(* the SELECT of its session variables, one statement, or a transaction of *)
(* EnTransaction.  The context ends every wait but that for COMMIT and     *)
(* ROLLBACK, which take none.  sql.DB and the driver are modelled from how *)
(* this code calls them.                                                   *)
(***************************************************************************)
EXTENDS Integers, FiniteSets

CONSTANTS
  Requetes,       \* HTTP requests served at the same time
  Connexions,     \* MaxConnexionsOuvertes of them
  Aucun

ASSUME RequetesFinies   == IsFiniteSet(Requetes)
ASSUME ConnexionsFinies == IsFiniteSet(Connexions)
ASSUME AucunNiConnexion == Aucun \notin Connexions \cup Requetes

VARIABLES
  traitement,  \* where each request is, past the limiter
  libres,      \* connections the pool may lend
  fond,        \* connections rolled back by a goroutine of sql.Tx
  session,     \* which request has set the session variables of each connection;
               \* Aucun for what an earlier use of the connection has left there
  jauge        \* RequetesEnCours

varsChaine == <<traitement, libres, fond, session, jauge>>

-----------------------------------------------------------------------------

DansUneInstruction == {"instruction", "lecture"}
Clotures == {"cloture", "cloture echue"}
AvecConnexion == DansUneInstruction \cup {"transaction"} \cup Clotures

AuDehors == [etape |-> "dehors", conn |-> Aucun]
Traitement ==
  [etape: {"dehors", "handler", "attente", "echu"} \cup AvecConnexion,
   conn: Connexions \cup {Aucun}]

En(r, e) == traitement[r].etape = e
Aller(r, e) == traitement' = [traitement EXCEPT ![r].etape = e]

EnCours == {r \in Requetes : ~En(r, "dehors")}

(* Back in the handler, with no connection; echu if the context is done.     *)
Revenir(r, e) == traitement' = [traitement EXCEPT ![r] = [etape |-> e, conn |-> Aucun]]

(* conn.Close, the end of a statement, or of a connection that was cut: the  *)
(* pool may lend it again, or open another in its place.                     *)
Rendre(k) ==
  /\ libres' = libres \cup {k}
  /\ session' = [session EXCEPT ![k] = Aucun]

-----------------------------------------------------------------------------
(* Timeout and Metriques *)

Entrer(r) ==
  /\ En(r, "dehors")
  /\ Aller(r, "handler")
  /\ jauge' = jauge + 1
  /\ UNCHANGED <<libres, fond, session>>

DansLeHandler(r) == En(r, "handler") \/ En(r, "echu")

Repondre(r) ==
  /\ DansLeHandler(r)
  /\ Aller(r, "dehors")
  /\ jauge' = jauge - 1
  /\ UNCHANGED <<libres, fond, session>>

FauteSansDefer(r) ==               \* Dec after ServeHTTP, not deferred
  /\ DansLeHandler(r)
  /\ Aller(r, "dehors")
  /\ UNCHANGED <<libres, fond, session, jauge>>

(* The panic goes up through the deferred calls to Recuperation: 500.        *)
Paniquer(r) ==
  /\ DansLeHandler(r)
  /\ Aller(r, "dehors")
  /\ jauge' = jauge - 1
  /\ UNCHANGED <<libres, fond, session>>

-----------------------------------------------------------------------------
(* The pool *)

DemanderConnexion(r) ==
  /\ En(r, "handler")
  /\ Aller(r, "attente")
  /\ UNCHANGED <<libres, fond, session, jauge>>

FautePartagee(r) ==                \* one connection for all the calls
  /\ En(r, "attente")
  /\ \E k \in libres, e \in {"instruction", "transaction"} :
       traitement' = [traitement EXCEPT ![r] = [etape |-> e, conn |-> k]]
  /\ UNCHANGED <<libres, fond, session, jauge>>

ObtenirConnexion(r) ==
  /\ En(r, "attente")
  /\ \E k \in libres, e \in {"instruction", "transaction"} :
       /\ traitement' = [traitement EXCEPT ![r] = [etape |-> e, conn |-> k]]
       /\ libres' = libres \ {k}
  /\ UNCHANGED <<fond, session, jauge>>

EchouerAttente(r) ==               \* no connection can be opened
  /\ En(r, "attente")
  /\ Aller(r, "handler")
  /\ UNCHANGED <<libres, fond, session, jauge>>

-----------------------------------------------------------------------------
(* Statements *)

(* The CALL of a procedure with OUT parameters; its SELECT follows.          *)
ExecuterAppel(r) ==
  /\ En(r, "instruction")
  /\ session' = [session EXCEPT ![traitement[r].conn] = r]
  /\ Aller(r, "lecture")
  /\ UNCHANGED <<libres, fond, jauge>>

FauteSansClose(r) ==               \* return before conn.Close
  /\ traitement[r].etape \in DansUneInstruction
  /\ Revenir(r, "handler")
  /\ UNCHANGED <<libres, fond, session, jauge>>

(* The reply of the SELECT or of a lone statement, or the error of any       *)
TerminerInstruction(r) ==
  /\ traitement[r].etape \in DansUneInstruction
  /\ Revenir(r, "handler")
  /\ Rendre(traitement[r].conn)
  /\ UNCHANGED <<fond, jauge>>

-----------------------------------------------------------------------------
(* EnTransaction *)

(* COMMIT, or ROLLBACK after an error or a panic of fn, by the request       *)
CloreTransaction(r) ==
  /\ En(r, "transaction")
  /\ Aller(r, "cloture")
  /\ UNCHANGED <<libres, fond, session, jauge>>

AcheverCloture(r) ==
  /\ traitement[r].etape \in Clotures
  /\ Revenir(r, IF En(r, "cloture") THEN "handler" ELSE "echu")
  /\ Rendre(traitement[r].conn)
  /\ UNCHANGED <<fond, jauge>>

-----------------------------------------------------------------------------
(* The context is done: the deadline passed, or the client went away *)

ExpirerHandler(r) ==
  /\ En(r, "handler")
  /\ Aller(r, "echu")
  /\ UNCHANGED <<libres, fond, session, jauge>>

FauteSansContexte(r) ==            \* db.Conn(context.Background())
  /\ FALSE
  /\ UNCHANGED varsChaine

ExpirerAttente(r) ==
  /\ En(r, "attente")
  /\ Aller(r, "echu")
  /\ UNCHANGED <<libres, fond, session, jauge>>

(* The driver cuts the connection.                                           *)
ExpirerInstruction(r) ==
  /\ traitement[r].etape \in DansUneInstruction
  /\ Revenir(r, "echu")
  /\ Rendre(traitement[r].conn)
  /\ UNCHANGED <<fond, jauge>>

(* A statement under way is cut with its connection; between two, a          *)
(* goroutine of sql.Tx rolls back, unless the request does it first.         *)
ExpirerTransaction(r) ==
  /\ En(r, "transaction")
  /\ \/ Revenir(r, "echu") /\ Rendre(traitement[r].conn) /\ UNCHANGED fond
     \/ /\ Revenir(r, "echu")
        /\ fond' = fond \cup {traitement[r].conn}
        /\ UNCHANGED <<libres, session>>
     \/ Aller(r, "cloture echue") /\ UNCHANGED <<libres, fond, session>>
  /\ UNCHANGED jauge

ExpirerCloture(r) ==               \* it waits for the database all the same
  /\ En(r, "cloture")
  /\ Aller(r, "cloture echue")
  /\ UNCHANGED <<libres, fond, session, jauge>>

AcheverFond(k) ==
  /\ k \in fond
  /\ fond' = fond \ {k}
  /\ Rendre(k)
  /\ UNCHANGED <<traitement, jauge>>

-----------------------------------------------------------------------------

InitChaine ==
  /\ traitement = [r \in Requetes |-> AuDehors]
  /\ libres = Connexions /\ fond = {}
  /\ session = [k \in Connexions |-> Aucun]
  /\ jauge = 0

ViderChaine ==                     \* the process ends
  /\ traitement' = [r \in Requetes |-> AuDehors]
  /\ libres' = Connexions /\ fond' = {}
  /\ session' = [k \in Connexions |-> Aucun]
  /\ jauge' = 0

Travailler(r) ==
  \/ DemanderConnexion(r) \/ EchouerAttente(r)
  \/ ExecuterAppel(r) \/ TerminerInstruction(r)
  \/ CloreTransaction(r) \/ AcheverCloture(r)

Expirer(r) ==
  \/ ExpirerHandler(r) \/ ExpirerAttente(r) \/ ExpirerInstruction(r)
  \/ ExpirerTransaction(r) \/ ExpirerCloture(r)

-----------------------------------------------------------------------------
(* Properties *)

TypeChaine ==
  /\ traitement \in [Requetes -> Traitement]
  /\ libres \subseteq Connexions /\ fond \subseteq Connexions
  /\ session \in [Connexions -> Requetes \cup {Aucun}]
  /\ jauge \in 0..Cardinality(Requetes)

(* Whatever fails, expires or panics, the gauge counts the requests being    *)
(* served, and each connection is in the pool, being rolled back, or used by *)
(* one request: none is lost, none is shared ("pour ne jamais laisser une    *)
(* transaction ouverte dans la nature").                                     *)
RessourcesRendues ==
  /\ jauge = Cardinality(EnCours)
  /\ libres \cap fond = {}
  /\ \A k \in Connexions :
       LET tenue == {r \in Requetes : traitement[r].conn = k} IN
       IF k \in libres \cup fond THEN tenue = {}
       ELSE \E r \in Requetes : tenue = {r} /\ traitement[r].etape \in AvecConnexion

(* The session variables a request is about to read are those its own CALL   *)
(* has set ("ces variables ne vivent que sur UNE connexion").                *)
ResultatPropre == \A r \in Requetes : En(r, "lecture") => session[traitement[r].conn] = r

-----------------------------------------------------------------------------
(* The inductive invariant behind the theorems of Serveur_proofs *)

(* RessourcesRendues as seen from the requests *)
UsageExclusif ==
  /\ libres \cap fond = {}
  /\ \A r \in Requetes :
       IF traitement[r].etape \in AvecConnexion
       THEN traitement[r].conn \in Connexions \ (libres \cup fond)
       ELSE traitement[r].conn = Aucun
  /\ \A r, q \in Requetes :
       traitement[r].conn = traitement[q].conn => r = q \/ traitement[r].conn = Aucun
  /\ \A k \in Connexions \ (libres \cup fond) : \E r \in Requetes : traitement[r].conn = k

InvariantChaine ==
  /\ TypeChaine
  /\ jauge = Cardinality(EnCours)
  /\ UsageExclusif
  /\ ResultatPropre

=============================================================================
