------------------------------ MODULE Serveur -------------------------------
(***************************************************************************)
(* The life of the process (cmd/api/main.go): the connection to the        *)
(* database, the HTTP server in a goroutine of its own, requests that pass *)
(* the chain of middlewares, the tasks of the scheduler,                    *)
(* and the graceful stop with its deadline, in the order of the statements *)
(* and of the deferred calls of executer.                                  *)
(***************************************************************************)
EXTENDS Chaine

CONSTANT Taches      \* periodic tasks of the scheduler

VARIABLES
  principal,   \* where executer is
  ecoute,      \* the goroutine of ListenAndServe
  arret,       \* SIGINT or SIGTERM received: the context is cancelled
  taches,      \* the goroutine of each task
  pool,        \* sql.DB
  force        \* the stop had to be forced

varsServeur ==
  <<traitement, libres, fond, session, jauge, principal, ecoute, arret, taches, pool, force>>
processus == <<principal, ecoute, arret, taches, pool, force>>

-----------------------------------------------------------------------------
(* executer, up to the select *)

(* database.Connecter: sql.Open and a ping bounded in time *)
ConnecterBase ==
  /\ principal = "connexion"
  /\ pool' = "ouvert"
  /\ principal' = "assemblage"
  /\ UNCHANGED <<varsChaine, ecoute, arret, taches, force>>

EchouerConnexion ==
  /\ principal = "connexion"
  /\ principal' = "fini"
  /\ UNCHANGED <<varsChaine, ecoute, arret, taches, pool, force>>

(* Ordonnanceur.Demarrer, NouveauLimiteurDebit, go ListenAndServe *)
Demarrer ==
  /\ principal = "assemblage"
  /\ taches' = [t \in Taches |-> "repos"]
  /\ ecoute' = "demandee"
  /\ principal' = "service"
  /\ UNCHANGED <<varsChaine, arret, pool, force>>

RecevoirSignal ==
  /\ principal # "fini"
  /\ ~arret
  /\ arret' = TRUE
  /\ UNCHANGED <<varsChaine, principal, ecoute, taches, pool, force>>

-----------------------------------------------------------------------------
(* The goroutine of the HTTP server *)

EnArret == principal \in {"arret", "taches", "retour", "sortie"}
EnVie == principal # "fini"

OuvrirEcoute ==
  /\ EnVie /\ ecoute = "demandee"
  /\ ecoute' = IF EnArret THEN "refusee" ELSE "ouverte"   \* ErrServerClosed
  /\ UNCHANGED <<varsChaine, principal, arret, taches, pool, force>>

EchouerEcoute ==                   \* erreursServeur <- err
  /\ EnVie /\ ecoute \in {"demandee", "ouverte"} /\ ~EnArret
  /\ ecoute' = "erreur"
  /\ UNCHANGED <<varsChaine, principal, arret, taches, pool, force>>

-----------------------------------------------------------------------------
(* Requests *)

(* Admitted by the rate limiter: what it refuses goes no further.  While     *)
(* Shutdown waits, a connection accepted before may still bring a request.   *)
Recevoir(r) ==
  /\ \/ EnVie /\ ecoute = "ouverte"
     \/ principal = "arret" /\ ecoute = "fermee"
  /\ Entrer(r)
  /\ UNCHANGED processus

Traiter(r) ==
  /\ EnVie
  /\ \/ Travailler(r)
     \/ pool = "ouvert" /\ ObtenirConnexion(r)
  /\ UNCHANGED processus

Terminer(r) ==
  /\ EnVie
  /\ Repondre(r) \/ Paniquer(r)
  /\ UNCHANGED processus

ExpirerRequete(r)  == EnVie /\ Expirer(r) /\ UNCHANGED processus
AcheverRollback(k) == EnVie /\ AcheverFond(k) /\ UNCHANGED processus

-----------------------------------------------------------------------------
(* boucleTache *)

ExecuterTache(t) ==                \* also when both cases of the select are ready
  /\ EnVie /\ taches[t] = "repos"
  /\ taches' = [taches EXCEPT ![t] = "execution"]
  /\ UNCHANGED <<varsChaine, principal, ecoute, arret, pool, force>>

AcheverTache(t) ==
  /\ EnVie /\ taches[t] = "execution"
  /\ taches' = [taches EXCEPT ![t] = "repos"]
  /\ UNCHANGED <<varsChaine, principal, ecoute, arret, pool, force>>

ArreterTache(t) ==                 \* ctx.Done()
  /\ EnVie /\ taches[t] = "repos" /\ arret
  /\ taches' = [taches EXCEPT ![t] = "arretee"]
  /\ UNCHANGED <<varsChaine, principal, ecoute, arret, pool, force>>

-----------------------------------------------------------------------------
(* executer, from the select on *)

RecevoirErreur ==
  /\ principal = "service" /\ ecoute = "erreur"
  /\ principal' = "retour"
  /\ UNCHANGED <<varsChaine, ecoute, arret, taches, pool, force>>

(* <-ctx.Done(), then Shutdown closes the listeners *)
CommencerArret ==
  /\ principal = "service" /\ arret
  /\ principal' = "arret"
  /\ ecoute' = IF ecoute = "ouverte" THEN "fermee" ELSE ecoute
  /\ UNCHANGED <<varsChaine, arret, taches, pool, force>>

AttendreRequetes ==                \* Shutdown returns nil
  /\ principal = "arret" /\ EnCours = {}
  /\ principal' = "taches"
  /\ UNCHANGED <<varsChaine, ecoute, arret, taches, pool, force>>

FauteSansDelai ==                  \* Shutdown without a deadline
  /\ FALSE
  /\ UNCHANGED varsServeur

ForcerArret ==                     \* DelaiArretGracieux is over: Close
  /\ principal = "arret" /\ EnCours # {}
  /\ principal' = "taches"
  /\ force' = TRUE
  /\ UNCHANGED <<varsChaine, ecoute, arret, taches, pool>>

FauteSansAttendre ==               \* no WaitGroup
  /\ principal = "taches"
  /\ principal' = "retour"
  /\ UNCHANGED <<varsChaine, ecoute, arret, taches, pool, force>>

AttendreTaches ==                  \* Ordonnanceur.Attendre
  /\ principal = "taches" /\ \A t \in Taches : taches[t] = "arretee"
  /\ principal' = "retour"
  /\ UNCHANGED <<varsChaine, ecoute, arret, taches, pool, force>>

(* The deferred calls, last first: db.Close, then arreterSignaux *)
FermerPool ==
  /\ principal = "retour"
  /\ pool' = "ferme"
  /\ principal' = "sortie"
  /\ UNCHANGED <<varsChaine, ecoute, arret, taches, force>>

Quitter ==                         \* main returns: no goroutine is left
  /\ principal = "sortie"
  /\ arret' = TRUE
  /\ principal' = "fini"
  /\ taches' = [t \in Taches |-> "arretee"]
  /\ ViderChaine
  /\ UNCHANGED <<ecoute, pool, force>>

-----------------------------------------------------------------------------

InitServeur ==
  /\ InitChaine
  /\ principal = "connexion" /\ ecoute = "absente" /\ arret = FALSE
  /\ taches = [t \in Taches |-> "arretee"]
  /\ pool = "absent" /\ force = FALSE

Executer ==
  \/ ConnecterBase \/ EchouerConnexion \/ Demarrer
  \/ RecevoirErreur \/ CommencerArret \/ AttendreRequetes \/ ForcerArret
  \/ AttendreTaches \/ FermerPool \/ Quitter

NextServeur ==
  \/ Executer \/ RecevoirSignal \/ OuvrirEcoute \/ EchouerEcoute
  \/ \E r \in Requetes :
       Recevoir(r) \/ Traiter(r) \/ ExpirerRequete(r) \/ Terminer(r)
  \/ \E k \in Connexions : AcheverRollback(k)
  \/ \E t \in Taches : ExecuterTache(t) \/ AcheverTache(t) \/ ArreterTache(t)

SpecServeur == InitServeur /\ [][NextServeur]_varsServeur

(* Goroutines are scheduled, deadlines expire, time passes, and a select     *)
(* with two ready cases does not choose the same one for ever (Go draws it). *)
(* A handler whose context is done stops waiting and replies.  Nothing is    *)
(* assumed of the database, not even that it answers a COMMIT.               *)
EquiteServeur ==
  /\ WF_varsServeur(Executer)
  /\ \A t \in Taches : WF_varsServeur(AcheverTache(t)) /\ SF_varsServeur(ArreterTache(t))
  /\ \A r \in Requetes :
       WF_varsServeur(ExpirerRequete(r) \/ (En(r, "echu") /\ Terminer(r)))

SpecServeurEquitable == SpecServeur /\ EquiteServeur

-----------------------------------------------------------------------------
(* Properties *)

(* Every variable keeps its type. *)
TypeServeur ==
  /\ TypeChaine
  /\ principal \in {"connexion", "assemblage", "service", "arret", "taches", "retour",
                    "sortie", "fini"}
  /\ ecoute \in {"absente", "demandee", "ouverte", "fermee", "refusee", "erreur"}
  /\ arret \in BOOLEAN /\ force \in BOOLEAN
  /\ taches \in [Taches -> {"repos", "execution", "arretee"}]
  /\ pool \in {"absent", "ouvert", "ferme"}

(* After a signal the pool is closed only when every request has been        *)
(* answered, unless the deadline passed ("on laisse les requetes en cours se *)
(* terminer avant de fermer proprement les ressources").                     *)
RequetesAvantPool ==
  pool = "ferme" /\ ecoute # "erreur" /\ ~force => EnCours = {}

(* After a signal, even a forced stop waits for the tasks of the scheduler   *)
(* before it closes the pool ("On attend la fin des goroutines de taches").  *)
TachesAvantPool ==
  pool = "ferme" /\ ecoute # "erreur" => \A t \in Taches : taches[t] = "arretee"

PoolFermeEnDernier == RequetesAvantPool /\ TachesAvantPool

(* Every request is answered, although the pool may be empty and the         *)
(* database silent, but those that wait for its answer to COMMIT or ROLLBACK *)
(* ("toutes les operations qui l'observent ... s'interrompent").             *)
RequeteRepondue ==
  \A r \in Requetes : []<>En(r, "dehors") \/ <>[]En(r, "cloture echue")

(* A signal stops the process one day, whatever the handlers do.             *)
ArretAboutit == arret ~> principal = "fini"

-----------------------------------------------------------------------------
(* The inductive invariant behind the theorems of Serveur_proofs *)

(* What each statement of executer may rely on: nothing listens once the     *)
(* stop has begun; requests enter until Shutdown has returned, and they and  *)
(* the tasks are waited for.                                                 *)
ArretOrdonne ==
  /\ EnArret => ecoute # "ouverte"
  /\ principal \in {"taches", "retour", "sortie"} /\ ecoute # "erreur" /\ ~force =>
       EnCours = {}
  /\ principal \in {"retour", "sortie"} /\ ecoute # "erreur" =>
       \A t \in Taches : taches[t] = "arretee"
  /\ pool = "ferme" => principal \in {"sortie", "fini"}
  /\ pool = "ferme" /\ principal = "fini" =>
       EnCours = {} /\ \A t \in Taches : taches[t] = "arretee"

InvariantServeur == TypeServeur /\ InvariantChaine /\ ArretOrdonne

=============================================================================
