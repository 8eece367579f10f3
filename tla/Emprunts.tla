------------------------------ MODULE Emprunts ------------------------------
(***************************************************************************)
(* Circulation of the library: borrowing through pr_emprunter_livre, the   *)
(* return transaction of EmpruntRepository.Rendre and the daily event that *)
(* marks overdue loans, all running concurrently on the tables livres,     *)
(* emprunts and utilisateurs of MariaDB.                                   *)
(*                                                                         *)
(* A transaction's writes become visible at its COMMIT, so the tables hold *)
(* committed rows only; the row locks a transaction holds follow from the  *)
(* stage it has reached (TientEmprunt, TientLivre).  Rows of livres and    *)
(* utilisateurs are rewritten and deleted in Catalogue, with the refusals  *)
(* of circulation that only this makes possible (RefuserCleEtrangere,      *)
(* RefuserStockIncoherent).                                                *)
(*                                                                         *)
(* The definitions named Faute... are plausible mistakes in the operation  *)
(* that follows them.  No specification uses them: they show what the      *)
(* properties are able to find.                                            *)
(***************************************************************************)
EXTENDS Integers, FiniteSets

CONSTANTS
  Livres,             \* rows of livres
  Membres,            \* rows of utilisateurs
  Lignes,             \* identifiers the table emprunts may give to a loan
  Demandes,           \* HTTP requests served at the same time
  Aucun,              \* no value yet (NULL)
  StocksInitiaux,     \* numbers of copies a book may start with
  DureesDemandees,    \* values of duree_jours a client may send
  DureeParDefaut,     \* 14 in the code
  DureeMax,           \* 90 in the code
  Quota,              \* v_quota_max, 5 in the code
  LecturesStrictes,   \* values innodb_snapshot_isolation may have on the server
  MaxJour             \* bound of the model: the last day simulated

ASSUME LignesFinies     == IsFiniteSet(Lignes)
ASSUME DemandesFinies   == IsFiniteSet(Demandes)
ASSUME AucunDistinct    == Aucun \notin Livres \cup Membres \cup Lignes \cup Nat
ASSUME StocksNaturels   == StocksInitiaux \subseteq Nat
ASSUME DureesEntieres   == DureesDemandees \subseteq Int
ASSUME DureesNaturelles == DureeParDefaut \in Nat \ {0} /\ DureeMax \in Nat
ASSUME QuotaPositif     == Quota \in Nat \ {0}
ASSUME StrictesBooleens == LecturesStrictes \in SUBSET BOOLEAN \ {{}}
ASSUME MaxJourNaturel   == MaxJour \in Nat

VARIABLES
  total,      \* livres.nombre_exemplaires
  dispo,      \* livres.exemplaires_disponibles
  fiche,      \* state of the row of livres: present, retire (supprime_le), efface
  compte,     \* state of the row of utilisateurs: actif, inactif, efface
  emprunts,   \* committed rows of emprunts
  jour,       \* CURRENT_DATE
  marquage,   \* what the event that marks overdue loans is doing
  tx          \* what each request is doing

stock  == <<total, dispo>>
tables == <<total, dispo, fiche, compte, emprunts>>
vars   == <<total, dispo, fiche, compte, emprunts, jour, marquage, tx>>

-----------------------------------------------------------------------------
(* Rows and requests *)

Absente == [statut |-> "absente"]    \* identifier not given yet
Effacee == [statut |-> "effacee"]    \* row deleted: an identifier never comes back

LigneEmprunt ==
  [statut: {"en_cours", "en_retard", "rendu"}, utilisateur: Membres, livre: Livres,
   prevue: Nat, effective: Nat \cup {Aucun}, penalite: Nat]

StatutsActifs == {"en_cours", "en_retard"}
EstActif(e)   == emprunts[e].statut \in StatutsActifs

ActifsDuLivre(l)  == {e \in Lignes : EstActif(e) /\ emprunts[e].livre = l}
ActifsDuMembre(u) == {e \in Lignes : EstActif(e) /\ emprunts[e].utilisateur = u}

EtapesEmprunt == {"e_verrou", "e_ecriture"}
EtapesRetour  == {"r_verrou", "r_penalite", "r_cloture", "r_stock", "r_commit"}
Etapes == {"libre", "lecture", "repondue"} \cup EtapesEmprunt \cup EtapesRetour
Reponses == {"ok", "invalide", "introuvable", "conflit", "interne"}

DemandeLibre ==
  [etape |-> "libre", sorte |-> Aucun, utilisateur |-> Aucun, livre |-> Aucun,
   emprunt |-> Aucun, duree |-> 0, nbActifs |-> 0, perimes |-> {},
   penalite |-> 0, effective |-> Aucun, reponse |-> Aucun]

Demande ==
  [etape: Etapes, sorte: {"emprunt", "retour", Aucun},
   utilisateur: Membres \cup {Aucun}, livre: Livres \cup {Aucun},
   emprunt: Lignes \cup {Aucun}, duree: Nat, nbActifs: Nat,
   perimes: SUBSET Livres,         \* books changed since the read view was made
   penalite: Nat, effective: Nat \cup {Aucun}, reponse: Reponses \cup {Aucun}]

(* fn_calculer_penalite, in units of the daily rate *)
Penalite(prevue, reference) == IF reference > prevue THEN reference - prevue ELSE 0

(* EmpruntService.Emprunter: 0 asks for the default, the rest is 1..90 days *)
DureeAcceptee(n) == n = 0 \/ n \in 1..DureeMax
DureeDuPret(n)   == IF n = 0 THEN DureeParDefaut ELSE n

(* Row locks, held from the locking statement to COMMIT or ROLLBACK *)
TientEmprunt(d, e) ==
  tx[d].emprunt = e /\ tx[d].etape \in EtapesRetour \ {"r_verrou"}
TientLivre(d, l) ==
  tx[d].livre = l /\ tx[d].etape \in {"e_ecriture", "r_commit"}
EmpruntVerrouille(e) == e \in marquage.lignes \/ \E d \in Demandes : TientEmprunt(d, e)
LivreVerrouille(l)   == \E d \in Demandes : TientLivre(d, l)

(* The end of a handler: the reply, every lock being released.  Only what    *)
(* the reply is about is kept.                                               *)
Repondue(d, r) ==
  [tx[d] EXCEPT !.etape = "repondue", !.reponse = r, !.duree = 0, !.nbActifs = 0,
                !.perimes = {}, !.penalite = 0, !.effective = Aucun]
Repondre(d, r) == tx' = [tx EXCEPT ![d] = Repondue(d, r)]

(* A committed change of the row of book l, seen by the transactions that    *)
(* made their read view before it.                                           *)
VuePerimee(x, l) ==
  IF TRUE \in LecturesStrictes /\ tx[x].etape = "e_verrou"
  THEN [tx[x] EXCEPT !.perimes = @ \cup {l}]
  ELSE tx[x]
LivreModifie(l)  == [x \in Demandes |-> VuePerimee(x, l)]

-----------------------------------------------------------------------------
(* POST /emprunts: EmpruntService.Emprunter and pr_emprunter_livre *)

DemandeEmprunt(u, l) ==
  [DemandeLibre EXCEPT !.sorte = "emprunt", !.utilisateur = u, !.livre = l]

RefuserDuree(d, u, l, n) ==
  /\ tx[d].etape = "libre"
  /\ ~DureeAcceptee(n)
  /\ tx' = [tx EXCEPT ![d] = [DemandeEmprunt(u, l) EXCEPT !.etape = "repondue",
                                                         !.reponse = "invalide"]]
  /\ UNCHANGED <<tables, jour, marquage>>

RefuserMembre(d, u, l, n) ==       \* code 2
  /\ tx[d].etape = "libre"
  /\ DureeAcceptee(n)
  /\ compte[u] # "actif"
  /\ tx' = [tx EXCEPT ![d] = [DemandeEmprunt(u, l) EXCEPT !.etape = "repondue",
                                                         !.reponse = "introuvable"]]
  /\ UNCHANGED <<tables, jour, marquage>>

(* Bound of the model: a loan is asked for only while an identifier of Lignes *)
(* remains for it.                                                           *)
IdentifiantRestant ==
  Cardinality({x \in Demandes : tx[x].etape \in EtapesEmprunt})
    < Cardinality({e \in Lignes : emprunts[e] = Absente})

(* The SELECT on utilisateurs makes the read view: fn_nb_emprunts_actifs,    *)
(* a plain SELECT run later, counts the loans of this instant.               *)
OuvrirEmprunt(d, u, l, n) ==
  /\ tx[d].etape = "libre"
  /\ IdentifiantRestant
  /\ DureeAcceptee(n)
  /\ compte[u] = "actif"
  /\ tx' = [tx EXCEPT ![d] = [DemandeEmprunt(u, l) EXCEPT
                                !.etape = "e_verrou", !.duree = DureeDuPret(n),
                                !.nbActifs = Cardinality(ActifsDuMembre(u))]]
  /\ UNCHANGED <<tables, jour, marquage>>

FauteVerrouIgnore(d) == tx[d].etape = "e_verrou"     \* no FOR UPDATE

(* SELECT ... FROM livres ... FOR UPDATE gets the lock and the last committed *)
(* row, or fails when the read view is older than that row and reads are      *)
(* strict (VueAcceptee: they need not be).                                    *)
VerrouObtenu(d) ==
  /\ tx[d].etape = "e_verrou"
  /\ ~LivreVerrouille(tx[d].livre)

VueAcceptee(d) ==
  tx[d].livre \in tx[d].perimes => FALSE \in LecturesStrictes

FauteVueCrue(d) ==                 \* the row of the read view believed
  /\ tx[d].etape = "e_verrou"
  /\ tx[d].livre \in tx[d].perimes
  /\ tx[d].nbActifs < Quota
  /\ tx' = [tx EXCEPT ![d].etape = "e_ecriture"]
  /\ UNCHANGED <<tables, jour, marquage>>

RefuserVuePerimee(d) ==            \* ER_CHECKREAD, handler, code 99
  /\ VerrouObtenu(d)
  /\ tx[d].livre \in tx[d].perimes
  /\ Repondre(d, "interne")
  /\ UNCHANGED <<tables, jour, marquage>>

RefuserLivre(d) ==                 \* code 1
  /\ VerrouObtenu(d)
  /\ VueAcceptee(d)
  /\ fiche[tx[d].livre] # "present"
  /\ Repondre(d, "introuvable")
  /\ UNCHANGED <<tables, jour, marquage>>

RefuserConflit(d) ==               \* codes 3 (no copy left) and 4 (quota)
  /\ VerrouObtenu(d)
  /\ VueAcceptee(d)
  /\ fiche[tx[d].livre] = "present"
  /\ dispo[tx[d].livre] <= 0 \/ tx[d].nbActifs >= Quota
  /\ Repondre(d, "conflit")
  /\ UNCHANGED <<tables, jour, marquage>>

FauteQuotaInclus(d) ==             \* v_actifs > v_quota_max for >=
  /\ VerrouObtenu(d)
  /\ VueAcceptee(d)
  /\ fiche[tx[d].livre] = "present"
  /\ dispo[tx[d].livre] > 0
  /\ tx[d].nbActifs <= Quota
  /\ tx' = [tx EXCEPT ![d].etape = "e_ecriture"]
  /\ UNCHANGED <<tables, jour, marquage>>

VerrouillerLivre(d) ==
  /\ VerrouObtenu(d)
  /\ VueAcceptee(d)
  /\ fiche[tx[d].livre] = "present"
  /\ dispo[tx[d].livre] > 0
  /\ tx[d].nbActifs < Quota
  /\ tx' = [tx EXCEPT ![d].etape = "e_ecriture"]
  /\ UNCHANGED <<tables, jour, marquage>>

NouvelEmprunt(d) ==
  [statut |-> "en_cours", utilisateur |-> tx[d].utilisateur, livre |-> tx[d].livre,
   prevue |-> jour + tx[d].duree, effective |-> Aucun, penalite |-> 0]

(* INSERT INTO emprunts, UPDATE livres, COMMIT *)
EnregistrerEmprunt(d) ==
  /\ tx[d].etape = "e_ecriture"
  /\ compte[tx[d].utilisateur] # "efface"
  /\ \E e \in Lignes :
       /\ emprunts[e] = Absente
       /\ emprunts' = [emprunts EXCEPT ![e] = NouvelEmprunt(d)]
       /\ dispo' = [dispo EXCEPT ![tx[d].livre] = @ - 1]
       /\ tx' = [LivreModifie(tx[d].livre) EXCEPT
                   ![d] = [tx[d] EXCEPT !.etape = "lecture", !.emprunt = e]]
  /\ UNCHANGED <<total, fiche, compte, jour, marquage>>

-----------------------------------------------------------------------------
(* POST /emprunts/{id}/retour: EmpruntRepository.Rendre in EnTransaction *)

DemanderRetour(d, e) ==
  /\ tx[d].etape = "libre"
  /\ tx' = [tx EXCEPT ![d] = [DemandeLibre EXCEPT !.etape = "r_verrou",
                                !.sorte = "retour", !.emprunt = e]]
  /\ UNCHANGED <<tables, jour, marquage>>

RefuserEmpruntInconnu(d) ==
  /\ tx[d].etape = "r_verrou"
  /\ emprunts[tx[d].emprunt] \in {Absente, Effacee}
  /\ Repondre(d, "introuvable")
  /\ UNCHANGED <<tables, jour, marquage>>

FauteConflitSansAttendre(d) ==     \* a loan another return holds taken as returned
  /\ tx[d].etape = "r_verrou"
  /\ EmpruntVerrouille(tx[d].emprunt) \/ emprunts[tx[d].emprunt].statut = "rendu"
  /\ Repondre(d, "conflit")
  /\ UNCHANGED <<tables, jour, marquage>>

RefuserDejaRendu(d) ==
  /\ tx[d].etape = "r_verrou"
  /\ ~EmpruntVerrouille(tx[d].emprunt)
  /\ emprunts[tx[d].emprunt].statut = "rendu"
  /\ Repondre(d, "conflit")
  /\ UNCHANGED <<tables, jour, marquage>>

FauteRetourSansVerrou(d) ==        \* no FOR UPDATE on emprunts
  /\ tx[d].etape = "r_verrou"
  /\ EstActif(tx[d].emprunt)
  /\ tx' = [tx EXCEPT ![d].etape = "r_penalite",
                      ![d].livre = emprunts[tx[d].emprunt].livre]
  /\ UNCHANGED <<tables, jour, marquage>>

FauteStatutIgnore(d) ==            \* a loan returned before is returned again
  /\ tx[d].etape = "r_verrou"
  /\ ~EmpruntVerrouille(tx[d].emprunt)
  /\ emprunts[tx[d].emprunt] \notin {Absente, Effacee}
  /\ tx' = [tx EXCEPT ![d].etape = "r_penalite",
                      ![d].livre = emprunts[tx[d].emprunt].livre]
  /\ UNCHANGED <<tables, jour, marquage>>

VerrouillerEmprunt(d) ==
  /\ tx[d].etape = "r_verrou"
  /\ ~EmpruntVerrouille(tx[d].emprunt)
  /\ EstActif(tx[d].emprunt)
  /\ tx' = [tx EXCEPT ![d].etape = "r_penalite",
                      ![d].livre = emprunts[tx[d].emprunt].livre]
  /\ UNCHANGED <<tables, jour, marquage>>

FauteJourCompte(d) ==              \* the day the book is due is counted
  /\ tx[d].etape = "r_penalite"
  /\ tx' = [tx EXCEPT ![d].etape = "r_cloture",
                      ![d].penalite = Penalite(emprunts[tx[d].emprunt].prevue, jour + 1)]
  /\ UNCHANGED <<tables, jour, marquage>>

(* SELECT fn_calculer_penalite(?, CURRENT_DATE) *)
CalculerPenalite(d) ==
  /\ tx[d].etape = "r_penalite"
  /\ tx' = [tx EXCEPT ![d].etape = "r_cloture",
                      ![d].penalite = Penalite(emprunts[tx[d].emprunt].prevue, jour)]
  /\ UNCHANGED <<tables, jour, marquage>>

(* UPDATE emprunts SET statut = 'rendu', date_retour_effective = CURRENT_DATE *)
CloturerEmprunt(d) ==
  /\ tx[d].etape = "r_cloture"
  /\ tx' = [tx EXCEPT ![d].etape = "r_stock", ![d].effective = jour]
  /\ UNCHANGED <<tables, jour, marquage>>

FauteStockSansGarde(d) ==          \* neither trigger nor CHECK
  /\ tx[d].etape = "r_stock"
  /\ ~LivreVerrouille(tx[d].livre)
  /\ tx' = [tx EXCEPT ![d].etape = "r_commit"]
  /\ UNCHANGED <<tables, jour, marquage>>

(* UPDATE livres SET exemplaires_disponibles = exemplaires_disponibles + 1 *)
ReincrementerStock(d) ==
  /\ tx[d].etape = "r_stock"
  /\ ~LivreVerrouille(tx[d].livre)
  /\ dispo[tx[d].livre] + 1 <= total[tx[d].livre]
  /\ tx' = [tx EXCEPT ![d].etape = "r_commit"]
  /\ UNCHANGED <<tables, jour, marquage>>

ValiderRetour(d) ==
  /\ tx[d].etape = "r_commit"
  /\ emprunts' = [emprunts EXCEPT ![tx[d].emprunt].statut = "rendu",
                                  ![tx[d].emprunt].effective = tx[d].effective,
                                  ![tx[d].emprunt].penalite = tx[d].penalite]
  /\ dispo' = [dispo EXCEPT ![tx[d].livre] = @ + 1]
  /\ tx' = [LivreModifie(tx[d].livre) EXCEPT
              ![d] = [tx[d] EXCEPT !.etape = "lecture"]]
  /\ UNCHANGED <<total, fiche, compte, jour, marquage>>

-----------------------------------------------------------------------------
(* Ends common to both requests *)

(* SELECT @emprunt_uuid, @code, @message, then EmpruntRepository.ParUUID *)
RelireEmprunt(d) ==
  /\ tx[d].etape = "lecture"
  /\ Repondre(d, IF emprunts[tx[d].emprunt] = Effacee THEN "introuvable" ELSE "ok")
  /\ UNCHANGED <<tables, jour, marquage>>

(* After COMMIT: the reply of COMMIT or one of the reads is lost *)
PerdreResultat(d) ==
  /\ tx[d].etape = "lecture"
  /\ Repondre(d, "interne")
  /\ UNCHANGED <<tables, jour, marquage>>

(* Before COMMIT: deadlock victim, lock wait timeout, request abandoned,    *)
(* connection or server lost.  The transaction is rolled back.              *)
Annuler(d) ==
  /\ tx[d].etape \in EtapesEmprunt \cup EtapesRetour
  /\ Repondre(d, "interne")
  /\ UNCHANGED <<tables, jour, marquage>>

RecevoirReponse(d) ==
  /\ tx[d].etape = "repondue"
  /\ tx' = [tx EXCEPT ![d] = DemandeLibre]
  /\ UNCHANGED <<tables, jour, marquage>>

-----------------------------------------------------------------------------
(* The rest of the system, as far as circulation sees it *)

EnDepassement(e) == emprunts[e].statut = "en_cours" /\ emprunts[e].prevue < jour

(* ev_marquer_emprunts_en_retard: one UPDATE.  It reads CURRENT_DATE when it  *)
(* starts, locks the overdue rows one after the other, each as soon as its   *)
(* holder lets go, and commits.  Its rollback is left out: it would undo     *)
(* nothing that is visible and only release the locks.                       *)
SansMarquage == [date |-> Aucun, lignes |-> {}]
FauteUnJourDeTrop(e) == emprunts[e].statut = "en_cours" /\ emprunts[e].prevue + 1 < marquage.date

AMarquer(e)  == emprunts[e].statut = "en_cours" /\ emprunts[e].prevue < marquage.date

LancerMarquage ==
  /\ marquage = SansMarquage
  /\ \E e \in Lignes : EnDepassement(e)
  /\ marquage' = [date |-> jour, lignes |-> {}]
  /\ UNCHANGED <<tables, jour, tx>>

FauteMarquageSansVerrou(e) ==      \* rows chosen by a plain read
  /\ marquage # SansMarquage
  /\ AMarquer(e)
  /\ marquage' = [marquage EXCEPT !.lignes = @ \cup {e}]
  /\ UNCHANGED <<tables, jour, tx>>

VerrouillerRetard(e) ==
  /\ marquage # SansMarquage
  /\ AMarquer(e)
  /\ ~EmpruntVerrouille(e)
  /\ marquage' = [marquage EXCEPT !.lignes = @ \cup {e}]
  /\ UNCHANGED <<tables, jour, tx>>

ValiderMarquage ==
  /\ marquage # SansMarquage
  /\ \A e \in Lignes : AMarquer(e) => e \in marquage.lignes
  /\ emprunts' = [e \in Lignes |->
                    IF e \in marquage.lignes
                    THEN [emprunts[e] EXCEPT !.statut = "en_retard"]
                    ELSE emprunts[e]]
  /\ marquage' = SansMarquage
  /\ UNCHANGED <<stock, fiche, compte, jour, tx>>

JourSuivant ==
  /\ jour < MaxJour
  /\ jour' = jour + 1
  /\ UNCHANGED <<tables, marquage, tx>>

(* PATCH /utilisateurs/{id} writes actif; DELETE writes supprime_le too *)
ChangerCompte(u) ==
  /\ compte[u] # "efface"
  /\ \E c \in {"actif", "inactif"} \ {compte[u]} : compte' = [compte EXCEPT ![u] = c]
  /\ UNCHANGED <<stock, fiche, emprunts, jour, marquage, tx>>

(* LivreRepository.SupprimerLogique *)
RetirerLivre(l) ==
  /\ fiche[l] = "present"
  /\ ~LivreVerrouille(l)
  /\ fiche' = [fiche EXCEPT ![l] = "retire"]
  /\ tx' = LivreModifie(l)
  /\ UNCHANGED <<stock, compte, emprunts, jour, marquage>>

-----------------------------------------------------------------------------

SansCirculation ==
  /\ compte = [u \in Membres |-> "actif"]
  /\ emprunts = [e \in Lignes |-> Absente]
  /\ jour = 0
  /\ marquage = SansMarquage
  /\ tx = [d \in Demandes |-> DemandeLibre]

Init ==
  /\ total \in [Livres -> StocksInitiaux]
  /\ dispo = total
  /\ fiche = [l \in Livres |-> "present"]
  /\ SansCirculation

NouvelleDemande(d) ==
  \/ \E u \in Membres, l \in Livres, n \in DureesDemandees :
       RefuserDuree(d, u, l, n) \/ RefuserMembre(d, u, l, n) \/ OuvrirEmprunt(d, u, l, n)
  \/ \E e \in Lignes : DemanderRetour(d, e)

EtapeEmprunt(d) ==
  \/ RefuserVuePerimee(d) \/ RefuserLivre(d) \/ RefuserConflit(d)
  \/ VerrouillerLivre(d) \/ EnregistrerEmprunt(d)

EtapeRetour(d) ==
  \/ RefuserEmpruntInconnu(d) \/ RefuserDejaRendu(d) \/ VerrouillerEmprunt(d)
  \/ CalculerPenalite(d) \/ CloturerEmprunt(d)
  \/ ReincrementerStock(d) \/ ValiderRetour(d)

Achevement(d) == RelireEmprunt(d) \/ PerdreResultat(d) \/ RecevoirReponse(d)

Next ==
  \/ \E d \in Demandes :
       NouvelleDemande(d) \/ EtapeEmprunt(d) \/ EtapeRetour(d) \/ Achevement(d) \/ Annuler(d)
  \/ LancerMarquage \/ (\E e \in Lignes : VerrouillerRetard(e)) \/ ValiderMarquage
  \/ JourSuivant
  \/ \E u \in Membres : ChangerCompte(u)
  \/ \E l \in Livres : RetirerLivre(l)

Spec == Init /\ [][Next]_vars

(* A request that has begun runs on: its goroutine is scheduled, the server  *)
(* executes its statements, and InnoDB serves a row lock to those who wait   *)
(* for it.  The event scheduler runs its event every day, and the event's    *)
(* UPDATE is granted its row locks in the same way.  Nothing makes a client  *)
(* send a request, a transaction be cancelled or a day pass.  Archivage      *)
(* states its specification with it.                                         *)
Equite ==
  /\ \A d \in Demandes : /\ SF_vars(EtapeEmprunt(d))
                         /\ SF_vars(EtapeRetour(d))
                         /\ WF_vars(Achevement(d))
  /\ \A e \in Lignes : SF_vars(VerrouillerRetard(e))
  /\ WF_vars(LancerMarquage) /\ WF_vars(ValiderMarquage)

-----------------------------------------------------------------------------
(* Properties *)

(* Every variable keeps its type, and a loan keeps its row's shape. *)
TypeOK ==
  /\ total \in [Livres -> Nat]
  /\ dispo \in [Livres -> Nat]
  /\ fiche \in [Livres -> {"present", "retire", "efface"}]
  /\ compte \in [Membres -> {"actif", "inactif", "efface"}]
  /\ emprunts \in [Lignes -> LigneEmprunt \cup {Absente, Effacee}]
  /\ jour \in Nat
  /\ marquage \in [date: Nat \cup {Aucun}, lignes: SUBSET Lignes]
  /\ tx \in [Demandes -> Demande]

(* The counter exemplaires_disponibles, updated by +1 and -1 in two kinds of *)
(* transactions, always equals the copies owned minus the loans not returned *)
(* (sql/data/09_seed.sql, and what ajusterStock takes it to be).             *)
Conservation ==
  \A l \in Livres : dispo[l] + Cardinality(ActifsDuLivre(l)) = total[l]

(* The return of an active loan is never refused by trg_livres_avant_update: *)
(* whoever reaches the update of the stock finds room for one copy.          *)
RetourJamaisRefuse ==
  \A d \in Demandes :
    tx[d].etape \in {"r_stock", "r_commit"} => dispo[tx[d].livre] < total[tx[d].livre]

(* A request that has committed and has not been told of a failure *)
Acquise(d) == tx[d].etape = "lecture" \/ (tx[d].etape = "repondue" /\ tx[d].reponse = "ok")
RetourValide(d) == tx[d].sorte = "retour" /\ Acquise(d)

(* Two concurrent returns of a loan never both succeed ("anti double-retour  *)
(* concurrent": the FOR UPDATE on emprunts and the test of statut).          *)
RetourUnique ==
  \A d, f \in Demandes :
    RetourValide(d) /\ RetourValide(f) /\ tx[d].emprunt = tx[f].emprunt => d = f

(* What a reply says is true of the tables when it is sent and stays true: a *)
(* loan acknowledged is on record for that member and that book, a refusal   *)
(* left no loan behind, a return acknowledged or refused as already done is  *)
(* recorded.  Only the reply "interne" says nothing.                         *)
ReponseVeridique ==
  \A d \in Demandes :
    tx[d].etape = "repondue" =>
      /\ tx[d].sorte = "emprunt" /\ tx[d].reponse = "ok" =>
           /\ emprunts[tx[d].emprunt] \in LigneEmprunt
           /\ emprunts[tx[d].emprunt].utilisateur = tx[d].utilisateur
           /\ emprunts[tx[d].emprunt].livre = tx[d].livre
      /\ tx[d].sorte = "emprunt" /\ tx[d].reponse \in {"introuvable", "conflit"} =>
           tx[d].emprunt = Aucun
      /\ tx[d].sorte = "retour" /\ tx[d].reponse \in {"ok", "conflit"} =>
           emprunts[tx[d].emprunt].statut = "rendu"

(* The quota is counted in a read view and only the book is locked: a member *)
(* can exceed it, but by no more than the requests that run beside one.      *)
DepassementBorne ==
  \A u \in Membres :
    Cardinality(ActifsDuMembre(u)) <= Quota + Cardinality(Demandes) - 1

(* The quota as documented: at most v_quota_max loans at a time.  Two        *)
(* requests of one member for two books break it.                            *)
QuotaRespecte ==
  \A u \in Membres : Cardinality(ActifsDuMembre(u)) <= Quota

(* Midnight may fall between the penalty's computation and the UPDATE that   *)
(* dates the return: a member may then be charged a day less, never a day    *)
(* more than the dates on record justify.                                    *)
PenaliteJamaisExcessive ==
  \A e \in Lignes : emprunts[e].statut = "rendu" =>
    emprunts[e].penalite <= Penalite(emprunts[e].prevue, emprunts[e].effective)

(* A loan that is closed is never rewritten, whatever late return, event or  *)
(* cancelled transaction runs, until the archive event removes it; an active *)
(* one keeps member, book and date.                                          *)
HistoriqueFige ==
  [][\A e \in Lignes :
       /\ emprunts[e].statut = "rendu" => emprunts'[e] \in {emprunts[e], Effacee}
       /\ EstActif(e) => /\ emprunts'[e].utilisateur = emprunts[e].utilisateur
                         /\ emprunts'[e].livre = emprunts[e].livre
                         /\ emprunts'[e].prevue = emprunts[e].prevue]_vars

(* An overdue loan does not stay "en_cours", however many returns of it are  *)
(* tried and cancelled.                                                      *)
RetardConstate ==
  \A e \in Lignes : EnDepassement(e) ~> ~EnDepassement(e)

(* Circulation implements the abstract library of Prets: the counter, the    *)
(* locks and the read views allow no loan that Prets forbids, at the quota   *)
(* DepassementBorne grants.                                                  *)
PretVu(e) ==
  IF emprunts[e] \in {Absente, Effacee}
  THEN [etat |-> "jamais"]
  ELSE [etat |-> IF EstActif(e) THEN "dehors" ELSE "rendu",
        membre |-> emprunts[e].utilisateur, livre |-> emprunts[e].livre]

P == INSTANCE Prets WITH
       Plafond   <- Quota + Cardinality(Demandes) - 1,
       catalogue <- {l \in Livres : fiche[l] = "present"},
       prets     <- [e \in Lignes |-> PretVu(e)]

RealisePrets == P!Spec

-----------------------------------------------------------------------------
(* The inductive invariant behind the theorems of Emprunts_proofs *)

EtapesTenues == EtapesRetour \ {"r_verrou"}

(* What the request of a given stage has already established *)
DemandeCoherente(d) ==
  /\ tx[d].etape \in EtapesEmprunt =>
       /\ tx[d].sorte = "emprunt" /\ tx[d].emprunt = Aucun
       /\ tx[d].utilisateur \in Membres /\ tx[d].livre \in Livres
       /\ tx[d].nbActifs <= Quota - 1 \/ tx[d].etape = "e_verrou"
  /\ tx[d].etape \in EtapesRetour => tx[d].sorte = "retour" /\ tx[d].emprunt \in Lignes
  /\ tx[d].etape = "lecture" => tx[d].emprunt \in Lignes
  /\ tx[d].etape = "e_ecriture" => dispo[tx[d].livre] > 0 /\ fiche[tx[d].livre] = "present"
  /\ tx[d].etape \in EtapesTenues =>
       EstActif(tx[d].emprunt) /\ emprunts[tx[d].emprunt].livre = tx[d].livre

VerrousExclusifs ==
  /\ \A d, f \in Demandes, l \in Livres : TientLivre(d, l) /\ TientLivre(f, l) => d = f
  /\ \A d, f \in Demandes, e \in Lignes : TientEmprunt(d, e) /\ TientEmprunt(f, e) => d = f
  /\ \A d \in Demandes, e \in marquage.lignes : ~TientEmprunt(d, e)
  /\ \A e \in marquage.lignes : emprunts[e].statut = "en_cours"

(* The requests that hold a read view in which u is below the quota *)
EnInstance(u) ==
  {d \in Demandes : tx[d].etape \in EtapesEmprunt /\ tx[d].utilisateur = u
                      /\ tx[d].nbActifs < Quota}

DepassementPrevu ==
  \A u \in Membres :
    Cardinality(ActifsDuMembre(u)) + Cardinality(EnInstance(u))
      <= Quota + Cardinality(Demandes) - 1

(* What holds whatever is written to the stock: Catalogue has it too *)
Socle ==
  /\ TypeOK
  /\ \A d \in Demandes : DemandeCoherente(d)
  /\ VerrousExclusifs

Invariant == Socle /\ Conservation /\ DepassementPrevu

(* The penalty a return carries is justified by the date it will record, or  *)
(* today while it has none; so are those on record.                          *)
PenaliteCoherente(d) ==
  /\ tx[d].etape = "r_cloture" =>
       tx[d].penalite <= Penalite(emprunts[tx[d].emprunt].prevue, jour)
  /\ tx[d].etape \in {"r_stock", "r_commit"} =>
       /\ tx[d].effective \in Nat
       /\ tx[d].penalite <= Penalite(emprunts[tx[d].emprunt].prevue, tx[d].effective)

PenalitesJustes ==
  /\ \A d \in Demandes : PenaliteCoherente(d)
  /\ \A e \in Lignes : emprunts[e].statut = "rendu" =>
       /\ emprunts[e].effective \in Nat
       /\ emprunts[e].penalite <= Penalite(emprunts[e].prevue, emprunts[e].effective)

(* What the tables say of a request that has committed or been answered *)
ReponseCoherente(d) ==
  /\ tx[d].etape # "repondue" => tx[d].reponse = Aucun
  /\ Acquise(d) =>
       /\ tx[d].sorte \in {"emprunt", "retour"} /\ tx[d].emprunt \in Lignes
       /\ tx[d].sorte = "emprunt" =>
            /\ emprunts[tx[d].emprunt] \in LigneEmprunt
            /\ emprunts[tx[d].emprunt].utilisateur = tx[d].utilisateur
            /\ emprunts[tx[d].emprunt].livre = tx[d].livre
       /\ tx[d].sorte = "retour" => emprunts[tx[d].emprunt].statut = "rendu"
  /\ tx[d].etape = "repondue" /\ tx[d].sorte = "retour" /\ tx[d].reponse = "conflit" =>
       tx[d].emprunt \in Lignes /\ emprunts[tx[d].emprunt].statut = "rendu"
  /\ tx[d].etape = "repondue" /\ tx[d].sorte = "emprunt" /\ tx[d].reponse \in {"introuvable", "conflit"} =>
       tx[d].emprunt = Aucun

InvariantComplet ==
  /\ Invariant
  /\ PenalitesJustes
  /\ \A d \in Demandes : ReponseCoherente(d)
  /\ RetourUnique

=============================================================================
