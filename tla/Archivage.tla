----------------------------- MODULE Archivage ------------------------------
(***************************************************************************)
(* The daily event ev_archiver_emprunts_anciens beside circulation.  Its   *)
(* body is an INSERT and a DELETE without a transaction: each commits on   *)
(* its own and reads CURRENT_DATE on its own, and the event ends at the    *)
(* first statement that fails.                                             *)
(***************************************************************************)
EXTENDS Emprunts

CONSTANT DelaiArchive     \* INTERVAL 1 YEAR

ASSUME DelaiNaturel == DelaiArchive \in Nat

VARIABLES
  archive,      \* rows of emprunts_archive, by the identifier of the loan
  archivage,    \* where the event is in its body
  copie         \* history: day of the INSERT whose DELETE is to come, loans then closed

varsArchivage == <<vars, archive, archivage, copie>>

-----------------------------------------------------------------------------

Rendus == {e \in Lignes : emprunts[e].statut = "rendu"}
SansCopie == [jour |-> 0, rendus |-> {}]

FauteDatePrevue ==                 \* the due date for the return, statut forgotten
  {e \in Lignes : emprunts[e] \notin {Absente, Effacee}
                    /\ emprunts[e].prevue + DelaiArchive < jour}

(* statut = 'rendu' AND date_retour_effective < CURRENT_DATE - 1 YEAR *)
Anciens ==
  {e \in Rendus : emprunts[e].effective + DelaiArchive < jour}

(* INSERT INTO emprunts_archive SELECT ... FROM emprunts *)
CopierAnciens ==
  /\ archivage = "repos"
  /\ \A e \in Anciens : archive[e] = Absente
  /\ archive' = [e \in Lignes |-> IF e \in Anciens THEN emprunts[e] ELSE archive[e]]
  /\ archivage' = "suppression"
  /\ copie' = [jour |-> jour, rendus |-> Rendus]
  /\ UNCHANGED vars

(* PRIMARY KEY (id): nothing is copied and the event ends *)
RefuserDoublonArchive ==
  /\ archivage = "repos"
  /\ \E e \in Anciens : archive[e] # Absente
  /\ UNCHANGED varsArchivage

(* DELETE FROM emprunts, which trg_emprunts_avant_delete lets through *)
SupprimerAnciens ==
  /\ archivage = "suppression"
  /\ \A e \in Anciens : ~EmpruntVerrouille(e)
  /\ emprunts' = [e \in Lignes |-> IF e \in Anciens THEN Effacee ELSE emprunts[e]]
  /\ archivage' = "repos"
  /\ copie' = SansCopie
  /\ UNCHANGED <<total, dispo, fiche, compte, jour, marquage, tx, archive>>

(* The DELETE fails (lock wait timeout, deadlock victim) or the server stops *)
AbandonnerSuppression ==
  /\ archivage = "suppression"
  /\ archivage' = "repos"
  /\ copie' = SansCopie
  /\ UNCHANGED <<vars, archive>>

-----------------------------------------------------------------------------

InitArchivage ==
  /\ Init
  /\ archive = [e \in Lignes |-> Absente]
  /\ archivage = "repos"
  /\ copie = SansCopie

NextArchivage ==
  \/ Next /\ UNCHANGED <<archive, archivage, copie>>
  \/ CopierAnciens \/ RefuserDoublonArchive \/ SupprimerAnciens \/ AbandonnerSuppression

SpecArchivage == InitArchivage /\ [][NextArchivage]_varsArchivage

(* The scheduler runs the event every day, and once running it goes on.      *)
SpecArchivageEquitable ==
  /\ SpecArchivage
  /\ Equite
  /\ WF_varsArchivage(CopierAnciens)
  /\ SF_varsArchivage(SupprimerAnciens)

-----------------------------------------------------------------------------
(* Properties *)

(* Every variable keeps its type: no active loan is ever archived.           *)
TypeArchivage ==
  /\ TypeOK
  /\ archive \in [Lignes -> {x \in LigneEmprunt : x.statut = "rendu"} \cup {Absente}]
  /\ archivage \in {"repos", "suppression"}
  /\ copie \in [jour: 0..jour, rendus: SUBSET Lignes]

(* The table of loans never says anything else of an archived loan than the  *)
(* archive does ("des donnees historiques figees").                          *)
ArchiveFidele ==
  \A e \in Lignes : archive[e] # Absente => emprunts[e] \in {archive[e], Effacee}

(* The DELETE of the archive event loses a loan, that is removes it without  *)
(* a copy, only when a midnight since the INSERT made it old or a return of  *)
(* it was committed since: no loan that was closed and old when the copies   *)
(* were made leaves the library without a trace ("tout en conservant         *)
(* l'historique").                                                           *)
PerteDeMinuit ==
  [][\A e \in copie.rendus :
       emprunts[e] # Effacee /\ emprunts'[e] = Effacee /\ archive[e] = Absente
       => emprunts[e].effective + DelaiArchive \in copie.jour..(jour - 1)]_varsArchivage

(* An old loan is moved one day, although the event may fail before.         *)
ArchivageAboutit == \A e \in Lignes : e \in Anciens ~> emprunts[e] = Effacee

-----------------------------------------------------------------------------
(* The inductive invariant behind the theorems of Archivage_proofs *)

(* What the INSERT has seen: a loan closed then that it did not copy was not *)
(* old that day.                                                             *)
CopieCoherente ==
  /\ archivage = "repos" => copie = SansCopie
  /\ \A e \in copie.rendus : emprunts[e] # Effacee =>
       /\ emprunts[e].statut = "rendu"
       /\ archive[e] = Absente => emprunts[e].effective + DelaiArchive >= copie.jour

InvariantArchivage ==
  /\ TypeArchivage
  /\ Invariant
  /\ PenalitesJustes
  /\ ArchiveFidele
  /\ CopieCoherente

=============================================================================
