----------------------------- MODULE Referentiel ----------------------------
(***************************************************************************)
(* Authors and categories, the reference data of the catalogue, and the    *)
(* paged lists.  Rows are created, rewritten (PUT and PATCH read the row   *)
(* in one statement and write it whole in another) and deleted, while a    *)
(* client reads a table page by page: a count, then the page itself, are   *)
(* two statements of each of its requests.                                 *)
(* A name stands for its rank in the collation of the column, `detail' for *)
(* the other columns.  Which rows books refer to, and so which deletions   *)
(* the foreign keys refuse, is the subject of Catalogue: here a deletion   *)
(* may succeed at any time.                                                *)
(***************************************************************************)
EXTENDS Integers, FiniteSets, SequencesExt

CONSTANTS
  Auteurs, Categories,     \* rows the two tables may hold; a UUID is used once
  Requetes,                \* POST, PUT, PATCH and DELETE served at the same time
  Noms,                    \* names, by rank
  Details,
  TaillesDemandees,        \* ?taille=, 0 for one that is absent or not a number
  TailleParDefaut, TailleMax,
  Aucun

Fiches == Auteurs \cup Categories

ASSUME FichesFinies     == IsFiniteSet(Fiches) /\ Auteurs \cap Categories = {}
ASSUME NomsOrdonnes     == Noms \subseteq Nat
ASSUME TaillesEntieres  == TaillesDemandees \subseteq Int
ASSUME TaillesCorrectes == TailleMax \in Nat /\ TailleParDefaut \in 1 .. TailleMax

Reponses == {"ok", "introuvable", "invalide", "conflit", "interne"}

ASSUME AucunNiFiche     == Aucun \notin Fiches \cup Noms \cup Details /\ Aucun \notin Reponses

VARIABLES
  fiches,     \* the rows of auteurs and categories
  req,        \* what each request is doing
  parcours,   \* the client that reads a table page by page
  temoin      \* history: what happened to that table since it began

vars == <<fiches, req, parcours, temoin>>

-----------------------------------------------------------------------------

Contenu == [nom: Noms, detail: Details]
Vierge  == [nom |-> Aucun, detail |-> "jamais"]
Effacee == [nom |-> Aucun, detail |-> "efface"]
EnLigne(f) == fiches[f] \notin {Vierge, Effacee}
LignesDe(table) == {f \in table : EnLigne(f)}

(* uq_categories_nom; two authors may have one name *)
FauteSoiMeme(f, n) == \E g \in Categories : EnLigne(g) /\ fiches[g].nom = n
NomPris(f, n) == f \in Categories /\ \E g \in Categories \ {f} : EnLigne(g) /\ fiches[g].nom = n

RequeteLibre ==
  [etape |-> "libre", fiche |-> Aucun, valeur |-> Aucun, nomEnvoye |-> FALSE, reponse |-> Aucun]
Requete ==
  [etape: {"libre", "ecriture"}, fiche: Fiches \cup {Aucun},
   valeur: Contenu \cup {Aucun},          \* the struct that will be written
   nomEnvoye: BOOLEAN, reponse: Reponses \cup {Aucun}]    \* the last reply
Repondre(r, x) == req' = [req EXCEPT ![r] = [RequeteLibre EXCEPT !.reponse = x]]

(* What the history keeps of a change of the rows *)
Renommee(f) == EnLigne(f) /\ EnLigne(f)' /\ fiches'[f].nom # fiches[f].nom
Entree(f)   == EnLigne(f)' /\ ~EnLigne(f)
Sortie(f)   == EnLigne(f) /\ ~EnLigne(f)'
Noter ==
  temoin' = IF parcours.etape \in {"libre", "fini"} THEN temoin ELSE
    LET T == parcours.table
    IN  [stables |-> {f \in temoin.stables : EnLigne(f)' /\ ~Renommee(f)},
         ajout   |-> temoin.ajout   \/ \E f \in T : Entree(f) \/ Renommee(f),
         retrait |-> temoin.retrait \/ \E f \in T : Sortie(f) \/ Renommee(f)]

-----------------------------------------------------------------------------
(* POST /auteurs, POST /categories: one INSERT *)

Inserer(f, v) ==
  /\ fiches[f] = Vierge
  /\ fiches' = [fiches EXCEPT ![f] = v]
  /\ Noter
  /\ UNCHANGED <<req, parcours>>

CreerAuteur(a, v) == a \in Auteurs /\ Inserer(a, v)
CreerCategorie(k, v) == k \in Categories /\ ~NomPris(k, v.nom) /\ Inserer(k, v)

-----------------------------------------------------------------------------
(* PUT and PATCH /auteurs/{id}, /categories/{id} *)

(* The struct read, then changed: a PUT sends both, a PATCH may leave a      *)
(* column out and then keeps the one it has read.                            *)
Composee(lue, n, d) ==
  [nom |-> IF n = Aucun THEN lue.nom ELSE n, detail |-> IF d = Aucun THEN lue.detail ELSE d]

LireFiche(r, f, n, d) ==
  /\ req[r].etape = "libre"
  /\ EnLigne(f)
  /\ req' = [req EXCEPT ![r] =
               [etape |-> "ecriture", fiche |-> f, valeur |-> Composee(fiches[f], n, d),
                nomEnvoye |-> n # Aucun, reponse |-> Aucun]]
  /\ UNCHANGED <<fiches, parcours, temoin>>

RefuserFiche(r, f) ==              \* not found; validated after it was read
  /\ req[r].etape = "libre"
  /\ \/ ~EnLigne(f) /\ Repondre(r, "introuvable")
     \/ EnLigne(f)  /\ Repondre(r, "invalide")
  /\ UNCHANGED <<fiches, parcours, temoin>>

FauteInsereOuEcrit(r) ==           \* INSERT ... ON DUPLICATE KEY UPDATE
  /\ req[r].etape = "ecriture"
  /\ fiches[req[r].fiche] # req[r].valeur
  /\ ~NomPris(req[r].fiche, req[r].valeur.nom)
  /\ fiches' = [fiches EXCEPT ![req[r].fiche] = req[r].valeur]
  /\ Noter
  /\ Repondre(r, "ok")
  /\ UNCHANGED parcours

EcrireFiche(r) ==                  \* UPDATE ... WHERE uuid = ?
  /\ req[r].etape = "ecriture"
  /\ EnLigne(req[r].fiche)
  /\ fiches[req[r].fiche] # req[r].valeur
  /\ ~NomPris(req[r].fiche, req[r].valeur.nom)
  /\ fiches' = [fiches EXCEPT ![req[r].fiche] = req[r].valeur]
  /\ Noter
  /\ Repondre(r, "ok")
  /\ UNCHANGED parcours

RefuserDoublon(r) ==
  /\ req[r].etape = "ecriture"
  /\ EnLigne(req[r].fiche)
  /\ NomPris(req[r].fiche, req[r].valeur.nom)
  /\ Repondre(r, "conflit")
  /\ UNCHANGED <<fiches, parcours, temoin>>

AucuneLigneAffectee(r) ==          \* gone, or already what is written
  /\ req[r].etape = "ecriture"
  /\ EnLigne(req[r].fiche) => fiches[req[r].fiche] = req[r].valeur
  /\ Repondre(r, "introuvable")
  /\ UNCHANGED <<fiches, parcours, temoin>>

PerdreRequete(r) ==
  /\ req[r].etape = "ecriture"
  /\ Repondre(r, "interne")
  /\ UNCHANGED <<fiches, parcours, temoin>>

(* DELETE, one statement *)
SupprimerFiche(f) ==
  /\ EnLigne(f)
  /\ fiches' = [fiches EXCEPT ![f] = Effacee]
  /\ Noter
  /\ UNCHANGED <<req, parcours>>

-----------------------------------------------------------------------------
(* GET /auteurs and /categories *)

FauteSansPlafond(t) == IF t < 1 THEN TailleParDefaut ELSE t
Normalisee(t) ==                   \* Normaliser
  IF t < 1 THEN TailleParDefaut ELSE IF t > TailleMax THEN TailleMax ELSE t

FauteDecalage(page, taille) == page * taille
Offset(page, taille) == (page - 1) * taille

(* ORDER BY nom, in which rows of one name come in any order *)
FauteSansTri(table) == SetToSeqs(LignesDe(table))
Classements(table) ==
  {s \in SetToSeqs(LignesDe(table)) :
     \A i, j \in DOMAIN s : i < j => fiches[s[i]].nom <= fiches[s[j]].nom}

(* LIMIT and OFFSET *)
Fenetre(s) ==
  LET debut == Offset(parcours.page, parcours.taille)
  IN  {s[i] : i \in (debut + 1 .. debut + parcours.taille) \cap DOMAIN s}

ParcoursLibre ==
  [etape |-> "libre", table |-> {}, taille |-> 1, page |-> 1, vus |-> {}, doublon |-> FALSE]
Parcours ==
  [etape: {"libre", "comptage", "selection", "fini"}, table: {{}, Auteurs, Categories},
   taille: 1 .. TailleMax, page: 1 .. Cardinality(Fiches) + 1,
   vus: SUBSET Fiches, doublon: BOOLEAN]      \* rows shown; was one shown twice?

(* The client asks for page 1, and for the next one for as long as the page  *)
(* it gets is as long as meta.taille_par_page says.                          *)
DemanderListe(table, t) ==
  /\ parcours.etape \in {"libre", "fini"}
  /\ parcours' = [ParcoursLibre EXCEPT !.etape = "comptage", !.table = table,
                                       !.taille = Normalisee(t)]
  /\ temoin' = [stables |-> LignesDe(table), ajout |-> FALSE, retrait |-> FALSE]
  /\ UNCHANGED <<fiches, req>>

CompterLignes ==                   \* SELECT COUNT(*); nothing more when it is 0
  /\ parcours.etape = "comptage"
  /\ parcours' = [parcours EXCEPT !.etape =
                    IF LignesDe(parcours.table) = {} THEN "fini" ELSE "selection"]
  /\ UNCHANGED <<fiches, req, temoin>>

LirePage ==
  /\ parcours.etape = "selection"
  /\ \E s \in Classements(parcours.table) :
       LET vues   == Fenetre(s)
           pleine == Cardinality(vues) = parcours.taille
       IN  parcours' = [parcours EXCEPT
             !.etape   = IF pleine THEN "comptage" ELSE "fini",
             !.page    = IF pleine THEN @ + 1 ELSE @,
             !.vus     = @ \cup vues,
             !.doublon = @ \/ vues \cap parcours.vus # {}]
  /\ UNCHANGED <<fiches, req, temoin>>

EchouerPage ==
  /\ parcours.etape \in {"comptage", "selection"}
  /\ parcours' = ParcoursLibre
  /\ temoin' = [stables |-> {}, ajout |-> FALSE, retrait |-> FALSE]
  /\ UNCHANGED <<fiches, req>>

-----------------------------------------------------------------------------

Init ==
  /\ fiches = [f \in Fiches |-> Vierge]
  /\ req = [r \in Requetes |-> RequeteLibre]
  /\ parcours = ParcoursLibre
  /\ temoin = [stables |-> {}, ajout |-> FALSE, retrait |-> FALSE]

Creation ==
  \E v \in Contenu : \/ \E a \in Auteurs : CreerAuteur(a, v)
                     \/ \E k \in Categories : CreerCategorie(k, v)

Edition(r) ==
  \/ \E f \in Fiches : RefuserFiche(r, f)
  \/ \E f \in Fiches, n \in Noms \cup {Aucun}, d \in Details \cup {Aucun} : LireFiche(r, f, n, d)
  \/ EcrireFiche(r) \/ RefuserDoublon(r) \/ AucuneLigneAffectee(r)
  \/ PerdreRequete(r)

Liste ==
  \/ \E table \in {Auteurs, Categories}, t \in TaillesDemandees : DemanderListe(table, t)
  \/ CompterLignes \/ LirePage \/ EchouerPage

Next ==
  \/ Creation
  \/ \E r \in Requetes : Edition(r)
  \/ \E f \in Fiches : SupprimerFiche(f)
  \/ Liste

Spec == Init /\ [][Next]_vars

-----------------------------------------------------------------------------
(* Properties *)

(* Every variable keeps its type. *)
TypeReferentiel ==
  /\ fiches \in [Fiches -> Contenu \cup {Vierge, Effacee}]
  /\ req \in [Requetes -> Requete]
  /\ parcours \in Parcours
  /\ temoin \in [stables: SUBSET Fiches, ajout: BOOLEAN, retrait: BOOLEAN]

(* "Une categorie porte deja ce nom" is answered to a PATCH that sends no    *)
(* name only when the category was renamed after the PATCH read it: the name *)
(* it writes back has gone to another category in the meantime.              *)
ConflitRenommage ==
  [][\A r \in Requetes :
       /\ req[r].etape = "ecriture" /\ ~req[r].nomEnvoye
       /\ req'[r].reponse = "conflit"
       => fiches[req[r].fiche].nom # req[r].valeur.nom]_vars

(* A row deleted while an edition of it is under way is not brought back by  *)
(* the edition, which is then not answered with success.                     *)
SuppressionRespectee ==
  [][\A f \in Fiches : fiches[f] = Effacee =>
       /\ fiches'[f] = Effacee
       /\ \A r \in Requetes : req[r].fiche = f /\ req[r].etape = "ecriture"
                                => req'[r].reponse # "ok"]_vars

(* A client that read the pages to the last has seen every category that was *)
(* there all the time, as long as none was deleted or renamed: creations     *)
(* shift the rows while it reads, between its requests and within them.      *)
ParcoursComplet ==
  parcours.etape = "fini" /\ parcours.table = Categories /\ ~temoin.retrait
    => temoin.stables \subseteq parcours.vus

(* Nor has it seen a category twice, as long as none was created or renamed, *)
(* whatever was deleted.                                                     *)
ParcoursSansDoublon ==
  parcours.table = Categories /\ ~temoin.ajout => ~parcours.doublon

-----------------------------------------------------------------------------
(* The inductive invariant behind the theorems of Referentiel_proofs *)

(* How many categories come before one in the order of the names *)
Rang(f) == Cardinality({g \in LignesDe(Categories) : fiches[g].nom < fiches[f].nom})

NomsUniques ==
  \A f, g \in LignesDe(Categories) : fiches[f].nom = fiches[g].nom => f = g

EditionsEnCours ==
  \A r \in Requetes : req[r].etape = "ecriture" =>
    /\ req[r].reponse = Aucun
    /\ req[r].fiche \in Fiches /\ req[r].valeur \in Contenu

EnLecture == parcours.etape \in {"comptage", "selection"}

(* Between two pages the rows that were shown and those that come before the *)
(* offset are the same, but for what the changes since the start have moved  *)
(* across it: insertions move rows down the list, deletions move them up.    *)
LuJusquIci ==
  EnLecture /\ parcours.table = Categories =>
    LET debut == Offset(parcours.page, parcours.taille)
    IN  /\ ~temoin.retrait => \A f \in temoin.stables : Rang(f) < debut => f \in parcours.vus
        /\ ~temoin.ajout => \A f \in parcours.vus \cap LignesDe(Categories) : Rang(f) < debut

StablesEnLigne == EnLecture => temoin.stables \subseteq LignesDe(parcours.table)

InvariantReferentiel ==
  /\ TypeReferentiel
  /\ NomsUniques
  /\ EditionsEnCours
  /\ StablesEnLigne
  /\ LuJusquIci
  /\ ParcoursComplet
  /\ ParcoursSansDoublon

=============================================================================
