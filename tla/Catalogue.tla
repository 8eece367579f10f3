------------------------------ MODULE Catalogue -----------------------------
(***************************************************************************)
(* The catalogue beside circulation: editors create, rewrite and delete    *)
(* books while loans and returns run, and administrators delete authors    *)
(* and members.  An edition (LivreService.MettreAJour for PUT, Modifier    *)
(* for PATCH) reads the book, resolves its author and rewrites the row in  *)
(* separate statements, each its own transaction; the columns other than   *)
(* the stock and auteur_id are not kept.                                   *)
(***************************************************************************)
EXTENDS Emprunts

CONSTANTS
  Editeurs,     \* editions served at the same time
  Auteurs,      \* rows of auteurs (a category is referenced in the same way)
  Inventaire,   \* books there from the start
  Totaux        \* values of nombre_exemplaires an editor may send

ASSUME EditeursFinis  == IsFiniteSet(Editeurs)
ASSUME InventaireConnu == Inventaire \subseteq Livres
ASSUME TotauxPositifs == Totaux \subseteq Nat \ {0}
ASSUME AucunNiAuteur  == Aucun \notin Auteurs \cup Totaux

VARIABLES
  auteur,    \* livres.auteur_id, Aucun for a book not created yet
  auteurs,   \* the rows of auteurs that exist
  edition    \* what each edition is doing

fonds    == <<auteur, auteurs>>
varsCatalogue == <<vars, auteur, auteurs, edition>>

EtapesEdition == {"resolution", "ecriture", "insertion", "relecture"}

EditionLibre ==
  [etape |-> "libre", livre |-> Aucun, total |-> 0, empruntes |-> 0,
   auteur |-> Aucun, reponse |-> Aucun]

Edition ==
  [etape: {"libre", "repondue"} \cup EtapesEdition, livre: Livres \cup {Aucun},
   total: Nat, empruntes: Nat,        \* the total to write, the copies lent when read
   auteur: Auteurs \cup {Aucun}, reponse: Reponses \cup {Aucun}]

Repond(l, r) ==
  [EditionLibre EXCEPT !.etape = "repondue", !.livre = l, !.reponse = r]
Conclure(c, r) == edition' = [edition EXCEPT ![c] = Repond(edition[c].livre, r)]

-----------------------------------------------------------------------------
(* PUT and PATCH /livres/{id} *)

(* ajusterStock: the copies lent when the book was read stay lent *)
Empruntes(l)        == total[l] - dispo[l]
FauteToutDisponible(c) == edition[c].total

Disponibles(c)      == edition[c].total - edition[c].empruntes
TotalInsuffisant(c) == edition[c].total < edition[c].empruntes

(* ParUUIDInterne.  A PUT (remplace) sends a total n and an author a; a      *)
(* PATCH may leave out either, and has its total checked at once.            *)
LireLivre(c, l, remplace, n, a) ==
  /\ edition[c].etape = "libre"
  /\ fiche[l] = "present"
  /\ IF remplace THEN n # Aucun /\ a # Aucun ELSE n # Aucun => n >= Empruntes(l)
  /\ edition' = [edition EXCEPT ![c] =
                   [etape     |-> IF a = Aucun THEN "ecriture" ELSE "resolution",
                    livre     |-> l,
                    total     |-> IF n = Aucun THEN total[l] ELSE n,
                    empruntes |-> Empruntes(l),
                    auteur    |-> IF a = Aucun THEN auteur[l] ELSE a,
                    reponse   |-> Aucun]]
  /\ UNCHANGED <<vars, fonds>>

RefuserEdition(c, l, n) ==
  /\ edition[c].etape = "libre"
  /\ \/ /\ fiche[l] # "present"
        /\ edition' = [edition EXCEPT ![c] = Repond(l, "introuvable")]
     \/ /\ fiche[l] = "present"           \* PATCH
        /\ n # Aucun /\ n < Empruntes(l)
        /\ edition' = [edition EXCEPT ![c] = Repond(l, "conflit")]
  /\ UNCHANGED <<vars, fonds>>

ResoudreAuteur(c) ==
  /\ edition[c].etape = "resolution"
  /\ edition[c].auteur \in auteurs
  /\ edition' = [edition EXCEPT ![c].etape = "ecriture"]
  /\ UNCHANGED <<vars, fonds>>

RefuserAuteur(c) ==
  /\ edition[c].etape = "resolution"
  /\ edition[c].auteur \notin auteurs
  /\ Conclure(c, "invalide")
  /\ UNCHANGED <<vars, fonds>>

RefuserTotal(c) ==                 \* PUT
  /\ edition[c].etape = "ecriture"
  /\ TotalInsuffisant(c)
  /\ Conclure(c, "conflit")
  /\ UNCHANGED <<vars, fonds>>

(* UPDATE livres ... WHERE uuid = ? AND supprime_le IS NULL *)
EcriturePossible(c) ==
  /\ edition[c].etape = "ecriture"
  /\ ~TotalInsuffisant(c)
  /\ ~LivreVerrouille(edition[c].livre)

FauteLivreRetireEcrit(c) ==        \* supprime_le IS NULL forgotten
  LET l == edition[c].livre
  IN  /\ EcriturePossible(c)
      /\ fiche[l] # "efface"
      /\ edition[c].auteur \in auteurs
      /\ total'  = [total  EXCEPT ![l] = edition[c].total]
      /\ dispo'  = [dispo  EXCEPT ![l] = Disponibles(c)]
      /\ auteur' = [auteur EXCEPT ![l] = edition[c].auteur]
      /\ tx' = LivreModifie(l)
      /\ edition' = [edition EXCEPT ![c].etape = "relecture"]
      /\ UNCHANGED <<fiche, compte, emprunts, jour, marquage, auteurs>>

EcrireLivre(c) ==
  LET l == edition[c].livre
  IN  /\ EcriturePossible(c)
      /\ fiche[l] = "present"
      /\ edition[c].auteur \in auteurs
      /\ total'  = [total  EXCEPT ![l] = edition[c].total]
      /\ dispo'  = [dispo  EXCEPT ![l] = Disponibles(c)]
      /\ auteur' = [auteur EXCEPT ![l] = edition[c].auteur]
      /\ tx' = LivreModifie(l)
      /\ edition' = [edition EXCEPT ![c].etape = "relecture"]
      /\ UNCHANGED <<fiche, compte, emprunts, jour, marquage, auteurs>>

(* No row matched, or the row matched already holds what is written: the    *)
(* driver counts the rows changed, and verifierLigneAffectee finds none.    *)
AucuneLigneAffectee(c) ==
  LET l == edition[c].livre
  IN  /\ EcriturePossible(c)
      /\ \/ fiche[l] # "present"
         \/ /\ total[l] = edition[c].total
            /\ dispo[l] = Disponibles(c)
            /\ auteur[l] = edition[c].auteur
      /\ Conclure(c, "introuvable")
      /\ UNCHANGED <<vars, fonds>>

RefuserAuteurSupprime(c) ==      \* foreign key: apperreur.Interne
  /\ EcriturePossible(c)
  /\ fiche[edition[c].livre] = "present"
  /\ edition[c].auteur \notin auteurs
  /\ Conclure(c, "interne")
  /\ UNCHANGED <<vars, fonds>>

-----------------------------------------------------------------------------
(* POST /livres *)

DemanderCreation(c, n, a) ==
  /\ edition[c].etape = "libre"
  /\ edition' = [edition EXCEPT ![c] =
                   IF a \in auteurs
                   THEN [EditionLibre EXCEPT !.etape = "insertion", !.total = n, !.auteur = a]
                   ELSE Repond(Aucun, "invalide")]
  /\ UNCHANGED <<vars, fonds>>

InsererLivre(c, l) ==
  /\ edition[c].etape = "insertion"
  /\ edition[c].auteur \in auteurs
  /\ auteur[l] = Aucun
  /\ total'  = [total  EXCEPT ![l] = edition[c].total]
  /\ dispo'  = [dispo  EXCEPT ![l] = edition[c].total]
  /\ fiche'  = [fiche  EXCEPT ![l] = "present"]
  /\ auteur' = [auteur EXCEPT ![l] = edition[c].auteur]
  /\ edition' = [edition EXCEPT ![c].etape = "relecture", ![c].livre = l]
  /\ UNCHANGED <<compte, emprunts, jour, marquage, tx, auteurs>>

RefuserInsertion(c) ==           \* foreign key
  /\ edition[c].etape = "insertion"
  /\ edition[c].auteur \notin auteurs
  /\ Conclure(c, "interne")
  /\ UNCHANGED <<vars, fonds>>

-----------------------------------------------------------------------------
(* Ends common to the editions *)

RefuserDoublon(c) ==             \* uq_livres_isbn; the ISBN is not modelled
  /\ \/ EcriturePossible(c) /\ fiche[edition[c].livre] = "present"
     \/ edition[c].etape = "insertion"
  /\ Conclure(c, "conflit")
  /\ UNCHANGED <<vars, fonds>>

RelireLivre(c) ==
  /\ edition[c].etape = "relecture"
  /\ Conclure(c, IF fiche[edition[c].livre] = "present" THEN "ok" ELSE "introuvable")
  /\ UNCHANGED <<vars, fonds>>

PerdreEdition(c) ==              \* a statement failed or its answer is lost
  /\ edition[c].etape \in EtapesEdition
  /\ Conclure(c, "interne")
  /\ UNCHANGED <<vars, fonds>>

RecevoirEdition(c) ==
  /\ edition[c].etape = "repondue"
  /\ edition' = [edition EXCEPT ![c] = EditionLibre]
  /\ UNCHANGED <<vars, fonds>>

-----------------------------------------------------------------------------
(* What deletions and rewritten stocks make possible in circulation *)

(* The foreign key refuses a loan of a deleted row of utilisateurs: code 99 *)
RefuserCleEtrangere(d) ==
  /\ tx[d].etape = "e_ecriture"
  /\ compte[tx[d].utilisateur] = "efface"
  /\ Repondre(d, "interne")
  /\ UNCHANGED <<tables, jour, marquage, fonds, edition>>

(* trg_livres_avant_update signals: apperreur.Interne and ROLLBACK *)
RefuserStockIncoherent(d) ==
  /\ tx[d].etape = "r_stock"
  /\ ~LivreVerrouille(tx[d].livre)
  /\ dispo[tx[d].livre] + 1 > total[tx[d].livre]
  /\ Repondre(d, "interne")
  /\ UNCHANGED <<tables, jour, marquage, fonds, edition>>

-----------------------------------------------------------------------------
(* Physical deletions, one DELETE each; a refused one changes nothing *)

EstLigne(e) == emprunts[e] \notin {Absente, Effacee}
EmpruntsDuLivre(l)  == {e \in Lignes : EstLigne(e) /\ emprunts[e].livre = l}
EmpruntsDuMembre(u) == {e \in Lignes : EstLigne(e) /\ emprunts[e].utilisateur = u}

FauteLivreSansVerrou(l) ==         \* the loan being recorded is not waited for
  /\ fiche[l] # "efface"
  /\ EmpruntsDuLivre(l) = {}
  /\ fiche' = [fiche EXCEPT ![l] = "efface"]
  /\ tx' = LivreModifie(l)
  /\ UNCHANGED <<stock, compte, emprunts, jour, marquage, fonds, edition>>

SupprimerLivre(l) ==             \* fk_emprunts_livre: ON DELETE RESTRICT
  /\ fiche[l] # "efface"
  /\ ~LivreVerrouille(l)
  /\ EmpruntsDuLivre(l) = {}
  /\ fiche' = [fiche EXCEPT ![l] = "efface"]
  /\ tx' = LivreModifie(l)
  /\ UNCHANGED <<stock, compte, emprunts, jour, marquage, fonds, edition>>

SupprimerMembre(u) ==            \* fk_emprunts_utilisateur: ON DELETE CASCADE
  /\ compte[u] # "efface"
  /\ \A e \in EmpruntsDuMembre(u) : ~EmpruntVerrouille(e)
  /\ compte' = [compte EXCEPT ![u] = "efface"]
  /\ emprunts' = [e \in Lignes |-> IF e \in EmpruntsDuMembre(u) THEN Effacee ELSE emprunts[e]]
  /\ UNCHANGED <<stock, fiche, jour, marquage, tx, fonds, edition>>

SupprimerAuteur(a) ==            \* fk_livres_auteur: ON DELETE RESTRICT
  /\ a \in auteurs
  /\ \A l \in Livres : auteur[l] = a => fiche[l] = "efface"
  /\ auteurs' = auteurs \ {a}
  /\ UNCHANGED <<vars, auteur, edition>>

-----------------------------------------------------------------------------

InitCatalogue ==
  /\ total \in [Livres -> StocksInitiaux]
  /\ dispo = total
  /\ fiche = [l \in Livres |-> IF l \in Inventaire THEN "present" ELSE "efface"]
  /\ auteur \in [Livres -> Auteurs \cup {Aucun}]
  /\ \A l \in Livres : auteur[l] = Aucun <=> l \notin Inventaire
  /\ auteurs = Auteurs
  /\ edition = [c \in Editeurs |-> EditionLibre]
  /\ SansCirculation

DebutEdition(c) ==
  \/ \E l \in Livres, remplace \in BOOLEAN, n \in Totaux \cup {Aucun}, a \in Auteurs \cup {Aucun} :
       LireLivre(c, l, remplace, n, a)
  \/ \E l \in Livres, n \in Totaux \cup {Aucun} : RefuserEdition(c, l, n)
  \/ \E n \in Totaux, a \in Auteurs : DemanderCreation(c, n, a)

SuiteEdition(c) ==
  \/ ResoudreAuteur(c) \/ RefuserAuteur(c) \/ RefuserTotal(c)
  \/ EcrireLivre(c) \/ AucuneLigneAffectee(c) \/ RefuserAuteurSupprime(c)
  \/ (\E l \in Livres : InsererLivre(c, l)) \/ RefuserInsertion(c) \/ RefuserDoublon(c)
  \/ RelireLivre(c) \/ PerdreEdition(c) \/ RecevoirEdition(c)

Suppression ==
  \/ \E l \in Livres : SupprimerLivre(l)
  \/ \E u \in Membres : SupprimerMembre(u)
  \/ \E a \in Auteurs : SupprimerAuteur(a)

NextCatalogue ==
  \/ Next /\ UNCHANGED <<fonds, edition>>
  \/ \E c \in Editeurs : DebutEdition(c) \/ SuiteEdition(c)
  \/ \E d \in Demandes : RefuserCleEtrangere(d) \/ RefuserStockIncoherent(d)
  \/ Suppression

SpecCatalogue == InitCatalogue /\ [][NextCatalogue]_varsCatalogue

-----------------------------------------------------------------------------
(* Properties *)

(* Every variable keeps its type. *)
TypeCatalogue ==
  /\ TypeOK
  /\ auteur \in [Livres -> Auteurs \cup {Aucun}]
  /\ auteurs \subseteq Auteurs
  /\ edition \in [Editeurs -> Edition]

(* chk_livres_stock: whatever editions, loans and returns write, over values *)
(* read long before, a book never has more copies in than it owns.           *)
StockBorne == \A l \in Livres : dispo[l] <= total[l]

(* The references of every row lead to a row: a book has its author, a loan  *)
(* its book and its member, although the parents are deleted by requests     *)
(* that run beside the one that checked them.                                *)
IntegriteReferentielle ==
  /\ \A l \in Livres : fiche[l] # "efface" => auteur[l] \in auteurs
  /\ \A e \in Lignes : EstLigne(e) => /\ fiche[emprunts[e].livre] # "efface"
                                      /\ compte[emprunts[e].utilisateur] # "efface"

(* A book withdrawn or deleted stays so, and an edition that read it before  *)
(* no longer changes it (WHERE supprime_le IS NULL).                         *)
RetraitRespecte ==
  [][\A l \in Livres : fiche[l] # "present" /\ auteur[l] # Aucun =>
       /\ fiche'[l] # "present"
       /\ total'[l] = total[l] /\ auteur'[l] = auteur[l]]_varsCatalogue

(* An edition during which nobody borrowed or returned the book leaves the   *)
(* number of copies lent as it was (ajusterStock).                           *)
AjustementPreserve ==
  [][\A c \in Editeurs :
       LET l == edition[c].livre
       IN  /\ edition[c].etape = "ecriture" /\ edition'[c].etape = "relecture"
           /\ edition[c].empruntes = Empruntes(l)
           => total'[l] - dispo'[l] = total[l] - dispo[l]]_varsCatalogue

(* The same of every edition ("en preservant le nombre d'exemplaires         *)
(* actuellement empruntes"): no loan or return that commits between its read *)
(* and its write is lost.                                                    *)
EditionPreserve ==
  [][\A c \in Editeurs :
       LET l == edition[c].livre
       IN  edition[c].etape = "ecriture" /\ edition'[c].etape = "relecture"
           => total'[l] - dispo'[l] = total[l] - dispo[l]]_varsCatalogue

(* The copies the stock says are lent and the loans on record drift apart in *)
(* two ways only: an edition that read the book before a loan or a return    *)
(* writes over it, or the deletion of a member takes active loans along.     *)
Ecart(l) == total[l] - dispo[l] - Cardinality(ActifsDuLivre(l))

EcritureDepassee(c, l) ==
  /\ edition[c].livre = l /\ edition[c].empruntes # Empruntes(l)
  /\ edition[c].etape = "ecriture" /\ edition'[c].etape = "relecture"

EmporteAvecMembre(e) ==
  compte[emprunts[e].utilisateur] # "efface" /\ compte'[emprunts[e].utilisateur] = "efface"

EcartExplique ==
  [][\A l \in Livres :
       auteur[l] # Aucun /\ Ecart(l)' # Ecart(l) =>
         \/ \E c \in Editeurs : EcritureDepassee(c, l)
         \/ \E e \in ActifsDuLivre(l) : EmporteAvecMembre(e)]_varsCatalogue

-----------------------------------------------------------------------------
(* The inductive invariant behind the theorems of Catalogue_proofs *)

(* Between the statement that has found room for a copy and its COMMIT the   *)
(* room stays; an edition under way has its book.                            *)
PlaceGardee ==
  \A d \in Demandes :
    tx[d].etape = "r_commit" => dispo[tx[d].livre] < total[tx[d].livre]
EditionsSituees ==
  \A c \in Editeurs :
    edition[c].etape \in {"resolution", "ecriture", "relecture"} => edition[c].livre \in Livres

InvariantCatalogue ==
  /\ TypeCatalogue
  /\ Socle
  /\ StockBorne
  /\ IntegriteReferentielle
  /\ PlaceGardee
  /\ EditionsSituees

=============================================================================
