-------------------------- MODULE Catalogue_proofs --------------------------
(***************************************************************************)
(* Proofs about Catalogue, for every set of books, authors, editions and   *)
(* requests: editions and deletions beside circulation.                    *)
(***************************************************************************)
EXTENDS Catalogue, Emprunts_proofs

-----------------------------------------------------------------------------
(* What a step of circulation does to the catalogue's rows *)

(* Circulation writes a stock only to lend or take back one copy.            *)
LEMMA StockEcrit ==
  ASSUME [Next]_vars
  PROVE  /\ UNCHANGED total
         /\ \/ UNCHANGED dispo
            \/ \E d \in Demandes : EnregistrerEmprunt(d) \/ ValiderRetour(d)
<1>1. ASSUME NEW d \in Demandes, PasDe(d)
      PROVE  UNCHANGED dispo \/ EnregistrerEmprunt(d) \/ ValiderRetour(d)
  <2>1. CASE NouvelleDemande(d)
    BY <2>1 DEF NouvelleDemande, RefuserDuree, RefuserMembre, OuvrirEmprunt, DemanderRetour, tables
  <2>2. CASE EtapeEmprunt(d)
    BY <2>2 DEF EtapeEmprunt, RefuserVuePerimee, RefuserLivre, RefuserConflit,
                VerrouillerLivre, tables
  <2>3. CASE EtapeRetour(d)
    BY <2>3 DEF EtapeRetour, RefuserEmpruntInconnu, RefuserDejaRendu, CalculerPenalite,
                VerrouillerEmprunt, CloturerEmprunt, ReincrementerStock, tables
  <2>4. CASE Achevement(d) \/ Annuler(d)
    BY <2>4 DEF Achevement, Annuler, RelireEmprunt, PerdreResultat, RecevoirReponse, tables
  <2>. QED
    BY <1>1, <2>1, <2>2, <2>3, <2>4 DEF PasDe
<1>2. CASE UNCHANGED vars
  BY <1>2 DEF vars
<1>3. CASE \/ LancerMarquage \/ (\E e \in Lignes : VerrouillerRetard(e)) \/ ValiderMarquage
           \/ JourSuivant \/ (\E u \in Membres : ChangerCompte(u))
           \/ \E l \in Livres : RetirerLivre(l)
  BY <1>3 DEF LancerMarquage, VerrouillerRetard, ValiderMarquage, JourSuivant, ChangerCompte,
              RetirerLivre, tables, stock
<1>4. UNCHANGED dispo \/ \E d \in Demandes : EnregistrerEmprunt(d) \/ ValiderRetour(d)
  BY <1>1, <1>2, <1>3 DEF Next, PasDe
<1>. QED
  BY <1>4, FondsInchange

(* Circulation never deletes a row of utilisateurs nor brings one back. *)
LEMMA ComptesEffaces ==
  ASSUME TypeOK, [Next]_vars, NEW u \in Membres
  PROVE  compte'[u] = "efface" <=> compte[u] = "efface"
<1>1. ASSUME NEW d \in Demandes, PasDe(d)
      PROVE  UNCHANGED compte
  <2>1. CASE NouvelleDemande(d)
    BY <2>1 DEF NouvelleDemande, RefuserDuree, RefuserMembre, OuvrirEmprunt, DemanderRetour, tables
  <2>2. CASE EtapeEmprunt(d)
    BY <2>2 DEF EtapeEmprunt, RefuserVuePerimee, RefuserLivre, RefuserConflit,
                VerrouillerLivre, EnregistrerEmprunt, tables
  <2>3. CASE EtapeRetour(d)
    BY <2>3 DEF EtapeRetour, RefuserEmpruntInconnu, RefuserDejaRendu, CalculerPenalite,
                VerrouillerEmprunt, CloturerEmprunt, ReincrementerStock, ValiderRetour, tables
  <2>4. CASE Achevement(d) \/ Annuler(d)
    BY <2>4 DEF Achevement, Annuler, RelireEmprunt, PerdreResultat, RecevoirReponse, tables
  <2>. QED
    BY <1>1, <2>1, <2>2, <2>3, <2>4 DEF PasDe
<1>2. CASE UNCHANGED vars
  BY <1>2 DEF vars
<1>3. CASE \/ LancerMarquage \/ (\E e \in Lignes : VerrouillerRetard(e)) \/ ValiderMarquage
           \/ JourSuivant \/ \E l \in Livres : RetirerLivre(l)
  BY <1>3 DEF LancerMarquage, VerrouillerRetard, ValiderMarquage, JourSuivant, RetirerLivre, tables
<1>4. CASE \E m \in Membres : ChangerCompte(m)
  BY <1>4 DEF ChangerCompte, TypeOK
<1>. QED
  BY <1>1, <1>2, <1>3, <1>4 DEF Next, PasDe

(* A row of emprunts is written by one loan, and keeps its parents.          *)
LEMMA ParentsGardes ==
  ASSUME Socle, [Next]_vars, NEW e \in Lignes, EstLigne(e)'
  PROVE  \/ /\ EstLigne(e)
            /\ emprunts'[e].livre = emprunts[e].livre
            /\ emprunts'[e].utilisateur = emprunts[e].utilisateur
         \/ \E d \in Demandes :
              /\ EnregistrerEmprunt(d)
              /\ emprunts'[e].livre = tx[d].livre
              /\ emprunts'[e].utilisateur = tx[d].utilisateur
<1>. USE DEF Socle
<1>1. ASSUME EstLigne(e)
      PROVE  /\ emprunts'[e].livre = emprunts[e].livre
             /\ emprunts'[e].utilisateur = emprunts[e].utilisateur
  <2>1. EstActif(e) \/ emprunts[e].statut = "rendu"
    BY <1>1 DEF EstLigne, TypeOK, LigneEmprunt, EstActif, StatutsActifs
  <2>. QED
    BY <2>1, LignesSuivantes DEF SuiteLigne
<1>2. ASSUME ~EstLigne(e)
      PROVE  \E d \in Demandes :
               /\ EnregistrerEmprunt(d)
               /\ emprunts'[e].livre = tx[d].livre
               /\ emprunts'[e].utilisateur = tx[d].utilisateur
  <2>0. ~EstActif(e) /\ emprunts[e].statut # "en_cours" /\ emprunts'[e] # emprunts[e]
    BY <1>2 DEF EstLigne, Absente, Effacee, EstActif, StatutsActifs
  <2>1. ASSUME NEW d \in Demandes, EnregistrerEmprunt(d)
        PROVE  /\ emprunts'[e].livre = tx[d].livre
               /\ emprunts'[e].utilisateur = tx[d].utilisateur
    <3>1. PICK g \in Lignes : emprunts' = [emprunts EXCEPT ![g] = NouvelEmprunt(d)]
      BY <2>1 DEF EnregistrerEmprunt
    <3>2. emprunts'[e] = NouvelEmprunt(d)
      BY <2>0, <3>1 DEF TypeOK
    <3>. QED
      BY <3>2 DEF NouvelEmprunt
  <2>2. ~ValiderMarquage
    BY <2>0 DEF ValiderMarquage, VerrousExclusifs
  <2>3. ASSUME NEW d \in Demandes, ValiderRetour(d)
        PROVE  FALSE
    <3>1. tx[d].emprunt \in Lignes /\ EstActif(tx[d].emprunt)
      BY <2>3, LigneTenue DEF ValiderRetour, EtapesTenues, EtapesRetour
    <3>. QED
      BY <2>0, <2>3, <3>1 DEF ValiderRetour, TypeOK
  <2>. QED
    BY <2>0, <2>1, <2>2, <2>3, LignesEcrites
<1>. QED
  BY <1>1, <1>2

-----------------------------------------------------------------------------
(* Circulation keeps what the catalogue needs *)

(* The book of a request that has reached r_commit is locked by it alone.    *)
LEMMA LivreDuRetour ==
  ASSUME Socle, NEW d \in Demandes, tx[d].etape = "r_commit"
  PROVE  /\ tx[d].livre \in Livres /\ TientLivre(d, tx[d].livre)
         /\ LivreVerrouille(tx[d].livre)
BY LigneTenue DEF TientLivre, LivreVerrouille, EtapesTenues, EtapesRetour

(* A copy is put back only where room was found for it. *)
LEMMA CirculationStock ==
  ASSUME Socle, StockBorne, PlaceGardee, [Next]_vars
  PROVE  StockBorne'
<1>. SUFFICES ASSUME NEW l \in Livres PROVE dispo'[l] <= total'[l]
  BY DEF StockBorne
<1>1. /\ dispo[l] \in Nat /\ total[l] \in Nat /\ dispo[l] <= total[l]
      /\ UNCHANGED total
  BY StockEcrit DEF StockBorne, Socle, TypeOK
<1>2. ASSUME NEW d \in Demandes, EnregistrerEmprunt(d)
      PROVE  dispo'[l] <= total[l]
  <2>1. dispo' = [dispo EXCEPT ![tx[d].livre] = @ - 1]
    BY <1>2 DEF EnregistrerEmprunt
  <2>. QED
    BY <2>1, <1>1 DEF Socle, TypeOK
<1>3. ASSUME NEW d \in Demandes, ValiderRetour(d)
      PROVE  dispo'[l] <= total[l]
  <2>1. /\ dispo' = [dispo EXCEPT ![tx[d].livre] = @ + 1]
        /\ dispo[tx[d].livre] < total[tx[d].livre]
    BY <1>3 DEF ValiderRetour, PlaceGardee
  <2>. QED
    BY <2>1, <1>1 DEF Socle, TypeOK
<1>. QED
  BY <1>1, <1>2, <1>3, StockEcrit

(* The room found stays: nobody else puts a copy of the book back. *)
LEMMA CirculationPlace ==
  ASSUME Socle, PlaceGardee, [Next]_vars
  PROVE  PlaceGardee'
<1>. SUFFICES ASSUME NEW d \in Demandes, tx'[d].etape = "r_commit"
             PROVE  dispo'[tx'[d].livre] < total'[tx'[d].livre]
  BY DEF PlaceGardee
<1>1. CASE Immobile(d)
  <2>1. tx[d].etape = "r_commit" /\ tx'[d].livre = tx[d].livre
    BY <1>1 DEF Immobile
  <2>l. PICK l \in Livres : l = tx[d].livre /\ TientLivre(d, l)
    BY <2>1, LivreDuRetour
  <2>2. dispo[l] \in Nat /\ total[l] \in Nat /\ dispo[l] < total[l]
    BY <2>1, <2>l DEF PlaceGardee, Socle, TypeOK
  <2>3. ASSUME NEW f \in Demandes, EnregistrerEmprunt(f)
        PROVE  dispo'[l] < total[l]
    <3>1. dispo' = [dispo EXCEPT ![tx[f].livre] = @ - 1]
      BY <2>3 DEF EnregistrerEmprunt
    <3>. QED
      BY <3>1, <2>2 DEF Socle, TypeOK
  <2>4. ASSUME NEW f \in Demandes, ValiderRetour(f)
        PROVE  dispo'[l] = dispo[l]
    <3>1. dispo' = [dispo EXCEPT ![tx[f].livre] = @ + 1] /\ tx[f].etape = "r_commit"
      BY <2>4 DEF ValiderRetour
    <3>2. f # d
      <4>1. ASSUME f = d PROVE tx'[d].etape = "lecture"
        <5>1. tx' = [LivreModifie(tx[d].livre) EXCEPT ![d] = [tx[d] EXCEPT !.etape = "lecture"]]
          BY <4>1, <2>4 DEF ValiderRetour
        <5>2. tx[d] \in Demande
          BY DEF Socle, TypeOK
        <5>. QED
          BY <5>1, <5>2 DEF LivreModifie, Demande
      <4>. QED
        BY <4>1
    <3>3. tx[f].livre # l
      BY <3>1, <3>2, <2>l, LivreDuRetour DEF Socle, VerrousExclusifs
    <3>. QED
      BY <3>1, <3>3 DEF Socle, TypeOK
  <2>. QED
    BY <2>1, <2>l, <2>2, <2>3, <2>4, StockEcrit
<1>2. CASE PasDe(d)
  <2>1. ReincrementerStock(d)
    <3>1. CalculerPenalite(d) \/ CloturerEmprunt(d) \/ ReincrementerStock(d)
      BY <1>2, PasDeRetour DEF Socle
    <3>2. tx[d] \in Demande
      BY DEF Socle, TypeOK
    <3>3. ~CalculerPenalite(d) /\ ~CloturerEmprunt(d)
      BY <3>2 DEF CalculerPenalite, CloturerEmprunt, Socle, TypeOK, Demande
    <3>. QED
      BY <3>1, <3>3
  <2>2. /\ tx[d].etape = "r_stock" /\ dispo[tx[d].livre] + 1 <= total[tx[d].livre]
        /\ UNCHANGED <<total, dispo>>
        /\ tx' = [tx EXCEPT ![d].etape = "r_commit"]
    BY <2>1 DEF ReincrementerStock, tables
  <2>3. tx'[d].livre = tx[d].livre
    BY <2>2 DEF Socle, TypeOK, Demande
  <2>4. dispo[tx[d].livre] \in Nat /\ total[tx[d].livre] \in Nat
    BY <2>2, LigneTenue DEF Socle, TypeOK, EtapesTenues, EtapesRetour
  <2>. QED
    BY <2>2, <2>3, <2>4
<1>. QED
  BY <1>1, <1>2, AutresImmobiles

(* A loan is recorded for a book on the shelf and a member on record. *)
LEMMA CirculationReferences ==
  ASSUME Socle, IntegriteReferentielle, [Next]_vars, UNCHANGED fonds
  PROVE  IntegriteReferentielle'
<1>. USE DEF Socle
<1>1. \A l \in Livres : fiche'[l] = "efface" <=> fiche[l] = "efface"
  <2>1. ASSUME NEW b \in Livres, RetirerLivre(b)
        PROVE  \A l \in Livres : fiche'[l] = "efface" <=> fiche[l] = "efface"
    BY <2>1 DEF RetirerLivre, TypeOK
  <2>. QED
    BY <2>1, FondsInchange
<1>2. \A l \in Livres : fiche'[l] # "efface" => auteur'[l] \in auteurs'
  BY <1>1 DEF IntegriteReferentielle, fonds
<1>3. ASSUME NEW e \in Lignes, EstLigne(e)'
      PROVE  /\ fiche'[emprunts'[e].livre] # "efface"
             /\ compte'[emprunts'[e].utilisateur] # "efface"
  <2>1. CASE /\ EstLigne(e)
             /\ emprunts'[e].livre = emprunts[e].livre
             /\ emprunts'[e].utilisateur = emprunts[e].utilisateur
    <3>1. emprunts[e].livre \in Livres /\ emprunts[e].utilisateur \in Membres
      BY <2>1 DEF EstLigne, TypeOK, LigneEmprunt
    <3>. QED
      BY <2>1, <3>1, <1>1, ComptesEffaces DEF IntegriteReferentielle
  <2>2. ASSUME NEW d \in Demandes, EnregistrerEmprunt(d),
               emprunts'[e].livre = tx[d].livre,
               emprunts'[e].utilisateur = tx[d].utilisateur
        PROVE  /\ fiche'[emprunts'[e].livre] # "efface"
               /\ compte'[emprunts'[e].utilisateur] # "efface"
    <3>1. /\ tx[d].etape = "e_ecriture" /\ compte[tx[d].utilisateur] # "efface"
      BY <2>2 DEF EnregistrerEmprunt
    <3>2. /\ tx[d].livre \in Livres /\ tx[d].utilisateur \in Membres
          /\ fiche[tx[d].livre] = "present"
      BY <3>1 DEF DemandeCoherente, EtapesEmprunt
    <3>. QED
      BY <2>2, <3>1, <3>2, <1>1, ComptesEffaces
  <2>. QED
    BY <1>3, <2>1, <2>2, ParentsGardes
<1>4. \A e \in Lignes : EstLigne(e)' => /\ fiche'[emprunts'[e].livre] # "efface"
                                        /\ compte'[emprunts'[e].utilisateur] # "efface"
  BY <1>3
<1>. QED
  BY <1>2, <1>4 DEF IntegriteReferentielle

-----------------------------------------------------------------------------
(* What an edition does *)

(* An edition advances, or is answered, without writing a table. *)
EditionAvance(c) ==
  /\ UNCHANGED <<vars, fonds>>
  /\ \E q \in Edition :
       /\ edition' = [edition EXCEPT ![c] = q]
       /\ q.etape # "relecture"
       /\ q.etape \in {"resolution", "ecriture"} => q.livre \in Livres

(* Only the UPDATE and the INSERT of an edition write. *)
LEMMA EditionDite ==
  ASSUME TypeCatalogue, StockBorne, EditionsSituees, NEW c \in Editeurs,
         DebutEdition(c) \/ SuiteEdition(c)
  PROVE  EditionAvance(c) \/ EcrireLivre(c) \/ \E l \in Livres : InsererLivre(c, l)
<1>0. edition[c] \in Edition
  BY DEF TypeCatalogue
<1>1. ASSUME NEW l \in Livres \cup {Aucun}, NEW r \in Reponses,
             edition' = [edition EXCEPT ![c] = Repond(l, r)], UNCHANGED <<vars, fonds>>
      PROVE  EditionAvance(c)
  <2>1. Repond(l, r) \in Edition /\ Repond(l, r).etape = "repondue"
    BY DEF Repond, EditionLibre, Edition
  <2>. QED
    BY <2>1, <1>1 DEF EditionAvance
<1>2. ASSUME NEW r \in Reponses, Conclure(c, r), UNCHANGED <<vars, fonds>>
      PROVE  EditionAvance(c)
  <2>1. edition[c].livre \in Livres \cup {Aucun}
    BY <1>0 DEF Edition
  <2>. QED
    BY <2>1, <1>1, <1>2 DEF Conclure
<1>3. CASE DebutEdition(c)
  <2>1. ASSUME NEW l \in Livres, NEW remplace \in BOOLEAN, NEW n \in Totaux \cup {Aucun},
               NEW a \in Auteurs \cup {Aucun}, LireLivre(c, l, remplace, n, a)
        PROVE  EditionAvance(c)
    <3> DEFINE q == [etape     |-> IF a = Aucun THEN "ecriture" ELSE "resolution",
                     livre     |-> l,
                     total     |-> IF n = Aucun THEN total[l] ELSE n,
                     empruntes |-> Empruntes(l),
                     auteur    |-> IF a = Aucun THEN auteur[l] ELSE a,
                     reponse   |-> Aucun]
    <3>1. edition' = [edition EXCEPT ![c] = q] /\ UNCHANGED <<vars, fonds>>
      BY <2>1 DEF LireLivre
    <3>2. Empruntes(l) \in Nat /\ total[l] \in Nat
      BY DEF Empruntes, StockBorne, TypeCatalogue, TypeOK
    <3>3. n # Aucun => n \in Nat
      BY TotauxPositifs
    <3>4. auteur[l] \in Auteurs \cup {Aucun}
      BY DEF TypeCatalogue
    <3>5. q \in Edition
      BY <3>2, <3>3, <3>4 DEF Edition, EtapesEdition
    <3>6. q.etape # "relecture" /\ q.livre \in Livres
      OBVIOUS
    <3>. HIDE DEF q
    <3>. QED
      BY <3>1, <3>5, <3>6 DEF EditionAvance
  <2>2. ASSUME NEW l \in Livres, NEW n \in Totaux \cup {Aucun}, RefuserEdition(c, l, n)
        PROVE  EditionAvance(c)
    BY <2>2, <1>1 DEF RefuserEdition, Reponses
  <2>3. ASSUME NEW n \in Totaux, NEW a \in Auteurs, DemanderCreation(c, n, a)
        PROVE  EditionAvance(c)
    <3>1. CASE a \in auteurs
      <4> DEFINE q == [EditionLibre EXCEPT !.etape = "insertion", !.total = n, !.auteur = a]
      <4>1. q \in Edition /\ q.etape = "insertion"
        BY TotauxPositifs DEF EditionLibre, Edition, EtapesEdition
      <4>2. edition' = [edition EXCEPT ![c] = q] /\ UNCHANGED <<vars, fonds>>
        BY <2>3, <3>1 DEF DemanderCreation
      <4>. HIDE DEF q
      <4>. QED
        BY <4>1, <4>2 DEF EditionAvance
    <3>2. CASE a \notin auteurs
      BY <2>3, <3>2, <1>1 DEF DemanderCreation, Reponses
    <3>. QED
      BY <3>1, <3>2
  <2>. QED
    BY <1>3, <2>1, <2>2, <2>3 DEF DebutEdition
<1>4. CASE \/ RefuserAuteur(c) \/ RefuserTotal(c) \/ AucuneLigneAffectee(c)
           \/ RefuserAuteurSupprime(c) \/ RefuserInsertion(c) \/ RefuserDoublon(c)
           \/ RelireLivre(c) \/ PerdreEdition(c)
  <2>1. (\E r \in Reponses : Conclure(c, r)) /\ UNCHANGED <<vars, fonds>>
    BY <1>4 DEF RefuserAuteur, RefuserTotal, AucuneLigneAffectee, RefuserAuteurSupprime,
                RefuserInsertion, RefuserDoublon, RelireLivre, PerdreEdition, Reponses
  <2>. QED
    BY <2>1, <1>2
<1>5. CASE ResoudreAuteur(c)
  <2> DEFINE q == [edition[c] EXCEPT !.etape = "ecriture"]
  <2>1. edition' = [edition EXCEPT ![c] = q] /\ UNCHANGED <<vars, fonds>>
    BY <1>5 DEF ResoudreAuteur
  <2>2. q \in Edition /\ q.etape = "ecriture" /\ q.livre = edition[c].livre
    BY <1>0 DEF Edition, EtapesEdition
  <2>3. edition[c].livre \in Livres
    BY <1>5 DEF ResoudreAuteur, EditionsSituees
  <2>. HIDE DEF q
  <2>. QED
    BY <2>1, <2>2, <2>3 DEF EditionAvance
<1>6. CASE RecevoirEdition(c)
  <2>1. EditionLibre \in Edition /\ EditionLibre.etape = "libre"
    BY DEF EditionLibre, Edition
  <2>. QED
    BY <2>1, <1>6 DEF RecevoirEdition, EditionAvance
<1>. QED
  BY <1>3, <1>4, <1>5, <1>6 DEF SuiteEdition

(* What an UPDATE or an INSERT leaves of the edition that makes it *)
LEMMA EditionEcrite ==
  ASSUME TypeCatalogue, EditionsSituees, NEW c \in Editeurs,
         EcrireLivre(c) \/ \E l \in Livres : InsererLivre(c, l)
  PROVE  /\ edition' \in [Editeurs -> Edition]
         /\ EditionsSituees'
<1>0. edition[c] \in Edition
  BY DEF TypeCatalogue
<1>1. ASSUME NEW q \in Edition, edition' = [edition EXCEPT ![c] = q], q.livre \in Livres
      PROVE  edition' \in [Editeurs -> Edition] /\ EditionsSituees'
  BY <1>1 DEF TypeCatalogue, EditionsSituees
<1>2. CASE EcrireLivre(c)
  <2> DEFINE q == [edition[c] EXCEPT !.etape = "relecture"]
  <2>1. edition' = [edition EXCEPT ![c] = q] /\ edition[c].livre \in Livres
    BY <1>2 DEF EcrireLivre, EcriturePossible, EditionsSituees
  <2>2. q \in Edition /\ q.livre = edition[c].livre
    BY <1>0 DEF Edition, EtapesEdition
  <2>. HIDE DEF q
  <2>. QED
    BY <2>1, <2>2, <1>1
<1>3. ASSUME NEW l \in Livres, InsererLivre(c, l)
      PROVE  edition' \in [Editeurs -> Edition] /\ EditionsSituees'
  <2> DEFINE q == [edition[c] EXCEPT !.etape = "relecture", !.livre = l]
  <2>1. edition' = [edition EXCEPT ![c] = q]
    BY <1>3 DEF InsererLivre, TypeCatalogue
  <2>2. q \in Edition /\ q.livre = l
    BY <1>0 DEF Edition, EtapesEdition
  <2>. HIDE DEF q
  <2>. QED
    BY <2>1, <2>2, <1>1
<1>. QED
  BY <1>2, <1>3

-----------------------------------------------------------------------------
(* Rows of livres, utilisateurs and auteurs written beside circulation *)

(* The row of a book that no request has locked may be written: requests and *)
(* loans do not notice.                                                      *)
LEMMA LivreEcrit ==
  ASSUME Socle, PlaceGardee, NEW l \in Livres,
         \A d \in Demandes : tx[d].etape \in {"e_ecriture", "r_commit"} => tx[d].livre # l,
         total' \in [Livres -> Nat], dispo' \in [Livres -> Nat],
         fiche' \in [Livres -> {"present", "retire", "efface"}],
         \A b \in Livres \ {l} : /\ total'[b] = total[b] /\ dispo'[b] = dispo[b]
                                 /\ fiche'[b] = fiche[b],
         UNCHANGED <<compte, emprunts, jour, marquage>>,
         UNCHANGED tx \/ tx' = LivreModifie(l)
  PROVE  Socle' /\ PlaceGardee'
<1>. USE DEF Socle
<1>1. /\ tx' \in [Demandes -> Demande]
      /\ \A d \in Demandes :
           /\ tx'[d].etape = tx[d].etape /\ tx'[d].sorte = tx[d].sorte
           /\ tx'[d].utilisateur = tx[d].utilisateur /\ tx'[d].livre = tx[d].livre
           /\ tx'[d].emprunt = tx[d].emprunt /\ tx'[d].nbActifs = tx[d].nbActifs
  <2>1. CASE UNCHANGED tx
    BY <2>1 DEF TypeOK
  <2>2. CASE tx' = LivreModifie(l)
    <3>. HIDE DEF LivreModifie
    <3>. QED
      BY <2>2, LivreModifieGarde
  <2>. QED
    BY <2>1, <2>2
<1>2. TypeOK'
  BY <1>1 DEF TypeOK
<1>3. ASSUME NEW d \in Demandes
      PROVE  DemandeCoherente(d)'
  <2>1. tx[d].etape = "e_ecriture" =>
          /\ dispo'[tx[d].livre] = dispo[tx[d].livre]
          /\ fiche'[tx[d].livre] = fiche[tx[d].livre]
    BY DEF DemandeCoherente, EtapesEmprunt
  <2>. QED
    BY <2>1, <1>1 DEF DemandeCoherente, EstActif
<1>4. VerrousExclusifs'
  BY <1>1 DEF VerrousExclusifs, TientLivre, TientEmprunt, TypeOK
<1>5. PlaceGardee'
  <2>. SUFFICES ASSUME NEW d \in Demandes, tx[d].etape = "r_commit"
               PROVE  dispo'[tx[d].livre] < total'[tx[d].livre]
    BY <1>1 DEF PlaceGardee
  <2>1. tx[d].livre \in Livres \ {l}
    BY LivreDuRetour
  <2>. QED
    BY <2>1 DEF PlaceGardee
<1>. QED
  BY <1>2, <1>3, <1>4, <1>5

(* A free lock: no loan and no return of the book is about to commit. *)
LEMMA LivreLibre ==
  ASSUME NEW l, ~LivreVerrouille(l), NEW d \in Demandes,
         tx[d].etape \in {"e_ecriture", "r_commit"}
  PROVE  tx[d].livre # l
BY DEF LivreVerrouille, TientLivre

(* An identifier of a book that has no row has no loan either. *)
LEMMA LivreInutilise ==
  ASSUME Socle, IntegriteReferentielle, NEW l \in Livres, fiche[l] = "efface",
         NEW d \in Demandes, tx[d].etape \in {"e_ecriture", "r_commit"}
  PROVE  tx[d].livre # l
<1>1. CASE tx[d].etape = "e_ecriture"
  BY <1>1 DEF Socle, DemandeCoherente
<1>2. CASE tx[d].etape = "r_commit"
  <2>1. /\ tx[d].emprunt \in Lignes /\ emprunts[tx[d].emprunt] \in LigneEmprunt
        /\ tx[d].livre = emprunts[tx[d].emprunt].livre
        /\ EstActif(tx[d].emprunt)
    BY <1>2, LigneTenue DEF EtapesTenues, EtapesRetour
  <2>2. EstLigne(tx[d].emprunt)
    BY <2>1 DEF EstLigne, EstActif, StatutsActifs, Absente, Effacee
  <2>. QED
    BY <2>1, <2>2 DEF IntegriteReferentielle
<1>. QED
  BY <1>1, <1>2

(* The UPDATE of an edition, the stock computed by ajusterStock included *)
LEMMA EcrireGarde ==
  ASSUME InvariantCatalogue, NEW c \in Editeurs, EcrireLivre(c)
  PROVE  InvariantCatalogue'
<1>. USE DEF InvariantCatalogue
<1>l. PICK l \in Livres : l = edition[c].livre
  BY DEF EcrireLivre, EcriturePossible, EditionsSituees
<1>0. /\ edition[c].total \in Nat /\ edition[c].empruntes \in Nat
      /\ edition[c].auteur \in Auteurs \cup {Aucun}
  BY DEF TypeCatalogue, Edition
<1>1. /\ total'  = [total  EXCEPT ![l] = edition[c].total]
      /\ dispo'  = [dispo  EXCEPT ![l] = Disponibles(c)]
      /\ auteur' = [auteur EXCEPT ![l] = edition[c].auteur]
      /\ tx' = LivreModifie(l)
      /\ fiche[l] = "present" /\ edition[c].auteur \in auteurs
      /\ ~LivreVerrouille(l) /\ ~TotalInsuffisant(c)
      /\ UNCHANGED <<fiche, compte, emprunts, jour, marquage, auteurs>>
  BY <1>l DEF EcrireLivre, EcriturePossible
<1>2. Disponibles(c) \in Nat /\ Disponibles(c) <= edition[c].total
  BY <1>0, <1>1 DEF Disponibles, TotalInsuffisant
<1>. HIDE DEF Disponibles, LivreModifie
<1>3. /\ total' \in [Livres -> Nat] /\ dispo' \in [Livres -> Nat]
      /\ auteur' \in [Livres -> Auteurs \cup {Aucun}]
      /\ fiche' \in [Livres -> {"present", "retire", "efface"}]
      /\ \A b \in Livres \ {l} : total'[b] = total[b] /\ dispo'[b] = dispo[b] /\ fiche'[b] = fiche[b]
  BY <1>0, <1>1, <1>2 DEF TypeCatalogue, TypeOK
<1>4. Socle' /\ PlaceGardee'
  BY <1>1, <1>3, LivreLibre, LivreEcrit
<1>5. TypeCatalogue' /\ EditionsSituees'
  BY <1>1, <1>3, <1>4, EditionEcrite DEF TypeCatalogue, Socle
<1>6. StockBorne'
  BY <1>0, <1>1, <1>2 DEF StockBorne, TypeCatalogue, TypeOK
<1>7. IntegriteReferentielle'
  BY <1>1 DEF IntegriteReferentielle, TypeCatalogue, EstLigne
<1>. QED
  BY <1>4, <1>5, <1>6, <1>7

(* The INSERT of a book, its author locked by the foreign key *)
LEMMA InsererGarde ==
  ASSUME InvariantCatalogue, NEW c \in Editeurs, NEW l \in Livres, InsererLivre(c, l)
  PROVE  InvariantCatalogue'
<1>. USE DEF InvariantCatalogue
<1>0. edition[c].total \in Nat /\ edition[c].auteur \in Auteurs \cup {Aucun}
  BY DEF TypeCatalogue, Edition
<1>1. /\ total'  = [total  EXCEPT ![l] = edition[c].total]
      /\ dispo'  = [dispo  EXCEPT ![l] = edition[c].total]
      /\ fiche'  = [fiche  EXCEPT ![l] = "present"]
      /\ auteur' = [auteur EXCEPT ![l] = edition[c].auteur]
      /\ auteur[l] = Aucun /\ edition[c].auteur \in auteurs
      /\ UNCHANGED <<compte, emprunts, jour, marquage, tx, auteurs>>
  BY DEF InsererLivre
<1>2. fiche[l] = "efface"
  BY <1>1, AucunNiAuteur DEF IntegriteReferentielle, TypeCatalogue
<1>3. /\ total' \in [Livres -> Nat] /\ dispo' \in [Livres -> Nat]
      /\ auteur' \in [Livres -> Auteurs \cup {Aucun}]
      /\ fiche' \in [Livres -> {"present", "retire", "efface"}]
      /\ \A b \in Livres \ {l} : total'[b] = total[b] /\ dispo'[b] = dispo[b] /\ fiche'[b] = fiche[b]
  BY <1>0, <1>1 DEF TypeCatalogue, TypeOK
<1>4. Socle' /\ PlaceGardee'
  BY <1>1, <1>2, <1>3, LivreInutilise, LivreEcrit
<1>5. TypeCatalogue' /\ EditionsSituees'
  BY <1>1, <1>3, <1>4, EditionEcrite DEF TypeCatalogue, Socle
<1>6. StockBorne'
  BY <1>0, <1>1 DEF StockBorne, TypeCatalogue, TypeOK
<1>7. IntegriteReferentielle'
  BY <1>1 DEF IntegriteReferentielle, TypeCatalogue, TypeOK, EstLigne
<1>. QED
  BY <1>4, <1>5, <1>6, <1>7

(* ON DELETE RESTRICT: the book has no loan, and none is being recorded. *)
LEMMA SupprimerLivreGarde ==
  ASSUME InvariantCatalogue, NEW l \in Livres, SupprimerLivre(l)
  PROVE  InvariantCatalogue'
<1>. USE DEF InvariantCatalogue
<1>1. /\ ~LivreVerrouille(l) /\ EmpruntsDuLivre(l) = {}
      /\ fiche' = [fiche EXCEPT ![l] = "efface"] /\ tx' = LivreModifie(l)
      /\ UNCHANGED <<total, dispo, compte, emprunts, jour, marquage, auteur, auteurs, edition>>
  BY DEF SupprimerLivre, stock, fonds
<1>. HIDE DEF LivreModifie
<1>2. /\ total' \in [Livres -> Nat] /\ dispo' \in [Livres -> Nat]
      /\ fiche' \in [Livres -> {"present", "retire", "efface"}]
      /\ \A b \in Livres \ {l} : total'[b] = total[b] /\ dispo'[b] = dispo[b] /\ fiche'[b] = fiche[b]
  BY <1>1 DEF TypeCatalogue, TypeOK
<1>3. Socle' /\ PlaceGardee'
  BY <1>1, <1>2, LivreLibre, LivreEcrit
<1>4. TypeCatalogue' /\ EditionsSituees' /\ StockBorne'
  BY <1>1, <1>3 DEF TypeCatalogue, Socle, EditionsSituees, StockBorne
<1>5. IntegriteReferentielle'
  <2>1. \A e \in Lignes : EstLigne(e) => emprunts[e].livre \in Livres \ {l}
    BY <1>1 DEF EmpruntsDuLivre, EstLigne, TypeCatalogue, TypeOK, LigneEmprunt
  <2>2. \A b \in Livres \ {l} : fiche'[b] = fiche[b]
    BY <1>2
  <2>3. \A b \in Livres : fiche'[b] # "efface" => auteur'[b] \in auteurs'
    BY <1>1 DEF IntegriteReferentielle, TypeCatalogue, TypeOK
  <2>4. \A e \in Lignes : EstLigne(e)' => /\ fiche'[emprunts'[e].livre] # "efface"
                                          /\ compte'[emprunts'[e].utilisateur] # "efface"
    BY <1>1, <2>1, <2>2 DEF IntegriteReferentielle, EstLigne
  <2>. QED
    BY <2>3, <2>4 DEF IntegriteReferentielle
<1>. QED
  BY <1>3, <1>4, <1>5

(* ON DELETE CASCADE takes no row that a return or the event holds. *)
LEMMA SupprimerMembreGarde ==
  ASSUME InvariantCatalogue, NEW u \in Membres, SupprimerMembre(u)
  PROVE  InvariantCatalogue'
<1>. USE DEF InvariantCatalogue
<1>1. /\ \A e \in EmpruntsDuMembre(u) : ~EmpruntVerrouille(e)
      /\ compte' = [compte EXCEPT ![u] = "efface"]
      /\ emprunts' = [e \in Lignes |-> IF e \in EmpruntsDuMembre(u) THEN Effacee ELSE emprunts[e]]
      /\ UNCHANGED <<total, dispo, fiche, jour, marquage, tx, auteur, auteurs, edition>>
  BY DEF SupprimerMembre, stock, fonds
<1>2. \A e \in Lignes : EmpruntVerrouille(e) => emprunts'[e] = emprunts[e]
  BY <1>1
<1>3. TypeCatalogue'
  BY <1>1 DEF TypeCatalogue, TypeOK
<1>4. ASSUME NEW d \in Demandes
      PROVE  DemandeCoherente(d)'
  <2>1. ASSUME tx[d].etape \in EtapesTenues
        PROVE  emprunts'[tx[d].emprunt] = emprunts[tx[d].emprunt]
    <3>1. tx[d].emprunt \in Lignes /\ EmpruntVerrouille(tx[d].emprunt)
      BY <2>1, LigneTenue DEF EmpruntVerrouille, TientEmprunt, EtapesTenues
    <3>. QED
      BY <3>1, <1>2
  <2>2. DemandeCoherente(d)
    BY DEF Socle
  <2>. HIDE DEF InvariantCatalogue
  <2>. QED
    BY <1>1, <2>1, <2>2 DEF DemandeCoherente, EstActif
<1>5. VerrousExclusifs'
  <2>1. \A e \in marquage.lignes : e \in Lignes /\ emprunts'[e] = emprunts[e]
    BY <1>2 DEF EmpruntVerrouille, TypeCatalogue, TypeOK
  <2>. QED
    BY <1>1, <2>1 DEF Socle, VerrousExclusifs, TientLivre, TientEmprunt
<1>6. IntegriteReferentielle'
  <2>1. ASSUME NEW e \in Lignes, EstLigne(e)'
        PROVE  /\ EstLigne(e) /\ emprunts'[e] = emprunts[e]
               /\ emprunts[e].utilisateur \in Membres \ {u}
    <3>1. e \notin EmpruntsDuMembre(u) /\ emprunts'[e] = emprunts[e]
      BY <1>1, <2>1 DEF EstLigne
    <3>2. EstLigne(e)
      BY <2>1, <3>1 DEF EstLigne
    <3>. QED
      BY <3>1, <3>2 DEF EmpruntsDuMembre, EstLigne, TypeCatalogue, TypeOK, LigneEmprunt
  <2>2. \A m \in Membres \ {u} : compte'[m] = compte[m]
    BY <1>1 DEF TypeCatalogue, TypeOK
  <2>. QED
    BY <1>1, <2>1, <2>2 DEF IntegriteReferentielle
<1>. QED
  BY <1>1, <1>3, <1>4, <1>5, <1>6 DEF TypeCatalogue, Socle, StockBorne, PlaceGardee, EditionsSituees

(* ON DELETE RESTRICT, for an author *)
LEMMA SupprimerAuteurGarde ==
  ASSUME InvariantCatalogue, NEW a \in Auteurs, SupprimerAuteur(a)
  PROVE  InvariantCatalogue'
<1>. USE DEF InvariantCatalogue
<1>1. /\ \A l \in Livres : auteur[l] = a => fiche[l] = "efface"
      /\ auteurs' = auteurs \ {a} /\ UNCHANGED <<vars, auteur, edition>>
  BY DEF SupprimerAuteur
<1>2. Socle' /\ PlaceGardee'
  BY <1>1, PasMaintenu, CirculationPlace DEF Maintien
<1>3. TypeCatalogue'
  BY <1>1, <1>2 DEF TypeCatalogue, Socle
<1>4. IntegriteReferentielle'
  BY <1>1 DEF IntegriteReferentielle, EstLigne, vars
<1>. QED
  BY <1>1, <1>2, <1>3, <1>4 DEF StockBorne, EditionsSituees, vars

(* The refusals of a loan and of a return are replies like the others. *)
LEMMA RefusGarde ==
  ASSUME InvariantCatalogue, NEW d \in Demandes,
         RefuserCleEtrangere(d) \/ RefuserStockIncoherent(d)
  PROVE  InvariantCatalogue'
<1>. USE DEF InvariantCatalogue
<1>1. /\ Repondre(d, "interne") /\ UNCHANGED <<tables, jour, marquage, fonds, edition>>
  BY DEF RefuserCleEtrangere, RefuserStockIncoherent
<1>2. Socle'
  BY <1>1, ReponseLocale DEF Reponses, Maintien
<1>3. TypeCatalogue'
  BY <1>1, <1>2 DEF TypeCatalogue, Socle, fonds
<1>4. PlaceGardee'
  <2>1. \A f \in Demandes : tx'[f].etape = "r_commit" => tx'[f] = tx[f]
    <3>1. tx[d] \in Demande
      BY DEF TypeCatalogue, TypeOK
    <3>2. Repondue(d, "interne").etape = "repondue"
      BY <3>1 DEF Repondue, Demande
    <3>. HIDE DEF Repondue
    <3>. QED
      BY <1>1, <3>2 DEF Repondre, TypeCatalogue, TypeOK
  <2>. QED
    BY <1>1, <2>1 DEF PlaceGardee, tables
<1>. QED
  BY <1>1, <1>2, <1>3, <1>4 DEF tables, fonds, StockBorne, IntegriteReferentielle, EstLigne,
                                EditionsSituees

-----------------------------------------------------------------------------
(* The inductive invariant *)

(* The catalogue opens with its inventory, every copy in, and no loan. *)
LEMMA CatalogueInitial == InitCatalogue => InvariantCatalogue
<1>. SUFFICES ASSUME InitCatalogue PROVE InvariantCatalogue
  OBVIOUS
<1>. USE DEF InitCatalogue, SansCirculation
<1>1. DemandeLibre \in Demande /\ EditionLibre \in Edition
  BY DEF DemandeLibre, Demande, Etapes, EditionLibre, Edition
<1>2. TypeCatalogue
  BY <1>1, StocksNaturels DEF TypeCatalogue, TypeOK, SansMarquage
<1>3. \A d \in Demandes : tx[d].etape = "libre"
  BY DEF DemandeLibre
<1>4. Socle
  <2>1. \A d \in Demandes : DemandeCoherente(d)
    BY <1>3 DEF DemandeCoherente, EtapesEmprunt, EtapesRetour, EtapesTenues
  <2>2. VerrousExclusifs
    BY <1>3 DEF VerrousExclusifs, TientLivre, TientEmprunt, EtapesRetour, SansMarquage
  <2>. QED
    BY <1>2, <2>1, <2>2 DEF Socle, TypeCatalogue
<1>5. StockBorne
  BY <1>2 DEF StockBorne, TypeCatalogue, TypeOK
<1>6. IntegriteReferentielle
  BY <1>2 DEF IntegriteReferentielle, EstLigne, TypeCatalogue
<1>7. PlaceGardee /\ EditionsSituees
  BY <1>3 DEF PlaceGardee, EditionsSituees, EditionLibre
<1>. QED
  BY <1>2, <1>4, <1>5, <1>6, <1>7 DEF InvariantCatalogue

(* Every step of circulation, of the editions and of the deletions keeps it. *)
LEMMA CatalogueInductif ==
  InvariantCatalogue /\ [NextCatalogue]_varsCatalogue => InvariantCatalogue'
<1>. SUFFICES ASSUME InvariantCatalogue, [NextCatalogue]_varsCatalogue
             PROVE  InvariantCatalogue'
  OBVIOUS
<1>. USE DEF InvariantCatalogue
<1>1. ASSUME [Next]_vars, UNCHANGED fonds,
             edition' \in [Editeurs -> Edition], EditionsSituees'
      PROVE  InvariantCatalogue'
  <2>1. Socle'
    BY <1>1, PasMaintenu DEF Maintien
  <2>2. TypeCatalogue'
    BY <1>1, <2>1 DEF TypeCatalogue, Socle, fonds
  <2>. QED
    BY <1>1, <2>1, <2>2, CirculationStock, CirculationPlace, CirculationReferences
<1>2. CASE [Next]_vars /\ UNCHANGED <<fonds, edition>>
  BY <1>2, <1>1 DEF TypeCatalogue, EditionsSituees
<1>3. ASSUME NEW c \in Editeurs, EditionAvance(c)
      PROVE  InvariantCatalogue'
  <2>1. edition' \in [Editeurs -> Edition] /\ EditionsSituees'
    BY <1>3 DEF EditionAvance, TypeCatalogue, EditionsSituees
  <2>2. [Next]_vars /\ UNCHANGED fonds
    BY <1>3 DEF EditionAvance
  <2>. QED
    BY <2>1, <2>2, <1>1
<1>4. ASSUME NEW c \in Editeurs, DebutEdition(c) \/ SuiteEdition(c)
      PROVE  InvariantCatalogue'
  BY <1>3, <1>4, EditionDite, EcrireGarde, InsererGarde
<1>5. CASE \E d \in Demandes : RefuserCleEtrangere(d) \/ RefuserStockIncoherent(d)
  BY <1>5, RefusGarde
<1>6. CASE Suppression
  <2>1. ASSUME NEW a \in Auteurs \cup auteurs, SupprimerAuteur(a)
        PROVE  InvariantCatalogue'
    BY <2>1, SupprimerAuteurGarde DEF TypeCatalogue
  <2>. QED
    BY <1>6, <2>1, SupprimerLivreGarde, SupprimerMembreGarde DEF Suppression
<1>7. CASE UNCHANGED varsCatalogue
  BY <1>7, <1>2 DEF varsCatalogue, fonds
<1>. QED
  BY <1>2, <1>4, <1>5, <1>6, <1>7 DEF NextCatalogue

-----------------------------------------------------------------------------
(* The theorems *)

(* Every variable keeps its type, what each request and edition under way    *)
(* has established stays true, and the invariants below hold.                *)
THEOREM CatalogueTenu == SpecCatalogue => []InvariantCatalogue
BY CatalogueInitial, CatalogueInductif, PTL DEF SpecCatalogue

(* A book never has more copies in than it owns, whatever editions, loans    *)
(* and returns write over values read before.                                *)
THEOREM StockToujoursBorne == SpecCatalogue => []StockBorne
<1>1. InvariantCatalogue => StockBorne
  BY DEF InvariantCatalogue
<1>. QED
  BY <1>1, CatalogueTenu, PTL

(* Every book has its author, every loan its book and its member.            *)
THEOREM ReferencesTenues == SpecCatalogue => []IntegriteReferentielle
<1>1. InvariantCatalogue => IntegriteReferentielle
  BY DEF InvariantCatalogue
<1>. QED
  BY <1>1, CatalogueTenu, PTL

(* A book withdrawn or deleted stays so and is not edited any more.          *)
THEOREM RetraitToujoursRespecte == SpecCatalogue => RetraitRespecte
<1>1. ASSUME InvariantCatalogue, [NextCatalogue]_varsCatalogue, NEW l \in Livres,
             fiche[l] # "present", auteur[l] # Aucun
      PROVE  /\ fiche'[l] # "present"
             /\ total'[l] = total[l] /\ auteur'[l] = auteur[l]
  <2>. USE <1>1 DEF InvariantCatalogue
  <2>0. /\ fiche \in [Livres -> {"present", "retire", "efface"}]
        /\ total \in [Livres -> Nat] /\ auteur \in [Livres -> Auteurs \cup {Aucun}]
    BY DEF TypeCatalogue, TypeOK
  <2>1. CASE [Next]_vars /\ UNCHANGED fonds
    <3>1. UNCHANGED <<total, auteur>>
      BY <2>1, FondsInchange DEF fonds
    <3>2. ASSUME NEW b \in Livres, RetirerLivre(b)
          PROVE  fiche'[l] # "present"
      BY <2>0, <3>2 DEF RetirerLivre
    <3>. QED
      BY <2>1, <3>1, <3>2, FondsInchange
  <2>2. ASSUME NEW c \in Editeurs, DebutEdition(c) \/ SuiteEdition(c)
        PROVE  /\ fiche'[l] # "present"
               /\ total'[l] = total[l] /\ auteur'[l] = auteur[l]
    <3>1. CASE EditionAvance(c)
      BY <3>1 DEF EditionAvance, vars, fonds
    <3>2. CASE EcrireLivre(c)
      BY <3>2, <2>0 DEF EcrireLivre
    <3>3. ASSUME NEW b \in Livres, InsererLivre(c, b)
          PROVE  /\ fiche'[l] # "present"
                 /\ total'[l] = total[l] /\ auteur'[l] = auteur[l]
      BY <3>3, <2>0 DEF InsererLivre
    <3>. QED
      BY <2>2, <3>1, <3>2, <3>3, EditionDite
  <2>3. CASE \E d \in Demandes : RefuserCleEtrangere(d) \/ RefuserStockIncoherent(d)
    BY <2>3 DEF RefuserCleEtrangere, RefuserStockIncoherent, tables, fonds
  <2>4. CASE Suppression
    BY <2>4, <2>0 DEF Suppression, SupprimerLivre, SupprimerMembre, SupprimerAuteur, stock, fonds, vars
  <2>5. CASE UNCHANGED varsCatalogue
    BY <2>5, <2>1 DEF varsCatalogue, fonds
  <2>. QED
    BY <2>1, <2>2, <2>3, <2>4, <2>5 DEF NextCatalogue
<1>2. InvariantCatalogue /\ [NextCatalogue]_varsCatalogue =>
        [\A l \in Livres : fiche[l] # "present" /\ auteur[l] # Aucun =>
           /\ fiche'[l] # "present"
           /\ total'[l] = total[l] /\ auteur'[l] = auteur[l]]_varsCatalogue
  BY <1>1
<1>. QED
  BY <1>2, CatalogueTenu, PTL DEF SpecCatalogue, RetraitRespecte

(* The UPDATE of an edition leaves as many copies lent as it has read.       *)
THEOREM AjustementToujoursPreserve == SpecCatalogue => AjustementPreserve
<1>1. ASSUME InvariantCatalogue, [NextCatalogue]_varsCatalogue, NEW c \in Editeurs,
             edition[c].etape = "ecriture", edition'[c].etape = "relecture",
             edition[c].empruntes = Empruntes(edition[c].livre)
      PROVE  total'[edition[c].livre] - dispo'[edition[c].livre]
               = total[edition[c].livre] - dispo[edition[c].livre]
  <2>. USE <1>1 DEF InvariantCatalogue
  <2>l. PICK l \in Livres : l = edition[c].livre
    BY DEF EditionsSituees
  <2>0. /\ total[l] \in Nat /\ dispo[l] \in Nat
        /\ edition[c] \in Edition /\ edition[c].total \in Nat /\ edition[c].empruntes \in Nat
    BY DEF TypeCatalogue, TypeOK, Edition
  <2>1. edition'[c] # edition[c]
    OBVIOUS
  <2>2. PICK b \in Editeurs : DebutEdition(b) \/ SuiteEdition(b)
    <3>1. ASSUME UNCHANGED edition PROVE FALSE
      BY <3>1, <2>1
    <3>. QED
      BY <3>1 DEF NextCatalogue, varsCatalogue, RefuserCleEtrangere, RefuserStockIncoherent,
                  Suppression, SupprimerLivre, SupprimerMembre, SupprimerAuteur
  <2>3. ~EditionAvance(b)
    BY <2>1 DEF EditionAvance, TypeCatalogue
  <2>4. ASSUME NEW k \in Livres, InsererLivre(b, k) PROVE FALSE
    <3>1. edition[b].etape = "insertion" /\ edition' =
            [edition EXCEPT ![b].etape = "relecture", ![b].livre = k]
      BY <2>4 DEF InsererLivre
    <3>2. b # c
      BY <3>1
    <3>. QED
      BY <2>1, <3>1, <3>2 DEF TypeCatalogue
  <2>5. EcrireLivre(b)
    BY <2>2, <2>3, <2>4, EditionDite
  <2>6. b = c
    BY <2>1, <2>5 DEF EcrireLivre, TypeCatalogue
  <2>7. total'[l] = edition[c].total /\ dispo'[l] = edition[c].total - edition[c].empruntes
    BY <2>l, <2>5, <2>6 DEF EcrireLivre, Disponibles, TypeCatalogue, TypeOK
  <2>. QED
    BY <2>l, <2>0, <2>7 DEF Empruntes
<1>2. InvariantCatalogue /\ [NextCatalogue]_varsCatalogue =>
        [\A c \in Editeurs :
           LET l == edition[c].livre
           IN  /\ edition[c].etape = "ecriture" /\ edition'[c].etape = "relecture"
               /\ edition[c].empruntes = Empruntes(l)
               => total'[l] - dispo'[l] = total[l] - dispo[l]]_varsCatalogue
  BY <1>1
<1>. QED
  BY <1>2, CatalogueTenu, PTL DEF SpecCatalogue, AjustementPreserve

(* A loan takes a copy off the shelf with its row, a return puts it back     *)
(* with its row: circulation never parts the stock from the loans.           *)
LEMMA CirculationEcart ==
  ASSUME Socle, [Next]_vars, NEW b \in Livres
  PROVE  Ecart(b)' = Ecart(b)
<1>. USE DEF Socle
<1>0. /\ total[b] \in Nat /\ dispo[b] \in Nat /\ UNCHANGED total
      /\ IsFiniteSet(ActifsDuLivre(b)) /\ Cardinality(ActifsDuLivre(b)) \in Nat
  BY DenombrementFini, FondsInchange DEF TypeOK
<1>1. ASSUME NEW d \in Demandes, EnregistrerEmprunt(d)
      PROVE  Ecart(b)' = Ecart(b)
  <2>1. PICK e \in Lignes :
          /\ emprunts[e] = Absente
          /\ emprunts' = [emprunts EXCEPT ![e] = NouvelEmprunt(d)]
          /\ dispo' = [dispo EXCEPT ![tx[d].livre] = @ - 1]
    BY <1>1 DEF EnregistrerEmprunt
  <2>2. /\ NouvelEmprunt(d).statut = "en_cours" /\ NouvelEmprunt(d).livre = tx[d].livre
        /\ tx[d].livre \in Livres
    BY <1>1 DEF EnregistrerEmprunt, NouvelEmprunt, DemandeCoherente, EtapesEmprunt
  <2>. HIDE DEF NouvelEmprunt
  <2>3. /\ emprunts'[e] = NouvelEmprunt(d)
        /\ \A g \in Lignes \ {e} : emprunts'[g] = emprunts[g]
        /\ ~EstActif(e) /\ EstActif(e)'
    BY <2>1, <2>2 DEF TypeOK, EstActif, StatutsActifs, Absente
  <2>4. CASE b = tx[d].livre
    <3>1. ActifsDuLivre(b)' = ActifsDuLivre(b) \cup {e} /\ e \notin ActifsDuLivre(b)
      BY <2>2, <2>3, <2>4 DEF ActifsDuLivre, EstActif
    <3>2. Cardinality(ActifsDuLivre(b)') = Cardinality(ActifsDuLivre(b)) + 1
      BY <3>1, <1>0, FS_AddElement
    <3>3. dispo'[b] = dispo[b] - 1
      BY <2>1, <2>4 DEF TypeOK
    <3>. QED
      BY <3>2, <3>3, <1>0 DEF Ecart
  <2>5. CASE b # tx[d].livre
    <3>1. ActifsDuLivre(b)' = ActifsDuLivre(b)
      BY <2>2, <2>3, <2>5 DEF ActifsDuLivre, EstActif
    <3>2. dispo'[b] = dispo[b]
      BY <2>1, <2>5 DEF TypeOK
    <3>. QED
      BY <3>1, <3>2, <1>0 DEF Ecart
  <2>. QED
    BY <2>4, <2>5
<1>2. ASSUME NEW d \in Demandes, ValiderRetour(d)
      PROVE  Ecart(b)' = Ecart(b)
  <2>e. PICK e \in Lignes : e = tx[d].emprunt /\ EstActif(e) /\ emprunts[e].livre = tx[d].livre
    BY <1>2, LigneTenue DEF ValiderRetour, DemandeCoherente, EtapesRetour, EtapesTenues
  <2>1. /\ emprunts' = [emprunts EXCEPT ![e].statut = "rendu", ![e].effective = tx[d].effective,
                                        ![e].penalite = tx[d].penalite]
        /\ dispo' = [dispo EXCEPT ![tx[d].livre] = @ + 1]
    BY <1>2, <2>e DEF ValiderRetour
  <2>2. emprunts[e] \in LigneEmprunt
    BY <2>e DEF TypeOK, EstActif, StatutsActifs, Absente, Effacee
  <2>3. /\ ~EstActif(e)'
        /\ \A g \in Lignes \ {e} : emprunts'[g] = emprunts[g]
        /\ tx[d].livre \in Livres
    BY <2>e, <2>1, <2>2 DEF TypeOK, EstActif, StatutsActifs, LigneEmprunt
  <2>4. CASE b = tx[d].livre
    <3>1. ActifsDuLivre(b)' = ActifsDuLivre(b) \ {e} /\ e \in ActifsDuLivre(b)
      BY <2>e, <2>3, <2>4 DEF ActifsDuLivre, EstActif
    <3>2. Cardinality(ActifsDuLivre(b)') = Cardinality(ActifsDuLivre(b)) - 1
      BY <3>1, <1>0, FS_RemoveElement
    <3>3. dispo'[b] = dispo[b] + 1
      BY <2>1, <2>4 DEF TypeOK
    <3>. QED
      BY <3>2, <3>3, <1>0 DEF Ecart
  <2>5. CASE b # tx[d].livre
    <3>1. ActifsDuLivre(b)' = ActifsDuLivre(b)
      BY <2>e, <2>3, <2>5 DEF ActifsDuLivre, EstActif
    <3>2. dispo'[b] = dispo[b]
      BY <2>1, <2>5 DEF TypeOK
    <3>. QED
      BY <3>1, <3>2, <1>0 DEF Ecart
  <2>. QED
    BY <2>4, <2>5
<1>3. ASSUME UNCHANGED dispo, UNCHANGED emprunts \/ ValiderMarquage
      PROVE  Ecart(b)' = Ecart(b)
  <2>1. CASE UNCHANGED emprunts
    <3>1. ActifsDuLivre(b)' = ActifsDuLivre(b)
      BY <2>1 DEF ActifsDuLivre, EstActif
    <3>. QED
      BY <3>1, <1>0, <1>3 DEF Ecart
  <2>2. CASE ValiderMarquage
    <3>1. ASSUME NEW e \in Lignes
          PROVE  /\ EstActif(e)' <=> EstActif(e)
                 /\ EstActif(e) => emprunts'[e].livre = emprunts[e].livre
      <4>1. CASE e \in marquage.lignes
        <5>1. emprunts[e].statut = "en_cours"
          BY <4>1 DEF VerrousExclusifs
        <5>2. emprunts[e] \in LigneEmprunt
          BY <5>1 DEF TypeOK, Absente, Effacee
        <5>3. emprunts'[e] = [emprunts[e] EXCEPT !.statut = "en_retard"]
          BY <2>2, <4>1 DEF ValiderMarquage
        <5>. QED
          BY <5>1, <5>2, <5>3 DEF EstActif, StatutsActifs, LigneEmprunt
      <4>2. CASE e \notin marquage.lignes
        BY <2>2, <4>2 DEF ValiderMarquage, EstActif
      <4>. QED
        BY <4>1, <4>2
    <3>2. ActifsDuLivre(b)' = ActifsDuLivre(b)
      BY <3>1 DEF ActifsDuLivre
    <3>. QED
      BY <3>2, <1>0, <1>3 DEF Ecart
  <2>. QED
    BY <1>3, <2>1, <2>2
<1>. QED
  BY <1>1, <1>2, <1>3, StockEcrit, LignesEcrites

(* An UPDATE moves the stock away from the loans of its book only, and only  *)
(* when the copies lent are no longer those the edition has read.            *)
LEMMA EditionEcart ==
  ASSUME InvariantCatalogue, NEW c \in Editeurs, DebutEdition(c) \/ SuiteEdition(c),
         NEW b \in Livres, auteur[b] # Aucun
  PROVE  Ecart(b)' = Ecart(b) \/ EcritureDepassee(c, b)
<1>. USE DEF InvariantCatalogue
<1>0. /\ total[b] \in Nat /\ dispo[b] \in Nat
      /\ edition[c].total \in Nat /\ edition[c].empruntes \in Nat
  BY DEF TypeCatalogue, TypeOK, Edition
<1>1. CASE EditionAvance(c)
  BY <1>1 DEF EditionAvance, vars, Ecart, ActifsDuLivre, EstActif
<1>2. ASSUME NEW l \in Livres, InsererLivre(c, l)
      PROVE  Ecart(b)' = Ecart(b)
  <2>1. l # b /\ UNCHANGED emprunts
    BY <1>2 DEF InsererLivre
  <2>2. total'[b] = total[b] /\ dispo'[b] = dispo[b]
    BY <1>2, <2>1 DEF InsererLivre, TypeCatalogue, TypeOK
  <2>. QED
    BY <2>1, <2>2 DEF Ecart, ActifsDuLivre, EstActif
<1>3. CASE EcrireLivre(c)
  <2>1. /\ edition[c].etape = "ecriture" /\ UNCHANGED emprunts
        /\ total' = [total EXCEPT ![edition[c].livre] = edition[c].total]
        /\ dispo' = [dispo EXCEPT ![edition[c].livre] = edition[c].total - edition[c].empruntes]
        /\ edition' = [edition EXCEPT ![c].etape = "relecture"]
    BY <1>3 DEF EcrireLivre, EcriturePossible, Disponibles
  <2>2. edition'[c].etape = "relecture"
    BY <2>1 DEF TypeCatalogue, Edition
  <2>3. ActifsDuLivre(b)' = ActifsDuLivre(b)
    BY <2>1 DEF ActifsDuLivre, EstActif
  <2>4. CASE b # edition[c].livre
    <3>1. total'[b] = total[b] /\ dispo'[b] = dispo[b]
      BY <2>1, <2>4 DEF TypeCatalogue, TypeOK
    <3>. QED
      BY <2>3, <3>1 DEF Ecart
  <2>5. CASE b = edition[c].livre /\ edition[c].empruntes = Empruntes(b)
    <3>1. total'[b] - dispo'[b] = edition[c].empruntes
      BY <2>1, <2>5, <1>0 DEF TypeCatalogue, TypeOK
    <3>2. total'[b] - dispo'[b] = total[b] - dispo[b]
      BY <3>1, <2>5 DEF Empruntes
    <3>. QED
      BY <2>3, <3>2 DEF Ecart
  <2>. QED
    BY <2>1, <2>2, <2>4, <2>5 DEF EcritureDepassee
<1>. QED
  BY <1>1, <1>2, <1>3, EditionDite

(* A deletion touches active loans only when it takes them with their member. *)
LEMMA SuppressionEcart ==
  ASSUME InvariantCatalogue, Suppression, NEW b \in Livres
  PROVE  \/ Ecart(b)' = Ecart(b)
         \/ \E e \in ActifsDuLivre(b) : EmporteAvecMembre(e)
<1>. USE DEF InvariantCatalogue
<1>1. CASE \/ \E l \in Livres : SupprimerLivre(l)
           \/ \E a \in Auteurs : SupprimerAuteur(a)
  BY <1>1 DEF SupprimerLivre, SupprimerAuteur, stock, vars, Ecart, ActifsDuLivre, EstActif
<1>2. ASSUME NEW u \in Membres, SupprimerMembre(u)
      PROVE  \/ Ecart(b)' = Ecart(b)
             \/ \E e \in ActifsDuLivre(b) : EmporteAvecMembre(e)
  <2>1. /\ compte[u] # "efface" /\ compte'[u] = "efface" /\ UNCHANGED <<total, dispo>>
        /\ emprunts' = [e \in Lignes |-> IF e \in EmpruntsDuMembre(u) THEN Effacee ELSE emprunts[e]]
    BY <1>2 DEF SupprimerMembre, stock, TypeCatalogue, TypeOK
  <2>2. CASE \E e \in ActifsDuLivre(b) : emprunts[e].utilisateur = u
    BY <2>1, <2>2 DEF EmporteAvecMembre
  <2>3. CASE \A e \in ActifsDuLivre(b) : emprunts[e].utilisateur # u
    <3>1. ASSUME NEW e \in Lignes
          PROVE  e \in ActifsDuLivre(b)' <=> e \in ActifsDuLivre(b)
      <4>1. CASE e \in EmpruntsDuMembre(u)
        <5>1. e \notin ActifsDuLivre(b)
          BY <4>1, <2>3 DEF EmpruntsDuMembre
        <5>2. emprunts'[e] = Effacee
          BY <2>1, <4>1
        <5>3. e \notin ActifsDuLivre(b)'
          BY <5>2 DEF ActifsDuLivre, EstActif, StatutsActifs, Effacee
        <5>. QED
          BY <5>1, <5>3
      <4>2. CASE e \notin EmpruntsDuMembre(u)
        BY <2>1, <4>2 DEF ActifsDuLivre, EstActif
      <4>. QED
        BY <4>1, <4>2
    <3>2. ActifsDuLivre(b)' = ActifsDuLivre(b)
      BY <3>1 DEF ActifsDuLivre
    <3>. QED
      BY <3>2, <2>1 DEF Ecart
  <2>. QED
    BY <2>2, <2>3
<1>. QED
  BY <1>1, <1>2 DEF Suppression

(* The stock parts from the loans on record only by an edition written over  *)
(* a loan or a return, or by the deletion of a member with active loans.     *)
THEOREM EcartToujoursExplique == SpecCatalogue => EcartExplique
<1>1. ASSUME InvariantCatalogue, [NextCatalogue]_varsCatalogue, NEW l \in Livres,
             auteur[l] # Aucun, Ecart(l)' # Ecart(l)
      PROVE  \/ \E c \in Editeurs : EcritureDepassee(c, l)
             \/ \E e \in ActifsDuLivre(l) : EmporteAvecMembre(e)
  <2>1. CASE [Next]_vars
    BY <1>1, <2>1, CirculationEcart DEF InvariantCatalogue
  <2>2. ASSUME NEW c \in Editeurs, DebutEdition(c) \/ SuiteEdition(c)
        PROVE  EcritureDepassee(c, l)
    BY <1>1, <2>2, EditionEcart
  <2>3. ASSUME NEW d \in Demandes, RefuserCleEtrangere(d) \/ RefuserStockIncoherent(d)
        PROVE  FALSE
    BY <1>1, <2>3 DEF RefuserCleEtrangere, RefuserStockIncoherent, tables, stock,
                      Ecart, ActifsDuLivre, EstActif
  <2>4. CASE Suppression
    BY <1>1, <2>4, SuppressionEcart
  <2>5. CASE UNCHANGED varsCatalogue
    BY <2>1, <2>5 DEF varsCatalogue
  <2>. QED
    BY <1>1, <2>1, <2>2, <2>3, <2>4, <2>5 DEF NextCatalogue
<1>2. InvariantCatalogue /\ [NextCatalogue]_varsCatalogue =>
        [\A l \in Livres :
           auteur[l] # Aucun /\ Ecart(l)' # Ecart(l) =>
             \/ \E c \in Editeurs : EcritureDepassee(c, l)
             \/ \E e \in ActifsDuLivre(l) : EmporteAvecMembre(e)]_varsCatalogue
  BY <1>1
<1>. QED
  BY <1>2, CatalogueTenu, PTL DEF SpecCatalogue, EcartExplique

=============================================================================
