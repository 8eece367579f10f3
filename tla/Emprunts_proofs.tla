--------------------------- MODULE Emprunts_proofs --------------------------
(***************************************************************************)
(* Proofs about Emprunts, for every set of books, members and requests,    *)
(* every quota and either kind of read view.                               *)
(***************************************************************************)
EXTENDS Emprunts, FiniteSetTheorems, TLAPS

-----------------------------------------------------------------------------
(* Counting loans *)

(* The loans of a book, those of a member and the requests below the quota   *)
(* are finite sets, so that their numbers are natural numbers.               *)
LEMMA DenombrementFini ==
  /\ \A l : IsFiniteSet(ActifsDuLivre(l)) /\ Cardinality(ActifsDuLivre(l)) \in Nat
  /\ \A u : IsFiniteSet(ActifsDuMembre(u)) /\ Cardinality(ActifsDuMembre(u)) \in Nat
  /\ \A u : /\ IsFiniteSet(EnInstance(u)) /\ Cardinality(EnInstance(u)) \in Nat
            /\ Cardinality(EnInstance(u)) <= Cardinality(Demandes)
  /\ Cardinality(Demandes) \in Nat
<1>1. \A l : ActifsDuLivre(l) \in SUBSET Lignes
  BY DEF ActifsDuLivre
<1>2. \A u : ActifsDuMembre(u) \in SUBSET Lignes
  BY DEF ActifsDuMembre
<1>3. \A u : EnInstance(u) \in SUBSET Demandes
  BY DEF EnInstance
<1>. QED
  BY <1>1, <1>2, <1>3, LignesFinies, DemandesFinies, FS_Subset, FS_CardinalityType

(* A loan under way takes one copy: its book cannot have all copies in.      *)
LEMMA PretOccupeUnExemplaire ==
  ASSUME Conservation, NEW e \in Lignes, EstActif(e), emprunts[e].livre \in Livres
  PROVE  LET l == emprunts[e].livre
         IN  /\ Cardinality(ActifsDuLivre(l)) >= 1
             /\ dispo[l] \in Nat /\ total[l] \in Nat => dispo[l] < total[l]
<1> DEFINE l == emprunts[e].livre
<1>1. e \in ActifsDuLivre(l)
  BY DEF ActifsDuLivre
<1>2. Cardinality(ActifsDuLivre(l)) # 0
  BY <1>1, DenombrementFini, FS_EmptySet
<1>3. Cardinality(ActifsDuLivre(l)) \in Nat
  BY DenombrementFini
<1>4. dispo[l] + Cardinality(ActifsDuLivre(l)) = total[l]
  BY DEF Conservation
<1> HIDE DEF l
<1>. QED
  BY <1>2, <1>3, <1>4 DEF l

-----------------------------------------------------------------------------
(* Steps of one request that write no table *)

(* What a step of circulation keeps.  The locks and the stages do not rest   *)
(* on the two counts, which the catalogue may upset.                         *)
Maintien ==
  /\ Socle'
  /\ Conservation => Conservation'
  /\ DepassementPrevu => DepassementPrevu'

(* A step that only moves request d to the record r keeps the invariant if r *)
(* is coherent, takes no lock that another holds, and joins the requests     *)
(* below the quota only when the count in the tables is below it.            *)
LEMMA EtapeLocale ==
  ASSUME Socle, NEW d \in Demandes, NEW r \in Demande,
         tx' = [tx EXCEPT ![d] = r], UNCHANGED <<tables, jour, marquage>>,
         DemandeCoherente(d)',
         \A l \in Livres : TientLivre(d, l)' => TientLivre(d, l) \/ ~LivreVerrouille(l),
         \A e \in Lignes : TientEmprunt(d, e)' => TientEmprunt(d, e) \/ ~EmpruntVerrouille(e),
         \A u \in Membres : d \in EnInstance(u)' =>
             d \in EnInstance(u) \/ Cardinality(ActifsDuMembre(u)) < Quota
  PROVE  Maintien
<1>. USE DEF Socle, tables
<1>1. TypeOK'
  BY DEF TypeOK
<1>2. \A f \in Demandes \ {d} : tx'[f] = tx[f]
  BY DEF TypeOK
<1>3. \A f \in Demandes : DemandeCoherente(f)'
  <2>. SUFFICES ASSUME NEW f \in Demandes \ {d}
               PROVE  DemandeCoherente(f)'
    OBVIOUS
  <2>. QED
    BY <1>2 DEF DemandeCoherente, EstActif
<1>4. /\ \A f \in Demandes \ {d}, l \in Livres : TientLivre(f, l)' <=> TientLivre(f, l)
      /\ \A f \in Demandes \ {d}, e \in Lignes : TientEmprunt(f, e)' <=> TientEmprunt(f, e)
  BY <1>2 DEF TientLivre, TientEmprunt
<1>5. VerrousExclusifs'
  <2>1. \A f \in Demandes, g \in Demandes, l \in Livres :
          TientLivre(f, l)' /\ TientLivre(g, l)' => f = g
    BY <1>4 DEF VerrousExclusifs, LivreVerrouille
  <2>2. \A f \in Demandes, g \in Demandes, e \in Lignes :
          TientEmprunt(f, e)' /\ TientEmprunt(g, e)' => f = g
    BY <1>4 DEF VerrousExclusifs, EmpruntVerrouille
  <2>3. \A f \in Demandes, e \in marquage.lignes : ~TientEmprunt(f, e)'
    BY <1>4 DEF VerrousExclusifs, EmpruntVerrouille, TypeOK
  <2>. QED
    BY <2>1, <2>2, <2>3 DEF VerrousExclusifs
<1>6. \A l : ActifsDuLivre(l)' = ActifsDuLivre(l)
  BY DEF ActifsDuLivre, EstActif
<1>7. \A u : ActifsDuMembre(u)' = ActifsDuMembre(u)
  BY DEF ActifsDuMembre, EstActif
<1>8. Conservation => Conservation'
  BY <1>6 DEF Conservation
<1>9. DepassementPrevu => DepassementPrevu'
  <2>. SUFFICES ASSUME DepassementPrevu, NEW u \in Membres
               PROVE  Cardinality(ActifsDuMembre(u)) + Cardinality(EnInstance(u)')
                        <= Quota + Cardinality(Demandes) - 1
    BY <1>7 DEF DepassementPrevu
  <2>1. /\ IsFiniteSet(EnInstance(u)') /\ Cardinality(EnInstance(u)') \in Nat
        /\ Cardinality(EnInstance(u)') <= Cardinality(Demandes)
    <3>1. EnInstance(u)' \in SUBSET Demandes
      BY DEF EnInstance
    <3>. QED
      BY <3>1, DemandesFinies, FS_Subset, FS_CardinalityType
  <2>2. CASE Cardinality(ActifsDuMembre(u)) < Quota
    BY <2>1, <2>2, DenombrementFini, QuotaPositif
  <2>3. CASE EnInstance(u)' \subseteq EnInstance(u)
    <3>1. Cardinality(EnInstance(u)') <= Cardinality(EnInstance(u))
      BY <2>3, DenombrementFini, FS_Subset
    <3>. QED
      BY <3>1, <2>1, DenombrementFini, QuotaPositif DEF DepassementPrevu
  <2>4. \A f \in Demandes \ {d} : f \in EnInstance(u)' => f \in EnInstance(u)
    BY <1>2 DEF EnInstance
  <2>. QED
    BY <2>2, <2>3, <2>4 DEF EnInstance
<1>. QED
  BY <1>1, <1>3, <1>5, <1>8, <1>9 DEF Maintien

(* A reply releases every lock and needs nothing. *)
LEMMA ReponseLocale ==
  ASSUME Socle, NEW d \in Demandes, NEW r \in Reponses, Repondre(d, r),
         UNCHANGED <<tables, jour, marquage>>
  PROVE  Maintien
<1>1. /\ Repondue(d, r) \in Demande
      /\ Repondue(d, r).etape = "repondue"
  <2>1. tx[d] \in Demande
    BY DEF Socle, TypeOK
  <2>. QED
    BY <2>1 DEF Demande, Repondue, Etapes
<1>2. tx' = [tx EXCEPT ![d] = Repondue(d, r)] /\ tx'[d].etape = "repondue"
  BY <1>1 DEF Repondre, Socle, TypeOK
<1>3. DemandeCoherente(d)'
  BY <1>2 DEF DemandeCoherente, EtapesEmprunt, EtapesRetour, EtapesTenues
<1>4. /\ \A l \in Livres : ~TientLivre(d, l)'
      /\ \A e \in Lignes : ~TientEmprunt(d, e)'
      /\ \A u \in Membres : d \notin EnInstance(u)'
  BY <1>2 DEF TientLivre, TientEmprunt, EnInstance, EtapesEmprunt, EtapesRetour
<1>. HIDE DEF Repondue
<1>. QED
  BY <1>1, <1>2, <1>3, <1>4, EtapeLocale

(* The three outcomes of a request to borrow, and a request to return. *)
LEMMA NouvelleDemandeLocale ==
  ASSUME Socle, NEW d \in Demandes, NouvelleDemande(d)
  PROVE  Maintien
<1>. USE DEF tables, stock
<1>0. DemandeLibre \in Demande
  BY DEF DemandeLibre, Demande, Etapes
<1>1. ASSUME NEW u \in Membres, NEW l \in Livres, NEW n \in DureesDemandees,
             \/ RefuserDuree(d, u, l, n)
             \/ RefuserMembre(d, u, l, n)
      PROVE  Maintien
  <2>1. PICK r \in {"invalide", "introuvable"} :
          tx' = [tx EXCEPT ![d] = [DemandeEmprunt(u, l) EXCEPT !.etape = "repondue",
                                                              !.reponse = r]]
    BY <1>1 DEF RefuserDuree, RefuserMembre
  <2> DEFINE q == [DemandeEmprunt(u, l) EXCEPT !.etape = "repondue", !.reponse = r]
  <2>2. q \in Demande /\ q.etape = "repondue"
    BY <1>0 DEF DemandeEmprunt, DemandeLibre, Demande, Etapes, Reponses
  <2>3. tx'[d].etape = "repondue"
    BY <2>1, <2>2 DEF Socle, TypeOK
  <2>4. DemandeCoherente(d)'
    BY <2>3 DEF DemandeCoherente, EtapesEmprunt, EtapesRetour, EtapesTenues
  <2>5. /\ \A b \in Livres : ~TientLivre(d, b)'
        /\ \A e \in Lignes : ~TientEmprunt(d, e)'
        /\ \A m \in Membres : d \notin EnInstance(m)'
    BY <2>3 DEF TientLivre, TientEmprunt, EnInstance, EtapesEmprunt, EtapesRetour
  <2>6. UNCHANGED <<tables, jour, marquage>>
    BY <1>1 DEF RefuserDuree, RefuserMembre
  <2>. HIDE DEF q
  <2>. QED
    BY <2>1, <2>2, <2>4, <2>5, <2>6, EtapeLocale DEF q
<1>2. ASSUME NEW u \in Membres, NEW l \in Livres, NEW n \in DureesDemandees,
             OuvrirEmprunt(d, u, l, n)
      PROVE  Maintien
  <2> DEFINE q == [DemandeEmprunt(u, l) EXCEPT
                     !.etape = "e_verrou", !.duree = DureeDuPret(n),
                     !.nbActifs = Cardinality(ActifsDuMembre(u))]
  <2>1. DureeDuPret(n) \in Nat /\ Cardinality(ActifsDuMembre(u)) \in Nat
    BY <1>2, DureesEntieres, DureesNaturelles, DenombrementFini
       DEF OuvrirEmprunt, DureeAcceptee, DureeDuPret
  <2>2. /\ q \in Demande /\ q.etape = "e_verrou" /\ q.sorte = "emprunt"
        /\ q.utilisateur = u /\ q.livre = l /\ q.emprunt = Aucun
        /\ q.nbActifs = Cardinality(ActifsDuMembre(u))
    BY <1>0, <2>1 DEF DemandeEmprunt, DemandeLibre, Demande, Etapes, EtapesEmprunt
  <2>3. tx' = [tx EXCEPT ![d] = q] /\ UNCHANGED <<tables, jour, marquage>>
    BY <1>2 DEF OuvrirEmprunt
  <2>. HIDE DEF q
  <2>4. tx'[d] = q
    BY <2>3 DEF Socle, TypeOK
  <2>5. DemandeCoherente(d)'
    BY <2>2, <2>4 DEF DemandeCoherente, EtapesEmprunt, EtapesRetour, EtapesTenues
  <2>6. /\ \A b \in Livres : ~TientLivre(d, b)'
        /\ \A e \in Lignes : ~TientEmprunt(d, e)'
    BY <2>2, <2>4 DEF TientLivre, TientEmprunt, EtapesRetour
  <2>7. \A m \in Membres : d \in EnInstance(m)' => Cardinality(ActifsDuMembre(m)) < Quota
    BY <2>2, <2>4 DEF EnInstance
  <2>. QED
    BY <2>2, <2>3, <2>5, <2>6, <2>7, EtapeLocale
<1>3. ASSUME NEW e \in Lignes, DemanderRetour(d, e)
      PROVE  Maintien
  <2> DEFINE q == [DemandeLibre EXCEPT !.etape = "r_verrou", !.sorte = "retour",
                                       !.emprunt = e]
  <2>1. q \in Demande /\ q.etape = "r_verrou" /\ q.sorte = "retour" /\ q.emprunt = e
    BY <1>0 DEF DemandeLibre, Demande, Etapes, EtapesRetour
  <2>2. tx' = [tx EXCEPT ![d] = q] /\ UNCHANGED <<tables, jour, marquage>>
    BY <1>3 DEF DemanderRetour
  <2>. HIDE DEF q
  <2>3. tx'[d] = q
    BY <2>2 DEF Socle, TypeOK
  <2>4. DemandeCoherente(d)'
    BY <2>1, <2>3 DEF DemandeCoherente, EtapesEmprunt, EtapesRetour, EtapesTenues
  <2>5. /\ \A b \in Livres : ~TientLivre(d, b)'
        /\ \A f \in Lignes : ~TientEmprunt(d, f)'
        /\ \A m \in Membres : d \notin EnInstance(m)'
    BY <2>1, <2>3 DEF TientLivre, TientEmprunt, EnInstance, EtapesEmprunt, EtapesRetour
  <2>. QED
    BY <2>1, <2>2, <2>4, <2>5, EtapeLocale
<1>. QED
  BY <1>1, <1>2, <1>3 DEF NouvelleDemande

(* The steps that advance a transaction without COMMIT. *)
LEMMA AvanceLocale ==
  ASSUME Socle, NEW d \in Demandes,
         \/ VerrouillerLivre(d) \/ VerrouillerEmprunt(d) \/ CalculerPenalite(d)
         \/ CloturerEmprunt(d) \/ ReincrementerStock(d) \/ RecevoirReponse(d)
  PROVE  Maintien
<1>. USE DEF Socle
<1>0. tx[d] \in Demande /\ DemandeCoherente(d)
  BY DEF TypeOK
<1>1. CASE VerrouillerLivre(d)
  <2> DEFINE q == [tx[d] EXCEPT !.etape = "e_ecriture"]
  <2>1. /\ q \in Demande /\ q.etape = "e_ecriture" /\ q.sorte = tx[d].sorte
        /\ q.livre = tx[d].livre /\ q.emprunt = tx[d].emprunt
        /\ q.utilisateur = tx[d].utilisateur /\ q.nbActifs = tx[d].nbActifs
    BY <1>0 DEF Demande, Etapes, EtapesEmprunt
  <2>2. /\ tx' = [tx EXCEPT ![d] = q] /\ UNCHANGED <<tables, jour, marquage>>
        /\ tx[d].etape = "e_verrou" /\ ~LivreVerrouille(tx[d].livre)
        /\ dispo[tx[d].livre] > 0 /\ fiche[tx[d].livre] = "present"
        /\ tx[d].nbActifs < Quota
    BY <1>1 DEF VerrouillerLivre, VerrouObtenu
  <2>. HIDE DEF q
  <2>3. tx'[d] = q
    BY <2>2 DEF TypeOK
  <2>4. tx[d].nbActifs \in Nat
    BY <1>0 DEF Demande
  <2>5. DemandeCoherente(d)'
    BY <1>0, <2>1, <2>2, <2>3, <2>4, QuotaPositif
       DEF DemandeCoherente, EtapesEmprunt, EtapesRetour, EtapesTenues, tables
  <2>6. /\ \A l \in Livres : TientLivre(d, l)' => ~LivreVerrouille(l)
        /\ \A e \in Lignes : ~TientEmprunt(d, e)'
        /\ \A u \in Membres : d \in EnInstance(u)' => d \in EnInstance(u)
    BY <2>1, <2>2, <2>3 DEF TientLivre, TientEmprunt, EnInstance, EtapesEmprunt, EtapesRetour
  <2>. QED
    BY <2>1, <2>2, <2>5, <2>6, EtapeLocale
<1>2. CASE VerrouillerEmprunt(d)
  <2> DEFINE q == [tx[d] EXCEPT !.etape = "r_penalite",
                                !.livre = emprunts[tx[d].emprunt].livre]
  <2>1. /\ tx' = [tx EXCEPT ![d] = q] /\ UNCHANGED <<tables, jour, marquage>>
        /\ tx[d].etape = "r_verrou" /\ ~EmpruntVerrouille(tx[d].emprunt)
        /\ EstActif(tx[d].emprunt)
    BY <1>2 DEF VerrouillerEmprunt
  <2>2. tx[d].emprunt \in Lignes /\ tx[d].sorte = "retour"
    BY <1>0, <2>1 DEF DemandeCoherente, EtapesRetour
  <2>3. emprunts[tx[d].emprunt].livre \in Livres
    BY <2>1, <2>2 DEF TypeOK, EstActif, StatutsActifs, Absente, Effacee, LigneEmprunt
  <2>4. /\ q \in Demande /\ q.etape = "r_penalite" /\ q.sorte = "retour"
        /\ q.livre = emprunts[tx[d].emprunt].livre /\ q.emprunt = tx[d].emprunt
    BY <1>0, <2>2, <2>3 DEF Demande, Etapes, EtapesRetour
  <2>. HIDE DEF q
  <2>5. tx'[d] = q
    BY <2>1 DEF TypeOK
  <2>6. DemandeCoherente(d)'
    BY <2>1, <2>2, <2>4, <2>5
       DEF DemandeCoherente, EtapesEmprunt, EtapesRetour, EtapesTenues, tables, EstActif
  <2>7. /\ \A l \in Livres : ~TientLivre(d, l)'
        /\ \A e \in Lignes : TientEmprunt(d, e)' => ~EmpruntVerrouille(e)
        /\ \A u \in Membres : d \notin EnInstance(u)'
    BY <2>1, <2>4, <2>5 DEF TientLivre, TientEmprunt, EnInstance, EtapesEmprunt, EtapesRetour
  <2>. QED
    BY <2>1, <2>4, <2>6, <2>7, EtapeLocale
<1>3. ASSUME NEW q \in Demande, tx' = [tx EXCEPT ![d] = q],
             UNCHANGED <<tables, jour, marquage>>,
             tx[d].etape \in EtapesTenues, q.etape \in EtapesTenues,
             q.sorte = tx[d].sorte, q.livre = tx[d].livre, q.emprunt = tx[d].emprunt,
             q.etape = "r_commit" => ~LivreVerrouille(tx[d].livre)
      PROVE  Maintien
  <2>1. tx'[d] = q
    BY <1>3 DEF TypeOK
  <2>2. DemandeCoherente(d)'
    BY <1>0, <1>3, <2>1
       DEF DemandeCoherente, EtapesEmprunt, EtapesRetour, EtapesTenues, tables, EstActif
  <2>3. /\ \A l \in Livres : TientLivre(d, l)' => ~LivreVerrouille(l)
        /\ \A e \in Lignes : TientEmprunt(d, e)' => TientEmprunt(d, e)
        /\ \A u \in Membres : d \notin EnInstance(u)'
    BY <1>3, <2>1
       DEF TientLivre, TientEmprunt, EnInstance, EtapesEmprunt, EtapesRetour, EtapesTenues
  <2>. QED
    BY <1>3, <2>2, <2>3, EtapeLocale
<1>4. CASE CalculerPenalite(d)
  <2> DEFINE p == Penalite(emprunts[tx[d].emprunt].prevue, jour)
             q == [tx[d] EXCEPT !.etape = "r_cloture", !.penalite = p]
  <2>1. /\ tx' = [tx EXCEPT ![d] = q] /\ UNCHANGED <<tables, jour, marquage>>
        /\ tx[d].etape = "r_penalite"
    BY <1>4 DEF CalculerPenalite
  <2>2. p \in Nat
    <3>1. tx[d].emprunt \in Lignes /\ EstActif(tx[d].emprunt)
      BY <1>0, <2>1 DEF DemandeCoherente, EtapesRetour, EtapesTenues
    <3>2. emprunts[tx[d].emprunt].prevue \in Nat /\ jour \in Nat
      BY <3>1 DEF TypeOK, EstActif, StatutsActifs, Absente, Effacee, LigneEmprunt
    <3>. QED
      BY <3>2 DEF Penalite
  <2>. HIDE DEF p
  <2>3. /\ q \in Demande /\ q.etape = "r_cloture" /\ q.sorte = tx[d].sorte
        /\ q.livre = tx[d].livre /\ q.emprunt = tx[d].emprunt
    BY <1>0, <2>2 DEF Demande, Etapes, EtapesRetour
  <2>. HIDE DEF q
  <2>. QED
    BY <2>1, <2>3, <1>3 DEF EtapesTenues, EtapesRetour
<1>5. CASE CloturerEmprunt(d)
  <2> DEFINE q == [tx[d] EXCEPT !.etape = "r_stock", !.effective = jour]
  <2>1. /\ tx' = [tx EXCEPT ![d] = q] /\ UNCHANGED <<tables, jour, marquage>>
        /\ tx[d].etape = "r_cloture"
    BY <1>5 DEF CloturerEmprunt
  <2>2. jour \in Nat
    BY DEF TypeOK
  <2>3. /\ q \in Demande /\ q.etape = "r_stock" /\ q.sorte = tx[d].sorte
        /\ q.livre = tx[d].livre /\ q.emprunt = tx[d].emprunt
    BY <1>0, <2>2 DEF Demande, Etapes, EtapesRetour
  <2>. HIDE DEF q
  <2>. QED
    BY <2>1, <2>3, <1>3 DEF EtapesTenues, EtapesRetour
<1>6. CASE ReincrementerStock(d)
  <2> DEFINE q == [tx[d] EXCEPT !.etape = "r_commit"]
  <2>1. /\ tx' = [tx EXCEPT ![d] = q] /\ UNCHANGED <<tables, jour, marquage>>
        /\ tx[d].etape = "r_stock" /\ ~LivreVerrouille(tx[d].livre)
    BY <1>6 DEF ReincrementerStock
  <2>2. /\ q \in Demande /\ q.etape = "r_commit" /\ q.sorte = tx[d].sorte
        /\ q.livre = tx[d].livre /\ q.emprunt = tx[d].emprunt
    BY <1>0 DEF Demande, Etapes, EtapesRetour
  <2>. HIDE DEF q
  <2>. QED
    BY <2>1, <2>2, <1>3 DEF EtapesTenues, EtapesRetour
<1>7. CASE RecevoirReponse(d)
  <2>1. /\ DemandeLibre \in Demande /\ tx' = [tx EXCEPT ![d] = DemandeLibre]
        /\ UNCHANGED <<tables, jour, marquage>>
    BY <1>7 DEF RecevoirReponse, DemandeLibre, Demande, Etapes
  <2>2. tx'[d].etape = "libre"
    BY <2>1 DEF TypeOK, DemandeLibre
  <2>3. DemandeCoherente(d)'
    BY <2>2 DEF DemandeCoherente, EtapesEmprunt, EtapesRetour, EtapesTenues
  <2>4. /\ \A l \in Livres : ~TientLivre(d, l)'
        /\ \A e \in Lignes : ~TientEmprunt(d, e)'
        /\ \A u \in Membres : d \notin EnInstance(u)'
    BY <2>2 DEF TientLivre, TientEmprunt, EnInstance, EtapesEmprunt, EtapesRetour
  <2>. HIDE DEF DemandeLibre
  <2>. QED
    BY <2>1, <2>3, <2>4, EtapeLocale
<1>. QED
  BY <1>1, <1>2, <1>4, <1>5, <1>6, <1>7

-----------------------------------------------------------------------------
(* Steps that commit *)

(* A changed row of livres is noted in the read views and nowhere else. *)
LEMMA LivreModifieGarde ==
  ASSUME TypeOK, NEW l \in Livres
  PROVE  /\ LivreModifie(l) \in [Demandes -> Demande]
         /\ \A f \in Demandes :
              LET q == LivreModifie(l)[f]
              IN  /\ q.etape = tx[f].etape /\ q.sorte = tx[f].sorte
                  /\ q.utilisateur = tx[f].utilisateur /\ q.livre = tx[f].livre
                  /\ q.emprunt = tx[f].emprunt /\ q.nbActifs = tx[f].nbActifs
                  /\ q.penalite = tx[f].penalite /\ q.effective = tx[f].effective
                  /\ q.reponse = tx[f].reponse
<1>1. ASSUME NEW f \in Demandes
      PROVE  /\ VuePerimee(f, l) \in Demande
             /\ VuePerimee(f, l).etape = tx[f].etape
             /\ VuePerimee(f, l).sorte = tx[f].sorte
             /\ VuePerimee(f, l).utilisateur = tx[f].utilisateur
             /\ VuePerimee(f, l).livre = tx[f].livre
             /\ VuePerimee(f, l).emprunt = tx[f].emprunt
             /\ VuePerimee(f, l).nbActifs = tx[f].nbActifs
             /\ VuePerimee(f, l).penalite = tx[f].penalite
             /\ VuePerimee(f, l).effective = tx[f].effective
             /\ VuePerimee(f, l).reponse = tx[f].reponse
  <2>1. tx[f] \in Demande
    BY DEF TypeOK
  <2>. QED
    BY <2>1 DEF VuePerimee, Demande
<1>. HIDE DEF VuePerimee
<1>. QED
  BY <1>1 DEF LivreModifie

(* The transaction that commits releases its locks and leaves the others     *)
(* where they are.                                                           *)
LEMMA CommitLibere ==
  ASSUME Socle, NEW d \in Demandes, NEW l \in Livres, NEW q \in Demande,
         q.etape = "lecture", q.emprunt \in Lignes,
         tx' = [LivreModifie(l) EXCEPT ![d] = q]
  PROVE  /\ tx' \in [Demandes -> Demande]
         /\ tx'[d] = q
         /\ \A f \in Demandes \ {d} :
              /\ tx'[f].etape = tx[f].etape /\ tx'[f].sorte = tx[f].sorte
              /\ tx'[f].utilisateur = tx[f].utilisateur /\ tx'[f].livre = tx[f].livre
              /\ tx'[f].emprunt = tx[f].emprunt /\ tx'[f].nbActifs = tx[f].nbActifs
         /\ \A f \in Demandes, b \in Livres :
              TientLivre(f, b)' <=> f # d /\ TientLivre(f, b)
         /\ \A f \in Demandes, e \in Lignes :
              TientEmprunt(f, e)' <=> f # d /\ TientEmprunt(f, e)
         /\ \A u : EnInstance(u)' = EnInstance(u) \ {d}
<1>1. /\ LivreModifie(l) \in [Demandes -> Demande]
      /\ \A f \in Demandes :
           LET r == LivreModifie(l)[f]
           IN  /\ r.etape = tx[f].etape /\ r.sorte = tx[f].sorte
               /\ r.utilisateur = tx[f].utilisateur /\ r.livre = tx[f].livre
               /\ r.emprunt = tx[f].emprunt /\ r.nbActifs = tx[f].nbActifs
  BY LivreModifieGarde DEF Socle
<1>. HIDE DEF LivreModifie
<1>2. /\ tx' \in [Demandes -> Demande]
      /\ tx'[d] = q
      /\ \A f \in Demandes \ {d} : tx'[f] = LivreModifie(l)[f]
  BY <1>1
<1>3. \A f \in Demandes \ {d} :
              /\ tx'[f].etape = tx[f].etape /\ tx'[f].sorte = tx[f].sorte
              /\ tx'[f].utilisateur = tx[f].utilisateur /\ tx'[f].livre = tx[f].livre
              /\ tx'[f].emprunt = tx[f].emprunt /\ tx'[f].nbActifs = tx[f].nbActifs
  BY <1>1, <1>2
<1>4. /\ \A f \in Demandes, b \in Livres :
           TientLivre(f, b)' <=> f # d /\ TientLivre(f, b)
      /\ \A f \in Demandes, e \in Lignes :
           TientEmprunt(f, e)' <=> f # d /\ TientEmprunt(f, e)
  BY <1>2, <1>3 DEF TientLivre, TientEmprunt, EtapesRetour
<1>5. ASSUME NEW u
      PROVE  EnInstance(u)' = EnInstance(u) \ {d}
  BY <1>2, <1>3 DEF EnInstance, EtapesEmprunt
<1>. QED
  BY <1>2, <1>3, <1>4, <1>5

(* Lending: one copy less on the shelf, one active loan more, one request    *)
(* less below the quota.                                                     *)
LEMMA EnregistrerGarde ==
  ASSUME Socle, NEW d \in Demandes, EnregistrerEmprunt(d)
  PROVE  Maintien
<1>. USE DEF Socle
<1>1. PICK e \in Lignes :
        /\ emprunts[e] = Absente
        /\ emprunts' = [emprunts EXCEPT ![e] = NouvelEmprunt(d)]
        /\ dispo' = [dispo EXCEPT ![tx[d].livre] = @ - 1]
        /\ tx' = [LivreModifie(tx[d].livre) EXCEPT
                    ![d] = [tx[d] EXCEPT !.etape = "lecture", !.emprunt = e]]
  BY DEF EnregistrerEmprunt
<1>2. /\ tx[d].etape = "e_ecriture" /\ UNCHANGED <<total, fiche, compte, jour, marquage>>
  BY DEF EnregistrerEmprunt
<1>3. /\ tx[d] \in Demande /\ DemandeCoherente(d)
  BY DEF TypeOK
<1>l. PICK l \in Livres : l = tx[d].livre
  BY <1>2, <1>3 DEF DemandeCoherente, EtapesEmprunt
<1>u. PICK u \in Membres : u = tx[d].utilisateur
  BY <1>2, <1>3 DEF DemandeCoherente, EtapesEmprunt
<1>4. /\ dispo[l] \in Nat /\ dispo[l] > 0
      /\ tx[d].nbActifs < Quota
  BY <1>2, <1>3, <1>l, QuotaPositif DEF DemandeCoherente, EtapesEmprunt, TypeOK, Demande
<1> DEFINE q == [tx[d] EXCEPT !.etape = "lecture", !.emprunt = e]
<1>5. q \in Demande /\ q.etape = "lecture" /\ q.emprunt = e
  BY <1>3 DEF Demande, Etapes
<1>6. PICK p \in LigneEmprunt :
        p = NouvelEmprunt(d) /\ p.statut = "en_cours" /\ p.livre = l /\ p.utilisateur = u
  <2>1. jour + tx[d].duree \in Nat
    BY <1>3 DEF TypeOK, Demande
  <2>2. NouvelEmprunt(d) \in LigneEmprunt
    BY <2>1, <1>l, <1>u DEF NouvelEmprunt, LigneEmprunt
  <2>. QED
    BY <2>2, <1>l, <1>u DEF NouvelEmprunt
<1>. HIDE DEF q, NouvelEmprunt, LivreModifie
<1>7. tx' = [LivreModifie(l) EXCEPT ![d] = q]
  BY <1>1, <1>l DEF q
<1>8. /\ tx' \in [Demandes -> Demande]
      /\ tx'[d] = q
      /\ \A f \in Demandes \ {d} :
           /\ tx'[f].etape = tx[f].etape /\ tx'[f].sorte = tx[f].sorte
           /\ tx'[f].utilisateur = tx[f].utilisateur /\ tx'[f].livre = tx[f].livre
           /\ tx'[f].emprunt = tx[f].emprunt /\ tx'[f].nbActifs = tx[f].nbActifs
      /\ \A f \in Demandes, b \in Livres :
           TientLivre(f, b)' <=> f # d /\ TientLivre(f, b)
      /\ \A f \in Demandes, g \in Lignes :
           TientEmprunt(f, g)' <=> f # d /\ TientEmprunt(f, g)
      /\ \A m : EnInstance(m)' = EnInstance(m) \ {d}
  BY <1>5, <1>7, CommitLibere
<1>9. /\ emprunts' \in [Lignes -> LigneEmprunt \cup {Absente, Effacee}]
      /\ emprunts'[e] = p
      /\ \A g \in Lignes \ {e} : emprunts'[g] = emprunts[g]
      /\ ~EstActif(e) /\ EstActif(e)'
  BY <1>1, <1>6 DEF TypeOK, EstActif, StatutsActifs, Absente
<1>10. /\ dispo' \in [Livres -> Nat] /\ dispo'[l] = dispo[l] - 1
       /\ \A b \in Livres \ {l} : dispo'[b] = dispo[b]
  BY <1>1, <1>4, <1>l DEF TypeOK
<1>11. TypeOK'
  BY <1>2, <1>8, <1>9, <1>10 DEF TypeOK
<1>12. ASSUME NEW f \in Demandes
       PROVE  DemandeCoherente(f)'
  <2>1. CASE f = d
    BY <2>1, <1>5, <1>8 DEF DemandeCoherente, EtapesEmprunt, EtapesRetour, EtapesTenues
  <2>2. CASE f # d
    <3>1. tx[f].etape = "e_ecriture" => tx[f].livre \in Livres \ {l}
      BY <2>2, <1>2, <1>l
         DEF VerrousExclusifs, TientLivre, DemandeCoherente, EtapesEmprunt
    <3>2. tx[f].etape \in EtapesTenues => tx[f].emprunt \in Lignes \ {e}
      BY <1>9 DEF DemandeCoherente, EtapesTenues
    <3>. QED
      BY <2>2, <3>1, <3>2, <1>2, <1>8, <1>9, <1>10 DEF DemandeCoherente, EstActif
  <2>. QED
    BY <2>1, <2>2
<1>13. VerrousExclusifs'
  <2>1. \A g \in marquage.lignes : g \in Lignes \ {e}
    BY <1>1 DEF VerrousExclusifs, Absente, TypeOK
  <2>. QED
    BY <2>1, <1>2, <1>8, <1>9 DEF VerrousExclusifs
<1>14. Conservation => Conservation'
  <2>. SUFFICES ASSUME Conservation
               PROVE  Conservation'
    OBVIOUS
  <2>1. /\ ActifsDuLivre(l)' = ActifsDuLivre(l) \cup {e} /\ e \notin ActifsDuLivre(l)
        /\ \A b \in Livres \ {l} : ActifsDuLivre(b)' = ActifsDuLivre(b)
    BY <1>6, <1>9 DEF ActifsDuLivre, EstActif
  <2>2. Cardinality(ActifsDuLivre(l)') = Cardinality(ActifsDuLivre(l)) + 1
    BY <2>1, DenombrementFini, FS_AddElement
  <2>3. \A b \in Livres : total[b] \in Nat /\ dispo[b] \in Nat
                          /\ Cardinality(ActifsDuLivre(b)) \in Nat
    BY DenombrementFini DEF TypeOK
  <2>. SUFFICES ASSUME NEW b \in Livres
               PROVE  dispo'[b] + Cardinality(ActifsDuLivre(b)') = total'[b]
    BY DEF Conservation
  <2>. QED
    <3>1. CASE b = l
      <4>1. dispo[l] + Cardinality(ActifsDuLivre(l)) = total[l]
        BY DEF Conservation
      <4>. QED
        BY <4>1, <3>1, <2>2, <2>3, <1>2, <1>10
    <3>2. CASE b # l
      BY <3>2, <2>1, <1>2, <1>10 DEF Conservation
    <3>. QED
      BY <3>1, <3>2
<1>15. DepassementPrevu => DepassementPrevu'
  <2>. SUFFICES ASSUME DepassementPrevu
               PROVE  DepassementPrevu'
    OBVIOUS
  <2>1. /\ ActifsDuMembre(u)' = ActifsDuMembre(u) \cup {e} /\ e \notin ActifsDuMembre(u)
        /\ \A m \in Membres \ {u} : ActifsDuMembre(m)' = ActifsDuMembre(m)
    BY <1>6, <1>9 DEF ActifsDuMembre, EstActif
  <2>2. Cardinality(ActifsDuMembre(u)') = Cardinality(ActifsDuMembre(u)) + 1
    BY <2>1, DenombrementFini, FS_AddElement
  <2>3. d \in EnInstance(u)
    BY <1>2, <1>4, <1>u DEF EnInstance, EtapesEmprunt
  <2>4. /\ Cardinality(EnInstance(u)') = Cardinality(EnInstance(u)) - 1
        /\ \A m \in Membres \ {u} : EnInstance(m)' = EnInstance(m)
    <3>1. \A m \in Membres \ {u} : d \notin EnInstance(m)
      BY <1>u DEF EnInstance
    <3>2. Cardinality(EnInstance(u) \ {d}) = Cardinality(EnInstance(u)) - 1
      BY <2>3, DenombrementFini, FS_RemoveElement
    <3>. QED
      BY <2>3, <3>1, <3>2, <1>8, DenombrementFini
  <2>. SUFFICES ASSUME NEW m \in Membres
               PROVE  Cardinality(ActifsDuMembre(m)') + Cardinality(EnInstance(m)')
                        <= Quota + Cardinality(Demandes) - 1
    BY DEF DepassementPrevu
  <2>. QED
    <3>1. CASE m = u
      BY <3>1, <2>2, <2>4, DenombrementFini, QuotaPositif DEF DepassementPrevu
    <3>2. CASE m # u
      BY <3>2, <2>1, <2>4 DEF DepassementPrevu
    <3>. QED
      BY <3>1, <3>2
<1>. QED
  BY <1>11, <1>12, <1>13, <1>14, <1>15 DEF Maintien

(* With fewer loans and fewer requests below the quota, the bound still holds. *)
LEMMA DepassementDecroit ==
  ASSUME DepassementPrevu,
         \A u \in Membres : /\ ActifsDuMembre(u)' \subseteq ActifsDuMembre(u)
                            /\ EnInstance(u)' \subseteq EnInstance(u)
  PROVE  DepassementPrevu'
<1>. SUFFICES ASSUME NEW u \in Membres
             PROVE  Cardinality(ActifsDuMembre(u)') + Cardinality(EnInstance(u)')
                      <= Quota + Cardinality(Demandes) - 1
  BY DEF DepassementPrevu
<1>1. /\ Cardinality(ActifsDuMembre(u)') <= Cardinality(ActifsDuMembre(u))
      /\ Cardinality(ActifsDuMembre(u)') \in Nat
  BY DenombrementFini, FS_Subset, FS_CardinalityType
<1>2. /\ Cardinality(EnInstance(u)') <= Cardinality(EnInstance(u))
      /\ Cardinality(EnInstance(u)') \in Nat
  BY DenombrementFini, FS_Subset, FS_CardinalityType
<1>. QED
  BY <1>1, <1>2, DenombrementFini, QuotaPositif DEF DepassementPrevu

(* Returning: one active loan less, one copy more on the shelf. *)
LEMMA ValiderRetourGarde ==
  ASSUME Socle, NEW d \in Demandes, ValiderRetour(d)
  PROVE  Maintien
<1>. USE DEF Socle
<1>1. /\ tx[d].etape = "r_commit" /\ UNCHANGED <<total, fiche, compte, jour, marquage>>
  BY DEF ValiderRetour
<1>2. /\ tx[d] \in Demande /\ DemandeCoherente(d)
  BY DEF TypeOK
<1>e. PICK e \in Lignes : e = tx[d].emprunt /\ EstActif(e) /\ emprunts[e].livre = tx[d].livre
  BY <1>1, <1>2 DEF DemandeCoherente, EtapesRetour, EtapesTenues
<1>3. emprunts[e] \in LigneEmprunt
  BY <1>e DEF TypeOK, EstActif, StatutsActifs, Absente, Effacee
<1>l. PICK l \in Livres : l = tx[d].livre
  BY <1>3, <1>e DEF LigneEmprunt
<1> DEFINE q == [tx[d] EXCEPT !.etape = "lecture"]
           p == [emprunts[e] EXCEPT !.statut = "rendu", !.effective = tx[d].effective,
                                    !.penalite = tx[d].penalite]
<1>4. q \in Demande /\ q.etape = "lecture" /\ q.emprunt = e
  BY <1>2, <1>e DEF Demande, Etapes
<1>5. p \in LigneEmprunt /\ p.statut = "rendu"
  BY <1>2, <1>3 DEF LigneEmprunt, Demande
<1>6. emprunts' = [emprunts EXCEPT ![e] = p]
  BY <1>e DEF ValiderRetour, TypeOK
<1>7. dispo' = [dispo EXCEPT ![l] = @ + 1]
  BY <1>l DEF ValiderRetour
<1>. HIDE DEF q, p, LivreModifie
<1>8. tx' = [LivreModifie(l) EXCEPT ![d] = q]
  BY <1>l DEF ValiderRetour, q
<1>9. /\ tx' \in [Demandes -> Demande]
      /\ tx'[d] = q
      /\ \A f \in Demandes \ {d} :
           /\ tx'[f].etape = tx[f].etape /\ tx'[f].sorte = tx[f].sorte
           /\ tx'[f].utilisateur = tx[f].utilisateur /\ tx'[f].livre = tx[f].livre
           /\ tx'[f].emprunt = tx[f].emprunt /\ tx'[f].nbActifs = tx[f].nbActifs
      /\ \A f \in Demandes, b \in Livres :
           TientLivre(f, b)' <=> f # d /\ TientLivre(f, b)
      /\ \A f \in Demandes, g \in Lignes :
           TientEmprunt(f, g)' <=> f # d /\ TientEmprunt(f, g)
      /\ \A m : EnInstance(m)' = EnInstance(m) \ {d}
  BY <1>4, <1>8, CommitLibere
<1>10. /\ emprunts' \in [Lignes -> LigneEmprunt \cup {Absente, Effacee}]
       /\ emprunts'[e] = p
       /\ \A g \in Lignes \ {e} : emprunts'[g] = emprunts[g]
       /\ ~EstActif(e)'
  BY <1>5, <1>6 DEF TypeOK, EstActif, StatutsActifs
<1>11. /\ dispo' \in [Livres -> Nat] /\ dispo'[l] = dispo[l] + 1
       /\ \A b \in Livres \ {l} : dispo'[b] = dispo[b]
  BY <1>7 DEF TypeOK
<1>12. TypeOK'
  BY <1>1, <1>9, <1>10, <1>11 DEF TypeOK
<1>13. TientEmprunt(d, e)
  BY <1>1, <1>e DEF TientEmprunt, EtapesRetour
<1>14. ASSUME NEW f \in Demandes
       PROVE  DemandeCoherente(f)'
  <2>1. CASE f = d
    BY <2>1, <1>4, <1>9 DEF DemandeCoherente, EtapesEmprunt, EtapesRetour, EtapesTenues
  <2>2. CASE f # d
    <3>1. tx[f].etape = "e_ecriture" => tx[f].livre \in Livres
      BY DEF DemandeCoherente, EtapesEmprunt
    <3>2. tx[f].etape = "e_ecriture" => dispo'[tx[f].livre] > 0
      BY <3>1, <1>11 DEF DemandeCoherente, TypeOK
    <3>3. tx[f].etape \in EtapesTenues => tx[f].emprunt \in Lignes \ {e}
      BY <2>2, <1>13 DEF VerrousExclusifs, TientEmprunt, DemandeCoherente, EtapesTenues
    <3>. QED
      BY <2>2, <3>2, <3>3, <1>1, <1>9, <1>10 DEF DemandeCoherente, EstActif
  <2>. QED
    BY <2>1, <2>2
<1>15. VerrousExclusifs'
  <2>1. \A g \in marquage.lignes : g \in Lignes \ {e}
    BY <1>13 DEF VerrousExclusifs, TypeOK
  <2>. QED
    BY <2>1, <1>1, <1>9, <1>10 DEF VerrousExclusifs
<1>16. Conservation => Conservation'
  <2>. SUFFICES ASSUME Conservation
               PROVE  Conservation'
    OBVIOUS
  <2>1. /\ ActifsDuLivre(l)' = ActifsDuLivre(l) \ {e} /\ e \in ActifsDuLivre(l)
        /\ \A b \in Livres \ {l} : ActifsDuLivre(b)' = ActifsDuLivre(b)
    BY <1>e, <1>l, <1>10 DEF ActifsDuLivre, EstActif
  <2>2. Cardinality(ActifsDuLivre(l)') = Cardinality(ActifsDuLivre(l)) - 1
    BY <2>1, DenombrementFini, FS_RemoveElement
  <2>. SUFFICES ASSUME NEW b \in Livres
               PROVE  dispo'[b] + Cardinality(ActifsDuLivre(b)') = total'[b]
    BY DEF Conservation
  <2>3. total[b] \in Nat /\ dispo[b] \in Nat /\ Cardinality(ActifsDuLivre(b)) \in Nat
        /\ dispo[b] + Cardinality(ActifsDuLivre(b)) = total[b]
    BY DenombrementFini DEF TypeOK, Conservation
  <2>4. CASE b = l
    BY <2>4, <2>2, <2>3, <1>1, <1>11
  <2>5. CASE b # l
    BY <2>5, <2>1, <2>3, <1>1, <1>11
  <2>. QED
    BY <2>4, <2>5
<1>17. DepassementPrevu => DepassementPrevu'
  <2>1. \A m \in Membres : ActifsDuMembre(m)' \subseteq ActifsDuMembre(m)
    BY <1>10 DEF ActifsDuMembre, EstActif
  <2>2. \A m \in Membres : EnInstance(m)' \subseteq EnInstance(m)
    BY <1>9
  <2>. QED
    BY <2>1, <2>2, DepassementDecroit
<1>. QED
  BY <1>12, <1>14, <1>15, <1>16, <1>17 DEF Maintien

-----------------------------------------------------------------------------
(* Steps that leave every request where it is *)

(* The event changes only rows it locked, which no return in progress holds. *)
LEMMA MarquageGarde ==
  ASSUME Socle,
         \/ LancerMarquage \/ (\E e \in Lignes : VerrouillerRetard(e)) \/ ValiderMarquage
  PROVE  Maintien
<1>. USE DEF Socle, tables, stock
<1>1. UNCHANGED <<total, dispo, fiche, compte, jour, tx>>
  BY DEF LancerMarquage, VerrouillerRetard, ValiderMarquage
<1>2. \A u : EnInstance(u)' = EnInstance(u)
  BY <1>1 DEF EnInstance
<1>3. /\ \A d \in Demandes, l \in Livres : TientLivre(d, l)' <=> TientLivre(d, l)
      /\ \A d \in Demandes, e \in Lignes : TientEmprunt(d, e)' <=> TientEmprunt(d, e)
  BY <1>1 DEF TientLivre, TientEmprunt
<1>4. ASSUME UNCHANGED emprunts,
             marquage' \in [date: Nat \cup {Aucun}, lignes: SUBSET Lignes],
             \A e \in marquage'.lignes : /\ \A d \in Demandes : ~TientEmprunt(d, e)
                                         /\ emprunts[e].statut = "en_cours"
      PROVE  Maintien
  <2>1. TypeOK' /\ \A d \in Demandes : DemandeCoherente(d)'
    BY <1>1, <1>4 DEF TypeOK, DemandeCoherente, EstActif
  <2>2. VerrousExclusifs'
    <3>1. \A e \in marquage'.lignes : e \in Lignes
      BY <1>4
    <3>. QED
      BY <3>1, <1>3, <1>4 DEF VerrousExclusifs
  <2>3. /\ \A l : ActifsDuLivre(l)' = ActifsDuLivre(l)
        /\ \A u : ActifsDuMembre(u)' = ActifsDuMembre(u)
    BY <1>4 DEF ActifsDuLivre, ActifsDuMembre, EstActif
  <2>4. (Conservation => Conservation') /\ (DepassementPrevu => DepassementPrevu')
    BY <1>1, <1>2, <2>3 DEF Conservation, DepassementPrevu
  <2>. QED
    BY <2>1, <2>2, <2>4 DEF Maintien
<1>5. CASE LancerMarquage
  <2>1. marquage' = [date |-> jour, lignes |-> {}] /\ UNCHANGED emprunts
    BY <1>5 DEF LancerMarquage
  <2>. QED
    BY <2>1, <1>4 DEF TypeOK
<1>6. CASE \E e \in Lignes : VerrouillerRetard(e)
  <2>1. PICK e \in Lignes : VerrouillerRetard(e)
    BY <1>6
  <2>2. /\ marquage' = [marquage EXCEPT !.lignes = @ \cup {e}] /\ UNCHANGED emprunts
        /\ emprunts[e].statut = "en_cours" /\ \A d \in Demandes : ~TientEmprunt(d, e)
    BY <2>1 DEF VerrouillerRetard, AMarquer, EmpruntVerrouille
  <2>3. /\ marquage' \in [date: Nat \cup {Aucun}, lignes: SUBSET Lignes]
        /\ marquage'.lignes = marquage.lignes \cup {e}
    BY <2>2 DEF TypeOK
  <2>. QED
    BY <2>2, <2>3, <1>4 DEF VerrousExclusifs
<1>7. CASE ValiderMarquage
  <2>1. /\ marquage' = SansMarquage
        /\ emprunts' = [e \in Lignes |->
                          IF e \in marquage.lignes
                          THEN [emprunts[e] EXCEPT !.statut = "en_retard"]
                          ELSE emprunts[e]]
    BY <1>7 DEF ValiderMarquage
  <2>2. ASSUME NEW e \in Lignes
        PROVE  /\ emprunts'[e] \in LigneEmprunt \cup {Absente, Effacee}
               /\ EstActif(e)' <=> EstActif(e)
               /\ EstActif(e) => /\ emprunts'[e].livre = emprunts[e].livre
                                 /\ emprunts'[e].utilisateur = emprunts[e].utilisateur
    <3>1. CASE e \in marquage.lignes
      <4>1. emprunts[e].statut = "en_cours"
        BY <3>1 DEF VerrousExclusifs
      <4>2. emprunts[e] \in LigneEmprunt
        BY <4>1 DEF TypeOK, Absente, Effacee
      <4>3. emprunts'[e] = [emprunts[e] EXCEPT !.statut = "en_retard"]
        BY <2>1, <3>1
      <4>. QED
        BY <4>1, <4>2, <4>3 DEF EstActif, StatutsActifs, LigneEmprunt
    <3>2. CASE e \notin marquage.lignes
      BY <2>1, <3>2 DEF TypeOK, EstActif
    <3>. QED
      BY <3>1, <3>2
  <2>3. TypeOK'
    <3>1. emprunts' \in [Lignes -> LigneEmprunt \cup {Absente, Effacee}]
      BY <2>1, <2>2
    <3>. QED
      BY <2>1, <3>1, <1>1 DEF TypeOK, SansMarquage
  <2>4. ASSUME NEW d \in Demandes
        PROVE  DemandeCoherente(d)'
    <3>1. tx[d].etape \in EtapesTenues => tx[d].emprunt \in Lignes
      BY DEF DemandeCoherente, EtapesTenues
    <3>. QED
      BY <3>1, <2>2, <1>1 DEF DemandeCoherente
  <2>5. VerrousExclusifs'
    BY <2>1, <1>3 DEF VerrousExclusifs, SansMarquage
  <2>6. /\ \A l : ActifsDuLivre(l)' = ActifsDuLivre(l)
        /\ \A u : ActifsDuMembre(u)' = ActifsDuMembre(u)
    BY <2>2 DEF ActifsDuLivre, ActifsDuMembre
  <2>7. (Conservation => Conservation') /\ (DepassementPrevu => DepassementPrevu')
    BY <1>1, <1>2, <2>6 DEF Conservation, DepassementPrevu
  <2>. QED
    BY <2>3, <2>4, <2>5, <2>7 DEF Maintien
<1>. QED
  BY <1>5, <1>6, <1>7

(* A day passes, an account is changed. *)
LEMMA AlentourGarde ==
  ASSUME Socle, JourSuivant \/ \E u \in Membres : ChangerCompte(u)
  PROVE  Maintien
<1>. USE DEF Socle
<1>1. /\ UNCHANGED <<total, dispo, fiche, emprunts, marquage, tx>>
      /\ compte' \in [Membres -> {"actif", "inactif", "efface"}] /\ jour' \in Nat
  BY DEF JourSuivant, ChangerCompte, tables, stock, TypeOK
<1>2. TypeOK' /\ \A d \in Demandes : DemandeCoherente(d)'
  BY <1>1 DEF TypeOK, DemandeCoherente, EstActif
<1>3. VerrousExclusifs'
  BY <1>1 DEF VerrousExclusifs, TientLivre, TientEmprunt
<1>4. \A u : ActifsDuMembre(u)' = ActifsDuMembre(u) /\ EnInstance(u)' = EnInstance(u)
  BY <1>1 DEF ActifsDuMembre, EstActif, EnInstance
<1>5. \A l : ActifsDuLivre(l)' = ActifsDuLivre(l)
  BY <1>1 DEF ActifsDuLivre, EstActif
<1>. QED
  BY <1>1, <1>2, <1>3, <1>4, <1>5 DEF Conservation, DepassementPrevu, Maintien

(* A book is withdrawn only when no loan of it is about to be recorded. *)
LEMMA RetirerLivreGarde ==
  ASSUME Socle, NEW l \in Livres, RetirerLivre(l)
  PROVE  Maintien
<1>. USE DEF Socle
<1>1. /\ ~LivreVerrouille(l) /\ fiche' = [fiche EXCEPT ![l] = "retire"]
      /\ tx' = LivreModifie(l)
      /\ UNCHANGED <<total, dispo, compte, emprunts, jour, marquage>>
  BY DEF RetirerLivre, stock
<1>. HIDE DEF LivreModifie
<1>2. /\ tx' \in [Demandes -> Demande]
      /\ \A f \in Demandes :
           /\ tx'[f].etape = tx[f].etape /\ tx'[f].sorte = tx[f].sorte
           /\ tx'[f].utilisateur = tx[f].utilisateur /\ tx'[f].livre = tx[f].livre
           /\ tx'[f].emprunt = tx[f].emprunt /\ tx'[f].nbActifs = tx[f].nbActifs
  BY <1>1, LivreModifieGarde
<1>3. TypeOK'
  BY <1>1, <1>2 DEF TypeOK
<1>4. ASSUME NEW d \in Demandes
      PROVE  DemandeCoherente(d)'
  <2>1. tx[d].etape = "e_ecriture" =>
          fiche'[tx[d].livre] = fiche[tx[d].livre]
    BY <1>1 DEF LivreVerrouille, TientLivre, DemandeCoherente, EtapesEmprunt, TypeOK
  <2>. QED
    BY <2>1, <1>1, <1>2 DEF DemandeCoherente, EstActif
<1>5. VerrousExclusifs'
  BY <1>1, <1>2 DEF VerrousExclusifs, TientLivre, TientEmprunt, TypeOK
<1>6. \A u : ActifsDuMembre(u)' = ActifsDuMembre(u) /\ EnInstance(u)' = EnInstance(u)
  BY <1>1, <1>2 DEF ActifsDuMembre, EstActif, EnInstance
<1>7. \A b : ActifsDuLivre(b)' = ActifsDuLivre(b)
  BY <1>1 DEF ActifsDuLivre, EstActif
<1>. QED
  BY <1>1, <1>3, <1>4, <1>5, <1>6, <1>7 DEF Conservation, DepassementPrevu, Maintien

-----------------------------------------------------------------------------
(* The theorems *)

(* No loan, no request: the invariant holds when the library opens. *)
LEMMA InvariantInitial == Init => Invariant
<1>. SUFFICES ASSUME Init PROVE Invariant
  OBVIOUS
<1>. USE DEF Init, SansCirculation
<1>1. DemandeLibre \in Demande
  BY DEF DemandeLibre, Demande, Etapes
<1>2. TypeOK
  BY <1>1, StocksNaturels DEF TypeOK, SansMarquage
<1>3. \A d \in Demandes : tx[d].etape = "libre"
  BY DEF DemandeLibre
<1>4. \A d \in Demandes : DemandeCoherente(d)
  BY <1>3 DEF DemandeCoherente, EtapesEmprunt, EtapesRetour, EtapesTenues
<1>5. VerrousExclusifs
  BY <1>3 DEF VerrousExclusifs, TientLivre, TientEmprunt, EtapesRetour, SansMarquage
<1>6. \A l : ActifsDuLivre(l) = {}
  BY DEF ActifsDuLivre, EstActif, StatutsActifs, Absente
<1>7. \A u : ActifsDuMembre(u) = {} /\ EnInstance(u) = {}
  BY <1>3 DEF ActifsDuMembre, EstActif, StatutsActifs, Absente, EnInstance, EtapesEmprunt
<1>8. Cardinality({}) = 0
  BY FS_EmptySet
<1>9. Conservation
  <2>1. \A l \in Livres : dispo[l] = total[l] /\ total[l] \in Nat
    BY <1>2 DEF TypeOK
  <2>. QED
    BY <2>1, <1>6, <1>8 DEF Conservation
<1>10. DepassementPrevu
  BY <1>7, <1>8, QuotaPositif, DenombrementFini DEF DepassementPrevu
<1>. QED
  BY <1>2, <1>4, <1>5, <1>9, <1>10 DEF Invariant, Socle

(* Every step of every request, of the event and of the rest keeps it. *)
LEMMA PasMaintenu == ASSUME Socle, [Next]_vars PROVE Maintien
<1>1. CASE UNCHANGED vars
  BY <1>1 DEF vars, Maintien, Socle, TypeOK, DemandeCoherente, VerrousExclusifs, Conservation,
              DepassementPrevu, ActifsDuLivre, ActifsDuMembre, EstActif, EnInstance,
              TientLivre, TientEmprunt
<1>2. ASSUME NEW d \in Demandes,
             NouvelleDemande(d) \/ EtapeEmprunt(d) \/ EtapeRetour(d) \/ Achevement(d) \/ Annuler(d)
      PROVE  Maintien
  <2>1. CASE NouvelleDemande(d)
    BY <2>1, NouvelleDemandeLocale
  <2>2. CASE \/ VerrouillerLivre(d) \/ VerrouillerEmprunt(d) \/ CalculerPenalite(d)
             \/ CloturerEmprunt(d) \/ ReincrementerStock(d) \/ RecevoirReponse(d)
    BY <2>2, AvanceLocale
  <2>3. CASE EnregistrerEmprunt(d)
    BY <2>3, EnregistrerGarde
  <2>4. CASE ValiderRetour(d)
    BY <2>4, ValiderRetourGarde
  <2>5. CASE \/ RefuserVuePerimee(d) \/ RefuserLivre(d) \/ RefuserConflit(d)
             \/ RefuserEmpruntInconnu(d) \/ RefuserDejaRendu(d)
             \/ RelireEmprunt(d) \/ PerdreResultat(d) \/ Annuler(d)
    <3>1. /\ \E r \in Reponses : Repondre(d, r)
          /\ UNCHANGED <<tables, jour, marquage>>
      BY <2>5 DEF RefuserVuePerimee, RefuserLivre, RefuserConflit,
                  RefuserEmpruntInconnu, RefuserDejaRendu, RelireEmprunt, PerdreResultat, Annuler, Reponses
    <3>. QED
      BY <3>1, ReponseLocale
  <2>. QED
    BY <1>2, <2>1, <2>2, <2>3, <2>4, <2>5 DEF EtapeEmprunt, EtapeRetour, Achevement
<1>3. CASE LancerMarquage \/ (\E e \in Lignes : VerrouillerRetard(e)) \/ ValiderMarquage
  BY <1>3, MarquageGarde
<1>4. CASE JourSuivant \/ \E u \in Membres : ChangerCompte(u)
  BY <1>4, AlentourGarde
<1>5. CASE \E l \in Livres : RetirerLivre(l)
  BY <1>5, RetirerLivreGarde
<1>. QED
  BY <1>1, <1>2, <1>3, <1>4, <1>5 DEF Next

(* Every statement, cancellation, event and day keeps the invariant.        *)
LEMMA InvariantInductif == Invariant /\ [Next]_vars => Invariant'
BY PasMaintenu DEF Invariant, Maintien

(* Every variable keeps its type, the row locks are exclusive, what each     *)
(* stage of a request has checked stays true while it holds its locks.       *)
THEOREM InvariantTenu == Spec => []Invariant
BY InvariantInitial, InvariantInductif, PTL DEF Spec

(* The counter of a book always is the copies owned less the loans under     *)
(* way, however loans, returns, cancellations and the event interleave.      *)
THEOREM StockConserve == Spec => []Conservation
<1>1. Invariant => Conservation
  BY DEF Invariant
<1>. QED
  BY <1>1, InvariantTenu, PTL

(* A return that has reached the stock is never refused by the trigger. *)
THEOREM RetourAccepte == Spec => []RetourJamaisRefuse
<1>1. Invariant => RetourJamaisRefuse
  <2>. SUFFICES ASSUME Invariant, NEW d \in Demandes, tx[d].etape \in {"r_stock", "r_commit"}
               PROVE  dispo[tx[d].livre] < total[tx[d].livre]
    BY DEF RetourJamaisRefuse
  <2>1. PICK e \in Lignes : EstActif(e) /\ emprunts[e].livre = tx[d].livre
    BY DEF Invariant, Socle, DemandeCoherente, EtapesRetour, EtapesTenues
  <2>2. emprunts[e].livre \in Livres
    BY <2>1 DEF Invariant, Socle, TypeOK, EstActif, StatutsActifs, Absente, Effacee, LigneEmprunt
  <2>3. dispo[tx[d].livre] \in Nat /\ total[tx[d].livre] \in Nat
    BY <2>1, <2>2 DEF Invariant, Socle, TypeOK
  <2>. QED
    BY <2>1, <2>2, <2>3, PretOccupeUnExemplaire DEF Invariant
<1>. QED
  BY <1>1, InvariantTenu, PTL

(* The quota is exceeded by at most the requests served beside one. *)
THEOREM DepassementContenu == Spec => []DepassementBorne
<1>1. Invariant => DepassementBorne
  BY DenombrementFini, QuotaPositif DEF Invariant, DepassementPrevu, DepassementBorne
<1>. QED
  BY <1>1, InvariantTenu, PTL

-----------------------------------------------------------------------------
(* What one step may do to the requests and to the rows of emprunts *)

PasDe(d) ==
  NouvelleDemande(d) \/ EtapeEmprunt(d) \/ EtapeRetour(d) \/ Achevement(d) \/ Annuler(d)

Immobile(f) ==
  /\ tx'[f].etape = tx[f].etape /\ tx'[f].sorte = tx[f].sorte
  /\ tx'[f].utilisateur = tx[f].utilisateur /\ tx'[f].livre = tx[f].livre
  /\ tx'[f].emprunt = tx[f].emprunt /\ tx'[f].penalite = tx[f].penalite
  /\ tx'[f].effective = tx[f].effective /\ tx'[f].reponse = tx[f].reponse

(* The row a return holds is that of an active loan of the book it holds. *)
LEMMA LigneTenue ==
  ASSUME Socle, NEW d \in Demandes, tx[d].etape \in EtapesTenues
  PROVE  /\ tx[d].emprunt \in Lignes /\ EstActif(tx[d].emprunt)
         /\ emprunts[tx[d].emprunt] \in LigneEmprunt
         /\ tx[d].livre = emprunts[tx[d].emprunt].livre
         /\ tx[d].livre \in Livres /\ tx[d].sorte = "retour"
<1>1. /\ tx[d].emprunt \in Lignes /\ EstActif(tx[d].emprunt) /\ tx[d].sorte = "retour"
      /\ emprunts[tx[d].emprunt].livre = tx[d].livre
  BY DEF Socle, DemandeCoherente, EtapesTenues
<1>2. emprunts[tx[d].emprunt] \in LigneEmprunt
  BY <1>1 DEF Socle, TypeOK, EstActif, StatutsActifs, Absente, Effacee
<1>. QED
  BY <1>1, <1>2 DEF LigneEmprunt

(* A request moves by its own steps only: those of the others change at most *)
(* what its read view misses.                                                *)
LEMMA AutresImmobiles ==
  ASSUME Socle, [Next]_vars, NEW f \in Demandes
  PROVE  Immobile(f) \/ PasDe(f)
<1>1. ASSUME NEW l \in Livres, tx'[f] = LivreModifie(l)[f]
      PROVE  Immobile(f)
  BY <1>1, LivreModifieGarde DEF Socle, Immobile
<1>2. ASSUME NEW d \in Demandes \ {f}, PasDe(d)
      PROVE  Immobile(f)
  <2>1. CASE EnregistrerEmprunt(d) \/ ValiderRetour(d)
    <3>1. tx[d].livre \in Livres
      BY <2>1, LigneTenue DEF EnregistrerEmprunt, ValiderRetour, Socle, DemandeCoherente,
                              EtapesEmprunt, EtapesTenues, EtapesRetour
    <3>2. PICK q : tx' = [LivreModifie(tx[d].livre) EXCEPT ![d] = q]
      BY <2>1 DEF EnregistrerEmprunt, ValiderRetour
    <3>3. tx'[f] = LivreModifie(tx[d].livre)[f]
      BY <3>2 DEF LivreModifie
    <3>. QED
      BY <3>1, <3>3, <1>1
  <2>2. CASE ~(EnregistrerEmprunt(d) \/ ValiderRetour(d))
    <3>1. \E q : tx' = [tx EXCEPT ![d] = q]
      <4>1. CASE NouvelleDemande(d)
        BY <4>1 DEF NouvelleDemande, RefuserDuree, RefuserMembre, OuvrirEmprunt, DemanderRetour
      <4>2. CASE EtapeEmprunt(d)
        BY <4>2, <2>2 DEF EtapeEmprunt, RefuserVuePerimee, RefuserLivre, RefuserConflit,
                          VerrouillerLivre, Repondre
      <4>3. CASE EtapeRetour(d)
        BY <4>3, <2>2 DEF EtapeRetour, RefuserEmpruntInconnu, RefuserDejaRendu, CalculerPenalite,
                          VerrouillerEmprunt, CloturerEmprunt, ReincrementerStock, Repondre
      <4>4. CASE Achevement(d) \/ Annuler(d)
        BY <4>4 DEF Achevement, Annuler, RelireEmprunt, PerdreResultat, RecevoirReponse, Repondre
      <4>. QED
        BY <1>2, <4>1, <4>2, <4>3, <4>4 DEF PasDe
    <3>2. tx'[f] = tx[f]
      BY <3>1, <1>2 DEF Socle, TypeOK
    <3>. QED
      BY <3>2 DEF Immobile
  <2>. QED
    BY <2>1, <2>2
<1>3. ASSUME UNCHANGED tx
      PROVE  Immobile(f)
  BY <1>3 DEF Immobile
<1>4. CASE UNCHANGED vars
  BY <1>4, <1>3 DEF vars
<1>5. CASE \/ LancerMarquage \/ (\E e \in Lignes : VerrouillerRetard(e)) \/ ValiderMarquage
           \/ JourSuivant \/ \E u \in Membres : ChangerCompte(u)
  BY <1>5, <1>3 DEF LancerMarquage, VerrouillerRetard, ValiderMarquage, JourSuivant, ChangerCompte
<1>6. CASE \E l \in Livres : RetirerLivre(l)
  BY <1>6, <1>1 DEF RetirerLivre
<1>. QED
  BY <1>2, <1>4, <1>5, <1>6 DEF Next, PasDe

(* The only steps that write rows of emprunts *)
LEMMA LignesEcrites ==
  ASSUME [Next]_vars
  PROVE  \/ UNCHANGED emprunts
         \/ \E d \in Demandes : EnregistrerEmprunt(d) \/ ValiderRetour(d)
         \/ ValiderMarquage
<1>1. ASSUME NEW d \in Demandes, PasDe(d)
      PROVE  UNCHANGED emprunts \/ EnregistrerEmprunt(d) \/ ValiderRetour(d)
  <2>1. CASE NouvelleDemande(d)
    BY <2>1 DEF NouvelleDemande, RefuserDuree, RefuserMembre, OuvrirEmprunt, DemanderRetour, tables
  <2>2. CASE EtapeEmprunt(d)
    BY <2>2 DEF EtapeEmprunt, RefuserVuePerimee, RefuserLivre, RefuserConflit,
                VerrouillerLivre, tables
  <2>3. CASE EtapeRetour(d)
    BY <2>3 DEF EtapeRetour, RefuserEmpruntInconnu, RefuserDejaRendu, CalculerPenalite,
                VerrouillerEmprunt, CloturerEmprunt, ReincrementerStock, tables
  <2>4. CASE Achevement(d) \/ Annuler(d)
    BY <2>4 DEF Achevement, Annuler, RelireEmprunt, PerdreResultat, RecevoirReponse, tables
  <2>. QED
    BY <1>1, <2>1, <2>2, <2>3, <2>4 DEF PasDe
<1>2. CASE UNCHANGED vars
  BY <1>2 DEF vars
<1>3. CASE \/ LancerMarquage \/ (\E e \in Lignes : VerrouillerRetard(e))
           \/ JourSuivant \/ (\E u \in Membres : ChangerCompte(u))
           \/ \E l \in Livres : RetirerLivre(l)
  BY <1>3 DEF LancerMarquage, VerrouillerRetard, JourSuivant, ChangerCompte, RetirerLivre, tables
<1>. QED
  BY <1>1, <1>2, <1>3 DEF Next, PasDe

(* A closed loan is not written; an active one keeps member, book and date;  *)
(* a row once given a loan is never given another.                           *)
SuiteLigne(e) ==
  /\ emprunts[e].statut = "rendu" => emprunts'[e] = emprunts[e]
  /\ EstActif(e) => /\ emprunts'[e] \in LigneEmprunt
                    /\ emprunts'[e].utilisateur = emprunts[e].utilisateur
                    /\ emprunts'[e].livre = emprunts[e].livre
                    /\ emprunts'[e].prevue = emprunts[e].prevue
  /\ emprunts[e] = Effacee => emprunts'[e] = Effacee

(* What one step may do to the row of a loan *)
LEMMA LignesSuivantes ==
  ASSUME Socle, [Next]_vars, NEW e \in Lignes
  PROVE  SuiteLigne(e)
<1>. USE DEF Socle
<1>0. EstActif(e) => emprunts[e] \in LigneEmprunt
  BY DEF TypeOK, EstActif, StatutsActifs, Absente, Effacee
<1>1. CASE emprunts'[e] = emprunts[e]
  BY <1>0, <1>1 DEF SuiteLigne
<1>2. ASSUME NEW d \in Demandes, EnregistrerEmprunt(d)
      PROVE  SuiteLigne(e)
  <2>1. PICK g \in Lignes : emprunts[g] = Absente /\ emprunts' = [emprunts EXCEPT ![g] = NouvelEmprunt(d)]
    BY <1>2 DEF EnregistrerEmprunt
  <2>2. emprunts[e] # Absente => emprunts'[e] = emprunts[e]
    BY <2>1 DEF TypeOK
  <2>3. emprunts[e] = Absente => ~EstActif(e) /\ emprunts[e].statut # "rendu" /\ emprunts[e] # Effacee
    BY DEF Absente, Effacee, EstActif, StatutsActifs
  <2>. QED
    BY <1>1, <2>2, <2>3 DEF SuiteLigne
<1>3. ASSUME NEW d \in Demandes, ValiderRetour(d)
      PROVE  SuiteLigne(e)
  <2>1. /\ tx[d].emprunt \in Lignes /\ EstActif(tx[d].emprunt)
        /\ emprunts[tx[d].emprunt] \in LigneEmprunt
    BY <1>3, LigneTenue DEF ValiderRetour, EtapesTenues, EtapesRetour
  <2>2. tx[d] \in Demande
    BY DEF TypeOK
  <2>3. e # tx[d].emprunt => emprunts'[e] = emprunts[e]
    BY <1>3, <2>1 DEF TypeOK, ValiderRetour
  <2>4. emprunts'[tx[d].emprunt] =
          [emprunts[tx[d].emprunt] EXCEPT !.statut = "rendu", !.effective = tx[d].effective,
                                          !.penalite = tx[d].penalite]
    BY <1>3, <2>1 DEF TypeOK, ValiderRetour
  <2>5. CASE e = tx[d].emprunt
    <3>1. /\ emprunts'[e] \in LigneEmprunt
          /\ emprunts'[e].utilisateur = emprunts[e].utilisateur
          /\ emprunts'[e].livre = emprunts[e].livre
          /\ emprunts'[e].prevue = emprunts[e].prevue
      BY <2>5, <2>1, <2>2, <2>4 DEF LigneEmprunt, Demande
    <3>2. emprunts[e].statut # "rendu" /\ emprunts[e] # Effacee
      BY <2>5, <2>1 DEF EstActif, StatutsActifs, Effacee
    <3>. QED
      BY <3>1, <3>2 DEF SuiteLigne
  <2>. QED
    BY <2>3, <2>5, <1>1
<1>4. CASE ValiderMarquage
  <2>1. e \notin marquage.lignes => emprunts'[e] = emprunts[e]
    BY <1>4 DEF ValiderMarquage
  <2>2. ASSUME e \in marquage.lignes
        PROVE  SuiteLigne(e)
    <3>1. emprunts[e].statut = "en_cours" /\ emprunts[e] \in LigneEmprunt
      BY <2>2, <1>0 DEF VerrousExclusifs, EstActif, StatutsActifs
    <3>2. emprunts'[e] = [emprunts[e] EXCEPT !.statut = "en_retard"]
      BY <2>2, <1>4 DEF ValiderMarquage
    <3>. QED
      BY <3>1, <3>2 DEF SuiteLigne, LigneEmprunt, Effacee
  <2>. QED
    BY <2>1, <2>2, <1>1
<1>. QED
  BY <1>1, <1>2, <1>3, <1>4, LignesEcrites

(* A closed loan is never rewritten and an active one keeps member, book and *)
(* date: a return computes them from the row it has locked.                  *)
THEOREM HistoriqueIntact == Spec => HistoriqueFige
<1>1. Invariant /\ [Next]_vars =>
        [\A e \in Lignes :
           /\ emprunts[e].statut = "rendu" => emprunts'[e] \in {emprunts[e], Effacee}
           /\ EstActif(e) => /\ emprunts'[e].utilisateur = emprunts[e].utilisateur
                             /\ emprunts'[e].livre = emprunts[e].livre
                             /\ emprunts'[e].prevue = emprunts[e].prevue]_vars
  BY LignesSuivantes DEF Invariant, SuiteLigne
<1>. QED
  BY <1>1, InvariantTenu, PTL DEF Spec, HistoriqueFige

-----------------------------------------------------------------------------
(* Penalties *)

(* A later return is charged no less.                                       *)
LEMMA PenaliteCroit ==
  ASSUME NEW p \in Nat, NEW r \in Nat, NEW s \in Nat, r <= s
  PROVE  Penalite(p, r) \in Nat /\ Penalite(p, r) <= Penalite(p, s)
BY DEF Penalite

(* What a request that has just arrived is *)
LEMMA NouvelleDemandeDite ==
  ASSUME Socle, NEW d \in Demandes, NouvelleDemande(d)
  PROVE  /\ tx'[d].etape \in {"repondue", "e_verrou", "r_verrou"}
         /\ tx'[d].etape # "repondue" => tx'[d].reponse = Aucun
         /\ tx'[d].etape = "repondue" =>
              /\ tx'[d].sorte = "emprunt" /\ tx'[d].emprunt = Aucun
              /\ tx'[d].reponse \in {"invalide", "introuvable"}
<1>1. ASSUME NEW q, tx' = [tx EXCEPT ![d] = q]
      PROVE  tx'[d] = q
  BY <1>1 DEF Socle, TypeOK
<1>2. ASSUME NEW u \in Membres, NEW l \in Livres, NEW n \in DureesDemandees,
             \/ RefuserDuree(d, u, l, n)
             \/ RefuserMembre(d, u, l, n)
      PROVE  /\ tx'[d].etape = "repondue" /\ tx'[d].sorte = "emprunt"
             /\ tx'[d].emprunt = Aucun /\ tx'[d].reponse \in {"invalide", "introuvable"}
  <2>1. PICK r \in {"invalide", "introuvable"} :
          tx' = [tx EXCEPT ![d] = [DemandeEmprunt(u, l) EXCEPT !.etape = "repondue",
                                                              !.reponse = r]]
    BY <1>2 DEF RefuserDuree, RefuserMembre
  <2>2. tx'[d] = [DemandeEmprunt(u, l) EXCEPT !.etape = "repondue", !.reponse = r]
    BY <1>1, <2>1
  <2>. QED
    BY <2>2 DEF DemandeEmprunt, DemandeLibre
<1>3. ASSUME NEW u \in Membres, NEW l \in Livres, NEW n \in DureesDemandees,
             OuvrirEmprunt(d, u, l, n)
      PROVE  tx'[d].etape = "e_verrou" /\ tx'[d].reponse = Aucun
  <2>1. tx'[d] = [DemandeEmprunt(u, l) EXCEPT
                    !.etape = "e_verrou", !.duree = DureeDuPret(n),
                    !.nbActifs = Cardinality(ActifsDuMembre(u))]
    BY <1>1, <1>3 DEF OuvrirEmprunt
  <2>. QED
    BY <2>1 DEF DemandeEmprunt, DemandeLibre
<1>4. ASSUME NEW e \in Lignes, DemanderRetour(d, e)
      PROVE  tx'[d].etape = "r_verrou" /\ tx'[d].reponse = Aucun
  <2>1. tx'[d] = [DemandeLibre EXCEPT !.etape = "r_verrou", !.sorte = "retour", !.emprunt = e]
    BY <1>1, <1>4 DEF DemanderRetour
  <2>. QED
    BY <2>1 DEF DemandeLibre
<1>. QED
  BY <1>2, <1>3, <1>4 DEF NouvelleDemande

(* The steps by which a return comes to carry a penalty *)
LEMMA PasDeRetour ==
  ASSUME Socle, NEW d \in Demandes, PasDe(d),
         tx'[d].etape \in {"r_cloture", "r_stock", "r_commit"}
  PROVE  CalculerPenalite(d) \/ CloturerEmprunt(d) \/ ReincrementerStock(d)
<1>1. tx[d] \in Demande
  BY DEF Socle, TypeOK
<1>2. ASSUME NEW q, tx' = [tx EXCEPT ![d] = q]
      PROVE  tx'[d] = q
  BY <1>2 DEF Socle, TypeOK
<1>3. ASSUME NEW r, Repondre(d, r)
      PROVE  FALSE
  <2>1. Repondue(d, r).etape = "repondue"
    BY <1>1 DEF Repondue, Demande
  <2>. QED
    BY <1>2, <1>3, <2>1 DEF Repondre
<1>4. CASE NouvelleDemande(d)
  BY <1>4, NouvelleDemandeDite
<1>5. CASE \/ RefuserVuePerimee(d) \/ RefuserLivre(d) \/ RefuserConflit(d)
           \/ RefuserEmpruntInconnu(d) \/ RefuserDejaRendu(d)
           \/ RelireEmprunt(d) \/ PerdreResultat(d) \/ Annuler(d)
  BY <1>3, <1>5 DEF RefuserVuePerimee, RefuserLivre, RefuserConflit, RefuserEmpruntInconnu,
                    RefuserDejaRendu, RelireEmprunt, PerdreResultat, Annuler
<1>6. CASE VerrouillerLivre(d) \/ VerrouillerEmprunt(d) \/ RecevoirReponse(d)
  BY <1>1, <1>2, <1>6 DEF VerrouillerLivre, VerrouillerEmprunt, RecevoirReponse, DemandeLibre, Demande,
                          Socle, TypeOK
<1>7. CASE EnregistrerEmprunt(d) \/ ValiderRetour(d)
  <2>1. tx'[d].etape = "lecture"
    BY <1>1, <1>7 DEF EnregistrerEmprunt, ValiderRetour, LivreModifie, Demande
  <2>. QED
    BY <2>1
<1>. QED
  BY <1>4, <1>5, <1>6, <1>7 DEF PasDe, EtapeEmprunt, EtapeRetour, Achevement

(* Days go forward. *)
LEMMA JourCroit ==
  ASSUME TypeOK, [Next]_vars
  PROVE  jour \in Nat /\ jour' \in Nat /\ jour <= jour'
<1>1. ASSUME NEW d \in Demandes, PasDe(d)
      PROVE  jour' = jour
  BY <1>1 DEF PasDe, NouvelleDemande, EtapeEmprunt, EtapeRetour, Achevement, Annuler,
              RefuserDuree, RefuserMembre, OuvrirEmprunt, DemanderRetour,
              RefuserVuePerimee, RefuserLivre, RefuserConflit, VerrouillerLivre,
              EnregistrerEmprunt, RefuserEmpruntInconnu, RefuserDejaRendu,
              VerrouillerEmprunt, CalculerPenalite, CloturerEmprunt, ReincrementerStock,
              ValiderRetour, RelireEmprunt, PerdreResultat, RecevoirReponse
<1>2. jour' = jour \/ JourSuivant
  BY <1>1 DEF Next, vars, PasDe, LancerMarquage, VerrouillerRetard, ValiderMarquage,
              ChangerCompte, RetirerLivre
<1>. QED
  BY <1>2 DEF JourSuivant, TypeOK

(* No step makes a penalty exceed what its dates justify. *)
LEMMA PenalitesGardees ==
  ASSUME Socle, PenalitesJustes, [Next]_vars
  PROVE  PenalitesJustes'
<1>. USE DEF Socle
<1>1. jour \in Nat /\ jour' \in Nat /\ jour <= jour'
  BY JourCroit
<1>2. ASSUME NEW f \in Demandes, Immobile(f)
      PROVE  PenaliteCoherente(f)'
  <2>1. CASE tx[f].etape \in {"r_cloture", "r_stock", "r_commit"}
    <3>1. /\ tx[f].emprunt \in Lignes /\ EstActif(tx[f].emprunt)
          /\ emprunts[tx[f].emprunt] \in LigneEmprunt
      BY <2>1, LigneTenue DEF EtapesTenues, EtapesRetour
    <3>2. /\ emprunts'[tx[f].emprunt].prevue = emprunts[tx[f].emprunt].prevue
          /\ emprunts[tx[f].emprunt].prevue \in Nat
      BY <3>1, LignesSuivantes DEF SuiteLigne, LigneEmprunt
    <3>3. tx[f].penalite \in Nat
      BY DEF TypeOK, Demande
    <3>4. tx[f].etape = "r_cloture" =>
            tx[f].penalite <= Penalite(emprunts[tx[f].emprunt].prevue, jour')
      <4> DEFINE p == emprunts[tx[f].emprunt].prevue
      <4>0. p \in Nat
        BY <3>2
      <4> HIDE DEF p
      <4>1. /\ Penalite(p, jour) \in Nat /\ Penalite(p, jour') \in Nat
            /\ Penalite(p, jour) <= Penalite(p, jour')
        BY <1>1, <4>0, PenaliteCroit
      <4> USE DEF p
      <4>. QED
        BY <4>1, <3>3 DEF PenalitesJustes, PenaliteCoherente
    <3>. QED
      BY <1>2, <3>2, <3>4 DEF PenalitesJustes, PenaliteCoherente, Immobile
  <2>2. CASE tx[f].etape \notin {"r_cloture", "r_stock", "r_commit"}
    BY <1>2, <2>2 DEF PenaliteCoherente, Immobile
  <2>. QED
    BY <2>1, <2>2
<1>3. ASSUME NEW f \in Demandes, PasDe(f)
      PROVE  PenaliteCoherente(f)'
  <2>. SUFFICES ASSUME tx'[f].etape \in {"r_cloture", "r_stock", "r_commit"}
               PROVE  PenaliteCoherente(f)'
    BY DEF PenaliteCoherente
  <2>1. tx[f] \in Demande
    BY DEF TypeOK
  <2>2. CalculerPenalite(f) \/ CloturerEmprunt(f) \/ ReincrementerStock(f)
    BY <1>3, PasDeRetour
  <2>3. UNCHANGED <<emprunts, jour>>
    BY <2>2 DEF CalculerPenalite, CloturerEmprunt, ReincrementerStock, tables
  <2>4. /\ tx[f].emprunt \in Lignes /\ emprunts[tx[f].emprunt] \in LigneEmprunt
    BY <2>2, LigneTenue DEF CalculerPenalite, CloturerEmprunt, ReincrementerStock,
                            EtapesTenues, EtapesRetour
  <2>5. CASE CalculerPenalite(f)
    <3>1. /\ tx'[f].penalite = Penalite(emprunts[tx[f].emprunt].prevue, jour)
          /\ tx'[f].etape = "r_cloture" /\ tx'[f].emprunt = tx[f].emprunt
      BY <2>1, <2>5 DEF CalculerPenalite, TypeOK, Demande
    <3>2. Penalite(emprunts[tx[f].emprunt].prevue, jour) \in Nat
      BY <1>1, <2>4, PenaliteCroit DEF LigneEmprunt
    <3>. QED
      BY <2>3, <3>1, <3>2 DEF PenaliteCoherente
  <2>6. CASE CloturerEmprunt(f)
    BY <2>1, <2>3, <2>6, <1>1 DEF CloturerEmprunt, TypeOK, Demande, PenaliteCoherente, PenalitesJustes
  <2>7. CASE ReincrementerStock(f)
    BY <2>1, <2>3, <2>7 DEF ReincrementerStock, TypeOK, Demande, PenaliteCoherente, PenalitesJustes
  <2>. QED
    BY <2>2, <2>5, <2>6, <2>7
<1>4. ASSUME NEW e \in Lignes, emprunts'[e].statut = "rendu"
      PROVE  /\ emprunts'[e].effective \in Nat
             /\ emprunts'[e].penalite <= Penalite(emprunts'[e].prevue, emprunts'[e].effective)
  <2>1. CASE emprunts[e].statut = "rendu"
    BY <2>1, LignesSuivantes DEF SuiteLigne, PenalitesJustes
  <2>2. CASE emprunts[e].statut # "rendu"
    <3>1. ASSUME NEW d \in Demandes, EnregistrerEmprunt(d)
          PROVE  FALSE
      <4>1. PICK g \in Lignes : emprunts' = [emprunts EXCEPT ![g] = NouvelEmprunt(d)]
        BY <3>1 DEF EnregistrerEmprunt
      <4>. QED
        BY <4>1, <2>2, <1>4 DEF TypeOK, NouvelEmprunt
    <3>2. ASSUME NEW d \in Demandes, ValiderRetour(d)
          PROVE  /\ emprunts'[e].effective \in Nat
                 /\ emprunts'[e].penalite <= Penalite(emprunts'[e].prevue, emprunts'[e].effective)
      <4>1. tx[d].etape = "r_commit" /\ tx[d].emprunt \in Lignes
            /\ emprunts[tx[d].emprunt] \in LigneEmprunt
        BY <3>2, LigneTenue DEF ValiderRetour, EtapesTenues, EtapesRetour
      <4>2. e = tx[d].emprunt
        BY <3>2, <4>1, <2>2, <1>4 DEF ValiderRetour, TypeOK
      <4>3. emprunts'[e] =
              [emprunts[e] EXCEPT !.statut = "rendu", !.effective = tx[d].effective,
                                  !.penalite = tx[d].penalite]
        BY <3>2, <4>2 DEF TypeOK, ValiderRetour
      <4>4. /\ emprunts'[e].effective = tx[d].effective
            /\ emprunts'[e].penalite = tx[d].penalite
            /\ emprunts'[e].prevue = emprunts[e].prevue
        BY <4>1, <4>2, <4>3 DEF LigneEmprunt
      <4>. QED
        BY <4>1, <4>2, <4>4 DEF PenalitesJustes, PenaliteCoherente
    <3>3. CASE ValiderMarquage
      <4>1. e \in marquage.lignes
        BY <3>3, <2>2, <1>4 DEF ValiderMarquage
      <4>2. emprunts[e] \in LigneEmprunt
        BY <4>1 DEF VerrousExclusifs, TypeOK, Absente, Effacee
      <4>. QED
        BY <3>3, <4>1, <4>2, <1>4 DEF ValiderMarquage, LigneEmprunt
    <3>. QED
      BY <3>1, <3>2, <3>3, <2>2, <1>4, LignesEcrites
  <2>. QED
    BY <2>1, <2>2
<1>. QED
  BY <1>2, <1>3, <1>4, AutresImmobiles DEF PenalitesJustes

-----------------------------------------------------------------------------
(* Replies *)

(* A reply changes what the request is told and nothing it was about.        *)
LEMMA ReponseDite ==
  ASSUME Socle, NEW d \in Demandes, NEW r, Repondre(d, r)
  PROVE  /\ tx'[d].etape = "repondue" /\ tx'[d].reponse = r
         /\ tx'[d].sorte = tx[d].sorte /\ tx'[d].emprunt = tx[d].emprunt
         /\ tx'[d].utilisateur = tx[d].utilisateur /\ tx'[d].livre = tx[d].livre
<1>1. tx[d] \in Demande
  BY DEF Socle, TypeOK
<1>2. tx'[d] = Repondue(d, r)
  BY DEF Socle, TypeOK, Repondre
<1>. QED
  BY <1>1, <1>2 DEF Repondue, Demande

(* The ways in which a request that has begun goes on *)
LEMMA SuiteDite ==
  ASSUME Socle, NEW d \in Demandes, PasDe(d), ReponseCoherente(d)
  PROVE  \/ NouvelleDemande(d)
         \/ tx'[d].etape \notin {"lecture", "repondue"} /\ tx'[d].reponse = Aucun
         \/ EnregistrerEmprunt(d)
         \/ ValiderRetour(d)
         \/ UNCHANGED emprunts /\ Repondre(d, "interne")
         \/ /\ UNCHANGED emprunts /\ tx[d].etape \in EtapesEmprunt
            /\ Repondre(d, "introuvable") \/ Repondre(d, "conflit")
         \/ /\ UNCHANGED emprunts /\ tx[d].etape \in EtapesRetour
            /\ \/ Repondre(d, "introuvable")
               \/ Repondre(d, "conflit") /\ emprunts[tx[d].emprunt].statut = "rendu"
         \/ UNCHANGED emprunts /\ tx[d].etape = "lecture" /\ Repondre(d, "ok")
<1>1. tx[d] \in Demande
  BY DEF Socle, TypeOK
<1>2. CASE \/ VerrouillerLivre(d) \/ VerrouillerEmprunt(d) \/ CalculerPenalite(d)
           \/ CloturerEmprunt(d) \/ ReincrementerStock(d)
  <2>1. tx[d].reponse = Aucun
    BY <1>2 DEF VerrouillerLivre, VerrouObtenu, VerrouillerEmprunt, CalculerPenalite,
                CloturerEmprunt, ReincrementerStock, ReponseCoherente
  <2>2. tx'[d].etape \in {"e_ecriture", "r_penalite", "r_cloture", "r_stock", "r_commit"}
    BY <1>1, <1>2 DEF VerrouillerLivre, VerrouillerEmprunt, CalculerPenalite,
                      CloturerEmprunt, ReincrementerStock, Socle, TypeOK, Demande
  <2>3. tx'[d].reponse = tx[d].reponse
    BY <1>1, <1>2 DEF VerrouillerLivre, VerrouillerEmprunt, CalculerPenalite,
                      CloturerEmprunt, ReincrementerStock, Socle, TypeOK, Demande
  <2>. QED
    BY <2>1, <2>2, <2>3
<1>3. CASE RecevoirReponse(d)
  <2>1. tx'[d] = DemandeLibre
    BY <1>3 DEF RecevoirReponse, Socle, TypeOK
  <2>. QED
    BY <2>1 DEF DemandeLibre
<1>4. CASE RefuserVuePerimee(d) \/ PerdreResultat(d) \/ Annuler(d)
  BY <1>4 DEF RefuserVuePerimee, PerdreResultat, Annuler, tables
<1>5. CASE RefuserLivre(d) \/ RefuserConflit(d)
  BY <1>5 DEF RefuserLivre, RefuserConflit, VerrouObtenu, EtapesEmprunt, tables
<1>6. CASE RefuserEmpruntInconnu(d) \/ RefuserDejaRendu(d)
  BY <1>6 DEF RefuserEmpruntInconnu, RefuserDejaRendu, EtapesRetour, tables
<1>7. CASE RelireEmprunt(d)
  <2>1. tx[d].etape = "lecture" /\ UNCHANGED emprunts
    BY <1>7 DEF RelireEmprunt, tables
  <2>2. emprunts[tx[d].emprunt] # Effacee
    BY <2>1 DEF ReponseCoherente, Acquise, LigneEmprunt, Effacee
  <2>. QED
    BY <1>7, <2>1, <2>2 DEF RelireEmprunt
<1>. QED
  BY <1>2, <1>3, <1>4, <1>5, <1>6, <1>7 DEF PasDe, EtapeEmprunt, EtapeRetour, Achevement

(* Lending and returning record what their replies will say. *)
LEMMA CommitAcquis ==
  ASSUME Socle, NEW d \in Demandes, EnregistrerEmprunt(d) \/ ValiderRetour(d)
  PROVE  /\ tx'[d].etape = "lecture" /\ tx'[d].reponse = tx[d].reponse
         /\ tx'[d].sorte = tx[d].sorte /\ tx'[d].emprunt \in Lignes
         /\ tx'[d].utilisateur = tx[d].utilisateur /\ tx'[d].livre = tx[d].livre
         /\ EnregistrerEmprunt(d) =>
              /\ tx[d].etape = "e_ecriture" /\ tx[d].sorte = "emprunt"
              /\ emprunts'[tx'[d].emprunt] \in LigneEmprunt
              /\ emprunts'[tx'[d].emprunt].utilisateur = tx[d].utilisateur
              /\ emprunts'[tx'[d].emprunt].livre = tx[d].livre
         /\ ValiderRetour(d) =>
              /\ tx[d].etape = "r_commit" /\ tx[d].sorte = "retour"
              /\ tx'[d].emprunt = tx[d].emprunt
              /\ emprunts'[tx'[d].emprunt].statut = "rendu"
<1>. USE DEF Socle
<1>1. tx[d] \in Demande /\ DemandeCoherente(d)
  BY DEF TypeOK
<1>2. ASSUME EnregistrerEmprunt(d)
      PROVE  /\ tx'[d].etape = "lecture" /\ tx'[d].reponse = tx[d].reponse
             /\ tx'[d].sorte = tx[d].sorte /\ tx'[d].emprunt \in Lignes
             /\ tx'[d].utilisateur = tx[d].utilisateur /\ tx'[d].livre = tx[d].livre
             /\ tx[d].etape = "e_ecriture" /\ tx[d].sorte = "emprunt"
             /\ emprunts'[tx'[d].emprunt] \in LigneEmprunt
             /\ emprunts'[tx'[d].emprunt].utilisateur = tx[d].utilisateur
             /\ emprunts'[tx'[d].emprunt].livre = tx[d].livre
  <2>1. PICK e \in Lignes :
          /\ emprunts' = [emprunts EXCEPT ![e] = NouvelEmprunt(d)]
          /\ tx' = [LivreModifie(tx[d].livre) EXCEPT
                      ![d] = [tx[d] EXCEPT !.etape = "lecture", !.emprunt = e]]
    BY <1>2 DEF EnregistrerEmprunt
  <2>2. /\ tx[d].etape = "e_ecriture" /\ tx[d].sorte = "emprunt"
        /\ tx[d].utilisateur \in Membres /\ tx[d].livre \in Livres
    BY <1>1, <1>2 DEF EnregistrerEmprunt, DemandeCoherente, EtapesEmprunt
  <2>3. tx'[d] = [tx[d] EXCEPT !.etape = "lecture", !.emprunt = e]
    BY <2>1 DEF LivreModifie
  <2>4. emprunts'[e] = NouvelEmprunt(d)
    BY <2>1 DEF TypeOK
  <2>5. jour + tx[d].duree \in Nat
    BY <1>1 DEF TypeOK, Demande
  <2>6. NouvelEmprunt(d) \in LigneEmprunt
    BY <2>2, <2>5 DEF NouvelEmprunt, LigneEmprunt
  <2>. QED
    BY <1>1, <2>2, <2>3, <2>4, <2>6 DEF Demande, NouvelEmprunt
<1>3. ASSUME ValiderRetour(d)
      PROVE  /\ tx'[d].etape = "lecture" /\ tx'[d].reponse = tx[d].reponse
             /\ tx'[d].sorte = tx[d].sorte /\ tx'[d].emprunt \in Lignes
             /\ tx'[d].utilisateur = tx[d].utilisateur /\ tx'[d].livre = tx[d].livre
             /\ tx[d].etape = "r_commit" /\ tx[d].sorte = "retour"
             /\ tx'[d].emprunt = tx[d].emprunt
             /\ emprunts'[tx'[d].emprunt].statut = "rendu"
  <2>1. /\ tx[d].etape = "r_commit" /\ tx[d].sorte = "retour" /\ tx[d].emprunt \in Lignes
        /\ emprunts[tx[d].emprunt] \in LigneEmprunt
    BY <1>3, LigneTenue DEF ValiderRetour, EtapesTenues, EtapesRetour
  <2>2. tx'[d] = [tx[d] EXCEPT !.etape = "lecture"]
    BY <1>3 DEF ValiderRetour, LivreModifie
  <2>3. emprunts'[tx[d].emprunt] =
          [emprunts[tx[d].emprunt] EXCEPT !.statut = "rendu", !.effective = tx[d].effective,
                                          !.penalite = tx[d].penalite]
    BY <1>3, <2>1 DEF ValiderRetour, TypeOK
  <2>. QED
    BY <1>1, <2>1, <2>2, <2>3 DEF Demande, LigneEmprunt
<1>. QED
  BY <1>2, <1>3 DEF EnregistrerEmprunt, ValiderRetour

(* What a request has committed or answered stays true of the tables. *)
LEMMA ReponsesGardees ==
  ASSUME Socle, \A d \in Demandes : ReponseCoherente(d), [Next]_vars, NEW f \in Demandes
  PROVE  ReponseCoherente(f)'
<1>. USE DEF Socle
<1>1. CASE Immobile(f)
  <2>1. ASSUME NEW e \in Lignes
        PROVE  /\ emprunts[e].statut = "rendu" => emprunts'[e].statut = "rendu"
               /\ emprunts[e] \in LigneEmprunt =>
                    /\ emprunts'[e] \in LigneEmprunt
                    /\ emprunts'[e].utilisateur = emprunts[e].utilisateur
                    /\ emprunts'[e].livre = emprunts[e].livre
    BY LignesSuivantes DEF SuiteLigne, EstActif, StatutsActifs, LigneEmprunt
  <2>. QED
    BY <1>1, <2>1 DEF Immobile, ReponseCoherente, Acquise
<1>2. CASE PasDe(f)
  <2>0. /\ tx[f].etape \in EtapesEmprunt => tx[f].sorte = "emprunt" /\ tx[f].emprunt = Aucun
        /\ tx[f].etape \in EtapesRetour => tx[f].sorte = "retour" /\ tx[f].emprunt \in Lignes
        /\ tx[f].etape \in {"e_ecriture", "r_commit"} => tx[f].reponse = Aucun
    BY DEF DemandeCoherente, ReponseCoherente
  <2>1. CASE NouvelleDemande(f)
    BY <2>1, NouvelleDemandeDite DEF ReponseCoherente, Acquise
  <2>2. CASE tx'[f].etape \notin {"lecture", "repondue"} /\ tx'[f].reponse = Aucun
    BY <2>2 DEF ReponseCoherente, Acquise
  <2>3. CASE EnregistrerEmprunt(f)
    BY <2>0, <2>3, CommitAcquis DEF ReponseCoherente, Acquise
  <2>4. CASE ValiderRetour(f)
    BY <2>0, <2>4, CommitAcquis DEF ReponseCoherente, Acquise
  <2>5. CASE UNCHANGED emprunts /\ Repondre(f, "interne")
    <3>1. tx'[f].etape = "repondue" /\ tx'[f].reponse = "interne"
      BY <2>5, ReponseDite
    <3>. QED
      BY <3>1 DEF ReponseCoherente, Acquise
  <2>6. CASE /\ UNCHANGED emprunts /\ tx[f].etape \in EtapesEmprunt
             /\ Repondre(f, "introuvable") \/ Repondre(f, "conflit")
    <3>1. /\ tx'[f].etape = "repondue" /\ tx'[f].reponse \in {"introuvable", "conflit"}
          /\ tx'[f].sorte = "emprunt" /\ tx'[f].emprunt = Aucun
      BY <2>0, <2>6, ReponseDite
    <3>. QED
      BY <3>1 DEF ReponseCoherente, Acquise
  <2>7. CASE /\ UNCHANGED emprunts /\ tx[f].etape \in EtapesRetour
             /\ \/ Repondre(f, "introuvable")
                \/ Repondre(f, "conflit") /\ emprunts[tx[f].emprunt].statut = "rendu"
    <3>1. /\ tx'[f].etape = "repondue" /\ tx'[f].reponse \in {"introuvable", "conflit"}
          /\ tx'[f].sorte = "retour" /\ tx'[f].emprunt \in Lignes
          /\ tx'[f].reponse = "conflit" => emprunts'[tx'[f].emprunt].statut = "rendu"
      BY <2>0, <2>7, ReponseDite
    <3>. QED
      BY <3>1 DEF ReponseCoherente, Acquise
  <2>8. CASE UNCHANGED emprunts /\ tx[f].etape = "lecture" /\ Repondre(f, "ok")
    <3>1. /\ tx'[f].etape = "repondue" /\ tx'[f].reponse = "ok"
          /\ tx'[f].sorte = tx[f].sorte /\ tx'[f].emprunt = tx[f].emprunt
          /\ tx'[f].utilisateur = tx[f].utilisateur /\ tx'[f].livre = tx[f].livre
      BY <2>8, ReponseDite
    <3>. QED
      BY <2>8, <3>1 DEF ReponseCoherente, Acquise
  <2>. QED
    BY <1>2, <2>1, <2>2, <2>3, <2>4, <2>5, <2>6, <2>7, <2>8, SuiteDite
<1>. QED
  BY <1>1, <1>2, AutresImmobiles

(* Of two returns of a loan the second to commit would find it closed. *)
LEMMA RetoursGardes ==
  ASSUME Socle, \A d \in Demandes : ReponseCoherente(d), RetourUnique, [Next]_vars
  PROVE  RetourUnique'
<1>. USE DEF Socle
<1>1. ASSUME NEW f \in Demandes, RetourValide(f)'
      PROVE  /\ tx'[f].emprunt = tx[f].emprunt
             /\ RetourValide(f) \/ ValiderRetour(f)
  <2>1. CASE Immobile(f)
    BY <1>1, <2>1 DEF Immobile, RetourValide, Acquise
  <2>2. CASE PasDe(f)
    <3>1. CASE NouvelleDemande(f)
      BY <1>1, <3>1, NouvelleDemandeDite DEF RetourValide, Acquise
    <3>2. CASE tx'[f].etape \notin {"lecture", "repondue"} /\ tx'[f].reponse = Aucun
      BY <1>1, <3>2 DEF RetourValide, Acquise
    <3>3. CASE EnregistrerEmprunt(f)
      BY <1>1, <3>3, CommitAcquis DEF RetourValide
    <3>4. CASE ValiderRetour(f)
      BY <3>4, CommitAcquis
    <3>5. ASSUME NEW r \in {"interne", "introuvable", "conflit"}, Repondre(f, r)
          PROVE  FALSE
      BY <1>1, <3>5, ReponseDite DEF RetourValide, Acquise
    <3>6. CASE tx[f].etape = "lecture" /\ Repondre(f, "ok")
      BY <1>1, <3>6, ReponseDite DEF RetourValide, Acquise
    <3>. QED
      BY <2>2, <3>1, <3>2, <3>3, <3>4, <3>5, <3>6, SuiteDite
  <2>. QED
    BY <2>1, <2>2, AutresImmobiles
<1>2. ASSUME NEW f \in Demandes, RetourValide(f)
      PROVE  tx[f].emprunt \in Lignes /\ emprunts[tx[f].emprunt].statut = "rendu"
  BY <1>2 DEF RetourValide, ReponseCoherente
<1>3. ASSUME NEW f \in Demandes, ValiderRetour(f)
      PROVE  /\ tx[f].emprunt \in Lignes /\ TientEmprunt(f, tx[f].emprunt)
             /\ emprunts[tx[f].emprunt].statut # "rendu"
  BY <1>3, LigneTenue DEF ValiderRetour, TientEmprunt, EtapesTenues, EtapesRetour, EstActif, StatutsActifs
<1>. SUFFICES ASSUME NEW d \in Demandes, NEW f \in Demandes,
                     RetourValide(d)', RetourValide(f)', tx'[d].emprunt = tx'[f].emprunt
             PROVE  d = f
  BY DEF RetourUnique
<1>4. tx[d].emprunt = tx[f].emprunt
  BY <1>1
<1>5. CASE RetourValide(d) /\ RetourValide(f)
  BY <1>4, <1>5 DEF RetourUnique
<1>6. CASE ValiderRetour(d) /\ ValiderRetour(f)
  BY <1>3, <1>4, <1>6 DEF VerrousExclusifs
<1>. QED
  BY <1>1, <1>2, <1>3, <1>4, <1>5, <1>6

-----------------------------------------------------------------------------
(* The theorems about what is recorded and replied *)

(* Nothing borrowed, nothing charged, nothing answered *)
LEMMA InvariantCompletInitial == Init => InvariantComplet
<1>. SUFFICES ASSUME Init PROVE InvariantComplet
  OBVIOUS
<1>1. /\ \A d \in Demandes : tx[d].etape = "libre" /\ tx[d].reponse = Aucun
      /\ \A e \in Lignes : emprunts[e].statut # "rendu"
  BY DEF Init, SansCirculation, DemandeLibre, Absente
<1>. QED
  BY <1>1, InvariantInitial
     DEF InvariantComplet, PenalitesJustes, PenaliteCoherente, ReponseCoherente, RetourUnique,
         RetourValide, Acquise

(* Every step keeps the penalties, the replies and the single return.       *)
LEMMA InvariantCompletInductif == InvariantComplet /\ [Next]_vars => InvariantComplet'
<1>. SUFFICES ASSUME InvariantComplet, [Next]_vars PROVE InvariantComplet'
  OBVIOUS
<1>. USE DEF InvariantComplet
<1>1. Socle
  BY DEF Invariant
<1>. QED
  BY <1>1, InvariantInductif, PenalitesGardees, ReponsesGardees, RetoursGardes

(* The inductive invariant, with what requests carry to their replies and    *)
(* the penalties to the table, always holds.                                 *)
THEOREM InvariantCompletTenu == Spec => []InvariantComplet
BY InvariantCompletInitial, InvariantCompletInductif, PTL DEF Spec

(* Of the concurrent returns of one loan, at most one is told it succeeded. *)
THEOREM RetourToujoursUnique == Spec => []RetourUnique
<1>1. InvariantComplet => RetourUnique
  BY DEF InvariantComplet
<1>. QED
  BY <1>1, InvariantCompletTenu, PTL

(* A reply other than "interne" is true of the tables as long as it stands. *)
THEOREM ReponseToujoursVeridique == Spec => []ReponseVeridique
<1>1. InvariantComplet => ReponseVeridique
  BY DEF InvariantComplet, ReponseCoherente, ReponseVeridique, Acquise
<1>. QED
  BY <1>1, InvariantCompletTenu, PTL

(* No penalty on record exceeds what the dates on record justify, midnights  *)
(* between the statements of the return included.                            *)
THEOREM PenaliteBornee == Spec => []PenaliteJamaisExcessive
<1>1. InvariantComplet => PenaliteJamaisExcessive
  BY DEF InvariantComplet, PenalitesJustes, PenaliteJamaisExcessive
<1>. QED
  BY <1>1, InvariantCompletTenu, PTL

-----------------------------------------------------------------------------
(* The refinement of Prets *)

(* No step of circulation changes the copies owned; the catalogue changes by *)
(* a withdrawal only.                                                        *)
LEMMA FondsInchange ==
  ASSUME [Next]_vars
  PROVE  UNCHANGED total /\ (UNCHANGED fiche \/ \E l \in Livres : RetirerLivre(l))
<1>1. ASSUME NEW d \in Demandes, PasDe(d)
      PROVE  UNCHANGED <<total, fiche>>
  <2>1. CASE NouvelleDemande(d)
    BY <2>1 DEF NouvelleDemande, RefuserDuree, RefuserMembre, OuvrirEmprunt, DemanderRetour, tables
  <2>2. CASE EtapeEmprunt(d)
    BY <2>2 DEF EtapeEmprunt, RefuserVuePerimee, RefuserLivre, RefuserConflit,
                VerrouillerLivre, EnregistrerEmprunt, tables
  <2>3. CASE EtapeRetour(d)
    BY <2>3 DEF EtapeRetour, RefuserEmpruntInconnu, RefuserDejaRendu, CalculerPenalite,
                VerrouillerEmprunt, CloturerEmprunt, ReincrementerStock, ValiderRetour, tables
  <2>4. CASE Achevement(d) \/ Annuler(d)
    BY <2>4 DEF Achevement, Annuler, RelireEmprunt, PerdreResultat, RecevoirReponse, tables
  <2>. QED
    BY <1>1, <2>1, <2>2, <2>3, <2>4 DEF PasDe
<1>2. CASE UNCHANGED vars
  BY <1>2 DEF vars
<1>3. CASE \/ LancerMarquage \/ (\E e \in Lignes : VerrouillerRetard(e)) \/ ValiderMarquage
           \/ JourSuivant \/ (\E u \in Membres : ChangerCompte(u))
           \/ \E l \in Livres : RetirerLivre(l)
  BY <1>3 DEF LancerMarquage, VerrouillerRetard, ValiderMarquage, JourSuivant, ChangerCompte,
              RetirerLivre, tables, stock
<1>. QED
  BY <1>1, <1>2, <1>3 DEF Next, PasDe

(* The number of elements is the same notion in both modules. *)
LEMMA MemeCardinal == \A S : P!Cardinality(S) = Cardinality(S)
BY Zenon DEF P!Cardinality, Cardinality

(* What Prets counts as out is what circulation counts as active. *)
LEMMA SortisActifs ==
  ASSUME TypeOK
  PROVE  /\ \A l : P!SortisDuLivre(l) = ActifsDuLivre(l)
         /\ \A u : P!SortisDuMembre(u) = ActifsDuMembre(u)
<1>1. ASSUME NEW e \in Lignes
      PROVE  /\ PretVu(e).etat = "dehors" <=> EstActif(e)
             /\ EstActif(e) => /\ PretVu(e).livre = emprunts[e].livre
                               /\ PretVu(e).membre = emprunts[e].utilisateur
  BY DEF PretVu, EstActif, StatutsActifs, Absente, Effacee
<1>. QED
  BY <1>1 DEF P!SortisDuLivre, P!SortisDuMembre, ActifsDuLivre, ActifsDuMembre

(* Lending is Preter: a copy is left because the counter says so, the quota  *)
(* is not reached because the request was counted below it.                  *)
LEMMA EnregistrerPrete ==
  ASSUME Invariant, NEW d \in Demandes, EnregistrerEmprunt(d)
  PROVE  P!Next
<1>. USE DEF Invariant, Socle
<1>1. PICK e \in Lignes : emprunts[e] = Absente /\ emprunts' = [emprunts EXCEPT ![e] = NouvelEmprunt(d)]
  BY DEF EnregistrerEmprunt
<1>2. /\ tx[d].etape = "e_ecriture" /\ UNCHANGED <<total, fiche>>
  BY DEF EnregistrerEmprunt
<1>l. PICK l \in Livres : l = tx[d].livre
  BY <1>2 DEF DemandeCoherente, EtapesEmprunt
<1>u. PICK u \in Membres : u = tx[d].utilisateur
  BY <1>2 DEF DemandeCoherente, EtapesEmprunt
<1>3. dispo[l] > 0 /\ fiche[l] = "present" /\ tx[d].nbActifs < Quota
  <2>1. tx[d].nbActifs \in Nat /\ tx[d].nbActifs <= Quota - 1
    BY <1>2 DEF DemandeCoherente, EtapesEmprunt, TypeOK, Demande
  <2>. QED
    BY <2>1, <1>2, <1>l, QuotaPositif DEF DemandeCoherente, EtapesEmprunt
<1>4. Cardinality(P!SortisDuLivre(l)) < total[l]
  <2>1. dispo[l] \in Nat /\ total[l] \in Nat /\ dispo[l] + Cardinality(ActifsDuLivre(l)) = total[l]
    BY DEF TypeOK, Conservation
  <2>. QED
    BY <2>1, <1>3, DenombrementFini, SortisActifs
<1>5. Cardinality(P!SortisDuMembre(u)) < Quota + Cardinality(Demandes) - 1
  <2>1. d \in EnInstance(u)
    BY <1>2, <1>3, <1>u DEF EnInstance, EtapesEmprunt
  <2>2. Cardinality(EnInstance(u)) # 0
    BY <2>1, DenombrementFini, FS_EmptySet
  <2>3. Cardinality(ActifsDuMembre(u)) + Cardinality(EnInstance(u)) <= Quota + Cardinality(Demandes) - 1
    BY DEF DepassementPrevu
  <2>. QED
    BY <2>2, <2>3, DenombrementFini, QuotaPositif, SortisActifs
<1>6. /\ PretVu(e) = [etat |-> "jamais"]
      /\ PretVu(e)' = [etat |-> "dehors", membre |-> u, livre |-> l]
      /\ \A g \in Lignes \ {e} : PretVu(g)' = PretVu(g)
  <2>1. emprunts'[e] = NouvelEmprunt(d)
    BY <1>1 DEF TypeOK
  <2>2. /\ emprunts'[e].statut = "en_cours" /\ emprunts'[e].utilisateur = u
        /\ emprunts'[e].livre = l
    BY <2>1, <1>l, <1>u DEF NouvelEmprunt
  <2>3. emprunts'[e] \notin {Absente, Effacee}
    BY <2>2 DEF Absente, Effacee
  <2>4. \A g \in Lignes \ {e} : emprunts'[g] = emprunts[g]
    BY <1>1 DEF TypeOK
  <2>. QED
    BY <1>1, <2>2, <2>3, <2>4 DEF PretVu, EstActif, StatutsActifs
<1>7. P!Preter(e, u, l)
  <2>1. [g \in Lignes |-> PretVu(g)]' =
          [[g \in Lignes |-> PretVu(g)] EXCEPT ![e] = [etat |-> "dehors", membre |-> u, livre |-> l]]
    BY <1>6
  <2>2. [g \in Lignes |-> PretVu(g)][e] = P!Jamais
    BY <1>6 DEF P!Jamais
  <2>3. l \in {b \in Livres : fiche[b] = "present"}
    BY <1>3
  <2>4. UNCHANGED <<total, {b \in Livres : fiche[b] = "present"}>>
    BY <1>2
  <2>. QED
    BY <2>1, <2>2, <2>3, <2>4, <1>4, <1>5, MemeCardinal DEF P!Preter
<1>. QED
  BY <1>7 DEF P!Next

(* Returning is Restituer: the loan is out until the COMMIT. *)
LEMMA ValiderRestitue ==
  ASSUME Invariant, NEW d \in Demandes, ValiderRetour(d)
  PROVE  P!Next
<1>. USE DEF Invariant, Socle
<1>1. PICK e \in Lignes : e = tx[d].emprunt /\ EstActif(e) /\ emprunts[e] \in LigneEmprunt
  BY LigneTenue DEF ValiderRetour, EtapesTenues, EtapesRetour
<1>2. /\ emprunts'[e] = [emprunts[e] EXCEPT !.statut = "rendu", !.effective = tx[d].effective,
                                            !.penalite = tx[d].penalite]
      /\ \A g \in Lignes \ {e} : emprunts'[g] = emprunts[g]
      /\ UNCHANGED <<total, fiche>>
  BY <1>1 DEF ValiderRetour, TypeOK
<1>3. /\ emprunts'[e].statut = "rendu" /\ emprunts'[e].utilisateur = emprunts[e].utilisateur
      /\ emprunts'[e].livre = emprunts[e].livre
  BY <1>1, <1>2 DEF LigneEmprunt
<1>4. emprunts[e] \notin {Absente, Effacee} /\ emprunts'[e] \notin {Absente, Effacee}
  BY <1>1, <1>3 DEF EstActif, StatutsActifs, Absente, Effacee
<1>5. /\ PretVu(e) = [etat |-> "dehors", membre |-> emprunts[e].utilisateur,
                      livre |-> emprunts[e].livre]
      /\ PretVu(e)' = [etat |-> "rendu", membre |-> emprunts[e].utilisateur,
                       livre |-> emprunts[e].livre]
      /\ \A g \in Lignes \ {e} : PretVu(g)' = PretVu(g)
  BY <1>1, <1>2, <1>3, <1>4 DEF PretVu, EstActif, StatutsActifs
<1>6. P!Restituer(e)
  <2>1. [g \in Lignes |-> PretVu(g)]' = [[g \in Lignes |-> PretVu(g)] EXCEPT ![e].etat = "rendu"]
    <3>1. PretVu(e)' = [PretVu(e) EXCEPT !.etat = "rendu"]
      BY <1>5
    <3>. QED
      BY <3>1, <1>5
  <2>2. [g \in Lignes |-> PretVu(g)][e].etat = "dehors"
    BY <1>5
  <2>3. UNCHANGED <<total, {b \in Livres : fiche[b] = "present"}>>
    BY <1>2
  <2>. QED
    BY <2>1, <2>2, <2>3 DEF P!Restituer
<1>. QED
  BY <1>6 DEF P!Next

(* Circulation, with its requests, locks, read views and counter, implements *)
(* the library of Prets.                                                     *)
THEOREM CirculationRealisePrets == Spec => RealisePrets
<1>1. Init => P!Init
  <2>. SUFFICES ASSUME Init PROVE P!Init
    OBVIOUS
  <2>1. \A e \in Lignes : PretVu(e) = P!Jamais
    BY DEF Init, SansCirculation, PretVu, P!Jamais
  <2>2. {l \in Livres : fiche[l] = "present"} = Livres
    BY DEF Init
  <2>. QED
    BY <2>1, <2>2 DEF Init, P!Init
<1>2. Invariant /\ [Next]_vars => [P!Next]_(P!promesse)
  <2>. SUFFICES ASSUME Invariant, [Next]_vars PROVE [P!Next]_(P!promesse)
    OBVIOUS
  <2>. USE DEF Invariant, Socle
  <2>1. CASE \E d \in Demandes : EnregistrerEmprunt(d) \/ ValiderRetour(d)
    BY <2>1, EnregistrerPrete, ValiderRestitue
  <2>2. CASE \E l \in Livres : RetirerLivre(l)
    <3>1. PICK l \in Livres : RetirerLivre(l)
      BY <2>2
    <3>2. /\ fiche[l] = "present" /\ fiche' = [fiche EXCEPT ![l] = "retire"]
          /\ UNCHANGED <<total, emprunts>>
      BY <3>1 DEF RetirerLivre, stock
    <3>3. {b \in Livres : fiche'[b] = "present"} = {b \in Livres : fiche[b] = "present"} \ {l}
      BY <3>2 DEF TypeOK
    <3>4. [e \in Lignes |-> PretVu(e)]' = [e \in Lignes |-> PretVu(e)]
      BY <3>2 DEF PretVu, EstActif
    <3>5. P!Retirer(l)
      BY <3>2, <3>3, <3>4 DEF P!Retirer
    <3>. QED
      BY <3>5 DEF P!Next
  <2>3. CASE UNCHANGED fiche /\ (UNCHANGED emprunts \/ ValiderMarquage)
    <3>1. ASSUME NEW e \in Lignes
          PROVE  PretVu(e)' = PretVu(e)
      <4>1. CASE emprunts'[e] = emprunts[e]
        BY <4>1 DEF PretVu, EstActif
      <4>2. CASE ValiderMarquage /\ e \in marquage.lignes
        <5>1. emprunts[e].statut = "en_cours"
          BY <4>2 DEF VerrousExclusifs
        <5>2. emprunts[e] \in LigneEmprunt
          BY <5>1 DEF TypeOK, Absente, Effacee
        <5>3. emprunts'[e] = [emprunts[e] EXCEPT !.statut = "en_retard"]
          BY <4>2 DEF ValiderMarquage
        <5>4. /\ emprunts'[e].statut = "en_retard" /\ emprunts'[e].livre = emprunts[e].livre
              /\ emprunts'[e].utilisateur = emprunts[e].utilisateur
          BY <5>2, <5>3 DEF LigneEmprunt
        <5>5. emprunts[e] \notin {Absente, Effacee} /\ emprunts'[e] \notin {Absente, Effacee}
          BY <5>1, <5>4 DEF Absente, Effacee
        <5>. QED
          BY <5>1, <5>4, <5>5 DEF PretVu, EstActif, StatutsActifs
      <4>. QED
        BY <2>3, <4>1, <4>2 DEF ValiderMarquage
    <3>2. UNCHANGED <<total, {b \in Livres : fiche[b] = "present"}>>
      BY <2>3, FondsInchange
    <3>3. [e \in Lignes |-> PretVu(e)]' = [e \in Lignes |-> PretVu(e)]
      BY <3>1
    <3>. QED
      BY <3>2, <3>3 DEF P!promesse
  <2>. QED
    BY <2>1, <2>2, <2>3, FondsInchange, LignesEcrites
<1>. QED
  BY <1>1, <1>2, InvariantTenu, PTL DEF Spec, RealisePrets, P!Spec

=============================================================================
