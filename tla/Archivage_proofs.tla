-------------------------- MODULE Archivage_proofs --------------------------
(***************************************************************************)
(* Proofs about Archivage, for every delay, every number of loans and      *)
(* requests: the archive event beside circulation.                         *)
(***************************************************************************)
EXTENDS Archivage, Emprunts_proofs

-----------------------------------------------------------------------------
(* What the DELETE does to circulation *)

(* The DELETE removes closed loans that nobody holds; the rest stays.        *)
LEMMA SuppressionPermise ==
  ASSUME Socle, SupprimerAnciens, NEW e \in Lignes
  PROVE  /\ emprunts'[e] \in {emprunts[e], Effacee}
         /\ emprunts'[e] # emprunts[e] => emprunts[e].statut = "rendu" /\ e \in Anciens
         /\ EstActif(e)' <=> EstActif(e)
<1>1. emprunts'[e] = IF e \in Anciens THEN Effacee ELSE emprunts[e]
  BY DEF SupprimerAnciens
<1>2. e \in Anciens => emprunts[e].statut = "rendu"
  BY DEF Anciens, Rendus
<1>. QED
  BY <1>1, <1>2 DEF EstActif, StatutsActifs, Effacee

(* Circulation does not notice it: no request holds a loan it removes, no    *)
(* count depends on one.                                                     *)
LEMMA SuppressionGarde ==
  ASSUME Invariant, PenalitesJustes, SupprimerAnciens
  PROVE  Invariant' /\ PenalitesJustes'
<1>. USE DEF Invariant, Socle
<1>1. UNCHANGED <<total, dispo, fiche, compte, jour, marquage, tx>>
  BY DEF SupprimerAnciens
<1>2. TypeOK'
  <2>1. \A e \in Lignes : emprunts'[e] \in LigneEmprunt \cup {Absente, Effacee}
    BY SuppressionPermise DEF TypeOK
  <2>2. emprunts' \in [Lignes -> LigneEmprunt \cup {Absente, Effacee}]
    BY <2>1 DEF SupprimerAnciens
  <2>. QED
    BY <1>1, <2>2 DEF TypeOK
<1>3. ASSUME NEW d \in Demandes
      PROVE  DemandeCoherente(d)' /\ PenaliteCoherente(d)'
  <2>1. ASSUME tx[d].etape \in EtapesTenues
        PROVE  emprunts'[tx[d].emprunt] = emprunts[tx[d].emprunt]
    <3>1. /\ tx[d].emprunt \in Lignes
          /\ emprunts[tx[d].emprunt].statut # "rendu"
      BY <2>1, LigneTenue DEF EstActif, StatutsActifs
    <3>. QED
      BY <3>1, SuppressionPermise
  <2>2. DemandeCoherente(d)'
    <3>1. DemandeCoherente(d)
      OBVIOUS
    <3>. HIDE DEF Invariant, Socle
    <3>. QED
      BY <1>1, <2>1, <3>1 DEF DemandeCoherente, EstActif
  <2>3. PenaliteCoherente(d)'
    <3>1. PenaliteCoherente(d)
      BY DEF PenalitesJustes
    <3>2. tx[d].etape \in {"r_cloture", "r_stock", "r_commit"} =>
            emprunts'[tx[d].emprunt] = emprunts[tx[d].emprunt]
      BY <2>1 DEF EtapesTenues, EtapesRetour
    <3>. QED
      BY <1>1, <3>1, <3>2 DEF PenaliteCoherente
  <2>. QED
    BY <2>2, <2>3
<1>4. VerrousExclusifs'
  <2>1. \A e \in marquage.lignes : e \in Lignes /\ emprunts'[e] = emprunts[e]
    BY SuppressionPermise DEF VerrousExclusifs, TypeOK
  <2>. QED
    BY <1>1, <2>1 DEF VerrousExclusifs, TientLivre, TientEmprunt
<1>5. /\ \A l : ActifsDuLivre(l)' = ActifsDuLivre(l)
      /\ \A u : ActifsDuMembre(u)' = ActifsDuMembre(u) /\ EnInstance(u)' = EnInstance(u)
  <2>1. \A e \in Lignes : /\ EstActif(e)' <=> EstActif(e)
                          /\ EstActif(e) => emprunts'[e] = emprunts[e]
    BY SuppressionPermise DEF EstActif, StatutsActifs
  <2>. QED
    BY <1>1, <2>1 DEF ActifsDuLivre, ActifsDuMembre, EnInstance
<1>6. Conservation' /\ DepassementPrevu'
  BY <1>1, <1>5 DEF Conservation, DepassementPrevu
<1>7. \A e \in Lignes : emprunts'[e].statut = "rendu" => emprunts'[e] = emprunts[e]
  BY SuppressionPermise DEF Effacee
<1>. QED
  BY <1>2, <1>3, <1>4, <1>6, <1>7 DEF PenalitesJustes

-----------------------------------------------------------------------------
(* The inductive invariant *)

(* An empty archive, the event at rest *)
LEMMA ArchivageInitial == InitArchivage => InvariantArchivage
<1>. SUFFICES ASSUME InitArchivage PROVE InvariantArchivage
  OBVIOUS
<1>1. Invariant /\ PenalitesJustes
  BY InvariantCompletInitial DEF InitArchivage, InvariantComplet
<1>2. TypeArchivage
  BY <1>1 DEF InitArchivage, Invariant, Socle, TypeArchivage, TypeOK, SansCopie
<1>. QED
  BY <1>1, <1>2 DEF InitArchivage, InvariantArchivage, ArchiveFidele, CopieCoherente, SansCopie

(* A step of circulation leaves what is archived as it is. *)
LEMMA CirculationArchivage ==
  ASSUME InvariantArchivage, [Next]_vars, UNCHANGED <<archive, archivage, copie>>
  PROVE  InvariantArchivage'
<1>. USE DEF InvariantArchivage, Invariant
<1>1. Invariant' /\ PenalitesJustes'
  BY InvariantInductif, PenalitesGardees
<1>2. TypeArchivage'
  <2>1. copie' \in [jour: 0..jour', rendus: SUBSET Lignes]
    <3>1. jour \in Nat /\ jour' \in Nat /\ jour <= jour'
      BY JourCroit DEF Socle
    <3>. QED
      BY <3>1 DEF TypeArchivage
  <2>. QED
    BY <1>1, <2>1 DEF TypeArchivage, Socle
<1>3. ArchiveFidele'
  <2>. SUFFICES ASSUME NEW e \in Lignes, archive[e] # Absente
               PROVE  emprunts'[e] \in {archive[e], Effacee}
    BY DEF ArchiveFidele
  <2>1. archive[e].statut = "rendu"
    BY DEF TypeArchivage
  <2>. QED
    BY <2>1, LignesSuivantes DEF ArchiveFidele, SuiteLigne
<1>4. CopieCoherente'
  <2>. SUFFICES ASSUME NEW e \in copie.rendus, emprunts'[e] # Effacee
               PROVE  /\ emprunts'[e].statut = "rendu"
                      /\ archive[e] = Absente => emprunts'[e].effective + DelaiArchive >= copie.jour
    BY DEF CopieCoherente
  <2>1. e \in Lignes
    BY DEF TypeArchivage
  <2>. QED
    BY <2>1, LignesSuivantes DEF CopieCoherente, SuiteLigne
<1>. QED
  BY <1>1, <1>2, <1>3, <1>4

(* The INSERT copies every old loan, or nothing. *)
LEMMA CopieArchivage ==
  ASSUME InvariantArchivage, CopierAnciens
  PROVE  InvariantArchivage'
<1>. USE DEF InvariantArchivage
<1>1. /\ archive' = [e \in Lignes |-> IF e \in Anciens THEN emprunts[e] ELSE archive[e]]
      /\ archivage' = "suppression" /\ copie' = [jour |-> jour, rendus |-> Rendus]
      /\ UNCHANGED vars
  BY DEF CopierAnciens
<1>2. Invariant' /\ PenalitesJustes'
  <2>1. [Next]_vars
    BY <1>1
  <2>. QED
    BY <2>1, InvariantInductif, PenalitesGardees DEF Invariant
<1>3. \A e \in Rendus : emprunts[e] \in LigneEmprunt /\ emprunts[e].statut = "rendu"
  BY DEF TypeArchivage, TypeOK, Rendus, Absente, Effacee
<1>4. TypeArchivage'
  <2>1. archive' \in [Lignes -> {x \in LigneEmprunt : x.statut = "rendu"} \cup {Absente}]
    BY <1>1, <1>3 DEF TypeArchivage, Anciens
  <2>2. copie' \in [jour: 0..jour', rendus: SUBSET Lignes]
    BY <1>1 DEF vars, TypeArchivage, TypeOK, Rendus
  <2>. QED
    BY <1>1, <1>2, <2>1, <2>2 DEF TypeArchivage, Invariant, Socle
<1>5. ArchiveFidele'
  BY <1>1 DEF ArchiveFidele, vars
<1>6. CopieCoherente'
  <2>. SUFFICES ASSUME NEW e \in Rendus
               PROVE  /\ emprunts[e].statut = "rendu"
                      /\ archive'[e] = Absente => emprunts[e].effective + DelaiArchive >= jour
    BY <1>1 DEF CopieCoherente, vars
  <2>1. /\ e \in Lignes /\ emprunts[e].effective \in Nat /\ jour \in Nat
        /\ emprunts[e] # Absente
    BY DEF Rendus, PenalitesJustes, TypeArchivage, TypeOK, Absente
  <2>2. archive'[e] = Absente => e \notin Anciens
    BY <1>1, <2>1
  <2>. QED
    BY <1>3, <2>1, <2>2, DelaiNaturel DEF Anciens
<1>. QED
  BY <1>2, <1>4, <1>5, <1>6

(* The DELETE ends the event, and so does its failure. *)
LEMMA SuppressionArchivage ==
  ASSUME InvariantArchivage, SupprimerAnciens \/ AbandonnerSuppression
  PROVE  InvariantArchivage'
<1>. USE DEF InvariantArchivage
<1>1. /\ archivage' = "repos" /\ copie' = SansCopie /\ UNCHANGED <<archive, jour>>
  BY DEF SupprimerAnciens, AbandonnerSuppression, vars
<1>2. Invariant' /\ PenalitesJustes'
  <2>1. CASE SupprimerAnciens
    BY <2>1, SuppressionGarde
  <2>2. CASE AbandonnerSuppression
    <3>1. [Next]_vars
      BY <2>2 DEF AbandonnerSuppression
    <3>. QED
      BY <3>1, InvariantInductif, PenalitesGardees DEF Invariant
  <2>. QED
    BY <2>1, <2>2
<1>3. TypeArchivage'
  BY <1>1, <1>2 DEF TypeArchivage, TypeOK, Invariant, Socle, SansCopie
<1>4. ArchiveFidele'
  <2>1. \A e \in Lignes : emprunts'[e] \in {emprunts[e], Effacee}
    BY SuppressionPermise DEF AbandonnerSuppression, vars, Invariant
  <2>. QED
    BY <1>1, <2>1 DEF ArchiveFidele
<1>5. CopieCoherente'
  BY <1>1 DEF CopieCoherente, SansCopie
<1>. QED
  BY <1>2, <1>3, <1>4, <1>5

(* Circulation, the two statements of the event and its failures *)
LEMMA ArchivageInductif ==
  InvariantArchivage /\ [NextArchivage]_varsArchivage => InvariantArchivage'
<1>. SUFFICES ASSUME InvariantArchivage, [NextArchivage]_varsArchivage
             PROVE  InvariantArchivage'
  OBVIOUS
<1>1. CASE [Next]_vars /\ UNCHANGED <<archive, archivage, copie>>
  BY <1>1, CirculationArchivage
<1>2. CASE CopierAnciens
  BY <1>2, CopieArchivage
<1>3. CASE SupprimerAnciens \/ AbandonnerSuppression
  BY <1>3, SuppressionArchivage
<1>. QED
  BY <1>1, <1>2, <1>3 DEF NextArchivage, varsArchivage, RefuserDoublonArchive

-----------------------------------------------------------------------------
(* The theorems *)

(* Beside the archive event circulation keeps its invariant, and what the    *)
(* event has seen and copied agrees with the loans on record.                *)
THEOREM ArchivageTenu == SpecArchivage => []InvariantArchivage
BY ArchivageInitial, ArchivageInductif, PTL DEF SpecArchivage

(* A loan still on record is, if archived, exactly as the archive says. *)
THEOREM ArchiveToujoursFidele == SpecArchivage => []ArchiveFidele
<1>1. InvariantArchivage => ArchiveFidele
  BY DEF InvariantArchivage
<1>. QED
  BY <1>1, ArchivageTenu, PTL

(* No penalty on record exceeds what its dates justify, archive event        *)
(* included.                                                                 *)
THEOREM PenaliteBorneeArchivage == SpecArchivage => []PenaliteJamaisExcessive
<1>1. InvariantArchivage => PenaliteJamaisExcessive
  BY DEF InvariantArchivage, PenalitesJustes, PenaliteJamaisExcessive
<1>. QED
  BY <1>1, ArchivageTenu, PTL

(* A closed loan is not rewritten until the event removes it, and the event  *)
(* touches no active one.                                                    *)
THEOREM HistoriqueArchive == SpecArchivage => HistoriqueFige
<1>1. ASSUME Invariant, [NextArchivage]_varsArchivage, NEW e \in Lignes
      PROVE  /\ emprunts[e].statut = "rendu" => emprunts'[e] \in {emprunts[e], Effacee}
             /\ EstActif(e) => /\ emprunts'[e].utilisateur = emprunts[e].utilisateur
                               /\ emprunts'[e].livre = emprunts[e].livre
                               /\ emprunts'[e].prevue = emprunts[e].prevue
  <2>1. CASE [Next]_vars
    BY <2>1, <1>1, LignesSuivantes DEF Invariant, SuiteLigne
  <2>2. CASE SupprimerAnciens
    BY <2>2, <1>1, SuppressionPermise DEF Invariant, EstActif, StatutsActifs
  <2>3. CASE CopierAnciens \/ RefuserDoublonArchive \/ AbandonnerSuppression
    BY <2>3 DEF CopierAnciens, RefuserDoublonArchive, AbandonnerSuppression, vars, varsArchivage
  <2>. QED
    BY <1>1, <2>1, <2>2, <2>3 DEF NextArchivage, varsArchivage
<1>2. InvariantArchivage /\ [NextArchivage]_varsArchivage =>
        [\A e \in Lignes :
           /\ emprunts[e].statut = "rendu" => emprunts'[e] \in {emprunts[e], Effacee}
           /\ EstActif(e) => /\ emprunts'[e].utilisateur = emprunts[e].utilisateur
                             /\ emprunts'[e].livre = emprunts[e].livre
                             /\ emprunts'[e].prevue = emprunts[e].prevue]_vars
  BY <1>1 DEF InvariantArchivage
<1>. QED
  BY <1>2, ArchivageTenu, PTL DEF SpecArchivage, HistoriqueFige

(* A loan removed without a copy was closed after the INSERT or became old   *)
(* at a midnight since.                                                      *)
THEOREM PerteSeulementAMinuit == SpecArchivage => PerteDeMinuit
<1>1. ASSUME InvariantArchivage, [NextArchivage]_varsArchivage, NEW e \in copie.rendus,
             emprunts[e] # Effacee, emprunts'[e] = Effacee, archive[e] = Absente
      PROVE  emprunts[e].effective + DelaiArchive \in copie.jour..(jour - 1)
  <2>. USE <1>1 DEF InvariantArchivage
  <2>1. e \in Lignes /\ copie.jour \in Nat /\ jour \in Nat
    BY DEF TypeArchivage, TypeOK
  <2>2. /\ emprunts[e].statut = "rendu" /\ emprunts[e].effective \in Nat
        /\ emprunts[e].effective + DelaiArchive >= copie.jour
    BY <2>1 DEF CopieCoherente, PenalitesJustes
  <2>3. SupprimerAnciens
    <3>1. ~[Next]_vars
      BY <2>1, <2>2, LignesSuivantes DEF Invariant, SuiteLigne
    <3>2. ~(CopierAnciens \/ RefuserDoublonArchive \/ AbandonnerSuppression)
      BY DEF CopierAnciens, RefuserDoublonArchive, AbandonnerSuppression, vars, varsArchivage
    <3>. QED
      BY <3>1, <3>2 DEF NextArchivage, varsArchivage
  <2>4. e \in Anciens
    BY <2>1, <2>3, SuppressionPermise DEF Invariant
  <2>. QED
    BY <2>1, <2>2, <2>4, DelaiNaturel DEF Anciens
<1>2. InvariantArchivage /\ [NextArchivage]_varsArchivage =>
        [\A e \in copie.rendus :
           emprunts[e] # Effacee /\ emprunts'[e] = Effacee /\ archive[e] = Absente
           => emprunts[e].effective + DelaiArchive \in copie.jour..(jour - 1)]_varsArchivage
  BY <1>1
<1>. QED
  BY <1>2, ArchivageTenu, PTL DEF SpecArchivage, PerteDeMinuit

=============================================================================
