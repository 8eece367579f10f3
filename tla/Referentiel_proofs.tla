------------------------- MODULE Referentiel_proofs -------------------------
(***************************************************************************)
(* Proofs about Referentiel, for every set of authors, categories, names   *)
(* and requests, every page size: editions beside a client that reads a    *)
(* list page by page.                                                      *)
(***************************************************************************)
EXTENDS Referentiel, FiniteSetTheorems, TLAPS

-----------------------------------------------------------------------------
(* Pages *)

(* The rows of a table are a finite set, so that their number is one.        *)
LEMMA LignesFinies ==
  ASSUME NEW T \in SUBSET Fiches, NEW S \in SUBSET T
  PROVE  /\ IsFiniteSet(S) /\ Cardinality(S) \in Nat
         /\ Cardinality(S) <= Cardinality(T) /\ Cardinality(T) <= Cardinality(Fiches)
BY FichesFinies, FS_Subset, FS_CardinalityType

(* The rows taken at the positions of an interval are as many as these.      *)
LEMMA Tranche ==
  ASSUME NEW T \in SUBSET Fiches, NEW s \in SetToSeqs(LignesDe(T)),
         NEW a \in Nat \ {0}, NEW b \in Nat, b <= Cardinality(LignesDe(T)), a <= b + 1
  PROVE  Cardinality({s[i] : i \in a .. b}) = b - a + 1
<1> DEFINE L == LignesDe(T)
           n == Cardinality(L)
           I == a .. b
           S == {s[i] : i \in I}
           g == [i \in I |-> s[i]]
<1>1. s \in [1 .. n -> L] /\ \A i, j \in 1 .. n : i # j => s[i] # s[j]
  BY DEF SetToSeqs
<1>2. n \in Nat
  BY LignesFinies DEF LignesDe
<1>3. I \subseteq 1 .. n
  BY <1>2
<1>4. g \in Bijection(I, S)
  <2>1. g \in [I -> S] /\ \A i \in I : g[i] = s[i]
    OBVIOUS
  <2>2. \A i, j \in I : g[i] = g[j] => i = j
    BY <1>1, <1>3, <2>1
  <2>3. \A x \in S : \E i \in I : g[i] = x
    BY <2>1
  <2>. QED
    BY <2>1, <2>2, <2>3 DEF Bijection, Injection, Surjection, IsInjective
<1>5. IsFiniteSet(I) /\ Cardinality(I) = b - a + 1
  <2>1. a \in Int /\ b \in Int
    OBVIOUS
  <2>2. IsFiniteSet(a .. b) /\ Cardinality(a .. b) = IF a > b THEN 0 ELSE b - a + 1
    BY <2>1, FS_Interval
  <2>. QED
    BY <2>1, <2>2
<1>. HIDE DEF I, S, g
<1>6. Cardinality(S) = Cardinality(I)
  BY <1>4, <1>5, FS_Bijection DEF ExistsBijection
<1>7. Cardinality(S) = b - a + 1
  BY <1>5, <1>6
<1>. QED
  BY <1>7 DEF S, I

(* Every row has a position in a listing of its table, and the positions are *)
(* 1 to the number of rows.                                                  *)
LEMMA ClassementComplet ==
  ASSUME NEW T \in SUBSET Fiches, NEW s \in SetToSeqs(LignesDe(T))
  PROVE  /\ Cardinality(LignesDe(T)) \in Nat /\ DOMAIN s = 1 .. Cardinality(LignesDe(T))
         /\ s \in [1 .. Cardinality(LignesDe(T)) -> LignesDe(T)]
         /\ \A i, j \in DOMAIN s : i # j => s[i] # s[j]
         /\ \A f \in LignesDe(T) : \E i \in DOMAIN s : s[i] = f
<1> DEFINE L == LignesDe(T)
           n == Cardinality(L)
<1>1. s \in [1 .. n -> L] /\ \A i, j \in 1 .. n : i # j => s[i] # s[j]
  BY DEF SetToSeqs
<1>2. IsFiniteSet(L) /\ n \in Nat
  BY LignesFinies DEF LignesDe
<1>3. s \in Injection(1 .. n, L)
  BY <1>1 DEF Injection, IsInjective
<1>4. Cardinality(1 .. n) = n
  BY <1>2, FS_Interval
<1>5. s \in Surjection(1 .. n, L)
  BY <1>2, <1>3, <1>4, FS_Injection
<1>. QED
  BY <1>1, <1>2, <1>5 DEF Surjection

-----------------------------------------------------------------------------

(* A row on record has a name, that can be compared, and its other columns.  *)
LEMMA LigneTypee ==
  ASSUME fiches \in [Fiches -> Contenu \cup {Vierge, Effacee}], NEW f \in Fiches
  PROVE  /\ EnLigne(f) <=> fiches[f] \in Contenu
         /\ EnLigne(f) => fiches[f].nom \in Nat /\ fiches[f].nom # Aucun
         /\ Vierge # Effacee
<1>1. Vierge \notin Contenu /\ Effacee \notin Contenu /\ Vierge # Effacee
  BY AucunNiFiche DEF Vierge, Effacee, Contenu
<1>2. EnLigne(f) <=> fiches[f] \in Contenu
  BY <1>1 DEF EnLigne
<1>3. \A v \in Contenu : v.nom \in Nat /\ v.nom # Aucun
  BY NomsOrdonnes, AucunNiFiche DEF Contenu
<1>. QED
  BY <1>1, <1>2, <1>3

(* The offset of a page is a natural number, at least one less than its own. *)
LEMMA DecalageEntier ==
  ASSUME NEW p \in Nat \ {0}, NEW t \in Nat \ {0}
  PROVE  /\ Offset(p, t) \in Nat /\ Offset(p + 1, t) = Offset(p, t) + t
         /\ p - 1 <= Offset(p, t)
<1> DEFINE m == p - 1
           u == t - 1
<1>1. m \in Nat /\ u \in Nat /\ t = u + 1 /\ p = m + 1
  OBVIOUS
<1>2. m * u \in Nat
  BY <1>1
<1>3. m * t = m * u + m
  BY <1>1
<1>4. (m + 1) * t = m * t + t
  BY <1>1
<1>. QED
  BY <1>1, <1>2, <1>3, <1>4 DEF Offset

(* A page is full exactly when it does not go past the last row.             *)
LEMMA PagePleine ==
  ASSUME TypeReferentiel, EnLecture, NEW s \in SetToSeqs(LignesDe(parcours.table))
  PROVE  LET debut == Offset(parcours.page, parcours.taille)
         IN  Cardinality(Fenetre(s)) = parcours.taille
               <=> debut + parcours.taille <= Cardinality(LignesDe(parcours.table))
<1> DEFINE T == parcours.table
           n == Cardinality(LignesDe(T))
           t == parcours.taille
           debut == Offset(parcours.page, t)
<1>1. /\ T \in SUBSET Fiches
      /\ t \in Nat \ {0} /\ parcours.page \in Nat \ {0}
  BY TaillesCorrectes, FichesFinies, FS_CardinalityType
     DEF TypeReferentiel, Parcours, Fiches
<1>2. debut \in Nat
  BY <1>1, DecalageEntier
<1>3. n \in Nat /\ DOMAIN s = 1 .. n
  BY <1>1, ClassementComplet
<1>s. s \in SetToSeqs(LignesDe(T))
  OBVIOUS
<1>. HIDE DEF n, debut, t, T
<1>. SUFFICES Cardinality(Fenetre(s)) = t <=> debut + t <= n
  BY DEF debut, t, n, T
<1>4. Fenetre(s) = {s[i] : i \in (debut + 1 .. debut + t) \cap (1 .. n)}
  BY <1>3 DEF Fenetre, debut, t
<1>5. CASE debut + t <= n
  <2>1. (debut + 1 .. debut + t) \cap (1 .. n) = debut + 1 .. debut + t
    BY <1>1, <1>2, <1>3, <1>5
  <2>2. /\ debut + 1 \in Nat \ {0} /\ debut + t \in Nat
        /\ debut + t <= Cardinality(LignesDe(T)) /\ debut + 1 <= (debut + t) + 1
    BY <1>1, <1>2, <1>5 DEF n
  <2>3. Cardinality({s[i] : i \in debut + 1 .. debut + t}) = (debut + t) - (debut + 1) + 1
    BY <1>1, <1>s, <2>2, Tranche
  <2>4. Cardinality(Fenetre(s)) = t
    <3>1. (debut + t) - (debut + 1) + 1 = t
      BY <1>1, <1>2
    <3>2. Cardinality(Fenetre(s)) = Cardinality({s[i] : i \in debut + 1 .. debut + t})
      BY <1>4, <2>1
    <3>. QED
      BY <2>3, <3>1, <3>2
  <2>. QED
    BY <1>5, <2>4
<1>6. CASE debut <= n /\ n < debut + t
  <2>1. (debut + 1 .. debut + t) \cap (1 .. n) = debut + 1 .. n
    BY <1>1, <1>2, <1>3, <1>6
  <2>2. /\ debut + 1 \in Nat \ {0} /\ n \in Nat
        /\ n <= Cardinality(LignesDe(T)) /\ debut + 1 <= n + 1
    BY <1>2, <1>3, <1>6 DEF n
  <2>3. Cardinality({s[i] : i \in debut + 1 .. n}) = n - (debut + 1) + 1
    BY <1>1, <1>s, <2>2, Tranche
  <2>4. Cardinality(Fenetre(s)) # t
    <3>1. n - (debut + 1) + 1 # t
      BY <1>1, <1>2, <1>3, <1>6
    <3>2. Cardinality(Fenetre(s)) = Cardinality({s[i] : i \in debut + 1 .. n})
      BY <1>4, <2>1
    <3>. QED
      BY <2>3, <3>1, <3>2
  <2>. QED
    BY <1>1, <1>2, <1>3, <1>6, <2>4
<1>7. CASE n < debut
  <2>1. (debut + 1 .. debut + t) \cap (1 .. n) = {}
    BY <1>1, <1>2, <1>3, <1>7
  <2>2. Cardinality(Fenetre(s)) = 0
    BY <1>4, <2>1, FS_EmptySet
  <2>. QED
    BY <1>1, <1>2, <1>3, <1>7, <2>2
<1>. QED
  BY <1>1, <1>2, <1>3, <1>5, <1>6, <1>7

(* The categories have different names: the position of one in the listing   *)
(* is the number of those before it in the order of the names.               *)
LEMMA PositionParRang ==
  ASSUME TypeReferentiel, NomsUniques, NEW s \in Classements(Categories), NEW i \in DOMAIN s
  PROVE  Rang(s[i]) = i - 1
<1> DEFINE L == LignesDe(Categories)
           n == Cardinality(L)
<1>0. Categories \in SUBSET Fiches
  BY DEF Fiches
<1>1. /\ s \in SetToSeqs(L)
      /\ \A k, j \in DOMAIN s : k < j => fiches[s[k]].nom <= fiches[s[j]].nom
  BY DEF Classements
<1>2. /\ n \in Nat /\ DOMAIN s = 1 .. n /\ s \in [1 .. n -> L]
      /\ \A k, j \in DOMAIN s : k # j => s[k] # s[j]
      /\ \A f \in L : \E k \in DOMAIN s : s[k] = f
  BY <1>0, <1>1, ClassementComplet
<1>3. \A f \in L : fiches[f].nom \in Nat
  BY <1>0, LigneTypee DEF LignesDe, TypeReferentiel
<1>. HIDE DEF n
<1>4. {g \in L : fiches[g].nom < fiches[s[i]].nom} = {s[k] : k \in 1 .. i - 1}
  <2>1. ASSUME NEW k \in 1 .. i - 1
        PROVE  s[k] \in L /\ fiches[s[k]].nom < fiches[s[i]].nom
    <3>1. k \in DOMAIN s /\ i \in DOMAIN s /\ k < i /\ k # i
      BY <1>2
    <3>2. s[k] \in L /\ s[i] \in L /\ s[k] # s[i]
      BY <1>2, <3>1
    <3>3. fiches[s[k]].nom <= fiches[s[i]].nom /\ fiches[s[k]].nom # fiches[s[i]].nom
      BY <1>1, <3>1, <3>2 DEF NomsUniques
    <3>. QED
      BY <1>3, <3>2, <3>3
  <2>2. ASSUME NEW g \in L, fiches[g].nom < fiches[s[i]].nom
        PROVE  \E k \in 1 .. i - 1 : s[k] = g
    <3>1. PICK k \in DOMAIN s : s[k] = g
      BY <1>2
    <3>2. s[i] \in L /\ fiches[s[i]].nom \in Nat /\ fiches[g].nom \in Nat
      BY <1>2, <1>3
    <3>3. ~(i <= k)
      <4>1. i = k => FALSE
        BY <2>2, <3>1, <3>2
      <4>2. i < k => FALSE
        BY <1>1, <2>2, <3>1, <3>2
      <4>. QED
        BY <1>2, <4>1, <4>2
    <3>. QED
      BY <1>2, <3>1, <3>3
  <2>. QED
    BY <2>1, <2>2
<1>5. /\ 1 \in Nat \ {0} /\ i - 1 \in Nat /\ i \in Nat
      /\ i - 1 <= Cardinality(LignesDe(Categories)) /\ 1 <= (i - 1) + 1
  BY <1>2 DEF n
<1>6. Cardinality({s[k] : k \in 1 .. i - 1}) = (i - 1) - 1 + 1
  BY <1>0, <1>1, <1>5, Tranche
<1>7. Rang(s[i]) = (i - 1) - 1 + 1
  BY <1>4, <1>6 DEF Rang
<1>. QED
  BY <1>5, <1>7

(* What a page of categories shows, by rank *)
LEMMA PageParRang ==
  ASSUME TypeReferentiel, NomsUniques, EnLecture, parcours.table = Categories,
         NEW s \in Classements(Categories)
  PROVE  LET debut == Offset(parcours.page, parcours.taille)
         IN  /\ \A f \in Fenetre(s) : f \in LignesDe(Categories) /\ debut <= Rang(f)
             /\ \A f \in Fenetre(s) : Rang(f) < debut + parcours.taille
             /\ \A f \in LignesDe(Categories) :
                  /\ Rang(f) \in Nat /\ Rang(f) < Cardinality(LignesDe(Categories))
                  /\ debut <= Rang(f) /\ Rang(f) < debut + parcours.taille => f \in Fenetre(s)
<1> DEFINE L == LignesDe(Categories)
           n == Cardinality(L)
           t == parcours.taille
           debut == Offset(parcours.page, t)
<1>0. Categories \in SUBSET Fiches
  BY DEF Fiches
<1>1. /\ n \in Nat /\ DOMAIN s = 1 .. n /\ s \in [1 .. n -> L]
      /\ \A f \in L : \E k \in DOMAIN s : s[k] = f
  BY <1>0, ClassementComplet DEF Classements
<1>2. t \in Nat \ {0} /\ parcours.page \in Nat \ {0}
  BY TaillesCorrectes, FichesFinies, FS_CardinalityType DEF TypeReferentiel, Parcours
<1>3. debut \in Nat
  BY <1>2, DecalageEntier
<1>4. \A i \in 1 .. n : Rang(s[i]) = i - 1
  BY <1>1, PositionParRang
<1>. HIDE DEF n, debut, t, L
<1>5. Fenetre(s) = {s[i] : i \in (debut + 1 .. debut + t) \cap (1 .. n)}
  BY <1>1 DEF Fenetre, debut, t
<1>6. \A f \in Fenetre(s) : f \in L /\ debut <= Rang(f) /\ Rang(f) < debut + t
  <2>. SUFFICES ASSUME NEW i \in (debut + 1 .. debut + t) \cap (1 .. n)
               PROVE  s[i] \in L /\ debut <= Rang(s[i]) /\ Rang(s[i]) < debut + t
    BY <1>5
  <2>. QED
    BY <1>1, <1>2, <1>3, <1>4
<1>7. ASSUME NEW f \in L
      PROVE  /\ Rang(f) \in Nat /\ Rang(f) < n
             /\ debut <= Rang(f) /\ Rang(f) < debut + t => f \in Fenetre(s)
  <2>1. PICK i \in 1 .. n : s[i] = f /\ Rang(f) = i - 1
    BY <1>1, <1>4
  <2>2. debut <= Rang(f) /\ Rang(f) < debut + t => i \in (debut + 1 .. debut + t) \cap (1 .. n)
    BY <1>1, <1>2, <1>3, <2>1
  <2>. QED
    BY <1>1, <1>5, <2>1, <2>2
<1>. QED
  BY <1>6, <1>7 DEF n, debut, t, L

-----------------------------------------------------------------------------
(* How changes of the rows move the others *)

(* A row goes up the list only if one before it was deleted or renamed, and  *)
(* down only if one was created or renamed.                                  *)
LEMMA RangSuit ==
  ASSUME fiches \in [Fiches -> Contenu \cup {Vierge, Effacee}],
         fiches' \in [Fiches -> Contenu \cup {Vierge, Effacee}]
  PROVE  /\ (\A g \in Categories : ~Sortie(g) /\ ~Renommee(g))
              => \A f \in LignesDe(Categories) : Rang(f) <= Rang(f)'
         /\ (\A g \in Categories : ~Entree(g) /\ ~Renommee(g))
              => \A f \in LignesDe(Categories)' : Rang(f)' <= Rang(f)
<1> DEFINE Avant(f) == {g \in LignesDe(Categories) : fiches[g].nom < fiches[f].nom}
           Apres(f) == {g \in LignesDe(Categories)' : fiches'[g].nom < fiches'[f].nom}
<1>1. \A f \in Categories : /\ IsFiniteSet(Avant(f)) /\ IsFiniteSet(Apres(f))
                            /\ Rang(f) = Cardinality(Avant(f))
                            /\ Rang(f)' = Cardinality(Apres(f))
  <2>1. \A f \in Categories : Avant(f) \in SUBSET Fiches /\ Apres(f) \in SUBSET Fiches
    BY DEF LignesDe, Fiches
  <2>2. \A S \in SUBSET Fiches : IsFiniteSet(S)
    BY FichesFinies, FS_Subset
  <2>. QED
    BY <2>1, <2>2 DEF Rang
<1>2. ASSUME \A g \in Categories : ~Sortie(g) /\ ~Renommee(g),
             NEW f \in LignesDe(Categories)
      PROVE  Avant(f) \subseteq Apres(f) /\ f \in Categories
  BY <1>2 DEF LignesDe, Sortie, Renommee
<1>3. ASSUME \A g \in Categories : ~Entree(g) /\ ~Renommee(g),
             NEW f \in LignesDe(Categories)'
      PROVE  Apres(f) \subseteq Avant(f) /\ f \in Categories
  BY <1>3 DEF LignesDe, Entree, Renommee
<1>4. \A S, U : IsFiniteSet(U) /\ S \subseteq U => Cardinality(S) <= Cardinality(U)
  BY FS_Subset
<1>. HIDE DEF Avant, Apres
<1>. QED
  BY <1>1, <1>2, <1>3, <1>4

(* What was read keeps its meaning when rows are created, edited or deleted. *)
LEMMA FichesChangees ==
  ASSUME InvariantReferentiel, fiches' \in [Fiches -> Contenu \cup {Vierge, Effacee}], Noter,
         UNCHANGED parcours, req' \in [Requetes -> Requete], NomsUniques', EditionsEnCours'
  PROVE  InvariantReferentiel'
<1>. USE DEF InvariantReferentiel
<1>0. fiches \in [Fiches -> Contenu \cup {Vierge, Effacee}]
  BY DEF TypeReferentiel
<1>1. CASE ~EnLecture
  <2>1. UNCHANGED temoin /\ parcours.etape \in {"libre", "fini"}
    BY <1>1 DEF Noter, EnLecture, TypeReferentiel, Parcours
  <2>2. TypeReferentiel'
    BY <2>1 DEF TypeReferentiel
  <2>3. ParcoursComplet' /\ ParcoursSansDoublon'
    BY <2>1 DEF ParcoursComplet, ParcoursSansDoublon
  <2>4. StablesEnLigne' /\ LuJusquIci'
    BY <1>1 DEF StablesEnLigne, LuJusquIci, EnLecture
  <2>. QED
    BY <2>2, <2>3, <2>4
<1>2. CASE EnLecture
  <2>1. temoin' =
          [stables |-> {f \in temoin.stables : EnLigne(f)' /\ ~Renommee(f)},
           ajout   |-> temoin.ajout   \/ \E f \in parcours.table : Entree(f) \/ Renommee(f),
           retrait |-> temoin.retrait \/ \E f \in parcours.table : Sortie(f) \/ Renommee(f)]
    BY <1>2 DEF Noter, EnLecture
  <2>2. /\ temoin.stables \in SUBSET Fiches /\ temoin.ajout \in BOOLEAN
        /\ temoin.retrait \in BOOLEAN
    BY DEF TypeReferentiel
  <2>3. TypeReferentiel'
    BY <2>1, <2>2 DEF TypeReferentiel
  <2>4. StablesEnLigne'
    BY <1>2, <2>1 DEF StablesEnLigne, LignesDe, EnLecture
  <2>5. ParcoursComplet' /\ ParcoursSansDoublon'
    BY <1>2, <2>1, <2>2 DEF ParcoursComplet, ParcoursSansDoublon, EnLecture
  <2>6. LuJusquIci'
    <3>. SUFFICES ASSUME parcours.table = Categories
                 PROVE  LuJusquIci'
      BY DEF LuJusquIci
    <3> DEFINE debut == Offset(parcours.page, parcours.taille)
    <3>1. debut' = debut /\ debut \in Nat
      BY TaillesCorrectes, FichesFinies, FS_CardinalityType, DecalageEntier
         DEF TypeReferentiel, Parcours
    <3>2. \A f \in Categories : Rang(f) \in Nat /\ Rang(f)' \in Nat
      <4>1. \A f \in Categories :
              /\ {g \in LignesDe(Categories) : fiches[g].nom < fiches[f].nom} \in SUBSET Fiches
              /\ {g \in LignesDe(Categories)' : fiches'[g].nom < fiches'[f].nom} \in SUBSET Fiches
        BY DEF LignesDe, Fiches
      <4>2. \A S \in SUBSET Fiches : Cardinality(S) \in Nat
        BY FichesFinies, FS_Subset, FS_CardinalityType
      <4>. QED
        BY <4>1, <4>2 DEF Rang
    <3>. HIDE DEF debut
    <3>3. ASSUME ~temoin'.retrait, NEW f \in temoin'.stables, Rang(f)' < debut
          PROVE  f \in parcours.vus
      <4>1. ~temoin.retrait /\ \A g \in Categories : ~Sortie(g) /\ ~Renommee(g)
        BY <2>1, <3>3
      <4>2. f \in temoin.stables /\ f \in LignesDe(Categories) /\ f \in Categories
        BY <1>2, <2>1, <3>3 DEF StablesEnLigne, LignesDe
      <4>3. Rang(f) <= Rang(f)'
        BY <1>0, <4>1, <4>2, RangSuit
      <4>4. Rang(f) < debut
        BY <3>1, <3>2, <3>3, <4>2, <4>3
      <4>. QED
        BY <1>2, <4>1, <4>2, <4>4 DEF LuJusquIci, debut
    <3>4. ASSUME ~temoin'.ajout, NEW f \in parcours.vus \cap LignesDe(Categories)'
          PROVE  Rang(f)' < debut
      <4>1. ~temoin.ajout /\ \A g \in Categories : ~Entree(g) /\ ~Renommee(g)
        BY <2>1, <3>4
      <4>2. f \in LignesDe(Categories) /\ f \in Categories
        BY <4>1 DEF LignesDe, Entree
      <4>3. Rang(f)' <= Rang(f)
        BY <1>0, <4>1, RangSuit
      <4>4. Rang(f) < debut
        BY <1>2, <4>1, <4>2 DEF LuJusquIci, debut
      <4>. QED
        BY <3>1, <3>2, <4>2, <4>3, <4>4
    <3>. QED
      BY <3>1, <3>3, <3>4 DEF LuJusquIci, debut
  <2>. QED
    BY <2>3, <2>4, <2>5, <2>6
<1>. QED
  BY <1>1, <1>2

(* Steps of a request that change no row *)
LEMMA RequeteSeule ==
  ASSUME InvariantReferentiel, UNCHANGED <<fiches, parcours, temoin>>,
         req' \in [Requetes -> Requete], EditionsEnCours'
  PROVE  InvariantReferentiel'
<1>1. /\ TypeReferentiel' /\ NomsUniques' /\ StablesEnLigne'
      /\ ParcoursComplet' /\ ParcoursSansDoublon'
  BY DEF InvariantReferentiel, TypeReferentiel, NomsUniques, StablesEnLigne, ParcoursComplet,
         ParcoursSansDoublon, LignesDe, EnLigne, EnLecture
<1>2. LuJusquIci'
  BY DEF InvariantReferentiel, LuJusquIci, LignesDe, EnLigne, EnLecture, Rang
<1>. QED
  BY <1>1, <1>2 DEF InvariantReferentiel

-----------------------------------------------------------------------------
(* Editions *)

(* A reply ends the request. *)
LEMMA ReponseRendue ==
  ASSUME req \in [Requetes -> Requete], NEW r \in Requetes, NEW x \in Reponses, Repondre(r, x)
  PROVE  /\ req' \in [Requetes -> Requete]
         /\ req'[r].etape = "libre" /\ req'[r].reponse = x
         /\ \A q \in Requetes \ {r} : req'[q] = req[q]
<1> DEFINE v == [RequeteLibre EXCEPT !.reponse = x]
<1>1. v \in Requete /\ v.etape = "libre" /\ v.reponse = x
  BY DEF RequeteLibre, Requete
<1>2. req' = [req EXCEPT ![r] = v]
  BY DEF Repondre
<1>. HIDE DEF v
<1>. QED
  BY <1>1, <1>2

(* The name of a category that is written belongs to no other one.           *)
LEMMA NomEcrit ==
  ASSUME InvariantReferentiel, NEW f \in Fiches, NEW v \in Contenu,
         fiches' = [fiches EXCEPT ![f] = v], f \in Categories => ~NomPris(f, v.nom)
  PROVE  NomsUniques' /\ fiches' \in [Fiches -> Contenu \cup {Vierge, Effacee}]
<1>1. fiches \in [Fiches -> Contenu \cup {Vierge, Effacee}]
  BY DEF InvariantReferentiel, TypeReferentiel
<1>2. /\ fiches' \in [Fiches -> Contenu \cup {Vierge, Effacee}]
      /\ fiches'[f] = v /\ \A g \in Fiches \ {f} : fiches'[g] = fiches[g]
  BY <1>1
<1>3. \A g \in Categories \ {f} : EnLigne(g)' = EnLigne(g) /\ fiches'[g].nom = fiches[g].nom
  BY <1>2 DEF EnLigne, Fiches
<1>4. \A g \in Categories \ {f} : EnLigne(g) /\ f \in Categories => fiches[g].nom # v.nom
  BY DEF NomPris
<1>5. NomsUniques'
  <2>. SUFFICES ASSUME NEW g \in LignesDe(Categories)', NEW h \in LignesDe(Categories)',
                      fiches'[g].nom = fiches'[h].nom, g # h
               PROVE  FALSE
    BY DEF NomsUniques
  <2>1. g \in Categories /\ h \in Categories /\ EnLigne(g)' /\ EnLigne(h)'
    BY DEF LignesDe
  <2>2. CASE g # f /\ h # f
    BY <1>3, <2>1, <2>2 DEF InvariantReferentiel, NomsUniques, LignesDe
  <2>3. CASE g = f \/ h = f
    BY <1>2, <1>3, <1>4, <2>1, <2>3
  <2>. QED
    BY <2>2, <2>3
<1>. QED
  BY <1>2, <1>5

(* POST: one INSERT *)
LEMMA CreationGarde ==
  ASSUME InvariantReferentiel, Creation
  PROVE  InvariantReferentiel'
<1>1. PICK f \in Fiches, v \in Contenu :
        Inserer(f, v) /\ (f \in Categories => ~NomPris(f, v.nom))
  BY FichesFinies DEF Creation, CreerAuteur, CreerCategorie, Fiches
<1>2. /\ fiches' = [fiches EXCEPT ![f] = v] /\ Noter /\ UNCHANGED <<req, parcours>>
  BY <1>1 DEF Inserer
<1>3. NomsUniques' /\ fiches' \in [Fiches -> Contenu \cup {Vierge, Effacee}]
  BY <1>1, <1>2, NomEcrit
<1>4. EditionsEnCours' /\ req' \in [Requetes -> Requete]
  BY <1>2 DEF InvariantReferentiel, EditionsEnCours, TypeReferentiel
<1>. QED
  BY <1>2, <1>3, <1>4, FichesChangees

(* DELETE: one statement *)
LEMMA SuppressionGarde ==
  ASSUME InvariantReferentiel, NEW f \in Fiches, SupprimerFiche(f)
  PROVE  InvariantReferentiel'
<1>1. /\ fiches' = [fiches EXCEPT ![f] = Effacee] /\ Noter /\ UNCHANGED <<req, parcours>>
  BY DEF SupprimerFiche
<1>2. fiches \in [Fiches -> Contenu \cup {Vierge, Effacee}]
  BY DEF InvariantReferentiel, TypeReferentiel
<1>3. /\ fiches' \in [Fiches -> Contenu \cup {Vierge, Effacee}]
      /\ fiches'[f] = Effacee /\ \A g \in Fiches \ {f} : fiches'[g] = fiches[g]
  BY <1>1, <1>2
<1>4. NomsUniques'
  <2>1. \A g \in LignesDe(Categories)' :
          g \in LignesDe(Categories) /\ fiches'[g].nom = fiches[g].nom
    BY <1>3 DEF LignesDe, EnLigne, Fiches
  <2>. QED
    BY <2>1 DEF NomsUniques, InvariantReferentiel
<1>5. EditionsEnCours' /\ req' \in [Requetes -> Requete]
  BY <1>1 DEF InvariantReferentiel, EditionsEnCours, TypeReferentiel
<1>. QED
  BY <1>1, <1>3, <1>4, <1>5, FichesChangees

(* PUT and PATCH, statement by statement *)
LEMMA LectureGarde ==
  ASSUME InvariantReferentiel, NEW r \in Requetes, NEW f \in Fiches,
         NEW n \in Noms \cup {Aucun}, NEW d \in Details \cup {Aucun}, LireFiche(r, f, n, d)
  PROVE  InvariantReferentiel'
<1> DEFINE v == Composee(fiches[f], n, d)
           q == [etape |-> "ecriture", fiche |-> f, valeur |-> v,
                 nomEnvoye |-> n # Aucun, reponse |-> Aucun]
<1>1. req' = [req EXCEPT ![r] = q] /\ UNCHANGED <<fiches, parcours, temoin>>
  BY DEF LireFiche
<1>2. v \in Contenu
  <2>1. fiches[f] \in Contenu
    BY LigneTypee DEF LireFiche, InvariantReferentiel, TypeReferentiel
  <2>. QED
    BY <2>1 DEF Composee, Contenu
<1>. HIDE DEF v
<1>3. /\ q \in Requete /\ q.etape = "ecriture" /\ q.reponse = Aucun /\ q.fiche \in Fiches
      /\ q.valeur \in Contenu
  BY <1>2 DEF Requete
<1>. HIDE DEF q
<1>4. req' \in [Requetes -> Requete] /\ EditionsEnCours'
  BY <1>1, <1>3 DEF InvariantReferentiel, TypeReferentiel, EditionsEnCours
<1>. QED
  BY <1>1, <1>4, RequeteSeule

(* The UPDATE of the whole row, decided by the unique index *)
LEMMA EcritureGarde ==
  ASSUME InvariantReferentiel, NEW r \in Requetes, EcrireFiche(r)
  PROVE  InvariantReferentiel'
<1>1. /\ req[r].etape = "ecriture" /\ ~NomPris(req[r].fiche, req[r].valeur.nom)
      /\ fiches' = [fiches EXCEPT ![req[r].fiche] = req[r].valeur]
      /\ Noter /\ Repondre(r, "ok") /\ UNCHANGED parcours
  BY DEF EcrireFiche
<1>2. req[r].fiche \in Fiches /\ req[r].valeur \in Contenu
  BY <1>1 DEF InvariantReferentiel, EditionsEnCours
<1>3. NomsUniques' /\ fiches' \in [Fiches -> Contenu \cup {Vierge, Effacee}]
  BY <1>1, <1>2, NomEcrit
<1>4. req' \in [Requetes -> Requete] /\ EditionsEnCours'
  BY <1>1, ReponseRendue DEF InvariantReferentiel, TypeReferentiel, EditionsEnCours, Reponses
<1>. QED
  BY <1>1, <1>3, <1>4, FichesChangees

(* Every statement of an edition, and every reply that changes no row *)
LEMMA EditionGarde ==
  ASSUME InvariantReferentiel, NEW r \in Requetes, Edition(r)
  PROVE  InvariantReferentiel'
<1>1. CASE EcrireFiche(r)
  BY <1>1, EcritureGarde
<1>2. CASE \E f \in Fiches, n \in Noms \cup {Aucun}, d \in Details \cup {Aucun} :
             LireFiche(r, f, n, d)
  BY <1>2, LectureGarde
<1>3. CASE \/ \E f \in Fiches : RefuserFiche(r, f)
           \/ RefuserDoublon(r) \/ AucuneLigneAffectee(r) \/ PerdreRequete(r)
  <2>1. PICK x \in Reponses : Repondre(r, x)
    BY <1>3 DEF RefuserFiche, RefuserDoublon, AucuneLigneAffectee, PerdreRequete, Reponses
  <2>2. UNCHANGED <<fiches, parcours, temoin>>
    BY <1>3 DEF RefuserFiche, RefuserDoublon, AucuneLigneAffectee, PerdreRequete
  <2>3. req' \in [Requetes -> Requete] /\ EditionsEnCours'
    BY <2>1, ReponseRendue DEF InvariantReferentiel, TypeReferentiel, EditionsEnCours
  <2>. QED
    BY <2>2, <2>3, RequeteSeule
<1>. QED
  BY <1>1, <1>2, <1>3 DEF Edition

-----------------------------------------------------------------------------
(* The client that reads *)

(* Its steps change neither the rows nor the requests. *)
LEMMA LignesIntactes ==
  ASSUME InvariantReferentiel, UNCHANGED <<fiches, req>>
  PROVE  /\ NomsUniques' /\ EditionsEnCours' /\ \A T : LignesDe(T)' = LignesDe(T)
         /\ \A f : Rang(f)' = Rang(f)
<1>1. \A f : EnLigne(f)' = EnLigne(f)
  BY DEF EnLigne
<1>2. \A T : LignesDe(T)' = LignesDe(T)
  BY <1>1 DEF LignesDe
<1>3. \A f : Rang(f)' = Rang(f)
  BY <1>2 DEF Rang
<1>4. NomsUniques'
  BY <1>2 DEF InvariantReferentiel, NomsUniques
<1>5. EditionsEnCours'
  BY DEF InvariantReferentiel, EditionsEnCours
<1>. QED
  BY <1>2, <1>3, <1>4, <1>5

(* A page asked for has a size the server accepts.                           *)
LEMMA TailleAdmise == \A t \in TaillesDemandees : Normalisee(t) \in 1 .. TailleMax
BY TaillesCorrectes, TaillesEntieres DEF Normalisee

(* Before the first page nothing was shown and nothing comes before it.     *)
LEMMA DemandeGarde ==
  ASSUME InvariantReferentiel, NEW T \in {Auteurs, Categories}, NEW t \in TaillesDemandees,
         DemanderListe(T, t)
  PROVE  InvariantReferentiel'
<1>1. /\ parcours' = [etape |-> "comptage", table |-> T, taille |-> Normalisee(t), page |-> 1,
                      vus |-> {}, doublon |-> FALSE]
      /\ temoin' = [stables |-> LignesDe(T), ajout |-> FALSE, retrait |-> FALSE]
      /\ UNCHANGED <<fiches, req>>
  BY DEF DemanderListe, ParcoursLibre
<1>2. /\ NomsUniques' /\ EditionsEnCours' /\ LignesDe(T)' = LignesDe(T)
  BY <1>1, LignesIntactes
<1>3. TypeReferentiel'
  <2>1. 1 \in 1 .. Cardinality(Fiches) + 1
    BY FichesFinies, FS_CardinalityType
  <2>2. parcours' \in Parcours
    BY <1>1, <2>1, TailleAdmise DEF Parcours
  <2>3. LignesDe(T) \subseteq Fiches
    BY DEF LignesDe, Fiches
  <2>. QED
    BY <1>1, <2>2, <2>3 DEF InvariantReferentiel, TypeReferentiel
<1>4. StablesEnLigne' /\ ParcoursComplet' /\ ParcoursSansDoublon'
  BY <1>1, <1>2 DEF StablesEnLigne, ParcoursComplet, ParcoursSansDoublon
<1>5. LuJusquIci'
  <2>1. Normalisee(t) \in Nat /\ Offset(1, Normalisee(t)) = 0
    BY TailleAdmise, TaillesCorrectes DEF Offset
  <2>2. \A f \in Categories : Rang(f)' \in Nat
    <3>1. \A f \in Categories :
            {g \in LignesDe(Categories)' : fiches'[g].nom < fiches'[f].nom} \in SUBSET Fiches
      BY DEF LignesDe, Fiches
    <3>. QED
      BY <3>1, FichesFinies, FS_Subset, FS_CardinalityType DEF Rang
  <2>3. parcours'.table = Categories => \A f \in temoin'.stables : Rang(f)' \in Nat
    BY <1>1, <2>2 DEF LignesDe
  <2>. QED
    BY <1>1, <2>1, <2>3 DEF LuJusquIci
<1>. QED
  BY <1>2, <1>3, <1>4, <1>5 DEF InvariantReferentiel

(* The count shows no row; if it is zero there was none to show.            *)
LEMMA ComptageGarde ==
  ASSUME InvariantReferentiel, CompterLignes
  PROVE  InvariantReferentiel'
<1>1. PICK e \in {"fini", "selection"} :
        /\ parcours' = [parcours EXCEPT !.etape = e]
        /\ e = "fini" => LignesDe(parcours.table) = {}
  BY DEF CompterLignes
<1>2. parcours.etape = "comptage" /\ UNCHANGED <<fiches, req, temoin>>
  BY DEF CompterLignes
<1>3. /\ NomsUniques' /\ EditionsEnCours'
      /\ \A T : LignesDe(T)' = LignesDe(T)
      /\ \A f : Rang(f)' = Rang(f)
  BY <1>2, LignesIntactes
<1>4. parcours \in Parcours
  BY DEF InvariantReferentiel, TypeReferentiel
<1>5. /\ parcours' \in Parcours /\ parcours'.etape = e
      /\ parcours'.table = parcours.table /\ parcours'.taille = parcours.taille
      /\ parcours'.page = parcours.page /\ parcours'.vus = parcours.vus
      /\ parcours'.doublon = parcours.doublon
  BY <1>1, <1>4 DEF Parcours
<1>6. TypeReferentiel'
  BY <1>2, <1>5 DEF InvariantReferentiel, TypeReferentiel
<1>7. temoin.stables \subseteq LignesDe(parcours.table)
  BY <1>2 DEF InvariantReferentiel, StablesEnLigne, EnLecture
<1>8. StablesEnLigne' /\ ParcoursComplet' /\ ParcoursSansDoublon'
  BY <1>1, <1>2, <1>3, <1>5, <1>7
     DEF InvariantReferentiel, StablesEnLigne, ParcoursComplet, ParcoursSansDoublon
<1>9. LuJusquIci'
  BY <1>2, <1>3, <1>5 DEF InvariantReferentiel, LuJusquIci, EnLecture
<1>. QED
  BY <1>3, <1>6, <1>8, <1>9 DEF InvariantReferentiel

(* A page that fails ends the reading.                                      *)
LEMMA EchecGarde ==
  ASSUME InvariantReferentiel, EchouerPage
  PROVE  InvariantReferentiel'
<1>1. /\ parcours' = ParcoursLibre
      /\ temoin' = [stables |-> {}, ajout |-> FALSE, retrait |-> FALSE]
      /\ UNCHANGED <<fiches, req>>
  BY DEF EchouerPage
<1>2. NomsUniques' /\ EditionsEnCours'
  BY <1>1, LignesIntactes
<1>3. TypeReferentiel'
  <2>1. 1 \in 1 .. Cardinality(Fiches) + 1 /\ 1 \in 1 .. TailleMax
    BY FichesFinies, FS_CardinalityType, TaillesCorrectes
  <2>2. ParcoursLibre \in Parcours
    BY <2>1 DEF ParcoursLibre, Parcours
  <2>. QED
    BY <1>1, <2>2 DEF InvariantReferentiel, TypeReferentiel
<1>4. /\ StablesEnLigne' /\ ParcoursComplet' /\ ParcoursSansDoublon' /\ LuJusquIci'
  BY <1>1 DEF StablesEnLigne, ParcoursComplet, ParcoursSansDoublon, LuJusquIci, EnLecture,
              ParcoursLibre
<1>. QED
  BY <1>2, <1>3, <1>4 DEF InvariantReferentiel

(* A page of categories shows those whose ranks it covers: with the pages    *)
(* before, all up to its end, and none of them again.                        *)
LEMMA PageGarde ==
  ASSUME InvariantReferentiel, LirePage
  PROVE  InvariantReferentiel'
<1> DEFINE T == parcours.table
           t == parcours.taille
           p == parcours.page
           n == Cardinality(LignesDe(T))
           debut == Offset(p, t)
<1>1. PICK s \in Classements(T) :
        parcours' = [parcours EXCEPT
             !.etape   = IF Cardinality(Fenetre(s)) = t THEN "comptage" ELSE "fini",
             !.page    = IF Cardinality(Fenetre(s)) = t THEN p + 1 ELSE p,
             !.vus     = parcours.vus \cup Fenetre(s),
             !.doublon = parcours.doublon \/ Fenetre(s) \cap parcours.vus # {}]
  BY DEF LirePage
<1>2. parcours.etape = "selection" /\ EnLecture /\ UNCHANGED <<fiches, req, temoin>>
  BY DEF LirePage, EnLecture
<1>3. /\ NomsUniques' /\ EditionsEnCours'
      /\ \A U : LignesDe(U)' = LignesDe(U)
      /\ \A f : Rang(f)' = Rang(f)
  BY <1>2, LignesIntactes
<1>4. /\ T \in {{}, Auteurs, Categories} /\ T \in SUBSET Fiches
      /\ t \in 1 .. TailleMax /\ t \in Nat \ {0}
      /\ p \in 1 .. Cardinality(Fiches) + 1 /\ p \in Nat \ {0}
      /\ Cardinality(Fiches) \in Nat
      /\ parcours.vus \subseteq Fiches /\ parcours.doublon \in BOOLEAN
      /\ TypeReferentiel /\ NomsUniques
  BY TaillesCorrectes, FichesFinies, FS_CardinalityType
     DEF InvariantReferentiel, TypeReferentiel, Parcours, Fiches
<1>5. debut \in Nat /\ Offset(p + 1, t) = debut + t /\ p - 1 <= debut
  BY <1>4, DecalageEntier
<1>6. s \in SetToSeqs(LignesDe(T))
  BY DEF Classements
<1>7. Cardinality(Fenetre(s)) = t <=> debut + t <= n
  BY <1>2, <1>4, <1>6, PagePleine
<1>8. n \in Nat /\ n <= Cardinality(Fiches)
  <2>1. LignesDe(T) \in SUBSET T
    BY DEF LignesDe
  <2>2. Cardinality(T) \in Nat
    BY <1>4, LignesFinies
  <2>. QED
    BY <1>4, <2>1, <2>2, LignesFinies
<1>9. Fenetre(s) \subseteq LignesDe(T) /\ Fenetre(s) \subseteq Fiches
  <2>1. s \in [DOMAIN s -> LignesDe(T)]
    BY <1>4, <1>6, ClassementComplet
  <2>. QED
    BY <1>4, <2>1 DEF Fenetre, LignesDe
<1> DEFINE pleine == Cardinality(Fenetre(s)) = t
           e == IF pleine THEN "comptage" ELSE "fini"
           q == IF pleine THEN p + 1 ELSE p
<1>10. q \in 1 .. Cardinality(Fiches) + 1
  <2>1. CASE pleine
    BY <1>4, <1>5, <1>7, <1>8, <2>1
  <2>2. CASE ~pleine
    BY <1>4, <2>2
  <2>. QED
    BY <2>1, <2>2
<1>11. parcours \in Parcours
  BY <1>4 DEF TypeReferentiel
<1>. HIDE DEF q
<1>12. /\ parcours'.etape = e /\ parcours'.table = T /\ parcours'.taille = t
       /\ parcours'.page = q /\ parcours'.vus = parcours.vus \cup Fenetre(s)
       /\ parcours'.doublon = (parcours.doublon \/ Fenetre(s) \cap parcours.vus # {})
       /\ parcours' \in Parcours
  BY <1>1, <1>4, <1>9, <1>10, <1>11 DEF Parcours, q
<1>. HIDE DEF e, pleine, T, t, p, n, debut
<1>13. TypeReferentiel'
  BY <1>2, <1>4, <1>12 DEF TypeReferentiel
<1>14. temoin.stables \subseteq LignesDe(T)
  BY <1>2 DEF InvariantReferentiel, StablesEnLigne, T
<1>15. StablesEnLigne'
  BY <1>2, <1>3, <1>12, <1>14 DEF StablesEnLigne
<1>16. ASSUME T = Categories
       PROVE  /\ ~temoin.retrait => \A f \in temoin.stables :
                   f \in LignesDe(T) /\ Rang(f) \in Nat /\ Rang(f) < n
                   /\ (Rang(f) < debut + t => f \in parcours'.vus)
              /\ ~temoin.ajout => /\ Fenetre(s) \cap parcours.vus = {}
                                  /\ \A f \in parcours'.vus \cap LignesDe(T) : Rang(f) < debut + t
  <2>1. /\ \A f \in Fenetre(s) : f \in LignesDe(T) /\ debut <= Rang(f) /\ Rang(f) < debut + t
        /\ \A f \in LignesDe(T) :
             /\ Rang(f) \in Nat /\ Rang(f) < n
             /\ debut <= Rang(f) /\ Rang(f) < debut + t => f \in Fenetre(s)
    BY <1>2, <1>4, <1>16, PageParRang DEF debut, t, p, n, T
  <2>2. /\ ~temoin.retrait => \A f \in temoin.stables : Rang(f) < debut => f \in parcours.vus
        /\ ~temoin.ajout => \A f \in parcours.vus \cap LignesDe(T) : Rang(f) < debut
    BY <1>2, <1>16 DEF InvariantReferentiel, LuJusquIci, debut, t, p, T
  <2>3. \A f \in temoin.stables : ~temoin.retrait /\ Rang(f) < debut + t => f \in parcours'.vus
    BY <1>4, <1>5, <1>12, <1>14, <2>1, <2>2
  <2>4. ~temoin.ajout => Fenetre(s) \cap parcours.vus = {}
    BY <1>4, <1>5, <2>1, <2>2
  <2>5. ~temoin.ajout => \A f \in parcours'.vus \cap LignesDe(T) : Rang(f) < debut + t
    BY <1>4, <1>5, <1>12, <2>1, <2>2
  <2>. QED
    BY <1>14, <2>1, <2>3, <2>4, <2>5
<1>17. LuJusquIci'
  <2>. SUFFICES ASSUME EnLecture', T = Categories PROVE LuJusquIci'
    BY <1>12 DEF LuJusquIci
  <2>1. pleine
    BY <1>12 DEF EnLecture, e
  <2>2. Offset(q, t) = debut + t
    BY <1>5, <2>1 DEF q
  <2>3. Offset(parcours'.page, parcours'.taille) = debut + t
    BY <1>12, <2>2
  <2>. QED
    BY <1>2, <1>3, <1>16, <2>3 DEF LuJusquIci, Offset
<1>18. ParcoursComplet'
  <2>. SUFFICES ASSUME parcours'.etape = "fini", T = Categories, ~temoin.retrait,
                      NEW f \in temoin.stables
               PROVE  f \in parcours'.vus
    BY <1>2, <1>12 DEF ParcoursComplet
  <2>1. ~pleine
    BY <1>12 DEF e
  <2>2. ~(debut + t <= n)
    BY <1>7, <2>1 DEF pleine
  <2>3. Rang(f) \in Nat /\ Rang(f) < n /\ (Rang(f) < debut + t => f \in parcours'.vus)
    BY <1>16
  <2>4. Rang(f) < debut + t
    BY <1>4, <1>5, <1>8, <2>2, <2>3
  <2>. QED
    BY <2>3, <2>4
<1>19. ParcoursSansDoublon'
  BY <1>2, <1>12, <1>16 DEF ParcoursSansDoublon, InvariantReferentiel, T
<1>. QED
  BY <1>3, <1>13, <1>15, <1>17, <1>18, <1>19 DEF InvariantReferentiel

-----------------------------------------------------------------------------
(* The theorems *)

(* Tables without a row, no request, no reader *)
LEMMA ReferentielInitial == Init => InvariantReferentiel
<1>. SUFFICES ASSUME Init PROVE InvariantReferentiel
  OBVIOUS
<1>1. TypeReferentiel
  <2>1. 1 \in 1 .. Cardinality(Fiches) + 1 /\ 1 \in 1 .. TailleMax
    BY FichesFinies, FS_CardinalityType, TaillesCorrectes
  <2>2. ParcoursLibre \in Parcours /\ RequeteLibre \in Requete
    BY <2>1 DEF ParcoursLibre, Parcours, RequeteLibre, Requete
  <2>. QED
    BY <2>2 DEF Init, TypeReferentiel
<1>2. NomsUniques
  BY DEF Init, NomsUniques, LignesDe, EnLigne, Fiches
<1>3. EditionsEnCours
  BY DEF Init, EditionsEnCours, RequeteLibre
<1>4. StablesEnLigne /\ LuJusquIci /\ ParcoursComplet /\ ParcoursSansDoublon
  BY DEF Init, StablesEnLigne, LuJusquIci, ParcoursComplet, ParcoursSansDoublon, EnLecture,
         ParcoursLibre
<1>. QED
  BY <1>1, <1>2, <1>3, <1>4 DEF InvariantReferentiel

(* Every statement of an edition and every page read keeps the invariant.    *)
LEMMA ReferentielInductif == InvariantReferentiel /\ [Next]_vars => InvariantReferentiel'
<1>. SUFFICES ASSUME InvariantReferentiel, [Next]_vars PROVE InvariantReferentiel'
  OBVIOUS
<1>1. CASE Creation
  BY <1>1, CreationGarde
<1>2. CASE \E r \in Requetes : Edition(r)
  BY <1>2, EditionGarde
<1>3. CASE \E f \in Fiches : SupprimerFiche(f)
  BY <1>3, SuppressionGarde
<1>4. CASE Liste
  BY <1>4, DemandeGarde, ComptageGarde, PageGarde, EchecGarde DEF Liste
<1>5. CASE UNCHANGED vars
  <2>1. UNCHANGED <<fiches, req, parcours, temoin>>
    BY <1>5 DEF vars
  <2>2. req' \in [Requetes -> Requete] /\ EditionsEnCours'
    BY <2>1 DEF InvariantReferentiel, TypeReferentiel, EditionsEnCours
  <2>. QED
    BY <2>1, <2>2, RequeteSeule
<1>. QED
  BY <1>1, <1>2, <1>3, <1>4, <1>5 DEF Next

(* In every state the names of the categories are unique and what a reader   *)
(* has been shown is what comes before its next page.                        *)
THEOREM ReferentielTenu == Spec => []InvariantReferentiel
BY ReferentielInitial, ReferentielInductif, PTL DEF Spec

(* A reader of all the pages misses no category that stayed there, however   *)
(* many were created while it read (LIMIT and OFFSET of ListerCategories).   *)
THEOREM ParcoursToujoursComplet == Spec => []ParcoursComplet
<1>1. InvariantReferentiel => ParcoursComplet
  BY DEF InvariantReferentiel
<1>. QED
  BY <1>1, ReferentielTenu, PTL

(* It is shown none twice, however many were deleted while it read.          *)
THEOREM JamaisDeuxFois == Spec => []ParcoursSansDoublon
<1>1. InvariantReferentiel => ParcoursSansDoublon
  BY DEF InvariantReferentiel
<1>. QED
  BY <1>1, ReferentielTenu, PTL

(* The reply a step gives, if it gives one, and to which request             *)
LEMMA ReponseDonnee ==
  ASSUME InvariantReferentiel, [Next]_vars, NEW r \in Requetes, req[r].etape = "ecriture",
         req'[r].reponse \in Reponses
  PROVE  EcrireFiche(r) \/ RefuserDoublon(r) \/ AucuneLigneAffectee(r) \/ PerdreRequete(r)
<1>1. req' # req
  BY AucunNiFiche DEF InvariantReferentiel, EditionsEnCours
<1>2. PICK q \in Requetes : Edition(q)
  BY <1>1 DEF Next, vars, Creation, CreerAuteur, CreerCategorie, Inserer, SupprimerFiche,
              Liste, DemanderListe, CompterLignes, LirePage, EchouerPage
<1>3. \E v : req' = [req EXCEPT ![q] = v]
  BY <1>2 DEF Edition, RefuserFiche, LireFiche, EcrireFiche, RefuserDoublon,
              AucuneLigneAffectee, PerdreRequete, Repondre
<1>4. q = r
  <2>. SUFFICES ASSUME q # r PROVE FALSE
    OBVIOUS
  <2>1. req'[r] = req[r]
    BY <1>3 DEF InvariantReferentiel, TypeReferentiel
  <2>. QED
    BY <2>1, AucunNiFiche DEF InvariantReferentiel, EditionsEnCours
<1>. QED
  BY <1>2, <1>4 DEF Edition, RefuserFiche, LireFiche

(* An edition that sends no name is refused for its name only after the      *)
(* category was renamed since it was read (CategorieService.Modifier).       *)
THEOREM ConflitSeulementRenomme == Spec => ConflitRenommage
<1> DEFINE A == \A r \in Requetes :
                  /\ req[r].etape = "ecriture" /\ ~req[r].nomEnvoye
                  /\ req'[r].reponse = "conflit"
                  => fiches[req[r].fiche].nom # req[r].valeur.nom
<1>1. InvariantReferentiel /\ [Next]_vars => [A]_vars
  <2>. SUFFICES ASSUME InvariantReferentiel, [Next]_vars, NEW r \in Requetes,
                      req[r].etape = "ecriture", req'[r].reponse = "conflit"
               PROVE  fiches[req[r].fiche].nom # req[r].valeur.nom
    OBVIOUS
  <2>1. EcrireFiche(r) \/ RefuserDoublon(r) \/ AucuneLigneAffectee(r) \/ PerdreRequete(r)
    BY ReponseDonnee DEF Reponses
  <2>2. \A x \in Reponses : Repondre(r, x) => req'[r].reponse = x
    BY ReponseRendue DEF InvariantReferentiel, TypeReferentiel
  <2>3. RefuserDoublon(r)
    BY <2>1, <2>2 DEF EcrireFiche, AucuneLigneAffectee, PerdreRequete, Reponses
  <2>4. EnLigne(req[r].fiche) /\ NomPris(req[r].fiche, req[r].valeur.nom)
    BY <2>3 DEF RefuserDoublon
  <2>. QED
    BY <2>4 DEF NomPris, InvariantReferentiel, NomsUniques, LignesDe
<1>. QED
  BY <1>1, ReferentielTenu, PTL DEF Spec, ConflitRenommage

(* No edition brings back a row deleted after it read it, nor is answered    *)
(* with success (the row count of the UPDATE).                               *)
THEOREM SuppressionToujoursRespectee == Spec => SuppressionRespectee
<1> DEFINE A == \A f \in Fiches : fiches[f] = Effacee =>
                  /\ fiches'[f] = Effacee
                  /\ \A r \in Requetes : req[r].fiche = f /\ req[r].etape = "ecriture"
                                           => req'[r].reponse # "ok"
<1>1. InvariantReferentiel /\ [Next]_vars => [A]_vars
  <2>. SUFFICES ASSUME InvariantReferentiel, [Next]_vars, NEW f \in Fiches,
                      fiches[f] = Effacee
               PROVE  /\ fiches'[f] = Effacee
                      /\ \A r \in Requetes : req[r].fiche = f /\ req[r].etape = "ecriture"
                                               => req'[r].reponse # "ok"
    OBVIOUS
  <2>0. fiches \in [Fiches -> Contenu \cup {Vierge, Effacee}] /\ ~EnLigne(f)
    BY DEF InvariantReferentiel, TypeReferentiel, EnLigne
  <2>1. fiches'[f] = Effacee
    <3>1. CASE UNCHANGED fiches
      BY <3>1
    <3>2. CASE \E g \in Fiches : \E v : Inserer(g, v)
      BY <2>0, <3>2, LigneTypee DEF Inserer
    <3>3. CASE \E r \in Requetes : EcrireFiche(r)
      BY <2>0, <3>3 DEF EcrireFiche
    <3>4. CASE \E g \in Fiches : SupprimerFiche(g)
      BY <2>0, <3>4 DEF SupprimerFiche
    <3>. QED
      BY <3>1, <3>2, <3>3, <3>4
         DEF Next, vars, Creation, CreerAuteur, CreerCategorie, Edition, RefuserFiche,
             LireFiche, RefuserDoublon, AucuneLigneAffectee, PerdreRequete, Liste,
             DemanderListe, CompterLignes, LirePage, EchouerPage, Fiches
  <2>2. ASSUME NEW r \in Requetes, req[r].fiche = f, req[r].etape = "ecriture",
               req'[r].reponse = "ok"
        PROVE  FALSE
    <3>1. EcrireFiche(r) \/ RefuserDoublon(r) \/ AucuneLigneAffectee(r) \/ PerdreRequete(r)
      BY <2>2, ReponseDonnee DEF Reponses
    <3>2. \A x \in Reponses : Repondre(r, x) => req'[r].reponse = x
      BY ReponseRendue DEF InvariantReferentiel, TypeReferentiel
    <3>3. EcrireFiche(r)
      BY <2>2, <3>1, <3>2 DEF RefuserDoublon, AucuneLigneAffectee, PerdreRequete, Reponses
    <3>. QED
      BY <2>0, <2>2, <3>3 DEF EcrireFiche
  <2>. QED
    BY <2>1, <2>2
<1>. QED
  BY <1>1, ReferentielTenu, PTL DEF Spec, SuppressionRespectee

=============================================================================
