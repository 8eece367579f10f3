--------------------------- MODULE Limiteur_proofs ---------------------------
(***************************************************************************)
(* Proofs about Limiteur, for every number of clients and requests, every  *)
(* burst, rate and delay.                                                  *)
(***************************************************************************)
EXTENDS Limiteur, FiniteSetTheorems, TLAPS

-----------------------------------------------------------------------------
(* Types and places *)

(* An empty map, full buckets *)
LEMMA TypesInitiaux == InitLimiteur => TypeLimiteur /\ AppelsSitues
BY RafalePositive, InactiviteNaturelle
   DEF InitLimiteur, TypeLimiteur, AppelsSitues, AppelLibre, Appel

(* A bucket is asked for a token only when it has one, and refills to its    *)
(* burst; a request at a bucket has a client and a bucket.                   *)
LEMMA TypesGardes ==
  ASSUME TypeLimiteur, AppelsSitues, [NextLimiteur]_varsLimiteur
  PROVE  TypeLimiteur' /\ AppelsSitues'
<1>. USE DEF TypeLimiteur, AppelsSitues
<1>0. AppelLibre \in Appel /\ AppelLibre.etape = "libre" /\ AppelLibre.seau = Aucun
  BY DEF AppelLibre, Appel
<1>1. ASSUME NEW r \in Requetes, NEW c \in Clients, NEW s \in Seaux, ObtenirSeau(r, c, s),
             clients' \in [Clients -> Seaux \cup {Aucun}], niveau' \in [Seaux -> 0..Rafale]
      PROVE  TypeLimiteur' /\ AppelsSitues'
  <2> DEFINE q == [etape |-> "limite", client |-> c, seau |-> s]
  <2>1. q \in Appel /\ q.etape = "limite" /\ q.client = c /\ q.seau = s
    BY DEF Appel
  <2>2. /\ appel' = [appel EXCEPT ![r] = q] /\ vue' = [vue EXCEPT ![c] = 0]
        /\ UNCHANGED credit
    BY <1>1 DEF ObtenirSeau
  <2>3. 0 \in 0..(Inactivite + 1)
    BY InactiviteNaturelle
  <2>. HIDE DEF q
  <2>. QED
    BY <1>1, <2>1, <2>2, <2>3
<1>2. ASSUME NEW r \in Requetes, NEW c \in Clients, LimiterConnu(r, c)
      PROVE  TypeLimiteur' /\ AppelsSitues'
  BY <1>1, <1>2 DEF LimiterConnu, Connu
<1>3. ASSUME NEW r \in Requetes, NEW c \in Clients, LimiterNouveau(r, c)
      PROVE  TypeLimiteur' /\ AppelsSitues'
  <2>1. Rafale \in 0..Rafale
    BY RafalePositive
  <2>. QED
    BY <1>1, <1>3, <2>1 DEF LimiterNouveau
<1>4. ASSUME NEW r \in Requetes, Admettre(r)
      PROVE  TypeLimiteur' /\ AppelsSitues'
  <2>1. /\ appel[r].client \in Clients /\ appel[r].seau \in Seaux
        /\ niveau[appel[r].seau] - 1 \in 0..Rafale /\ credit[appel[r].client] - 1 \in Int
    BY <1>4, RafalePositive DEF Admettre
  <2> DEFINE q == [appel[r] EXCEPT !.etape = "admise", !.seau = Aucun]
  <2>2. q \in Appel /\ q.etape = "admise" /\ q.seau = Aucun
    BY DEF Appel
  <2>3. appel' = [appel EXCEPT ![r] = q]
    BY <1>4 DEF Admettre
  <2>. HIDE DEF q
  <2>4. appel' \in [Requetes -> Appel] /\ AppelsSitues'
    BY <2>2, <2>3
  <2>. QED
    BY <1>4, <2>1, <2>4 DEF Admettre
<1>5. ASSUME NEW r \in Requetes, Refuser(r) \/ Servir(r)
      PROVE  TypeLimiteur' /\ AppelsSitues'
  BY <1>0, <1>5 DEF Refuser, Servir
<1>6. CASE Nettoyer
  <2>1. 0 \in 0..(Inactivite + 1)
    BY InactiviteNaturelle
  <2>. QED
    BY <1>6, <2>1 DEF Nettoyer
<1>7. CASE Ecouler
  <2>1. \A s \in Seaux : Rempli(niveau[s]) \in 0..Rafale
    BY RafalePositive, DebitPositif DEF Rempli
  <2>2. \A c \in Clients : Rempli(credit[c]) \in Int
    BY RafalePositive, DebitPositif DEF Rempli
  <2>3. \A c \in Clients : Vieillir(c) \in 0..(Inactivite + 1)
    BY InactiviteNaturelle DEF Vieillir
  <2>. QED
    BY <1>7, <2>1, <2>2, <2>3 DEF Ecouler
<1>8. CASE UNCHANGED varsLimiteur
  BY <1>8 DEF varsLimiteur
<1>. QED
  BY <1>2, <1>3, <1>4, <1>5, <1>6, <1>7, <1>8 DEF NextLimiteur

-----------------------------------------------------------------------------
(* Counting the requests that wait *)

(* The requests of a client are finitely many, at most all of them. *)
LEMMA AttenteFinie ==
  /\ \A c : /\ IsFiniteSet(EnAttente(c)) /\ Cardinality(EnAttente(c)) \in Nat
            /\ Cardinality(EnAttente(c)) <= Cardinality(Requetes)
            /\ IsFiniteSet(Orphelines(c)) /\ Cardinality(Orphelines(c)) \in Nat
            /\ Cardinality(Orphelines(c)) <= Cardinality(Requetes)
  /\ Cardinality(Requetes) \in Nat
<1>1. \A c : EnAttente(c) \in SUBSET Requetes /\ Orphelines(c) \in SUBSET Requetes
  BY DEF EnAttente, Orphelines
<1>. QED
  BY <1>1, RequetesFinies, FS_Subset, FS_CardinalityType

(* The same after a step *)
LEMMA AttenteFinieEnsuite ==
  \A c : /\ IsFiniteSet(EnAttente(c)') /\ Cardinality(EnAttente(c)') \in Nat
         /\ Cardinality(EnAttente(c)') <= Cardinality(Requetes)
         /\ IsFiniteSet(Orphelines(c)') /\ Cardinality(Orphelines(c)') \in Nat
         /\ Cardinality(Orphelines(c)') <= Cardinality(Requetes)
<1>1. \A c : EnAttente(c)' \in SUBSET Requetes /\ Orphelines(c)' \in SUBSET Requetes
  BY DEF EnAttente, Orphelines
<1>. QED
  BY <1>1, RequetesFinies, FS_Subset, FS_CardinalityType

(* A credit covered is at least the burst less what may still be taken.      *)
LEMMA CreditSuffisant ==
  ASSUME TypeLimiteur, CreditCouvert, NEW c \in Clients
  PROVE  credit[c] >= -Cardinality(Requetes)
<1>1. credit[c] \in Int
  BY DEF TypeLimiteur
<1>2. CASE Connu(c)
  <2>1. niveau[clients[c]] \in Nat
    BY <1>2, RafalePositive DEF TypeLimiteur, Connu
  <2>2. Marge(c, Orphelines(c)) >= niveau[clients[c]]
    BY <1>2 DEF CreditCouvert, CreditTenu
  <2>. QED
    BY <1>1, <2>1, <2>2, AttenteFinie DEF Marge
<1>3. CASE ~Connu(c)
  <2>1. Marge(c, EnAttente(c)) >= Rafale
    BY <1>3 DEF CreditCouvert, CreditTenu
  <2>. QED
    BY <1>1, <2>1, AttenteFinie, RafalePositive DEF Marge
<1>. QED
  BY <1>2, <1>3

-----------------------------------------------------------------------------
(* The credit, step by step *)

(* Where the map, the ages and the requests of a client stay, so does what   *)
(* its credit covers, unless its bucket gains.                               *)
LEMMA CreditInchange ==
  ASSUME TypeLimiteur, NEW c \in Clients, CreditTenu(c),
         clients'[c] = clients[c], vue'[c] = vue[c], credit'[c] = credit[c],
         EnAttente(c)' = EnAttente(c), Orphelines(c)' = Orphelines(c),
         Connu(c) => /\ niveau'[clients[c]] \in Int
                     /\ niveau'[clients[c]] <= niveau[clients[c]]
  PROVE  CreditTenu(c)'
<1>1. credit[c] \in Int /\ (Connu(c) => niveau[clients[c]] \in Int)
  BY RafalePositive DEF TypeLimiteur, Connu
<1>2. /\ Connu(c)' <=> Connu(c)
      /\ Marge(c, Orphelines(c))' = Marge(c, Orphelines(c))
      /\ Marge(c, EnAttente(c))' = Marge(c, EnAttente(c))
  BY DEF Connu, Marge
<1>3. Marge(c, Orphelines(c)) \in Int
  BY <1>1, AttenteFinie DEF Marge
<1>4. Connu(c)' => Marge(c, Orphelines(c))' >= niveau'[clients'[c]]
  BY <1>1, <1>2, <1>3 DEF CreditTenu
<1>. QED
  BY <1>2, <1>4 DEF CreditTenu

(* A request that takes its bucket joins those that wait for its client only. *)
LEMMA AttenteRejointe ==
  ASSUME TypeLimiteur, NEW r \in Requetes, NEW c \in Clients, NEW s \in Seaux,
         appel[r].etape = "libre", ObtenirSeau(r, c, s)
  PROVE  /\ \A f \in Requetes \ {r} : appel'[f] = appel[f]
         /\ appel'[r].etape = "limite" /\ appel'[r].client = c /\ appel'[r].seau = s
         /\ vue'[c] = 0 /\ UNCHANGED credit
         /\ \A b \in Clients \ {c} : /\ EnAttente(b)' = EnAttente(b) /\ vue'[b] = vue[b]
                                     /\ clients'[b] = clients[b] =>
                                          Orphelines(b)' = Orphelines(b)
<1>1. /\ appel' = [appel EXCEPT ![r] = [etape |-> "limite", client |-> c, seau |-> s]]
      /\ vue' = [vue EXCEPT ![c] = 0] /\ UNCHANGED credit
  BY DEF ObtenirSeau
<1>2. /\ \A f \in Requetes \ {r} : appel'[f] = appel[f]
      /\ appel'[r].etape = "limite" /\ appel'[r].client = c /\ appel'[r].seau = s
      /\ vue'[c] = 0 /\ \A b \in Clients \ {c} : vue'[b] = vue[b]
  BY <1>1 DEF TypeLimiteur
<1>3. \A b \in Clients \ {c} : EnAttente(b)' = EnAttente(b)
  BY <1>2 DEF EnAttente
<1>4. ASSUME NEW b \in Clients \ {c}, clients'[b] = clients[b]
      PROVE  Orphelines(b)' = Orphelines(b)
  <2>1. \A f \in EnAttente(b) : appel'[f] = appel[f]
    BY <1>2 DEF EnAttente
  <2>. QED
    BY <1>3, <1>4, <2>1 DEF Orphelines
<1>. QED
  BY <1>1, <1>2, <1>3, <1>4

(* A client on record: its bucket is handed out again, its age is zero.     *)
LEMMA ConnuGarde ==
  ASSUME TypeLimiteur, CreditCouvert, NEW r \in Requetes, NEW c \in Clients, LimiterConnu(r, c)
  PROVE  CreditCouvert'
<1>1. /\ appel[r].etape = "libre" /\ Connu(c) /\ clients[c] \in Seaux
      /\ ObtenirSeau(r, c, clients[c]) /\ UNCHANGED <<clients, niveau>>
  BY DEF LimiterConnu, Connu, TypeLimiteur
<1>2. ASSUME NEW b \in Clients \ {c}
      PROVE  CreditTenu(b)'
  <2>1. Connu(b) => niveau[clients[b]] \in Int
    BY RafalePositive DEF TypeLimiteur, Connu
  <2>. QED
    BY <1>1, <2>1, AttenteRejointe, CreditInchange DEF CreditCouvert
<1>3. CreditTenu(c)'
  <2>1. Orphelines(c)' = Orphelines(c)
    BY <1>1, AttenteRejointe DEF Orphelines, EnAttente
  <2>2. Marge(c, Orphelines(c))' >= niveau'[clients'[c]]
    BY <1>1, <2>1, AttenteRejointe DEF CreditCouvert, CreditTenu, Marge
  <2>3. credit[c] \in Int /\ credit[c] >= -Cardinality(Requetes)
    BY CreditSuffisant DEF TypeLimiteur
  <2>4. Marge(c, EnAttente(c))' >= -Cardinality(Requetes)
    BY <1>1, <2>3, AttenteRejointe, AttenteFinie, AttenteFinieEnsuite DEF Marge
  <2>5. vue'[c] * Debit = 0
    BY <1>1, AttenteRejointe, DebitPositif
  <2>6. Marge(c, EnAttente(c))' >= vue'[c] * Debit - Cardinality(Requetes)
    BY <2>4, <2>5, AttenteFinie
  <2>. QED
    BY <1>1, <2>2, <2>6 DEF CreditTenu, Connu
<1>. QED
  BY <1>2, <1>3 DEF CreditCouvert

(* A client not on record: a fresh bucket, which its credit covers *)
LEMMA NouveauGarde ==
  ASSUME TypeLimiteur, AppelsSitues, CreditCouvert,
         NEW r \in Requetes, NEW c \in Clients, LimiterNouveau(r, c)
  PROVE  CreditCouvert'
<1>1. PICK s \in Seaux :
        /\ Inutilise(s) /\ clients' = [clients EXCEPT ![c] = s]
        /\ niveau' = [niveau EXCEPT ![s] = Rafale] /\ ObtenirSeau(r, c, s)
  BY DEF LimiterNouveau
<1>2. appel[r].etape = "libre" /\ ~Connu(c)
  BY DEF LimiterNouveau
<1>3. ASSUME NEW b \in Clients \ {c}
      PROVE  CreditTenu(b)'
  <2>1. clients'[b] = clients[b]
    BY <1>1 DEF TypeLimiteur
  <2>2. Connu(b) => niveau'[clients[b]] = niveau[clients[b]] /\ niveau[clients[b]] \in Int
    BY <1>1, RafalePositive DEF TypeLimiteur, Connu, Inutilise
  <2>3. Connu(b) => niveau'[clients[b]] <= niveau[clients[b]]
    BY <2>2
  <2>. QED
    BY <1>1, <1>2, <2>1, <2>2, <2>3, AttenteRejointe, CreditInchange DEF CreditCouvert
<1>4. CreditTenu(c)'
  <2>1. clients'[c] = s /\ niveau'[s] = Rafale /\ Connu(c)'
    BY <1>1, AucunNiSeau DEF TypeLimiteur, Connu
  <2>2. \A f \in Requetes \ {r} : appel'[f] = appel[f] /\ appel'[f].seau # s
    BY <1>1, <1>2, AttenteRejointe DEF Inutilise
  <2>3. Orphelines(c)' = EnAttente(c)
    BY <1>1, <1>2, <2>1, <2>2, AttenteRejointe DEF Orphelines, EnAttente
  <2>4. credit[c] \in Int /\ credit[c] >= -Cardinality(Requetes) /\ credit'[c] = credit[c]
    BY <1>1, <1>2, CreditSuffisant, AttenteRejointe DEF TypeLimiteur
  <2>5. Marge(c, Orphelines(c))' >= niveau'[clients'[c]]
    BY <1>2, <2>1, <2>3, <2>4 DEF CreditCouvert, CreditTenu, Marge
  <2>6. Marge(c, EnAttente(c))' >= -Cardinality(Requetes)
    BY <2>4, AttenteFinie, AttenteFinieEnsuite DEF Marge
  <2>7. vue'[c] * Debit = 0
    BY <1>1, <1>2, AttenteRejointe, DebitPositif
  <2>8. Marge(c, EnAttente(c))' >= vue'[c] * Debit - Cardinality(Requetes)
    BY <2>6, <2>7, AttenteFinie
  <2>. QED
    BY <2>1, <2>5, <2>8 DEF CreditTenu
<1>. QED
  BY <1>3, <1>4 DEF CreditCouvert

(* A request that leaves its bucket leaves those that wait for its client.   *)
LEMMA AttenteQuittee ==
  ASSUME TypeLimiteur, NEW r \in Requetes, NEW q, q.etape # "limite",
         appel' = [appel EXCEPT ![r] = q], UNCHANGED clients
  PROVE  \A b \in Clients : /\ EnAttente(b)' = EnAttente(b) \ {r}
                            /\ Orphelines(b)' = Orphelines(b) \ {r}
<1>1. /\ \A f \in Requetes \ {r} : appel'[f] = appel[f]
      /\ appel'[r].etape # "limite"
  BY DEF TypeLimiteur
<1>2. \A b \in Clients : EnAttente(b)' = EnAttente(b) \ {r}
  BY <1>1 DEF EnAttente
<1>3. ASSUME NEW b \in Clients
      PROVE  Orphelines(b)' = Orphelines(b) \ {r}
  <2>1. \A f \in EnAttente(b) \ {r} : appel'[f] = appel[f]
    BY <1>1 DEF EnAttente
  <2>. QED
    BY <1>2, <2>1 DEF Orphelines
<1>. QED
  BY <1>2, <1>3

(* One less waits: the margin can only grow. *)
LEMMA MargeCroit ==
  ASSUME TypeLimiteur, NEW c \in Clients, NEW r, credit'[c] = credit[c],
         EnAttente(c)' = EnAttente(c) \ {r}, Orphelines(c)' = Orphelines(c) \ {r}
  PROVE  /\ Marge(c, Orphelines(c)) \in Int /\ Marge(c, Orphelines(c))' \in Int
         /\ Marge(c, Orphelines(c)) <= Marge(c, Orphelines(c))'
         /\ Marge(c, EnAttente(c)) \in Int /\ Marge(c, EnAttente(c))' \in Int
         /\ Marge(c, EnAttente(c)) <= Marge(c, EnAttente(c))'
<1>1. credit[c] \in Int
  BY DEF TypeLimiteur
<1>2. /\ Cardinality(EnAttente(c)') <= Cardinality(EnAttente(c))
      /\ Cardinality(Orphelines(c)') <= Cardinality(Orphelines(c))
  BY AttenteFinie, FS_Subset
<1>3. /\ Cardinality(EnAttente(c)) \in Nat /\ Cardinality(EnAttente(c)') \in Nat
      /\ Cardinality(Orphelines(c)) \in Nat /\ Cardinality(Orphelines(c)') \in Nat
      /\ Cardinality(Requetes) \in Nat
  BY AttenteFinie, AttenteFinieEnsuite
<1>4. /\ Marge(c, Orphelines(c)) = credit[c] + Cardinality(Requetes) - Cardinality(Orphelines(c))
      /\ Marge(c, Orphelines(c))' = credit[c] + Cardinality(Requetes) - Cardinality(Orphelines(c)')
      /\ Marge(c, EnAttente(c)) = credit[c] + Cardinality(Requetes) - Cardinality(EnAttente(c))
      /\ Marge(c, EnAttente(c))' = credit[c] + Cardinality(Requetes) - Cardinality(EnAttente(c)')
  BY DEF Marge
<1>. QED
  BY <1>1, <1>2, <1>3, <1>4

(* A refusal and the end of a request take no token.                         *)
LEMMA RefusGarde ==
  ASSUME TypeLimiteur, CreditCouvert, NEW r \in Requetes, Refuser(r) \/ Servir(r)
  PROVE  CreditCouvert'
<1>1. /\ appel' = [appel EXCEPT ![r] = AppelLibre] /\ AppelLibre.etape # "limite"
      /\ UNCHANGED <<clients, vue, niveau, credit>>
  BY DEF Refuser, Servir, AppelLibre
<1>2. ASSUME NEW c \in Clients
      PROVE  CreditTenu(c)'
  <2>1. /\ Marge(c, Orphelines(c)) \in Int /\ Marge(c, Orphelines(c))' \in Int
        /\ Marge(c, Orphelines(c)) <= Marge(c, Orphelines(c))'
        /\ Marge(c, EnAttente(c)) \in Int /\ Marge(c, EnAttente(c))' \in Int
        /\ Marge(c, EnAttente(c)) <= Marge(c, EnAttente(c))'
    BY <1>1, AttenteQuittee, MargeCroit
  <2>2. Connu(c) => niveau[clients[c]] \in Int
    BY RafalePositive DEF TypeLimiteur, Connu
  <2>3. vue[c] * Debit \in Int
    BY DebitPositif DEF TypeLimiteur
  <2>4. Rafale \in Nat /\ Cardinality(Requetes) \in Nat
    BY RafalePositive, AttenteFinie
  <2>5. CreditTenu(c) /\ (Connu(c)' <=> Connu(c))
    BY <1>1 DEF CreditCouvert, Connu
  <2>6. Connu(c)' => Marge(c, Orphelines(c))' >= niveau'[clients'[c]]
    BY <1>1, <2>1, <2>2, <2>5 DEF CreditTenu
  <2>7. \/ Marge(c, EnAttente(c))' >= Rafale
        \/ Connu(c)' /\ Marge(c, EnAttente(c))' >= vue'[c] * Debit - Cardinality(Requetes)
    <3>1. CASE Marge(c, EnAttente(c)) >= Rafale
      BY <2>1, <2>4, <3>1
    <3>2. CASE Connu(c) /\ Marge(c, EnAttente(c)) >= vue[c] * Debit - Cardinality(Requetes)
      <4> DEFINE p == vue[c] * Debit
      <4>1. p \in Int /\ Marge(c, EnAttente(c)) >= p - Cardinality(Requetes)
        BY <2>3, <3>2
      <4>. HIDE DEF p
      <4>2. Marge(c, EnAttente(c))' >= p - Cardinality(Requetes)
        BY <2>1, <2>4, <4>1
      <4>. QED
        BY <1>1, <2>5, <3>2, <4>2 DEF p
    <3>. QED
      BY <2>5, <3>1, <3>2 DEF CreditTenu
  <2>. QED
    BY <2>6, <2>7 DEF CreditTenu
<1>. QED
  BY <1>2 DEF CreditCouvert

(* A token taken from the bucket on record is taken from the credit; one     *)
(* taken from another was set aside for the orphan that takes it.            *)
LEMMA AdmettreGarde ==
  ASSUME TypeLimiteur, AppelsSitues, CreditCouvert, NEW r \in Requetes, Admettre(r)
  PROVE  CreditCouvert'
<1>c. PICK c \in Clients : c = appel[r].client
  BY DEF Admettre, AppelsSitues
<1>s. PICK s \in Seaux : s = appel[r].seau
  BY DEF Admettre, AppelsSitues
<1>1. /\ appel[r].etape = "limite" /\ niveau[s] >= 1
      /\ niveau' = [niveau EXCEPT ![s] = @ - 1]
      /\ credit' = [credit EXCEPT ![c] = @ - 1]
      /\ UNCHANGED <<clients, vue>>
  BY <1>c, <1>s DEF Admettre
<1>2. \A b \in Clients : /\ EnAttente(b)' = EnAttente(b) \ {r}
                         /\ Orphelines(b)' = Orphelines(b) \ {r}
  <2> DEFINE q == [appel[r] EXCEPT !.etape = "admise", !.seau = Aucun]
  <2>1. q.etape # "limite" /\ appel' = [appel EXCEPT ![r] = q]
    BY DEF Admettre, TypeLimiteur, Appel
  <2>. HIDE DEF q
  <2>. QED
    BY <1>1, <2>1, AttenteQuittee
<1>3. \A t \in Seaux : /\ niveau[t] \in Int /\ niveau'[t] \in Int /\ niveau'[t] <= niveau[t]
                       /\ t = s => niveau'[t] = niveau[t] - 1
  BY <1>1, RafalePositive DEF TypeLimiteur
<1>4. ASSUME NEW b \in Clients \ {c}
      PROVE  CreditTenu(b)'
  <2>1. EnAttente(b)' = EnAttente(b) /\ Orphelines(b)' = Orphelines(b)
    BY <1>2, <1>c DEF EnAttente, Orphelines
  <2>2. credit'[b] = credit[b]
    BY <1>1 DEF TypeLimiteur
  <2>3. Connu(b) => clients[b] \in Seaux
    BY DEF Connu, TypeLimiteur
  <2>. QED
    BY <1>1, <1>3, <2>1, <2>2, <2>3, CreditInchange DEF CreditCouvert
<1>5. CreditTenu(c)'
  <2>0. credit[c] \in Int /\ credit'[c] = credit[c] - 1
    BY <1>1 DEF TypeLimiteur
  <2>1. r \in EnAttente(c)
    BY <1>1, <1>c DEF EnAttente
  <2>2. Cardinality(EnAttente(c)') = Cardinality(EnAttente(c)) - 1
    BY <1>2, <2>1, AttenteFinie, FS_RemoveElement
  <2>3. Marge(c, EnAttente(c))' = Marge(c, EnAttente(c))
    BY <2>0, <2>2, AttenteFinie DEF Marge
  <2>4. ASSUME Connu(c)
        PROVE  Marge(c, Orphelines(c))' >= niveau'[clients'[c]]
    <3>0. clients[c] \in Seaux /\ clients'[c] = clients[c]
      BY <1>1, <2>4 DEF Connu, TypeLimiteur
    <3>1. Marge(c, Orphelines(c)) >= niveau[clients[c]]
      BY <2>4 DEF CreditCouvert, CreditTenu
    <3>2. CASE clients[c] = s
      <4>1. Orphelines(c)' = Orphelines(c)
        BY <1>2, <1>s, <3>2 DEF Orphelines
      <4>. QED
        BY <1>3, <2>0, <3>0, <3>1, <3>2, <4>1, AttenteFinie DEF Marge
    <3>3. CASE clients[c] # s
      <4>1. r \in Orphelines(c)
        BY <2>1, <1>s, <3>3 DEF Orphelines
      <4>2. Cardinality(Orphelines(c)') = Cardinality(Orphelines(c)) - 1
        BY <1>2, <4>1, AttenteFinie, FS_RemoveElement
      <4>. QED
        BY <1>3, <2>0, <3>0, <3>1, <4>2, AttenteFinie DEF Marge
    <3>. QED
      BY <3>2, <3>3
  <2>5. (Connu(c)' <=> Connu(c)) /\ vue'[c] = vue[c]
    BY <1>1 DEF Connu
  <2>. QED
    BY <2>3, <2>4, <2>5 DEF CreditCouvert, CreditTenu
<1>. QED
  BY <1>4, <1>5 DEF CreditCouvert

(* A client is removed only when it has been away long enough to be whole.   *)
LEMMA NettoyerGarde ==
  ASSUME TypeLimiteur, CreditCouvert, ToutRegagne, Nettoyer
  PROVE  CreditCouvert'
<1>1. /\ clients' = [c \in Clients |-> IF c \in Oublies THEN Aucun ELSE clients[c]]
      /\ vue' = [c \in Clients |-> IF c \in Oublies THEN 0 ELSE vue[c]]
      /\ UNCHANGED <<niveau, appel, credit>>
  BY DEF Nettoyer
<1>2. \A c \in Clients : EnAttente(c)' = EnAttente(c)
  BY <1>1 DEF EnAttente
<1>3. ASSUME NEW c \in Clients, c \notin Oublies
      PROVE  CreditTenu(c)'
  <2>1. clients'[c] = clients[c] /\ vue'[c] = vue[c]
    BY <1>1, <1>3
  <2>2. Orphelines(c)' = Orphelines(c)
    BY <1>1, <1>2, <2>1 DEF Orphelines
  <2>3. Connu(c) => niveau'[clients[c]] \in Int /\ niveau'[clients[c]] <= niveau[clients[c]]
    BY <1>1, RafalePositive DEF TypeLimiteur, Connu
  <2>. QED
    BY <1>1, <1>2, <2>1, <2>2, <2>3, CreditInchange DEF CreditCouvert
<1>4. ASSUME NEW c \in Clients, c \in Oublies
      PROVE  CreditTenu(c)'
  <2>1. ~Connu(c)'
    BY <1>1, <1>4 DEF Connu
  <2>2. vue[c] = Inactivite + 1
    BY <1>4, InactiviteNaturelle DEF Oublies, TypeLimiteur
  <2>3. vue[c] * Debit >= Rafale + Cardinality(Requetes)
    BY <2>2 DEF ToutRegagne
  <2>4. Marge(c, EnAttente(c)) >= Rafale
    <3> DEFINE p == vue[c] * Debit
    <3>1. p \in Int /\ p >= Rafale + Cardinality(Requetes)
      BY <2>3, DebitPositif DEF TypeLimiteur
    <3>2. \/ Marge(c, EnAttente(c)) >= Rafale
          \/ Marge(c, EnAttente(c)) >= p - Cardinality(Requetes)
      BY DEF CreditCouvert, CreditTenu
    <3>. HIDE DEF p
    <3>3. Marge(c, EnAttente(c)) \in Int
      BY AttenteFinie DEF TypeLimiteur, Marge
    <3>. QED
      BY <3>1, <3>2, <3>3, AttenteFinie, RafalePositive
  <2>5. Marge(c, EnAttente(c))' = Marge(c, EnAttente(c))
    BY <1>1, <1>2 DEF Marge
  <2>. QED
    BY <2>1, <2>4, <2>5 DEF CreditTenu
<1>. QED
  BY <1>3, <1>4 DEF CreditCouvert

(* In one step of time the credit gains as much as any bucket, or is whole.  *)
LEMMA EcoulerGarde ==
  ASSUME TypeLimiteur, CreditCouvert, Ecouler
  PROVE  CreditCouvert'
<1>. SUFFICES ASSUME NEW c \in Clients
             PROVE  CreditTenu(c)'
  BY DEF CreditCouvert
<1>1. /\ UNCHANGED <<clients, appel>>
      /\ credit'[c] = Rempli(credit[c]) /\ vue'[c] = Vieillir(c)
      /\ Connu(c) => niveau'[clients[c]] = Rempli(niveau[clients[c]])
  BY DEF Ecouler, Connu, TypeLimiteur
<1>2. /\ EnAttente(c)' = EnAttente(c) /\ Orphelines(c)' = Orphelines(c)
      /\ Connu(c)' <=> Connu(c)
  BY <1>1 DEF EnAttente, Orphelines, Connu
<1>3. /\ credit[c] \in Int /\ Debit \in Nat /\ Rafale \in Nat /\ Cardinality(Requetes) \in Nat
      /\ Connu(c) => niveau[clients[c]] \in Int
      /\ vue[c] \in Nat
  BY RafalePositive, DebitPositif, AttenteFinie, InactiviteNaturelle DEF TypeLimiteur, Connu
<1>4. CreditTenu(c)
  BY DEF CreditCouvert
<1>5. ASSUME NEW A, Cardinality(A) \in Nat, Cardinality(A) <= Cardinality(Requetes)
      PROVE  LET m == Rempli(credit[c]) + Cardinality(Requetes) - Cardinality(A)
             IN  m \in Int /\ (m >= Rafale \/ m = Marge(c, A) + Debit)
  BY <1>3, <1>5 DEF Marge, Rempli
<1>6. /\ Marge(c, EnAttente(c)) \in Int /\ Marge(c, Orphelines(c)) \in Int
      /\ Marge(c, EnAttente(c))' \in Int /\ Marge(c, Orphelines(c))' \in Int
      /\ \/ Marge(c, EnAttente(c))' >= Rafale
         \/ Marge(c, EnAttente(c))' = Marge(c, EnAttente(c)) + Debit
      /\ \/ Marge(c, Orphelines(c))' >= Rafale
         \/ Marge(c, Orphelines(c))' = Marge(c, Orphelines(c)) + Debit
  <2>1. /\ Marge(c, EnAttente(c))'
             = Rempli(credit[c]) + Cardinality(Requetes) - Cardinality(EnAttente(c))
        /\ Marge(c, Orphelines(c))'
             = Rempli(credit[c]) + Cardinality(Requetes) - Cardinality(Orphelines(c))
    BY <1>1, <1>2 DEF Marge
  <2>2. Marge(c, EnAttente(c)) \in Int /\ Marge(c, Orphelines(c)) \in Int
    BY <1>3, AttenteFinie DEF Marge
  <2>. HIDE DEF Marge, Rempli
  <2>. QED
    BY <1>5, <2>1, <2>2, AttenteFinie
<1>7. Connu(c)' => Marge(c, Orphelines(c))' >= niveau'[clients'[c]]
  <2>1. Connu(c) => /\ niveau'[clients[c]] \in Int /\ niveau'[clients[c]] <= Rafale
                    /\ niveau'[clients[c]] <= niveau[clients[c]] + Debit
    BY <1>1, <1>3 DEF Rempli
  <2>2. Connu(c) => Marge(c, Orphelines(c)) >= niveau[clients[c]]
    BY <1>4 DEF CreditTenu
  <2>. QED
    BY <1>1, <1>2, <1>3, <1>6, <2>1, <2>2
<1>8. \/ Marge(c, EnAttente(c))' >= Rafale
      \/ Connu(c)' /\ Marge(c, EnAttente(c))' >= vue'[c] * Debit - Cardinality(Requetes)
  <2>1. CASE Marge(c, EnAttente(c)) >= Rafale
    BY <1>3, <1>6, <2>1
  <2>2. CASE Connu(c) /\ Marge(c, EnAttente(c)) >= vue[c] * Debit - Cardinality(Requetes)
    <3> DEFINE p == vue[c] * Debit
               q == vue'[c] * Debit
    <3>1. vue'[c] = vue[c] \/ vue'[c] = vue[c] + 1
      BY <1>1 DEF Vieillir
    <3>2. p \in Int /\ (q = p \/ q = p + Debit)
      <4>1. (vue[c] + 1) * Debit = vue[c] * Debit + Debit
        BY <1>3
      <4>. QED
        BY <1>3, <3>1, <4>1
    <3>3. Marge(c, EnAttente(c)) >= p - Cardinality(Requetes)
      BY <2>2
    <3>. HIDE DEF p, q
    <3>4. \/ Marge(c, EnAttente(c))' >= Rafale
          \/ Marge(c, EnAttente(c))' >= q - Cardinality(Requetes)
      BY <1>3, <1>6, <3>2, <3>3
    <3>. QED
      BY <1>2, <2>2, <3>4 DEF q
  <2>. QED
    BY <1>4, <2>1, <2>2 DEF CreditTenu
<1>. QED
  BY <1>7, <1>8 DEF CreditTenu

-----------------------------------------------------------------------------
(* The theorems *)

(* At first every credit is whole and nobody waits. *)
LEMMA LimiteurInitial == InitLimiteur => InvariantLimiteur
<1>. SUFFICES ASSUME InitLimiteur PROVE InvariantLimiteur
  OBVIOUS
<1>1. TypeLimiteur /\ AppelsSitues
  BY TypesInitiaux
<1>2. ASSUME NEW c \in Clients PROVE CreditTenu(c)
  <2>1. ~Connu(c) /\ credit[c] = Rafale
    BY DEF InitLimiteur, Connu
  <2>2. Marge(c, EnAttente(c)) >= Rafale
    BY <2>1, AttenteFinie, RafalePositive DEF Marge
  <2>. QED
    BY <2>1, <2>2 DEF CreditTenu
<1>. QED
  BY <1>1, <1>2 DEF InvariantLimiteur, CreditCouvert

(* Every step keeps what the credit covers. *)
LEMMA LimiteurInductif ==
  InvariantLimiteur /\ [NextLimiteur]_varsLimiteur => InvariantLimiteur'
<1>. SUFFICES ASSUME InvariantLimiteur, [NextLimiteur]_varsLimiteur
             PROVE  InvariantLimiteur'
  OBVIOUS
<1>. USE DEF InvariantLimiteur
<1>1. TypeLimiteur' /\ AppelsSitues'
  BY TypesGardes
<1>2. ASSUME ToutRegagne PROVE CreditCouvert'
  <2>. USE <1>2
  <2>1. CASE UNCHANGED varsLimiteur
    BY <2>1 DEF varsLimiteur, CreditCouvert, CreditTenu, Connu, Marge, EnAttente, Orphelines
  <2>. QED
    BY <2>1, ConnuGarde, NouveauGarde, AdmettreGarde, RefusGarde, NettoyerGarde, EcoulerGarde
       DEF NextLimiteur
<1>3. ToutRegagne' <=> ToutRegagne
  BY DEF ToutRegagne
<1>. QED
  BY <1>1, <1>2, <1>3

(* A bucket holds between none and a burst of tokens, a request at a bucket  *)
(* has one, and the credit of a client covers what its bucket may grant.     *)
THEOREM LimiteurTenu == SpecLimiteur => []InvariantLimiteur
BY LimiteurInitial, LimiteurInductif, PTL DEF SpecLimiteur

(* A client passes no more requests than one bucket that is never removed    *)
(* would allow, but for one each of the requests served at the same time.    *)
THEOREM DebitToujoursBorne == SpecLimiteur => []DebitBorne
<1>1. InvariantLimiteur => DebitBorne
  BY CreditSuffisant DEF InvariantLimiteur, DebitBorne
<1>. QED
  BY <1>1, LimiteurTenu, PTL

=============================================================================
