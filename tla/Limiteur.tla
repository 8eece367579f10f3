------------------------------ MODULE Limiteur ------------------------------
(***************************************************************************)
(* The rate limiter of the HTTP server (LimiteurDebit): one token bucket   *)
(* per client in a map behind a mutex.  A request takes its bucket from    *)
(* the map and asks it for a token after the mutex is released; a cleaner  *)
(* removes the clients not seen for a while.  Time is counted in steps     *)
(* that refill the buckets and age the clients.                            *)
(***************************************************************************)
EXTENDS Integers, FiniteSets

CONSTANTS
  Clients,        \* IP addresses
  Requetes,       \* HTTP requests served at the same time
  Seaux,          \* rate.Limiter objects the heap may hold
  Rafale,         \* burst of a bucket
  Debit,          \* tokens a bucket gains in one step of time
  Inactivite,     \* steps of time in the 3 minutes a client is kept
  Aucun

ASSUME RequetesFinies     == IsFiniteSet(Requetes)
ASSUME RafalePositive     == Rafale \in Nat \ {0}
ASSUME DebitPositif       == Debit \in Nat \ {0}
ASSUME InactiviteNaturelle == Inactivite \in Nat
ASSUME AucunNiSeau        == Aucun \notin Seaux \cup Clients

VARIABLES
  clients,    \* the map: the bucket of each client on record
  vue,        \* age of derniereVue of each client
  niveau,     \* tokens in each bucket
  appel,      \* how far each request has come
  credit      \* history: tokens of a bucket per client that is never removed

varsLimiteur == <<clients, vue, niveau, appel, credit>>

-----------------------------------------------------------------------------

AppelLibre == [etape |-> "libre", client |-> Aucun, seau |-> Aucun]
Appel == [etape: {"libre", "limite", "admise"}, client: Clients \cup {Aucun},
          seau: Seaux \cup {Aucun}]

Connu(c) == clients[c] # Aucun
Inutilise(s) == (\A c \in Clients : clients[c] # s) /\ (\A r \in Requetes : appel[r].seau # s)
Rempli(n) == IF n + Debit > Rafale THEN Rafale ELSE n + Debit

(* limiteurPour, under the mutex *)
ObtenirSeau(r, c, s) ==
  /\ appel' = [appel EXCEPT ![r] = [etape |-> "limite", client |-> c, seau |-> s]]
  /\ vue' = [vue EXCEPT ![c] = 0]
  /\ UNCHANGED credit

FauteVueOubliee(r, c) ==           \* derniereVue set only when the client is created
  /\ appel[r].etape = "libre"
  /\ Connu(c)
  /\ appel' = [appel EXCEPT ![r] = [etape |-> "limite", client |-> c, seau |-> clients[c]]]
  /\ UNCHANGED <<clients, vue, niveau, credit>>

LimiterConnu(r, c) ==
  /\ appel[r].etape = "libre"
  /\ Connu(c)
  /\ ObtenirSeau(r, c, clients[c])
  /\ UNCHANGED <<clients, niveau>>

LimiterNouveau(r, c) ==
  /\ appel[r].etape = "libre"
  /\ ~Connu(c)
  /\ \E s \in Seaux :
       /\ Inutilise(s)
       /\ clients' = [clients EXCEPT ![c] = s]
       /\ niveau' = [niveau EXCEPT ![s] = Rafale]
       /\ ObtenirSeau(r, c, s)

FauteSeauVide(r) ==                \* the token is taken before it is looked for
  /\ appel[r].etape = "limite"
  /\ niveau' = [niveau EXCEPT ![appel[r].seau] = @ - 1]
  /\ credit' = [credit EXCEPT ![appel[r].client] = @ - 1]
  /\ appel' = [appel EXCEPT ![r].etape = "admise", ![r].seau = Aucun]
  /\ UNCHANGED <<clients, vue>>

(* Allow() *)
Admettre(r) ==
  /\ appel[r].etape = "limite"
  /\ niveau[appel[r].seau] >= 1
  /\ niveau' = [niveau EXCEPT ![appel[r].seau] = @ - 1]
  /\ credit' = [credit EXCEPT ![appel[r].client] = @ - 1]
  /\ appel' = [appel EXCEPT ![r].etape = "admise", ![r].seau = Aucun]
  /\ UNCHANGED <<clients, vue>>

Refuser(r) ==                      \* 429
  /\ appel[r].etape = "limite"
  /\ niveau[appel[r].seau] < 1
  /\ appel' = [appel EXCEPT ![r] = AppelLibre]
  /\ UNCHANGED <<clients, vue, niveau, credit>>

Servir(r) ==                       \* the rest of the chain: see Serveur
  /\ appel[r].etape = "admise"
  /\ appel' = [appel EXCEPT ![r] = AppelLibre]
  /\ UNCHANGED <<clients, vue, niveau, credit>>

FauteRecents == {c \in Clients : Connu(c) /\ vue[c] < Inactivite}
Oublies == {c \in Clients : Connu(c) /\ vue[c] > Inactivite}

(* One tick of nettoyerPeriodiquement, under the mutex *)
Nettoyer ==
  /\ Oublies # {}
  /\ clients' = [c \in Clients |-> IF c \in Oublies THEN Aucun ELSE clients[c]]
  /\ vue' = [c \in Clients |-> IF c \in Oublies THEN 0 ELSE vue[c]]
  /\ UNCHANGED <<niveau, appel, credit>>

(* Bound of the model: ages stop where the cleaner stops comparing them.     *)
Vieillir(c) == IF Connu(c) /\ vue[c] <= Inactivite THEN vue[c] + 1 ELSE vue[c]

Ecouler ==
  /\ niveau' = [s \in Seaux |-> Rempli(niveau[s])]
  /\ credit' = [c \in Clients |-> Rempli(credit[c])]
  /\ vue' = [c \in Clients |-> Vieillir(c)]
  /\ UNCHANGED <<clients, appel>>

InitLimiteur ==
  /\ clients = [c \in Clients |-> Aucun]
  /\ vue = [c \in Clients |-> 0]
  /\ niveau = [s \in Seaux |-> Rafale]
  /\ appel = [r \in Requetes |-> AppelLibre]
  /\ credit = [c \in Clients |-> Rafale]

NextLimiteur ==
  \/ \E r \in Requetes, c \in Clients : LimiterConnu(r, c) \/ LimiterNouveau(r, c)
  \/ \E r \in Requetes : Admettre(r) \/ Refuser(r) \/ Servir(r)
  \/ Nettoyer \/ Ecouler

(* The ticker of the cleaner fires again and again, and time passes.         *)
SpecLimiteur ==
  InitLimiteur /\ [][NextLimiteur]_varsLimiteur /\ WF_varsLimiteur(Nettoyer) /\ WF_varsLimiteur(Ecouler)

-----------------------------------------------------------------------------
(* Properties *)

(* Every variable keeps its type; no bucket is ever overdrawn. *)
TypeLimiteur ==
  /\ clients \in [Clients -> Seaux \cup {Aucun}]
  /\ vue \in [Clients -> 0..(Inactivite + 1)]
  /\ niveau \in [Seaux -> 0..Rafale]
  /\ appel \in [Requetes -> Appel]
  /\ credit \in [Clients -> Int]

(* Where a bucket is full again, late requests included, before its client   *)
(* is removed, a client passes no more requests than one bucket that is      *)
(* never removed would allow, but for those that hold a bucket the cleaner   *)
(* has taken out of the map: at most one each.                               *)
ToutRegagne == (Inactivite + 1) * Debit >= Rafale + Cardinality(Requetes)
DebitBorne == ToutRegagne => \A c \in Clients : credit[c] >= -Cardinality(Requetes)

(* A client that stays away leaves the map ("pour que la map ne grossisse    *)
(* pas indefiniment").                                                       *)
ClientOublie == \A c \in Clients : Connu(c) /\ vue[c] > 0 ~> ~Connu(c) \/ vue[c] = 0

-----------------------------------------------------------------------------
(* The inductive invariant behind the theorems of Limiteur_proofs *)

AppelsSitues ==
  \A r \in Requetes : IF appel[r].etape = "limite"
                      THEN appel[r].client \in Clients /\ appel[r].seau \in Seaux
                      ELSE appel[r].seau = Aucun

(* The requests that may still take a token in the name of a client, and     *)
(* those of them whose bucket is not the one on record any more              *)
EnAttente(c)  == {r \in Requetes : appel[r].etape = "limite" /\ appel[r].client = c}
Orphelines(c) == {r \in EnAttente(c) : appel[r].seau # clients[c]}

Marge(c, A) == credit[c] + Cardinality(Requetes) - Cardinality(A)

(* The bucket on record owes its tokens to the credit, but for those the     *)
(* orphans took; a client that stays away regains what it spent, and is      *)
(* whole again before it is removed.                                         *)
CreditTenu(c) ==
  /\ Connu(c) => Marge(c, Orphelines(c)) >= niveau[clients[c]]
  /\ \/ Marge(c, EnAttente(c)) >= Rafale
     \/ /\ Connu(c)
        /\ Marge(c, EnAttente(c)) >= vue[c] * Debit - Cardinality(Requetes)

CreditCouvert == \A c \in Clients : CreditTenu(c)

InvariantLimiteur ==
  /\ TypeLimiteur
  /\ AppelsSitues
  /\ ToutRegagne => CreditCouvert

=============================================================================
