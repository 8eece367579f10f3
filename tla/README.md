# A library's REST API, specified in TLA+

This directory specifies the concurrent core of the repository: a Go REST API
(`internal/`, `cmd/api`) over a MariaDB schema that carries much of the logic
itself (`sql/`: a procedure, triggers, functions, foreign keys, scheduled
events). There is no ORM: every operation is a hand-written statement, so what
is atomic is exactly what the code puts into one statement or one transaction.
Paths and line numbers below are relative to `src/`.

## 1. Inventory

| Component | State | Operations | Interacts with |
|---|---|---|---|
| Circulation: `handler/emprunt_handler.go`, `service/emprunt_service.go`, `repository/emprunt_repository.go`, `sql/procedures/06_procedures.sql`, `sql/functions/04_fonctions.sql` | tables `emprunts`, `livres` (stock) | borrow (`CALL pr_emprunter_livre`), return (`Rendre` in `EnTransaction`) | row locks shared with everything that writes a book or a loan |
| Overdue event: `sql/events/08_events.sql:30` | `emprunts.statut` | one UPDATE a day | returns of the same loans |
| Token purge: `sql/events/08_events.sql:48` | `jetons_rafraichissement` | one DELETE an hour | rotations of the same tokens |
| Catalogue: `service/livre_service.go`, `repository/livre_repository.go` | table `livres` | POST, PUT, PATCH, logical and physical DELETE | the stock circulation counts in; `auteurs`, `categories` |
| Authors, categories: `service/auteur_service.go`, `service/categorie_service.go` and their repositories | their tables | POST, PUT and PATCH (read, change, write the whole row), physical DELETE refused while referenced; the name of a category is unique | editions of books, lists |
| Paged lists: `models/liste.go`, `Lister` of each repository | none kept: a count and a page, two statements | GET with page, size and order | every write to the table listed |
| Members: `service/utilisateur_service.go`, `repository/utilisateur_repository.go` | table `utilisateurs` | PUT/PATCH (read, change, write the whole row), logical and physical DELETE | circulation (`actif`), loans (cascade), sessions |
| Sessions: `service/auth_service.go`, `repository/jeton_repository.go`, `auth/jwt.go` | table `jetons_rafraichissement` | register, log in, rotate, log out | members |
| Access tokens: `auth/jwt.go`, `middleware/auth.go`, the guards of `handler/routes.go` | signed claims in the hands of clients; none on the server | sign, verify, require a role | sessions that issue them, every protected route |
| Archive, statistics, journal: `sql/events/08_events.sql:63` on | archive and statistics tables | daily statements | closed loans |
| Scheduler and life cycle: `scheduler/scheduler.go`, `cmd/api/main.go` | goroutines, the signal context | tick, run a task, stop the server, wait | the connection pool |
| Rate limiter: `middleware/rate_limiter.go` | map of token buckets | allow, purge | every request |
| Request chain: `middleware/timeout.go`, `metrics.go`, `recovery.go` | the context of each request, the gauge of requests served | enter, answer, panic, expire | handlers |
| Connections: `database/database.go`, `database/transaction.go`, the dedicated connection of `repository/emprunt_repository.go` | the pool of `sql.DB`, session variables of each connection | borrow, `CALL` then `SELECT`, transaction, give back | every statement |
| Validation: `validation/validation.go` | none | tests of one value, among them the ISBN-13 key | handlers |
| Errors, replies, routes, configuration, logs | none shared | — | — |

What is hard about it:

* **Interleaving.** Requests run concurrently and meet only in the database.
  A borrow locks the book; a return locks the loan and then the book; the event
  locks every overdue loan; an edition locks nothing between its read and its
  write.
* **Pages.** A client reads a list over several requests, each of them two
  statements, while rows are created, renamed and deleted.
* **Stale reads.** The quota is a plain SELECT in the read view of a REPEATABLE
  READ transaction; editions and profile changes write back rows read earlier;
  a reference is resolved in one statement and used in another.
* **Statements without a transaction.** A rotation of a refresh token is four
  statements (find, read the account, revoke, record), an edition of a profile
  two; other requests and failures come between them.
* **Failure.** A request may be abandoned (timeout middleware), be a deadlock
  victim, or lose its connection at any statement; after COMMIT the reply can
  still be lost.
* **Time.** `CURRENT_DATE` is evaluated per statement, so midnight can fall
  inside an operation.
* **Claims that outlive their cause.** An access token is believed until it
  expires, whatever became of the account; a request let in by it goes on until
  its deadline.
* **Borrowed connections.** A request may end by a reply, an error, a panic or a
  deadline with a connection, a transaction or session variables in hand; each
  way out must give them back once.
* **Stopping.** A signal, a listener that fails, a task that runs and handlers
  that do not end meet in the shutdown; the pool must be closed last.
* **Waiting.** A request that waits for a connection must get its answer, and an
  overdue loan must be found although its row is locked over and over.

What makes the components correct: the stock counter agrees with the loans on
record; a loan is closed once and stays as it was closed; a reply is true;
the quota is held as far as the code holds it; no row refers to a missing one;
a withdrawn book stays withdrawn; a refresh token that was exchanged is not valid
again, and only rotations that run at once can give it more than one successor;
a token never outlives its account;
an account deleted stays as it is; a change of role and the revocation of a token
take effect within a known delay; no connection is lost, shared or read for another
request's result; a loan and its archived copy never differ;
a conflict of names is answered only when there is one; a client that reads a
list to its last page misses nothing that stayed in place;
requests and tasks are over before the pool is closed, and the process does
end; no client passes more requests than its bucket grants. `PROJECT.json`
lists the hazards one by one, at their lines, with the properties that would catch each.

## 2. Modules

| Module | What it is |
|---|---|
| `Emprunts` | Circulation in full: borrow, return, event, cancellations, replies, the passing of days. |
| `Prets` | What circulation promises: a loan and a return are one indivisible step. `Emprunts` implements it (`RealisePrets`). |
| `Emprunts_proofs` | Theorems about `Emprunts`, the refinement of `Prets` among them, checked by TLAPS as those of the other `_proofs`. |
| `Catalogue` | EXTENDS `Emprunts`: books, authors and members created, rewritten and deleted beside circulation. |
| `Catalogue_proofs` | Theorems about `Catalogue`; EXTENDS `Emprunts_proofs`. |
| `Comptes` | Accounts and refresh tokens: sessions, editions, deletions, the purge. |
| `Archivage` | EXTENDS `Emprunts`: the daily archive event, statement by statement. |
| `Archivage_proofs` | Theorems about `Archivage`; EXTENDS `Emprunts_proofs`. |
| `Referentiel` | Authors and categories, created, rewritten and deleted while a client reads them page by page. |
| `Referentiel_proofs` | Theorems about `Referentiel`. |
| `Acces` | EXTENDS `Comptes`: access tokens, the roles they carry, the deadline of each request. |
| `Acces_proofs` | Theorems about `Comptes` and `Acces`. |
| `Limiteur` | The token buckets of the rate limiter and their cleaner. |
| `Limiteur_proofs` | Theorems about `Limiteur`. |
| `Chaine` | One request past the limiter: its context, the gauge, the connections it borrows from the pool. |
| `Serveur` | EXTENDS `Chaine`: the process from start-up to exit, its requests and tasks. |
| `Serveur_proofs` | Theorems about `Chaine` and `Serveur`. |
| `Validation` | The check digit of an ISBN-13, with theorems about it; no state. |
| `MCEmprunts`, `MCCatalogue`, `MCComptes`, `MCAcces`, `MCArchivage`, `MCReferentiel`, `MCLimiteur`, `MCServeur` | Instances for TLC, with symmetry where no liveness is checked. |

`Emprunts` composes circulation with the database's locks; `Catalogue` and
`Archivage` add to it what else writes the same tables. `Comptes` and `Acces`
compose sessions with administration. `Serveur` composes the life of the
process with that of its requests (`Chaine`). `Limiteur` stands alone: what it
admits enters the chain, what it refuses goes no further, and neither reads the
other's state.

### How `Emprunts` corresponds to the code

The variables `total`, `dispo`, `fiche` are columns of `livres`
(`nombre_exemplaires`, `exemplaires_disponibles`, `supprime_le`/presence),
`compte` is `utilisateurs.actif` (with `supprime_le`), `emprunts` the table of
loans, `jour` is `CURRENT_DATE`, `marquage` the running event, and `tx[d]` the
transaction of request `d`: the stage it has reached and the Go and SQL local
variables it carries on.

* **Committed tables, buffered writes.** Tables hold committed rows. A
  statement that takes a lock or reads is an action; the writes of the final
  statements become visible in the action that commits. That is what other
  transactions can see under InnoDB, and the row locks (which do matter before
  COMMIT) are derived from the stage: `TientEmprunt`, `TientLivre`. A lock is
  free to whoever takes it next when the stage is left.
* **Borrow.** `OuvrirEmprunt` is the member's SELECT, which creates the read
  view, so the quota count of `fn_nb_emprunts_actifs`, evaluated later in the
  procedure, is that of this instant; `VerrouillerLivre` is `SELECT ... FOR
  UPDATE` with every test after it; `EnregistrerEmprunt` is INSERT, UPDATE and
  COMMIT. `RefuserDuree`, `RefuserMembre`, `RefuserLivre`, `RefuserConflit` are
  the early returns with their codes. The 403 of a member who asks for a loan in
  the name of another (`emprunt_handler.go:48`) comes before any statement and is
  left out.
* **Strict reads.** `LecturesStrictes` holds the values the server's
  `innodb_snapshot_isolation` may have. The repository does not set it and
  `docker-compose.yml:26` floats within MariaDB 11, where its default changed
  between minor versions. With both in the set a stale view is refused or not at
  each lock (`VueAcceptee`), which covers either server: so runs
  `Emprunts_concurrence`. `Catalogue_fonds`, where editions too make a view
  stale, is strict; the other runs are not, and the theorems hold for every
  choice.
* **Return.** One action per statement of `Rendre`: lock and test, penalty,
  UPDATE of the loan, UPDATE of the stock (it may wait for the book's lock),
  COMMIT.
* **Failure.** `Annuler` ends any transaction before COMMIT: lock wait timeout,
  deadlock victim (gap locks of concurrent INSERTs can make cycles that the
  row locks modelled here do not; InnoDB then rolls one of them back, which is
  this action), an expired or abandoned request context, a lost connection. No
  property counts on it happening. `PerdreResultat` is the failure after
  COMMIT: the loan exists and the client is told of an error.
* **Event.** `LancerMarquage`, `VerrouillerRetard`, `ValiderMarquage`: one
  UPDATE that locks overdue rows one at a time. Its own rollback would undo
  nothing visible and is left out.
* **Accounts.** `ChangerCompte` merges PATCH of `actif` and logical deletion;
  circulation tells them apart in nothing.

### How `Catalogue` corresponds to the code

`edition[c]` is one handler run of `LivreService`. `LireLivre` reads the row
(`ParUUIDInterne`), `ResoudreAuteur` resolves the reference, `EcrireLivre`
writes back the whole row with the stock computed by `ajusterStock` from what
was read, and `RelireLivre` reads it for the reply: four statements, four
transactions. A PATCH may leave out the author or the total and checks the
total when it reads; a PUT checks it after the references. A category is
referred to and protected as an author is and is left out here; the ISBN is
left out and `RefuserDoublon` refuses freely. `SupprimerLivre` and `SupprimerAuteur` are refused while
referenced (RESTRICT), `SupprimerMembre` cascades to the member's loans as the
schema says. A physical deletion is one statement, modelled as an atomic step
taken when none of the rows it needs is locked. `AucuneLigneAffectee` models
what the MySQL driver returns as `RowsAffected`: rows changed, not rows
matched, since the DSN (`database.go:60`) leaves `clientFoundRows` off.

### How `Comptes` corresponds to the code

`comptes[m]` is a row of `utilisateurs` (presence, `supprime_le`, and the
columns a request rewrites: name, `role`, `actif`), `jetons[t]` a row of
`jetons_rafraichissement`, `heure` is `NOW()` and `req[r]` a handler run with
its local variables. Every statement here commits on its own, so each is an
action: `TrouverJeton`, `LireCompte`, `Revoquer`, `Enregistrer` are the four of
`Rafraichir`, and `Connecter`, `Enregistrer` the two of `Connexion`.
`Interrompre` ends a run between any two. The reply goes out with the last
step. A token row is identified by its random value, so that a value is used
once (`JetonJamais`); `origine` remembers which token a rotation exchanged and
is read by the properties alone. `RefuserDEmblee` stands for the requests
refused by their first read, which change nothing. `expire_le` is computed by
the Go process and compared with the database's clock: one clock stands for
both. The e-mail address (written when the account is created and by nothing
later) and the passwords are left out, and so is
`RevoquerTousPourUtilisateur`, which nothing calls. An edition reads the row
(`LireProfil`), changes it in memory and writes all four columns
(`EcrireProfil`); `sorte` tells the routes that may change only the name from
the administrator's PATCH. `Emprunts` and `Catalogue` keep their own, coarser
view of an account: circulation reads only whether it is present and active.

### How `Acces` corresponds to the code

Every action of `Comptes` is taken up with what it does to three more things.
`porte[r]` is what the request carries in memory: the row a session has read
(`LireCompteAcces` puts the present role there, `EnregistrerAcces` signs it), or
the identity that `Authentification` put into the context (`EditerSousJeton`);
`porte[r].limite` is when its context expires. After that no statement of it
takes effect; `Delai` is `DelaiTraitement` plus the lock wait of a statement
the database was already executing. `acces` is one access token in the hands of
a client: the server keeps no list, so one is observed at a time, any one, and
whenever a token is issued it may take that place. `AccesValide` is the test of
`exp`, which refuses from that instant on. `Autorise` is the chain
`Authentification`, `ExigerRole(RoleAdmin)` in front of
`PATCH /utilisateurs/{id}`. What other clients do, under tokens that are not
the one observed, is `AutresPas`: it is not tied to a role. `PATCH
/utilisateurs/moi`, which any valid token opens, and `PUT /utilisateurs/{id}` are
left out of `Acces`: they are sent a name alone, but write `role` and `actif`
back as they have read them, which is the subject of `ProfilSeul`.
`ouvert` and `sortie` are history: when an account was last an open
administrator, and a token that was revoked, by a logout or by a rotation, while
rotations of it were under way.

### How `Archivage` corresponds to the code

`archive` is the table `emprunts_archive`, `archivage` says whether the event
is between its statements. `CopierAnciens` is the INSERT, `SupprimerAnciens`
the DELETE; each commits on its own and evaluates `CURRENT_DATE` on its own,
so that days, returns and failures come between them. The primary key of the
archive makes the INSERT fail as a whole (`RefuserDoublonArchive`), which ends
the event. `AbandonnerSuppression` is the DELETE that fails or the server that
stops. `trg_emprunts_avant_delete` never refuses: the condition takes closed
loans only. `copie` is history: the day of the last INSERT and the loans then
closed, against which `PerteDeMinuit` judges the DELETE. The year of the event is `DelaiArchive` days.

### How `Referentiel` corresponds to the code

`fiches[f]` is a row of `auteurs` or of `categories`: `nom` is the rank of the
name in the collation of its column (`uq_categories_nom` compares that), `detail`
stands for the other columns. The two services have the same shape, so one set
of actions serves both tables and only the unique name tells them apart
(`NomPris`). `LireFiche` is `ParUUID` and the changes made to the struct
(`Composee`: a PUT gives both columns, a PATCH may leave one out and then keeps
what was read), `EcrireFiche` the UPDATE of the whole row, after which the
repository answers by the rows affected (`AucuneLigneAffectee`, as in
`Catalogue`). The uniqueness is decided by the index when the row is written,
and nothing is checked before. Which deletions the foreign keys refuse is the
subject of `Catalogue`; here `SupprimerFiche` may succeed at any time, which
allows more.

A list is `CompterLignes` then `LirePage`, outside any transaction;
`Normalisee`, `Offset` and `Fenetre` are `Normaliser`, `Offset` and the LIMIT of
the query. The client is external: it asks for page after page for as long as
a page is as long as `meta.taille_par_page` announces. `temoin` is history: which
rows have stayed since it began, and whether rows joined or left the table or
moved in it. Only the default order is modelled, by ascending name; rows of one
name come in any order and differently from one page to the next, which is why
the two properties of the lists speak of categories: authors of one name may be
missed or shown twice with no write at all. Searches, filters, the other sort
columns, and the
overflow of an offset too large for an `int` are left out.

### How `Limiteur` corresponds to the code

A bucket (`rate.Limiter`) is an object apart from the map: `limiteurPour`
returns it under the mutex (`LimiterConnu`, `LimiterNouveau`), `Allow` is called
after the mutex is released (`Admettre`, `Refuser`), and `Nettoyer` may remove
the client in between, any time between. Time advances in steps (`Ecouler`) that
refill the buckets and age the clients. `credit` is a history variable: the
tokens of an imaginary bucket per client that is never removed, against which
`DebitBorne` measures what the real ones granted. It holds where a removed
client has regained everything, late requests included (`ToutRegagne`). The
default settings are far on that side (a burst of 20, refilled at 10 a second,
against 180 seconds); the code checks no such relation between the burst, the
rate and the delay of the cleaner, and without it each removal would hand out
a fresh bucket early.

### How `Chaine` and `Serveur` correspond to the code

`traitement[r]` is where a request is past the limiter and the connection it
holds; `libres` are the connections the pool may lend, or open
(`MaxConnexionsOuvertes` in all), `fond` those a goroutine of `sql.Tx` is
rolling back, `session[k]` whose `CALL` has set the session variables of `k`,
`jauge` the gauge of `Metriques`. A request asks for a connection
(`DemanderConnexion`) and waits for a free one or its deadline. With it, it runs
a statement, or `CALL` then `SELECT` on the same connection
(`ExecuterAppel`, `TerminerInstruction`), or a transaction, closed by COMMIT or
ROLLBACK (`CloreTransaction`, `AcheverCloture`). `Expirer...` is the context
that ends, one action per place it may find the request in: waiting, it gives
up; inside a statement, the driver cuts the connection; between two statements
of a transaction, `sql.Tx` rolls back in the background or the request gets
there first; inside COMMIT or ROLLBACK nothing happens, since neither takes a
context and the DSN sets no read timeout. `Paniquer` is a panic that climbs
through the deferred calls; inside `fn` it is first a ROLLBACK. `sql.DB` and the
driver are external and modelled from how the code calls them; which rows are
locked meanwhile is the subject of `Emprunts`.

`principal` is where `executer` is; the deferred `db.Close` runs last but one.
`OuvrirEcoute` and `EchouerEcoute` are the goroutine of `ListenAndServe`, which
after `Shutdown` returns `ErrServerClosed` even when it had not begun to
listen (`refusee`). `AttendreRequetes` is a `Shutdown` that returns nil, `ForcerArret` the
one whose deadline has passed, followed by `Close`: the handlers are then left
running beside the rest of the stop. Until `Shutdown` has returned, a connection
accepted before may still bring a request (`Recevoir`). A task's `select` may run it once more
after the signal when its ticker is due too (Go draws the ready case), hence
`ExecuterTache` does not look at `arret`. A closed pool lends nothing any more. A listener that fails makes
`executer` return at once, without waiting for requests or tasks: the process
exits with an error, no further request is received, and the properties about
the order of the stop leave that path out.

### How `Validation` corresponds to the code

`Codes` are the strings `motifChiffres13` accepts, as functions from the
positions 0 to 12 to digits. `Somme` is the loop over the first twelve with its
weights, `CleAttendue` and `EstISBN13Valide` the key and the comparison. The
rule of the standard, a weighted sum of all digits that is a multiple of ten,
is the reference definition (`RegleISBN`). `NormaliserISBN`, which takes dashes
and spaces away first, is left out.

The definitions called `Faute...` are plausible mistakes in the operation that
follows them in the text. No specification uses them; substituting one for the
operation must make its property fail, which shows that the property depends on
that line of the code.

## 3. What TLC checks

| Run | Instance | Question |
|---|---|---|
| `Emprunts_concurrence` | 2 requests, 1 book with 1 or 3 copies, 1 member, 3 loans, quota 1, days 0..2, durations accepted and refused, reads strict or not | Do the counter, the locks and the replies agree with the loans in every interleaving, cancellations, midnights and the overdue event included (`InvariantComplet`, `Conservation`, `RetourJamaisRefuse`, `RetourUnique`, `ReponseVeridique`), by how much can the quota be exceeded (`DepassementBorne`), and does it all implement `Prets`, which never lends a copy it has not (`RealisePrets`)? |
| `Catalogue_fonds` | 1 request, 1 edition, 1 book with 2 copies, 2 authors, 1 member, 3 loans, totals 1 to 3, strict reads | With stale writes allowed, does the stock stay within the copies owned (`StockBorne`), does every reference lead to a row (`IntegriteReferentielle`), does a withdrawn book stay so (`RetraitRespecte`), does an undisturbed edition keep the copies lent (`AjustementPreserve`), and what can part the stock from the loans on record (`EcartExplique`)? |
| `Acces_roles` | 1 account, 2 roles, 2 refresh tokens that live 2 hours, access tokens that live 1, requests of 1, hours 0..3, 2 requests | Is an exchanged token never valid again, and has it no more successors than requests ran at once (`InvariantComptes`), does no token outlive its account (`JetonRattache`), does an edition leave a deleted account alone (`CompteSupprimeFige`)? How long does a role act after it was taken away (`EffetBorne`, by `InvariantAcces`), and how long can a session go on from a token after its revocation (`RevocationBornee`)? |
| `Archivage_evenements` | 1 request, 1 book, 2 loans, quota 1, days 0..2, fair | Is a loan archived as it was closed, whatever fails and whenever midnight falls (`ArchiveFidele`), which loans can a midnight lose (`PerteDeMinuit`), does the event leave closed loans alone (`HistoriqueFige`), do penalties never exceed what the dates justify (`PenaliteJamaisExcessive`), and is an overdue loan always marked or returned in the end (`RetardConstate`)? |
| `Referentiel_listes` | 2 requests, 2 categories, 1 author, 2 names, pages of one row | Does a list read to its end show everything that stayed in place (`ParcoursComplet`) and nothing twice (`ParcoursSansDoublon`), is a conflict over a name that was not sent a real one (`ConflitRenommage`), does an edition leave a deleted row deleted (`SuppressionRespectee`)? |
| `Serveur_arret` | 3 requests, 2 connections, 1 task, fair | Does the pool outlive requests and tasks (`PoolFermeEnDernier`), does a signal end the process (`ArretAboutit`)? Is every connection given back and the gauge exact whatever happens to a request (`RessourcesRendues`), is a result read where it was written (`ResultatPropre`), and is every request answered although the pool is exhausted (`RequeteRepondue`)? |
| `Limiteur_debit` | 1 client, 3 requests, 3 buckets of 2 tokens | Does the cleaner let nobody pass more than one bucket grants (`DebitBorne`), and forget those who stay away (`ClientOublie`)? |
| `Emprunts_quota_respecte` | 2 requests, quota 1 | violated: the documented quota |
| `Catalogue_stock` | 1 request, 1 edition | violated: an edition preserves the number of copies lent (`EditionPreserve`) |
| `Archivage_reprise` | 1 request, 2 loans, days 0..2, fair | violated: old loans are moved in the end |
| `Comptes_profil` | 2 requests, 1 account | violated: a change of name leaves role and state alone |
| `Comptes_bifurcation` | 2 requests, 1 account, 3 refresh tokens | violated: a refresh token is exchanged once (`EchangeUnique`) |

**Bounds.** `MaxJour` bounds the days, `MaxHeure` the hours, `Lignes` the number
of loans ever recorded (`IdentifiantRestant` keeps a request from being stuck
for want of an identifier), `Jetons` that of refresh tokens, the sets bound the
rest. Two requests suffice for every pairwise race between operations on
circulation, and one book for those that meet on its lock: the proofs cover any
number of both. One copy is fought over; with three the stock never decides and
only the quota does. A quota of 1 or 2 stands for 5 because
the code compares it and nothing else, and two requests take a member from one
loan short of it to one beyond; the third loan is the one a slot is left for.
In `Emprunts_concurrence` the durations 0 and 2 stand for the default and for
91, the first refused. Days 0..2 cover a loan of one day returned late, its
delay and its archiving (`DelaiArchive` is 0: a loan is old the day after its
return). In `Catalogue_fonds` the totals go from one below the copies on loan
to one above the copies owned. In `Acces_roles` two refresh tokens are a login
and one rotation of it, or two logins; of two rotations of one token at once the
second then records no successor, for want of an identifier. In
`Comptes_bifurcation` there is a third token, and both do; that no token has more
successors than there are requests is what `RotationsBornees` proves for any
number. Four instants let an access token be issued at the end of one
request, expire at the end of another, and leave one hour after the bound in
which it must have no effect. In `Referentiel_listes` a requested size of 0
becomes the default and one of 3 is cut to the maximum, both one row, so that
two categories make three pages, the last one empty; two names are enough for a
name to be given up by one category and taken by the other. In `Serveur_arret`
one more request than there are connections makes one of them wait; two
connections let one be busy, rolled back or lost while the other serves. In
`Limiteur_debit` a bucket regains its burst and the three late requests within
`Inactivite` and one step (5 >= 2 + 3); more than three buckets are never
needed, since a request that asks for a new one holds none and two others hold
one each at most; the ages stop at
`Inactivite + 1`, where the cleaner no longer tells them apart.

**Fairness.** In circulation (`Equite`, assumed by the archive runs) a request that
has begun runs on: strong fairness for its statements, because InnoDB queues the waiters for a row lock
and grants each in turn, so that a lock free again and again is obtained; weak
fairness for reading and sending the reply. The event scheduler runs every day
and its UPDATE is served its locks in the same way; so is the archive event. In
`Serveur` the main goroutine goes on, a task that runs ends, and a task whose
`select` offers `ctx.Done()` again and again takes it one day (strong fairness:
Go draws among the ready cases). Contexts expire, and a handler whose context
is done stops waiting and replies: weak fairness of `ExpirerRequete` and of the
reply that follows. Nothing is assumed of the database: not that a statement
ends, not that a connection comes free, not even that COMMIT is answered, which
is why `RequeteRepondue` excepts a request that waits for that for ever, and
`ArretAboutit` rests on the deadline of the stop. In `Limiteur` time passes and
the ticker of the cleaner fires. Nothing is assumed of clients, of
cancellations or, elsewhere, of time: `RetardConstate` holds although returns of
the loan may fail for ever.

**What disagrees with the repository's own words.**

* *Quota* (`DATABASE.md:424`): two requests of one member for different books
  do not see each other; `DepassementBorne` says by how much at most.
* *Stock* (`livre_service.go:253`): an edition overwrites the +1 or -1 of a
  loan or return committed between its read and its write (`EditionPreserve`).
  Afterwards a return can be refused by the trigger, which `Rendre` reports as an
  internal error. `EcartExplique` says that nothing but this and the deletion of
  a member (below) parts the stock from the loans.
* *Profile* (`utilisateur_service.go:79`): a change of the name writes `role`
  and `actif` back as they were when it read them.
* *Rotation* (`auth_service.go:110`, `API.md:79`): the refresh token is tested in
  one statement and revoked in another, so that two rotations of it that run at
  once both succeed and the session forks (`EchangeUnique`). `RevocationBornee`
  says until when: no rotation that starts after the revocation gives a
  successor, and none is recorded later than a request lasts.
* *Archive* (`08_events.sql:66`): after one failure of the DELETE the rows
  copied stay in `emprunts` and every later INSERT fails on them.
* Not run but seen in the model: the physical deletion of a member takes along
  loans that are not returned, against `07_triggers.sql:176`, since MariaDB runs
  no trigger for a cascade; midnight between the two statements of the
  archive event deletes loans that were not copied, against "tout en conservant
  l'historique" (`08_events.sql:68`; `PerteDeMinuit` says which at most); an
  edition that changes nothing is answered 404, against
  `utilisateur_repository.go:220`, because the driver counts rows changed;
  midnight between the two statements of a return makes a penalty one day short
  of the 0,50 EUR a day of `04_fonctions.sql:58`, and an author deleted between
  its resolution and the write gives a 500 where `DATABASE.md:605` announces a
  422; two PATCHes of different columns of an author or of a category undo each
  other, although a field that was not supplied is to remain unchanged
  (`models/auteur.go:41`), because each writes the whole row it read; a logout
  while its token is being exchanged leaves the client of the rotation with a
  valid successor (`auth_service.go:144`; `RevocationBornee` says until when
  that can happen).
* Seen while reading, of things no property is about: a `CALL` whose context
  expires may still commit in the database, and its client is told of an error;
  a request whose handler panics is missing from the request counters, which
  are incremented after the handler and not in a deferred call
  (`metrics.go:37`); `/ready` says that the database is unavailable as
  well when the pool is merely exhausted; nothing checks that `DelaiTraitement` is below
  `DelaiEcriture` (`config.go:55`).

## 4. What is proved

Every safety property that a run checks, every action property and the
refinement are theorems, for every value of the constants: any number of
books, members, requests, tokens, connections, rows, any quota, delay and page
size. The `expect: violation` runs need none.

`Emprunts_proofs`, for both kinds of reads:

| Theorem | Says |
|---|---|
| `InvariantTenu` | `Invariant` always holds: what the theorems below build on |
| `InvariantCompletTenu` | `InvariantComplet` always holds |
| `StockConserve` | `Conservation`: counter = copies owned - loans not returned |
| `RetourAccepte` | `RetourJamaisRefuse`: a return always finds room |
| `DepassementContenu` | `DepassementBorne`: the quota plus the other requests |
| `RetourToujoursUnique` | `RetourUnique`: two returns of a loan never both succeed |
| `ReponseToujoursVeridique` | `ReponseVeridique`: what a reply says is true and stays true |
| `PenaliteBornee` | `PenaliteJamaisExcessive` |
| `HistoriqueIntact` | `HistoriqueFige`: a closed loan is not rewritten |
| `CirculationRealisePrets` | `RealisePrets`: `Emprunts` implements `Prets`, initial states and step by step |

`Archivage_proofs`:

| Theorem | Says |
|---|---|
| `ArchivageTenu` | `InvariantArchivage` always holds, the invariant of circulation included |
| `ArchiveToujoursFidele` | `ArchiveFidele`: a loan and its archived copy never differ |
| `PerteSeulementAMinuit` | `PerteDeMinuit`: only a midnight makes the DELETE lose a loan |
| `HistoriqueArchive`, `PenaliteBorneeArchivage` | `HistoriqueFige` and `PenaliteJamaisExcessive` beside the archive event |

`Catalogue_proofs`:

| Theorem | Says |
|---|---|
| `CatalogueTenu` | `InvariantCatalogue` always holds |
| `StockToujoursBorne` | `StockBorne`: never more copies in than owned |
| `ReferencesTenues` | `IntegriteReferentielle`: every reference leads to a row |
| `RetraitToujoursRespecte` | `RetraitRespecte`: a withdrawn book is not revived |
| `AjustementToujoursPreserve` | `AjustementPreserve`: an undisturbed edition keeps the copies lent |
| `EcartToujoursExplique` | `EcartExplique`: only an edition over a stale read or a deleted member parts the stock from the loans |

`Acces_proofs`, about `Comptes`:

| Theorem | Says |
|---|---|
| `SessionsCorrectes` | `InvariantComptes` always holds |
| `JetonToujoursRattache` | `JetonRattache`: a token on record has its account on record |
| `EchangeToujoursRevoque` | `EchangeRevoque`: a token exchanged is never valid again, whatever its successors (not run on its own, as the next) |
| `RotationsBornees` | `DescendanceBornee`: at most one exchange per request served at once (not run on its own: `InvariantComptes`, which is, implies it) |
| `SuppressionDefinitive` | `CompteSupprimeFige`: no edition revives a deleted account |

and about `Acces`, for every life of both kinds of tokens and every delay:

| Theorem | Says |
|---|---|
| `AccesRealiseComptes` | sessions under access tokens are sessions of `Comptes`: every theorem above holds of them |
| `AccesTenu` | `InvariantAcces` always holds |
| `EffetDansLesDelais` | `EffetBorne`: no account is administered later than `DureeAcces + 2 * Delai` after its author lost the right |
| `RevocationDansLesDelais` | `RevocationBornee`: no successor of a token is recorded later than `Delai` after its revocation |

`Referentiel_proofs`:

| Theorem | Says |
|---|---|
| `ReferentielTenu` | `InvariantReferentiel` always holds |
| `ParcoursToujoursComplet` | `ParcoursComplet`: no category that stayed is missed |
| `JamaisDeuxFois` | `ParcoursSansDoublon`: none is shown twice |
| `ConflitSeulementRenomme` | `ConflitRenommage`: a conflict over a name not sent is a real one |
| `SuppressionToujoursRespectee` | `SuppressionRespectee`: a deleted row stays deleted |

`Limiteur_proofs`:

| Theorem | Says |
|---|---|
| `LimiteurTenu` | `InvariantLimiteur` always holds |
| `DebitToujoursBorne` | `DebitBorne`: no client passes more than its bucket grants |

`Serveur_proofs`, about `Chaine` within `Serveur`:

| Theorem | Says |
|---|---|
| `ServeurTenu` | `InvariantServeur` always holds |
| `RessourcesToujoursRendues` | `RessourcesRendues`: no connection lost or shared, an exact gauge |
| `ResultatToujoursPropre` | `ResultatPropre`: a result is read where its own CALL left it |
| `PoolToujoursEnDernier` | `PoolFermeEnDernier`: requests and tasks are over before the pool closes |

`Validation`, for every code of thirteen digits:

| Theorem | Says |
|---|---|
| `CleConforme` | `EstISBN13Valide` accepts exactly the codes whose weighted sum is a multiple of ten |
| `ChiffreFauxDetecte` | one wrong digit in a valid code is always refused |
| `PermutationDetectee` | two neighbours exchanged are refused unless they differ by five |

The assumptions are the named ones of the modules: finite sets of loan
identifiers, requests and rows (needed to count them), natural stocks and
delays, a positive quota, a default page size within the maximum, `Aucun`
outside the data, and so on. TLC evaluates each of them on the runs.

**The argument for circulation.** `Conservation` alone is not inductive: a return adds one
copy at COMMIT, which is right only if the loan it closes is still active and
of the book whose lock it holds. `Socle` therefore says what each stage has
established (`DemandeCoherente`: a request past `r_verrou` has an active loan
and its book; one at `e_ecriture` has a copy left), and that locks exclude
(`VerrousExclusifs`, the event included), without which another transaction
could undo it. It holds whatever else is written to the stock, so that
`Catalogue` has it too. `Invariant` adds to it the stock and the quota. The
quota needs `DepassementPrevu`: a member's loans plus the
requests in flight that saw the member below the quota stay within
`Quota + |Demandes| - 1`; opening a request counts fewer than `Quota` loans and
at most all requests are in flight, and recording a loan moves one unit from
the second term to the first. Steps that only move one request between stages
are covered by one lemma (`EtapeLocale`, `AvanceLocale`), the two commits
by lemmas about cardinalities, the event by `MarquageGarde`.
`RetourJamaisRefuse` then follows from `Conservation`: a loan that is active
leaves the counter below the total.

`InvariantComplet` adds what a request may rely on after COMMIT, when it holds
no lock any more. What a reply says stays true because a step does only few
things to the row of a loan (`LignesSuivantes`: it appears, is marked late, is
closed, or stays), which is also `HistoriqueFige`. `RetourUnique` rests on the
lock: while a return is between its test of `statut` and its COMMIT the loan
is active, and after it the loan is closed, so that no other return passes the
test. `PenalitesJustes` needs the days in order: the penalty is computed on
one day, the return dated on the same or a later one, and a later return is
charged no less (`PenaliteCroit`).

**The argument for the refinement.** A loan of `Prets` is read off the row
(`PretVu`), a book is in its catalogue while `fiche` is `present`. The COMMIT of
a borrow is the loan of `Prets`: the copy `e_ecriture` has found is there
because the book is locked, and `Conservation` turns the counter `Prets` does
not have into a number of loans; its limit per member is `DepassementPrevu`.
The COMMIT of a return is its return. Every other step, those of the event
included, leaves `PretVu` as it was, or changes the catalogue alone.

**The argument for the archive.** The DELETE changes no active loan, and takes
closed ones that no request holds: it keeps `Invariant` and `PenalitesJustes`
(`SuppressionPermise`). `ArchiveFidele` then follows from `HistoriqueFige`, and
`PerteDeMinuit` from `CopieCoherente`: a loan closed when the INSERT ran and
not copied by it was not old that day, and the date of its return is fixed.

**The argument for the catalogue.** Editions write stocks computed from old
values, so `Conservation` is gone (`Catalogue_stock`), and `Socle` is what
remains of circulation. `StockBorne` needs `PlaceGardee`: the room a return has
found for its copy stays until its COMMIT, since the book is locked and an
edition waits for it. `IntegriteReferentielle` holds statement by statement:
what is checked before is worth nothing, the foreign key is tested by the
statement that writes, and a parent is not deleted while a transaction that is
about to refer to it holds it. A loan of `Emprunts` keeps its book and its
member, which the deletions refuse or cascade to. For `EcartExplique`, the two
commits of circulation move the counter and the row together
(`CirculationEcart`), an edition writes a difference it has read
(`EditionEcart`), and a deletion takes active loans only with their member
(`SuppressionEcart`).

**The argument for sessions.** `EchangeRevoque` needs to know that a rotation at
its last statement has its token revoked (`RequeteCoherente`) and that
revocation is never undone. The bound on successors is one sum per token:
those recorded plus the rotations of it in flight are at most `|Requetes|`
(`ChaineCoherente`). A rotation begins only on a valid token, which therefore
has no successor yet, so that the sum is at most the requests in flight;
recording a successor moves one unit from the second term to the first; the
new row's value was never used, so that nothing refers to it. Every step that
records no token is covered by one lemma (`EtapeSansNouveauJeton`).
`JetonRattache` rests on the foreign key alone: the insert is refused without
its account and the deletion takes the tokens along.

**The argument for access tokens.** `EffetBorne` follows the right of an
administrator along the chain that hands it on: the account (`OuvertsDates`), a
request that has read it (`PortesBornees`: it may go on for `Delai` more), the
token that request signs (`AccesBorne`: `DureeAcces` more), the request let in
by the token (`Delai` more again). Each link adds its own delay to the hour at
which the account was last an open administrator, which never goes back. A
rotation that started before the role changed is covered because it reads the
account after its token and the deadline counts from its arrival. For
`RevocationBornee` it is enough that a revoked token is revoked for good, so
that the rotations of it had all arrived before (`SortieBornee`). What a step
may do to a request is said once (`EtapePermise`); one lemma shows that this
keeps the invariant (`EtapeAcces`), one lemma per action that the action does no
more.

**The argument for lists.** The names of categories differ (`NomsUniques`, kept
by the unique index), so that the place of one in the list is the number of
those before it, its `Rang` (`PositionParRang`: a listing is a bijection of an
initial segment of the numbers). A page shows the rows whose ranks it covers
(`PageParRang`), and is full exactly when it does not go past the last row
(`PagePleine`). `LuJusquIci` is what holds between two statements of the
client: rows that stayed and rank below the offset were shown, unless some row
was deleted or renamed; rows shown rank below the offset, unless one was
created or renamed. The first survives insertions, which only push ranks up,
the second deletions, which only pull them down (`RangSuit`). The last page,
which is not full, ends beyond every rank. For authors, of whom two may have
one name, neither holds.

**The argument for the limiter.** `DebitBorne` alone is not inductive: the
credit goes down when a request takes a token from whatever bucket it holds, on
record or not. `CreditTenu` relates three things of one client: the credit,
the level of the bucket on record, and the requests that hold a bucket which is
not (`Orphelines`), each of which may take one more token. While a client is on
record the credit covers that level and one token per orphan; as it ages
without a call, the credit has regained `Debit` for every step, so that, where
`ToutRegagne` holds, the credit is whole when the cleaner removes it and a fresh
full bucket is covered again.

**The argument for the server.** `UsageExclusif` says of every request what
`RessourcesRendues` says of every connection: in a stage that needs one it
holds one that is neither free nor being rolled back, in another none, two
never hold the same, and no other connection is out. Every step is one of a
few kinds: the request keeps what it has (`PasSansConnexion`), gives it back to
the pool or to a rollback (`PasQuiRend`), or takes a free one (`ObtenirGarde`).
`ResultatPropre` follows: the session variables of a connection are written by
its holder alone. The gauge is the number of requests inside, followed one in
and one out (`JaugeSuit`). For the stop, `ArretOrdonne` says what each statement of
`executer` leaves to the next: once the stop has begun nothing listens, and
requests enter only until `Shutdown` has returned (`RecevoirGarde`); a stop that
was not forced has then seen the last one leave; past `Attendre` all tasks are stopped, and a stopped task does not
run again (`TacheGarde`).

**The argument for the key.** The loop is written as four sums of three digits,
so that a digit changed moves one of them (`TrioChange`) and the total by its
weight times the difference (`ChiffreChange`). One and three have no common
factor with ten, so a difference of 1 to 9 never vanishes; exchanging two
neighbours moves the total by twice their difference.

**Only model-checked.** Liveness, which needs fairness and ENABLED and is
outside this prover: `RetardConstate`, `ClientOublie`,
`ArretAboutit`, `RequeteRepondue`. The `violation` runs (`QuotaRespecte`,
`EditionPreserve`, `EchangeUnique`, `ArchivageAboutit`, `ProfilSeul`) show
counterexamples.

## 5. What is not modelled

The lists of books, members and loans, the views and the statistics read and
change nothing; they are paged as the lists modelled are, with filters of their
own. The journal rows of the trace triggers are read by nothing, and so are the
tables of the statistics event. HTTP routing, decoding, CORS and security headers,
the body limit, logging, the counters of the metrics and the configuration keep
no state that the properties above depend on; the role a route asks for is a
guard of `Acces`. The rules of `validation.go` other than the ISBN key test the
form of one value. Creations and deletions by administrators are not tied to the
access token observed in `Acces`. `pr_ajuster_disponibilite` and
`RevoquerTousPourUtilisateur` are called by nothing.

What is abstracted: row locks have no gap locks (a deadlock they cause is
`Annuler`), a category is referred to as an author is, an offset too large for
an `int` never occurs, connections are not recycled, the clock of the process
and that of the database are one.

## 6. Plan

Nothing a run checks is left unproved but liveness. What could be added, in
order of weight:

1. Theorems stronger than the runs ask for: that `Catalogue` keeps
   `RetourUnique`, whose proof uses `Socle` and not the stock. `ReponseVeridique`
   does not carry over as it stands: the deletion of a member takes along the
   row a reply speaks of, so that it would have to except deleted rows. That the
   books and loans of `Catalogue` refine those of `Prets` without the copies.
2. For lists, the same theorems for a listing that breaks ties (`ORDER BY nom,
   uuid`), which the code does not have and which would extend them to authors.
3. The safety halves of the liveness properties, for instance that a request
   that waits for a connection can always obtain one, expire or fail.
