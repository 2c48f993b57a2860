# A verification project for user-and-service-mgmt-go

The program is an HTTP API (gin) over Postgres (gorm). It keeps a catalogue of
services and their versions, the users who may read or change it, and a
materialized view of the services sorted by name. This directory holds TLA+
modules translated from its source, the TLC configurations that check them on
small instances, and proofs, checked by TLAPS, for every instance.

`PROJECT.json` ties the two together: for each definition the lines it models
(`map`), for each property the runs that check it and a mutant of the code that
breaks it, the hazards of the code and the theorems. Paths below are relative to
`src/` (`ops` is `internal/components/service/operations.go`, `hnd` is
`internal/components/service/handlers.go`).

    tlc -workers 2 -config Catalog.cfg MCServiceCatalog
    tlapm ServiceCatalogProofs.tla

## 1. Inventory

| component | source | state it keeps | operations |
|---|---|---|---|
| service catalogue | `internal/components/service/{routes,handlers,operations}.go`, `internal/models/service.go` | tables `service` and `version`, the flag `toRefreshViews` under `mux` | add, update, delete a service; add, update, delete a version; get one; list services (from the table or the view, either direction); list versions, newest first |
| view synchronisation | `ops` 52-114 | the materialized view `name_sorted_service`, two tickers, the flag | refresh at start, every 30 minutes, and within 2 seconds of a flag |
| users | `internal/components/user/*.go`, `internal/models/users.go` | table `user` | login; add, update, delete a user; change one's own password; get one; list |
| authentication, authorisation | `internal/auth`, `internal/middleware/mid.go` | none: the role and the email travel in the token | issue and validate a token, compare its role with the roles of the route |
| roles | `internal/components/role`, `internal/misc/user_roles.go` | table `user_role`, the map `Roles` filled once at start | list |
| migration | `cmd/migration/migrate.go` | the schema, the admin user, the roles | create what is missing; run by hand, may be run again |
| process | `cmd/main.go`, `cmd/api/api.go` | a context, a wait group, the channels `stop` and `serverError` | start, serve, stop on a signal or on the listener's error |
| configuration, errors, utilities | `internal/{configs,errors,utils,misc}` | none that changes | parsing and formatting |

### How they interact

* Each request runs in a goroutine of its own. Handlers call operations and
  operations run database statements one at a time; two requests meet only in the
  database and in `toRefreshViews`. Only three operations open a transaction
  (`DeleteService`, `CreateServiceVersion`, `DeleteServiceVersion`); every other
  handler checks in one statement and writes in a later one.
* A handler that changed the table `service` raises `toRefreshViews` after its
  commit. The view goroutine reads the flag every 2 seconds, refreshes the view,
  and takes the flag down after a success.
* `main` passes a context to the view goroutine; the goroutine and the listener
  are counted in one wait group, which `main` waits for.
* The process may die at any moment. Only the database survives, so a restart
  starts with a refresh.

### What is hard here

1. *Check, then write.* A name, a service or a version found (or not found) by one
   statement is relied upon by a later one. The unique keys and the foreign key
   catch some of these races, gorm's silence about statements that match no row
   hides the others.
2. *The precomputed count.* `version_count` is kept in step with the rows of
   `version` by two statements in a transaction; what keeps it right under
   concurrency is not in one place of the code.
3. *Commit, then signal.* Between a commit and its flag the process may die, the
   reply may be lost, or a refresh may begin or end.
4. *Refresh, then clear.* The flag is cleared without knowing whether it was
   raised again meanwhile.
5. *Shutdown and eventual refresh* rest on a `select` with three cases.
6. *Partial failure*: any statement may fail, or succeed with its reply lost.
7. *Locks.* The three transactions take locks on versions, on services and in the
   unique index, in an order that no line of the code states; a foreign key is
   checked in the middle of one while another adds a row to it. Whoever waits for a
   lock keeps a connection of a pool that everybody shares.
8. *Old claims.* A token carries the email and the role of a login, and is believed
   until it expires, whatever has become of the account.
9. *A setup that may stop anywhere*: the migration checks and creates item by item
   without a transaction, several may run, and apps start beside them.

### What makes each component correct

* Catalogue: names are unique; no version without a service; the count matches
  the versions, and never exceeds them; a deleted service stays deleted; an
  answer tells the truth about the row it is about. To a client all of it looks like
  one map that requests read and change one at a time.
* View: what is committed shows in the view, soon after a signal, eventually in
  any case; the goroutine ends when it is told to.
* Users: an email belongs to one user; a password change affects the user who asked;
  the right to manage users comes from those who have it, and lapses with its tokens.
* Listings: the pages of a listing partition it; inverted pages are the same pages
  counted from the end.
* Process: a signal or a listener's error ends the process, after the requests under way.
* Migration: running it again after a failure anywhere completes it; an app that
  serves finds everything in place.

## 2. The modules

| module | models | extends |
|---|---|---|
| `Catalogue` | the promise of the catalogue to its clients: an abstract specification | |
| `ServiceCatalog` | the handlers that read or write one service or version, with the operations they call; shown to implement `Catalogue` | |
| `CatalogTransactions` | the same, statement by statement under the locks of Postgres; shown to implement `ServiceCatalog` | `ServiceCatalog` |
| `ViewSync` | the view goroutine and the protocol of commits and flags; abstract in what a table holds | |
| `ServiceSystem` | both, in one process over one database; shown to implement `ViewSync` | `ServiceCatalog` |
| `ViewGoroutine` | the view goroutine as the rest of its process sees it: an abstract specification, implemented by `ViewSync` | |
| `Lifecycle` | the process: `main`, the listener, the connections, and the goroutine of `ViewGoroutine` | |
| `Accounts` | the promise of the accounts to those who use them: an abstract specification | |
| `UserAccounts` | login, tokens, the check of the roles, the handlers that read or write one user; shown to implement `Accounts` | |
| `Migration` | the migration, run again or by several, and the start of apps over what it has made | |
| `Paging` | the arithmetic of the listings and the definition of a page | |
| `Listing` | a listing: a count, then a query, over a table that is written meanwhile | `Paging` |
| `ListingSweep` | a client that reads a listing page after page | `Listing` |
| `MC...` | model values and symmetry for TLC | the module named |
| `...Proofs` | theorems | the module named |

### ServiceCatalog

The state is the two tables (`service`: a row or `Null` for each id; `version`: an
info or `Null` for each service id and tag), the sequence that hands out ids, the
flag, and for each request slot the call it makes, the next statement it runs
(`pc`) and the status it last answered. A request goes

    Receive -> CheckServiceExists -> CheckName | CheckVersionExists -> (write) -> Signal
                                  -> Read

with the checks that its handler has, in the order in which it makes them
(`FirstStep`, `AfterServiceExists`), and each step is one database statement, or
one transaction: that the transactions may be taken as one step each is what
`CatalogTransactions` shows. One of them takes two: a delete of a version whose
DELETE finds nothing (`DeleteFindsNothing`) holds no lock, so the version may come
back before the count is lowered (`SubtractOnly`). Every check may answer, and every
step before the signal may fail (`DBError`). A write may take effect and have its
reply lost: the handler then answers 500 and raises no flag (`Committed`).

The database behaves as the code's calls make it behave. An INSERT takes an id
even if the unique key refuses it. An UPDATE or DELETE that matches no row is no
error. `Updates(struct)` skips a field that holds its zero value. `version_count`
is changed by an expression (`version_count + 1`), so it is not read and then
written back. `Crash` is the death of the process and its restart.

A payload is a record whose fields have all been checked to be there
(`EnsureFieldsStrictlyExists`). Names and tags may be empty, and the handler
refuses them. Wording, logging and time stamps are left out, and the listings are
in `Listing`. A unit test cannot reach most of what is checked here: the tests of the
operations mock the database, one request at a time.

### Catalogue

What the catalogue promises, with none of how: a map from ids to a name and a set of
tags, and requests, each asked for, open until it takes effect (`Perform`) or is
refused (`Refuse`), and answered. A conflict or a "does not exist" has to be so at the
moment of its answer; a success says that the request has taken effect once (that what
was to be read was there), an internal error leaves open whether. A change or a removal of what is gone takes
effect as nothing, which is what the code does (section 4).

`ServiceCatalog` implements it (`ImplementsCatalogue`): the checks of a handler are
steps of which the client sees nothing, the write is the moment of its effect, and
the signal is a part of the reply. The mapping forgets counts, descriptions and the
flag (`EntryOf`, `RequestOf`).

### CatalogTransactions

The module keeps the tables of `ServiceCatalog` as what is committed and adds the
transaction of each request: the statements it has done and the versions it has
deleted or inserted. A statement that may wait at two points counts as two, and a
statement runs when nobody holds what it wants (`Ready`, `Blockers`). What a request
holds and wants follows from the statements it has done:

* on the row of its service a lock of one of the modes of Postgres (`Conflicting`):
  an insert of a version takes the key-share lock of the foreign key, an UPDATE the
  lock that lets key-share pass unless it changes the unique name, a DELETE the
  full one;
* the versions it deletes or inserts;
* a place in the unique index of names.

A transaction changes the tables with its last statement: nothing is waited for
after that, so its commit may be taken as part of it. `DeleteService` reads which
versions it will delete when its first statement starts; the foreign key (NO ACTION)
refuses its second one if a version has come since (`CheckReferences`). A deadlock is
broken by the database, which makes one of its members fail; a crash rolls back what
was not committed. A transaction needs a connection from its `Begin` to its end, and a check
needs one while it runs: the pool has `MaxOpenConn` of them (`DB_MAX_OPEN_CONN`), which
the rest of the program uses as well (`OthersTake`). The statements of a transaction go
through its own connection (`tx`, not `ops.db`: `Connected`). Postgres is external code and is modelled at its default
isolation, READ COMMITTED, which the code does not change.

### ViewSync

The table is a value (`table`), the view another (`view`). A refresh reads the
table when it begins (`snapshot`) and replaces the view when it ends, as Postgres
does. Writers commit and then signal. `sync` is the goroutine: where it is, why it
refreshes and how many attempts have failed. An attempt fails with the view
replaced or not. A requested refresh that fails is left for the next tick; an
initial or scheduled one is tried three times, and then the process ends
(`GivesUp`, `log.Fatalf`). The read of the flag at a tick and the choice of that
tick are one step (`RequestTick`): the flag can only be raised between the two, so
the step may be taken as happening when the flag is read. A tick that finds it
down changes nothing.

Pauses between attempts have no effect beyond their duration and are left out.

`ImplementsGoroutine` maps the statements of `sync` to the few steps of `ViewGoroutine`,
and `GoroutineIsFair` says that what `Lifecycle` assumes of them follows from the
fairness assumed here.

### ServiceSystem

`ServiceSystem` runs the actions of `ServiceCatalog` and of an instance of
`ViewSync` whose table is `service` and whose writers are the requests, and joins
those that happen together: the flag taken down, the end of the process. A request
whose next step is the signal is a writer that has committed. The refinement
(`ImplementsViewSync`) says that seen this way each step of a request is a commit,
a commit with a lost reply, a signal, or nothing. It fails if an operation raises
the flag before its commit, forgets it, or commits twice before it.

### Lifecycle

`main` starts the view goroutine (through the handlers of the services) and the
listener, counting each in the wait group, and waits in a `select` for a signal or
the error of the listener. Either cancels the runtime context; a signal also leads
to `Shutdown`; then `main` waits for the wait group and returns. The listener may
still be on its way to its port when the signal comes. The view goroutine is at
work, at its select, or gone. That is all `ViewGoroutine` knows of it; `ViewSync` has
what it does in between and is shown to implement it, with the end of the process by
`log.Fatalf` (`GivesUp` there, `ViewGivesUp` here).

`Shutdown` belongs to `net/http` and is modelled by what it promises: no new
connections, idle ones closed (those just opened may be passed over), a return
when none is left or when its context is done. A request under way is in no wait
group, so the end of the process cuts it off (`CutOff`).

### UserAccounts

The shape of `ServiceCatalog`: a request takes one step per statement, and here
there are no transactions at all. A password is the one generated for the account
or one that was chosen, which is what the flag `temp_password` tells. A password
change is addressed by the email in the token, an update and a delete by id.
`UpdatedUser` and `WithPassword` say which columns `Updates` writes: with a struct,
not those whose field is zero; with a map, all of its keys.

A token is the email and the role its account had at a login (`Token`); `issued` has
those that have not expired. Nothing but its signature and its age is looked at, so
it survives a restart, a change of the account and its end. `Authenticate` and
`AuthzRoles` are a part of `Receive`: a request of an operation that manages users
needs a token with the role `Admin` (`AdminOnly`, `Authorized`). A login reads the
account in one step and signs the token, with the role read then, in a later one
(`IssueToken`).

### Accounts

What the accounts promise, as `Catalogue` does for the services: a map from ids to an
email, a role and whose password it is; tokens, each of an account as it was at one
moment between the question and the answer (`Login`, `GiveToken`); and requests, asked
for by those who are entitled to (`Entitled`), which take effect at one moment or are
refused for what is so. A password change acts on whoever has the email of the token.
`UserAccounts` implements it (`ImplementsAccounts`): the mapping forgets the flag
of a row, and the checks of a handler are steps of which its client sees nothing.

### Migration

A migrator goes through the tables, the view, the admin and the roles in the order of
`MigrateDBEntities` and `InitDBEntities` (`After`; the range over the map of roles is
in any order). An item is a check and a create, two statements without a transaction;
the view is one, IF NOT EXISTS. A create finds out from the database when another
migrator was faster, and fails. A failure, a kill or a lost reply can come at any of
them (`Fail`), and `main` ends the process; somebody runs it again (`Run`). An app
loads the roles at its start and fails without any (`Start`); one that runs can
change the admin whose email the migration looks for (`ChangeAdmin`).

`AutoMigrate` belongs to gorm and is modelled for a table that is not there or is as
it should be: there is one version of the models.

### Paging, Listing, ListingSweep

`Paging` has the offset and limit of the three listings as the code computes them
(`Window`, `InvertedWindow`, on ints that wrap) and, next to it, the definition of a
page (`PageOf`). `Listing` puts a table and its writers around them: a listing
counts in one statement and reads in another, and rows may come and go in between.
The rows are numbered in the order of their creation and come in the order in which
they are stored; an UPDATE of Postgres stores the new state of a row elsewhere.
`ListingSweep` adds the client for whom the pages are made, and counts the writes that
move rows while it reads (`moved`): all but those that add a row at the end.

The search string selects which rows make the table, and the name-sorted listing
reads the view: neither changes the arithmetic.

## 3. The runs

| run | instance | states | shows |
|---|---|---|---|
| `catalog` | 2 requests, 2 names, 2 tags, 2 ids; every operation | 613 k | `TypeOK`, `NamesUnique`, `NoOrphanVersions`, `CountNeverOverstates`, `DeletedStaysDeleted`, `CountDriftsOnlyByRacedDelete`, `ImplementsCatalogue` |
| `catalog_drift` | 2 requests, 1 tag | | `VersionCountExact` is violated by two deletes of a version |
| `catalog_update_gone` | 2 requests, 1 name | | `UpdateReportsDeletion` is violated by an update and a delete |
| `catalog_transactions` | 2 requests, 2 names, 1 tag, 1 id, 2 connections; every operation but the read of a version; fairness | 113 k | `DeadlockOnlyAtConstraint`, `NobodyWaitsInVain`, `ImplementsServiceCatalog`, `RequestsEnd` |
| `view_sync` | 2 writers, 3 contents, fairness | 8 k | `TypeOK`, `CoverageLostOnlyByRace`, `ImplementsGoroutine`, `GoroutineIsFair`, `ViewCatchesUp`, `ShutdownCompletes` |
| `view_sync_lost_signal` | 1 writer, no lost replies | | `SignalNeverLost` is violated by one change during a refresh |
| `service_system` | 2 requests, 1 id, 1 tag; every operation but the two updates | 636 k | `ImplementsViewSync`, `StaleUnnoticedOnlyByRace` |
| `lifecycle_stop` | 2 connections, fairness | 1 k | `TypeOK`, `ExitAfterGoroutines`, `WaitNeverInVain`, `StopEndsProcess` |
| `lifecycle_graceful` | 1 connection | | `ShutdownIsGraceful` is violated by a request that runs when a signal comes |
| `user_accounts` | 2 requests, 2 emails, 2 roles, 2 ids, 1 token; every operation; fairness | 564 k | `TypeOK`, `EmailsUnique`, `TemporaryFlagExact`, `DeletedStaysDeleted`, `ImplementsAccounts`, `NoPowerFromNothing`, `StaleTokensLapse` |
| `listing_sweep` | 3 rows, 2 writes that move rows, pages up to 4, sizes up to 5, ints up to 7 | 82 k | `PageExact`, `SweepMissesFew` |
| `migration` | 2 migrators, 1 app, 3 roles, 2 failures; fairness | 222 k | `DoneMeansComplete`, `ServingMeansMigrated`, `LateStartKnowsRoles`, `MigrationCompletes` |

What the less obvious ones say:

* `ImplementsCatalogue` is linearizability with the crashes left in. It subsumes the
  truth of every conflict and every "does not exist", and it fails if a write is tried
  again after a lost reply (`FaultyCommitted`).
* `ImplementsAccounts` is the same for the users, with the login and its token. It fails
  if the row to update counts as another one with its email (`FaultyEmailCheck`).
* `ImplementsServiceCatalog`: whatever falls between two statements of a transaction,
  the transaction is one step of the catalogue, or none. It fails if the foreign key
  is not looked at (`FaultyReferences`).
* `DeadlockOnlyAtConstraint`: locks alone never deadlock, since every transaction
  comes to the row of the service after the versions. What is left is the foreign key
  and the unique name. At the key a `DeleteService` holds the row of its service and looks
  for a version that was added after its first DELETE had read them, and a later deletion
  holds that version and wants the row; adding a version never takes part. At the name
  renames go round, which takes a request more to get past their checks. The first
  happens in the instance, and `RequestsEnd` says that no request waits for ever in
  it; the second is covered by the theorem.
* `NobodyWaitsInVain`: whenever requests wait for locks or for the pool, one of those
  that have a connection can go on, or they are in a deadlock that the database sees. It
  is the safety part of `RequestsEnd`.
* `RequestsEnd` also has the pool at its limit: a transaction, a check, or both requests
  wait behind others. It fails if a statement in a transaction takes a second
  connection (`FaultyConnected`), a deadlock that the database could not see.
* `NoPowerFromNothing`: once no admin is left, in the table, in a token, or in a
  request under way, there is never one again.
* `StaleTokensLapse`: a token whose account is gone, renamed or demoted for good is
  at some time refused for good, in spite of a login that has read the old row.
* `StaleUnnoticedOnlyByRace` says of requests and their handlers what
  `CoverageLostOnlyByRace` says of writers: a stale view is left with no refresh coming only
  when the flag is taken down over a signal, or when a write takes effect whose request
  answers an internal error. It fails if the goroutine begins without its refresh
  (`FaultyFirstStep`): what a crash left unsignalled would then wait for a tick.
* `GoroutineIsFair` takes the fairness of `Lifecycle`'s goroutine back to that of its
  statements and its `select`: the return is a case that is ready again and again, and
  every refresh ends after three attempts.
* `WaitNeverInVain` is the safety part of `StopEndsProcess`: once `main` is at `wg.Wait`,
  each goroutine that the counter stands for has been told to end, and a listener with an
  error finds room in the channel for it although nobody reads it any more.
* `SweepMissesFew`: with no order in the query a client that reads page after page may
  miss rows, but one at most for each write that moves rows. In the instance the bound is
  reached in both directions, two rows for two writes.
* `DoneMeansComplete` and `ServingMeansMigrated` rest on the order of the items and on
  the first error ending a migration. `LateStartKnowsRoles` bounds the harm of the
  roles being loaded once: they may be incomplete only in an app that was started
  before any migration had succeeded.

### Bounds

* `MaxServiceId`: the ids the sequence hands out. Two let a name be created, freed by
  a delete or a rename, and taken again while a request still holds the first id. At
  the bound `addService` can go no further than its write, where it may still fail;
  every other operation goes on. In `catalog_transactions` there is one, which all
  requests then share, so that the locks meet.
* `MaxOpenConn`: two connections for two requests and the rest of the program, so that
  all of them wait for the pool at some time.
* `MaxDrift`: how far a count may be driven below zero. A delete that would go
  further is not taken. Only `DeleteServiceVersion` lowers the count, and one
  step below zero is all that distinguishes a count that drifted.
* Requests, names, tags, contents: two requests for a race. A third adds no case to
  the properties, which relate a request to what has happened to the tables, and
  that may be the work of several requests of the same slot one after the other;
  the theorems hold for any number. Two names for a rename, two tags for a count that
  can be wrong without being zero. Requests, names and tags are interchangeable, and
  no definition chooses among them, so the safety runs use symmetry; the runs with
  liveness do not.
* `MaxUserId`, `MaxTokens`: the admin that the migration creates and one user more,
  and one token at a time: a token that outlives its account, a login that waits for
  its turn, and the last admin deleting itself are all there.
* Failures of a migration: two, one for each of two migrators or both for one. A
  failure that a migrator causes the other does not count.
* `MaxRows`, `Pages`, `Sizes`: three rows have a page of every kind in them: full,
  short, the first of a size that divides the total, beyond the end, of size zero,
  larger than the table. Sizes in a sweep are positive: with size zero no page is
  ever the last.
* `MaxMoved`: two writes of a sweep may move rows, so that one of them can undo or add to
  what the other did. Rows are added at the end as room allows.
* `MaxInt`: 7, so that some products of a page and a size are ints and others wrap.
* Connections: two, so that one may be idle while the other has a request.

`TypeOK` of `ServiceCatalog` and of `UserAccounts` says more than types: a request past
`Receive` has passed the validation of its handler.

`CHECK_DEADLOCK` is off in the two runs of `Lifecycle`, whose process is meant to
stop, and on everywhere else.

### Fairness

`FairSpec` assumes weak fairness of the goroutine's own steps (a runnable
goroutine runs, a statement that was sent ends in a reply or an error) and strong
fairness of `ScheduledTick` and `Return`. The strong kind is needed since these two
cases of the `select` are ready only while the goroutine is at the `select`, which
it leaves and enters; it is justified because a Go `select` chooses uniformly
among its ready cases, so a case that is ready again and again is chosen. Nothing is
assumed of the writers, of the process, or of the success of a refresh.
`RequestTick` needs no fairness: `ViewCatchesUp` follows from the scheduled sync
alone, which is what the code says it is for.

In `Lifecycle`, `main` and the return of a failed or closed listener are weakly
fair, a refresh ends one way or the other (three attempts, each a statement), and
the return of the view goroutine is strongly fair for the same reason as above: both
follow from what `ViewSync` assumes of its statements (`GoroutineIsFair`).
Nothing obliges a request to end or the listener to come up, and `StopEndsProcess`
holds all the same, because `Shutdown` does not wait: with a context that is not
done, a request that never ends would keep the process up.

In `CatalogTransactions` a request goes on (strong fairness of its next statement,
since a lock or a connection it waits for is queued for and granted in turn), the rest
of the program gives its connections back, and the database breaks
a deadlock after `deadlock_timeout`, by making one of its members fail, each in its
turn. A request that a bound keeps from writing fails in the end.

In `UserAccounts` each token expires: `CreateJWT` gives every one the moment at which
it does. In `Migration` a migrator that was started gets on, and somebody runs the
migration until it has succeeded, since `main` ends a failed one with an error.
`MigrationCompletes` excepts users who keep taking the email of the admin and giving
it up: a migrator that looks for it and creates the row a moment later may then fail
every time.

## 4. Findings

* **A count that drifts** (`catalog_drift`). `DeleteServiceVersion` checks that the
  version exists (`ops` 433), then deletes it and subtracts one from the count,
  whether the DELETE matched a row or not. Two overlapping deletes subtract two.
  `CountDriftsOnlyByRacedDelete` shows that nothing else makes a count drift, and
  `CountNeverOverstates` that it only drifts down. `ApartCountsExact` is the converse: as
  long as no two requests delete the same version at once the count is exact.
* **An update of nothing** (`catalog_update_gone`). `UpdateService` means to answer
  "does not exist" when the row is deleted after its check (comment at `ops` 226),
  through an error that gorm does not return for an UPDATE. It answers 200. It takes the
  deletion of that service between the check and the UPDATE (`ApartUpdatesTruthful`).
* **A lost signal** (`view_sync_lost_signal`). A change that is committed and
  signalled while a requested refresh runs is neither in the view nor flagged
  afterwards. It shows at the next change or at the scheduled sync, up to half an
  hour later. `CoverageLostOnlyByRace` shows that this race and a lost reply are the
  only ways for a stale view to be left without a coming refresh, and
  `StaleUnnoticedOnlyByRace` says so of the whole service. Without the two no signal is
  ever lost (`ApartSignalsSeen`).

* **A shutdown that does not wait** (`lifecycle_graceful`). `main` cancels the
  context (`cmd/main.go` 113) that it then passes to `Shutdown` (115), which
  returns at once, with an error that is logged, over the requests under way.

Four more came up and are in the models without a run of their own:

* The query of the default listing names no order, although a comment (`hnd` 191)
  says that it is by the date of the configuration: an UPDATE moves its row in the
  table and in the listing (`StoredIn` of `Listing`). `SweepMissesFew` says what a
  client that reads page after page may lose by it: one row for each such write.
* `Updates` with a struct leaves a description as it was when it is updated to the
  empty string (`UpdatedField`; the response shows the empty one).
* The product of a page and a size that exceeds an int wraps to a negative offset,
  which gorm leaves out of the statement, so that a page far beyond the end is
  answered with the first rows (`Wrap`, `Select`). `PageExact` says that up to the
  largest int the answer is right.
* `ChangePassword` and `UpdateUser` of the users answer an update of nothing as
  `UpdateService` does (comments at `user/operations.go` 112 and 182).

## 5. Theorems

All hold for any finite or infinite set of requests and names, any workload and any
bounds, from the assumptions named in the modules: `TagsAssumption` (tags are a
finite set, so that versions can be counted), `NullAssumption` and
`EmptyAssumption` (`Null` and the empty string are none of the data),
`BoundAssumption`, `WorkloadAssumption`, `MaxOpenConnAssumption` (the pool has a
connection; zero would be a pool without a limit), `MaxRowsAssumption` (a table has at
most half as many rows as there are ints), `PagesAssumption`, `SizesAssumption`, `MaxMovedAssumption`, `InitialContentAssumption` in `ViewSync`, and
`DefaultRolesAssumption` in `Migration` (there is a default role, and none is called
like a table).

**ServiceCatalogProofs.** The inductive invariant is

    IInv == TypeOK /\ FreshIds /\ NoOrphanVersions /\ CountNeverOverstates

* `FreshIds` (an id not yet handed out has no row) is what makes an INSERT write
  over nothing; `NoOrphanVersions` and `FreshIds` together make a new service's
  count of zero right.
* `CountNeverOverstates` is inductive with them: an insert adds one row and one to
  the count, a delete removes at most one row and always one from the count, so the
  difference between versions and count never falls.
* Each write has a lemma that says what it makes of the row and of the versions of
  one service (`Effect`), from which the counts, the drift and the orphans follow.
* From `IInv`: `TypeCorrect`, `CountsNeverOverstate`, `OrphansNever`,
  `DeletionFinal`, and `DriftConfined` (an exact count becomes inexact only in a
  delete of a version that is gone).
* `NamesStayUnique` adds `NamesUnique` to the invariant; only the unique key is
  used, not the check before it.
* `ApartCountsExact`: the count is exact as long as no two requests delete the same version
  at once (`DeletesApart`), in any concurrency of all else. The strengthening,
  `DeleteOnTrack`, is that a delete about to write finds its version, unless the whole
  service is gone (`VersionLost` names the writes that can take a version away). With at
  most one element in `Requests` the condition always holds (`SerialCountsExact`).
* `ApartUpdatesTruthful`: likewise, an update answered with success has found its service,
  as long as nobody deletes that service at the same time (`UpdateOnTrack`).
* `CatalogueImplemented` is the refinement of `Catalogue`, by cases on the steps of a
  request. Its invariant adds `OnPaths`: a request is at a step that its operation
  has. A check maps to a stutter or to a refusal that is so at that moment; a read to
  `Perform` or a refusal; a write to `Perform`; a `DELETE` that finds nothing to the
  removal of what is gone.

**CatalogTransactionsProofs.** A statement in the middle of a transaction changes
nothing that is committed, so what has to be shown is that the last statement finds
the tables as the first ones left them. The invariant says, for each request, what its
transaction holds (`Held`), how far it is and which versions stand or are gone
(`Progress`, `Stands`), and for each two, that they do not hold the same
(`Apart`). From it `TransactionsImplementCatalog`, and with the theorems above
`TransactionsKeepCatalog` and `TransactionsServeClients`.

In `DeadlocksAtConstraints` a request that stops another and is at no constraint is about
to take the row of its service (`BlockerHolds`). There it waits for one at a constraint, or
for an insert about to add to the count, which again waits for one at a constraint only; so
every cycle has such a request (`OneAtConstraint`). At the key the request has the row
(`RowHeld`). Who holds a version that it looks for is not adding it, since that takes the
row's key-share lock first (`Apart`), nor another `DeleteService` at its key, which would
have this row (`RowsTaken`, for which ids are handed out once: `DeletesKnown`). It is a
deletion that wants the row next, and the two are a deadlock by themselves
(`AtReferences`). If none is at the key, whoever is at the index waits for another one there
(`AtName`).

`NoDeadlockThroughPool`: whoever stops another has a connection. `WaitingEnds` puts the
two together with the size of the pool (`PoolInv`): those who have connections can go on,
unless each of them waits for another of them, which is a deadlock.

**ViewSyncProofs.** `RequestHoldsFlag` (a requested refresh runs with the flag
raised) strengthens `TypeOK`: a requested refresh that fails goes back to the
`select` with no refresh coming, and is covered because the flag is still up. From
it `TypeCorrect` and `CoverageLossConfined`. `ApartSignalsSeen` needs one more: while
the goroutine has read the table for a requested refresh and the flag is not down yet, what
it read is all there is, or there is a writer yet to signal (`Noticed`).
`GoroutineImplemented` is the refinement of `ViewGoroutine`, by cases on the statements of
`sync`.

**ServiceSystemProofs.** `SystemImplementsCatalog` carries every safety theorem of
the catalogue over to the composed system (`SystemCountsNeverOverstate` is one), and
with `CatalogueImplemented` the promise to its clients (`SystemServesClients`).
`SystemImplementsViewSync` is the refinement for every instance, by cases on the
steps of a request. Its invariant is the catalogue's `TypeOK`. `SystemStaleConfined`
goes through the steps once more: a commit leaves its request a writer that has still to
signal, unless its reply is lost, and only `SyncClearsFlag` lowers the flag with the
process going on.

**LifecycleProofs.** `WaitGroupCounts` (the counter is the number of goroutines
that started and did not return) and `StartOrder` (which goroutines have started,
by where `main` is) strengthen `TypeOK`; `StopOrder` adds what `main` has done when it
comes to `wg.Wait`, for `WaitsNotInVain`. They give `TypeCorrect`, so `Done` never
takes the counter below zero, and `ExitIsLast`: at the end of `Wait` the counter is
zero, both have started, so both have returned.

**UserAccountsProofs.** `FreshIds` strengthens `TypeOK`, `EmailsUnique` and
`TemporaryFlagExact`; a lemma (`Effect`) says what a step makes of one row. As with
the names of services, `EmailsStayUnique` uses the unique key only.
`FlagStaysExact` and `DeletionFinal` follow row by row. `PowerIsHandedOn` is about one
step from any state of the right types: without a token of an admin no operation
behind `AdminOnly` is begun, no other makes an admin, and a login gives a token the
role of a row. `AccountsImplemented` is the refinement of `Accounts`, from the same
invariant and the operations that come by each step (`OnPaths`). A password change
acts on a set of rows in the code (those with the email) and on one account in
`Accounts`: `EmailsUnique` says that they are the same.

**MigrationProofs.** What a migrator has passed has been made and stays made (`Seen`,
`Progress`), and a role is there only if everything else is (`RolesLast`). From it
`DoneIsComplete`, `ServingIsMigrated` and `LateStartsKnowRoles`.

**ListingProofs.** `PageForward` and `PageInverted` say that the windows of the code are
the pages of the definition, for any sequence of rows, by the arithmetic of quotient
and rest (`LastPageRest`). `PagesPartition` adds that these pages, of any size and in
either direction, have each row of a table on exactly one of them. `PagesExact` follows
from the types.

`SweepsMissFew` is about a table that changes under the reader. The rows not yet read are
those stored in a window, from `Low` to `High`: behind the pages so far, or before them
when they are counted from the end. The invariant (`Accounted`) is that the rows of the
start that are outside of it were seen, all but one for each write that moved rows. For a
read this is what the window of the next page says (`ForwardReads`, `InvertedReads`),
whatever the table has become since the count. For a write, the rows it brings across a
border of the window are counted (`Crossing`): an insertion pushes one row out, a deletion
draws one out over the lower border, and an UPDATE, which is both, brings only one, its own
row or another, since what the one half shifts the other shifts back. Pages counted from
the end, over a table that has become shorter than the count said, may hold less than they
promise; the deletions that made it shorter pay for that (`Short`). `SweepsMissNothing` is
the case without such writes.

**Checked by TLC only**: the liveness properties (fairness is out of the prover's
reach: `ViewCatchesUp`, `ShutdownCompletes`, `StopEndsProcess`, `RequestsEnd`,
`StaleTokensLapse`, `MigrationCompletes`, `GoroutineIsFair`), and the properties that the
code violates. `VersionCountExact` is violated in `catalog_drift` and proved for requests that do not
delete the same version at once (`ApartCountsExact`).

## 6. Not modelled, and the plan

The compositions that the plan foresaw are done: catalogue and view (`ServiceSystem`),
transactions and catalogue (`CatalogTransactions`), process and view goroutine
(`ViewGoroutine`).

Left out for good: configuration, formatting, hashing and token encoding (pure
functions or cryptography), the mocks. `fetchUserRoles` only reads a table that
nobody but the migration writes.
