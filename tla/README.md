# TLA+ models of the asset management system

This directory holds TLA+ modules, TLC configurations and TLAPS proofs about the
backend in `src/app`: a FastAPI service over PostgreSQL and Redis, with a Celery
worker for bulk imports and an hourly scheduler. Paths below are relative to the
repository.

    tlc -config MCBulkImport_crossed.cfg MCBulkImport      # one run
    tlapm AssetStoreProofs.tla                             # one module's proofs

## 1. Inventory

| Component | Source | State | Operations |
|---|---|---|---|
| Bulk import | `app/assets/router.py` 145-201, `app/jobs/` | broker queue, progress hash in Redis, `import_jobs` row, worker locals, open transactions | submit, deliver, ingest a record, commit a chunk, report, relate, finish, sync the row, poll |
| Asset store | `app/assets/repository.py`, `service.py`, `router.py` | `assets` rows | upsert (POST and imports), PATCH, DELETE (archives), mark stale |
| Lifecycle | `app/lifecycle/scheduler.py` | one job per API process | `mark_all_stale` every hour |
| Relationships | `app/assets/router.py` 230-280 | `asset_relationships` rows | create, list, delete |
| Graph | `app/graph/` | locals of one request | breadth-first subgraph, export of everything |
| Listing, statistics | `repository.py` 63-121, `app/core/pagination.py` | locals of one request | count and page, three aggregates |
| Authentication | `app/auth/` | organizations, users, refresh tokens in Redis | register, login, refresh, authenticate |
| Sessions, tenant engines | `app/database.py` | one session per request, LRU cache of engines | commit or roll back, get an engine, evict |
| AI queries | `app/ai/` | locals of one request | translate a question, list, filter; summarize |
| Migrations | `alembic/` | the schema, `alembic_version` | upgrade to head, downgrade by one |
| Application, deployment | `app/main.py`, `entrypoint.sh`, compose files | containers, the scheduler's job | migrate, check connections, seed, serve, stop |
| Validation, limits, errors, logging, configuration | `app/core/`, `app/config.py` | limiter counters | pure functions and wiring |
| Graph page | `app/static/` | none | drawing |

How they interact:

- Every request runs in one database session (`get_db`), which commits *after*
  the handler has returned, and with the installed FastAPI after the response has
  been sent; it rolls back on an exception. A client may act on an answer whose
  effect others do not see yet, and may never see.
- `bulk_import` inserts the job row in that session and sends the task before it
  commits. The worker shares nothing with the handler but the broker, Redis and
  the database.
- A worker commits once per chunk, so its row locks are held from an upsert to
  the end of the chunk. Imports, POST, PATCH, DELETE and sweeps meet on these
  locks; PostgreSQL runs at READ COMMITTED.
- `GET /jobs/{id}` reads the hash, and the row only when the hash is absent.
- Graph, listing and AI requests read in several statements while all of these
  write.
- Requests and imports meet on the unique key of `asset_relationships`: an INSERT,
  ON CONFLICT or not, waits for an open transaction that has the key.
- Every app container migrates the database before it serves; workers override the
  entrypoint and wait for nobody.

What makes it hard, with what correct means there (each is a hazard in
`PROJECT.json`, at its line):

- **Failure inside a chunk.** `ingest_record` turns every exception into an error
  of the record, a database error too, which aborts the whole transaction.
  Correct: what is counted and whose commit took effect is stored.
- **Deadlock and lock order** between imports. Correct: each chunk is one atomic
  merge, and every import is worked to its end, unless its task fails or it lost a
  chunk of its own: the victim of a deadlock keeps the ids of rows that were rolled
  back, and the foreign key then refuses a relationship with one of them.
- **At-least-once delivery.** Late acknowledgement, visibility timeout, dead
  workers. Correct: counters stay consistent and the status settles.
- **Order of commit, send, respond, poll.** Correct: a polled status never goes
  backwards except where the code gives that up.
- **Stale marking against everything else.** Correct: a sweep never overrides an
  archive or a fresh sighting.
- **Reads in several statements.** Correct: a subgraph is closed, complete and
  within reach for whatever stayed in place during the request; a walk through
  pages skips nothing that stayed put; counts relate in the order they are taken.
- **Check, then insert; get, delete, set.** Registration and the rotation of
  refresh tokens are several statements that other requests interleave with.
  Correct: organizations and admins come in pairs and unique, a rotated token
  stays spent and a session has one current token, except where two refreshes read
  a token before either deleted it, and whoever holds a token keeps the session.
- **Answer, then commit; insert without a look.** Relationships are created and
  deleted by statements whose outcome depends on transactions still open.
  Correct: what clients are told is what the table comes to hold, imports leave
  every edge of theirs, and no request is drawn into a deadlock.
- **Migrations that race.** Containers read the same version and run the same
  statements, crash in between, and meet imports on their locks. Correct: the
  schema is always a whole revision, and every container comes to serve.

## 2. Modules

| Module | Models | Notes |
|---|---|---|
| `AssetMerge` | the row one upsert leaves | pure operators, used by the next three |
| `BulkImport` | the import pipeline end to end | composes handler, broker, worker, Redis, tables, client |
| `BulkImportProofs` | theorems of `BulkImport` about the tables, and that it implements `ChunkStore` | |
| `BulkReportProofs` | theorems of `BulkImport` about hash, job row and polls | builds on `BulkImportProofs` |
| `ChunkStore` | what the asset table promises to imports | abstract specification; `BulkImport` refines it |
| `AssetStore` | the asset table under concurrent sessions and a clock | |
| `AssetStoreProofs` | theorems of `AssetStore` | |
| `GraphQuery` | subgraph and export against writers | |
| `GraphQueryProofs` | theorems of `GraphQuery` | |
| `Auth` | registration, login, refresh over PostgreSQL and Redis | |
| `AuthProofs` | theorems of `Auth` | |
| `Listing` | pages, statistics and AI queries against writers | |
| `ListingProofs` | theorems of `Listing` | |
| `Relationships` | creating, deleting, listing relationships and the phase of imports that relates | transactions wait on the unique key and on rows |
| `RelationshipsProofs` | theorems of `Relationships` | |
| `Deployment` | entrypoint, migrations, startup, shutdown, beside workers | both revisions, table by table |
| `DeploymentProofs` | theorems of `Deployment` | |
| `MC*` | requests, batches, graphs and small sets for TLC | |

### BulkImport

An execution `<<job, n>>` is the n-th delivery of a job's message; `pc[e]` follows
`_run_bulk_import` statement by statement: `start` (first HSET), `ingest` (one
record), `commit`, `report` (progress HSET), `relate` (relationships and their
commit), `final`, `expire`, `sync` (UPDATE of the row), `return`. `imported` and
`errored` are sets of record numbers, the code's counters are their
cardinalities; `tempIds` and `pending` are `temp_id_to_uuid` and
`pending_relationships`. The hash is a function from the fields it has;
`processed` stands for `progress_pct`.

`tx[e]` holds the rows an open transaction has written, and its domain is what it
locks: an upsert waits for a holder and then merges with the version that one
committed, as READ COMMITTED does. A deadlock, or a record the server refuses,
aborts the transaction: its rows and locks go at once, later records of the chunk
become errors, and its COMMIT is a rollback that raises nothing. Records are
`good`, `invalid` (refused before any SQL) or `poison` (refused by the server).

The relationship phase is one step here: its inserts, ON CONFLICT DO NOTHING,
touch no row another step of this module changes, and assets are never deleted.
What it does row by row, beside requests and other imports, is `Relationships`. A uuid4 is the pair of the execution and the record that drew it.

Assumptions about the environment: Redis commands and PostgreSQL statements
are atomic; no record has the string `None` for its `id`, which `tasks.py` 90-93
would not tell from a record without one (`NoId \notin TempId`); all deliveries of a message carry one delivery tag, so an
acknowledgement removes the message while any worker holds it (Celery's Redis
transport); the key's 24 hours do not run out between the worker's EXPIRE and its
next statement, nor before the request that made the job has committed.

### AssetStore

A session is one request, one chunk of an import or one sweep. `Begin` starts its
transaction (`began` is PostgreSQL's `NOW()`), `stamp` is the `now` that `upsert`
reads in Python before the statement runs, the domain of `tx[s]` is what it
locks. A sweep first finds its rows in a snapshot (`Scan`), then locks them one
by one and evaluates the WHERE clause again on the newest version (`SweepRow`).
`mark_all_stale` is the same statement without the filter on the organization.
`Rollback` covers exceptions, deadlocks and lost connections.

Of PATCH, `status` and `tags` are modelled. `metadata` is not: the handler passes
it to `values()` under the name `metadata`, which on a declarative class is the
table registry and not the column, so what it does is up to SQLAlchemy's name
resolution. `source` is a plain column like the tags. `None` means "leave alone"
in the code, as an absent field does here.

### GraphQuery

One reader, and writers that commit between its SELECTs. `Skip`, `Visit` (pop and
SELECT of the asset) and `Expand` (SELECT of its relationships) are the loop of
`get_graph`; rows come in any order, since there is no ORDER BY. A writer is one
step: creating a relationship reads both assets first, but assets are never
deleted, so nothing can change between its reads and its insert. `known`,
`stable` and `ever` are history variables for the properties.

### Auth

A handler is one request. `register` is `check` (SELECT by slug), `org` and
`user` (the two INSERTs, the password is hashed between them), `commit` and
`issue` (`create_refresh_token`); `login` is `authenticate` and `issue`;
`refresh` is `get`, `delete`, `issue`, `load`, one Redis command or SELECT each.
`draft[h]` holds the rows a handler has inserted and not committed. An INSERT
waits for a row of another draft with the same slug or address and fails on a
committed one, as PostgreSQL's unique indexes make it. `Die` is any exception,
lost connection or crash between two steps, `Expire` the end of a key's time to
live. Tokens are numbered in the order they are drawn, since 64 random bytes do
not repeat. `lineage` (a token and those it replaced), `lost` (hit by a fault)
and `raced` (read by a refresh while another one had read and not yet deleted it)
are history variables. The access token is a
pure function of the user, a key and the clock and is left out, as is `/me`.

### Listing

`Count` and `Select` are the two statements of `list_assets`, `total`, `byType`
and `byStatus` the three of `get_stats`. Rows with equal sort values come in any
order, since the code sorts by one column only. An asset's type is part of its key and
therefore the constant `TypeOf`. The client, which is not part of
the repository, asks for one page after the other until one is not full. `fell`,
`left` and `came` record what commits did to the listing meanwhile.

`asks` tells what wants the listing: a client that walks, `POST /ai/query` or
`POST /ai/summarize`. The language model may choose any filter (`Translated`); the
router lists one page with it, and the condition on metadata is applied to that
page (`AnswerQuery`), whose assets a summary counts (`Summarize`). Of the
conditions, `expires` stands for all: an asset satisfies it or does not.

### Relationships

An actor is a request or the relationship phase of an import. `Create` and
`Delete` begin a request that passes its checks; `Insert` and `DeleteRow` are its
one statement that writes, `Respond` the answer, `Commit` the exit of `get_db`.
`Relate` is one `INSERT ... ON CONFLICT DO NOTHING` of an import, `CommitPhase`
its commit. `InsertWaitsFor` and `DeleteWaitsFor` are PostgreSQL's locks on the
unique key and on a row; `Die` and `LosePhase` lose a transaction at any point,
also after its answer, and `DeadlockVictim` ends an import that waits in a circle.
The SELECTs before an INSERT are part of `Create`: assets are never deleted and
users never change, so what they find stays true. `told`, `gone` and `cut` are
history variables: what was answered 201 or 204, and what was deleted while an
import was related.

### Deployment

A container is `down`, `migrate` (alembic's transaction), `connect` (the checks of
the lifespan), `seed` or `serving`. A revision is a sequence of changes, one per
table, in the order of the code (`Initial`, `UpdatedAt` and their downgrades); a
change names the columns, keys and indexes it drops and adds, and fails when they
are not as it expects. The enum types that 0001 creates before its tables (21-29)
and drops after them (124-128) are left out: they come and go in the transaction
of the tables. `draft[m]` holds the tables an open migration has changed
and therefore locks. Requests, sweeps, seeding and the transactions of workers
lock the tables of their statements one after the other (`Tables`) and fail when a
table, or the column `updated_at` every statement of this release names, is
missing. The operator's `alembic downgrade -1`, only with the app containers
stopped, is an assumption; workers go on meanwhile.

### ChunkStore

Each chunk is merged in one step, at most once per delivery, as if its records
were upserted one after another with nobody else at work; a chunk with a refused
record is never merged. `ChunksAreAtomic` is `BulkImport` refining it, with
`applied` mapped to the records of committed chunks.

## 3. Runs

| Run | Shows | Bounds |
|---|---|---|
| `crossed` | two imports lock the same assets in opposite orders: storage, edges, hash and row, refinement, and how each job ends after a deadlock | 2 jobs, 2 assets, 3 + 3 records (one invalid), chunks of 2, one delivery each, no faults |
| `redelivery` | one message delivered twice, with a refused record: counters add up, polls never go back, the job ends and its status settles | 1 job, 3 assets, 4 records, chunks of 2, 2 deliveries, 1 lost worker, 1 failing task, 1 failing API commit |
| `shared` | status, tags and times of assets under every kind of request | 2 sessions, 2 assets, clock to 3, threshold 1, transactions of at most 1 |
| `written` | subgraphs, exports, and that a request ends | 3 assets, 5 relationships (a triangle, a parallel pair, a loop), depths 1 and 2 |
| `sessions` | colliding registrations, logins, concurrent rotations; every request is answered | 2 requests at a time, 2 slugs, 2 addresses, 3 organization ids, 3 tokens, 1 fault |
| `pages` | what a walk skips, what a page promises, what an answer leaves out, how the statistics relate | 3 assets of 2 types, pages of 2, 3 values of `last_seen`, both orders, with and without filter |
| `relations` | what clients are told of relationships, what imports leave, who waits for whom | 2 requests at a time and 2 imports in opposite orders, an edge, its reverse and one into another organization, 2 creations, 1 lost transaction |
| `rollout` | the schema is whole, every container comes to serve | 2 app containers, 2 workers, an empty database or one of revision 0001, 1 crash, 1 downgrade, seeding on |

The bounds are the smallest at which the cases happen: two chunks, so that one
can commit and the next fail; two executions, enough for a deadlock and for
overlapping deliveries; a repeated key, a repeated id, a forward reference and a
dangling hint in one batch; a chunk that names rows and is the victim of a
deadlock, before another one that names none of them again, so that the
relationships meet an id without a row; two errors where one is kept; a clock that lets a row age past the threshold while
a session waits; a cycle, a pair of parallel
relationships and a loop, so that ids are queued more than once; three tokens, so
that one is drawn and rotated into two by two requests at once (forks of a later
generation are left to the theorem); three assets on
pages of two, so that a walk has a full page and a short one; two imports that
insert an edge and its reverse in opposite orders, the smallest deadlock, beside
two requests for the same edges; two containers, so that one finds the revision
made while it migrates, and two workers, so that a downgrade can meet a deadlock. `MaxErrors` (500 in the code) is 1 and `ChunkSize` (5000) is 2, so
that both limits are met. `Polled` is
the jobs whose client polls: one of the two in `crossed`, since a poll changes nothing
but what its client saw. Sessions, assets and types are symmetric where a run says so; symmetry is used
only in runs without liveness properties.

`redelivery` sets CHECK_DEADLOCK FALSE: when the POST never answers there is no
client to poll, and everything may come to rest. In the other runs a client can always poll,
or a request can always begin.

What a poll shows is only promised where the row got the result: a fast worker's
UPDATE finds no row (the finding of `synced`), and a worker that is lost or fails
before it leaves the row as it was. `MissedSync` names these cases; after one of
them the expiry of the hash takes a client back to `queued`. `StatusSettles`
exempts in addition a job of which a delivery was lost or ended by an exception
(`CutShort`), since it leaves `running` in the hash.

`EveryJobEnds` asks for an execution that came to the end of the task. It accepts
one that ended by an exception only after a failing task (`FailTask`, which in this
module also stands for a deadlock between two relationship phases) or if that
execution itself lost a chunk: in `crossed`, the victim of a deadlock whose
`temp_id_to_uuid` holds ids without rows, where the INSERT of `tasks.py:135` fails.
No retry follows, the message is acknowledged, and nothing reports it: `reported`.

`RotatedOnce` says that a token that was replaced is gone, and that a session has
two current tokens only where two refreshes had both read one of its tokens before
either deleted it. That this happens is the finding of `rotated`.

Four runs are expected to find a violation; each checks a sentence of the
repository that the code does not live up to (see `findings` in `PROJECT.json`):

| Run | Sentence | What the run shows |
|---|---|---|
| `per_record` | README.md:583, failures are per record | one refused record loses its whole chunk |
| `synced` | software_design_doc.md:143, the row is synced on completion | a fast worker updates a row that is not committed yet |
| `reported` | diagrams.md:194, an unrecoverable error makes the job failed | with no fault from outside, the victim of a deadlock ends at the foreign key; nothing writes failed, polls show running |
| `rotated` | software_design_doc.md:100, a refresh token is invalidated on use | two refreshes read a token before either deletes it (`auth/service.py` 86-89); both are answered with a valid successor |

Two more sentences of `docs/design/uml_diagrams/diagrams.md` do not hold, as a look
at the code shows without a run: a second delivery of a message sets a finished job
to running again (`tasks.py` 65-69; lines 195-196 draw done and failed as final
states), and an upsert as active reactivates an archived asset (`repository.py`
upsert; line 175 draws archived as one). And `docs/design/software_design_doc.md:205`
has `email (UNIQUE per org)`, while the column is unique over all organizations
(`auth/models.py:40`): an address cannot be registered in a second organization.
`OrgsWhole` states what the code does, which is stricter than the document.

### Fairness

`BulkImport!Fairness` is weak fairness of: the handler's end (a process that
lives responds and commits), delivery and restoring by the broker (a message that
is ready is handed out, an unacknowledged one is restored after the visibility
timeout), expiry of a key that has a time to live, each execution's next
statement, and the database's deadlock detector, which acts for *some* waiting
execution. Waiting for a lock disables the step, so weak fairness says nothing
about lock order. Nothing makes clients submit or poll, and no fault is ever
forced. Weak fairness of `Restore` is only assumed up to `MaxDeliveries`.
`GraphQuery!FairSpec` has weak fairness of the reader's next statement only.
`Auth!FairSpec` has weak fairness of each handler's next statement, which is
disabled while it waits for another one's slug or address.
`Deployment!FairSpec` has weak fairness of a container's next step, starting it
included (`restart: unless-stopped`, and what the operator stops is started
again), of the next statement or the end of an open transaction, and of the
deadlock detector for *some* victim. No container is forced to crash or stop, no
worker to take a message. `Relationships` has no fairness: nothing in it is
promised to happen.

## 4. Proofs

TLAPS checks, for every value of the constants that satisfies the named
assumptions of the modules:

| Theorem | States |
|---|---|
| `BulkImportProofs!TypeCorrect` | `Spec => []TypeOK` |
| `BulkImportProofs!ImportedAreStored` | `Spec => []ImportedStored` |
| `BulkImportProofs!DanglingNeedsLoss` | `Spec => []DanglingOnlyAfterLoss` |
| `BulkImportProofs!EdgesAreComplete` | `Spec => []EdgesComplete` |
| `BulkImportProofs!ChunksAreMerged` | `Spec => ChunksAreAtomic` (`BulkImport` implements `ChunkStore`) |
| `BulkReportProofs!CountersAddUp` | `Spec => []CountsAddUp` |
| `BulkReportProofs!HashAndRowTogether` | `Spec => []HashAndRowAgree` |
| `BulkReportProofs!PollsNeverGoBack` | `Spec => PollMonotone` (an action property) |
| `AssetStoreProofs!TypeCorrect` | `Spec => []TypeOK` |
| `AssetStoreProofs!SweepCorrect` | `Spec => []SweepOnlyUnseen` |
| `AssetStoreProofs!LagBounded` | `Spec => []LastSeenLags` |
| `AssetStoreProofs!StaleBounded` | `Spec => []StaleNotTooEarly` |
| `AssetStoreProofs!NothingIsLost` | `Spec => NothingLost` (an action property) |
| `AssetStoreProofs!ArchivedHolds` | `Spec => ArchiveHolds` (an action property) |
| `GraphQueryProofs!GraphTypes` | `Spec => []TypeOK` |
| `GraphQueryProofs!GraphClosed` | `Spec => []NoDanglingEdge` |
| `GraphQueryProofs!NothingIsOutOfReach` | `Spec => []NothingOutOfReach` |
| `GraphQueryProofs!ReachIsFound` | `Spec => []ReachFound` |
| `GraphQueryProofs!ExportsDangleOnlyToNew` | `Spec => []ExportDanglesOnlyToNew` |
| `AuthProofs!TypeCorrect` | `Spec => []TypeOK` |
| `AuthProofs!RegistrationIsWhole` | `Spec => []OrgsWhole` |
| `AuthProofs!RotationIsFinal` | `Spec => []RotatedOnce` |
| `AuthProofs!TokensAreUsers` | `Spec => []TokensNameUsers` |
| `AuthProofs!SessionIsKept` | `Spec => []SessionKept` |
| `RelationshipsProofs!TypeCorrect` | `Spec => []TypeOK` |
| `RelationshipsProofs!AnswersStand` | `Spec => []AnswersHold` |
| `RelationshipsProofs!RequestsRun` | `Spec => []RequestsNeverBlock` |
| `RelationshipsProofs!HintsStored` | `Spec => ImportsRelated` (an action property) |
| `ListingProofs!TypeCorrect` | `Spec => []TypeOK` |
| `ListingProofs!NothingIsSkipped` | `Spec => []SkipsOnlyAfterFall` |
| `ListingProofs!PagesFit` | `Spec => []PageFits` |
| `ListingProofs!AnswersAreWhole` | `Spec => []AnswerWhole` |
| `ListingProofs!StatisticsGrow` | `Spec => []StatsGrow` |
| `DeploymentProofs!SchemaIsAlwaysWhole` | `Spec => []SchemaIsWhole` |

Every safety property of the passing runs is among them. None is inductive as it
stands; what each needs besides itself is the point of its proof.

*BulkImport, tables.* `TypeInv` places each execution: an open transaction only
while it ingests or commits, every record passed counted once. `RowInv` says that
no key is locked twice, so a row under a lock is the one its holder read; that
each row of a transaction extends the committed one; that a record counted as
imported is in the table, or in the transaction if its chunk is open (`Kept`);
and that each temporary id is that of the row the last imported record with that
name made or found, wherever this row is (`IdsKnown`). An aborted chunk takes its
records out of what is stored but leaves their ids behind, as the code does, which
is exactly where dangling hints come from. `RelsInv` adds the edges.

*BulkImport implements ChunkStore.* A step that commits a chunk is one merge of
`ChunkStore`, every other step is a stutter. For the former, `ChunkInv` holds that
a chunk starts at a multiple of `ChunkSize` with nothing of it applied, that a
transaction that has not aborted took every record but those that validation
refused, and that each row it holds is what the records of the chunk so far, one
after another, make of the committed row. "One after another" is a recursive
function in `ChunkStore`; two functions that obey the same recursion agree, since
they would differ at a least number (`LeadsOnce`), and that a set of numbers has a
least one (`LeastNumber`) comes from the library's theorem on finite subsets. This
is induction in first-order form, for which no theorem with an operator parameter
is needed.

*BulkImport, reports.* `HashInv`: the counters of a hash come together; and as long
as a message was delivered once, hash, time to live and row are those of a stage
its only execution has reached. `PollInv` adds that the next poll shows no less
than the last one, in the hash or, once that is gone, in the row.

*AssetStore.* The invariant `Safe` adds that
locks are exclusive (no key is in the rows of two sessions), that the clock is
never ahead of a transaction by more than `MaxTxn` and stamps lie inside their
transaction, that a sweep's rows come from versions that still satisfy the
clause (true because the lock keeps everyone else away from the version read),
and that an uncommitted `last_seen` is no further behind `sighted` than the
transaction that waits is long. Each action is reduced to one of three effects,
moving on, writing one row or ending, and the conjuncts are proved against the
effects. `StaleBounded` then follows from the sweep clause and the lag.
The action properties need `HeldInv`: every uncommitted row is one that its
request may make of the row committed *now*, although the request read an
earlier one, so that a commit shows as what the request promises.

*GraphQuery.* `GraphInv` adds the foreign keys, that everything queued after the
root exists, that visited ids are nodes, and that both ends of every edge are
nodes or still queued. The queue is empty when the request is done, so the ends
are nodes. A root that does not exist needs its own case: nothing is queued
behind it. For reach, `WithinInv` keeps what waits within as many hops as its pair
says, along relationships that have existed. `CoverInv` is the argument of
breadth-first search: there is a hop at which each visited id was popped; hops
wait in order, at most two different ones at a time; and the neighbors, along
what was stable, of what was expanded are visited or wait by the next hop. Without
the order, an id could be visited at a late hop and not be expanded, although an
earlier hop would have had it expanded. Balls are recursive functions of the hops,
which the router bounds by `MaxDepth`, so that their equations are used one by one.
For an export, the first SELECT has every asset there was.

*Auth.* `TypeOK` needs `Budget`: what has been drawn, plus what requests under way
may still draw, is within the bounds. `RotatedOnce` has two halves. That a
replaced token is gone (`Spent`) needs that every token anything names has been
drawn before, so that a new one is none of those that were replaced, and that a
refresh has deleted the old token when it draws. That sessions fork only at races
needs `ForkInv`: while a token was not read by two refreshes at a time, whoever
rotates it is alone in doing so and nobody has replaced it yet (`RotatesAlone`).
A second refresh either finds the first between its GET and its DEL, which is the
race, or finds the key gone.
`OrgsWhole` needs the unique indexes: rows of open transactions clash neither
with each other nor with committed ones, and organization ids come in order.
`TokensNameUsers` needs that whoever a handler acts for is committed.
`SessionKept` speaks of tokens that clients have; `KeptInv` says the same of those
on their way, and that such a token succeeds what its handler replaced.

*Relationships.* The answers are about committed rows, but what keeps them is a
fact about open transactions, so the invariant `IInv` speaks of both: keys are
unique among all rows that are stored or may be (`KeyUnique`); a row is inserted
by one actor and is new, deleted by one actor and is stored (`InsertsApart`,
`DeletesApart`); an id about to be used is nobody else's (`IdsDiffer`); what was
told is stored, gone or about to be committed (`ToldKept`); and what is gone but
still stored is being committed (`GoneGoes`). The waiting on the unique key is
what preserves `KeyUnique`, and the waiting on rows what preserves `GoneGoes`.
Handlers are first reduced to what they do to the table and the transactions
(the `...Split` lemmas). `RequestsRun` needs types only: a request holds rows
when its one statement is behind it. For `HintsStored`, each hint behind an
import's position has its row in the table or in the import's own transaction, or
a deletion of it was committed meanwhile.

*Listing.* A row that nobody wrote is passed over by as many pages as there are
rows ahead of it, and rows ahead of it only become fewer by leaving, by moving
towards the end or by ties; `WalkInv` counts them: a row that is not yet returned
has at least `Offset(page)` ahead of it. `CountInv` compares the listing with the
COUNT: no row more unless one entered, none fewer unless one left. `AnswerInv`
adds that only walks go past the first page. `StatsInv` has the sets of assets
that the statements counted, each within the next; the sums over types and
statuses are their sizes (`SumIs`): the sizes solve the equation that defines the
sum, and another solution would differ on a smallest set of types.

*Deployment.* Every revision changes all five tables, and a migration holds the
tables it changed. `MigrationInv` has, for each open migration, the version it
read and how many changes it has made; while that is still the committed version,
what the migration sees is the schema of that version, changed so far. From the
first change on it is, since nobody else finishes without the table it holds. A
slower one finds tables that are not as its first change expects, and fails.

Only model-checked are the liveness properties `EveryJobEnds`, `StatusSettles`,
`RequestEnds`, `RequestsAnswered` and `ComesUp`: they rest on fairness, hence on
ENABLED, which is out of the prover's reach. The four expected violations are
counterexamples of TLC and have no proof. The proofs are about the models: what
section 5 leaves out, and the assumptions about the environment in section 2,
hold for them as they do for the runs.

## 5. Not modelled

- The LRU cache of tenant engines and `get_tenant_db` (`database.py` 73-129): no
  route uses them.
- The connection pool and its timeout: the library's. A request holds its
  connection while the language model is awaited (`ai/router.py` 50), which is
  listed as a hazard without a property.
- String rules (`sanitize_string`, sizes of metadata and tags): pure functions
  over data; the models keep only whether a record passes.
- PATCH of `metadata` and `source` (see AssetStore above).
- Prompts, the wording of summaries, and what the language model makes of a
  question beyond the filter it returns. `metadata.expires` of a type that does
  not compare with a date fails the request and changes nothing.
- Middleware, health endpoint, rate limits, logging, configuration, the graph
  page, images and CI: no state of their own, I/O, or configuration.
- Two API processes running the hourly job at once are two sweeps, which
  `AssetStore` has.
- The status code of a request that loses a race on a unique key (500 instead of
  409); what the tables hold afterwards is modelled.

## 6. Plan

Done: the import pipeline, the asset store, graph reads, authentication, listings
and AI queries, relationships, migrations and startup, and theorems for every
safety property the runs check. What is left:

1. Lemmas behind liveness that need no fairness: a measure that each step of the
   reader of `GraphQuery`, or of an execution of `BulkImport`, lowers and nobody
   else raises.
2. That `Relationships` implements the one-step relationship phase that
   `BulkImport` has, and the atomic creation that `GraphQuery` has.
3. The cache of tenant engines, should a route come to use it.
