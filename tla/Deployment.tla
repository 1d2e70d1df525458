---------------------------- MODULE Deployment ----------------------------
(***************************************************************************)
(* Containers over one database: the app containers, whose entrypoint runs *)
(* alembic upgrade head and then the server with its startup and shutdown, *)
(* import workers, which wait for no migration, and an operator who takes  *)
(* revisions back while the app is down.  All of them run this release.    *)
(*                                                                         *)
(* A migration is one transaction.  It changes one table after the other   *)
(* and locks it exclusively from its first change on; the statements of    *)
(* other transactions share their tables until they commit, and queue      *)
(* behind a migration that waits for a table.  A schema is, per table, the *)
(* columns, keys and indexes that the second revision or the ORM name;     *)
(* the columns every revision has are left out.                            *)
(***************************************************************************)
EXTENDS Integers, Sequences

CONSTANTS
    App,            \* app containers
    Worker,         \* worker processes
    Operator,
    Seed,           \* SEED_ON_STARTUP
    MaxCrashes,     \* bound: crashes and failed checks
    MaxDowngrades   \* bound: migrations of the operator

ASSUME ActorAssumption == App \cap Worker = {} /\ Operator \notin App \cup Worker
ASSUME SeedAssumption == Seed \in BOOLEAN
ASSUME BoundsAssumption == MaxCrashes \in Nat /\ MaxDowngrades \in Nat

Table == {"organizations", "users", "assets", "asset_relationships", "import_jobs"}
Migrator == App \cup {Operator}
Client == App \cup Worker

-----------------------------------------------------------------------------
(* The revisions, as changes of one table each, in the order of the code.  *)

Change(table, drop, add) == [table |-> table, drop |-> drop, add |-> add]

\* 0001, upgrade.  Its enum types are left out: it makes those that are missing
\* (lines 21-29), the downgrade drops those that are there (124-128), and two
\* migrations meet at them as they do at the first table.
Initial == <<
    Change("organizations", {}, {"table", "uq_org_slug", "ix_org_slug"}),
    Change("users", {}, {"table", "uq_user_email", "ix_user_org", "ix_user_email"}),
    Change("assets", {}, {"table", "uq_asset_org_type_value", "ix_asset_org_id",
        "ix_asset_org_type", "ix_asset_org_status", "ix_asset_org_last_seen",
        "ix_asset_tags_gin", "ix_asset_metadata_gin"}),
    Change("asset_relationships", {}, {"table", "uq_relationship_org_src_tgt_type",
        "ix_rel_org", "ix_rel_source", "ix_rel_target"}),
    Change("import_jobs", {}, {"table", "ix_job_org", "counts nullable"}) >>

\* 0001, downgrade: drop_table, whatever the table has.
Everything == {"everything"}
InitialDown == <<
    Change("import_jobs", Everything, {}), Change("asset_relationships", Everything, {}),
    Change("assets", Everything, {}), Change("users", Everything, {}),
    Change("organizations", Everything, {}) >>

\* cfffe424545e, upgrade
UpdatedAt == <<
    Change("asset_relationships",
        {"ix_rel_org"}, {"updated_at", "ix_asset_relationships_org_id"}),
    Change("assets", {"ix_asset_org_id"}, {"updated_at", "ix_assets_org_id"}),
    Change("import_jobs",
        {"counts nullable", "ix_job_org"}, {"updated_at", "ix_import_jobs_org_id"}),
    Change("organizations",
        {"ix_org_slug", "uq_org_slug"}, {"updated_at", "unique ix_organizations_slug"}),
    Change("users", {"ix_user_email", "ix_user_org", "uq_user_email"},
        {"updated_at", "unique ix_users_email", "ix_users_org_id"}) >>

\* Mutation of UsersDown: the unique key of 0001 is not put back.
UsersDownWithoutKey == Change("users",
    {"ix_users_org_id", "unique ix_users_email", "updated_at"},
    {"ix_user_org", "ix_user_email"})

UsersDown == Change("users",
    {"ix_users_org_id", "unique ix_users_email", "updated_at"},
    {"uq_user_email", "ix_user_org", "ix_user_email"})

\* cfffe424545e, downgrade
UpdatedAtDown == <<
    UsersDown,
    Change("organizations", {"unique ix_organizations_slug", "updated_at"},
        {"uq_org_slug", "ix_org_slug"}),
    Change("import_jobs", {"ix_import_jobs_org_id", "updated_at"},
        {"ix_job_org", "counts nullable"}),
    Change("assets", {"ix_assets_org_id", "updated_at"}, {"ix_asset_org_id"}),
    Change("asset_relationships", {"ix_asset_relationships_org_id", "updated_at"},
        {"ix_rel_org"}) >>

\* What the ORM classes declare: those of auth, and with them all.
DeclaredAccounts == [
    organizations |-> {"unique ix_organizations_slug"},
    users         |-> {"unique ix_users_email", "ix_users_org_id"}]

Declared == [t \in Table |->
    {"table", "updated_at"} \cup
    CASE t \in {"organizations", "users"} -> DeclaredAccounts[t]
      [] t = "assets" -> {"uq_asset_org_type_value", "ix_assets_org_id",
            "ix_asset_org_type", "ix_asset_org_status", "ix_asset_org_last_seen",
            "ix_asset_tags_gin", "ix_asset_metadata_gin"}
      [] t = "asset_relationships" -> {"uq_relationship_org_src_tgt_type",
            "ix_asset_relationships_org_id", "ix_rel_source", "ix_rel_target"}
      [] t = "import_jobs" -> {"ix_import_jobs_org_id"}]

\* What revision 0001 makes of an empty database.
Released == [t \in Table |->
    Initial[CHOOSE i \in DOMAIN Initial : Initial[i].table = t].add]

Empty == [t \in Table |-> {}]

\* A change fails if what it adds is there, or what it drops is not.
Applies(c, objects) ==
    IF c.drop = Everything THEN objects # {}
    ELSE c.drop \subseteq objects /\ c.add \cap objects = {}
Applied(c, objects) ==
    IF c.drop = Everything THEN {} ELSE (objects \ c.drop) \cup c.add

\* Tables in the order in which the statements of a transaction lock them, an
\* INSERT together with the tables its foreign keys name.
Tables == [
    none    |-> <<>>,
    request |-> <<"users", "assets", "organizations">>,
    sweep   |-> <<"assets">>,
    seed    |-> <<"organizations", "assets">>,
    chunk   |-> <<"assets", "organizations">>,
    relate  |-> <<"asset_relationships", "organizations", "assets">>,
    sync    |-> <<"import_jobs">>]

VARIABLES
    schema,     \* schema[t]: what table t has, committed
    version,    \* alembic_version, committed
    pc,         \* pc[m]: where a container, or the operator, is
    plan,       \* plan[m]: the changes m's migration still has to make
    draft,      \* draft[m]: tables m's open migration has locked and changed
    work,       \* work[x]: the kind of transaction x has open
    at,         \* at[x]: position in its tables; the ones before are locked
    crashes, downgrades

migration == <<schema, version, plan, draft>>
traffic == <<work, at>>
vars == <<migration, pc, traffic, crashes, downgrades>>

\* The database of an earlier release, or an empty one.
Init ==
    /\ version \in {"base", "0001"}
    /\ schema = IF version = "base" THEN Empty ELSE Released
    /\ pc = [m \in Migrator |-> "down"]
    /\ plan = [m \in Migrator |-> <<>>]
    /\ draft = [m \in Migrator |-> [t \in {} |-> {}]]
    /\ work = [x \in Client |-> "none"] /\ at = [x \in Client |-> 1]
    /\ crashes = 0 /\ downgrades = 0

-----------------------------------------------------------------------------
(* Locks.                                                                  *)

Shares(x, t) == \E i \in 1..(at[x] - 1) : Tables[work[x]][i] = t

\* The statement a migration has issued, and waits with if it must.
Asks(m, t) == pc[m] = "migrate" /\ plan[m] # <<>> /\ Head(plan[m]).table = t

MigratorWaitsFor(m) ==
    IF pc[m] # "migrate" \/ plan[m] = <<>> THEN {}
    ELSE LET t == Head(plan[m]).table
         IN {x \in Client : Shares(x, t)} \cup {n \in Migrator \ {m} : t \in DOMAIN draft[n]}

\* A table nobody has committed is not waited for: the statement fails.
ClientWaitsFor(x) ==
    IF at[x] > Len(Tables[work[x]]) THEN {}
    ELSE LET t == Tables[work[x]][at[x]]
         IN {m \in Migrator : schema[t] # {} /\ (t \in DOMAIN draft[m] \/ Asks(m, t))}

\* A container both migrates and serves, but not at the same time.
WaitsFor(x) ==
    IF x \in Migrator /\ pc[x] = "migrate" THEN MigratorWaitsFor(x) ELSE
    IF x \in Client THEN ClientWaitsFor(x) ELSE {}

Blocked == {x \in Migrator \cup Client : WaitsFor(x) # {}}

\* Everyone in S waits for someone in S; nobody merely waits for a deadlock.
Waiting(S) == S # {} /\ \A x \in S : WaitsFor(x) \cap S # {}
Deadlocked(S) == Waiting(S) /\ \A x \in S : ~Waiting(S \ {x})

-----------------------------------------------------------------------------
(* Migrations.                                                             *)

Goto(m, where) == pc' = [pc EXCEPT ![m] = where]

Abandoned(m) ==
    /\ plan' = [plan EXCEPT ![m] = <<>>]
    /\ draft' = [draft EXCEPT ![m] = [t \in {} |-> {}]]

\* Mutation of Upgrade: the revision after the base is always run.
UpgradeBlindly(v) == IF v = "base" THEN Initial \o UpdatedAt ELSE UpdatedAt

\* alembic upgrade head, from the version read.
Upgrade(v) ==
    CASE v = "base" -> Initial \o UpdatedAt
      [] v = "0001" -> UpdatedAt
      [] v = "head" -> <<>>

\* The container starts; alembic opens its transaction and reads the version.
Boot(a) ==
    /\ pc[a] = "down" /\ pc[Operator] = "down"
    /\ Goto(a, "migrate")
    /\ plan' = [plan EXCEPT ![a] = Upgrade(version)]
    /\ UNCHANGED <<schema, version, draft, traffic, crashes, downgrades>>

\* alembic downgrade -1, with the app containers stopped.
Downgrade ==
    /\ \A m \in Migrator : pc[m] = "down"
    /\ version # "base"
    /\ downgrades < MaxDowngrades
    /\ downgrades' = downgrades + 1
    /\ Goto(Operator, "migrate")
    /\ plan' = [plan EXCEPT ![Operator] = IF version = "head" THEN UpdatedAtDown ELSE InitialDown]
    /\ UNCHANGED <<schema, version, draft, traffic, crashes>>

\* The statements that change the next table, the first of which locks it.
\* They fail if another migration has made the change in the meantime: the
\* transaction is rolled back and the container exits.
Migrate(m) ==
    LET c == Head(plan[m])
        now == IF c.table \in DOMAIN draft[m] THEN draft[m][c.table] ELSE schema[c.table]
    IN /\ pc[m] = "migrate" /\ plan[m] # <<>>
       /\ MigratorWaitsFor(m) = {}
       /\ IF Applies(c, now)
          THEN /\ plan' = [plan EXCEPT ![m] = Tail(@)]
               /\ draft' = [draft EXCEPT ![m] =
                     [t \in DOMAIN draft[m] \cup {c.table} |->
                        IF t = c.table THEN Applied(c, now) ELSE draft[m][t]]]
               /\ UNCHANGED pc
          ELSE Abandoned(m) /\ Goto(m, "down")
       /\ UNCHANGED <<schema, version, traffic, crashes, downgrades>>

\* alembic_version is written and everything committed at once.
CommitMigration(m) ==
    /\ pc[m] = "migrate" /\ plan[m] = <<>>
    /\ schema' = [t \in Table |-> IF t \in DOMAIN draft[m] THEN draft[m][t] ELSE schema[t]]
    /\ version' = IF m \in App THEN "head"
                  ELSE IF version = "head" THEN "0001" ELSE "base"
    /\ Abandoned(m)
    /\ Goto(m, IF m \in App THEN "connect" ELSE "down")
    /\ UNCHANGED <<traffic, crashes, downgrades>>

-----------------------------------------------------------------------------
(* The server: lifespan.                                                   *)

Open(x, kind) ==
    /\ work' = [work EXCEPT ![x] = kind]
    /\ at' = [at EXCEPT ![x] = 1]

\* SELECT 1, PING, start_scheduler, and seed_sample_data if it is asked for.
Connect(a) ==
    /\ pc[a] = "connect"
    /\ IF Seed
       THEN Goto(a, "seed") /\ Open(a, "seed")
       ELSE Goto(a, "serving") /\ UNCHANGED traffic
    /\ UNCHANGED <<migration, crashes, downgrades>>

\* The samples are committed, or there is no organization to give them to.
Seeded(a) ==
    /\ pc[a] = "seed"
    /\ at[a] > 1
    /\ Goto(a, "serving")
    /\ Open(a, "none")
    /\ UNCHANGED <<migration, crashes, downgrades>>

\* A request, or the hourly sweep of the scheduler.
Accept(a, kind) ==
    /\ pc[a] = "serving" /\ work[a] = "none"
    /\ Open(a, kind)
    /\ UNCHANGED <<migration, pc, crashes, downgrades>>

\* docker compose stop: requests end first, a sweep is cancelled.
Stop(a) ==
    /\ pc[a] = "serving" /\ work[a] \in {"none", "sweep"}
    /\ Goto(a, "down")
    /\ Open(a, "none")
    /\ UNCHANGED <<migration, crashes, downgrades>>

\* The process dies, or a check of the startup raises; the container restarts.
Crash(a) ==
    /\ pc[a] # "down"
    /\ crashes < MaxCrashes
    /\ crashes' = crashes + 1
    /\ Goto(a, "down")
    /\ Abandoned(a)
    /\ Open(a, "none")
    /\ UNCHANGED <<schema, version, downgrades>>

-----------------------------------------------------------------------------
(* Transactions.                                                           *)

\* A worker takes a message; it does not ask which schema it meets.
Work(w, kind) ==
    /\ work[w] = "none"
    /\ Open(w, kind)
    /\ UNCHANGED <<migration, pc, crashes, downgrades>>

\* An error ends the transaction.  The container exits if the seeding cannot read
\* the organizations; ingest_record takes what goes wrong later for its record's.
Fails(x) ==
    /\ Open(x, "none")
    /\ IF work[x] = "seed"
       THEN Goto(x, IF at[x] = 1 THEN "down" ELSE "serving")
       ELSE UNCHANGED pc

\* The next statement: it locks its table, or fails because the table or its
\* column updated_at is missing.
Touch(x) ==
    /\ at[x] <= Len(Tables[work[x]])
    /\ ClientWaitsFor(x) = {}
    /\ IF "updated_at" \in schema[Tables[work[x]][at[x]]]
       THEN at' = [at EXCEPT ![x] = @ + 1] /\ UNCHANGED <<work, pc>>
       ELSE Fails(x)
    /\ UNCHANGED <<migration, crashes, downgrades>>

Finish(x) ==
    /\ work[x] \notin {"none", "seed"} /\ at[x] > Len(Tables[work[x]])
    /\ Open(x, "none")
    /\ UNCHANGED <<migration, pc, crashes, downgrades>>

\* The deadlock detector rolls back the operator's migration or a transaction.
DeadlockVictim(x) ==
    /\ WaitsFor(x) # {}
    /\ \E S \in SUBSET Blocked : x \in S /\ Deadlocked(S)
    /\ IF x \in Migrator /\ pc[x] = "migrate"
       THEN Abandoned(x) /\ Goto(x, "down") /\ UNCHANGED traffic
       ELSE Fails(x) /\ UNCHANGED <<plan, draft>>
    /\ UNCHANGED <<schema, version, crashes, downgrades>>

-----------------------------------------------------------------------------
Next ==
    \/ \E a \in App :
          \/ Boot(a) \/ Connect(a) \/ Seeded(a) \/ Stop(a) \/ Crash(a)
          \/ \E kind \in {"request", "sweep"} : Accept(a, kind)
    \/ Downgrade
    \/ \E m \in Migrator : Migrate(m) \/ CommitMigration(m)
    \/ \E w \in Worker, kind \in {"chunk", "relate", "sync"} : Work(w, kind)
    \/ \E x \in Client : Touch(x) \/ Finish(x)
    \/ \E x \in Migrator \cup Client : DeadlockVictim(x)

Spec == Init /\ [][Next]_vars

\* restart: unless-stopped, and what the operator stops comes back; processes
\* and the database go on.
Proceed(m) ==
    Migrate(m) \/ CommitMigration(m) \/ (m \in App /\ (Boot(m) \/ Connect(m) \/ Seeded(m)))
Fairness ==
    /\ \A m \in Migrator : WF_vars(Proceed(m))
    /\ \A x \in Client : WF_vars(Touch(x) \/ Finish(x))
    /\ WF_vars(\E x \in Migrator \cup Client : DeadlockVictim(x))

FairSpec == Spec /\ Fairness

-----------------------------------------------------------------------------
(* Properties.                                                             *)

\* alembic_version tells the truth about every table, whatever crashed or
\* raced: a revision is there as a whole or not at all, its downgrade restores
\* the schema before it, and what serves or seeds meets the schema the ORM
\* classes declare.
SchemaIsWhole ==
    /\ schema = CASE version = "base" -> Empty
                  [] version = "0001" -> Released
                  [] version = "head" -> Declared
    /\ \A a \in App : pc[a] \in {"connect", "seed", "serving"} => version = "head"

\* Every container comes to serve, whoever wins the race to migrate.
ComesUp == \A a \in App : pc[a] = "down" ~> pc[a] = "serving"
=============================================================================
