----------------------------- MODULE AssetStore -----------------------------
(***************************************************************************)
(* The assets table of one organization under concurrent sessions: API     *)
(* requests (POST, PATCH and DELETE of an asset, POST mark-stale), chunks  *)
(* of bulk imports, and the hourly job of each API process's scheduler.    *)
(* A session is one transaction at READ COMMITTED: a statement that        *)
(* updates a row waits while another session holds it, then works on the   *)
(* version that one committed and evaluates its WHERE clause again.        *)
(***************************************************************************)
EXTENDS Integers, Sequences, FiniteSets, AssetMerge

CONSTANTS
    Session,    \* database sessions
    Key,        \* natural keys of assets
    Request,    \* what sessions may be asked to do
    Threshold,  \* age at which an unseen asset goes stale
    MaxTime,    \* bound: the clock stops here
    MaxTxn      \* longest life of a transaction

SeenRecord == [key : Key, status : AssetStatus, tags : SUBSET Tag, meta : Metadata]
PatchFields == [status : AssetStatus] \cup [tags : SUBSET Tag]
               \cup [status : AssetStatus, tags : SUBSET Tag]

Upserts  == [kind : {"upsert"}, recs : Seq(SeenRecord) \ {<< >>}]   \* POST /assets (one
                                            \* record), or a chunk of a bulk import
Patches  == [kind : {"patch"}, key : Key, set : PatchFields]        \* PATCH /assets/{id}
Archives == [kind : {"archive"}, key : Key]                         \* DELETE /assets/{id}
Sweeps   == [kind : {"sweep"}]              \* POST /assets/mark-stale, or the scheduler

Row == [id : Session \X (0..MaxTime) \X Key, status : AssetStatus, tags : SUBSET Tag,
        meta : Metadata, first : 0..MaxTime, last : 0..MaxTime]

ASSUME TimeAssumption == Threshold \in Nat /\ MaxTime \in Nat /\ MaxTxn \in Nat
ASSUME RequestAssumption ==
    \A r \in Request : r \in Upserts \/ r \in Patches \/ r \in Archives \/ r \in Sweeps
ASSUME NoRowAssumption == NoRow \notin Row

VARIABLES
    clock,      \* time
    assets,     \* assets[k]: the committed row under key k, or NoRow
    at,         \* at[s]: where session s is
    req,        \* req[s]: what it is doing
    todo,       \* todo[s]: its remaining records, or rows still to visit
    began,      \* began[s]: start of its transaction, PostgreSQL's NOW()
    stamp,      \* stamp[s]: upsert's now, read before the statement runs
    tx,         \* tx[s]: its uncommitted rows; the domain is what it locks
    sighted     \* history: latest committed last_seen of each key ever

vars == <<clock, assets, at, req, todo, began, stamp, tx, sighted>>

NoTx == << >>
Idle == [kind |-> "none"]

Init ==
    /\ clock = 0
    /\ assets = [k \in Key |-> NoRow]
    /\ at = [s \in Session |-> "idle"]
    /\ req = [s \in Session |-> Idle]
    /\ todo = [s \in Session |-> << >>]
    /\ began = [s \in Session |-> 0]
    /\ stamp = [s \in Session |-> 0]
    /\ tx = [s \in Session |-> NoTx]
    /\ sighted = [k \in Key |-> 0]

-----------------------------------------------------------------------------
\* Mutation of Free: rows are not locked.
FreeAlways(s, k) == TRUE

Free(s, k) == \A q \in Session \ {s} : k \notin DOMAIN tx[q]
RowSeenBy(s, k) == IF k \in DOMAIN tx[s] THEN tx[s][k] ELSE assets[k]
Write(s, k, row) == tx' = [tx EXCEPT ![s] = Put(@, k, row)]
Goto(s, label) == at' = [at EXCEPT ![s] = label]

\* The session is handed back; what it wrote and did not commit is gone.
End(s) ==
    /\ at' = [at EXCEPT ![s] = "idle"]
    /\ req' = [req EXCEPT ![s] = Idle]
    /\ todo' = [todo EXCEPT ![s] = << >>]
    /\ began' = [began EXCEPT ![s] = 0]
    /\ stamp' = [stamp EXCEPT ![s] = 0]
    /\ tx' = [tx EXCEPT ![s] = NoTx]

\* The first statement of a request (get_current_user's SELECT of the user,
\* in the same session) starts the transaction.
Begin(s, r) ==
    /\ at[s] = "idle"
    /\ req' = [req EXCEPT ![s] = r]
    /\ began' = [began EXCEPT ![s] = clock]
    /\ todo' = [todo EXCEPT ![s] = IF r.kind = "upsert" THEN r.recs ELSE << >>]
    /\ Goto(s, CASE r.kind = "upsert"  -> "stamp"
                 [] r.kind = "patch"   -> "find"
                 [] r.kind = "archive" -> "find"
                 [] r.kind = "sweep"   -> "scan")
    /\ UNCHANGED <<clock, assets, stamp, tx, sighted>>

\* upsert: now = datetime.now(utc), in Python.
TakeStamp(s) ==
    /\ at[s] = "stamp"
    /\ stamp' = [stamp EXCEPT ![s] = clock]
    /\ Goto(s, "upsert")
    /\ UNCHANGED <<clock, assets, req, todo, began, tx, sighted>>

FirstSeen(s, rec) ==
    [id |-> <<s, stamp[s], rec.key>>, status |-> rec.status, tags |-> rec.tags,
     meta |-> rec.meta, first |-> stamp[s], last |-> stamp[s]]

\* upsert: the statement itself, once the row is free.
UpsertRow(s) ==
    LET rec == Head(todo[s])
        old == RowSeenBy(s, rec.key)
    IN /\ at[s] = "upsert"
       /\ Free(s, rec.key)
       /\ Write(s, rec.key, IF old = NoRow THEN FirstSeen(s, rec)
                            ELSE [Merged(old, rec) EXCEPT !.last = stamp[s]])
       /\ todo' = [todo EXCEPT ![s] = Tail(@)]
       /\ Goto(s, IF Len(todo[s]) > 1 THEN "stamp" ELSE "commit")
       /\ UNCHANGED <<clock, assets, req, began, stamp, sighted>>

\* _get_or_404 before PATCH reads the row; DELETE's UPDATE matches the rows
\* its snapshot has.  Neither sees a row that is not committed.
FindRow(s) ==
    /\ at[s] = "find"
    /\ IF assets[req[s].key] = NoRow
       THEN End(s)
       ELSE /\ Goto(s, "update")
            /\ UNCHANGED <<req, todo, began, stamp, tx>>
    /\ UNCHANGED <<clock, assets, sighted>>

\* Mutation of Updated: model_dump without exclude_unset, NULL for what the
\* body leaves out.
UpdatedWithNulls(row, fields) ==
    [row EXCEPT !.status = IF "status" \in DOMAIN fields THEN fields.status ELSE NoRow,
                !.tags   = IF "tags" \in DOMAIN fields THEN fields.tags ELSE {NoRow}]

\* Mutation of Updated: every column is written, tags that are left out with
\* their default.
UpdatedWithDefaults(row, fields) ==
    [row EXCEPT !.status = IF "status" \in DOMAIN fields THEN fields.status ELSE @,
                !.tags   = IF "tags" \in DOMAIN fields THEN fields.tags ELSE {}]

\* Mutation of Updated: last_seen falls back to the first sighting.
UpdatedUnseen(row, fields) ==
    [row EXCEPT !.status = IF "status" \in DOMAIN fields THEN fields.status ELSE @,
                !.tags   = IF "tags" \in DOMAIN fields THEN fields.tags ELSE @,
                !.last   = row.first]

\* UPDATE ... WHERE id: PATCH sets the columns the body names and no other,
\* DELETE sets the status.
Updated(row, fields) ==
    [row EXCEPT !.status = IF "status" \in DOMAIN fields THEN fields.status ELSE @,
                !.tags   = IF "tags" \in DOMAIN fields THEN fields.tags ELSE @]

UpdateRow(s) ==
    LET k == req[s].key
        fields == IF req[s].kind = "patch" THEN req[s].set ELSE [status |-> "archived"]
    IN /\ at[s] = "update"
       /\ Free(s, k)
       /\ Write(s, k, Updated(assets[k], fields))
       /\ Goto(s, "commit")
       /\ UNCHANGED <<clock, assets, req, todo, began, stamp, sighted>>

\* Mutation of Unseen: the clause compares first_seen.
UnseenSinceInsert(s, row) ==
    row # NoRow /\ row.status = "active" /\ row.first < began[s] - Threshold

\* mark_stale: the WHERE clause; NOW() is the time the transaction began.
Unseen(s, row) ==
    row # NoRow /\ row.status = "active" /\ row.last < began[s] - Threshold

\* The statement takes its snapshot and finds the rows to update in it ...
Scan(s) ==
    /\ at[s] = "scan"
    /\ todo' = [todo EXCEPT ![s] = {k \in Key : Unseen(s, assets[k])}]
    /\ Goto(s, "sweep")
    /\ UNCHANGED <<clock, assets, req, began, stamp, tx, sighted>>

\* Mutation of SweepRow: the rows found are updated by id, without the clause.
SweepRowUnchecked(s) ==
    /\ at[s] = "sweep"
    /\ \E k \in todo[s] :
          /\ Free(s, k)
          /\ todo' = [todo EXCEPT ![s] = @ \ {k}]
          /\ Write(s, k, [assets[k] EXCEPT !.status = "stale"])
    /\ UNCHANGED <<clock, assets, at, req, began, stamp, sighted>>

\* ... locks one after another, each in its newest version, and skips those
\* whose newest version no longer satisfies the clause.
SweepRow(s) ==
    /\ at[s] = "sweep"
    /\ \E k \in todo[s] :
          /\ Free(s, k)
          /\ todo' = [todo EXCEPT ![s] = @ \ {k}]
          /\ IF Unseen(s, assets[k])
             THEN Write(s, k, [assets[k] EXCEPT !.status = "stale"])
             ELSE UNCHANGED tx
    /\ UNCHANGED <<clock, assets, at, req, began, stamp, sighted>>

SweepDone(s) ==
    /\ at[s] = "sweep"
    /\ todo[s] = {}
    /\ Goto(s, "commit")
    /\ UNCHANGED <<clock, assets, req, todo, began, stamp, tx, sighted>>

Commit(s) ==
    /\ at[s] = "commit"
    /\ assets' = Overlay(assets, tx[s])
    /\ sighted' = [k \in Key |->
                      IF k \in DOMAIN tx[s] /\ tx[s][k].last > sighted[k]
                      THEN tx[s][k].last ELSE sighted[k]]
    /\ End(s)
    /\ UNCHANGED clock

\* An exception in the handler, a deadlock, a lost connection or a dead
\* process: get_db (or the closing session) rolls back.
Rollback(s) ==
    /\ at[s] # "idle"
    /\ End(s)
    /\ UNCHANGED <<clock, assets, sighted>>

\* Time passes; no transaction lives longer than MaxTxn.
Tick ==
    /\ clock < MaxTime
    /\ \A s \in Session : at[s] # "idle" => clock + 1 - began[s] <= MaxTxn
    /\ clock' = clock + 1
    /\ UNCHANGED <<assets, at, req, todo, began, stamp, tx, sighted>>

-----------------------------------------------------------------------------
Step(s) ==
    \/ TakeStamp(s) \/ UpsertRow(s) \/ FindRow(s) \/ UpdateRow(s)
    \/ Scan(s) \/ SweepRow(s) \/ SweepDone(s) \/ Commit(s)

Next ==
    \/ Tick
    \/ \E s \in Session :
          \/ \E r \in Request : Begin(s, r)
          \/ Step(s)
          \/ Rollback(s)

Spec == Init /\ [][Next]_vars

-----------------------------------------------------------------------------
(* Properties.                                                             *)

Label == {"idle", "stamp", "upsert", "find", "update", "scan", "sweep", "commit"}

\* What a session at label a works on: request r, the rest w of it, rows t.
SessionOK(a, r, w, t) ==
    /\ a \in {"find", "update"} => r \in Patches \cup Archives
    /\ a \in {"stamp", "upsert"} => r \in Upserts /\ w \in Seq(SeenRecord) \ {<< >>}
    /\ a = "scan" => r \in Sweeps
    /\ a = "sweep" => r \in Sweeps /\ w \in SUBSET Key
    /\ Partial(t, Key, Row)

\* Type invariant: committed and uncommitted rows, clock and stamps.
TypeOK ==
    /\ clock \in 0..MaxTime
    /\ assets \in [Key -> Row \cup {NoRow}]
    /\ at \in [Session -> Label]
    /\ DOMAIN req = Session /\ DOMAIN todo = Session /\ DOMAIN tx = Session
    /\ \A s \in Session : SessionOK(at[s], req[s], todo[s], tx[s])
    /\ began \in [Session -> 0..MaxTime]
    /\ stamp \in [Session -> 0..MaxTime]
    /\ sighted \in [Key -> 0..MaxTime]

Sweeping(s, k) == req[s].kind = "sweep" /\ k \in DOMAIN tx[s]

\* Whatever commits between the moment mark_stale finds a row and the moment
\* it commits, it only takes rows that are still active and still unseen: it
\* never makes an archived asset stale, nor one that an upsert has just seen
\* (repository.mark_stale, mark_all_stale against upsert, DELETE and PATCH).
SweepOnlyUnseen ==
    \A s \in Session, k \in Key : Sweeping(s, k) => Unseen(s, assets[k])

\* An upsert stamps last_seen before it waits for the row, so last_seen can go
\* back; but never by more than the longest transaction, ...
LastSeenLags ==
    \A k \in Key : assets[k] # NoRow => assets[k].last >= sighted[k] - MaxTxn

\* ... and therefore an asset goes stale at most that much too early.
StaleNotTooEarly ==
    \A s \in Session, k \in Key :
        Sweeping(s, k) => sighted[k] < began[s] - Threshold + MaxTxn

Patching(fields) ==
    \E s \in Session : /\ at[s] = "commit" /\ at'[s] = "idle"
                       /\ req[s].kind = "patch" /\ fields \cap DOMAIN req[s].set # {}

\* Imports and status changes never take a tag or a metadata key away, and
\* keep identity and first_seen: only a PATCH that names tags replaces tags,
\* and a PATCH of the status does not write back the tags it read.
NothingLost ==
    [][\A k \in Key : assets[k] # NoRow =>
          /\ assets'[k] # NoRow
          /\ assets'[k].id = assets[k].id /\ assets'[k].first = assets[k].first
          /\ DOMAIN assets[k].meta \subseteq DOMAIN assets'[k].meta
          /\ assets[k].tags \subseteq assets'[k].tags \/ Patching({"tags"})]_vars

Seen(k) ==
    \E s \in Session : /\ at[s] = "commit" /\ at'[s] = "idle"
                       /\ req[s].kind = "upsert" /\ k \in DOMAIN tx[s]

\* An archived asset comes back only by an upsert as active or by a PATCH of
\* the status; no sweep and no other import moves it, whatever it raced with.
ArchiveHolds ==
    [][\A k \in Key :
          assets[k] # NoRow /\ assets[k].status = "archived" =>
              \/ assets'[k].status = "archived"
              \/ Seen(k) /\ assets'[k].status = "active"
              \/ Patching({"status"})]_vars
=============================================================================
