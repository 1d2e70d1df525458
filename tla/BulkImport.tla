----------------------------- MODULE BulkImport -----------------------------
(***************************************************************************)
(* The bulk import pipeline of one organization:                           *)
(*                                                                         *)
(*   API handler     router.bulk_import, inside the get_db dependency      *)
(*   broker          Celery over Redis, task_acks_late                     *)
(*   worker          tasks._run_bulk_import, one execution per delivery    *)
(*   progress hash   Redis, job_progress:<id>                              *)
(*   job row         import_jobs                                           *)
(*   asset tables    assets and asset_relationships (PostgreSQL, READ      *)
(*                   COMMITTED; one transaction per chunk)                 *)
(*   client          polls router.job_status                               *)
(*                                                                         *)
(* An execution is a pair <<job, n>>: the n-th delivery of the job's       *)
(* message.  Every await, Redis command and commit is a step of its own.   *)
(***************************************************************************)
EXTENDS Integers, Sequences, FiniteSets, AssetMerge

CONSTANTS
    Job,            \* import jobs the clients submit
    Polled,         \* jobs whose client polls
    Key,            \* natural keys (type, value) of assets
    TempId,         \* ids the records of a batch use for each other
    Records,        \* Records[j]: the records posted with job j
    NoId,           \* str(None): the id of a record that has none
    ChunkSize,      \* tasks.CHUNK_SIZE
    MaxErrors,      \* how many errors the hash keeps (500 in the code)
    MaxDeliveries,  \* bound: deliveries of one message
    MaxLost,        \* bound: workers that die without acknowledging
    MaxFailed,      \* bound: tasks that end with an exception
    MaxBadCommits   \* bound: API commits that fail after the task was sent

Exec == Job \X (1..MaxDeliveries)
JobOf(e) == e[1]
Total(j) == Len(Records[j])

\* What validation and the database make of a record.  "invalid": refused
\* before any SQL runs; "poison": passes validation but its INSERT is refused
\* by the server (a NUL inside metadata, for one); "good": stored.
RecordKind == {"good", "invalid", "poison"}

Record == [kind : RecordKind, key : Key, id : TempId \cup {NoId},
           parent : TempId \cup {NoId}, covers : TempId \cup {NoId},
           status : AssetStatus \cup {"other"}, tags : SUBSET Tag, meta : Metadata]

Row == [id : Exec \X (Nat \ {0}), status : AssetStatus, tags : SUBSET Tag,
        meta : Metadata]

ASSUME RecordsAssumption ==
    /\ Records \in [Job -> Seq(Record) \ {<< >>}]
    /\ NoId \notin TempId
ASSUME BoundsAssumption ==
    /\ ChunkSize \in Nat \ {0}
    /\ {MaxErrors, MaxDeliveries, MaxLost, MaxFailed, MaxBadCommits} \subseteq Nat
ASSUME NoRowAssumption == NoRow \notin Row

VARIABLES
    api,        \* api[j]: where the POST handler of j is
    jobRow,     \* jobRow[j]: counters and status of the row, once inserted
    queue,      \* queue[j]: the broker's copy of the message
    deliveries, \* deliveries[j]: how often it was handed to a worker
    progress,   \* progress[j]: the Redis hash, << >> when the key is absent
    ttl,        \* ttl[j]: whether the key has a time to live
    pc,         \* pc[e]: where execution e is
    base,       \* base[e]: chunk_start, where e's current chunk begins
    pos,        \* pos[e]: number of records e has been through
    imported,   \* imported[e]: records e counts as imported
    errored,    \* errored[e]: records e counts as errors
    tempIds,    \* tempIds[e]: temp_id_to_uuid
    pending,    \* pending[e]: pending_relationships
    tx,         \* tx[e]: uncommitted rows of e; its domain is what e locks
    aborted,    \* aborted[e]: the open transaction of e is aborted
    assets,     \* assets[k]: the committed row under key k, or NoRow
    rels,       \* committed relationships <<source id, target id, type>>
    polling,    \* polling[j]: the client has seen no hash and reads the row
    view,       \* view[j]: status the last finished poll returned
    faults,     \* how many faults of each bounded kind have happened
    stored      \* history: records of e in chunks whose commit took effect

apiVars    == <<api, jobRow>>
brokerVars == <<queue, deliveries>>
redisVars  == <<progress, ttl>>
localVars  == <<base, pos, imported, errored, tempIds, pending>>
txVars     == <<tx, aborted, assets, stored>>
clientVars == <<polling, view>>
vars == <<apiVars, brokerVars, redisVars, pc, localVars, txVars, rels,
          clientVars, faults>>

-----------------------------------------------------------------------------
(* Records and chunks.                                                     *)

\* Mutation of Normalized: an unknown status goes through.
NormalizedNot(rec) == rec

\* service.ingest_record: a status that is no status becomes active.
Normalized(rec) ==
    [rec EXCEPT !.status = IF @ \in AssetStatus THEN @ ELSE "active"]

Rec(e, i) == Normalized(Records[JobOf(e)][i])
Current(e) == Rec(e, pos[e] + 1)
ChunkEnd(e) == IF base[e] + ChunkSize < Total(JobOf(e)) THEN base[e] + ChunkSize
               ELSE Total(JobOf(e))

-----------------------------------------------------------------------------
(* Transactions.                                                           *)

NoTx == << >>
Holds(e, k) == k \in DOMAIN tx[e]
RowSeenBy(e, k) == IF Holds(e, k) THEN tx[e][k] ELSE assets[k]

\* Mutation of WaitsFor: the row is read, merged and written without a lock.
WaitsForNobody(e, f) == FALSE

\* e is at an upsert that must wait for a row (or index entry) f has locked.
AtUpsert(e) == pc[e] = "ingest" /\ ~aborted[e] /\ Current(e).kind = "good"
WaitsFor(e, f) == AtUpsert(e) /\ e # f /\ Holds(f, Current(e).key)
Deadlocked(e) ==
    \E S \in SUBSET Exec :
        /\ e \in S
        /\ \A f \in S : (\E g \in S : WaitsFor(f, g)) /\ (\E g \in S : WaitsFor(g, f))

LiveIds == {assets[k].id : k \in {q \in Key : assets[q] # NoRow}}

-----------------------------------------------------------------------------
Pending == [status |-> "queued", imported |-> 0, error_count |-> 0]

Init ==
    /\ api = [j \in Job |-> "idle"]
    /\ jobRow = [j \in Job |-> Pending]
    /\ queue = [j \in Job |-> "none"]
    /\ deliveries = [j \in Job |-> 0]
    /\ progress = [j \in Job |-> << >>]
    /\ ttl = [j \in Job |-> FALSE]
    /\ pc = [e \in Exec |-> "none"]
    /\ base = [e \in Exec |-> 0]
    /\ pos = [e \in Exec |-> 0]
    /\ imported = [e \in Exec |-> {}]
    /\ errored = [e \in Exec |-> {}]
    /\ tempIds = [e \in Exec |-> << >>]
    /\ pending = [e \in Exec |-> {}]
    /\ tx = [e \in Exec |-> NoTx]
    /\ aborted = [e \in Exec |-> FALSE]
    /\ assets = [k \in Key |-> NoRow]
    /\ rels = {}
    /\ polling = [j \in Job |-> FALSE]
    /\ view = [j \in Job |-> "unseen"]
    /\ faults = [lost |-> 0, failed |-> 0, badCommits |-> 0]
    /\ stored = [e \in Exec |-> {}]

-----------------------------------------------------------------------------
(* The API handler.  create_job flushes the row inside the request's       *)
(* transaction and .delay() puts the message in the broker; the response   *)
(* leaves before get_db commits.                                           *)

Submit(j) ==
    /\ api[j] = "idle"
    /\ api' = [api EXCEPT ![j] = "enqueued"]
    /\ queue' = [queue EXCEPT ![j] = "ready"]
    /\ UNCHANGED <<jobRow, deliveries, redisVars, pc, localVars, txVars, rels,
                   clientVars, faults>>

Respond(j) ==
    /\ api[j] = "enqueued"
    /\ api' = [api EXCEPT ![j] = "responded"]
    /\ UNCHANGED <<jobRow, brokerVars, redisVars, pc, localVars, txVars, rels,
                   clientVars, faults>>

CommitJob(j) ==
    /\ api[j] = "responded"
    /\ api' = [api EXCEPT ![j] = "committed"]
    /\ UNCHANGED <<jobRow, brokerVars, redisVars, pc, localVars, txVars, rels,
                   clientVars, faults>>

\* The process or the database connection dies first: the row is gone, the
\* message is not.
LoseJob(j) ==
    /\ api[j] \in {"enqueued", "responded"}
    /\ faults.badCommits < MaxBadCommits
    /\ faults' = [faults EXCEPT !.badCommits = @ + 1]
    /\ api' = [api EXCEPT ![j] = IF @ = "enqueued" THEN "crashed" ELSE "lost"]
    /\ UNCHANGED <<jobRow, brokerVars, redisVars, pc, localVars, txVars, rels,
                   clientVars>>

-----------------------------------------------------------------------------
(* The broker.                                                             *)

Deliver(j) ==
    /\ queue[j] = "ready"
    /\ deliveries[j] < MaxDeliveries
    /\ queue' = [queue EXCEPT ![j] = "unacked"]
    /\ deliveries' = [deliveries EXCEPT ![j] = @ + 1]
    /\ pc' = [pc EXCEPT ![<<j, deliveries[j] + 1>>] = "start"]
    /\ UNCHANGED <<apiVars, redisVars, localVars, txVars, rels, clientVars, faults>>

\* The visibility timeout of an unacknowledged message runs out, whether its
\* worker is dead or only slow.
Restore(j) ==
    /\ queue[j] = "unacked"
    /\ deliveries[j] < MaxDeliveries
    /\ queue' = [queue EXCEPT ![j] = "ready"]
    /\ UNCHANGED <<apiVars, deliveries, redisVars, pc, localVars, txVars, rels,
                   clientVars, faults>>

\* All deliveries of a message carry the same tag: an acknowledgement removes
\* it while some worker holds it, and misses it while it is back in the queue.
Acked(j) == [queue EXCEPT ![j] = IF @ = "unacked" THEN "gone" ELSE @]

-----------------------------------------------------------------------------
(* Redis.                                                                  *)

HSet(j, fields) ==
    progress' = [progress EXCEPT ![j] = Overlay(@, fields)]

\* The day a key lives outlasts the request that created the job and the one
\* statement a worker runs between EXPIRE and the end of its UPDATE.
KeyExpires(j) ==
    /\ ttl[j]
    /\ api[j] \notin {"enqueued", "responded"}
    /\ \A e \in Exec : JobOf(e) = j => pc[e] # "sync"
    /\ progress' = [progress EXCEPT ![j] = << >>]
    /\ ttl' = [ttl EXCEPT ![j] = FALSE]
    /\ UNCHANGED <<apiVars, brokerVars, pc, localVars, txVars, rels, clientVars,
                   faults>>

-----------------------------------------------------------------------------
(* The worker: _run_bulk_import, in the order of the code.                 *)

Goto(e, label) == pc' = [pc EXCEPT ![e] = label]

\* Mutation of StartRun: the key gets its time to live when it is created.
StartRunExpiring(e) ==
    /\ pc[e] = "start"
    /\ HSet(JobOf(e), [status |-> "running", total |-> Total(JobOf(e)), imported |-> 0,
                       error_count |-> 0, processed |-> 0])
    /\ ttl' = [ttl EXCEPT ![JobOf(e)] = TRUE]
    /\ Goto(e, "ingest")
    /\ UNCHANGED <<apiVars, brokerVars, localVars, txVars, rels, clientVars, faults>>

StartRun(e) ==
    /\ pc[e] = "start"
    /\ HSet(JobOf(e), [status |-> "running", total |-> Total(JobOf(e)), imported |-> 0,
                       error_count |-> 0, processed |-> 0])
    /\ Goto(e, "ingest")
    /\ UNCHANGED <<apiVars, brokerVars, ttl, localVars, txVars, rels, clientVars,
                   faults>>

\* Mutation of Advance: every record is committed on its own.
AdvanceAndCommit(e) ==
    /\ pos' = [pos EXCEPT ![e] = @ + 1]
    /\ Goto(e, "commit")

\* On to the next record, or to the commit at the end of the chunk.
Advance(e) ==
    /\ pos' = [pos EXCEPT ![e] = @ + 1]
    /\ Goto(e, IF pos[e] + 1 = ChunkEnd(e) THEN "commit" ELSE "ingest")

\* Mutation of CountError: the record is skipped, not counted.
CountErrorNot(e) ==
    /\ Advance(e)
    /\ UNCHANGED <<apiVars, brokerVars, redisVars, base, imported, errored, tempIds,
                   pending, assets, rels, clientVars, faults, stored>>

CountError(e) ==
    /\ errored' = [errored EXCEPT ![e] = @ \cup {pos[e] + 1}]
    /\ Advance(e)
    /\ UNCHANGED <<apiVars, brokerVars, redisVars, base, imported, tempIds, pending,
                   assets, rels, clientVars, faults, stored>>

\* Validation refuses the record, or the transaction is aborted already and
\* the server refuses every further statement.
Reject(e) ==
    /\ pc[e] = "ingest"
    /\ Current(e).kind = "invalid" \/ aborted[e]
    /\ CountError(e)
    /\ UNCHANGED <<tx, aborted>>

\* The server refuses the statement, or picks e as the victim of a deadlock.
\* PostgreSQL rolls the transaction back and releases its locks at once;
\* ingest_record catches the exception, so the chunk goes on.
AbortTx(e) ==
    /\ CountError(e)
    /\ tx' = [tx EXCEPT ![e] = NoTx]
    /\ aborted' = [aborted EXCEPT ![e] = TRUE]

PoisonRecord(e) ==
    /\ pc[e] = "ingest"
    /\ ~aborted[e]
    /\ Current(e).kind = "poison"
    /\ AbortTx(e)

DeadlockVictim(e) ==
    /\ Deadlocked(e)
    /\ AbortTx(e)

\* The relationships a record hints at, between temporary ids.
Hints(rec) ==
    (IF rec.parent # NoId THEN {<<rec.id, rec.parent, "subdomain_of">>} ELSE {})
    \cup
    (IF rec.covers # NoId THEN {<<rec.covers, rec.id, "covered_by">>} ELSE {})

\* The upsert locks the row until the chunk commits; it waits while another
\* transaction holds it and then works on the row that one committed.
Upsert(e) ==
    LET i   == pos[e] + 1
        rec == Current(e)
        row == Upserted(RowSeenBy(e, rec.key), <<e, i>>, rec)
    IN /\ AtUpsert(e)
       /\ \A f \in Exec : ~WaitsFor(e, f)
       /\ tx' = [tx EXCEPT ![e] = Put(@, rec.key, row)]
       /\ imported' = [imported EXCEPT ![e] = @ \cup {i}]
       /\ tempIds' = IF rec.id = NoId THEN tempIds
                     ELSE [tempIds EXCEPT ![e] = Put(@, rec.id, row.id)]
       /\ pending' = [pending EXCEPT ![e] = @ \cup Hints(rec)]
       /\ Advance(e)
       /\ UNCHANGED <<apiVars, brokerVars, redisVars, base, errored, aborted, assets, rels,
                      clientVars, faults, stored>>

\* COMMIT; of an aborted transaction it is a rollback that raises nothing.
CommitChunk(e) ==
    /\ pc[e] = "commit"
    /\ assets' = Overlay(assets, tx[e])
    /\ stored' = [stored EXCEPT ![e] = IF aborted[e] THEN @
                                       ELSE @ \cup (base[e] + 1)..pos[e]]
    /\ tx' = [tx EXCEPT ![e] = NoTx]
    /\ aborted' = [aborted EXCEPT ![e] = FALSE]
    /\ Goto(e, "report")
    /\ UNCHANGED <<apiVars, brokerVars, redisVars, localVars, rels, clientVars, faults>>

ReportChunk(e) ==
    /\ pc[e] = "report"
    /\ HSet(JobOf(e), [imported |-> Cardinality(imported[e]),
                       error_count |-> Cardinality(errored[e]),
                       processed |-> pos[e]])
    /\ Goto(e, IF pos[e] < Total(JobOf(e)) THEN "ingest"
               ELSE IF pending[e] # {} THEN "relate" ELSE "final")
    /\ base' = [base EXCEPT ![e] = pos[e]]
    /\ UNCHANGED <<apiVars, brokerVars, ttl, pos, imported, errored, tempIds, pending,
                   txVars, rels, clientVars, faults>>

\* Mutation of Resolved: source and target swapped.
ResolvedBackwards(e) ==
    {<<tempIds[e][p[2]], tempIds[e][p[1]], p[3]>> :
        p \in {q \in pending[e] : {q[1], q[2]} \subseteq DOMAIN tempIds[e]}}

\* Hints whose two temporary ids are known; the others are dropped silently.
Resolved(e) ==
    {<<tempIds[e][p[1]], tempIds[e][p[2]], p[3]>> :
        p \in {q \in pending[e] : {q[1], q[2]} \subseteq DOMAIN tempIds[e]}}

\* One transaction of INSERT ... ON CONFLICT DO NOTHING.
Relate(e) ==
    /\ pc[e] = "relate"
    /\ \A r \in Resolved(e) : {r[1], r[2]} \subseteq LiveIds
    /\ rels' = rels \cup Resolved(e)
    /\ Goto(e, "final")
    /\ UNCHANGED <<apiVars, brokerVars, redisVars, localVars, txVars, clientVars,
                   faults>>

\* How an execution ends early: the open transaction rolls back.
Abandon(e, label) ==
    /\ Goto(e, label)
    /\ tx' = [tx EXCEPT ![e] = NoTx]
    /\ aborted' = [aborted EXCEPT ![e] = FALSE]
    /\ UNCHANGED <<apiVars, deliveries, redisVars, localVars, assets, stored, rels,
                   clientVars>>

\* Mutation of RelateFails: the phase is tried again.
RelateRetried(e) ==
    /\ pc[e] = "relate"
    /\ \E r \in Resolved(e) : ~({r[1], r[2]} \subseteq LiveIds)
    /\ UNCHANGED vars

\* A temporary id stands for a row that was rolled back: the foreign key
\* refuses the insert and nothing catches the exception.
RelateFails(e) ==
    /\ pc[e] = "relate"
    /\ \E r \in Resolved(e) : ~({r[1], r[2]} \subseteq LiveIds)
    /\ Abandon(e, "failed")
    /\ queue' = Acked(JobOf(e))
    /\ UNCHANGED faults

\* errors[:500]
Capped(S) == {i \in S : Cardinality({q \in S : q < i}) < MaxErrors}

\* Mutation of FinalStatus: a status of its own for a job with some errors.
FinalStatusPartial(e) ==
    IF errored[e] = {} THEN "done"
    ELSE IF Cardinality(errored[e]) < Total(JobOf(e)) THEN "partial" ELSE "failed"

FinalStatus(e) ==
    IF Cardinality(errored[e]) < Total(JobOf(e)) THEN "done" ELSE "failed"

ReportFinal(e) ==
    /\ pc[e] = "final"
    /\ HSet(JobOf(e), [status |-> FinalStatus(e),
                       imported |-> Cardinality(imported[e]),
                       error_count |-> Cardinality(errored[e]),
                       processed |-> Total(JobOf(e)),
                       errors |-> Capped(errored[e])])
    /\ Goto(e, "expire")
    /\ UNCHANGED <<apiVars, brokerVars, ttl, localVars, txVars, rels, clientVars,
                   faults>>

SetExpiry(e) ==
    /\ pc[e] = "expire"
    /\ ttl' = [ttl EXCEPT ![JobOf(e)] = progress[JobOf(e)] # << >>]
    /\ Goto(e, "sync")
    /\ UNCHANGED <<apiVars, brokerVars, progress, localVars, txVars, rels, clientVars,
                   faults>>

\* Mutation of SyncRow: error_count is left out of the UPDATE.
SyncRowWithoutErrors(e) ==
    /\ pc[e] = "sync"
    /\ jobRow' = IF api[JobOf(e)] # "committed" THEN jobRow
                 ELSE [jobRow EXCEPT ![JobOf(e)].status = FinalStatus(e),
                                     ![JobOf(e)].imported = Cardinality(imported[e])]
    /\ Goto(e, "return")
    /\ UNCHANGED <<api, brokerVars, redisVars, localVars, txVars, rels, clientVars,
                   faults>>

\* UPDATE import_jobs ... WHERE id: it changes nothing while the row's INSERT
\* is uncommitted.
SyncRow(e) ==
    /\ pc[e] = "sync"
    /\ jobRow' = IF api[JobOf(e)] # "committed" THEN jobRow
                 ELSE [jobRow EXCEPT ![JobOf(e)] =
                          [status |-> FinalStatus(e),
                           imported |-> Cardinality(imported[e]),
                           error_count |-> Cardinality(errored[e])]]
    /\ Goto(e, "return")
    /\ UNCHANGED <<api, brokerVars, redisVars, localVars, txVars, rels, clientVars,
                   faults>>

Acknowledge(e) ==
    /\ pc[e] = "return"
    /\ queue' = Acked(JobOf(e))
    /\ Goto(e, "finished")
    /\ UNCHANGED <<apiVars, deliveries, redisVars, localVars, txVars, rels, clientVars,
                   faults>>

Running(e) == pc[e] \notin {"none", "lost", "failed", "finished"}

\* Mutation of LoseWorker: the message was acknowledged on delivery.
LoseWorkerAcked(e) ==
    /\ Running(e)
    /\ faults.lost < MaxLost
    /\ faults' = [faults EXCEPT !.lost = @ + 1]
    /\ Abandon(e, "lost")
    /\ queue' = Acked(JobOf(e))

\* The whole worker goes away: nothing is acknowledged.
LoseWorker(e) ==
    /\ Running(e)
    /\ faults.lost < MaxLost
    /\ faults' = [faults EXCEPT !.lost = @ + 1]
    /\ Abandon(e, "lost")
    /\ UNCHANGED queue

\* An exception leaves the task, or the pool's child process is killed: the
\* message is acknowledged (task_reject_on_worker_lost is not set).
FailTask(e) ==
    /\ Running(e)
    /\ faults.failed < MaxFailed
    /\ faults' = [faults EXCEPT !.failed = @ + 1]
    /\ Abandon(e, "failed")
    /\ queue' = Acked(JobOf(e))

-----------------------------------------------------------------------------
(* The client: GET /jobs/{id}, possible once the 202 has arrived.          *)

HashStatus(h) == IF "status" \in DOMAIN h THEN h["status"] ELSE "queued"

PollHash(j) ==
    /\ j \in Polled
    /\ api[j] \in {"responded", "committed", "lost"}
    /\ ~polling[j]
    /\ IF progress[j] # << >>
       THEN /\ view' = [view EXCEPT ![j] = HashStatus(progress[j])]
            /\ UNCHANGED polling
       ELSE /\ polling' = [polling EXCEPT ![j] = TRUE]
            /\ UNCHANGED view
    /\ UNCHANGED <<apiVars, brokerVars, redisVars, pc, localVars, txVars, rels, faults>>

PollRow(j) ==
    /\ polling[j]
    /\ polling' = [polling EXCEPT ![j] = FALSE]
    /\ view' = [view EXCEPT ![j] =
                    IF api[j] = "committed" THEN jobRow[j].status ELSE "not found"]
    /\ UNCHANGED <<apiVars, brokerVars, redisVars, pc, localVars, txVars, rels, faults>>

-----------------------------------------------------------------------------
Work(e) ==
    \/ StartRun(e)    \/ Reject(e)      \/ PoisonRecord(e) \/ Upsert(e)
    \/ CommitChunk(e) \/ ReportChunk(e) \/ Relate(e)       \/ RelateFails(e)
    \/ ReportFinal(e) \/ SetExpiry(e)   \/ SyncRow(e)      \/ Acknowledge(e)

Next ==
    \/ \E j \in Job :
          \/ Submit(j)  \/ Respond(j)    \/ CommitJob(j) \/ LoseJob(j) \/ Deliver(j)
          \/ Restore(j) \/ KeyExpires(j) \/ PollHash(j)  \/ PollRow(j)
    \/ \E e \in Exec :
          Work(e) \/ DeadlockVictim(e) \/ LoseWorker(e) \/ FailTask(e)

Spec == Init /\ [][Next]_vars

(***************************************************************************)
(* Fairness.  A live worker, the API process and the database go on (a     *)
(* deadlock is found after deadlock_timeout); the broker delivers what is  *)
(* ready, and an unacknowledged message is restored by the visibility      *)
(* timeout.  Nothing makes a client submit or poll, and no fault has to    *)
(* happen.                                                                 *)
(***************************************************************************)
Fairness ==
    /\ \A j \in Job :
          /\ WF_vars(Respond(j) \/ CommitJob(j))
          /\ WF_vars(Deliver(j))
          /\ WF_vars(Restore(j))
          /\ WF_vars(KeyExpires(j))
    /\ \A e \in Exec : WF_vars(Work(e))
    /\ WF_vars(\E e \in Exec : DeadlockVictim(e))

FairSpec == Spec /\ Fairness

-----------------------------------------------------------------------------
(* Properties.                                                             *)

Label == {"none", "start", "ingest", "commit", "report", "relate", "final", "expire",
          "sync", "return", "finished", "lost", "failed"}
JobStatus == {"queued", "running", "done", "failed"}
RelType == {"subdomain_of", "covered_by"}
RowId == Exec \X (Nat \ {0})
Counter == {"total", "imported", "error_count", "processed"}

\* A hash may miss fields; those it has are of their types.
HashOK(h) ==
    /\ DOMAIN h \subseteq Counter \cup {"status", "errors"}
    /\ "status" \in DOMAIN h => h["status"] \in JobStatus \ {"queued"}
    /\ \A f \in Counter \cap DOMAIN h : h[f] \in Nat
    /\ "errors" \in DOMAIN h => h["errors"] \in SUBSET (Nat \ {0})

\* Type invariant: what the variables of the pipeline range over.
TypeOK ==
    /\ api \in [Job -> {"idle", "enqueued", "responded", "committed", "crashed", "lost"}]
    /\ jobRow \in [Job -> [status : JobStatus \ {"running"}, imported : Nat,
                           error_count : Nat]]
    /\ queue \in [Job -> {"none", "ready", "unacked", "gone"}]
    /\ deliveries \in [Job -> 0..MaxDeliveries]
    /\ DOMAIN progress = Job
    /\ \A j \in Job : HashOK(progress[j])
    /\ ttl \in [Job -> BOOLEAN]
    /\ pc \in [Exec -> Label]
    /\ base \in [Exec -> Nat] /\ pos \in [Exec -> Nat]
    /\ imported \in [Exec -> SUBSET (Nat \ {0})]
    /\ errored \in [Exec -> SUBSET (Nat \ {0})]
    /\ DOMAIN tempIds = Exec
    /\ \A e \in Exec : Partial(tempIds[e], TempId, RowId)
    /\ pending \in [Exec -> SUBSET ((TempId \cup {NoId}) \X (TempId \cup {NoId}) \X RelType)]
    /\ DOMAIN tx = Exec
    /\ \A e \in Exec : Partial(tx[e], Key, Row)
    /\ aborted \in [Exec -> BOOLEAN]
    /\ assets \in [Key -> Row \cup {NoRow}]
    /\ rels \in SUBSET (RowId \X RowId \X RelType)
    /\ polling \in [Job -> BOOLEAN]
    /\ view \in [Job -> JobStatus \cup {"unseen", "not found"}]
    /\ faults \in [lost : 0..MaxLost, failed : 0..MaxFailed, badCommits : 0..MaxBadCommits]
    /\ stored \in [Exec -> SUBSET (Nat \ {0})]

\* Every record an execution counts as imported, in a chunk whose commit took
\* effect, is in the asset table with its tags and metadata keys, whatever
\* the other executions upsert, commit or roll back around it
\* (repository.upsert, tasks.py's commit per chunk).
ImportedStored ==
    \A e \in Exec : \A i \in imported[e] \cap stored[e] :
        LET row == assets[Rec(e, i).key]
        IN /\ row # NoRow
           /\ Rec(e, i).tags \subseteq row.tags
           /\ DOMAIN Rec(e, i).meta \subseteq DOMAIN row.meta

\* The counters of the hash belong together: the records counted as imported
\* and as errors are exactly those processed so far, also when two deliveries
\* of one message write the hash in turns or the key expires in between.
CountsAddUp ==
    \A j \in Job : LET h == progress[j] IN
        {"imported", "error_count"} \cap DOMAIN h # {} =>
            h["imported"] + h["error_count"] = h["processed"]

\* The relationship phase can be stopped by a foreign key only if a chunk of
\* its own execution was rolled back silently: otherwise every temporary id
\* stands for a row of the table, also when another import inserted it first.
DanglingOnlyAfterLoss ==
    \A e \in Exec :
        pc[e] = "relate" /\ imported[e] \subseteq stored[e] =>
            \A t \in DOMAIN tempIds[e] : tempIds[e][t] \in LiveIds

\* The edges the batch of e asks for, read off the records: hints are between
\* ids, an id means the last imported record that carries it, and a hint with
\* an unknown end asks for nothing.
Named(e, t) == {i \in imported[e] : Rec(e, i).id = t /\ t # NoId}
RowNamed(e, t) ==
    assets[Rec(e, CHOOSE i \in Named(e, t) : \A q \in Named(e, t) : q <= i).key].id
Asked(e) ==
    {<<RowNamed(e, h[1]), RowNamed(e, h[2]), h[3]>> :
        h \in {g \in UNION {Hints(Rec(e, i)) : i \in imported[e]} :
                  Named(e, g[1]) # {} /\ Named(e, g[2]) # {}}}

\* Once an execution that lost no chunk is past its relationship phase, every
\* edge its batch asks for is in the table, forward references included; and
\* while no execution has lost a chunk, the table has no other edge.
LossFree(e) == imported[e] \subseteq stored[e]
Related(e) == pc[e] \in {"final", "expire", "sync", "return", "finished"}
EdgesComplete ==
    /\ \A e \in Exec : Related(e) /\ LossFree(e) => Asked(e) \subseteq rels
    /\ (\A e \in Exec : tx[e] = NoTx => LossFree(e)) =>
           rels \subseteq UNION {Asked(e) : e \in {f \in Exec : LossFree(f)}}

\* While a message is delivered only once, the hash is whole whenever it
\* exists (job_status never has to fall back on a default for the status),
\* and a job row with a final status repeats what the hash says.
HashAndRowAgree ==
    \A j \in Job : deliveries[j] <= 1 /\ progress[j] # << >> =>
        LET h == progress[j] IN
        /\ {"status", "total", "imported", "error_count", "processed"} \subseteq DOMAIN h
        /\ jobRow[j].status # "queued" =>
              jobRow[j] = [status |-> h["status"], imported |-> h["imported"],
                           error_count |-> h["error_count"]]
        /\ h["status"] # "running" =>
              /\ h["processed"] = h["total"]
              /\ Cardinality(h["errors"]) = IF h["error_count"] < MaxErrors
                                            THEN h["error_count"] ELSE MaxErrors

\* The row never got the result: the UPDATE ran before the INSERT committed, or
\* the worker ended before it came to the UPDATE.
MissedSync(j) ==
    /\ jobRow[j].status = "queued"
    /\ \E e \in Exec : JobOf(e) = j /\ pc[e] \in {"return", "finished", "lost", "failed"}

Rank(status) == CASE status \in {"unseen", "not found"} -> 0
                  [] status = "queued"                  -> 1
                  [] status = "running"                 -> 2
                  [] OTHER                              -> 3

\* A client that polls never sees a job go backwards, through the expiry of
\* the hash and the fallback to the row too, unless the message was delivered
\* again or the row missed the result.
PollMonotone ==
    [][\A j \in Job : \/ Rank(view'[j]) >= Rank(view[j])
                      \/ deliveries[j] > 1
                      \/ MissedSync(j)]_vars

\* What the next poll of j would return.
Shown(j) == IF progress[j] # << >> THEN HashStatus(progress[j])
            ELSE IF api[j] = "committed" THEN jobRow[j].status ELSE "not found"

\* As long as fewer workers are lost than deliveries are allowed, some delivery
\* of every message works the job to its end: lost workers are made up for
\* (task_acks_late), and imports that wait for each other's rows in a circle do
\* not wait for good.  An exception ends the work early only where a task failed
\* (FailTask, which stands for a deadlock between two relationship phases too),
\* or where the execution lost a chunk of its own to a deadlock or a refused
\* record: temp_id_to_uuid still holds the chunk's ids, and the foreign key
\* refuses a relationship with one of them (tasks.py:135).
EveryJobEnds ==
    \A j \in Job : (queue[j] = "ready") ~>
        (\E e \in Exec : /\ JobOf(e) = j
                         /\ \/ pc[e] = "finished"
                            \/ pc[e] = "failed" /\ (faults.failed > 0 \/ ~LossFree(e)))

\* In the long run a poll shows a final status for good, however deliveries of
\* the message overlap and keys expire under them, unless one of them was cut
\* short by a fault or an exception, or the row missed the result.
CutShort(j) == \E e \in Exec : JobOf(e) = j /\ pc[e] \in {"lost", "failed"}
StatusSettles ==
    \A j \in Job : (queue[j] = "ready" /\ api[j] = "committed") ~>
        [](Shown(j) \in {"done", "failed"} \/ MissedSync(j) \/ CutShort(j))

\* The asset table sees every chunk as one atomic merge, never twice for one
\* execution: the interleaved upserts, row locks, deadlocks and rollbacks
\* implement ChunkStore.
Store == INSTANCE ChunkStore WITH
            applied <- UNION {{e} \X stored[e] : e \in Exec},
            Batch <- [e \in Exec |-> [i \in 1..Total(JobOf(e)) |-> Rec(e, i)]]
ChunksAreAtomic == Store!Spec

-----------------------------------------------------------------------------
(* What the repository's documents say and the code does not do.           *)

\* "Bulk import failures are per-record (partial success); the job does not
\* abort on a single bad record.": README.md:583.
FailuresArePerRecord ==
    \A e \in Exec : pc[e] \in {"finished", "failed"} =>
        \A i \in 1..Total(JobOf(e)) :
            Rec(e, i).kind = "good" => assets[Rec(e, i).key] # NoRow

\* "Sync ImportJob in DB on completion": software_design_doc.md:143.
RowSynced ==
    \A e \in Exec : pc[e] = "finished" /\ api[JobOf(e)] = "committed" =>
        jobRow[JobOf(e)].status # "queued"

\* "running --> failed : Unrecoverable error in worker": diagrams.md:194.
FailureIsReported ==
    \A e \in Exec : (pc[e] = "failed") ~> (Shown(JobOf(e)) = "failed")
=============================================================================
