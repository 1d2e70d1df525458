-------------------------- MODULE BulkReportProofs --------------------------
(***************************************************************************)
(* Theorems of BulkImport about what a job tells of itself: the progress   *)
(* hash, the job row, and the client that reads the one or the other.      *)
(***************************************************************************)
EXTENDS BulkImportProofs

(* The inductive invariant: hash and job row.                              *)

\* The three counters of a hash come together and add up.
Sums(h) ==
    {"imported", "error_count", "processed"} \cap DOMAIN h # {} =>
        /\ {"imported", "error_count", "processed"} \subseteq DOMAIN h
        /\ h["imported"] + h["error_count"] = h["processed"]

\* What an execution without a rival writes.
Result(e) == [status |-> FinalStatus(e), imported |-> Cardinality(imported[e]),
              error_count |-> Cardinality(errored[e])]
RunningHash(h, e) ==
    /\ DOMAIN h = Counter \cup {"status"}
    /\ h["status"] = "running" /\ h["total"] = Total(JobOf(e))
FinalHash(h, e) ==
    /\ DOMAIN h = Counter \cup {"status", "errors"}
    /\ h["status"] = FinalStatus(e) /\ h["total"] = Total(JobOf(e))
    /\ h["imported"] = Cardinality(imported[e])
    /\ h["error_count"] = Cardinality(errored[e])
    /\ h["processed"] = Total(JobOf(e))
    /\ h["errors"] = Capped(errored[e])

\* Hash, its time to live and the job's row, by what its only delivery did.
Fresh(j)    == progress[j] = << >> /\ ~ttl[j] /\ jobRow[j] = Pending
Begun(j, e) == RunningHash(progress[j], e) /\ ~ttl[j] /\ jobRow[j] = Pending
Final(j, e) == FinalHash(progress[j], e) /\ jobRow[j] = Pending
Over(j, e)  ==
    /\ progress[j] = << >> \/ FinalHash(progress[j], e)
    /\ jobRow[j] \in {Pending, Result(e)}

Only(j, e) ==
    /\ pc[e] = "start" => Fresh(j)
    /\ pc[e] \in {"ingest", "commit", "report", "relate", "final"} => Begun(j, e)
    /\ pc[e] = "expire" => Final(j, e) /\ ~ttl[j]
    /\ pc[e] = "sync" => Final(j, e)
    /\ pc[e] \in {"return", "finished"} => Over(j, e)
    /\ pc[e] \in {"lost", "failed"} => Fresh(j) \/ Begun(j, e) \/ Over(j, e)

\* What is true of one job, as long as its message is delivered once.
JobInv(j) ==
    /\ deliveries[j] = 0 => Fresh(j)
    /\ deliveries[j] = 1 => Only(j, <<j, 1>>)

HashInv == TypeInv /\ \A j \in Job : Sums(progress[j]) /\ JobInv(j)

\* What the row says to a client that asks for it.
RowShown(j) == IF api[j] = "committed" THEN jobRow[j].status ELSE "not found"

\* The next poll shows no less than the last one, whichever it reads.
Seen(j) ==
    /\ polling[j] \/ progress[j] = << >> => Rank(view[j]) <= Rank(RowShown(j))
    /\ progress[j] # << >> => Rank(view[j]) <= Rank(HashStatus(progress[j]))

\* So it is, unless the message came again or the row missed the result.
Shows(j) == deliveries[j] <= 1 /\ ~MissedSync(j) => Seen(j)

PollInv ==
    /\ HashInv
    /\ \A j \in Job : /\ jobRow[j].status # "queued" => api[j] = "committed"
                      /\ Shows(j)

\* What the worker writes to the hash.
StartFields(e) ==
    [status |-> "running", total |-> Total(JobOf(e)), imported |-> 0, error_count |-> 0,
     processed |-> 0]
ChunkFields(e) ==
    [imported |-> Cardinality(imported[e]), error_count |-> Cardinality(errored[e]),
     processed |-> pos[e]]
FinalFields(e) ==
    [status |-> FinalStatus(e), imported |-> Cardinality(imported[e]),
     error_count |-> Cardinality(errored[e]), processed |-> Total(JobOf(e)),
     errors |-> Capped(errored[e])]

\* A step that leaves what is shown of j.
Quiet(j) == progress'[j] = progress[j] /\ ttl'[j] = ttl[j] /\ jobRow'[j] = jobRow[j]

\* The statements of an execution, by what they do to hash, key and row.
Passing(e) ==
    /\ Quiet(JobOf(e))
    /\ pc[e] \in {"ingest", "commit", "relate"}
    /\ pc'[e] \in {"ingest", "commit", "report", "final"}
Ending(e) ==
    /\ Quiet(JobOf(e)) /\ Running(e) /\ pc'[e] \in {"lost", "failed"}
Writing(e, from, to, fields) ==
    /\ pc[e] = from /\ pc'[e] \in to
    /\ progress'[JobOf(e)] = Overlay(progress[JobOf(e)], fields)
    /\ ttl'[JobOf(e)] = ttl[JobOf(e)] /\ jobRow'[JobOf(e)] = jobRow[JobOf(e)]
Expiring(e) ==
    /\ pc[e] = "expire" /\ pc'[e] = "sync"
    /\ progress'[JobOf(e)] = progress[JobOf(e)] /\ jobRow'[JobOf(e)] = jobRow[JobOf(e)]
Syncing(e) ==
    /\ pc[e] = "sync" /\ pc'[e] = "return"
    /\ progress'[JobOf(e)] = progress[JobOf(e)] /\ ttl'[JobOf(e)] = ttl[JobOf(e)]
    /\ jobRow'[JobOf(e)] = IF api[JobOf(e)] = "committed" THEN Result(e)
                           ELSE jobRow[JobOf(e)]
Returning(e) ==
    /\ Quiet(JobOf(e)) /\ pc[e] = "return" /\ pc'[e] = "finished"

\* One of them, by e, and nothing of the other jobs.
Counts(e) ==
    /\ Moves(e) /\ \A q \in Job \ {JobOf(e)} : Quiet(q)
    /\ UNCHANGED <<api, polling, view>>
    /\ pc[e] # "ingest" => imported'[e] = imported[e] /\ errored'[e] = errored[e]
    /\ \/ Passing(e) \/ Ending(e)
       \/ Writing(e, "start", {"ingest"}, StartFields(e))
       \/ Writing(e, "report", {"ingest", "relate", "final"}, ChunkFields(e))
       \/ Writing(e, "final", {"expire"}, FinalFields(e))
       \/ Expiring(e) \/ Syncing(e) \/ Returning(e)

LEMMA QuietAll ==
    ASSUME UNCHANGED <<progress, ttl, jobRow>>
    PROVE  \A j \in Job : Quiet(j)
BY DEF Quiet

LEMMA WrittenHash ==
    ASSUME TypeInv, NEW e \in Exec, NEW fields, HashOK(fields), HSet(JobOf(e), fields),
           UNCHANGED <<ttl, jobRow>>
    PROVE  /\ progress'[JobOf(e)] = Overlay(progress[JobOf(e)], fields)
           /\ \A q \in Job \ {JobOf(e)} : Quiet(q)
BY HashSet, Executions, TypesOfAll DEF TypeInv, Quiet

LEMMA CountingSteps ==
    ASSUME TypeInv, NEW e \in Exec,
           Work(e) \/ DeadlockVictim(e) \/ LoseWorker(e) \/ FailTask(e)
    PROVE  Counts(e)
<1>1. Locals /\ Shared /\ JobOf(e) \in Job /\ Place(e) /\ Counted(e)
  BY TypesOfAll, Executions DEF TypeInv
<1>2. CASE StartRun(e)
  <2>1. /\ Goto(e, "ingest") /\ pc[e] = "start" /\ UNCHANGED <<localVars, tx, aborted, stored, deliveries>>
        /\ UNCHANGED <<api, polling, view, ttl, jobRow>> /\ HSet(JobOf(e), StartFields(e))
    BY <1>2 DEF StartRun, StartFields, apiVars, brokerVars, txVars, clientVars
  <2>2. /\ Moves(e) /\ pc'[e] = "ingest" /\ imported'[e] = imported[e] /\ errored'[e] = errored[e]
    BY <2>1, GotoStep DEF Label
  <2>3. HashOK(StartFields(e))
    BY HashesWritten DEF StartFields
  <2>4. /\ progress'[JobOf(e)] = Overlay(progress[JobOf(e)], StartFields(e))
        /\ \A q \in Job \ {JobOf(e)} : Quiet(q)
    BY <2>1, <2>3, WrittenHash
  <2> QED
    BY <2>1, <2>2, <2>4 DEF Counts, Writing
<1>3. CASE Reject(e) \/ PoisonRecord(e) \/ DeadlockVictim(e)
  <2>1. /\ pc[e] = "ingest" /\ CountError(e)
        /\ \/ UNCHANGED <<tx, aborted>>
           \/ /\ tx' = [tx EXCEPT ![e] = NoTx]
              /\ aborted' = [aborted EXCEPT ![e] = TRUE]
    <3>1. CASE Reject(e)
      BY <3>1 DEF Reject
    <3>2. CASE PoisonRecord(e)
      BY <3>2 DEF PoisonRecord, AbortTx
    <3>3. CASE DeadlockVictim(e)
      BY <3>3 DEF DeadlockVictim, Deadlocked, WaitsFor, AtUpsert, AbortTx
    <3> QED
      BY <1>3, <3>1, <3>2, <3>3
  <2>2. /\ Moves(e) /\ Passes(e) /\ UNCHANGED <<api, jobRow, progress, ttl, polling, view>>
    BY <2>1, CountErrorStep
  <2> QED
    BY <1>1, <2>1, <2>2, QuietAll DEF Counts, Passing, Passes
<1>4. CASE Upsert(e)
  <2>1. /\ Moves(e) /\ Passes(e) /\ UNCHANGED <<api, jobRow, progress, ttl, polling, view>>
    BY <1>4, UpsertStep
  <2> QED
    BY <1>1, <2>1, QuietAll DEF Counts, Passing, Passes
<1>5. CASE CommitChunk(e)
  <2>1. /\ Moves(e) /\ pc[e] = "commit" /\ pc'[e] = "report"
        /\ imported'[e] = imported[e] /\ errored'[e] = errored[e]
        /\ UNCHANGED <<api, jobRow, progress, ttl, polling, view>>
    BY <1>5, CommitStep
  <2> QED
    BY <1>1, <2>1, QuietAll DEF Counts, Passing
<1>6. CASE ReportChunk(e)
  <2>1. /\ Moves(e) /\ pc[e] = "report" /\ pc'[e] \in {"ingest", "relate", "final"}
        /\ imported'[e] = imported[e] /\ errored'[e] = errored[e]
        /\ UNCHANGED <<api, jobRow, ttl, polling, view>>
    BY <1>6, ReportStep
  <2>2. HashOK(ChunkFields(e)) /\ HSet(JobOf(e), ChunkFields(e))
    BY <1>6, HashesWritten DEF ChunkFields, ReportChunk
  <2>3. /\ progress'[JobOf(e)] = Overlay(progress[JobOf(e)], ChunkFields(e))
        /\ \A q \in Job \ {JobOf(e)} : Quiet(q)
    BY <2>1, <2>2, WrittenHash
  <2> QED
    BY <2>1, <2>3 DEF Counts, Writing
<1>7. CASE Relate(e)
  <2>1. /\ Goto(e, "final") /\ pc[e] = "relate" /\ UNCHANGED <<localVars, tx, aborted, stored, deliveries>>
        /\ UNCHANGED <<api, jobRow, progress, ttl, polling, view>>
    BY <1>7 DEF Relate, apiVars, brokerVars, redisVars, txVars, clientVars
  <2>2. /\ Moves(e) /\ pc'[e] = "final" /\ imported'[e] = imported[e] /\ errored'[e] = errored[e]
    BY <2>1, GotoStep DEF Label
  <2> QED
    BY <1>1, <2>1, <2>2, QuietAll DEF Counts, Passing
<1>8. CASE RelateFails(e) \/ LoseWorker(e) \/ FailTask(e)
  <2>1. PICK label \in {"failed", "lost"} : Abandon(e, label) /\ Running(e)
    BY <1>8 DEF RelateFails, LoseWorker, FailTask, Running
  <2>2. /\ Moves(e) /\ pc'[e] = label /\ imported'[e] = imported[e] /\ errored'[e] = errored[e]
        /\ UNCHANGED <<api, jobRow, progress, ttl, polling, view>>
    BY <2>1, AbandonStep DEF Running
  <2> QED
    BY <1>1, <2>1, <2>2, QuietAll DEF Counts, Ending
<1>9. CASE ReportFinal(e) \/ SetExpiry(e) \/ SyncRow(e) \/ Acknowledge(e)
  <2>1. PICK label \in {"expire", "sync", "return", "finished"} :
            Goto(e, label) /\ pc[e] \in {"final", "expire", "sync", "return"}
            /\ UNCHANGED <<localVars, tx, aborted, stored, deliveries, api, polling, view>>
    BY <1>9 DEF ReportFinal, SetExpiry, SyncRow, Acknowledge, apiVars, brokerVars, txVars, clientVars
  <2>2. /\ Moves(e) /\ pc'[e] = label /\ imported'[e] = imported[e] /\ errored'[e] = errored[e]
    BY <2>1, GotoStep DEF Label
  <2>3. \A label2 : Goto(e, label2) => pc'[e] = label2
    BY <1>1 DEF Goto, Locals
  <2>4. CASE ReportFinal(e)
    <3>1. /\ HashOK(FinalFields(e)) /\ HSet(JobOf(e), FinalFields(e))
          /\ UNCHANGED <<ttl, jobRow>> /\ pc[e] = "final" /\ pc'[e] = "expire"
      BY <2>3, <2>4, HashesWritten DEF FinalFields, ReportFinal, apiVars
    <3>2. /\ progress'[JobOf(e)] = Overlay(progress[JobOf(e)], FinalFields(e))
          /\ \A q \in Job \ {JobOf(e)} : Quiet(q)
      BY <3>1, WrittenHash
    <3> QED
      BY <2>1, <2>2, <3>1, <3>2 DEF Counts, Writing
  <2>5. CASE SetExpiry(e)
    <3>1. /\ \A q \in Job \ {JobOf(e)} : Quiet(q)
          /\ Expiring(e)
      BY <1>1, <2>3, <2>5 DEF SetExpiry, apiVars, Quiet, Expiring, Shared
    <3> QED
      BY <2>1, <2>2, <3>1 DEF Counts
  <2>6. CASE SyncRow(e)
    <3>1. pc[e] = "sync" /\ pc'[e] = "return" /\ UNCHANGED <<progress, ttl>>
          /\ jobRow' = IF api[JobOf(e)] # "committed" THEN jobRow
                       ELSE [jobRow EXCEPT ![JobOf(e)] = Result(e)]
      BY <2>3, <2>6 DEF SyncRow, redisVars, Result
    <3>2. /\ \A q \in Job \ {JobOf(e)} : Quiet(q)
          /\ Syncing(e)
      BY <1>1, <3>1 DEF Quiet, Syncing, Shared
    <3> QED
      BY <2>1, <2>2, <3>2 DEF Counts
  <2>7. CASE Acknowledge(e)
    <3>1. pc[e] = "return" /\ pc'[e] = "finished" /\ UNCHANGED <<progress, ttl, jobRow>>
      BY <2>3, <2>7 DEF Acknowledge, apiVars, redisVars
    <3> QED
      BY <1>1, <2>1, <2>2, <3>1, QuietAll DEF Counts, Returning
  <2> QED
    BY <1>9, <2>4, <2>5, <2>6, <2>7
<1> QED
  BY <1>2, <1>3, <1>4, <1>5, <1>6, <1>7, <1>8, <1>9 DEF Work

\* Everything else: the handler, the broker, the expiry and the client.
LEMMA QuietSteps ==
    ASSUME TypeInv, [Next]_vars,
           \A j \in Job : ~Deliver(j) /\ ~KeyExpires(j),
           \A e \in Exec : ~Counts(e)
    PROVE  UNCHANGED <<progress, ttl, jobRow, deliveries, pc, imported, errored>>
<1>1. \A e \in Exec : ~Work(e) /\ ~DeadlockVictim(e) /\ ~LoseWorker(e) /\ ~FailTask(e)
  BY CountingSteps
<1>2. CASE UNCHANGED vars
  BY <1>2 DEF vars, apiVars, brokerVars, redisVars, localVars
<1>3. ASSUME NEW j \in Job,
             \/ Submit(j)  \/ Respond(j) \/ CommitJob(j) \/ LoseJob(j)
             \/ Restore(j) \/ PollHash(j)  \/ PollRow(j)
      PROVE  UNCHANGED <<progress, ttl, jobRow, deliveries, pc, imported, errored>>
  BY <1>3 DEF Submit, Respond, CommitJob, LoseJob, Restore, PollHash, PollRow,
              apiVars, brokerVars, redisVars, localVars
<1> QED
  BY <1>1, <1>2, <1>3 DEF Next

LEMMA CountedSizes ==
    ASSUME TypeInv, NEW e \in Exec
    PROVE  /\ Cardinality(imported[e]) \in Nat /\ Cardinality(errored[e]) \in Nat
           /\ Cardinality(imported[e]) + Cardinality(errored[e]) = pos[e]
           /\ pc[e] = "final" => pos[e] = Total(JobOf(e))
<1>1. pos[e] \in Nat /\ Counted(e) /\ Place(e)
  BY TypesOfAll DEF TypeInv, Locals
<1> QED
  BY <1>1, Sizes DEF Place

\* Whatever the fields are merged into, the counters they bring add up.
LEMMA WrittenSums ==
    ASSUME TypeInv, NEW e \in Exec, NEW fields,
           \/ fields = StartFields(e) \/ fields = ChunkFields(e)
           \/ fields = FinalFields(e) /\ pc[e] = "final",
           NEW h
    PROVE  Sums(Overlay(h, fields))
<1>1. /\ Cardinality(imported[e]) \in Nat /\ Cardinality(errored[e]) \in Nat
      /\ Cardinality(imported[e]) + Cardinality(errored[e]) = pos[e]
      /\ pc[e] = "final" => pos[e] = Total(JobOf(e))
  BY CountedSizes
<1>2. /\ {"imported", "error_count", "processed"} \subseteq DOMAIN fields
      /\ fields["imported"] + fields["error_count"] = fields["processed"]
  BY <1>1 DEF StartFields, ChunkFields, FinalFields
<1>3. /\ DOMAIN Overlay(h, fields) = DOMAIN h \cup DOMAIN fields
      /\ \A f \in DOMAIN fields : Overlay(h, fields)[f] = fields[f]
  BY DEF Overlay
<1> QED
  BY <1>2, <1>3 DEF Sums

LEMMA StepSums ==
    ASSUME HashInv, [Next]_vars, NEW j \in Job
    PROVE  Sums(progress[j])'
<1>1. TypeInv /\ Sums(progress[j]) /\ Shared
  BY TypesOfAll DEF HashInv, TypeInv
<1>2. CASE progress'[j] = progress[j]
  BY <1>1, <1>2 DEF Sums
<1>3. CASE progress'[j] = << >>
  BY <1>3, EmptyPartial DEF Sums
<1>4. CASE \E q \in Job : Deliver(q)
  BY <1>2, <1>4 DEF Deliver, redisVars
<1>5. CASE \E q \in Job : KeyExpires(q)
  BY <1>1, <1>2, <1>3, <1>5 DEF KeyExpires, Shared
<1>6. ASSUME NEW e \in Exec, Counts(e) PROVE Sums(progress[j])'
  <2>1. CASE j # JobOf(e)
    BY <1>2, <1>6, <2>1 DEF Counts, Quiet
  <2>2. CASE j = JobOf(e)
    <3>1. ASSUME NEW fields, progress'[j] = Overlay(progress[j], fields),
                 \/ fields = StartFields(e) \/ fields = ChunkFields(e)
                 \/ fields = FinalFields(e) /\ pc[e] = "final"
          PROVE  Sums(progress[j])'
      <4>1. Sums(Overlay(progress[j], fields))
        BY <1>1, <3>1, WrittenSums
      <4> QED
        BY <3>1, <4>1 DEF Sums
    <3>2. \/ progress'[j] = progress[j]
          \/ progress'[j] = Overlay(progress[j], StartFields(e))
          \/ progress'[j] = Overlay(progress[j], ChunkFields(e))
          \/ progress'[j] = Overlay(progress[j], FinalFields(e)) /\ pc[e] = "final"
      BY <1>6, <2>2 DEF Counts, Passing, Ending, Writing, Expiring, Syncing, Returning, Quiet
    <3> QED
      BY <1>2, <3>1, <3>2
  <2> QED
    BY <2>1, <2>2
<1>7. CASE UNCHANGED progress
  BY <1>2, <1>7
<1> QED
  BY <1>1, <1>4, <1>5, <1>6, <1>7, QuietSteps

-----------------------------------------------------------------------------
(* The only delivery of a message.                                         *)

\* Until the message is delivered again, only its first delivery works.
LEMMA OneDelivery ==
    ASSUME TypeInv, NEW j \in Job
    PROVE  /\ deliveries[j] \in 0..MaxDeliveries /\ deliveries[j] \in Nat
           /\ deliveries[j] = 1 => <<j, 1>> \in Exec /\ JobOf(<<j, 1>>) = j /\ pc[<<j, 1>>] # "none"
           /\ \A e \in Exec : JobOf(e) = j /\ pc[e] # "none" /\ deliveries[j] <= 1 =>
                 e = <<j, 1>> /\ deliveries[j] = 1
<1>1. deliveries[j] \in 0..MaxDeliveries /\ deliveries[j] \in Nat
  <2>1. deliveries[j] \in 0..MaxDeliveries
    BY TypesOfAll DEF TypeInv, Shared
  <2> QED
    BY <2>1, Bounds
<1>2. ASSUME deliveries[j] = 1
      PROVE  <<j, 1>> \in Exec /\ JobOf(<<j, 1>>) = j /\ pc[<<j, 1>>] # "none"
  <2>1. 1 \in 1..MaxDeliveries
    BY <1>1, <1>2, Bounds
  <2>2. <<j, 1>> \in Exec
    BY <2>1 DEF Exec
  <2>3. pc[<<j, 1>>] = "none" <=> 1 > deliveries[j]
    BY <2>2 DEF TypeInv, Numbered
  <2> QED
    BY <1>2, <2>2, <2>3 DEF JobOf
<1>3. ASSUME NEW e \in Exec, JobOf(e) = j, pc[e] # "none", deliveries[j] <= 1
      PROVE  e = <<j, 1>> /\ deliveries[j] = 1
  <2>1. e[2] \in 1..MaxDeliveries /\ e = <<e[1], e[2]>> /\ e[1] = j
    BY <1>3, Executions
  <2>2. ~(e[2] > deliveries[j])
    BY <1>3, <2>1 DEF TypeInv, Numbered
  <2>3. e[2] = 1 /\ deliveries[j] = 1
    BY <1>1, <1>3, <2>1, <2>2, Bounds
  <2> QED
    BY <2>1, <2>3
<1> QED
  BY <1>1, <1>2, <1>3

\* What the hash is after each of the three writes.
LEMMA StartHash ==
    ASSUME NEW e \in Exec, NEW h, h = Overlay(<< >>, StartFields(e))
    PROVE  RunningHash(h, e)
<1>1. DOMAIN StartFields(e) = Counter \cup {"status"}
  BY DEF StartFields, Counter
<1>2. DOMAIN h = Counter \cup {"status"}
  BY <1>1, EmptyPartial DEF Overlay
<1>3. h["status"] = "running" /\ h["total"] = Total(JobOf(e))
  BY <1>1 DEF Counter, StartFields, Overlay
<1> QED
  BY <1>2, <1>3 DEF RunningHash

LEMMA ChunkHash ==
    ASSUME NEW e \in Exec, NEW g, RunningHash(g, e), NEW h, h = Overlay(g, ChunkFields(e))
    PROVE  RunningHash(h, e)
<1>1. DOMAIN ChunkFields(e) = {"imported", "error_count", "processed"}
  BY DEF ChunkFields
<1>2. DOMAIN h = Counter \cup {"status"}
  BY <1>1 DEF RunningHash, Counter, Overlay
<1>3. h["status"] = g["status"] /\ h["total"] = g["total"]
  BY <1>1 DEF RunningHash, Counter, Overlay
<1> QED
  BY <1>2, <1>3 DEF RunningHash

LEMMA LastHash ==
    ASSUME NEW e \in Exec, NEW g, RunningHash(g, e), NEW h, h = Overlay(g, FinalFields(e))
    PROVE  FinalHash(h, e)
<1>1. DOMAIN FinalFields(e) = {"status", "imported", "error_count", "processed", "errors"}
  BY DEF FinalFields
<1>2. DOMAIN h = Counter \cup {"status", "errors"}
  BY <1>1 DEF RunningHash, Counter, Overlay
<1>3. h["total"] = g["total"]
  BY <1>1 DEF RunningHash, Counter, Overlay
<1>4. /\ h["status"] = FinalStatus(e) /\ h["imported"] = Cardinality(imported[e])
      /\ h["error_count"] = Cardinality(errored[e]) /\ h["processed"] = Total(JobOf(e))
      /\ h["errors"] = Capped(errored[e])
  <2>1. \A f \in DOMAIN FinalFields(e) : h[f] = FinalFields(e)[f]
    BY DEF Overlay
  <2> QED
    BY <1>1, <2>1 DEF FinalFields
<1> QED
  BY <1>2, <1>3, <1>4 DEF FinalHash, RunningHash

\* A step that leaves hash, key, row and counts keeps what is known of them.
LEMMA StillTrue ==
    ASSUME NEW j, NEW e, Quiet(j), imported'[e] = imported[e], errored'[e] = errored[e]
    PROVE  /\ Fresh(j) => Fresh(j)'
           /\ Begun(j, e) => \A r : r = e => Begun(j, r)'
           /\ Final(j, e) => \A r : r = e => Final(j, r)'
           /\ Over(j, e) => \A r : r = e => Over(j, r)'
BY DEF Quiet, Fresh, Begun, Final, Over, RunningHash, FinalHash, Result, FinalStatus, Capped

LEMMA CountedOnly ==
    ASSUME HashInv, NEW j \in Job, NEW e \in Exec, e = <<j, 1>>, JobOf(e) = j,
           deliveries[j] = 1, Counts(e)
    PROVE  \A r \in Exec : r = e => Only(j, r)'
<1>1. TypeInv /\ Only(j, e)
  BY DEF HashInv, JobInv
<1>2. CASE Passing(e)
  <2>1. Begun(j, e) /\ Quiet(j)
    BY <1>1, <1>2 DEF Passing, Only
  <2>2. \A r : r = e => Begun(j, r)'
    BY <2>1 DEF Begun, RunningHash, Quiet
  <2> QED
    BY <1>2, <2>2 DEF Passing, Only
<1>3. CASE pc[e] # "ingest" /\ Ending(e)
  <2>1. Quiet(j) /\ imported'[e] = imported[e] /\ errored'[e] = errored[e]
        /\ pc'[e] \in {"lost", "failed"}
    BY <1>3 DEF Ending, Counts
  <2>2. pc[e] \in Label \ {"none", "lost", "failed", "finished"}
    BY <1>1, <1>3, TypesOfAll DEF Ending, Running, TypeInv, Locals
  <2>3. Fresh(j) \/ Begun(j, e) \/ Over(j, e)
    BY <1>1, <2>2 DEF Only, Label, Final, Over
  <2>4. Fresh(j)' \/ \A r : r = e => Begun(j, r)' \/ Over(j, r)'
    BY <2>1, <2>3, StillTrue
  <2> QED
    BY <2>1, <2>4 DEF Only
<1>4. CASE pc[e] = "ingest" /\ Ending(e)
  <2>1. Begun(j, e) /\ Quiet(j) /\ pc'[e] \in {"lost", "failed"}
    BY <1>1, <1>4 DEF Ending, Only
  <2>2. \A r : r = e => Begun(j, r)'
    BY <2>1 DEF Begun, RunningHash, Quiet
  <2> QED
    BY <2>1, <2>2 DEF Only
<1>5. CASE Writing(e, "start", {"ingest"}, StartFields(e))
  <2>1. Fresh(j) /\ progress'[j] = Overlay(<< >>, StartFields(e)) /\ pc'[e] = "ingest"
        /\ ttl'[j] = ttl[j] /\ jobRow'[j] = jobRow[j]
    BY <1>1, <1>5 DEF Writing, Only, Fresh
  <2>2. RunningHash(progress'[j], e)
    BY <2>1, StartHash
  <2>3. \A r : r = e => Begun(j, r)'
    BY <2>1, <2>2 DEF Begun, Fresh, RunningHash
  <2> QED
    BY <2>1, <2>3 DEF Only
<1>6. CASE Writing(e, "report", {"ingest", "relate", "final"}, ChunkFields(e))
  <2>1. Begun(j, e) /\ progress'[j] = Overlay(progress[j], ChunkFields(e))
        /\ pc'[e] \in {"ingest", "relate", "final"}
        /\ ttl'[j] = ttl[j] /\ jobRow'[j] = jobRow[j]
    BY <1>1, <1>6 DEF Writing, Only
  <2>2. RunningHash(progress'[j], e)
    BY <2>1, ChunkHash DEF Begun
  <2>3. \A r : r = e => Begun(j, r)'
    BY <2>1, <2>2 DEF Begun, RunningHash
  <2> QED
    BY <2>1, <2>3 DEF Only
<1>7. CASE Writing(e, "final", {"expire"}, FinalFields(e))
  <2>1. Begun(j, e) /\ progress'[j] = Overlay(progress[j], FinalFields(e))
        /\ pc[e] = "final" /\ pc'[e] = "expire"
        /\ ttl'[j] = ttl[j] /\ jobRow'[j] = jobRow[j]
    BY <1>1, <1>7 DEF Writing, Only
  <2>2. FinalHash(progress'[j], e)
    BY <2>1, LastHash DEF Begun
  <2>3. imported'[e] = imported[e] /\ errored'[e] = errored[e]
    BY <2>1 DEF Counts
  <2>4. \A r : r = e => Final(j, r)' /\ ~ttl'[j]
    BY <2>1, <2>2, <2>3 DEF Begun, Final, FinalHash, FinalStatus, Capped
  <2> QED
    BY <2>1, <2>4 DEF Only
<1>8. CASE Expiring(e)
  <2>1. Final(j, e) /\ pc[e] = "expire" /\ pc'[e] = "sync" /\ progress'[j] = progress[j]
        /\ jobRow'[j] = jobRow[j]
    BY <1>1, <1>8 DEF Expiring, Only
  <2>2. imported'[e] = imported[e] /\ errored'[e] = errored[e]
    BY <2>1 DEF Counts
  <2>3. \A r : r = e => Final(j, r)'
    BY <2>1, <2>2 DEF Final, FinalHash, FinalStatus, Capped
  <2> QED
    BY <2>1, <2>3 DEF Only
<1>9. CASE Syncing(e)
  <2>1. Final(j, e) /\ pc[e] = "sync" /\ pc'[e] = "return" /\ progress'[j] = progress[j]
        /\ jobRow'[j] \in {jobRow[j], Result(e)}
    BY <1>1, <1>9 DEF Syncing, Only
  <2>2. imported'[e] = imported[e] /\ errored'[e] = errored[e]
    BY <2>1 DEF Counts
  <2>3. \A r : r = e => Over(j, r)'
    BY <2>1, <2>2 DEF Final, Over, FinalHash, FinalStatus, Capped, Result
  <2> QED
    BY <2>1, <2>3 DEF Only
<1>10. CASE Returning(e)
  <2>1. Over(j, e) /\ Quiet(j) /\ pc[e] = "return" /\ pc'[e] = "finished"
    BY <1>1, <1>10 DEF Returning, Only
  <2>2. imported'[e] = imported[e] /\ errored'[e] = errored[e]
    BY <2>1 DEF Counts
  <2>3. \A r : r = e => Over(j, r)'
    BY <2>1, <2>2, StillTrue
  <2> QED
    BY <2>1, <2>3 DEF Only
<1> QED
  BY <1>2, <1>3, <1>4, <1>5, <1>6, <1>7, <1>8, <1>9, <1>10 DEF Counts

LEMMA JobInvKept ==
    ASSUME TypeInv, NEW j \in Job, JobInv(j), Quiet(j), deliveries'[j] = deliveries[j],
           \A e \in Exec : e = <<j, 1>> =>
               pc'[e] = pc[e] /\ imported'[e] = imported[e] /\ errored'[e] = errored[e]
    PROVE  JobInv(j)'
<1>1. CASE deliveries[j] = 0
  BY <1>1 DEF JobInv, Fresh, Quiet
<1>2. CASE deliveries[j] = 1
  <2> DEFINE e == <<j, 1>>
  <2>1. e \in Exec /\ Only(j, e)
    BY <1>2, OneDelivery DEF JobInv
  <2>2. pc'[e] = pc[e] /\ imported'[e] = imported[e] /\ errored'[e] = errored[e]
    BY <2>1
  <2> HIDE DEF e
  <2>3. \A r : r = e => Only(j, r)'
    <3>1. /\ Fresh(j) => Fresh(j)'
          /\ Begun(j, e) => \A r : r = e => Begun(j, r)'
          /\ Final(j, e) => \A r : r = e => Final(j, r)'
          /\ Over(j, e) => \A r : r = e => Over(j, r)'
      BY <2>2, StillTrue
    <3>2. ttl'[j] = ttl[j]
      BY DEF Quiet
    <3> QED
      BY <2>1, <2>2, <3>1, <3>2 DEF Only
  <2> QED
    BY <1>2, <2>3 DEF JobInv, e
<1> QED
  BY <1>1, <1>2 DEF JobInv

LEMMA StepJob ==
    ASSUME HashInv, [Next]_vars, NEW j \in Job
    PROVE  JobInv(j)'
<1>1. TypeInv /\ JobInv(j) /\ Locals /\ Shared
  BY TypesOfAll DEF HashInv, TypeInv, JobInv
<1>2. ASSUME NEW q \in Job, Deliver(q) PROVE JobInv(j)'
  <2>1. /\ UNCHANGED <<progress, ttl, jobRow, imported, errored>>
        /\ deliveries'[q] = deliveries[q] + 1
        /\ \A p \in Job \ {q} : deliveries'[p] = deliveries[p]
        /\ pc'[<<q, deliveries[q] + 1>>] = "start"
        /\ \A r \in Exec \ {<<q, deliveries[q] + 1>>} : pc'[r] = pc[r]
    BY <1>1, <1>2, DeliverStep
  <2>2. CASE q = j
    <3>1. deliveries[j] \in Nat
      BY <1>1, OneDelivery
    <3>2. CASE deliveries[j] = 0
      <4>1. Fresh(j) /\ pc'[<<j, 1>>] = "start" /\ deliveries'[j] = 1
        BY <1>1, <2>1, <2>2, <3>2 DEF JobInv
      <4>2. Fresh(j)'
        BY <2>1, <4>1 DEF Fresh
      <4> QED
        BY <4>1, <4>2 DEF JobInv, Only
    <3>3. CASE deliveries[j] # 0
      BY <2>1, <2>2, <3>1, <3>3 DEF JobInv
    <3> QED
      BY <3>2, <3>3
  <2>3. CASE q # j
    <3>1. \A e \in Exec : e = <<j, 1>> =>
               pc'[e] = pc[e] /\ imported'[e] = imported[e] /\ errored'[e] = errored[e]
      BY <2>1, <2>3
    <3> QED
      BY <1>1, <2>1, <2>3, <3>1, JobInvKept, QuietAll
  <2> QED
    BY <2>2, <2>3
<1>3. ASSUME NEW q \in Job, KeyExpires(q) PROVE JobInv(j)'
  <2>1. /\ ttl[q] /\ \A r \in Exec : JobOf(r) = q => pc[r] # "sync"
        /\ progress'[q] = << >> /\ \A p \in Job \ {q} : progress'[p] = progress[p] /\ ttl'[p] = ttl[p]
        /\ UNCHANGED <<jobRow, deliveries, pc, imported, errored>>
    BY <1>1, <1>3 DEF KeyExpires, Shared, apiVars, brokerVars, localVars
  <2>2. CASE q = j
    <3>1. CASE deliveries[j] = 0
      BY <1>1, <2>1, <2>2, <3>1 DEF JobInv, Fresh
    <3>2. CASE deliveries[j] = 1
      <4> DEFINE e == <<j, 1>>
      <4>1. e \in Exec /\ JobOf(e) = j /\ Only(j, e) /\ pc[e] # "none" /\ pc[e] \in Label
        BY <1>1, <3>2, OneDelivery DEF JobInv, Locals
      <4> HIDE DEF e
      <4>2. Over(j, e) /\ pc[e] \in {"return", "finished", "lost", "failed"}
        BY <2>1, <2>2, <4>1 DEF Only, Fresh, Begun, Label
      <4>3. \A r : r = e => Over(j, r)'
        BY <2>1, <2>2, <4>2 DEF Over, Result, FinalStatus
      <4>4. \A r : r = e => Only(j, r)'
        BY <2>1, <4>2, <4>3 DEF Only
      <4> QED
        BY <2>1, <3>2, <4>4 DEF JobInv, e
    <3>3. CASE deliveries[j] \notin {0, 1}
      BY <2>1, <3>3 DEF JobInv
    <3> QED
      BY <3>1, <3>2, <3>3
  <2>3. CASE q # j
    BY <1>1, <2>1, <2>3, JobInvKept DEF Quiet
  <2> QED
    BY <2>2, <2>3
<1>4. ASSUME NEW f \in Exec, Counts(f) PROVE JobInv(j)'
  <2>1. /\ deliveries' = deliveries /\ pc[f] # "none"
        /\ \A r \in Exec \ {f} : pc'[r] = pc[r] /\ imported'[r] = imported[r] /\ errored'[r] = errored[r]
        /\ \A p \in Job \ {JobOf(f)} : Quiet(p)
    BY <1>4 DEF Counts, Moves, Others, Same
  <2>2. CASE JobOf(f) # j
    <3>1. \A e \in Exec : e = <<j, 1>> => e # f
      BY <2>2 DEF JobOf
    <3> QED
      BY <1>1, <2>1, <2>2, <3>1, JobInvKept
  <2>3. CASE JobOf(f) = j /\ deliveries[j] \in {0, 1}
    <3>1. f = <<j, 1>> /\ deliveries[j] = 1
      <4>1. deliveries[j] <= 1
        BY <2>3
      <4> QED
        BY <1>1, <2>1, <2>3, <4>1, OneDelivery
    <3>2. \A r \in Exec : r = f => Only(j, r)'
      BY <1>4, <2>3, <3>1, CountedOnly
    <3> QED
      BY <2>1, <3>1, <3>2 DEF JobInv
  <2>4. CASE deliveries[j] \notin {0, 1}
    BY <2>1, <2>4 DEF JobInv
  <2> QED
    BY <2>2, <2>3, <2>4
<1>5. CASE UNCHANGED <<progress, ttl, jobRow, deliveries, pc, imported, errored>>
  BY <1>1, <1>5, JobInvKept, QuietAll
<1> QED
  BY <1>1, <1>2, <1>3, <1>4, <1>5, QuietSteps

LEMMA StepHash == HashInv /\ [Next]_vars => HashInv'
<1> SUFFICES ASSUME HashInv, [Next]_vars PROVE HashInv'
  OBVIOUS
<1>1. TypeInv'
  BY StepTypes DEF HashInv
<1>2. \A j \in Job : Sums(progress[j])' /\ JobInv(j)'
  BY StepSums, StepJob
<1> QED
  BY <1>1, <1>2 DEF HashInv, JobInv

LEMMA InitHash == Init => HashInv
<1> SUFFICES ASSUME Init PROVE HashInv
  OBVIOUS
<1>1. TypeInv
  BY InitTypes
<1>2. \A j \in Job : /\ progress[j] = << >> /\ ~ttl[j] /\ jobRow[j] = Pending
                     /\ deliveries[j] = 0
  BY DEF Init
<1> QED
  BY <1>1, <1>2, EmptyPartial DEF HashInv, JobInv, Sums, Fresh

LEMMA AlwaysHash == Spec => []HashInv
BY InitHash, StepHash, PTL DEF Spec

\* The counters of a hash add up, however deliveries overlap and keys expire:
\* every write of the worker sets all three (HSET in _run_bulk_import).
THEOREM CountersAddUp == Spec => []CountsAddUp
<1>1. HashInv => CountsAddUp
  BY DEF HashInv, Sums, CountsAddUp
<1> QED
  BY <1>1, AlwaysHash, PTL

\* The first MaxErrors of a finite set of positions: all of them, or as many
\* as the hash keeps.  Positions are numbered by how many are below them.
LEMMA CappedSize ==
    ASSUME NEW S \in SUBSET Nat, IsFiniteSet(S)
    PROVE  Cardinality(Capped(S)) = IF Cardinality(S) < MaxErrors THEN Cardinality(S) ELSE MaxErrors
<1> DEFINE n == Cardinality(S)
           Below(i) == {q \in S : q < i}
           rank == [i \in S |-> Cardinality(Below(i))]
           m == IF n < MaxErrors THEN n ELSE MaxErrors
<1>1. n \in Nat /\ MaxErrors \in Nat /\ m \in Nat
  BY FS_CardinalityType, Bounds
<1>2. ASSUME NEW i \in S
      PROVE  /\ IsFiniteSet(Below(i)) /\ Cardinality(Below(i)) \in 0..(n - 1)
  <2>1. Below(i) \in SUBSET S /\ i \notin Below(i)
    OBVIOUS
  <2>2. /\ IsFiniteSet(Below(i)) /\ Cardinality(Below(i)) <= n
        /\ n = Cardinality(Below(i)) => S = Below(i)
    BY <2>1, FS_Subset
  <2>3. Cardinality(Below(i)) \in Nat
    BY <2>2, FS_CardinalityType
  <2> HIDE DEF Below, n
  <2> QED
    BY <1>1, <2>1, <2>2, <2>3
<1>3. ASSUME NEW i \in S, NEW k \in S, i < k
      PROVE  rank[i] # rank[k]
  <2>1. Below(i) \in SUBSET Below(k) /\ i \in Below(k) /\ i \notin Below(i)
    <3>1. \A q \in S : q \in Nat
      OBVIOUS
    <3>2. \A q \in S : q < i => q < k
      BY <1>3, <3>1
    <3>3. ~(i < i)
      BY <3>1
    <3> QED
      BY <1>3, <3>2, <3>3
  <2>2. Cardinality(Below(k)) = Cardinality(Below(i)) => Below(k) = Below(i)
    BY <1>2, <2>1, FS_Subset
  <2> HIDE DEF Below
  <2> QED
    BY <2>1, <2>2
<1>4. rank \in [S -> 0..(n - 1)]
  BY <1>2
<1>5. rank \in Injection(S, 0..(n - 1))
  <2>1. \A i, k \in S : rank[i] = rank[k] => i = k
    <3> HIDE DEF rank
    <3> QED
      BY <1>3
  <2> HIDE DEF rank, n
  <2> QED
    BY <1>4, <2>1 DEF Injection, IsInjective
<1> HIDE DEF n
<1>6. IsFiniteSet(0..(n - 1)) /\ Cardinality(0..(n - 1)) = n
  BY <1>1, FS_Interval
<1>7. rank \in Surjection(S, 0..(n - 1))
  <2> HIDE DEF rank
  <2> QED
    BY <1>5, <1>6, FS_Injection DEF n
<1> DEFINE C == Capped(S)
           first == [i \in C |-> rank[i]]
<1>8. C = {i \in S : rank[i] < MaxErrors}
  BY DEF Capped
<1> HIDE DEF rank, C
<1>9. first \in Bijection(C, 0..(m - 1))
  <2>1. C \subseteq S
    BY <1>8
  <2>2. \A i \in C : rank[i] \in 0..(m - 1)
    BY <1>1, <1>4, <1>8
  <2>3. first \in [C -> 0..(m - 1)]
    BY <2>2
  <2>4. \A i, k \in C : first[i] = first[k] => i = k
    BY <1>5, <2>1 DEF Injection, IsInjective
  <2>5. ASSUME NEW r \in 0..(m - 1) PROVE \E i \in C : first[i] = r
    <3>1. r \in 0..(n - 1) /\ r < MaxErrors
      BY <1>1, <2>5
    <3>2. PICK i \in S : rank[i] = r
      BY <1>7, <3>1 DEF Surjection
    <3> QED
      BY <1>8, <3>1, <3>2
  <2> HIDE DEF first
  <2>6. first \in Injection(C, 0..(m - 1))
    BY <2>3, <2>4 DEF Injection, IsInjective
  <2>7. first \in Surjection(C, 0..(m - 1))
    BY <2>3, <2>5 DEF Surjection
  <2> QED
    BY <2>6, <2>7 DEF Bijection
<1>10. IsFiniteSet(C)
  <2>1. C \in SUBSET S
    BY <1>8
  <2> QED
    BY <2>1, FS_Subset
<1>11. ExistsBijection(C, 0..(m - 1))
  <2> HIDE DEF first
  <2> QED
    BY <1>9 DEF ExistsBijection
<1>12. Cardinality(0..(m - 1)) = Cardinality(C)
  BY <1>10, <1>11, FS_Bijection
<1>13. Cardinality(0..(m - 1)) = m
  <2> HIDE DEF m
  <2> QED
    BY <1>1, FS_Interval
<1> QED
  BY <1>12, <1>13 DEF C, n

\* As long as a message is delivered once, its hash is whole whenever it is
\* there, a final row repeats it, and it lists as many errors as it counts, up
\* to the limit of the list (job_status reads one or the other).
THEOREM HashAndRowTogether == Spec => []HashAndRowAgree
<1>1. HashInv => HashAndRowAgree
  <2> SUFFICES ASSUME HashInv, NEW j \in Job, deliveries[j] <= 1, progress[j] # << >>
               PROVE  LET h == progress[j] IN
                 /\ {"status", "total", "imported", "error_count", "processed"} \subseteq DOMAIN h
                 /\ jobRow[j].status # "queued" =>
                       jobRow[j] = [status |-> h["status"], imported |-> h["imported"],
                                    error_count |-> h["error_count"]]
                 /\ h["status"] # "running" =>
                       /\ h["processed"] = h["total"]
                       /\ Cardinality(h["errors"]) = IF h["error_count"] < MaxErrors
                                                     THEN h["error_count"] ELSE MaxErrors
    BY DEF HashAndRowAgree
  <2> DEFINE e == <<j, 1>>
  <2>1. TypeInv /\ deliveries[j] = 1 /\ Only(j, e)
    <3>1. TypeInv /\ deliveries[j] \in Nat
      BY OneDelivery DEF HashInv
    <3>2. deliveries[j] # 0
      BY DEF HashInv, JobInv, Fresh
    <3> QED
      BY <3>1, <3>2 DEF HashInv, JobInv
  <2>2. e \in Exec /\ JobOf(e) = j /\ pc[e] # "none" /\ pc[e] \in Label
    BY <2>1, OneDelivery, TypesOfAll DEF TypeInv, Locals
  <2>3. Cardinality(Capped(errored[e])) =
            IF Cardinality(errored[e]) < MaxErrors THEN Cardinality(errored[e]) ELSE MaxErrors
    <3>1. pos[e] \in Nat /\ Counted(e) /\ errored[e] \in SUBSET (Nat \ {0})
      BY <2>1, <2>2, TypesOfAll DEF TypeInv, Locals
    <3>2. IsFiniteSet(errored[e])
      BY <2>2, <3>1, Sizes
    <3> QED
      BY <3>1, <3>2, CappedSize
  <2> HIDE DEF e
  <2>4. Begun(j, e) \/ Final(j, e) \/ Over(j, e)
    BY <2>1, <2>2 DEF Only, Label, Fresh
  <2>5. CASE RunningHash(progress[j], e) /\ jobRow[j] = Pending
    BY <2>5 DEF RunningHash, Pending, Counter
  <2>6. CASE FinalHash(progress[j], e) /\ jobRow[j] \in {Pending, Result(e)}
    <3>1. {"status", "total", "imported", "error_count", "processed"} \subseteq DOMAIN progress[j]
      BY <2>6 DEF FinalHash, Counter
    <3>2. jobRow[j].status # "queued" => jobRow[j] = Result(e)
      BY <2>6 DEF Pending
    <3> QED
      BY <2>2, <2>3, <2>6, <3>1, <3>2 DEF FinalHash, Result
  <2> QED
    BY <2>4, <2>5, <2>6 DEF Begun, Final, Over
<1> QED
  BY <1>1, AlwaysHash, PTL

-----------------------------------------------------------------------------
(* What a client sees.                                                     *)

LEMMA Ranks ==
    \A s : /\ Rank(s) \in 0..3
           /\ s \in {"not found", "queued"} => Rank(s) \in {0, 1}
           /\ s = "running" => Rank(s) = 2
           /\ s \in {"done", "failed"} => Rank(s) = 3
<1>1. \A s : Rank(s) \in 0..3
  BY DEF Rank
<1>2. /\ Rank("not found") = 0 /\ Rank("queued") = 1 /\ Rank("running") = 2
      /\ Rank("done") = 3 /\ Rank("failed") = 3
  BY DEF Rank
<1> QED
  BY <1>1, <1>2, Zenon

\* Once the row missed the result it stays so until the message comes again.
LEMMA MissedStays ==
    ASSUME HashInv, [Next]_vars, NEW j \in Job, deliveries'[j] <= 1
    PROVE  deliveries[j] <= 1 /\ (MissedSync(j) => MissedSync(j)')
<1>1. TypeInv /\ deliveries[j] \in Nat /\ Locals /\ Shared
  BY OneDelivery, TypesOfAll DEF HashInv, TypeInv
<1>2. ASSUME NEW q \in Job, Deliver(q)
      PROVE  deliveries[j] <= 1 /\ (MissedSync(j) => MissedSync(j)')
  <2>1. /\ UNCHANGED <<jobRow>> /\ deliveries'[q] = deliveries[q] + 1
        /\ \A p \in Job \ {q} : deliveries'[p] = deliveries[p]
        /\ pc[<<q, deliveries[q] + 1>>] = "none"
        /\ \A r \in Exec \ {<<q, deliveries[q] + 1>>} : pc'[r] = pc[r]
    BY <1>1, <1>2, DeliverStep
  <2>2. deliveries[j] <= 1
    BY <1>1, <2>1
  <2> QED
    BY <2>1, <2>2 DEF MissedSync
<1>3. CASE UNCHANGED <<jobRow, deliveries, pc>>
  BY <1>3 DEF MissedSync
<1>4. ASSUME NEW q \in Job, KeyExpires(q) PROVE UNCHANGED <<jobRow, deliveries, pc>>
  BY <1>4 DEF KeyExpires, apiVars, brokerVars
<1>5. ASSUME NEW f \in Exec, Counts(f)
      PROVE  deliveries[j] <= 1 /\ (MissedSync(j) => MissedSync(j)')
  <2>1. /\ deliveries' = deliveries /\ pc[f] # "none"
        /\ \A r \in Exec \ {f} : pc'[r] = pc[r]
        /\ \A p \in Job \ {JobOf(f)} : Quiet(p)
    BY <1>5 DEF Counts, Moves, Others, Same
  <2>2. ASSUME MissedSync(j) PROVE MissedSync(j)'
    <3>1. PICK e \in Exec : /\ JobOf(e) = j /\ pc[e] \in {"return", "finished", "lost", "failed"}
                            /\ jobRow[j].status = "queued"
      BY <2>2 DEF MissedSync
    <3>2. CASE f = e
      <4>1. jobRow'[j] = jobRow[j] /\ pc'[e] \in {"return", "finished", "lost", "failed"}
        BY <1>5, <3>1, <3>2 DEF Counts, Passing, Ending, Writing, Expiring, Syncing, Returning, Quiet
      <4> QED
        BY <3>1, <4>1 DEF MissedSync
    <3>3. CASE f # e
      <4>1. JobOf(f) # j
        <5>1. pc[e] # "none" /\ deliveries[j] <= 1
          BY <2>1, <3>1
        <5> QED
          BY <1>1, <2>1, <3>1, <3>3, <5>1, OneDelivery
      <4>2. jobRow'[j] = jobRow[j] /\ pc'[e] = pc[e]
        BY <2>1, <3>3, <4>1 DEF Quiet
      <4> QED
        BY <3>1, <4>2 DEF MissedSync
    <3> QED
      BY <3>2, <3>3
  <2> QED
    BY <2>1, <2>2
<1> QED
  BY <1>1, <1>2, <1>3, <1>4, <1>5, QuietSteps

\* A job row with a result belongs to a request that committed.
LEMMA RowCommitted ==
    ASSUME PollInv, [Next]_vars, NEW j \in Job, jobRow'[j].status # "queued"
    PROVE  api'[j] = "committed"
<1>1. /\ TypeInv /\ Shared
      /\ jobRow[j].status # "queued" => api[j] = "committed"
  BY TypesOfAll DEF PollInv, HashInv, TypeInv
<1>2. CASE jobRow'[j] = jobRow[j] /\ api'[j] = api[j]
  BY <1>1, <1>2
<1>3. CASE jobRow'[j] = jobRow[j] /\ api[j] # "committed"
  BY <1>1, <1>3
<1>4. ASSUME NEW f \in Exec, Counts(f) PROVE api'[j] = "committed"
  <2>1. api' = api
    BY <1>4 DEF Counts
  <2>2. CASE Syncing(f) /\ JobOf(f) = j /\ api[j] = "committed"
    BY <2>1, <2>2
  <2>3. CASE jobRow'[j] = jobRow[j]
    BY <1>1, <2>1, <2>3
  <2> QED
    BY <1>4, <2>2, <2>3
    DEF Counts, Passing, Ending, Writing, Expiring, Syncing, Returning, Quiet
<1>5. ASSUME NEW q \in Job,
             \/ Submit(q)  \/ Respond(q) \/ CommitJob(q) \/ LoseJob(q)
      PROVE  jobRow' = jobRow /\ (api[j] = "committed" => api'[j] = api[j])
  BY <1>1, <1>5 DEF Submit, Respond, CommitJob, LoseJob, Shared
<1>6. ASSUME NEW q \in Job,
             \/ Restore(q) \/ PollHash(q) \/ PollRow(q) \/ Deliver(q) \/ KeyExpires(q)
      PROVE  jobRow' = jobRow /\ api' = api
  BY <1>6 DEF Restore, PollHash, PollRow, Deliver, KeyExpires, apiVars
<1>7. CASE UNCHANGED vars
  BY <1>2, <1>7 DEF vars, apiVars
<1> QED
  BY <1>2, <1>3, <1>4, <1>5, <1>6, <1>7, CountingSteps DEF Next, PollInv, HashInv

\* While a hash is there, the row says no more than it.
LEMMA RowBehindHash ==
    ASSUME HashInv, NEW j \in Job, deliveries[j] <= 1, progress[j] # << >>
    PROVE  Rank(RowShown(j)) <= Rank(HashStatus(progress[j]))
<1> DEFINE e == <<j, 1>>
<1>1. TypeInv /\ deliveries[j] = 1 /\ Only(j, e)
  <2>1. TypeInv /\ deliveries[j] \in Nat
    BY OneDelivery DEF HashInv
  <2>2. deliveries[j] # 0
    BY DEF HashInv, JobInv, Fresh
  <2> QED
    BY <2>1, <2>2 DEF HashInv, JobInv
<1>2. e \in Exec /\ pc[e] # "none" /\ pc[e] \in Label
  BY <1>1, OneDelivery, TypesOfAll DEF TypeInv, Locals
<1> HIDE DEF e
<1>3. \/ RunningHash(progress[j], e) /\ jobRow[j] = Pending
      \/ FinalHash(progress[j], e)
  BY <1>1, <1>2 DEF Only, Label, Fresh, Begun, Final, Over
<1>4. CASE RunningHash(progress[j], e) /\ jobRow[j] = Pending
  <2>1. HashStatus(progress[j]) = "running" /\ RowShown(j) \in {"queued", "not found"}
    BY <1>4 DEF RunningHash, HashStatus, RowShown, Pending
  <2>2. Rank(HashStatus(progress[j])) = 2 /\ Rank(RowShown(j)) \in {0, 1}
    BY <2>1, Ranks, Zenon
  <2> QED
    BY <2>2
<1>5. CASE FinalHash(progress[j], e)
  <2>1. HashStatus(progress[j]) \in {"done", "failed"}
    BY <1>2, <1>5, FinalStatusType DEF FinalHash, HashStatus
  <2>2. Rank(HashStatus(progress[j])) = 3 /\ Rank(RowShown(j)) \in 0..3
    BY <2>1, Ranks, Zenon
  <2> QED
    BY <2>2
<1> QED
  BY <1>3, <1>4, <1>5

LEMMA SeenKept ==
    ASSUME NEW j, Seen(j), view'[j] = view[j], polling'[j] = polling[j],
           progress'[j] = progress[j], Rank(RowShown(j)) <= Rank(RowShown(j))'
    PROVE  Seen(j)'
<1>1. /\ Rank(view[j]) \in 0..3 /\ Rank(RowShown(j)) \in 0..3 /\ Rank(RowShown(j))' \in 0..3
  BY Ranks
<1>2. Rank(view[j])' = Rank(view[j]) /\ (progress[j])' = progress[j] /\ (polling[j])' = polling[j]
  OBVIOUS
<1>3. Rank(view[j]) <= Rank(RowShown(j)) => Rank(view[j])' <= Rank(RowShown(j))'
  BY <1>1, <1>2
<1>4. Rank(HashStatus(progress[j]))' = Rank(HashStatus(progress[j]))
  BY DEF HashStatus
<1> QED
  BY <1>2, <1>3, <1>4 DEF Seen

\* A worker's statement never shows less than was seen.
LEMMA SeenAtWork ==
    ASSUME HashInv, NEW j \in Job, NEW f \in Exec, Counts(f), JobOf(f) = j,
           deliveries[j] <= 1, Seen(j)
    PROVE  Seen(j)'
<1>1. TypeInv /\ Only(j, f)
  BY OneDelivery DEF HashInv, JobInv, Counts, Moves
<1>2. view'[j] = view[j] /\ polling'[j] = polling[j] /\ api'[j] = api[j]
  BY DEF Counts
<1>3. \A s : Rank(s) \in 0..3
  BY Ranks
<1>4. CASE jobRow'[j] = jobRow[j] /\ progress'[j] = progress[j]
  <2>1. Rank(RowShown(j))' = Rank(RowShown(j))
    BY <1>2, <1>4 DEF RowShown
  <2> QED
    BY <1>2, <1>3, <1>4, <2>1, SeenKept
<1>5. CASE Syncing(f)
  <2>1. /\ progress'[j] = progress[j] /\ jobRow[j] = Pending
        /\ jobRow'[j] = IF api[j] = "committed" THEN Result(f) ELSE jobRow[j]
    BY <1>1, <1>5 DEF Syncing, Only, Final
  <2>2. RowShown(j)' = RowShown(j) \/ RowShown(j)' \in {"done", "failed"}
    <3>1. Result(f).status \in {"done", "failed"}
      BY FinalStatusType DEF Result
    <3> QED
      BY <1>2, <2>1, <3>1 DEF RowShown
  <2>3. Rank(RowShown(j)) <= Rank(RowShown(j))'
    <3>1. CASE RowShown(j)' = RowShown(j)
      BY <1>3, <3>1
    <3>2. CASE RowShown(j)' \in {"done", "failed"}
      <4>1. Rank(RowShown(j))' = 3
        BY <3>2, Ranks
      <4> QED
        BY <1>3, <4>1
    <3> QED
      BY <2>2, <3>1, <3>2
  <2> QED
    BY <1>2, <2>1, <2>3, SeenKept
<1>6. ASSUME NEW fields, NEW from, NEW to, Writing(f, from, to, fields),
             Rank(view[j]) <= Rank(HashStatus(progress'[j])), progress'[j] # << >>,
             polling[j] => Rank(view[j]) <= Rank(RowShown(j))
      PROVE  Seen(j)'
  <2>1. Rank(RowShown(j))' = Rank(RowShown(j))
    BY <1>2, <1>6 DEF Writing, RowShown
  <2>2. Rank(view[j])' = Rank(view[j])
    BY <1>2
  <2>3. Rank(HashStatus(progress[j]))' = Rank(HashStatus(progress'[j]))
    BY DEF HashStatus
  <2> QED
    BY <1>2, <1>6, <2>1, <2>2, <2>3 DEF Seen
<1>7. CASE Writing(f, "start", {"ingest"}, StartFields(f))
  <2>1. Fresh(j) /\ progress'[j] = Overlay(<< >>, StartFields(f))
    BY <1>1, <1>7 DEF Writing, Only, Fresh
  <2>2. RunningHash(progress'[j], f)
    BY <2>1, StartHash
  <2>3. progress'[j] # << >> /\ HashStatus(progress'[j]) = "running"
    BY <2>2, EmptyPartial DEF RunningHash, HashStatus
  <2>4. RowShown(j) \in {"queued", "not found"}
    BY <2>1 DEF Fresh, Pending, RowShown
  <2>5. Rank(RowShown(j)) \in {0, 1} /\ Rank(HashStatus(progress'[j])) = 2
    BY <2>3, <2>4, Ranks, Zenon
  <2>6. Rank(view[j]) <= Rank(RowShown(j))
    BY <2>1 DEF Seen, Fresh
  <2>7. Rank(view[j]) <= Rank(HashStatus(progress'[j]))
    BY <1>3, <2>5, <2>6
  <2> QED
    BY <1>6, <1>7, <2>3, <2>6, <2>7
<1>8. CASE Writing(f, "report", {"ingest", "relate", "final"}, ChunkFields(f))
  <2>1. RunningHash(progress[j], f) /\ progress'[j] = Overlay(progress[j], ChunkFields(f))
    BY <1>1, <1>8 DEF Writing, Only, Begun
  <2>2. RunningHash(progress'[j], f)
    BY <2>1, ChunkHash
  <2>3. /\ progress'[j] # << >> /\ progress[j] # << >>
        /\ HashStatus(progress'[j]) = HashStatus(progress[j])
    BY <2>1, <2>2, EmptyPartial DEF RunningHash, HashStatus
  <2>4. Rank(view[j]) <= Rank(HashStatus(progress'[j]))
    BY <2>3 DEF Seen
  <2> QED
    BY <1>6, <1>8, <2>3, <2>4 DEF Seen
<1>9. CASE Writing(f, "final", {"expire"}, FinalFields(f))
  <2>1. RunningHash(progress[j], f) /\ progress'[j] = Overlay(progress[j], FinalFields(f))
    BY <1>1, <1>9 DEF Writing, Only, Begun
  <2>2. FinalHash(progress'[j], f)
    BY <2>1, LastHash
  <2>3. progress'[j] # << >> /\ HashStatus(progress'[j]) \in {"done", "failed"}
    BY <2>2, EmptyPartial, FinalStatusType DEF FinalHash, HashStatus
  <2>4. Rank(view[j]) <= Rank(HashStatus(progress'[j]))
    <3>1. Rank(HashStatus(progress'[j])) = 3
      BY <2>3, Ranks
    <3> QED
      BY <1>3, <3>1
  <2> QED
    BY <1>6, <1>9, <2>3, <2>4 DEF Seen
<1> QED
  BY <1>4, <1>5, <1>7, <1>8, <1>9 DEF Counts, Passing, Ending, Expiring, Returning, Quiet

\* What the row says does not fall when the request goes on.
LEMMA RequestGoesOn ==
    ASSUME PollInv, NEW q \in Job, NEW j \in Job,
           \/ Submit(q)  \/ Respond(q) \/ CommitJob(q) \/ LoseJob(q)
    PROVE  /\ UNCHANGED <<progress, polling, view>>
           /\ Rank(RowShown(j)) <= Rank(RowShown(j))'
<1>1. UNCHANGED <<jobRow, progress, polling, view>>
  BY DEF Submit, Respond, CommitJob, LoseJob, redisVars, clientVars
<1>2. api'[j] = api[j] \/ api[j] # "committed"
  BY TypesOfAll DEF Submit, Respond, CommitJob, LoseJob, Shared, PollInv, HashInv, TypeInv
<1>3. Rank(RowShown(j)) \in 0..3 /\ Rank(RowShown(j))' \in 0..3
  BY Ranks
<1>4. CASE api'[j] = api[j]
  <2>1. Rank(RowShown(j))' = Rank(RowShown(j))
    BY <1>1, <1>4 DEF RowShown
  <2>2. Rank(RowShown(j)) <= Rank(RowShown(j))'
    BY <1>3, <2>1
  <2> QED
    BY <1>1, <2>2
<1>5. CASE api[j] # "committed"
  <2>1. RowShown(j) = "not found"
    BY <1>5 DEF RowShown
  <2>2. Rank(RowShown(j)) = 0
    <3>1. Rank("not found") = 0
      BY DEF Rank
    <3> QED
      BY <2>1, <3>1, Zenon
  <2>3. Rank(RowShown(j)) <= Rank(RowShown(j))'
    BY <1>3, <2>2
  <2> QED
    BY <1>1, <2>3
<1> QED
  BY <1>1, <1>2, <1>4, <1>5

\* The two halves of a poll return no less than what was seen before.
LEMMA PollShows ==
    ASSUME HashInv, NEW j \in Job, deliveries[j] <= 1, Seen(j), PollHash(j) \/ PollRow(j)
    PROVE  Seen(j)' /\ Rank(view[j]) <= Rank(view'[j])
<1>1. Shared /\ \A s : Rank(s) \in 0..3
  BY TypesOfAll, Ranks DEF HashInv, TypeInv
<1>2. UNCHANGED <<api, jobRow, progress>>
  BY DEF PollHash, PollRow, apiVars, redisVars
<1>3. /\ Rank(RowShown(j))' = Rank(RowShown(j))
      /\ Rank(HashStatus(progress[j]))' = Rank(HashStatus(progress[j]))
  BY <1>2 DEF RowShown, HashStatus
<1>4. CASE PollHash(j) /\ progress[j] # << >>
  <2>1. view'[j] = HashStatus(progress[j]) /\ ~polling'[j]
    BY <1>1, <1>4 DEF PollHash, Shared
  <2>2. Rank(view'[j]) = Rank(HashStatus(progress[j]))
    BY <2>1
  <2>3. Rank(view[j])' = Rank(view'[j])
    OBVIOUS
  <2> QED
    BY <1>1, <1>2, <1>3, <1>4, <2>1, <2>2, <2>3 DEF Seen
<1>5. CASE PollHash(j) /\ progress[j] = << >>
  <2>1. view'[j] = view[j]
    BY <1>5 DEF PollHash
  <2>2. Rank(view[j])' = Rank(view[j]) /\ Rank(view'[j]) = Rank(view[j])
    BY <2>1
  <2> QED
    BY <1>1, <1>2, <1>3, <1>5, <2>2 DEF Seen
<1>6. CASE PollRow(j)
  <2>1. view'[j] = RowShown(j) /\ polling[j]
    BY <1>1, <1>6 DEF PollRow, Shared, RowShown
  <2>2. Rank(view'[j]) = Rank(RowShown(j)) /\ Rank(view[j])' = Rank(view'[j])
    BY <2>1
  <2>3. progress[j] # << >> => Rank(RowShown(j)) <= Rank(HashStatus(progress[j]))
    BY RowBehindHash
  <2> QED
    BY <1>1, <1>2, <1>3, <2>1, <2>2, <2>3 DEF Seen
<1> QED
  BY <1>4, <1>5, <1>6

LEMMA StepSeen ==
    ASSUME PollInv, [Next]_vars, NEW j \in Job, deliveries'[j] <= 1, ~MissedSync(j)'
    PROVE  Seen(j)'
<1>1. HashInv /\ TypeInv /\ Shared /\ deliveries[j] <= 1 /\ ~MissedSync(j) /\ Seen(j)
  BY MissedStays, TypesOfAll DEF PollInv, HashInv, TypeInv, Shows, Seen
<1>2. \A s : Rank(s) \in 0..3
  BY Ranks
<1>3. ASSUME \/ UNCHANGED <<progress, polling, view>>
             \/ view'[j] = view[j] /\ polling'[j] = polling[j] /\ progress'[j] = progress[j],
             jobRow'[j] = jobRow[j], api'[j] = api[j]
      PROVE  Seen(j)'
  <2>1. Rank(RowShown(j))' = Rank(RowShown(j))
    BY <1>3 DEF RowShown
  <2> QED
    BY <1>1, <1>2, <1>3, <2>1, SeenKept
<1>4. ASSUME NEW q \in Job, Submit(q) \/ Respond(q) \/ CommitJob(q) \/ LoseJob(q)
      PROVE  Seen(j)'
  BY <1>1, <1>4, RequestGoesOn, SeenKept
<1>5. ASSUME NEW q \in Job, Restore(q) \/ Deliver(q)
      PROVE  Seen(j)'
  BY <1>3, <1>5 DEF Restore, Deliver, apiVars, redisVars, clientVars
<1>6. ASSUME NEW q \in Job, PollHash(q) \/ PollRow(q)
      PROVE  Seen(j)'
  <2>1. CASE q = j
    BY <1>1, <1>6, <2>1, PollShows
  <2>2. CASE q # j
    <3>1. UNCHANGED <<progress, jobRow, api>> /\ view'[j] = view[j] /\ polling'[j] = polling[j]
      BY <1>1, <1>6, <2>2 DEF PollHash, PollRow, Shared, apiVars, redisVars
    <3> QED
      BY <1>3, <3>1
  <2> QED
    BY <2>1, <2>2
<1>7. ASSUME NEW q \in Job, KeyExpires(q)
      PROVE  Seen(j)'
  <2>1. /\ ttl[q] /\ \A r \in Exec : JobOf(r) = q => pc[r] # "sync"
        /\ progress'[q] = << >> /\ \A p \in Job \ {q} : progress'[p] = progress[p]
        /\ UNCHANGED <<api, jobRow, pc, view, polling>>
    BY <1>1, <1>7 DEF KeyExpires, Shared, apiVars, clientVars
  <2>2. CASE q # j
    BY <1>3, <2>1, <2>2
  <2>3. CASE q = j
    <3> DEFINE e == <<j, 1>>
    <3>1. deliveries[j] = 1 /\ Only(j, e)
      <4>1. deliveries[j] \in Nat
        BY <1>1, OneDelivery
      <4>2. deliveries[j] # 0
        BY <1>1, <2>1, <2>3 DEF HashInv, JobInv, Fresh
      <4> QED
        BY <1>1, <4>1, <4>2 DEF HashInv, JobInv
    <3>2. e \in Exec /\ JobOf(e) = j /\ pc[e] # "none" /\ pc[e] \in Label
      BY <1>1, <3>1, OneDelivery, TypesOfAll DEF TypeInv, Locals
    <3> HIDE DEF e
    <3>3. Over(j, e) /\ pc[e] \in {"return", "finished", "lost", "failed"}
      BY <2>1, <2>3, <3>1, <3>2 DEF Only, Fresh, Begun, Label
    <3>4. jobRow[j].status # "queued"
      BY <1>1, <3>2, <3>3 DEF MissedSync
    <3>5. api[j] = "committed" /\ jobRow[j] = Result(e)
      BY <3>3, <3>4 DEF PollInv, Over, Pending
    <3>6. Result(e).status \in {"done", "failed"}
      BY <3>2, FinalStatusType DEF Result
    <3>7. RowShown(j)' \in {"done", "failed"}
      BY <2>1, <3>5, <3>6 DEF RowShown
    <3>8. Rank(RowShown(j))' = 3
      BY <3>7, Ranks, Zenon
    <3> QED
      BY <1>2, <2>1, <2>3, <3>8 DEF Seen
  <2> QED
    BY <2>2, <2>3
<1>8. ASSUME NEW f \in Exec, Counts(f)
      PROVE  Seen(j)'
  <2>1. CASE JobOf(f) = j
    BY <1>1, <1>8, <2>1, SeenAtWork
  <2>2. CASE JobOf(f) # j
    <3>1. Quiet(j) /\ UNCHANGED <<api, polling, view>>
      BY <1>8, <2>2 DEF Counts
    <3> QED
      BY <1>3, <3>1 DEF Quiet
  <2> QED
    BY <2>1, <2>2
<1>9. CASE UNCHANGED vars
  BY <1>3, <1>9 DEF vars, apiVars, redisVars, clientVars
<1> QED
  BY <1>1, <1>4, <1>5, <1>6, <1>7, <1>8, <1>9, CountingSteps DEF Next

LEMMA StepPoll == PollInv /\ [Next]_vars => PollInv'
<1> SUFFICES ASSUME PollInv, [Next]_vars PROVE PollInv'
  OBVIOUS
<1>1. HashInv'
  BY StepHash DEF PollInv
<1>2. \A j \in Job : jobRow'[j].status # "queued" => api'[j] = "committed"
  BY RowCommitted
<1>3. \A j \in Job : Shows(j)'
  BY StepSeen DEF Shows, Seen
<1> QED
  BY <1>1, <1>2, <1>3 DEF PollInv

LEMMA InitPoll == Init => PollInv
<1> SUFFICES ASSUME Init PROVE PollInv
  OBVIOUS
<1>1. HashInv
  BY InitHash
<1>2. \A j \in Job : /\ jobRow[j].status = "queued" /\ progress[j] = << >>
                     /\ view[j] = "unseen"
  BY DEF Init, Pending
<1>3. Rank("unseen") = 0 /\ \A s : Rank(s) \in 0..3
  BY DEF Rank
<1>4. \A j \in Job : Rank(view[j]) = 0 /\ Rank(RowShown(j)) \in 0..3
  BY <1>2, <1>3, Zenon
<1>5. \A j \in Job : Shows(j)
  BY <1>2, <1>4 DEF Shows, Seen
<1> QED
  BY <1>1, <1>2, <1>5 DEF PollInv

\* A client that polls never sees a job go back, through the expiry of the
\* hash and the fallback to the row too, unless the message came again or the
\* row missed the result (job_status after tasks.py's last three statements).
THEOREM PollsNeverGoBack == Spec => PollMonotone
<1>1. ASSUME PollInv, [Next]_vars
      PROVE  [\A j \in Job : \/ Rank(view'[j]) >= Rank(view[j])
                             \/ deliveries[j] > 1
                             \/ MissedSync(j)]_vars
  <2> SUFFICES ASSUME NEW j \in Job, ~(deliveries[j] > 1), ~MissedSync(j)
               PROVE  Rank(view'[j]) >= Rank(view[j])
    OBVIOUS
  <2>1. HashInv /\ Shared /\ Seen(j) /\ deliveries[j] <= 1
    <3>1. HashInv /\ deliveries[j] \in Nat
      BY <1>1, OneDelivery DEF PollInv, HashInv
    <3>2. deliveries[j] <= 1
      BY <3>1
    <3> QED
      BY <1>1, <3>1, <3>2, TypesOfAll DEF PollInv, HashInv, TypeInv, Shows, Seen
  <2>2. Rank(view[j]) \in 0..3
    BY Ranks
  <2>3. CASE view'[j] = view[j]
    BY <2>2, <2>3
  <2>4. ASSUME NEW q \in Job, PollHash(q) \/ PollRow(q)
        PROVE  Rank(view'[j]) >= Rank(view[j])
    <3>1. CASE q = j
      <4>1. Rank(view[j]) <= Rank(view'[j]) /\ Rank(view'[j]) \in 0..3
        BY <2>1, <2>4, <3>1, PollShows, Ranks
      <4> QED
        BY <2>2, <4>1
    <3>2. CASE q # j
      BY <2>1, <2>3, <2>4, <3>2 DEF PollHash, PollRow, Shared
    <3> QED
      BY <3>1, <3>2
  <2>5. ASSUME NEW q \in Job,
               \/ Submit(q)  \/ Respond(q) \/ CommitJob(q) \/ LoseJob(q) \/ Deliver(q)
               \/ Restore(q) \/ KeyExpires(q)
        PROVE  view' = view
    BY <2>5 DEF Submit, Respond, CommitJob, LoseJob, Deliver, Restore, KeyExpires, clientVars
  <2>6. ASSUME NEW e \in Exec, Counts(e) PROVE view' = view
    BY <2>6 DEF Counts
  <2>7. CASE UNCHANGED vars
    BY <2>3, <2>7 DEF vars, clientVars
  <2> QED
    BY <1>1, <2>1, <2>3, <2>4, <2>5, <2>6, <2>7, CountingSteps DEF Next, HashInv
<1> QED
  BY <1>1, InitPoll, StepPoll, PTL DEF Spec, PollMonotone
=============================================================================
