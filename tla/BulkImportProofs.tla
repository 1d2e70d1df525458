-------------------------- MODULE BulkImportProofs --------------------------
(***************************************************************************)
(* Theorems of BulkImport about the tables: types, rows of assets and      *)
(* relationships, and that it implements ChunkStore.  What a client is     *)
(* shown is BulkReportProofs.                                              *)
(***************************************************************************)
EXTENDS BulkImport, FiniteSetTheorems, TLAPS

-----------------------------------------------------------------------------
(* The documents of AssetMerge.                                            *)

\* jsonb's || of two metadata documents is a metadata document and has the
\* keys of both.
LEMMA OverlayMetadata ==
    ASSUME NEW old \in Metadata, NEW new \in Metadata
    PROVE  /\ Overlay(old, new) \in Metadata
           /\ DOMAIN Overlay(old, new) = DOMAIN old \cup DOMAIN new
<1>1. PICK D1 \in SUBSET MetaKey : old \in [D1 -> MetaValue]
  BY DEF Metadata
<1>2. PICK D2 \in SUBSET MetaKey : new \in [D2 -> MetaValue]
  BY DEF Metadata
<1>3. Overlay(old, new) \in [D1 \cup D2 -> MetaValue]
  BY <1>1, <1>2 DEF Overlay
<1>4. D1 \cup D2 \in SUBSET MetaKey
  OBVIOUS
<1> QED
  BY <1>3, <1>4 DEF Metadata, Overlay

\* One more entry in a partial function: under its key the new value, under
\* the others what was there.
LEMMA PutPartial ==
    ASSUME NEW S, NEW T, NEW f, Partial(f, S, T), NEW k \in S, NEW r \in T
    PROVE  /\ Partial(Put(f, k, r), S, T)
           /\ DOMAIN Put(f, k, r) = DOMAIN f \cup {k}
           /\ Put(f, k, r)[k] = r
           /\ \A q \in DOMAIN f : q # k => Put(f, k, r)[q] = f[q]
BY DEF Put, Overlay, Partial

LEMMA EmptyPartial == ASSUME NEW S, NEW T PROVE DOMAIN << >> = {} /\ Partial(<< >>, S, T)
BY DEF Partial

-----------------------------------------------------------------------------

(* The inductive invariant, part by part.  First, where executions are.    *)

\* Deliveries are numbered in the order they happen.
Numbered ==
    \A e \in Exec : pc[e] = "none" <=> e[2] > deliveries[e[1]]

\* How far an execution is, by the statement it is at.
Place(e) ==
    /\ base[e] <= pos[e] /\ pos[e] <= Total(JobOf(e))
    /\ pc[e] \in {"none", "start"} => pos[e] = 0
    /\ pc[e] = "ingest" => pos[e] < ChunkEnd(e)
    /\ pc[e] = "commit" => pos[e] = ChunkEnd(e)
    /\ pc[e] \in {"relate", "final", "expire", "sync", "return", "finished"} =>
          pos[e] = Total(JobOf(e))
    /\ pc[e] \notin {"ingest", "commit"} => tx[e] = NoTx /\ ~aborted[e]

\* Every record passed is counted once.
Counted(e) ==
    /\ imported[e] \cup errored[e] = 1..pos[e]
    /\ imported[e] \cap errored[e] = {}
    /\ stored[e] \subseteq 1..pos[e]

TypeInv ==
    /\ TypeOK
    /\ Numbered
    /\ \A e \in Exec : Place(e) /\ Counted(e)

-----------------------------------------------------------------------------
(* Records.                                                                *)

LEMMA Bounds ==
    /\ ChunkSize \in Nat \ {0} /\ MaxErrors \in Nat /\ MaxDeliveries \in Nat
    /\ MaxLost \in Nat /\ MaxFailed \in Nat /\ MaxBadCommits \in Nat
BY BoundsAssumption

LEMMA Batches ==
    ASSUME NEW j \in Job
    PROVE  /\ Total(j) \in Nat \ {0}
           /\ \A i \in 1..Total(j) : Records[j][i] \in Record
BY RecordsAssumption DEF Total

LEMMA Executions ==
    ASSUME NEW e \in Exec
    PROVE  /\ JobOf(e) \in Job /\ e[1] = JobOf(e) /\ e[2] \in 1..MaxDeliveries
           /\ e = <<e[1], e[2]>>
BY DEF Exec, JobOf

\* A record as the worker sees it.
LEMMA RecordSeen ==
    ASSUME NEW e \in Exec, NEW i \in 1..Total(JobOf(e))
    PROVE  /\ Rec(e, i).key \in Key /\ Rec(e, i).status \in AssetStatus
           /\ Rec(e, i).tags \in SUBSET Tag /\ Rec(e, i).meta \in Metadata
           /\ {Rec(e, i).id, Rec(e, i).parent, Rec(e, i).covers} \subseteq TempId \cup {NoId}
<1> DEFINE r == Records[JobOf(e)][i]
<1>1. r \in Record
  BY Batches, Executions
<1>2. Rec(e, i) = [r EXCEPT !.status = IF @ \in AssetStatus THEN @ ELSE "active"]
  BY DEF Rec, Normalized
<1> HIDE DEF r
<1> QED
  BY <1>1, <1>2 DEF Record, AssetStatus

\* The row an upsert of the record leaves.
LEMMA UpsertedRow ==
    ASSUME NEW e \in Exec, NEW i \in 1..Total(JobOf(e)), NEW row \in Row \cup {NoRow}
    PROVE  /\ Upserted(row, <<e, i>>, Rec(e, i)) \in Row
           /\ Rec(e, i).tags \subseteq Upserted(row, <<e, i>>, Rec(e, i)).tags
           /\ DOMAIN Rec(e, i).meta \subseteq DOMAIN Upserted(row, <<e, i>>, Rec(e, i)).meta
           /\ row # NoRow =>
                 /\ Upserted(row, <<e, i>>, Rec(e, i)).id = row.id
                 /\ row.tags \subseteq Upserted(row, <<e, i>>, Rec(e, i)).tags
                 /\ DOMAIN row.meta \subseteq DOMAIN Upserted(row, <<e, i>>, Rec(e, i)).meta
<1> DEFINE rec == Rec(e, i)
<1>1. /\ rec.status \in AssetStatus /\ rec.tags \in SUBSET Tag /\ rec.meta \in Metadata
  BY RecordSeen
<1>2. <<e, i>> \in Exec \X (Nat \ {0})
  OBVIOUS
<1> HIDE DEF rec
<1>3. CASE row = NoRow
  BY <1>1, <1>2, <1>3 DEF Upserted, Inserted, Row, rec
<1>4. CASE row # NoRow
  <2>1. row \in Row
    BY <1>4
  <2>2. row.meta \in Metadata
    BY <2>1 DEF Row
  <2>3. /\ Overlay(row.meta, rec.meta) \in Metadata
        /\ DOMAIN Overlay(row.meta, rec.meta) = DOMAIN row.meta \cup DOMAIN rec.meta
    BY <1>1, <2>2, OverlayMetadata
  <2>4. Upserted(row, <<e, i>>, rec) = Merged(row, rec)
    BY <1>4 DEF Upserted
  <2>5. /\ Merged(row, rec) \in Row
        /\ Merged(row, rec).tags = row.tags \cup rec.tags
        /\ Merged(row, rec).meta = Overlay(row.meta, rec.meta)
        /\ Merged(row, rec).id = row.id
    BY <1>1, <2>1, <2>3 DEF Merged, Row, AssetStatus
  <2> QED
    BY <2>3, <2>4, <2>5 DEF rec
<1> QED
  BY <1>3, <1>4

LEMMA Chunks ==
    ASSUME NEW e \in Exec, base[e] \in Nat
    PROVE  /\ ChunkEnd(e) \in Nat /\ ChunkEnd(e) <= Total(JobOf(e))
           /\ base[e] < Total(JobOf(e)) => base[e] < ChunkEnd(e)
BY Batches, Executions, BoundsAssumption DEF ChunkEnd

-----------------------------------------------------------------------------
(* Types.                                                                  *)

LEMMA InitTypes == Init => TypeInv
<1> SUFFICES ASSUME Init PROVE TypeInv
  OBVIOUS
<1>1. \A j \in Job : HashOK(progress[j])
  BY DEF Init, HashOK
<1>2. \A e \in Exec : Partial(tempIds[e], TempId, RowId) /\ Partial(tx[e], Key, Row)
  BY EmptyPartial DEF Init, NoTx
<1>3. faults \in [lost : 0..MaxLost, failed : 0..MaxFailed, badCommits : 0..MaxBadCommits]
  BY BoundsAssumption DEF Init
<1>4. jobRow \in [Job -> [status : JobStatus \ {"running"}, imported : Nat, error_count : Nat]]
  BY DEF Init, Pending, JobStatus
<1>5. deliveries \in [Job -> 0..MaxDeliveries]
  BY BoundsAssumption DEF Init
<1>6. TypeOK
  BY <1>1, <1>2, <1>3, <1>4, <1>5 DEF Init, TypeOK, Label
<1>7. Numbered
  BY Executions DEF Init, Numbered
<1>8. \A e \in Exec : Place(e) /\ Counted(e)
  BY Batches, Executions DEF Init, Place, Counted, NoTx
<1> QED
  BY <1>6, <1>7, <1>8 DEF TypeInv

LEMMA EmptyTx == DOMAIN NoTx = {} /\ Partial(NoTx, Key, Row)
BY EmptyPartial DEF NoTx

\* What one execution keeps for itself.
Same(q) ==
    /\ pc'[q] = pc[q] /\ base'[q] = base[q] /\ pos'[q] = pos[q]
    /\ imported'[q] = imported[q] /\ errored'[q] = errored[q]
    /\ tempIds'[q] = tempIds[q] /\ pending'[q] = pending[q]
    /\ tx'[q] = tx[q] /\ aborted'[q] = aborted[q] /\ stored'[q] = stored[q]

Others(e) == \A q \in Exec \ {e} : Same(q)

\* The types of the locals of all executions.
Locals ==
    /\ pc \in [Exec -> Label]
    /\ base \in [Exec -> Nat] /\ pos \in [Exec -> Nat]
    /\ imported \in [Exec -> SUBSET (Nat \ {0})]
    /\ errored \in [Exec -> SUBSET (Nat \ {0})]
    /\ DOMAIN tempIds = Exec
    /\ \A e \in Exec : Partial(tempIds[e], TempId, RowId)
    /\ pending \in [Exec -> SUBSET ((TempId \cup {NoId}) \X (TempId \cup {NoId}) \X RelType)]
    /\ DOMAIN tx = Exec
    /\ \A e \in Exec : Partial(tx[e], Key, Row)
    /\ aborted \in [Exec -> BOOLEAN]
    /\ stored \in [Exec -> SUBSET (Nat \ {0})]

\* The types of what executions share.
Shared ==
    /\ api \in [Job -> {"idle", "enqueued", "responded", "committed", "crashed", "lost"}]
    /\ jobRow \in [Job -> [status : JobStatus \ {"running"}, imported : Nat,
                           error_count : Nat]]
    /\ queue \in [Job -> {"none", "ready", "unacked", "gone"}]
    /\ deliveries \in [Job -> 0..MaxDeliveries]
    /\ DOMAIN progress = Job
    /\ \A j \in Job : HashOK(progress[j])
    /\ ttl \in [Job -> BOOLEAN]
    /\ assets \in [Key -> Row \cup {NoRow}]
    /\ rels \in SUBSET (RowId \X RowId \X RelType)
    /\ polling \in [Job -> BOOLEAN]
    /\ view \in [Job -> JobStatus \cup {"unseen", "not found"}]
    /\ faults \in [lost : 0..MaxLost, failed : 0..MaxFailed, badCommits : 0..MaxBadCommits]

LEMMA TypesOfAll == TypeOK <=> Locals /\ Shared
BY DEF TypeOK, Locals, Shared

\* A step of one execution keeps the invariant if it keeps it for that one.
LEMMA OneExecution ==
    ASSUME TypeInv, NEW e \in Exec, Locals', Shared', Others(e),
           pc[e] # "none", pc'[e] # "none", deliveries' = deliveries,
           \A q \in Exec : q = e => Place(q)' /\ Counted(q)'
    PROVE  TypeInv'
<1>1. Numbered'
  BY DEF TypeInv, Numbered, Others, Same
<1>2. ASSUME NEW q \in Exec, q # e PROVE Place(q)' /\ Counted(q)'
  BY <1>2 DEF TypeInv, Place, Counted, ChunkEnd, Others, Same
<1> QED
  BY <1>1, <1>2, TypesOfAll DEF TypeInv, TypeOK, Locals, Shared

\* A step that moves no execution.
LEMMA NoExecution ==
    ASSUME TypeInv, Shared', UNCHANGED <<pc, localVars, tx, aborted, stored, deliveries>>
    PROVE  TypeInv'
<1>1. Locals'
  BY TypesOfAll DEF TypeInv, Locals, localVars
<1>2. Numbered'
  BY DEF TypeInv, Numbered
<1>3. \A q \in Exec : Place(q)' /\ Counted(q)'
  BY DEF TypeInv, Place, Counted, ChunkEnd, localVars
<1> QED
  BY <1>1, <1>2, <1>3, TypesOfAll DEF TypeInv, TypeOK, Locals, Shared

\* The two counters are the sizes of a partition of the records passed.
LEMMA Sizes ==
    ASSUME NEW e \in Exec, pos[e] \in Nat, Counted(e)
    PROVE  /\ IsFiniteSet(imported[e]) /\ IsFiniteSet(errored[e])
           /\ Cardinality(imported[e]) \in Nat /\ Cardinality(errored[e]) \in Nat
           /\ Cardinality(imported[e]) + Cardinality(errored[e]) = pos[e]
<1>1. IsFiniteSet(1..pos[e]) /\ Cardinality(1..pos[e]) = pos[e]
  BY FS_Interval, SMTT(30)
<1>2. imported[e] \in SUBSET (1..pos[e]) /\ errored[e] \in SUBSET (1..pos[e])
  BY DEF Counted
<1>3. IsFiniteSet(imported[e]) /\ IsFiniteSet(errored[e])
  BY <1>1, <1>2, FS_Subset
<1>4. Cardinality(imported[e]) \in Nat /\ Cardinality(errored[e]) \in Nat
  BY <1>3, FS_CardinalityType
<1>5. Cardinality(imported[e] \cup errored[e]) =
          Cardinality(imported[e]) + Cardinality(errored[e]) - Cardinality(imported[e] \cap errored[e])
  BY <1>3, FS_Union
<1>6. Cardinality(imported[e] \cap errored[e]) = 0
  BY FS_EmptySet DEF Counted
<1>7. Cardinality(imported[e] \cup errored[e]) = pos[e]
  BY <1>1 DEF Counted
<1> QED
  BY <1>3, <1>4, <1>5, <1>6, <1>7

\* HSET keeps the type of a hash.
LEMMA HashSet ==
    ASSUME Shared, NEW j \in Job, NEW fields, HashOK(fields), HSet(j, fields)
    PROVE  /\ DOMAIN progress' = Job
           /\ \A q \in Job : HashOK(progress'[q])
           /\ progress'[j] = Overlay(progress[j], fields)
           /\ \A q \in Job \ {j} : progress'[q] = progress[q]
<1>1. HashOK(Overlay(progress[j], fields))
  BY DEF Shared, HashOK, Overlay
<1>2. /\ DOMAIN progress' = Job
      /\ progress'[j] = Overlay(progress[j], fields)
      /\ \A q \in Job \ {j} : progress'[q] = progress[q]
  BY DEF Shared, HSet
<1> QED
  BY <1>1, <1>2 DEF Shared

-----------------------------------------------------------------------------
(* The statements of a worker: what each does to its execution.            *)

\* The execution is past its start, and nobody else moves.
Moves(e) ==
    /\ Locals' /\ Others(e) /\ deliveries' = deliveries
    /\ pc[e] # "none" /\ pc'[e] # "none"

\* What a record does to the place of its execution.
Passes(e) ==
    /\ pos'[e] = pos[e] + 1 /\ base'[e] = base[e] /\ stored'[e] = stored[e]
    /\ pc[e] = "ingest" /\ pos[e] < ChunkEnd(e) /\ ChunkEnd(e) <= Total(JobOf(e))
    /\ pc'[e] = IF pos[e] + 1 = ChunkEnd(e) THEN "commit" ELSE "ingest"

LEMMA CountErrorStep ==
    ASSUME TypeInv, NEW e \in Exec, pc[e] = "ingest", CountError(e),
           \/ UNCHANGED <<tx, aborted>>
           \/ /\ tx' = [tx EXCEPT ![e] = NoTx]
              /\ aborted' = [aborted EXCEPT ![e] = TRUE]
    PROVE  /\ Moves(e) /\ Passes(e)
           /\ errored'[e] = errored[e] \cup {pos[e] + 1}
           /\ imported'[e] = imported[e] /\ tempIds'[e] = tempIds[e] /\ pending'[e] = pending[e]
           /\ \/ tx'[e] = tx[e] /\ aborted'[e] = aborted[e]
              \/ tx'[e] = NoTx /\ aborted'[e] = TRUE
           /\ UNCHANGED <<api, jobRow, queue, progress, ttl, assets, rels, polling, view, faults>>
<1>1. Locals /\ pos[e] < ChunkEnd(e) /\ ChunkEnd(e) <= Total(JobOf(e))
  BY TypesOfAll, Chunks DEF TypeInv, Place, Locals
<1>2. /\ DOMAIN tx' = Exec /\ aborted' \in [Exec -> BOOLEAN]
      /\ \A q \in Exec \ {e} : tx'[q] = tx[q] /\ aborted'[q] = aborted[q]
      /\ \/ tx'[e] = tx[e] /\ aborted'[e] = aborted[e]
         \/ tx'[e] = NoTx /\ aborted'[e] = TRUE
  BY <1>1 DEF Locals
<1>3. \A q \in Exec : Partial(tx'[q], Key, Row)
  BY <1>1, <1>2, EmptyTx DEF Locals
<1>4. /\ pos' = [pos EXCEPT ![e] = pos[e] + 1]
      /\ pc' = [pc EXCEPT ![e] = IF pos[e] + 1 = ChunkEnd(e) THEN "commit" ELSE "ingest"]
      /\ errored' = [errored EXCEPT ![e] = errored[e] \cup {pos[e] + 1}]
      /\ UNCHANGED <<apiVars, brokerVars, redisVars, base, imported, tempIds, pending,
                     assets, rels, clientVars, faults, stored>>
  BY DEF CountError, Advance, Goto
<1>5. /\ pos' \in [Exec -> Nat] /\ pc' \in [Exec -> Label]
      /\ errored' \in [Exec -> SUBSET (Nat \ {0})]
      /\ \A q \in Exec \ {e} : pos'[q] = pos[q] /\ pc'[q] = pc[q] /\ errored'[q] = errored[q]
      /\ pos'[e] = pos[e] + 1 /\ errored'[e] = errored[e] \cup {pos[e] + 1}
      /\ pc'[e] = IF pos[e] + 1 = ChunkEnd(e) THEN "commit" ELSE "ingest"
  BY <1>1, <1>4 DEF Locals, Label
<1>6. UNCHANGED <<api, jobRow, queue, deliveries, progress, ttl, assets, rels, polling, view,
                  faults, base, imported, tempIds, pending, stored>>
  BY <1>4 DEF apiVars, brokerVars, redisVars, clientVars
<1>7. Locals'
  BY <1>1, <1>2, <1>3, <1>5, <1>6 DEF Locals
<1> QED
  BY <1>1, <1>2, <1>5, <1>6, <1>7 DEF Moves, Passes, Others, Same

\* An execution that ends early.
LEMMA AbandonStep ==
    ASSUME TypeInv, NEW e \in Exec, NEW label \in {"failed", "lost"}, pc[e] # "none",
           Abandon(e, label)
    PROVE  /\ Moves(e) /\ pc'[e] = label /\ tx'[e] = NoTx /\ aborted'[e] = FALSE
           /\ base'[e] = base[e] /\ pos'[e] = pos[e] /\ imported'[e] = imported[e]
           /\ errored'[e] = errored[e] /\ tempIds'[e] = tempIds[e]
           /\ pending'[e] = pending[e] /\ stored'[e] = stored[e]
           /\ UNCHANGED <<api, jobRow, progress, ttl, assets, rels, polling, view>>
<1>1. Locals
  BY TypesOfAll DEF TypeInv
<1>2. /\ pc' = [pc EXCEPT ![e] = label]
      /\ tx' = [tx EXCEPT ![e] = NoTx] /\ aborted' = [aborted EXCEPT ![e] = FALSE]
      /\ UNCHANGED <<api, jobRow, deliveries, progress, ttl, assets, rels, polling, view,
                     base, pos, imported, errored, tempIds, pending, stored>>
  BY DEF Abandon, Goto, apiVars, redisVars, localVars, clientVars
<1>3. /\ pc' \in [Exec -> Label] /\ DOMAIN tx' = Exec /\ aborted' \in [Exec -> BOOLEAN]
      /\ pc'[e] = label /\ tx'[e] = NoTx /\ aborted'[e] = FALSE
      /\ \A q \in Exec \ {e} : pc'[q] = pc[q] /\ tx'[q] = tx[q] /\ aborted'[q] = aborted[q]
  BY <1>1, <1>2 DEF Locals, Label
<1>4. \A q \in Exec : Partial(tx'[q], Key, Row)
  BY <1>1, <1>3, EmptyTx DEF Locals
<1>5. Locals'
  BY <1>1, <1>2, <1>3, <1>4 DEF Locals
<1> QED
  BY <1>1, <1>2, <1>3, <1>5 DEF Moves, Others, Same

\* A statement that changes nothing of its execution but where it is.
LEMMA GotoStep ==
    ASSUME TypeInv, NEW e \in Exec, NEW label \in Label \ {"none"}, pc[e] # "none",
           Goto(e, label), UNCHANGED <<localVars, tx, aborted, stored, deliveries>>
    PROVE  /\ Moves(e) /\ pc'[e] = label
           /\ tx'[e] = tx[e] /\ aborted'[e] = aborted[e]
           /\ base'[e] = base[e] /\ pos'[e] = pos[e] /\ imported'[e] = imported[e]
           /\ errored'[e] = errored[e] /\ tempIds'[e] = tempIds[e]
           /\ pending'[e] = pending[e] /\ stored'[e] = stored[e]
<1>1. Locals
  BY TypesOfAll DEF TypeInv
<1>2. pc' \in [Exec -> Label] /\ pc'[e] = label /\ \A q \in Exec \ {e} : pc'[q] = pc[q]
  BY <1>1 DEF Locals, Goto
<1>3. UNCHANGED <<base, pos, imported, errored, tempIds, pending, tx, aborted, stored>>
  BY DEF localVars
<1>4. Locals'
  BY <1>1, <1>2, <1>3 DEF Locals
<1> QED
  BY <1>2, <1>3, <1>4 DEF Moves, Others, Same

LEMMA UpsertStep ==
    ASSUME TypeInv, NEW e \in Exec, Upsert(e)
    PROVE  /\ Moves(e) /\ Passes(e)
           /\ ~aborted[e] /\ aborted'[e] = FALSE
           /\ Current(e) = Rec(e, pos[e] + 1) /\ Current(e).key \in Key
           /\ \A f \in Exec \ {e} : Current(e).key \notin DOMAIN tx[f]
           /\ errored'[e] = errored[e]
           /\ imported'[e] = imported[e] \cup {pos[e] + 1}
           /\ pending'[e] = pending[e] \cup Hints(Current(e))
           /\ \E row \in Row :
                 /\ row = Upserted(RowSeenBy(e, Current(e).key), <<e, pos[e] + 1>>, Current(e))
                 /\ tx'[e] = Put(tx[e], Current(e).key, row)
                 /\ tempIds'[e] = IF Current(e).id = NoId THEN tempIds[e]
                                  ELSE Put(tempIds[e], Current(e).id, row.id)
           /\ RowSeenBy(e, Current(e).key) \in Row \cup {NoRow}
           /\ UNCHANGED <<api, jobRow, queue, progress, ttl, assets, rels, polling, view, faults>>
<1> DEFINE i == pos[e] + 1
           rec == Rec(e, i)
           seen == RowSeenBy(e, rec.key)
           row == Upserted(seen, <<e, i>>, rec)
<1>1. /\ Locals /\ Shared /\ pc[e] = "ingest" /\ ~aborted[e]
      /\ pos[e] < ChunkEnd(e) /\ ChunkEnd(e) <= Total(JobOf(e))
  BY TypesOfAll, Chunks DEF TypeInv, Place, Locals, Upsert, AtUpsert
<1>2. i \in 1..Total(JobOf(e)) /\ Current(e) = rec
  <2>1. pos[e] \in Nat /\ ChunkEnd(e) \in Nat /\ Total(JobOf(e)) \in Nat
    BY <1>1, Chunks, Batches, Executions DEF Locals
  <2> QED
    BY <1>1, <2>1 DEF Current
<1>3. /\ rec.key \in Key /\ {rec.id, rec.parent, rec.covers} \subseteq TempId \cup {NoId}
  BY <1>2, RecordSeen
<1>4. seen \in Row \cup {NoRow}
  <2>1. /\ Partial(tx[e], Key, Row) /\ \A k \in Key : assets[k] \in Row \cup {NoRow}
    BY <1>1 DEF Locals, Shared
  <2>2. PICK k : k = rec.key
    OBVIOUS
  <2>3. k \in Key /\ seen = RowSeenBy(e, k)
    BY <1>3, <2>2
  <2> HIDE DEF seen, rec
  <2> QED
    BY <2>1, <2>3 DEF RowSeenBy, Holds, Partial
<1>5. row \in Row
  BY <1>2, <1>4, UpsertedRow
<1>6. row.id \in RowId
  BY <1>5 DEF Row, RowId
<1>7. \A f \in Exec \ {e} : rec.key \notin DOMAIN tx[f]
  BY <1>1, <1>2 DEF Upsert, WaitsFor, Holds
<1>8. /\ tx' = [tx EXCEPT ![e] = Put(tx[e], rec.key, row)]
      /\ imported' = [imported EXCEPT ![e] = imported[e] \cup {i}]
      /\ tempIds' = IF rec.id = NoId THEN tempIds
                    ELSE [tempIds EXCEPT ![e] = Put(tempIds[e], rec.id, row.id)]
      /\ pending' = [pending EXCEPT ![e] = pending[e] \cup Hints(rec)]
      /\ pos' = [pos EXCEPT ![e] = i]
      /\ pc' = [pc EXCEPT ![e] = IF i = ChunkEnd(e) THEN "commit" ELSE "ingest"]
      /\ UNCHANGED <<api, jobRow, queue, deliveries, progress, ttl, base, errored, aborted,
                     assets, rels, polling, view, faults, stored>>
  BY <1>2 DEF Upsert, Advance, Goto, apiVars, brokerVars, redisVars, clientVars
<1>9. Hints(rec) \in SUBSET ((TempId \cup {NoId}) \X (TempId \cup {NoId}) \X RelType)
  BY <1>3 DEF Hints, RelType
<1> HIDE DEF rec, row, seen
<1>10. /\ Partial(Put(tx[e], rec.key, row), Key, Row)
       /\ rec.id # NoId => Partial(Put(tempIds[e], rec.id, row.id), TempId, RowId)
  BY <1>1, <1>3, <1>5, <1>6, PutPartial DEF Locals
<1>11. /\ DOMAIN tx' = Exec /\ tx'[e] = Put(tx[e], rec.key, row)
       /\ \A q \in Exec \ {e} : tx'[q] = tx[q]
       /\ DOMAIN tempIds' = Exec
       /\ tempIds'[e] = IF rec.id = NoId THEN tempIds[e] ELSE Put(tempIds[e], rec.id, row.id)
       /\ \A q \in Exec \ {e} : tempIds'[q] = tempIds[q]
  BY <1>1, <1>8 DEF Locals
<1>12. /\ imported' \in [Exec -> SUBSET (Nat \ {0})]
       /\ pending' \in [Exec -> SUBSET ((TempId \cup {NoId}) \X (TempId \cup {NoId}) \X RelType)]
       /\ pos' \in [Exec -> Nat] /\ pc' \in [Exec -> Label]
  BY <1>1, <1>8, <1>9 DEF Locals, Label
<1>13. /\ imported'[e] = imported[e] \cup {i} /\ pending'[e] = pending[e] \cup Hints(rec)
       /\ pos'[e] = i /\ pc'[e] = IF i = ChunkEnd(e) THEN "commit" ELSE "ingest"
       /\ \A q \in Exec \ {e} : /\ imported'[q] = imported[q] /\ pending'[q] = pending[q]
                                /\ pos'[q] = pos[q] /\ pc'[q] = pc[q]
  BY <1>1, <1>8 DEF Locals
<1>14. \A q \in Exec : Partial(tx'[q], Key, Row) /\ Partial(tempIds'[q], TempId, RowId)
  BY <1>1, <1>10, <1>11 DEF Locals
<1>15. Locals'
  BY <1>1, <1>8, <1>11, <1>12, <1>14 DEF Locals
<1>16. Moves(e) /\ Passes(e)
  BY <1>1, <1>8, <1>11, <1>13, <1>15 DEF Moves, Passes, Others, Same
<1>17. /\ row = Upserted(RowSeenBy(e, Current(e).key), <<e, pos[e] + 1>>, Current(e))
       /\ RowSeenBy(e, Current(e).key) \in Row \cup {NoRow}
  BY <1>2, <1>4 DEF row, seen
<1> QED
  BY <1>1, <1>2, <1>3, <1>5, <1>7, <1>8, <1>11, <1>13, <1>16, <1>17 DEF rec

LEMMA CommitStep ==
    ASSUME TypeInv, NEW e \in Exec, CommitChunk(e)
    PROVE  /\ Moves(e) /\ pc[e] = "commit" /\ pc'[e] = "report"
           /\ tx'[e] = NoTx /\ aborted'[e] = FALSE
           /\ assets' \in [Key -> Row \cup {NoRow}]
           /\ \A k \in Key : assets'[k] = IF k \in DOMAIN tx[e] THEN tx[e][k] ELSE assets[k]
           /\ stored'[e] = IF aborted[e] THEN stored[e]
                           ELSE stored[e] \cup (base[e] + 1)..pos[e]
           /\ base'[e] = base[e] /\ pos'[e] = pos[e] /\ imported'[e] = imported[e]
           /\ errored'[e] = errored[e] /\ tempIds'[e] = tempIds[e]
           /\ pending'[e] = pending[e]
           /\ UNCHANGED <<api, jobRow, queue, progress, ttl, rels, polling, view, faults>>
<1>1. Locals /\ Shared /\ pc[e] = "commit"
  BY TypesOfAll DEF TypeInv, CommitChunk
<1>2. /\ assets' = Overlay(assets, tx[e])
      /\ stored' = [stored EXCEPT ![e] = IF aborted[e] THEN stored[e]
                                         ELSE stored[e] \cup (base[e] + 1)..pos[e]]
      /\ tx' = [tx EXCEPT ![e] = NoTx] /\ aborted' = [aborted EXCEPT ![e] = FALSE]
      /\ pc' = [pc EXCEPT ![e] = "report"]
      /\ UNCHANGED <<api, jobRow, queue, deliveries, progress, ttl, rels, polling, view, faults,
                     base, pos, imported, errored, tempIds, pending>>
  BY DEF CommitChunk, Goto, apiVars, brokerVars, redisVars, localVars, clientVars
<1>3. /\ assets' \in [Key -> Row \cup {NoRow}]
      /\ \A k \in Key : assets'[k] = IF k \in DOMAIN tx[e] THEN tx[e][k] ELSE assets[k]
  <2>1. assets \in [Key -> Row \cup {NoRow}] /\ Partial(tx[e], Key, Row)
    BY <1>1 DEF Locals, Shared
  <2>2. /\ Overlay(assets, tx[e]) \in [Key -> Row \cup {NoRow}]
        /\ \A k \in Key : Overlay(assets, tx[e])[k] =
                             IF k \in DOMAIN tx[e] THEN tx[e][k] ELSE assets[k]
    BY <2>1 DEF Overlay, Partial
  <2> QED
    BY <1>2, <2>2
<1>4. /\ pc' \in [Exec -> Label] /\ DOMAIN tx' = Exec /\ aborted' \in [Exec -> BOOLEAN]
      /\ pc'[e] = "report" /\ tx'[e] = NoTx /\ aborted'[e] = FALSE
      /\ \A q \in Exec \ {e} : pc'[q] = pc[q] /\ tx'[q] = tx[q] /\ aborted'[q] = aborted[q]
  BY <1>1, <1>2 DEF Locals, Label
<1>5. \A q \in Exec : Partial(tx'[q], Key, Row)
  BY <1>1, <1>4, EmptyTx DEF Locals
<1>6. (base[e] + 1)..pos[e] \in SUBSET (Nat \ {0}) /\ stored[e] \in SUBSET (Nat \ {0})
  BY <1>1 DEF Locals
<1>7. /\ stored' \in [Exec -> SUBSET (Nat \ {0})]
      /\ stored'[e] = IF aborted[e] THEN stored[e] ELSE stored[e] \cup (base[e] + 1)..pos[e]
      /\ \A q \in Exec \ {e} : stored'[q] = stored[q]
  BY <1>1, <1>2, <1>6 DEF Locals
<1>8. Locals'
  BY <1>1, <1>2, <1>4, <1>5, <1>7 DEF Locals
<1> QED
  BY <1>1, <1>2, <1>3, <1>4, <1>7, <1>8 DEF Moves, Others, Same

LEMMA ReportStep ==
    ASSUME TypeInv, NEW e \in Exec, ReportChunk(e)
    PROVE  /\ Moves(e) /\ pc[e] = "report" /\ tx[e] = NoTx /\ tx'[e] = NoTx
           /\ ~aborted[e] /\ ~aborted'[e]
           /\ pc'[e] = IF pos[e] < Total(JobOf(e)) THEN "ingest"
                       ELSE IF pending[e] # {} THEN "relate" ELSE "final"
           /\ base'[e] = pos[e] /\ pos'[e] = pos[e] /\ imported'[e] = imported[e]
           /\ errored'[e] = errored[e] /\ tempIds'[e] = tempIds[e]
           /\ pending'[e] = pending[e] /\ stored'[e] = stored[e]
           /\ UNCHANGED <<api, jobRow, queue, ttl, assets, rels, polling, view, faults>>
<1>1. Locals /\ pc[e] = "report" /\ tx[e] = NoTx /\ ~aborted[e]
  BY TypesOfAll DEF TypeInv, Place, ReportChunk
<1>2. /\ pc' = [pc EXCEPT ![e] = IF pos[e] < Total(JobOf(e)) THEN "ingest"
                                 ELSE IF pending[e] # {} THEN "relate" ELSE "final"]
      /\ base' = [base EXCEPT ![e] = pos[e]]
      /\ UNCHANGED <<api, jobRow, queue, deliveries, ttl, assets, rels, polling, view, faults,
                     pos, imported, errored, tempIds, pending, tx, aborted, stored>>
  BY DEF ReportChunk, Goto, apiVars, brokerVars, txVars, clientVars
<1>3. /\ pc' \in [Exec -> Label] /\ base' \in [Exec -> Nat]
      /\ pc'[e] = IF pos[e] < Total(JobOf(e)) THEN "ingest"
                  ELSE IF pending[e] # {} THEN "relate" ELSE "final"
      /\ base'[e] = pos[e]
      /\ \A q \in Exec \ {e} : pc'[q] = pc[q] /\ base'[q] = base[q]
  BY <1>1, <1>2 DEF Locals, Label
<1>4. Locals'
  BY <1>1, <1>2, <1>3 DEF Locals
<1> QED
  BY <1>1, <1>2, <1>3, <1>4 DEF Moves, Others, Same

LEMMA DeliverStep ==
    ASSUME TypeInv, NEW j \in Job, Deliver(j)
    PROVE  LET e == <<j, deliveries[j] + 1>> IN
           /\ e \in Exec /\ pc[e] = "none" /\ pc'[e] = "start"
           /\ \A q \in Exec \ {e} : pc'[q] = pc[q]
           /\ Locals' /\ Shared' /\ deliveries'[j] = deliveries[j] + 1
           /\ \A q \in Job \ {j} : deliveries'[q] = deliveries[q]
           /\ UNCHANGED <<api, jobRow, progress, ttl, assets, rels, polling, view, faults,
                          base, pos, imported, errored, tempIds, pending, tx, aborted, stored>>
<1> DEFINE e == <<j, deliveries[j] + 1>>
<1>1. Locals /\ Shared /\ Numbered
  BY TypesOfAll DEF TypeInv
<1>2. deliveries[j] \in Nat /\ deliveries[j] + 1 \in 1..MaxDeliveries
  <2>1. deliveries[j] \in 0..MaxDeliveries
    BY <1>1 DEF Shared
  <2>2. deliveries[j] < MaxDeliveries
    BY DEF Deliver
  <2> QED
    BY <2>1, <2>2, Bounds
<1>3. e \in Exec /\ e[1] = j /\ e[2] = deliveries[j] + 1
  BY <1>2 DEF Exec
<1>4. pc[e] = "none"
  BY <1>1, <1>2, <1>3 DEF Numbered
<1>5. /\ pc' = [pc EXCEPT ![e] = "start"]
      /\ queue' = [queue EXCEPT ![j] = "unacked"]
      /\ deliveries' = [deliveries EXCEPT ![j] = deliveries[j] + 1]
      /\ UNCHANGED <<api, jobRow, progress, ttl, assets, rels, polling, view, faults,
                     base, pos, imported, errored, tempIds, pending, tx, aborted, stored>>
  BY DEF Deliver, apiVars, redisVars, localVars, txVars, clientVars
<1> HIDE DEF e
<1>6. /\ pc' \in [Exec -> Label] /\ pc'[e] = "start"
      /\ \A q \in Exec \ {e} : pc'[q] = pc[q]
  BY <1>1, <1>3, <1>5 DEF Locals, Label
<1>7. /\ queue' \in [Job -> {"none", "ready", "unacked", "gone"}]
      /\ deliveries' \in [Job -> 0..MaxDeliveries] /\ deliveries'[j] = deliveries[j] + 1
      /\ \A q \in Job \ {j} : deliveries'[q] = deliveries[q]
  <2>1. deliveries[j] + 1 \in 0..MaxDeliveries
    BY <1>2
  <2> QED
    BY <1>1, <1>5, <2>1 DEF Shared
<1>8. Locals' /\ Shared'
  BY <1>1, <1>5, <1>6, <1>7 DEF Locals, Shared
<1> QED
  BY <1>3, <1>4, <1>5, <1>6, <1>7, <1>8 DEF e

-----------------------------------------------------------------------------
(* The types are kept.                                                     *)

LEMMA AckedType ==
    ASSUME Shared, NEW j \in Job
    PROVE  Acked(j) \in [Job -> {"none", "ready", "unacked", "gone"}]
BY DEF Acked, Shared

LEMMA FinalStatusType ==
    ASSUME NEW e \in Exec
    PROVE  FinalStatus(e) \in {"done", "failed"}
BY DEF FinalStatus

LEMMA ResolvedType ==
    ASSUME Locals, NEW e \in Exec
    PROVE  Resolved(e) \subseteq RowId \X RowId \X RelType
<1>1. ASSUME NEW p \in pending[e], {p[1], p[2]} \subseteq DOMAIN tempIds[e]
      PROVE  <<tempIds[e][p[1]], tempIds[e][p[2]], p[3]>> \in RowId \X RowId \X RelType
  <2>1. p[3] \in RelType
    BY DEF Locals
  <2>2. tempIds[e][p[1]] \in RowId /\ tempIds[e][p[2]] \in RowId
    BY <1>1 DEF Locals, Partial
  <2> QED
    BY <2>1, <2>2
<1> QED
  BY <1>1 DEF Resolved

LEMMA IngestTypes ==
    ASSUME TypeInv, NEW e \in Exec, Moves(e), Passes(e),
           UNCHANGED <<api, jobRow, queue, progress, ttl, assets, rels, polling, view, faults>>,
           \/ /\ imported'[e] = imported[e] \cup {pos[e] + 1} /\ errored'[e] = errored[e]
           \/ /\ errored'[e] = errored[e] \cup {pos[e] + 1} /\ imported'[e] = imported[e]
    PROVE  TypeInv'
<1>1. Locals /\ Shared /\ pos[e] \in Nat /\ base[e] \in Nat /\ base[e] <= pos[e]
  BY TypesOfAll DEF TypeInv, Locals, Place
<1>2. Shared'
  BY <1>1 DEF Moves, Shared
<1>3. Locals' /\ Others(e) /\ deliveries' = deliveries /\ pc[e] # "none" /\ pc'[e] # "none"
  BY DEF Moves
<1>4. ChunkEnd(e) \in Nat /\ Total(JobOf(e)) \in Nat
  BY <1>1, Chunks, Batches, Executions
<1>5. ASSUME NEW q \in Exec, q = e PROVE Place(q)' /\ Counted(q)'
  <2>1. Place(q)'
    BY <1>1, <1>4, <1>5 DEF Place, Passes, ChunkEnd
  <2>2. 1..(pos[e] + 1) = (1..pos[e]) \cup {pos[e] + 1} /\ pos[e] + 1 \notin 1..pos[e]
    BY <1>1
  <2>3. Counted(e)
    BY DEF TypeInv
  <2>4. Counted(q)'
    BY <1>5, <2>2, <2>3 DEF Counted, Passes
  <2> QED
    BY <2>1, <2>4
<1> QED
  BY <1>2, <1>3, <1>5, OneExecution

\* The hashes that a worker writes.
LEMMA HashesWritten ==
    ASSUME TypeInv, NEW e \in Exec
    PROVE  /\ HashOK([status |-> "running", total |-> Total(JobOf(e)), imported |-> 0,
                      error_count |-> 0, processed |-> 0])
           /\ HashOK([imported |-> Cardinality(imported[e]),
                      error_count |-> Cardinality(errored[e]),
                      processed |-> pos[e]])
           /\ HashOK([status |-> FinalStatus(e),
                      imported |-> Cardinality(imported[e]),
                      error_count |-> Cardinality(errored[e]),
                      processed |-> Total(JobOf(e)),
                      errors |-> Capped(errored[e])])
<1>1. /\ Total(JobOf(e)) \in Nat /\ pos[e] \in Nat
      /\ Cardinality(imported[e]) \in Nat /\ Cardinality(errored[e]) \in Nat
  BY TypesOfAll, Batches, Executions, Sizes DEF TypeInv, Locals
<1>2. Capped(errored[e]) \in SUBSET (Nat \ {0})
  BY TypesOfAll DEF TypeInv, Locals, Capped
<1>3. FinalStatus(e) \in JobStatus \ {"queued"}
  BY FinalStatusType DEF JobStatus
<1> QED
  BY <1>1, <1>2, <1>3 DEF HashOK, Counter, JobStatus

\* An execution that ends early, whatever ends it.
LEMMA EndTypes ==
    ASSUME TypeInv, NEW e \in Exec, NEW label \in {"failed", "lost"}, pc[e] # "none",
           Abandon(e, label),
           queue' = Acked(JobOf(e)) \/ UNCHANGED queue,
           faults' \in [lost : 0..MaxLost, failed : 0..MaxFailed, badCommits : 0..MaxBadCommits]
    PROVE  TypeInv'
<1>1. Locals /\ Shared /\ JobOf(e) \in Job /\ Place(e) /\ Counted(e)
  BY TypesOfAll, Executions DEF TypeInv
<1>2. /\ Moves(e) /\ pc'[e] = label /\ tx'[e] = NoTx /\ aborted'[e] = FALSE
      /\ base'[e] = base[e] /\ pos'[e] = pos[e] /\ imported'[e] = imported[e]
      /\ errored'[e] = errored[e] /\ stored'[e] = stored[e]
      /\ UNCHANGED <<api, jobRow, progress, ttl, assets, rels, polling, view>>
  BY AbandonStep
<1>3. queue' \in [Job -> {"none", "ready", "unacked", "gone"}]
  <2>1. CASE queue' = Acked(JobOf(e))
    BY <1>1, <2>1, AckedType
  <2>2. CASE UNCHANGED queue
    BY <1>1, <2>2 DEF Shared
  <2> QED
    BY <2>1, <2>2
<1>4. Shared'
  BY <1>1, <1>2, <1>3 DEF Shared, Moves
<1>5. \A q \in Exec : q = e => Place(q)' /\ Counted(q)'
  BY <1>1, <1>2 DEF Place, Counted, ChunkEnd
<1> QED
  BY <1>2, <1>4, <1>5, OneExecution DEF Moves

\* The last statements of an execution.
LEMMA EndingTypes ==
    ASSUME TypeInv, NEW e \in Exec,
           ReportFinal(e) \/ SetExpiry(e) \/ SyncRow(e) \/ Acknowledge(e)
    PROVE  TypeInv'
<1>1. /\ Locals /\ Shared /\ JobOf(e) \in Job /\ Place(e) /\ Counted(e)
  BY TypesOfAll, Executions DEF TypeInv
<1>2. PICK label \in {"expire", "sync", "return", "finished"} :
          Goto(e, label) /\ pc[e] \in {"final", "expire", "sync", "return"}
          /\ UNCHANGED <<localVars, tx, aborted, stored, deliveries>>
  BY DEF ReportFinal, SetExpiry, SyncRow, Acknowledge, brokerVars, txVars
<1>3. /\ Moves(e) /\ pc'[e] = label /\ tx'[e] = tx[e] /\ aborted'[e] = aborted[e]
      /\ base'[e] = base[e] /\ pos'[e] = pos[e] /\ imported'[e] = imported[e]
      /\ errored'[e] = errored[e] /\ stored'[e] = stored[e]
  BY <1>2, GotoStep DEF Label
<1>4. \A q \in Exec : q = e => Place(q)' /\ Counted(q)'
  BY <1>1, <1>2, <1>3 DEF Place, Counted, ChunkEnd
<1>5. Shared'
  <2>1. CASE ReportFinal(e)
    <3>1. DOMAIN progress' = Job /\ \A j \in Job : HashOK(progress'[j])
      BY <1>1, <2>1, HashSet, HashesWritten DEF ReportFinal
    <3> QED
      BY <1>1, <2>1, <3>1 DEF ReportFinal, Shared, apiVars, brokerVars, txVars, clientVars
  <2>2. CASE SetExpiry(e)
    <3>1. ttl' \in [Job -> BOOLEAN]
      BY <1>1, <2>2 DEF SetExpiry, Shared
    <3> QED
      BY <1>1, <2>2, <3>1 DEF SetExpiry, Shared, apiVars, brokerVars, txVars, clientVars
  <2>3. CASE SyncRow(e)
    <3>1. [status |-> FinalStatus(e), imported |-> Cardinality(imported[e]),
           error_count |-> Cardinality(errored[e])]
             \in [status : JobStatus \ {"running"}, imported : Nat, error_count : Nat]
      BY <1>1, Sizes, FinalStatusType DEF JobStatus, Locals
    <3>2. jobRow' \in [Job -> [status : JobStatus \ {"running"}, imported : Nat,
                               error_count : Nat]]
      BY <1>1, <2>3, <3>1 DEF SyncRow, Shared
    <3> QED
      BY <1>1, <2>3, <3>2 DEF SyncRow, Shared, brokerVars, redisVars, txVars, clientVars
  <2>4. CASE Acknowledge(e)
    <3>1. queue' \in [Job -> {"none", "ready", "unacked", "gone"}]
      BY <1>1, <2>4, AckedType DEF Acknowledge
    <3> QED
      BY <1>1, <2>4, <3>1 DEF Acknowledge, Shared, apiVars, redisVars, txVars, clientVars
  <2> QED
    BY <2>1, <2>2, <2>3, <2>4
<1> QED
  BY <1>3, <1>4, <1>5, OneExecution DEF Moves

LEMMA WorkTypes ==
    ASSUME TypeInv, NEW e \in Exec, Work(e) \/ DeadlockVictim(e)
    PROVE  TypeInv'
<1>1. /\ Locals /\ Shared /\ JobOf(e) \in Job /\ Place(e) /\ Counted(e)
      /\ pos[e] \in Nat /\ base[e] \in Nat /\ Total(JobOf(e)) \in Nat \ {0}
  BY TypesOfAll, Executions, Batches DEF TypeInv, Locals
<1>2. CASE StartRun(e)
  <2>1. Goto(e, "ingest") /\ pc[e] = "start" /\ UNCHANGED <<localVars, tx, aborted, stored, deliveries>>
    BY <1>2 DEF StartRun, brokerVars, txVars
  <2>2. /\ Moves(e) /\ pc'[e] = "ingest" /\ tx'[e] = tx[e] /\ aborted'[e] = aborted[e]
        /\ base'[e] = base[e] /\ pos'[e] = pos[e] /\ imported'[e] = imported[e]
        /\ errored'[e] = errored[e] /\ stored'[e] = stored[e]
    BY <2>1, GotoStep DEF Label
  <2>3. DOMAIN progress' = Job /\ \A j \in Job : HashOK(progress'[j])
    BY <1>1, <1>2, HashSet, HashesWritten DEF StartRun
  <2>4. Shared'
    BY <1>1, <1>2, <2>3 DEF StartRun, Shared, apiVars, brokerVars, txVars, clientVars
  <2>5. pos[e] = 0 /\ base[e] = 0 /\ 0 < ChunkEnd(e)
    BY <1>1, <2>1, Chunks DEF Place
  <2>6. \A q \in Exec : q = e => Place(q)' /\ Counted(q)'
    BY <1>1, <2>2, <2>5 DEF Place, Counted, ChunkEnd
  <2> QED
    BY <2>2, <2>4, <2>6, OneExecution DEF Moves
<1>3. CASE Reject(e) \/ PoisonRecord(e) \/ DeadlockVictim(e)
  <2>1. /\ pc[e] = "ingest" /\ CountError(e)
        /\ \/ UNCHANGED <<tx, aborted>>
           \/ /\ tx' = [tx EXCEPT ![e] = NoTx]
              /\ aborted' = [aborted EXCEPT ![e] = TRUE]
    <3>1. CASE Reject(e)
      BY <3>1 DEF Reject
    <3>2. CASE PoisonRecord(e)
      BY <3>2 DEF PoisonRecord, AbortTx
    <3>3. CASE DeadlockVictim(e)
      BY <3>3 DEF DeadlockVictim, Deadlocked, WaitsFor, AtUpsert, AbortTx
    <3> QED
      BY <1>3, <3>1, <3>2, <3>3
  <2> QED
    BY <2>1, CountErrorStep, IngestTypes
<1>4. CASE Upsert(e)
  BY <1>4, UpsertStep, IngestTypes
<1>5. CASE CommitChunk(e)
  <2>1. /\ Moves(e) /\ pc[e] = "commit" /\ pc'[e] = "report"
        /\ tx'[e] = NoTx /\ aborted'[e] = FALSE
        /\ assets' \in [Key -> Row \cup {NoRow}]
        /\ stored'[e] \subseteq stored[e] \cup (base[e] + 1)..pos[e]
        /\ base'[e] = base[e] /\ pos'[e] = pos[e] /\ imported'[e] = imported[e]
        /\ errored'[e] = errored[e]
        /\ UNCHANGED <<api, jobRow, queue, progress, ttl, rels, polling, view, faults>>
    BY <1>5, CommitStep
  <2>2. Shared'
    BY <1>1, <2>1 DEF Shared, Moves
  <2>3. (base[e] + 1)..pos[e] \subseteq 1..pos[e]
    BY <1>1
  <2>4. \A q \in Exec : q = e => Place(q)' /\ Counted(q)'
    BY <1>1, <2>1, <2>3 DEF Place, Counted, ChunkEnd
  <2> QED
    BY <2>1, <2>2, <2>4, OneExecution DEF Moves
<1>6. CASE ReportChunk(e)
  <2>1. /\ Moves(e) /\ pc[e] = "report" /\ tx'[e] = NoTx /\ ~aborted'[e]
        /\ pc'[e] = IF pos[e] < Total(JobOf(e)) THEN "ingest"
                    ELSE IF pending[e] # {} THEN "relate" ELSE "final"
        /\ base'[e] = pos[e] /\ pos'[e] = pos[e] /\ imported'[e] = imported[e]
        /\ errored'[e] = errored[e] /\ stored'[e] = stored[e]
        /\ UNCHANGED <<api, jobRow, queue, ttl, assets, rels, polling, view, faults>>
    BY <1>6, ReportStep
  <2>2. DOMAIN progress' = Job /\ \A j \in Job : HashOK(progress'[j])
    BY <1>1, <1>6, HashSet, HashesWritten DEF ReportChunk
  <2>3. Shared'
    BY <1>1, <2>1, <2>2 DEF Shared, Moves
  <2>4. \A q \in Exec : q = e => Place(q)' /\ Counted(q)'
    BY <1>1, <2>1, Bounds DEF Place, Counted, ChunkEnd
  <2> QED
    BY <2>1, <2>3, <2>4, OneExecution DEF Moves
<1>7. CASE Relate(e)
  <2>1. Goto(e, "final") /\ pc[e] = "relate" /\ UNCHANGED <<localVars, tx, aborted, stored, deliveries>>
    BY <1>7 DEF Relate, brokerVars, txVars
  <2>2. /\ Moves(e) /\ pc'[e] = "final" /\ tx'[e] = tx[e] /\ aborted'[e] = aborted[e]
        /\ base'[e] = base[e] /\ pos'[e] = pos[e] /\ imported'[e] = imported[e]
        /\ errored'[e] = errored[e] /\ stored'[e] = stored[e]
    BY <2>1, GotoStep DEF Label
  <2>3. rels' \in SUBSET (RowId \X RowId \X RelType)
    BY <1>1, <1>7, ResolvedType DEF Relate, Shared
  <2>4. Shared'
    BY <1>1, <1>7, <2>3 DEF Relate, Shared, apiVars, brokerVars, redisVars, txVars, clientVars
  <2>5. \A q \in Exec : q = e => Place(q)' /\ Counted(q)'
    BY <1>1, <2>1, <2>2 DEF Place, Counted, ChunkEnd
  <2> QED
    BY <2>2, <2>4, <2>5, OneExecution DEF Moves
<1>8. CASE RelateFails(e)
  <2>1. pc[e] # "none" /\ Abandon(e, "failed") /\ queue' = Acked(JobOf(e)) /\ UNCHANGED faults
    BY <1>8 DEF RelateFails
  <2>2. faults' \in [lost : 0..MaxLost, failed : 0..MaxFailed, badCommits : 0..MaxBadCommits]
    BY <1>1, <2>1 DEF Shared
  <2> QED
    BY <2>1, <2>2, EndTypes
<1>9. CASE ReportFinal(e) \/ SetExpiry(e) \/ SyncRow(e) \/ Acknowledge(e)
  BY <1>9, EndingTypes
<1> QED
  BY <1>2, <1>3, <1>4, <1>5, <1>6, <1>7, <1>8, <1>9 DEF Work

LEMMA FaultCounted ==
    ASSUME Shared
    PROVE  /\ faults.lost < MaxLost =>
                 [faults EXCEPT !.lost = @ + 1]
                    \in [lost : 0..MaxLost, failed : 0..MaxFailed, badCommits : 0..MaxBadCommits]
           /\ faults.failed < MaxFailed =>
                 [faults EXCEPT !.failed = @ + 1]
                    \in [lost : 0..MaxLost, failed : 0..MaxFailed, badCommits : 0..MaxBadCommits]
           /\ faults.badCommits < MaxBadCommits =>
                 [faults EXCEPT !.badCommits = @ + 1]
                    \in [lost : 0..MaxLost, failed : 0..MaxFailed, badCommits : 0..MaxBadCommits]
<1>1. faults \in [lost : 0..MaxLost, failed : 0..MaxFailed, badCommits : 0..MaxBadCommits]
  BY DEF Shared
<1>2. faults.lost \in 0..MaxLost /\ faults.failed \in 0..MaxFailed /\ faults.badCommits \in 0..MaxBadCommits
  BY <1>1
<1> QED
  BY <1>1, <1>2, Bounds

\* The steps of the handler, the broker, Redis and the client.
LEMMA JobTypes ==
    ASSUME TypeInv, NEW j \in Job,
           \/ Submit(j)  \/ Respond(j)    \/ CommitJob(j) \/ LoseJob(j) \/ Deliver(j)
           \/ Restore(j) \/ KeyExpires(j) \/ PollHash(j)  \/ PollRow(j)
    PROVE  TypeInv'
<1>1. Locals /\ Shared
  BY TypesOfAll DEF TypeInv
<1>2. CASE Deliver(j)
  <2> DEFINE e == <<j, deliveries[j] + 1>>
  <2>1. /\ e \in Exec /\ pc[e] = "none" /\ pc'[e] = "start"
        /\ \A q \in Exec \ {e} : pc'[q] = pc[q]
        /\ Locals' /\ Shared' /\ deliveries'[j] = deliveries[j] + 1
        /\ \A q \in Job \ {j} : deliveries'[q] = deliveries[q]
        /\ UNCHANGED <<base, pos, imported, errored, tx, aborted, stored>>
    BY <1>2, DeliverStep
  <2>2. deliveries[j] \in Nat /\ e[1] = j /\ e[2] = deliveries[j] + 1
    <3>1. deliveries[j] \in 0..MaxDeliveries
      BY <1>1 DEF Shared
    <3> QED
      BY <3>1, Bounds
  <2> HIDE DEF e
  <2>3. Numbered'
    <3>1. ASSUME NEW q \in Exec PROVE (pc[q] = "none" <=> q[2] > deliveries[q[1]])'
      <4>1. (pc[q] = "none" <=> q[2] > deliveries[q[1]]) /\ q[1] \in Job /\ q[2] \in Nat
        BY Executions DEF TypeInv, Numbered
      <4>2. q = <<q[1], q[2]>> /\ e = <<e[1], e[2]>>
        BY <2>1, Executions
      <4>3. CASE q = e
        BY <2>1, <2>2, <4>3
      <4>4. CASE q # e
        <5>1. q[1] = j => q[2] # deliveries[j] + 1
          BY <2>2, <4>2, <4>4
        <5> QED
          BY <2>1, <2>2, <4>1, <4>4, <5>1
      <4> QED
        BY <4>3, <4>4
    <3> QED
      BY <3>1 DEF Numbered
  <2>4. \A q \in Exec : Place(q)' /\ Counted(q)'
    <3>1. ASSUME NEW q \in Exec PROVE Place(q)' /\ Counted(q)'
      <4>1. Place(q) /\ Counted(q)
        BY DEF TypeInv
      <4>2. pc'[q] = pc[q] \/ (pc[q] = "none" /\ pc'[q] = "start")
        BY <2>1
      <4> QED
        BY <2>1, <4>1, <4>2 DEF Place, Counted, ChunkEnd
    <3> QED
      BY <3>1
  <2> QED
    BY <2>1, <2>3, <2>4, TypesOfAll DEF TypeInv, TypeOK, Locals, Shared
<1>3. CASE Submit(j)
  BY <1>1, <1>3, NoExecution DEF Submit, Shared, redisVars, txVars, clientVars
<1>4. CASE Respond(j) \/ CommitJob(j)
  BY <1>1, <1>4, NoExecution
  DEF Respond, CommitJob, Shared, brokerVars, redisVars, txVars, clientVars
<1>5. CASE LoseJob(j)
  <2>1. faults' \in [lost : 0..MaxLost, failed : 0..MaxFailed, badCommits : 0..MaxBadCommits]
    BY <1>1, <1>5, FaultCounted DEF LoseJob
  <2> QED
    BY <1>1, <1>5, <2>1, NoExecution DEF LoseJob, Shared, brokerVars, redisVars, txVars, clientVars
<1>6. CASE Restore(j)
  BY <1>1, <1>6, NoExecution DEF Restore, Shared, apiVars, redisVars, txVars, clientVars
<1>7. CASE KeyExpires(j)
  <2>1. DOMAIN progress' = Job /\ \A q \in Job : HashOK(progress'[q])
    BY <1>1, <1>7, EmptyPartial DEF KeyExpires, Shared, HashOK
  <2> QED
    BY <1>1, <1>7, <2>1, NoExecution
    DEF KeyExpires, Shared, apiVars, brokerVars, txVars, clientVars
<1>8. CASE PollHash(j)
  <2>1. HashStatus(progress[j]) \in JobStatus
    BY <1>1 DEF HashStatus, HashOK, JobStatus, Shared
  <2>2. /\ view' \in [Job -> JobStatus \cup {"unseen", "not found"}]
        /\ polling' \in [Job -> BOOLEAN]
    <3>1. /\ view \in [Job -> JobStatus \cup {"unseen", "not found"}]
          /\ polling \in [Job -> BOOLEAN]
      BY <1>1 DEF Shared
    <3>2. \/ /\ view' = [view EXCEPT ![j] = HashStatus(progress[j])] /\ polling' = polling
          \/ view' = view /\ polling' = [polling EXCEPT ![j] = TRUE]
      BY <1>8 DEF PollHash
    <3> QED
      BY <2>1, <3>1, <3>2
  <2>3. Shared'
    BY <1>1, <1>8, <2>2 DEF PollHash, Shared, apiVars, brokerVars, redisVars, txVars
  <2> QED
    BY <1>8, <2>3, NoExecution DEF PollHash, brokerVars, txVars
<1>9. CASE PollRow(j)
  <2>1. jobRow[j].status \in JobStatus
    BY <1>1 DEF Shared, JobStatus
  <2>2. Shared'
    BY <1>1, <1>9, <2>1 DEF PollRow, Shared, apiVars, brokerVars, redisVars, txVars
  <2> QED
    BY <1>9, <2>2, NoExecution DEF PollRow, brokerVars, txVars
<1> QED
  BY <1>2, <1>3, <1>4, <1>5, <1>6, <1>7, <1>8, <1>9

LEMMA StepTypes == TypeInv /\ [Next]_vars => TypeInv'
<1> SUFFICES ASSUME TypeInv, [Next]_vars PROVE TypeInv'
  OBVIOUS
<1>1. CASE UNCHANGED vars
  <2>1. Shared'
    BY <1>1, TypesOfAll DEF TypeInv, Shared, vars, apiVars, brokerVars, redisVars, txVars, clientVars
  <2> QED
    BY <1>1, <2>1, NoExecution DEF vars, brokerVars, txVars
<1>2. ASSUME NEW e \in Exec, Running(e), faults.lost < MaxLost \/ faults.failed < MaxFailed,
             LoseWorker(e) \/ FailTask(e)
      PROVE  TypeInv'
  <2>1. pc[e] # "none" /\ Shared
    BY <1>2, TypesOfAll DEF Running, TypeInv
  <2>2. CASE LoseWorker(e)
    <3>1. faults' \in [lost : 0..MaxLost, failed : 0..MaxFailed, badCommits : 0..MaxBadCommits]
      BY <2>1, <2>2, FaultCounted DEF LoseWorker
    <3> QED
      BY <2>1, <2>2, <3>1, EndTypes DEF LoseWorker
  <2>3. CASE FailTask(e)
    <3>1. faults' \in [lost : 0..MaxLost, failed : 0..MaxFailed, badCommits : 0..MaxBadCommits]
      BY <2>1, <2>3, FaultCounted DEF FailTask
    <3> QED
      BY <2>1, <2>3, <3>1, EndTypes DEF FailTask
  <2> QED
    BY <1>2, <2>2, <2>3
<1> QED
  BY <1>1, <1>2, JobTypes, WorkTypes DEF Next, LoseWorker, FailTask

\* Every variable of the pipeline keeps to its type: what a worker reads from
\* the hash, the row or its own locals is what some step wrote there, and no
\* chunk runs past the end of its batch (_run_bulk_import).
THEOREM TypeCorrect == Spec => []TypeOK
<1>1. TypeInv => TypeOK
  BY DEF TypeInv
<1> QED
  BY <1>1, InitTypes, StepTypes, PTL DEF Spec
-----------------------------------------------------------------------------
(* The inductive invariant: rows.                                          *)

\* What a merge may do to a row: it keeps the id and loses nothing.
Extends(new, old) ==
    /\ new.id = old.id
    /\ old.tags \subseteq new.tags
    /\ DOMAIN old.meta \subseteq DOMAIN new.meta

Has(row, rec) ==
    /\ rec.tags \subseteq row.tags
    /\ DOMAIN rec.meta \subseteq DOMAIN row.meta

\* Record i of e was stored in the open transaction of e.
InChunk(e, i) == base[e] < i /\ pc[e] \in {"ingest", "commit"} /\ ~aborted[e]

\* No row is locked twice.
Exclusive ==
    \A e, f \in Exec : e # f => DOMAIN tx[e] \cap DOMAIN tx[f] = {}

\* The rows of an open transaction were made from the committed ones, which
\* stay as they are while they are locked.
TxExtends(e) ==
    \A k \in DOMAIN tx[e] : assets[k] # NoRow => Extends(tx[e][k], assets[k])

\* A record counted as imported is in the table once its chunk is committed,
\* and in the transaction until then.
Kept(e) ==
    \A i \in imported[e] :
        /\ i \in stored[e] =>
              assets[Rec(e, i).key] # NoRow /\ Has(assets[Rec(e, i).key], Rec(e, i))
        /\ InChunk(e, i) =>
              Rec(e, i).key \in DOMAIN tx[e] /\ Has(tx[e][Rec(e, i).key], Rec(e, i))

\* x is the id of the row of record i, wherever that row is.
IdIs(e, i, x) ==
    /\ i \in stored[e] => assets[Rec(e, i).key].id = x
    /\ InChunk(e, i) => tx[e][Rec(e, i).key].id = x

Newest(e, i, t) == i \in Named(e, t) /\ \A q \in Named(e, t) : q <= i

\* A temporary id stands for the row of the last imported record that has it.
IdsKnown(e) ==
    /\ \A t \in TempId : t \in DOMAIN tempIds[e] <=> Named(e, t) # {}
    /\ \A t \in DOMAIN tempIds[e] : \E i \in imported[e] :
          Newest(e, i, t) /\ IdIs(e, i, tempIds[e][t])

HintsKept(e) ==
    /\ \A h \in pending[e] : \E i \in imported[e] : h \in Hints(Rec(e, i))
    /\ \A i \in imported[e] : Hints(Rec(e, i)) \subseteq pending[e]

Rows(e) ==
    /\ aborted[e] => tx[e] = NoTx
    /\ TxExtends(e) /\ Kept(e) /\ IdsKnown(e) /\ HintsKept(e)

RowInv == TypeInv /\ Exclusive /\ \A e \in Exec : Rows(e)

\* Relationships come from executions that have no more to import, and those
\* that had their turn are in.
PastRelate == {"final", "expire", "sync", "return", "finished", "lost", "failed"}
RelsInv ==
    /\ \A r \in rels : \E e \in Exec : pc[e] \in PastRelate /\ r \in Resolved(e)
    /\ \A e \in Exec : Related(e) => Resolved(e) \subseteq rels

\* What a step does to the records, ids and locks of q when it neither stores
\* nor commits one of its rows.
Unmoved(q) ==
    /\ imported'[q] = imported[q] /\ stored'[q] = stored[q]
    /\ tempIds'[q] = tempIds[q] /\ pending'[q] = pending[q]
    /\ tx'[q] = tx[q] \/ tx'[q] = NoTx
    /\ aborted'[q] => tx'[q] = NoTx
    /\ \A i \in imported[q] : InChunk(q, i)' => InChunk(q, i) /\ tx'[q] = tx[q]
    /\ pc[q] \in PastRelate => pc'[q] \in PastRelate

\* Rows in the table are only ever merged into, and not under a lock of q.
Grow(q) ==
    \A k \in Key :
        /\ assets[k] # NoRow => assets'[k] # NoRow /\ Extends(assets'[k], assets[k])
        /\ k \in DOMAIN tx[q] => assets'[k] = assets[k]

LEMMA ExtendsItself == \A row : Extends(row, row)
BY DEF Extends

\* Whatever belongs to q outlives a step that leaves q alone.
LEMMA RowsKept ==
    ASSUME TypeInv, NEW q \in Exec, Rows(q), Unmoved(q), Grow(q)
    PROVE  \A r \in Exec : r = q => Rows(r)'
<1>1. /\ Locals /\ Counted(q) /\ pos[q] \in 0..Total(JobOf(q)) /\ DOMAIN tx[q] \subseteq Key
  BY TypesOfAll, Batches, Executions DEF TypeInv, Locals, Place, Partial
<1>2. \A i \in imported[q] : Rec(q, i).key \in Key
  <2>1. imported[q] \subseteq 1..Total(JobOf(q))
    BY <1>1, Batches, Executions DEF Counted
  <2> QED
    BY <2>1, RecordSeen
<1>3. \A r \in Exec : r = q => TxExtends(r)'
  BY <1>1, EmptyTx DEF TxExtends, Unmoved, Grow, Rows
<1>4. \A r \in Exec : r = q => Kept(r)'
  <2>1. ASSUME NEW i \in imported[q]
        PROVE  /\ i \in stored[q] =>
                     assets'[Rec(q, i).key] # NoRow /\ Has(assets'[Rec(q, i).key], Rec(q, i))
               /\ InChunk(q, i)' =>
                     Rec(q, i).key \in DOMAIN tx'[q] /\ Has(tx'[q][Rec(q, i).key], Rec(q, i))
    BY <1>2 DEF Unmoved, Grow, Rows, Kept, Extends, Has
  <2> QED
    BY <2>1 DEF Kept, Unmoved
<1>5. \A r \in Exec : r = q => IdsKnown(r)'
  <2>1. \A t : Named(q, t)' = Named(q, t)
    BY DEF Named, Unmoved
  <2>2. ASSUME NEW t \in DOMAIN tempIds[q]
        PROVE  \E i \in imported[q] : Newest(q, i, t)' /\ IdIs(q, i, tempIds[q][t])'
    <3>1. PICK i \in imported[q] : Newest(q, i, t) /\ IdIs(q, i, tempIds[q][t])
      BY DEF Rows, IdsKnown
    <3>2. i \in stored[q] => assets[Rec(q, i).key] # NoRow
      BY DEF Rows, Kept
    <3>3. IdIs(q, i, tempIds[q][t])'
      BY <1>2, <3>1, <3>2 DEF IdIs, Unmoved, Grow, Extends
    <3>4. Newest(q, i, t)'
      BY <2>1, <3>1 DEF Newest
    <3> QED
      BY <3>3, <3>4
  <2> QED
    BY <2>1, <2>2 DEF Rows, IdsKnown, Unmoved
<1>6. \A r \in Exec : r = q => HintsKept(r)'
  BY DEF Rows, HintsKept, Unmoved
<1> QED
  BY <1>3, <1>4, <1>5, <1>6 DEF Rows, Unmoved

LEMMA SameIsUnmoved ==
    ASSUME NEW q \in Exec, Same(q), Rows(q)
    PROVE  Unmoved(q)
BY DEF Same, Unmoved, InChunk, Rows

\* Steps that neither store nor commit a row.
LEMMA OtherSteps ==
    ASSUME RowInv, [Next]_vars,
           \A e \in Exec : ~Upsert(e) /\ ~CommitChunk(e)
    PROVE  assets' = assets /\ \A q \in Exec : Unmoved(q)
<1>1. TypeInv /\ Locals /\ Shared /\ \A q \in Exec : Rows(q) /\ Place(q) /\ Counted(q)
  BY TypesOfAll DEF RowInv, TypeInv
<1>2. ASSUME NEW e \in Exec, Moves(e), Unmoved(e) PROVE \A q \in Exec : Unmoved(q)
  BY <1>1, <1>2, SameIsUnmoved DEF Moves, Others
<1>3. ASSUME UNCHANGED <<pc, localVars, tx, aborted, stored>> PROVE \A q \in Exec : Unmoved(q)
  BY <1>1, <1>3 DEF Unmoved, Rows, InChunk, localVars
<1>4. CASE UNCHANGED vars
  BY <1>3, <1>4 DEF vars, txVars
<1>5. ASSUME NEW j \in Job,
             \/ Submit(j)  \/ Respond(j)    \/ CommitJob(j) \/ LoseJob(j)
             \/ Restore(j) \/ KeyExpires(j) \/ PollHash(j)  \/ PollRow(j)
      PROVE  assets' = assets /\ \A q \in Exec : Unmoved(q)
  <2>1. UNCHANGED <<pc, localVars, txVars>>
    BY <1>5 DEF Submit, Respond, CommitJob, LoseJob, Restore, KeyExpires, PollHash, PollRow
  <2> QED
    BY <1>3, <2>1 DEF txVars
<1>6. ASSUME NEW j \in Job, Deliver(j) PROVE assets' = assets /\ \A q \in Exec : Unmoved(q)
  <2> DEFINE e == <<j, deliveries[j] + 1>>
  <2>1. /\ e \in Exec /\ pc[e] = "none" /\ pc'[e] = "start"
        /\ \A q \in Exec \ {e} : pc'[q] = pc[q]
        /\ UNCHANGED <<assets, base, pos, imported, errored, tempIds, pending, tx, aborted, stored>>
    BY <1>1, <1>6, DeliverStep
  <2> HIDE DEF e
  <2>2. \A q \in Exec : pc'[q] = pc[q] \/ (pc[q] = "none" /\ pc'[q] = "start")
    BY <2>1
  <2> QED
    BY <1>1, <2>1, <2>2 DEF Unmoved, Rows, InChunk, PastRelate
<1>7. ASSUME NEW e \in Exec, Reject(e) \/ PoisonRecord(e) \/ DeadlockVictim(e)
      PROVE  assets' = assets /\ \A q \in Exec : Unmoved(q)
  <2>1. /\ pc[e] = "ingest" /\ CountError(e)
        /\ \/ UNCHANGED <<tx, aborted>>
           \/ /\ tx' = [tx EXCEPT ![e] = NoTx]
              /\ aborted' = [aborted EXCEPT ![e] = TRUE]
    BY <1>7 DEF Reject, PoisonRecord, DeadlockVictim, Deadlocked, WaitsFor, AtUpsert, AbortTx
  <2>2. /\ Moves(e) /\ Passes(e)
        /\ imported'[e] = imported[e] /\ tempIds'[e] = tempIds[e] /\ pending'[e] = pending[e]
        /\ \/ tx'[e] = tx[e] /\ aborted'[e] = aborted[e]
           \/ tx'[e] = NoTx /\ aborted'[e] = TRUE
        /\ assets' = assets
    BY <1>1, <2>1, CountErrorStep
  <2>3. Unmoved(e)
    BY <1>1, <2>2 DEF Passes, Unmoved, Rows, InChunk, PastRelate
  <2> QED
    BY <1>2, <2>2, <2>3
<1>8. ASSUME NEW e \in Exec, ReportChunk(e) PROVE assets' = assets /\ \A q \in Exec : Unmoved(q)
  <2>1. /\ Moves(e) /\ pc[e] = "report" /\ tx[e] = NoTx /\ tx'[e] = NoTx /\ ~aborted'[e]
        /\ base'[e] = pos[e] /\ imported'[e] = imported[e] /\ tempIds'[e] = tempIds[e]
        /\ pending'[e] = pending[e] /\ stored'[e] = stored[e] /\ assets' = assets
    BY <1>1, <1>8, ReportStep
  <2>2. \A i \in imported[e] : ~InChunk(e, i)'
    <3>1. imported[e] \subseteq 1..pos[e] /\ pos[e] \in Nat
      BY <1>1 DEF Counted, Locals
    <3> QED
      BY <2>1, <3>1 DEF InChunk
  <2>3. Unmoved(e)
    BY <2>1, <2>2 DEF Unmoved, PastRelate
  <2> QED
    BY <1>2, <2>1, <2>3
<1>9. ASSUME NEW e \in Exec, StartRun(e) PROVE assets' = assets /\ \A q \in Exec : Unmoved(q)
  <2>1. /\ Goto(e, "ingest") /\ pc[e] = "start" /\ assets' = assets
        /\ UNCHANGED <<localVars, tx, aborted, stored, deliveries>>
    BY <1>9 DEF StartRun, brokerVars, txVars
  <2>2. /\ Moves(e) /\ tx'[e] = tx[e] /\ aborted'[e] = aborted[e] /\ imported'[e] = imported[e]
        /\ tempIds'[e] = tempIds[e] /\ pending'[e] = pending[e] /\ stored'[e] = stored[e]
    BY <1>1, <2>1, GotoStep DEF Label
  <2>3. imported[e] = {}
    BY <1>1, <2>1 DEF Place, Counted
  <2>4. Unmoved(e)
    BY <1>1, <2>1, <2>2, <2>3 DEF Unmoved, Rows, PastRelate
  <2> QED
    BY <1>2, <2>1, <2>2, <2>4
<1>10. ASSUME NEW e \in Exec,
              Relate(e) \/ ReportFinal(e) \/ SetExpiry(e) \/ SyncRow(e) \/ Acknowledge(e)
       PROVE  assets' = assets /\ \A q \in Exec : Unmoved(q)
  <2>1. PICK label \in {"final", "expire", "sync", "return", "finished"} :
            Goto(e, label) /\ pc[e] \in {"relate", "final", "expire", "sync", "return"}
            /\ UNCHANGED <<localVars, tx, aborted, stored, deliveries>> /\ assets' = assets
    BY <1>10 DEF Relate, ReportFinal, SetExpiry, SyncRow, Acknowledge, brokerVars, txVars
  <2>2. /\ Moves(e) /\ pc'[e] = label /\ tx'[e] = tx[e] /\ aborted'[e] = aborted[e]
        /\ imported'[e] = imported[e]
        /\ tempIds'[e] = tempIds[e] /\ pending'[e] = pending[e] /\ stored'[e] = stored[e]
    BY <1>1, <2>1, GotoStep DEF Label
  <2>3. Unmoved(e)
    BY <1>1, <2>1, <2>2 DEF Unmoved, Rows, InChunk, PastRelate
  <2> QED
    BY <1>2, <2>1, <2>2, <2>3
<1>11. ASSUME NEW e \in Exec, RelateFails(e) \/ LoseWorker(e) \/ FailTask(e)
       PROVE  assets' = assets /\ \A q \in Exec : Unmoved(q)
  <2>1. PICK label \in {"failed", "lost"} : Abandon(e, label) /\ pc[e] # "none"
    BY <1>11 DEF RelateFails, LoseWorker, FailTask, Running
  <2>2. /\ Moves(e) /\ pc'[e] = label /\ tx'[e] = NoTx /\ aborted'[e] = FALSE
        /\ imported'[e] = imported[e] /\ assets' = assets
        /\ tempIds'[e] = tempIds[e] /\ pending'[e] = pending[e] /\ stored'[e] = stored[e]
    BY <1>1, <2>1, AbandonStep
  <2>3. Unmoved(e)
    BY <2>1, <2>2 DEF Unmoved, InChunk, PastRelate
  <2> QED
    BY <1>2, <2>2, <2>3
<1> QED
  BY <1>4, <1>5, <1>6, <1>7, <1>8, <1>9, <1>10, <1>11 DEF Next, Work, vars, txVars

LEMMA ExclusiveKept ==
    ASSUME Exclusive, \A q \in Exec : tx'[q] = tx[q] \/ tx'[q] = NoTx
    PROVE  Exclusive'
BY EmptyTx DEF Exclusive

LEMMA RecordPassed ==
    ASSUME TypeInv, NEW e \in Exec, NEW i \in imported[e]
    PROVE  /\ i \in 1..Total(JobOf(e)) /\ i <= pos[e] /\ Rec(e, i).key \in Key
           /\ Rec(e, i).id \in TempId \cup {NoId}
<1>1. /\ imported[e] \subseteq 1..pos[e] /\ pos[e] \in Nat /\ pos[e] <= Total(JobOf(e))
      /\ Total(JobOf(e)) \in Nat
  BY TypesOfAll, Batches, Executions DEF TypeInv, Place, Counted, Locals
<1>2. i \in 1..Total(JobOf(e)) /\ i <= pos[e]
  BY <1>1
<1> QED
  BY <1>2, RecordSeen

LEMMA UpsertRows ==
    ASSUME RowInv, NEW e \in Exec, Upsert(e)
    PROVE  Exclusive' /\ \A r \in Exec : Rows(r)'
<1>0. PICK n : n = pos[e] + 1
  OBVIOUS
<1> DEFINE rec == Rec(e, n)
           seen == RowSeenBy(e, rec.key)
<1>1. TypeInv /\ Locals /\ Shared /\ Rows(e) /\ Place(e) /\ Counted(e) /\ pos[e] \in Nat
  BY TypesOfAll DEF RowInv, TypeInv, Locals
<1>2. /\ Moves(e) /\ Passes(e) /\ ~aborted[e] /\ aborted'[e] = FALSE
      /\ Current(e) = rec /\ rec.key \in Key
      /\ \A f \in Exec \ {e} : rec.key \notin DOMAIN tx[f]
      /\ imported'[e] = imported[e] \cup {n}
      /\ pending'[e] = pending[e] \cup Hints(rec)
      /\ assets' = assets /\ seen \in Row \cup {NoRow}
  BY <1>0, <1>1, UpsertStep
<1>3. PICK row \in Row :
          /\ row = Upserted(seen, <<e, n>>, rec)
          /\ tx'[e] = Put(tx[e], rec.key, row)
          /\ tempIds'[e] = IF rec.id = NoId THEN tempIds[e] ELSE Put(tempIds[e], rec.id, row.id)
  BY <1>0, <1>1, <1>2, UpsertStep
<1>4. /\ pos'[e] = n /\ base'[e] = base[e] /\ stored'[e] = stored[e]
      /\ pc[e] = "ingest" /\ pc'[e] \in {"ingest", "commit"}
  BY <1>0, <1>2 DEF Passes
<1>5. n \in 1..Total(JobOf(e))
  <2>1. ChunkEnd(e) \in Nat /\ Total(JobOf(e)) \in Nat
    BY <1>1, Chunks, Batches, Executions DEF Locals
  <2> QED
    BY <1>0, <1>1, <1>2, <2>1 DEF Passes
<1>6. /\ Has(row, rec)
      /\ seen # NoRow => Extends(row, seen)
  BY <1>2, <1>3, <1>5, UpsertedRow DEF Has, Extends
<1>7. n \notin imported[e] /\ n \notin stored[e] /\ \A i \in imported[e] : i \in Nat /\ i < n
  BY <1>0, <1>1 DEF Counted
<1>8. rec.id \in TempId \cup {NoId}
  BY <1>5, RecordSeen
<1> HIDE DEF rec, seen
<1>9. /\ DOMAIN tx'[e] = DOMAIN tx[e] \cup {rec.key} /\ tx'[e][rec.key] = row
      /\ \A k \in DOMAIN tx[e] : k # rec.key => tx'[e][k] = tx[e][k]
  <2>1. Partial(tx[e], Key, Row)
    BY <1>1 DEF Locals
  <2>2. /\ DOMAIN Put(tx[e], rec.key, row) = DOMAIN tx[e] \cup {rec.key}
        /\ Put(tx[e], rec.key, row)[rec.key] = row
        /\ \A k \in DOMAIN tx[e] : k # rec.key => Put(tx[e], rec.key, row)[k] = tx[e][k]
    BY <1>2, <2>1, PutPartial
  <2> QED
    BY <1>3, <2>2
<1>10. /\ rec.key \in DOMAIN tx[e] => Extends(row, tx[e][rec.key])
       /\ assets[rec.key] # NoRow => Extends(row, assets[rec.key])
  <2>1. CASE rec.key \in DOMAIN tx[e]
    <3>1. seen = tx[e][rec.key]
      BY <2>1 DEF seen, RowSeenBy, Holds
    <3>2. seen \in Row /\ seen # NoRow
      BY <1>1, <2>1, <3>1, NoRowAssumption DEF Locals, Partial
    <3>3. assets[rec.key] # NoRow => Extends(tx[e][rec.key], assets[rec.key])
      BY <1>1, <2>1 DEF Rows, TxExtends
    <3> QED
      BY <1>6, <2>1, <3>1, <3>2, <3>3 DEF Extends
  <2>2. CASE rec.key \notin DOMAIN tx[e]
    BY <1>6, <2>2 DEF seen, RowSeenBy, Holds
  <2> QED
    BY <2>1, <2>2
<1>11. \A q \in Exec \ {e} : tx'[q] = tx[q]
  BY <1>2 DEF Moves, Others, Same
<1>12. Exclusive'
  BY <1>2, <1>9, <1>11 DEF RowInv, Exclusive
<1>13. \A r \in Exec : r = e => TxExtends(r)'
  BY <1>1, <1>2, <1>9, <1>10 DEF Rows, TxExtends
<1>14. \A r \in Exec : r = e => Kept(r)'
  <2>1. ASSUME NEW i \in imported[e] \cup {n}
        PROVE  /\ i \in stored[e] =>
                     assets[Rec(e, i).key] # NoRow /\ Has(assets[Rec(e, i).key], Rec(e, i))
               /\ InChunk(e, i)' =>
                     Rec(e, i).key \in DOMAIN tx'[e] /\ Has(tx'[e][Rec(e, i).key], Rec(e, i))
    <3>1. CASE i = n
      BY <1>6, <1>7, <1>9, <3>1 DEF rec
    <3>2. CASE i # n
      <4>1. i \in imported[e] /\ (InChunk(e, i)' => InChunk(e, i))
        BY <1>2, <1>4, <2>1, <3>2 DEF InChunk
      <4>2. CASE Rec(e, i).key = rec.key
        BY <1>1, <1>9, <1>10, <4>1, <4>2 DEF Rows, Kept, Has, Extends
      <4>3. CASE Rec(e, i).key # rec.key
        BY <1>1, <1>9, <4>1, <4>3 DEF Rows, Kept
      <4> QED
        BY <4>2, <4>3
    <3> QED
      BY <3>1, <3>2
  <2> QED
    BY <1>2, <1>4, <2>1 DEF Kept
<1>15. \A t : Named(e, t)' = IF t = rec.id /\ t # NoId THEN Named(e, t) \cup {n} ELSE Named(e, t)
  BY <1>2 DEF Named, rec
<1>16. ASSUME NEW i \in imported[e], NEW x, IdIs(e, i, x) PROVE IdIs(e, i, x)'
  <2>1. InChunk(e, i)' => InChunk(e, i)
    BY <1>2, <1>4 DEF InChunk
  <2>2. InChunk(e, i) => Rec(e, i).key \in DOMAIN tx[e]
    BY <1>1 DEF Rows, Kept
  <2>3. CASE Rec(e, i).key = rec.key
    BY <1>2, <1>4, <1>9, <1>10, <1>16, <2>1, <2>2, <2>3 DEF IdIs, Extends
  <2>4. CASE Rec(e, i).key # rec.key
    BY <1>2, <1>4, <1>9, <1>16, <2>1, <2>2, <2>4 DEF IdIs
  <2> QED
    BY <2>3, <2>4
<1>17. \A r \in Exec : r = e => IdsKnown(r)'
  <2>1. /\ \A t \in TempId : t \in DOMAIN tempIds[e] <=> Named(e, t) # {}
        /\ \A t \in DOMAIN tempIds[e] : \E i \in imported[e] :
              Newest(e, i, t) /\ IdIs(e, i, tempIds[e][t])
        /\ Partial(tempIds[e], TempId, RowId) /\ row.id \in RowId
    BY <1>1, <1>3 DEF Rows, IdsKnown, Locals, Row, RowId
  <2>2. CASE rec.id = NoId
    <3>1. \A t : Named(e, t)' = Named(e, t)
      BY <1>15, <2>2
    <3>2. ASSUME NEW t \in DOMAIN tempIds[e], NEW x, x = tempIds[e][t]
          PROVE  \E i \in imported'[e] : Newest(e, i, t)' /\ IdIs(e, i, x)'
      <4>1. PICK i \in imported[e] : Newest(e, i, t) /\ IdIs(e, i, x)
        BY <2>1, <3>2
      <4>2. IdIs(e, i, x)' /\ i \in imported'[e]
        BY <1>2, <1>16, <4>1
      <4>3. Newest(e, i, t)'
        BY <3>1, <4>1 DEF Newest
      <4> QED
        BY <4>2, <4>3
    <3>3. tempIds'[e] = tempIds[e]
      BY <1>3, <2>2
    <3> QED
      BY <2>1, <3>1, <3>2, <3>3 DEF IdsKnown, IdIs
  <2>3. CASE rec.id # NoId
    <3>1. /\ rec.id \in TempId
          /\ DOMAIN tempIds'[e] = DOMAIN tempIds[e] \cup {rec.id}
          /\ tempIds'[e][rec.id] = row.id
          /\ \A t \in DOMAIN tempIds[e] : t # rec.id => tempIds'[e][t] = tempIds[e][t]
      <4>1. rec.id \in TempId /\ tempIds'[e] = Put(tempIds[e], rec.id, row.id)
        BY <1>3, <1>8, <2>3
      <4>2. /\ DOMAIN Put(tempIds[e], rec.id, row.id) = DOMAIN tempIds[e] \cup {rec.id}
            /\ Put(tempIds[e], rec.id, row.id)[rec.id] = row.id
            /\ \A t \in DOMAIN tempIds[e] : t # rec.id =>
                  Put(tempIds[e], rec.id, row.id)[t] = tempIds[e][t]
        <5>1. Partial(tempIds[e], TempId, RowId) /\ row.id \in RowId
          BY <2>1
        <5> QED
          BY <4>1, <5>1, PutPartial
      <4> QED
        BY <4>1, <4>2
    <3>2. ASSUME NEW t \in DOMAIN tempIds'[e], NEW x, x = tempIds'[e][t]
          PROVE  \E i \in imported'[e] : Newest(e, i, t)' /\ IdIs(e, i, x)'
      <4>1. CASE t = rec.id
        <5>1. Newest(e, n, t)'
          <6>1. Named(e, t)' = Named(e, t) \cup {n} /\ Named(e, t) \subseteq imported[e]
            BY <1>15, <2>3, <4>1 DEF Named
          <6>2. \A q \in Named(e, t)' : q <= n
            BY <1>0, <1>1, <1>7, <6>1
          <6> QED
            BY <6>1, <6>2 DEF Newest
        <5>2. IdIs(e, n, x)'
          BY <1>4, <1>7, <1>9, <3>1, <3>2, <4>1 DEF IdIs, rec
        <5> QED
          BY <1>2, <5>1, <5>2
      <4>2. CASE t # rec.id
        <5>1. t \in DOMAIN tempIds[e] /\ x = tempIds[e][t]
          BY <3>1, <3>2, <4>2
        <5>2. PICK i \in imported[e] : Newest(e, i, t) /\ IdIs(e, i, x)
          BY <2>1, <5>1
        <5>3. Named(e, t)' = Named(e, t)
          BY <1>15, <4>2
        <5>4. IdIs(e, i, x)' /\ i \in imported'[e]
          BY <1>2, <1>16, <5>2
        <5>5. Newest(e, i, t)'
          BY <5>2, <5>3 DEF Newest
        <5> QED
          BY <5>4, <5>5
      <4> QED
        BY <4>1, <4>2
    <3>3. \A t \in TempId : t \in DOMAIN tempIds'[e] <=> Named(e, t)' # {}
      BY <1>15, <2>1, <2>3, <3>1
    <3> QED
      BY <3>2, <3>3 DEF IdsKnown, IdIs
  <2> QED
    BY <2>2, <2>3
<1>18. \A r \in Exec : r = e => HintsKept(r)'
  BY <1>1, <1>2 DEF Rows, HintsKept, rec
<1>19. \A r \in Exec : r = e => Rows(r)'
  BY <1>2, <1>13, <1>14, <1>17, <1>18 DEF Rows
<1>20. ASSUME NEW r \in Exec, r # e PROVE Rows(r)'
  <2>1. Rows(r) /\ Same(r)
    BY <1>2, <1>20 DEF RowInv, Moves, Others
  <2>2. Grow(r) /\ Unmoved(r)
    BY <1>2, <2>1, ExtendsItself, SameIsUnmoved DEF Grow
  <2> QED
    BY <1>1, <2>1, <2>2, RowsKept
<1> QED
  BY <1>12, <1>19, <1>20

LEMMA CommitRows ==
    ASSUME RowInv, NEW e \in Exec, CommitChunk(e)
    PROVE  Exclusive' /\ \A r \in Exec : Rows(r)'
<1>1. TypeInv /\ Locals /\ Shared /\ Rows(e) /\ Place(e) /\ Counted(e) /\ base[e] \in Nat /\ pos[e] \in Nat
  BY TypesOfAll DEF RowInv, TypeInv, Locals
<1>2. /\ Moves(e) /\ pc[e] = "commit" /\ pc'[e] = "report"
      /\ tx'[e] = NoTx /\ aborted'[e] = FALSE
      /\ \A k \in Key : assets'[k] = IF k \in DOMAIN tx[e] THEN tx[e][k] ELSE assets[k]
      /\ stored'[e] = IF aborted[e] THEN stored[e] ELSE stored[e] \cup (base[e] + 1)..pos[e]
      /\ base'[e] = base[e] /\ imported'[e] = imported[e] /\ tempIds'[e] = tempIds[e]
      /\ pending'[e] = pending[e]
  BY <1>1, CommitStep
<1>3. \A q \in Exec \ {e} : Same(q)
  BY <1>2 DEF Moves, Others
<1>4. Exclusive'
  BY <1>2, <1>3, ExclusiveKept DEF RowInv, Same
<1>5. \A k \in DOMAIN tx[e] : tx[e][k] # NoRow
  BY <1>1, NoRowAssumption DEF Locals, Partial
<1>6. \A k \in Key : assets[k] # NoRow => assets'[k] # NoRow /\ Extends(assets'[k], assets[k])
  BY <1>1, <1>2, <1>5, ExtendsItself DEF Rows, TxExtends
<1>7. ASSUME NEW r \in Exec, r # e PROVE Rows(r)'
  <2>1. Rows(r) /\ Same(r) /\ DOMAIN tx[r] \cap DOMAIN tx[e] = {}
    BY <1>3, <1>7 DEF RowInv, Exclusive
  <2>2. Grow(r) /\ Unmoved(r)
    BY <1>2, <1>6, <2>1, SameIsUnmoved DEF Grow
  <2> QED
    BY <1>1, <2>1, <2>2, RowsKept
<1>8. \A i : ~InChunk(e, i)'
  BY <1>2 DEF InChunk
<1>9. ASSUME NEW i \in imported[e], i \in stored'[e], i \notin stored[e]
      PROVE  InChunk(e, i)
  <2>1. ~aborted[e] /\ i \in (base[e] + 1)..pos[e]
    BY <1>2, <1>9
  <2> QED
    BY <1>1, <1>2, <2>1 DEF InChunk
<1>10. \A r \in Exec : r = e => Kept(r)'
  <2>1. ASSUME NEW i \in imported[e], i \in stored'[e]
        PROVE  assets'[Rec(e, i).key] # NoRow /\ Has(assets'[Rec(e, i).key], Rec(e, i))
    <3>1. Rec(e, i).key \in Key
      BY <1>1, RecordPassed
    <3>2. CASE i \in stored[e]
      BY <1>1, <1>6, <3>1, <3>2 DEF Rows, Kept, Has, Extends
    <3>3. CASE i \notin stored[e]
      BY <1>1, <1>2, <1>5, <1>9, <2>1, <3>1, <3>3 DEF Rows, Kept
    <3> QED
      BY <3>2, <3>3
  <2> QED
    BY <1>2, <1>8, <2>1 DEF Kept
<1>11. ASSUME NEW i \in imported[e], NEW x, IdIs(e, i, x) PROVE IdIs(e, i, x)'
  <2>1. Rec(e, i).key \in Key
    BY <1>1, RecordPassed
  <2>2. i \in stored'[e] => assets'[Rec(e, i).key].id = x
    <3>1. CASE i \in stored[e]
      BY <1>1, <1>6, <1>11, <2>1, <3>1 DEF Rows, Kept, IdIs, Extends
    <3>2. CASE i \notin stored[e]
      BY <1>1, <1>2, <1>9, <1>11, <2>1, <3>2 DEF Rows, Kept, IdIs
    <3> QED
      BY <3>1, <3>2
  <2> QED
    BY <1>8, <2>2 DEF IdIs
<1>12. \A r \in Exec : r = e => IdsKnown(r)'
  <2>1. \A t : Named(e, t)' = Named(e, t)
    BY <1>2 DEF Named
  <2>2. ASSUME NEW t \in DOMAIN tempIds[e], NEW x, x = tempIds[e][t]
        PROVE  \E i \in imported[e] : Newest(e, i, t)' /\ IdIs(e, i, x)'
    <3>1. PICK i \in imported[e] : Newest(e, i, t) /\ IdIs(e, i, x)
      BY <1>1, <2>2 DEF Rows, IdsKnown
    <3>2. IdIs(e, i, x)'
      BY <1>11, <3>1
    <3>3. Newest(e, i, t)'
      BY <2>1, <3>1 DEF Newest
    <3> QED
      BY <3>2, <3>3
  <2> QED
    BY <1>1, <1>2, <2>1, <2>2 DEF Rows, IdsKnown, IdIs
<1>13. \A r \in Exec : r = e => Rows(r)'
  BY <1>1, <1>2, <1>10, <1>12, EmptyTx DEF Rows, TxExtends, HintsKept
<1> QED
  BY <1>4, <1>7, <1>13

LEMMA InitRows == Init => RowInv /\ RelsInv
<1> SUFFICES ASSUME Init PROVE RowInv /\ RelsInv
  OBVIOUS
<1>1. TypeInv
  BY InitTypes
<1>2. \A e \in Exec : /\ tx[e] = NoTx /\ imported[e] = {} /\ DOMAIN tempIds[e] = {}
                      /\ pending[e] = {} /\ aborted[e] = FALSE /\ pc[e] = "none"
  BY EmptyPartial DEF Init
<1>3. \A e \in Exec : \A t : Named(e, t) = {}
  BY <1>2 DEF Named
<1>4. \A e \in Exec : Rows(e)
  BY <1>2, <1>3, EmptyTx DEF Rows, TxExtends, Kept, IdsKnown, HintsKept
<1>5. Exclusive
  BY <1>2, EmptyTx DEF Exclusive
<1>6. RelsInv
  BY <1>2 DEF Init, RelsInv, Related
<1> QED
  BY <1>1, <1>4, <1>5, <1>6 DEF RowInv

LEMMA StepRows == RowInv /\ [Next]_vars => RowInv'
<1> SUFFICES ASSUME RowInv, [Next]_vars PROVE RowInv'
  OBVIOUS
<1>1. TypeInv /\ TypeInv' /\ Exclusive /\ \A q \in Exec : Rows(q)
  BY StepTypes DEF RowInv
<1>2. CASE \E e \in Exec : Upsert(e) \/ CommitChunk(e)
  BY <1>1, <1>2, UpsertRows, CommitRows DEF RowInv
<1>3. CASE ~\E e \in Exec : Upsert(e) \/ CommitChunk(e)
  <2>1. assets' = assets /\ \A q \in Exec : Unmoved(q)
    BY <1>3, OtherSteps
  <2>2. \A q \in Exec : Grow(q)
    BY <2>1, ExtendsItself DEF Grow
  <2>3. \A q \in Exec : Rows(q)'
    BY <1>1, <2>1, <2>2, RowsKept
  <2>4. Exclusive'
    BY <1>1, <2>1, ExclusiveKept DEF Unmoved
  <2> QED
    BY <1>1, <2>3, <2>4 DEF RowInv
<1> QED
  BY <1>2, <1>3

-----------------------------------------------------------------------------
(* Relationships.                                                          *)

\* An execution gets past its relationship phase by Relate, or because it has
\* no hints.
LEMMA RelatedSteps ==
    ASSUME TypeInv, [Next]_vars, \A e \in Exec : ~Relate(e)
    PROVE  rels' = rels /\ \A q \in Exec : Related(q)' => Related(q) \/ pending'[q] = {}
<1>1. Locals /\ pc \in [Exec -> Label]
  BY TypesOfAll DEF TypeInv, Locals
<1>2. ASSUME NEW e \in Exec, NEW label, Goto(e, label),
             Related(e) \/ label \notin {"final", "expire", "sync", "return", "finished"}
                        \/ pending'[e] = {}
      PROVE  \A q \in Exec : Related(q)' => Related(q) \/ pending'[q] = {}
  BY <1>1, <1>2 DEF Goto, Related
<1>3. ASSUME UNCHANGED pc PROVE \A q \in Exec : Related(q)' => Related(q)
  BY <1>3 DEF Related
<1>4. CASE UNCHANGED vars
  BY <1>3, <1>4 DEF vars
<1>5. ASSUME NEW j \in Job,
             \/ Submit(j)  \/ Respond(j)    \/ CommitJob(j) \/ LoseJob(j)
             \/ Restore(j) \/ KeyExpires(j) \/ PollHash(j)  \/ PollRow(j)
      PROVE  UNCHANGED <<rels, pc>>
  BY <1>5 DEF Submit, Respond, CommitJob, LoseJob, Restore, KeyExpires, PollHash, PollRow
<1>6. ASSUME NEW j \in Job, Deliver(j)
      PROVE  rels' = rels /\ \A q \in Exec : Related(q)' => Related(q)
  BY <1>1, <1>6 DEF Deliver, Related
<1>7. ASSUME NEW e \in Exec, Reject(e) \/ PoisonRecord(e) \/ Upsert(e) \/ DeadlockVictim(e)
      PROVE  /\ rels' = rels
             /\ Goto(e, IF pos[e] + 1 = ChunkEnd(e) THEN "commit" ELSE "ingest")
  BY <1>7 DEF Reject, PoisonRecord, DeadlockVictim, AbortTx, CountError, Upsert, Advance
<1>8. ASSUME NEW e \in Exec, StartRun(e) \/ CommitChunk(e)
      PROVE  rels' = rels /\ (Goto(e, "ingest") \/ Goto(e, "report"))
  BY <1>8 DEF StartRun, CommitChunk
<1>9. ASSUME NEW e \in Exec, ReportChunk(e)
      PROVE  /\ rels' = rels
             /\ \/ Goto(e, "ingest") \/ Goto(e, "relate")
                \/ Goto(e, "final") /\ pending'[e] = {}
  BY <1>9 DEF ReportChunk
<1>10. ASSUME NEW e \in Exec, RelateFails(e) \/ LoseWorker(e) \/ FailTask(e)
       PROVE  rels' = rels /\ (Goto(e, "failed") \/ Goto(e, "lost"))
  BY <1>10 DEF RelateFails, LoseWorker, FailTask, Abandon
<1>11. ASSUME NEW e \in Exec, ReportFinal(e) \/ SetExpiry(e) \/ SyncRow(e) \/ Acknowledge(e)
       PROVE  rels' = rels /\ Related(e) /\ \E label : Goto(e, label)
  BY <1>11 DEF ReportFinal, SetExpiry, SyncRow, Acknowledge, Related
<1>12. ASSUME NEW e \in Exec, Work(e) \/ DeadlockVictim(e) \/ LoseWorker(e) \/ FailTask(e)
       PROVE  rels' = rels /\ \A q \in Exec : Related(q)' => Related(q) \/ pending'[q] = {}
  <2>1. CASE Reject(e) \/ PoisonRecord(e) \/ Upsert(e) \/ DeadlockVictim(e)
    BY <1>2, <1>7, <2>1
  <2>2. CASE StartRun(e) \/ CommitChunk(e)
    BY <1>2, <1>8, <2>2
  <2>3. CASE ReportChunk(e)
    BY <1>2, <1>9, <2>3
  <2>4. CASE RelateFails(e) \/ LoseWorker(e) \/ FailTask(e)
    BY <1>2, <1>10, <2>4
  <2>5. CASE ReportFinal(e) \/ SetExpiry(e) \/ SyncRow(e) \/ Acknowledge(e)
    BY <1>2, <1>11, <2>5
  <2> QED
    BY <1>12, <2>1, <2>2, <2>3, <2>4, <2>5 DEF Work
<1> QED
  BY <1>3, <1>4, <1>5, <1>6, <1>12 DEF Next, vars

LEMMA StepRels == RowInv /\ RelsInv /\ [Next]_vars => RelsInv'
<1> SUFFICES ASSUME RowInv, RelsInv, [Next]_vars PROVE RelsInv'
  OBVIOUS
<1>1. TypeInv /\ \A q \in Exec : Rows(q)
  BY DEF RowInv
<1>2. \A q \in Exec : tempIds'[q] = tempIds[q] /\ pending'[q] = pending[q] => Resolved(q)' = Resolved(q)
  BY DEF Resolved
<1>3. CASE \E e \in Exec : Upsert(e) \/ CommitChunk(e)
  <2>1. PICK e \in Exec : Upsert(e) \/ CommitChunk(e)
    BY <1>3
  <2>2. /\ Moves(e) /\ pc[e] \in {"ingest", "commit"} /\ pc'[e] \in {"ingest", "commit", "report"}
        /\ rels' = rels
    BY <1>1, <2>1, UpsertStep, CommitStep DEF Passes
  <2>3. \A q \in Exec \ {e} : pc'[q] = pc[q] /\ Resolved(q)' = Resolved(q)
    BY <1>2, <2>2 DEF Moves, Others, Same
  <2> QED
    BY <2>2, <2>3 DEF RelsInv, PastRelate, Related
<1>4. CASE ~\E e \in Exec : Upsert(e) \/ CommitChunk(e)
  <2>1. /\ \A q \in Exec : Resolved(q)' = Resolved(q) /\ pending'[q] = pending[q]
        /\ \A q \in Exec : pc[q] \in PastRelate => pc'[q] \in PastRelate
    BY <1>2, <1>4, OtherSteps DEF Unmoved
  <2>2. CASE \E e \in Exec : Relate(e)
    <3>1. PICK e \in Exec : Relate(e)
      BY <2>2
    <3>2. rels' = rels \cup Resolved(e) /\ Goto(e, "final")
      BY <3>1 DEF Relate
    <3>3. pc'[e] = "final" /\ \A q \in Exec \ {e} : pc'[q] = pc[q]
      BY <1>1, <3>2, TypesOfAll DEF TypeInv, Locals, Goto
    <3> QED
      BY <2>1, <3>2, <3>3 DEF RelsInv, PastRelate, Related
  <2>3. CASE ~\E e \in Exec : Relate(e)
    <3>1. rels' = rels /\ \A q \in Exec : Related(q)' => Related(q) \/ pending'[q] = {}
      BY <1>1, <2>3, RelatedSteps
    <3>2. \A q \in Exec : pending[q] = {} => Resolved(q) = {}
      BY DEF Resolved
    <3> QED
      BY <2>1, <3>1, <3>2 DEF RelsInv
  <2> QED
    BY <2>2, <2>3
<1> QED
  BY <1>3, <1>4

LEMMA AlwaysRows == Spec => [](RowInv /\ RelsInv)
<1>1. RowInv /\ RelsInv /\ [Next]_vars => (RowInv /\ RelsInv)'
  BY StepRows, StepRels
<1> QED
  BY <1>1, InitRows, PTL DEF Spec

\* A row whose chunk took effect carries the id the execution knows it by.
LEMMA KnownAndStored ==
    ASSUME RowInv, NEW e \in Exec, LossFree(e), NEW t \in DOMAIN tempIds[e]
    PROVE  /\ t \in TempId /\ Named(e, t) # {}
           /\ tempIds[e][t] = RowNamed(e, t)
           /\ tempIds[e][t] \in LiveIds
<1>1. PICK i \in imported[e] : Newest(e, i, t) /\ IdIs(e, i, tempIds[e][t])
  BY DEF RowInv, Rows, IdsKnown
<1>2. /\ assets[Rec(e, i).key] # NoRow /\ assets[Rec(e, i).key].id = tempIds[e][t]
      /\ Rec(e, i).key \in Key
  BY <1>1, RecordPassed DEF LossFree, RowInv, Rows, Kept, IdIs
<1>3. t \in TempId
  BY TypesOfAll DEF RowInv, TypeInv, Locals, Partial
<1>4. \A q \in Named(e, t) : q \in Nat
  BY RecordPassed DEF Named, RowInv
<1>5. i = CHOOSE n \in Named(e, t) : \A q \in Named(e, t) : q <= n
  BY <1>1, <1>4 DEF Newest
<1> QED
  BY <1>1, <1>2, <1>3, <1>5 DEF Newest, RowNamed, LiveIds

\* Without a lost chunk, what the batch asks for is what the worker resolves.
LEMMA AskedIsResolved ==
    ASSUME RowInv, NEW e \in Exec, LossFree(e)
    PROVE  Asked(e) = Resolved(e)
<1>1. \A t : t \in DOMAIN tempIds[e] <=> Named(e, t) # {}
  <2>1. \A t \in TempId : t \in DOMAIN tempIds[e] <=> Named(e, t) # {}
    BY DEF RowInv, Rows, IdsKnown
  <2>2. DOMAIN tempIds[e] \subseteq TempId
    BY TypesOfAll DEF RowInv, TypeInv, Locals, Partial
  <2>3. \A t : Named(e, t) # {} => t \in TempId
    BY RecordPassed DEF Named, RowInv
  <2> QED
    BY <2>1, <2>2, <2>3
<1>2. \A h : h \in UNION {Hints(Rec(e, i)) : i \in imported[e]} <=> h \in pending[e]
  BY DEF RowInv, Rows, HintsKept
<1>3. \A t \in DOMAIN tempIds[e] : tempIds[e][t] = RowNamed(e, t)
  BY KnownAndStored
<1> QED
  BY <1>1, <1>2, <1>3 DEF Asked, Resolved

\* Every record counted as imported in a chunk that was committed is in the
\* table with its tags and metadata keys, for any number of imports that
\* upsert, wait, deadlock and roll back around it (repository.upsert and the
\* commit per chunk of _run_bulk_import).
THEOREM ImportedAreStored == Spec => []ImportedStored
<1>1. RowInv => ImportedStored
  BY DEF RowInv, Rows, Kept, Has, ImportedStored
<1> QED
  BY <1>1, AlwaysRows, PTL

\* The foreign keys of the relationship phase can refuse an edge only after a
\* chunk of the same execution was rolled back: otherwise the temporary ids
\* stand for rows of the table, whoever inserted them.
THEOREM DanglingNeedsLoss == Spec => []DanglingOnlyAfterLoss
<1>1. RowInv => DanglingOnlyAfterLoss
  BY KnownAndStored DEF DanglingOnlyAfterLoss, LossFree
<1> QED
  BY <1>1, AlwaysRows, PTL

\* An execution that lost no chunk leaves every edge its batch asks for, and
\* while none has lost one there is no other edge in the table (the second
\* pass of _run_bulk_import).
THEOREM EdgesAreComplete == Spec => []EdgesComplete
<1>1. RowInv /\ RelsInv => EdgesComplete
  <2> SUFFICES ASSUME RowInv, RelsInv PROVE EdgesComplete
    OBVIOUS
  <2>1. \A e \in Exec : Related(e) /\ LossFree(e) => Asked(e) \subseteq rels
    BY AskedIsResolved DEF RelsInv
  <2>2. ASSUME \A e \in Exec : tx[e] = NoTx => LossFree(e), NEW r \in rels
        PROVE  r \in UNION {Asked(e) : e \in {f \in Exec : LossFree(f)}}
    <3>1. PICK e \in Exec : pc[e] \in PastRelate /\ r \in Resolved(e)
      BY DEF RelsInv
    <3>2. tx[e] = NoTx
      BY <3>1 DEF RowInv, TypeInv, Place, PastRelate
    <3>3. LossFree(e) /\ r \in Asked(e)
      BY <2>2, <3>1, <3>2, AskedIsResolved
    <3> QED
      BY <3>3
  <2> QED
    BY <2>1, <2>2 DEF EdgesComplete
<1> QED
  BY <1>1, AlwaysRows, PTL

-----------------------------------------------------------------------------
(* Chunks are atomic: the steps of BulkImport are steps of ChunkStore.     *)

\* Every nonempty set of natural numbers has a least element.
LEMMA LeastNumber ==
    ASSUME NEW B, B \subseteq Nat, B # {}
    PROVE  \E n \in B : \A m \in B : n <= m
<1> DEFINE R == StrictSubsetOrdering(Nat)
           S == FiniteSubsetsOf(Nat)
           T == {0..n : n \in B}
<1>1. T \subseteq S
  <2>1. \A n \in B : 0..n \in SUBSET Nat /\ IsFiniteSet(0..n)
    BY FS_Interval
  <2> QED
    BY <2>1 DEF FiniteSubsetsOf
<1>2. T # {} /\ IsWellFoundedOn(R, S)
  BY FS_StrictSubsetOrderingWellFounded
<1>3. PICK x \in T : \A y \in T : <<y, x>> \notin R
  <2> HIDE DEF R, S, T
  <2> QED
    BY <1>1, <1>2, WFMin
<1>4. PICK n \in B : x = 0..n
  OBVIOUS
<1>5. ASSUME NEW m \in B, m < n PROVE FALSE
  <2>1. 0..m \in T /\ 0..m \subseteq 0..n /\ n \notin 0..m /\ n \in 0..n
    BY <1>5
  <2>2. <<0..m, 0..n>> \in R
    BY <2>1 DEF StrictSubsetOrdering
  <2> QED
    BY <1>3, <1>4, <2>1, <2>2
<1> QED
  BY <1>5

\* What record i of e makes of the row under k.
StepRow(e, k, row, i) ==
    IF Rec(e, i).kind = "good" /\ Rec(e, i).key = k
    THEN Upserted(row, <<e, i>>, Rec(e, i))
    ELSE row

\* f gives the row under k after each of the records up to n.
Stepwise(f, e, k, m, n) == \A i \in (m + 1)..n : f[i] = StepRow(e, k, f[i - 1], i)

\* Records m + 1..n of e make new of the row under k.
Leads(e, k, row, m, n, new) ==
    \E f : f[m] = row /\ f[n] = new /\ Stepwise(f, e, k, m, n)

LEMMA LeadsOn ==
    ASSUME NEW e, NEW k, NEW row, NEW m \in Nat, NEW n \in Nat, m <= n, NEW new,
           Leads(e, k, row, m, n, new)
    PROVE  Leads(e, k, row, m, n + 1, StepRow(e, k, new, n + 1))
<1>1. PICK f : f[m] = row /\ f[n] = new /\ Stepwise(f, e, k, m, n)
  BY DEF Leads
<1> DEFINE last == StepRow(e, k, new, n + 1)
           g == [i \in m..(n + 1) |-> IF i = n + 1 THEN last ELSE f[i]]
<1> HIDE DEF last
<1>2. /\ g[m] = row /\ g[n + 1] = last /\ g[n] = new
      /\ \A i \in m..n : g[i] = f[i]
  BY <1>1
<1> HIDE DEF g
<1>3. ASSUME NEW i \in (m + 1)..(n + 1) PROVE g[i] = StepRow(e, k, g[i - 1], i)
  <2>1. CASE i = n + 1
    <3>1. i - 1 = n
      BY <2>1
    <3> QED
      BY <1>2, <2>1, <3>1 DEF last
  <2>2. CASE i # n + 1
    <3>1. i \in (m + 1)..n /\ i \in m..n /\ i - 1 \in m..n
      BY <2>2
    <3> QED
      BY <1>1, <1>2, <3>1 DEF Stepwise
  <2> QED
    BY <2>1, <2>2
<1> QED
  BY <1>2, <1>3 DEF Leads, Stepwise, last

\* Records of other keys leave the row alone.
LEMMA LeadsNowhere ==
    ASSUME NEW e, NEW k, NEW row, NEW m \in Nat, NEW n \in Nat, m <= n,
           \A i \in (m + 1)..n : ~(Rec(e, i).kind = "good" /\ Rec(e, i).key = k)
    PROVE  Leads(e, k, row, m, n, row)
<1> DEFINE f == [i \in m..n |-> row]
<1>1. f[m] = row /\ f[n] = row /\ \A i \in (m + 1)..n : f[i] = row /\ f[i - 1] = row
  OBVIOUS
<1> HIDE DEF f
<1>2. Stepwise(f, e, k, m, n)
  BY <1>1 DEF Stepwise, StepRow
<1> QED
  BY <1>1, <1>2 DEF Leads

\* They make only one thing of it.
LEMMA LeadsOnce ==
    ASSUME NEW e, NEW k, NEW m \in Nat, NEW n \in Nat, m <= n, NEW f, NEW g,
           f[m] = g[m], Stepwise(f, e, k, m, n), Stepwise(g, e, k, m, n)
    PROVE  f[n] = g[n]
<1> SUFFICES ASSUME f[n] # g[n] PROVE FALSE
  OBVIOUS
<1> DEFINE B == {i \in m..n : f[i] # g[i]}
<1>1. n \in B /\ B \subseteq Nat
  OBVIOUS
<1>2. PICK i \in B : \A q \in B : i <= q
  <2> HIDE DEF B
  <2> QED
    BY <1>1, LeastNumber
<1>3. i \in m..n /\ f[i] # g[i] /\ i # m
  OBVIOUS
<1>4. i \in (m + 1)..n /\ i - 1 \in m..n /\ ~(i <= i - 1)
  BY <1>3
<1>5. f[i - 1] = g[i - 1]
  BY <1>2, <1>4
<1> QED
  BY <1>3, <1>4, <1>5 DEF Stepwise

\* ChunkStore's copy of the merge is the merge.
LEMMA StoreUpserted ==
    ASSUME NEW row, NEW id, NEW rec
    PROVE  Store!Upserted(row, id, rec) = Upserted(row, id, rec)
BY DEF Store!Upserted, Store!Inserted, Store!Merged, Store!Overlay,
       Upserted, Inserted, Merged, Overlay

\* So RowAfter of ChunkStore is what they make of it.
LEMMA LeadsToRowAfter ==
    ASSUME NEW e \in Exec, NEW k, NEW m \in Nat, NEW n \in Nat, m <= n, n <= Total(JobOf(e)),
           NEW new, Leads(e, k, assets[k], m, n, new)
    PROVE  Store!RowAfter(e, k, m + 1, n) = new
<1>1. PICK f : f[m] = assets[k] /\ f[n] = new /\ Stepwise(f, e, k, m, n)
  BY DEF Leads
<1> DEFINE batch == [q \in Exec |-> [i \in 1..Total(JobOf(q)) |-> Rec(q, i)]]
           Next1(row, i) == IF batch[e][i].kind = "good" /\ batch[e][i].key = k
                            THEN Store!Upserted(row, <<e, i>>, batch[e][i]) ELSE row
           Is(g) == g = [i \in ((m + 1) - 1)..n |->
                            IF i = (m + 1) - 1 THEN assets[k] ELSE Next1(g[i - 1], i)]
           h == CHOOSE g : Is(g)
<1>2. Store!RowAfter(e, k, m + 1, n) = h[n]
  BY Zenon DEF Store!RowAfter
<1>3. (m + 1) - 1 = m
  OBVIOUS
<1>4. ASSUME NEW i \in (m + 1)..n, NEW row PROVE Next1(row, i) = StepRow(e, k, row, i)
  <2>1. batch[e][i] = Rec(e, i)
    <3>1. i \in 1..Total(JobOf(e))
      BY Batches, Executions
    <3> QED
      BY <3>1
  <2> HIDE DEF batch
  <2> QED
    BY <2>1, StoreUpserted DEF StepRow
<1> HIDE DEF Next1
<1>5. Is([i \in m..n |-> f[i]])
  <2> DEFINE g == [i \in m..n |-> f[i]]
  <2>1. \A i \in m..n : g[i] = f[i] /\ (i # m => i \in (m + 1)..n /\ i - 1 \in m..n /\ g[i - 1] = f[i - 1])
    OBVIOUS
  <2>2. \A i \in m..n : g[i] = IF i = m THEN assets[k] ELSE Next1(g[i - 1], i)
    BY <1>1, <1>4, <2>1 DEF Stepwise
  <2> QED
    BY <1>3, <2>2
<1>6. Is(h)
  <2> HIDE DEF Is
  <2> QED
    BY <1>5, Zenon
<1>7. \A i \in m..n : h[i] = IF i = m THEN assets[k] ELSE Next1(h[i - 1], i)
  <2> HIDE DEF h
  <2> QED
    BY <1>3, <1>6
<1> HIDE DEF h
<1>8. h[m] = f[m] /\ Stepwise(h, e, k, m, n)
  BY <1>1, <1>4, <1>7 DEF Stepwise
<1>9. h[n] = f[n]
  BY <1>1, <1>8, LeadsOnce
<1> QED
  BY <1>1, <1>2, <1>9

\* A chunk begins where the one before it ended, with nothing of it committed;
\* in an open transaction that is not aborted every record so far was stored,
\* unless validation refused it.
AtChunk(e) ==
    /\ pc[e] \in {"none", "start", "ingest", "commit"} => stored[e] \subseteq 1..base[e]
    /\ pc[e] \in {"none", "start", "ingest", "commit", "report"} =>
          \E n \in Nat : base[e] = n * ChunkSize
    /\ pc[e] \in {"commit", "report"} => base[e] < pos[e] /\ pos[e] = ChunkEnd(e)
    /\ pc[e] \in {"ingest", "commit"} /\ ~aborted[e] =>
          \A i \in (base[e] + 1)..pos[e] :
             /\ Rec(e, i).kind # "poison"
             /\ Rec(e, i).kind = "good" => Rec(e, i).key \in DOMAIN tx[e]

\* The rows of the transaction are what the records of the chunk so far make
\* of the committed ones, nobody having changed those under their locks.
Merging(e) ==
    pc[e] \in {"ingest", "commit"} /\ ~aborted[e] =>
        \A k \in DOMAIN tx[e] : Leads(e, k, assets[k], base[e], pos[e], tx[e][k])

ChunkInv == \A e \in Exec : AtChunk(e) /\ Merging(e)

LEMMA ChunkKept ==
    ASSUME NEW q \in Exec, AtChunk(q), Merging(q), Same(q),
           \A k \in DOMAIN tx[q] : assets'[k] = assets[k]
    PROVE  \A r \in Exec : r = q => AtChunk(r)' /\ Merging(r)'
<1>1. \A r \in Exec : r = q => AtChunk(r)'
  BY DEF AtChunk, Same, ChunkEnd
<1>2. \A r \in Exec : r = q => Merging(r)'
  BY DEF Merging, Same
<1> QED
  BY <1>1, <1>2

\* An execution that has no open chunk and will have none.
LEMMA ChunksOver ==
    ASSUME NEW e \in Exec, pc'[e] \notin {"none", "start", "ingest", "commit", "report"}
    PROVE  \A r \in Exec : r = e => AtChunk(r)' /\ Merging(r)'
BY DEF AtChunk, Merging

\* What the transaction shows of a row is what the chunk so far makes of it.
LEMMA SeenIsLed ==
    ASSUME TypeInv, NEW e \in Exec, AtChunk(e), Merging(e), ~aborted[e],
           pc[e] \in {"ingest", "commit"}, NEW k
    PROVE  Leads(e, k, assets[k], base[e], pos[e], RowSeenBy(e, k))
<1>1. base[e] \in Nat /\ pos[e] \in Nat /\ base[e] <= pos[e]
  BY TypesOfAll DEF TypeInv, Locals, Place
<1>2. CASE k \in DOMAIN tx[e]
  BY <1>2 DEF Merging, RowSeenBy, Holds
<1>3. CASE k \notin DOMAIN tx[e]
  <2>1. \A i \in (base[e] + 1)..pos[e] : ~(Rec(e, i).kind = "good" /\ Rec(e, i).key = k)
    BY <1>3 DEF AtChunk
  <2>2. RowSeenBy(e, k) = assets[k]
    BY <1>3 DEF RowSeenBy, Holds
  <2> QED
    BY <1>1, <2>1, <2>2, LeadsNowhere
<1> QED
  BY <1>2, <1>3

\* One more record of a chunk.
LEMMA ChunkGoesOn ==
    ASSUME TypeInv, NEW e \in Exec, AtChunk(e), Merging(e), Moves(e), Passes(e), assets' = assets,
           ~aborted'[e] =>
              /\ ~aborted[e] /\ DOMAIN tx[e] \subseteq DOMAIN tx'[e]
              /\ Current(e).kind # "poison"
              /\ Current(e).kind = "good" => Current(e).key \in DOMAIN tx'[e]
              /\ \A k \in DOMAIN tx'[e] :
                    tx'[e][k] = StepRow(e, k, RowSeenBy(e, k), pos[e] + 1)
    PROVE  \A r \in Exec : r = e => AtChunk(r)' /\ Merging(r)'
<1>1. /\ base[e] \in Nat /\ pos[e] \in Nat /\ base[e] <= pos[e] /\ pc[e] = "ingest"
      /\ pos'[e] = pos[e] + 1 /\ base'[e] = base[e] /\ stored'[e] = stored[e]
      /\ pc'[e] \in {"ingest", "commit"}
      /\ pc'[e] = "commit" => pos'[e] = ChunkEnd(e)
  BY TypesOfAll DEF TypeInv, Locals, Place, Passes
<1>2. \A r \in Exec : r = e => ChunkEnd(r)' = ChunkEnd(r)
  BY <1>1 DEF ChunkEnd
<1>3. base'[e] < pos'[e]
  BY <1>1
<1>4. ASSUME ~aborted'[e], NEW i \in (base[e] + 1)..pos'[e]
      PROVE  /\ Rec(e, i).kind # "poison"
             /\ Rec(e, i).kind = "good" => Rec(e, i).key \in DOMAIN tx'[e]
  <2>1. CASE i = pos[e] + 1
    BY <1>4, <2>1 DEF Current
  <2>2. CASE i # pos[e] + 1
    <3>1. i \in (base[e] + 1)..pos[e]
      BY <1>1, <2>2
    <3> QED
      BY <1>1, <1>4, <3>1 DEF AtChunk
  <2> QED
    BY <2>1, <2>2
<1>5. \A r \in Exec : r = e => AtChunk(r)'
  BY <1>1, <1>2, <1>3, <1>4 DEF AtChunk
<1>6. ASSUME ~aborted'[e], NEW k \in DOMAIN tx'[e]
      PROVE  Leads(e, k, assets'[k], base'[e], pos'[e], tx'[e][k])
  <2>1. Leads(e, k, assets[k], base[e], pos[e], RowSeenBy(e, k))
    BY <1>1, <1>6, SeenIsLed
  <2>2. Leads(e, k, assets[k], base[e], pos[e] + 1, StepRow(e, k, RowSeenBy(e, k), pos[e] + 1))
    BY <1>1, <2>1, LeadsOn
  <2> QED
    BY <1>1, <1>6, <2>2
<1>7. \A r \in Exec : r = e => Merging(r)'
  BY <1>6 DEF Merging
<1> QED
  BY <1>5, <1>7

LEMMA ErrorInChunk ==
    ASSUME TypeInv, NEW e \in Exec, AtChunk(e), Merging(e),
           Reject(e) \/ PoisonRecord(e) \/ DeadlockVictim(e)
    PROVE  /\ Moves(e) /\ assets' = assets
           /\ \A r \in Exec : r = e => AtChunk(r)' /\ Merging(r)'
<1>1. /\ pc[e] = "ingest" /\ CountError(e)
      /\ \/ UNCHANGED <<tx, aborted>> /\ (Current(e).kind = "invalid" \/ aborted[e])
         \/ /\ tx' = [tx EXCEPT ![e] = NoTx]
            /\ aborted' = [aborted EXCEPT ![e] = TRUE]
  BY DEF Reject, PoisonRecord, DeadlockVictim, Deadlocked, WaitsFor, AtUpsert, AbortTx
<1>2. /\ Moves(e) /\ Passes(e) /\ assets' = assets
      /\ \/ tx'[e] = tx[e] /\ aborted'[e] = aborted[e]
         \/ tx'[e] = NoTx /\ aborted'[e] = TRUE
  BY <1>1, CountErrorStep
<1>3. aborted'[e] \/ (tx'[e] = tx[e] /\ aborted'[e] = aborted[e] /\ Current(e).kind = "invalid")
  <2>1. aborted[e] \in BOOLEAN /\ DOMAIN aborted = Exec
    BY TypesOfAll DEF TypeInv, Locals
  <2> QED
    BY <1>1, <1>2, <2>1
<1>4. ASSUME Current(e).kind = "invalid", NEW k \in DOMAIN tx[e]
      PROVE  tx[e][k] = StepRow(e, k, RowSeenBy(e, k), pos[e] + 1)
  BY <1>4 DEF StepRow, RowSeenBy, Holds, Current
<1> QED
  BY <1>2, <1>3, <1>4, ChunkGoesOn

LEMMA UpsertInChunk ==
    ASSUME TypeInv, NEW e \in Exec, AtChunk(e), Merging(e), Upsert(e)
    PROVE  /\ Moves(e) /\ assets' = assets
           /\ \A r \in Exec : r = e => AtChunk(r)' /\ Merging(r)'
<1> DEFINE key == Current(e).key
<1>1. /\ Moves(e) /\ Passes(e) /\ ~aborted[e] /\ assets' = assets
      /\ Current(e) = Rec(e, pos[e] + 1) /\ key \in Key /\ Current(e).kind = "good"
  BY UpsertStep DEF Upsert, AtUpsert
<1>2. PICK row \in Row :
          /\ row = Upserted(RowSeenBy(e, key), <<e, pos[e] + 1>>, Current(e))
          /\ tx'[e] = Put(tx[e], key, row)
  BY UpsertStep
<1>3. Partial(tx[e], Key, Row)
  BY TypesOfAll DEF TypeInv, Locals
<1> HIDE DEF key
<1>4. /\ DOMAIN tx'[e] = DOMAIN tx[e] \cup {key} /\ tx'[e][key] = row
      /\ \A k \in DOMAIN tx[e] : k # key => tx'[e][k] = tx[e][k]
  BY <1>1, <1>2, <1>3, PutPartial, SMTT(30)
<1>5. row = StepRow(e, key, RowSeenBy(e, key), pos[e] + 1)
  BY <1>1, <1>2 DEF StepRow, key
<1>6. ASSUME NEW k \in DOMAIN tx[e], k # key
      PROVE  tx'[e][k] = StepRow(e, k, RowSeenBy(e, k), pos[e] + 1)
  BY <1>1, <1>4, <1>6 DEF StepRow, RowSeenBy, Holds, key
<1>7. \A k \in DOMAIN tx'[e] : tx'[e][k] = StepRow(e, k, RowSeenBy(e, k), pos[e] + 1)
  BY <1>4, <1>5, <1>6
<1> QED
  BY <1>1, <1>4, <1>7, ChunkGoesOn DEF key

LEMMA ReportInChunk ==
    ASSUME TypeInv, NEW e \in Exec, AtChunk(e), ReportChunk(e)
    PROVE  /\ Moves(e) /\ assets' = assets
           /\ \A r \in Exec : r = e => AtChunk(r)' /\ Merging(r)'
<1>1. /\ Moves(e) /\ pc[e] = "report" /\ tx'[e] = NoTx
      /\ pc'[e] = IF pos[e] < Total(JobOf(e)) THEN "ingest"
                  ELSE IF pending[e] # {} THEN "relate" ELSE "final"
      /\ base'[e] = pos[e] /\ pos'[e] = pos[e] /\ stored'[e] = stored[e] /\ assets' = assets
  BY ReportStep
<1>2. /\ base[e] \in Nat /\ pos[e] \in Nat /\ stored[e] \subseteq 1..pos[e]
      /\ pos[e] = ChunkEnd(e) /\ Total(JobOf(e)) \in Nat /\ ChunkSize \in Nat
  BY <1>1, TypesOfAll, Batches, Executions, Bounds DEF TypeInv, Locals, Counted, AtChunk
<1>3. CASE pos[e] < Total(JobOf(e))
  <2>1. pc'[e] = "ingest"
    BY <1>1, <1>3
  <2>2. PICK n \in Nat : base[e] = n * ChunkSize
    BY <1>1 DEF AtChunk
  <2>3. pos[e] = base[e] + ChunkSize
    BY <1>2, <1>3 DEF ChunkEnd
  <2>4. n + 1 \in Nat /\ base'[e] = (n + 1) * ChunkSize
    BY <1>1, <1>2, <2>2, <2>3
  <2>5. (pos[e] + 1)..pos[e] = {}
    BY <1>2
  <2>6. \A r \in Exec : r = e => AtChunk(r)'
    BY <1>1, <1>2, <2>1, <2>4, <2>5 DEF AtChunk
  <2>7. \A r \in Exec : r = e => Merging(r)'
    BY <1>1, EmptyTx DEF Merging
  <2> QED
    BY <1>1, <2>6, <2>7
<1>4. CASE ~(pos[e] < Total(JobOf(e)))
  BY <1>1, <1>4, ChunksOver
<1> QED
  BY <1>3, <1>4

LEMMA CommitInChunk ==
    ASSUME RowInv, ChunkInv, NEW e \in Exec, CommitChunk(e)
    PROVE  ChunkInv'
<1>1. /\ TypeInv /\ Exclusive /\ AtChunk(e) /\ base[e] \in Nat /\ pos[e] \in Nat
  BY TypesOfAll DEF RowInv, ChunkInv, TypeInv, Locals
<1>2. /\ Moves(e) /\ pc[e] = "commit" /\ pc'[e] = "report"
      /\ \A k \in Key : assets'[k] = IF k \in DOMAIN tx[e] THEN tx[e][k] ELSE assets[k]
      /\ base'[e] = base[e] /\ pos'[e] = pos[e]
  BY <1>1, CommitStep
<1>3. \A r \in Exec : r = e => AtChunk(r)' /\ Merging(r)'
  BY <1>1, <1>2 DEF AtChunk, Merging, ChunkEnd
<1>4. ASSUME NEW q \in Exec, q # e PROVE AtChunk(q)' /\ Merging(q)'
  <2>1. /\ Same(q) /\ DOMAIN tx[q] \subseteq Key /\ DOMAIN tx[q] \cap DOMAIN tx[e] = {}
    BY <1>1, <1>2, <1>4, TypesOfAll DEF Moves, Others, Exclusive, TypeInv, Locals, Partial
  <2>2. \A k \in DOMAIN tx[q] : assets'[k] = assets[k]
    BY <1>2, <2>1
  <2> QED
    BY <2>1, <2>2, ChunkKept DEF ChunkInv
<1> QED
  BY <1>3, <1>4 DEF ChunkInv

LEMMA InitChunks == Init => ChunkInv
<1> SUFFICES ASSUME Init, NEW e \in Exec PROVE AtChunk(e) /\ Merging(e)
  BY DEF ChunkInv
<1>1. pc[e] = "none" /\ stored[e] = {} /\ base[e] = 0
  BY DEF Init
<1>2. 0 = 0 * ChunkSize
  BY Bounds
<1> QED
  BY <1>1, <1>2 DEF AtChunk, Merging

LEMMA StepChunks == RowInv /\ ChunkInv /\ [Next]_vars => ChunkInv'
<1> SUFFICES ASSUME RowInv, ChunkInv, [Next]_vars PROVE ChunkInv'
  OBVIOUS
<1>1. TypeInv /\ Locals /\ \A q \in Exec : AtChunk(q) /\ Merging(q) /\ Place(q) /\ Counted(q)
  BY TypesOfAll DEF RowInv, TypeInv, ChunkInv
<1>2. ASSUME NEW e \in Exec, Moves(e), assets' = assets,
             \A r \in Exec : r = e => AtChunk(r)' /\ Merging(r)'
      PROVE  ChunkInv'
  BY <1>1, <1>2, ChunkKept DEF Moves, Others, ChunkInv
<1>3. ASSUME UNCHANGED <<pc, localVars, txVars>> PROVE ChunkInv'
  <2>1. assets' = assets /\ \A q \in Exec : Same(q)
    BY <1>3 DEF localVars, txVars, Same
  <2> QED
    BY <1>1, <2>1, ChunkKept DEF ChunkInv
<1>4. CASE UNCHANGED vars
  BY <1>3, <1>4 DEF vars
<1>5. ASSUME NEW j \in Job,
             \/ Submit(j)  \/ Respond(j)    \/ CommitJob(j) \/ LoseJob(j)
             \/ Restore(j) \/ KeyExpires(j) \/ PollHash(j)  \/ PollRow(j)
      PROVE  ChunkInv'
  <2>1. UNCHANGED <<pc, localVars, txVars>>
    BY <1>5 DEF Submit, Respond, CommitJob, LoseJob, Restore, KeyExpires, PollHash, PollRow
  <2> QED
    BY <1>3, <2>1
<1>6. ASSUME NEW j \in Job, Deliver(j) PROVE ChunkInv'
  <2> DEFINE e == <<j, deliveries[j] + 1>>
  <2>1. /\ e \in Exec /\ pc[e] = "none" /\ pc'[e] = "start"
        /\ \A q \in Exec \ {e} : pc'[q] = pc[q]
        /\ UNCHANGED <<assets, base, pos, imported, errored, tempIds, pending, tx, aborted, stored>>
    BY <1>1, <1>6, DeliverStep
  <2> HIDE DEF e
  <2>2. \A r \in Exec : r = e => AtChunk(r)' /\ Merging(r)'
    BY <1>1, <2>1 DEF AtChunk, Merging, ChunkEnd
  <2>3. ASSUME NEW q \in Exec, q # e PROVE AtChunk(q)' /\ Merging(q)'
    <3>1. Same(q)
      BY <2>1, <2>3 DEF Same
    <3> QED
      BY <1>1, <2>1, <3>1, ChunkKept
  <2> QED
    BY <2>2, <2>3 DEF ChunkInv
<1>7. ASSUME NEW e \in Exec, Reject(e) \/ PoisonRecord(e) \/ DeadlockVictim(e) PROVE ChunkInv'
  BY <1>1, <1>2, <1>7, ErrorInChunk
<1>8. ASSUME NEW e \in Exec, Upsert(e) PROVE ChunkInv'
  BY <1>1, <1>2, <1>8, UpsertInChunk
<1>9. ASSUME NEW e \in Exec, ReportChunk(e) PROVE ChunkInv'
  BY <1>1, <1>2, <1>9, ReportInChunk
<1>10. ASSUME NEW e \in Exec, StartRun(e) PROVE ChunkInv'
  <2>1. /\ Goto(e, "ingest") /\ pc[e] = "start" /\ assets' = assets
        /\ UNCHANGED <<localVars, tx, aborted, stored, deliveries>>
    BY <1>10 DEF StartRun, brokerVars, txVars
  <2>2. /\ Moves(e) /\ pc'[e] = "ingest" /\ tx'[e] = tx[e] /\ base'[e] = base[e]
        /\ pos'[e] = pos[e] /\ stored'[e] = stored[e]
    BY <1>1, <2>1, GotoStep DEF Label
  <2>3. tx[e] = NoTx /\ pos[e] = 0 /\ base[e] \in Nat
    BY <1>1, <2>1 DEF Place, Locals
  <2>4. (base[e] + 1)..pos[e] = {}
    BY <2>3
  <2>5. \A r \in Exec : r = e => AtChunk(r)'
    BY <1>1, <2>1, <2>2, <2>4 DEF AtChunk
  <2>6. \A r \in Exec : r = e => Merging(r)'
    BY <2>2, <2>3, EmptyTx DEF Merging
  <2> QED
    BY <1>2, <2>1, <2>2, <2>5, <2>6
<1>11. ASSUME NEW e \in Exec,
              Relate(e) \/ ReportFinal(e) \/ SetExpiry(e) \/ SyncRow(e) \/ Acknowledge(e)
       PROVE  ChunkInv'
  <2>1. PICK label \in {"final", "expire", "sync", "return", "finished"} :
            Goto(e, label) /\ pc[e] \in {"relate", "final", "expire", "sync", "return"}
            /\ UNCHANGED <<localVars, tx, aborted, stored, deliveries>> /\ assets' = assets
    BY <1>11 DEF Relate, ReportFinal, SetExpiry, SyncRow, Acknowledge, brokerVars, txVars
  <2>2. Moves(e) /\ pc'[e] = label
    BY <1>1, <2>1, GotoStep DEF Label
  <2> QED
    BY <1>2, <2>1, <2>2, ChunksOver
<1>12. ASSUME NEW e \in Exec, RelateFails(e) \/ LoseWorker(e) \/ FailTask(e)
       PROVE  ChunkInv'
  <2>1. PICK label \in {"failed", "lost"} : Abandon(e, label) /\ pc[e] # "none"
    BY <1>12 DEF RelateFails, LoseWorker, FailTask, Running
  <2>2. Moves(e) /\ pc'[e] = label /\ assets' = assets
    BY <1>1, <2>1, AbandonStep
  <2> QED
    BY <1>2, <2>2, ChunksOver
<1> QED
  BY <1>4, <1>5, <1>6, <1>7, <1>8, <1>9, <1>10, <1>11, <1>12, CommitInChunk DEF Next, Work

\* What ChunkStore calls applied.
Applied == UNION {{e} \X stored[e] : e \in Exec}

LEMMA StoreNextIs ==
    Store!Next <=> \E e \in Exec : \E first \in 1..Total(JobOf(e)) :
                      first % ChunkSize = 1 % ChunkSize /\ Store!ApplyChunk(e, first)
<1>1. \A e \in Exec : DOMAIN [q \in Exec |-> [i \in 1..Total(JobOf(q)) |-> Rec(q, i)]][e]
                         = 1..Total(JobOf(e))
  OBVIOUS
<1> QED
  BY <1>1 DEF Store!Next

\* ApplyChunk in the terms of BulkImport.
LEMMA StoreApplies ==
    ASSUME NEW e \in Exec, base[e] \in Nat, ChunkEnd(e) <= Total(JobOf(e)), NEW first, NEW last,
           first = base[e] + 1, last = ChunkEnd(e),
           \A i \in first..last : Rec(e, i).kind # "poison",
           \A i \in first..Total(JobOf(e)) : <<e, i>> \notin Applied,
           assets' = [k \in Key |-> Store!RowAfter(e, k, first, last)],
           Applied' = Applied \cup ({e} \X (first..last))
    PROVE  Store!ApplyChunk(e, first)
<1> DEFINE batch == [q \in Exec |-> [i \in 1..Total(JobOf(q)) |-> Rec(q, i)]]
<1>1. Total(JobOf(e)) \in Nat /\ ChunkSize \in Nat \ {0} /\ ChunkEnd(e) \in Nat
  BY Batches, Executions, Bounds DEF ChunkEnd
<1>2. \A i \in 1..Total(JobOf(e)) : batch[e][i] = Rec(e, i)
  OBVIOUS
<1>3. Len(batch[e]) = Total(JobOf(e))
  <2>1. \A n \in Nat : \A f : Len([i \in 1..n |-> f[i]]) = n
    OBVIOUS
  <2>2. batch[e] = [i \in 1..Total(JobOf(e)) |-> batch[e][i]]
    OBVIOUS
  <2> HIDE DEF batch
  <2> QED
    BY <1>1, <2>1, <2>2
<1>4. Store!ChunkLast(e, first) = last
  BY <1>1, <1>3 DEF Store!ChunkLast, ChunkEnd
<1>5. \A i \in first..last : batch[e][i].kind # "poison"
  <2>1. \A i \in first..last : i \in 1..Total(JobOf(e))
    BY <1>1
  <2> HIDE DEF batch
  <2> QED
    BY <1>2, <2>1
<1> QED
  BY <1>3, <1>4, <1>5 DEF Store!ApplyChunk, Applied

LEMMA AppliedMore ==
    ASSUME NEW e \in Exec, NEW B,
           \A q \in Exec : stored'[q] = IF q = e THEN stored[e] \cup B ELSE stored[q]
    PROVE  Applied' = Applied \cup ({e} \X B)
<1>1. \A A : {e} \X (A \cup B) = ({e} \X A) \cup ({e} \X B)
  OBVIOUS
<1>2. ASSUME NEW q \in Exec
      PROVE  {q} \X stored'[q] = IF q = e THEN ({e} \X stored[e]) \cup ({e} \X B)
                                 ELSE {q} \X stored[q]
  <2>1. CASE q = e
    BY <1>1, <2>1
  <2>2. CASE q # e
    BY <2>2
  <2> QED
    BY <2>1, <2>2
<1> QED
  BY <1>2 DEF Applied

\* A commit merges its chunk.
LEMMA CommitMerges ==
    ASSUME RowInv, ChunkInv, NEW e \in Exec, CommitChunk(e), ~aborted[e]
    PROVE  \E first \in 1..Total(JobOf(e)) : first = base[e] + 1 /\ Store!ApplyChunk(e, first)
<1>0. PICK first : first = base[e] + 1
  OBVIOUS
<1>1. /\ TypeInv /\ AtChunk(e) /\ Merging(e) /\ base[e] \in Nat /\ pos[e] \in Nat
      /\ Total(JobOf(e)) \in Nat /\ pos[e] <= Total(JobOf(e))
  BY TypesOfAll, Batches, Executions DEF RowInv, ChunkInv, TypeInv, Locals, Place
<1>2. /\ Moves(e) /\ pc[e] = "commit"
      /\ assets' \in [Key -> Row \cup {NoRow}]
      /\ \A k \in Key : assets'[k] = IF k \in DOMAIN tx[e] THEN tx[e][k] ELSE assets[k]
      /\ stored'[e] = stored[e] \cup first..pos[e]
  BY <1>0, <1>1, CommitStep
<1>3. /\ base[e] < pos[e] /\ pos[e] = ChunkEnd(e) /\ stored[e] \subseteq 1..base[e]
      /\ \A i \in first..pos[e] : Rec(e, i).kind # "poison"
  BY <1>0, <1>1, <1>2 DEF AtChunk
<1>4. first \in 1..Total(JobOf(e))
  BY <1>0, <1>1, <1>3
<1>5. \A i \in first..Total(JobOf(e)) : <<e, i>> \notin Applied
  <2>1. \A i \in first..Total(JobOf(e)) : i \notin stored[e]
    BY <1>0, <1>1, <1>3
  <2> QED
    BY <2>1 DEF Applied
<1>6. ASSUME NEW k \in Key PROVE assets'[k] = Store!RowAfter(e, k, first, pos[e])
  <2>1. Leads(e, k, assets[k], base[e], pos[e], RowSeenBy(e, k))
    BY <1>1, <1>2, SeenIsLed
  <2>2. assets'[k] = RowSeenBy(e, k)
    BY <1>2 DEF RowSeenBy, Holds
  <2>3. base[e] <= pos[e]
    BY <1>1, <1>3
  <2>4. Store!RowAfter(e, k, base[e] + 1, pos[e]) = RowSeenBy(e, k)
    BY <1>1, <2>1, <2>3, LeadsToRowAfter
  <2> QED
    BY <1>0, <2>2, <2>4
<1>7. assets' = [k \in Key |-> Store!RowAfter(e, k, first, pos[e])]
  BY <1>2, <1>6
<1>8. Applied' = Applied \cup ({e} \X (first..pos[e]))
  <2>1. \A q \in Exec : stored'[q] = IF q = e THEN stored[e] \cup first..pos[e] ELSE stored[q]
    BY <1>2 DEF Moves, Others, Same
  <2> QED
    BY <2>1, AppliedMore
<1>9. first = base[e] + 1 /\ ChunkEnd(e) <= Total(JobOf(e))
  BY <1>0, <1>1, <1>3
<1>10. Store!ApplyChunk(e, first)
  BY <1>1, <1>3, <1>5, <1>7, <1>8, <1>9, StoreApplies
<1> QED
  BY <1>0, <1>4, <1>10

LEMMA StepMerges == RowInv /\ ChunkInv /\ [Next]_vars => [Store!Next]_<<assets, Applied>>
<1> SUFFICES ASSUME RowInv, ChunkInv, [Next]_vars
             PROVE  Store!Next \/ UNCHANGED <<assets, Applied>>
  OBVIOUS
<1>1. TypeInv /\ Locals /\ Shared
  BY TypesOfAll DEF RowInv, TypeInv
<1>2. CASE \E e \in Exec : CommitChunk(e) /\ ~aborted[e]
  <2>1. PICK e \in Exec : CommitChunk(e) /\ ~aborted[e]
    BY <1>2
  <2>2. PICK first \in 1..Total(JobOf(e)) : first = base[e] + 1 /\ Store!ApplyChunk(e, first)
    BY <2>1, CommitMerges
  <2>3. PICK n \in Nat : base[e] = n * ChunkSize
    BY <2>1 DEF ChunkInv, AtChunk, CommitChunk
  <2>4. first % ChunkSize = 1 % ChunkSize
    <3>1. \A c \in Nat \ {0}, q \in Nat : (q * c + 1) % c = 1 % c
      OBVIOUS
    <3>2. first = n * ChunkSize + 1
      BY <2>2, <2>3
    <3> QED
      BY <3>1, <3>2, Bounds
  <2> QED
    BY <2>1, <2>2, <2>4, StoreNextIs
<1>3. CASE \E e \in Exec : CommitChunk(e) /\ aborted[e]
  <2>1. PICK e \in Exec : CommitChunk(e) /\ aborted[e]
    BY <1>3
  <2>2. /\ Moves(e) /\ stored'[e] = stored[e] /\ assets' \in [Key -> Row \cup {NoRow}]
        /\ \A k \in Key : assets'[k] = IF k \in DOMAIN tx[e] THEN tx[e][k] ELSE assets[k]
    BY <1>1, <2>1, CommitStep
  <2>3. DOMAIN tx[e] = {}
    BY <2>1, EmptyTx DEF RowInv, Rows
  <2>4. assets' = assets
    <3>1. assets \in [Key -> Row \cup {NoRow}] /\ \A k \in Key : assets'[k] = assets[k]
      BY <1>1, <2>2, <2>3 DEF Shared
    <3> QED
      BY <2>2, <3>1
  <2>5. \A q \in Exec : stored'[q] = stored[q]
    BY <2>2 DEF Moves, Others, Same
  <2> QED
    BY <2>4, <2>5 DEF Applied
<1>4. CASE \E e \in Exec : Upsert(e)
  <2>1. PICK e \in Exec : Upsert(e)
    BY <1>4
  <2>2. Moves(e) /\ stored'[e] = stored[e] /\ assets' = assets
    BY <1>1, <2>1, UpsertStep DEF Passes
  <2>3. \A q \in Exec : stored'[q] = stored[q]
    BY <2>2 DEF Moves, Others, Same
  <2> QED
    BY <2>2, <2>3 DEF Applied
<1>5. CASE \A e \in Exec : ~Upsert(e) /\ ~CommitChunk(e)
  <2>1. assets' = assets /\ \A q \in Exec : stored'[q] = stored[q]
    BY <1>5, OtherSteps DEF Unmoved
  <2> QED
    BY <2>1 DEF Applied
<1> QED
  BY <1>2, <1>3, <1>4, <1>5

LEMMA InitMerges == Init => Store!Init
<1> SUFFICES ASSUME Init PROVE Store!Init
  OBVIOUS
<1>1. UNION {{e} \X stored[e] : e \in Exec} = {}
  BY DEF Init
<1> QED
  BY <1>1 DEF Init, Store!Init

\* Imports implement ChunkStore: to the asset table every chunk is one merge,
\* record after record, with nobody else at work, at most once per delivery,
\* and no chunk with a record the server refuses is merged at all (the row
\* locks of upsert, the commit per chunk and the silent rollback of an aborted
\* transaction).
THEOREM ChunksAreMerged == Spec => ChunksAreAtomic
<1>1. RowInv /\ ChunkInv /\ [Next]_vars => (RowInv /\ ChunkInv)'
  BY StepRows, StepChunks
<1>2. Init => RowInv /\ ChunkInv
  BY InitRows, InitChunks
<1>3. RowInv /\ ChunkInv /\ [Next]_vars
         => [Store!Next]_<<assets, UNION {{e} \X stored[e] : e \in Exec}>>
  BY StepMerges DEF Applied
<1> QED
  BY <1>1, <1>2, <1>3, InitMerges, PTL DEF Spec, ChunksAreAtomic, Store!Spec
=============================================================================
