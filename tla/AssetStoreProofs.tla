-------------------------- MODULE AssetStoreProofs --------------------------
(***************************************************************************)
(* Theorems of AssetStore: its types, that a sweep only ever takes rows    *)
(* that are active and unseen at every moment up to its commit, and what   *)
(* no commit takes away from a row, whatever it raced with.                *)
(***************************************************************************)
EXTENDS AssetStore, TLAPS

(* What overlaying does to functions, rows and metadata.                   *)

\* jsonb's || of two metadata documents is a metadata document.
LEMMA OverlayMetadata ==
    ASSUME NEW old \in Metadata, NEW new \in Metadata
    PROVE  Overlay(old, new) \in Metadata
<1>1. PICK D1 \in SUBSET MetaKey : old \in [D1 -> MetaValue]
  BY DEF Metadata
<1>2. PICK D2 \in SUBSET MetaKey : new \in [D2 -> MetaValue]
  BY DEF Metadata
<1>3. Overlay(old, new) \in [D1 \cup D2 -> MetaValue]
  BY <1>1, <1>2 DEF Overlay
<1>4. D1 \cup D2 \in SUBSET MetaKey
  OBVIOUS
<1> QED
  BY <1>3, <1>4 DEF Metadata

\* Writing one row under a key keeps a partial table partial.
LEMMA PutRow ==
    ASSUME NEW f, Partial(f, Key, Row), NEW k \in Key, NEW r \in Row
    PROVE  Partial(Put(f, k, r), Key, Row)
BY DEF Put, Overlay, Partial

\* Committing a session's rows keeps the table a table.
LEMMA OverlayTable ==
    ASSUME NEW f \in [Key -> Row \cup {NoRow}], NEW g, Partial(g, Key, Row)
    PROVE  /\ Overlay(f, g) \in [Key -> Row \cup {NoRow}]
           /\ \A k \in Key : Overlay(f, g)[k] = IF k \in DOMAIN g THEN g[k] ELSE f[k]
BY DEF Overlay, Partial

LEMMA HeadAndTail ==
    ASSUME NEW S, NEW w \in Seq(S) \ {<< >>}
    PROVE  Head(w) \in S /\ (Len(w) > 1 => Tail(w) \in Seq(S) \ {<< >>})
OBVIOUS

\* The three ways a session makes a row out of the one it sees.
LEMMA MergedRow ==
    ASSUME NEW row \in Row, NEW rec \in SeenRecord, NEW t \in 0..MaxTime
    PROVE  [Merged(row, rec) EXCEPT !.last = t] \in Row
<1>1. Overlay(row.meta, rec.meta) \in Metadata
  BY OverlayMetadata DEF Row, SeenRecord
<1> QED
  BY <1>1 DEF Merged, Row, SeenRecord, AssetStatus

LEMMA NewRow ==
    ASSUME NEW s \in Session, stamp[s] \in 0..MaxTime, NEW rec \in SeenRecord
    PROVE  FirstSeen(s, rec) \in Row
BY DEF FirstSeen, Row, SeenRecord

LEMMA UpdatedRow ==
    ASSUME NEW row \in Row, NEW fields \in PatchFields \cup [status : {"archived"}]
    PROVE  /\ Updated(row, fields) \in Row
           /\ Updated(row, fields).last = row.last
<1>1. "status" \in DOMAIN fields => fields.status \in AssetStatus
  BY DEF PatchFields, AssetStatus
<1>2. "tags" \in DOMAIN fields => fields.tags \in SUBSET Tag
  BY DEF PatchFields
<1> QED
  BY <1>1, <1>2 DEF Updated, Row

-----------------------------------------------------------------------------
\* An unused session holds no row, and one that is to update a row has found
\* it: a row, once committed, is never deleted.
SessionInv(a, r, w, t, rows) ==
    /\ SessionOK(a, r, w, t)
    /\ a = "idle" => DOMAIN t = {}
    /\ a = "update" => rows[r.key] # NoRow

TypeInv ==
    /\ TypeOK
    /\ \A s \in Session : SessionInv(at[s], req[s], todo[s], tx[s], assets)

LEMMA EmptyTx == DOMAIN NoTx = {} /\ Partial(NoTx, Key, Row)
BY DEF NoTx, Partial

LEMMA IdleSession ==
    ASSUME NEW r, NEW w, NEW rows PROVE SessionInv("idle", r, w, NoTx, rows)
BY EmptyTx DEF SessionInv, SessionOK

LEMMA InitTypes == Init => TypeInv
<1> SUFFICES ASSUME Init PROVE TypeInv
  OBVIOUS
<1>1. \A s \in Session : SessionInv(at[s], req[s], todo[s], tx[s], assets)
  BY IdleSession DEF Init
<1>2. \A s \in Session : SessionOK(at[s], req[s], todo[s], tx[s])
  BY <1>1 DEF SessionInv
<1> QED
  BY <1>1, <1>2, TimeAssumption DEF Init, TypeInv, TypeOK, Label

\* Everything a session keeps for itself, and nothing of the others.
Shape == /\ at \in [Session -> Label]
         /\ DOMAIN req = Session /\ DOMAIN todo = Session /\ DOMAIN tx = Session
         /\ began \in [Session -> 0..MaxTime] /\ stamp \in [Session -> 0..MaxTime]

Untouched(q) == /\ at'[q] = at[q] /\ req'[q] = req[q] /\ todo'[q] = todo[q]
                /\ tx'[q] = tx[q] /\ began'[q] = began[q]

\* A step of one session keeps the types if it keeps them for that session
\* and deletes no row.
LEMMA OneSession ==
    ASSUME TypeInv, NEW s \in Session,
           Shape', clock' = clock,
           \A q \in Session \ {s} : Untouched(q),
           SessionInv(at'[s], req'[s], todo'[s], tx'[s], assets'),
           assets' \in [Key -> Row \cup {NoRow}],
           \A k \in Key : assets[k] # NoRow => assets'[k] # NoRow,
           sighted' \in [Key -> 0..MaxTime]
    PROVE  TypeInv'
<1>1. ASSUME NEW q \in Session \ {s}
      PROVE  SessionInv(at'[q], req'[q], todo'[q], tx'[q], assets')
  <2>1. SessionInv(at[q], req[q], todo[q], tx[q], assets)
    BY DEF TypeInv
  <2>2. at[q] = "update" => req[q].key \in Key
    BY <2>1 DEF SessionInv, SessionOK, Patches, Archives
  <2> QED
    BY <1>1, <2>1, <2>2 DEF SessionInv, Untouched
<1>2. \A q \in Session : SessionInv(at'[q], req'[q], todo'[q], tx'[q], assets')
  BY <1>1
<1>3. \A q \in Session : SessionOK(at'[q], req'[q], todo'[q], tx'[q])
  BY <1>2 DEF SessionInv
<1> QED
  BY <1>2, <1>3 DEF TypeInv, TypeOK, Shape

LEMMA EndTypes ==
    ASSUME TypeInv, NEW s \in Session, End(s)
    PROVE  /\ Shape'
           /\ at'[s] = "idle" /\ tx'[s] = NoTx /\ req'[s] = Idle
           /\ \A q \in Session \ {s} : Untouched(q)
           /\ \A rows : SessionInv(at'[s], req'[s], todo'[s], tx'[s], rows)
<1>1. /\ Shape' /\ at'[s] = "idle" /\ tx'[s] = NoTx /\ req'[s] = Idle
      /\ \A q \in Session \ {s} : Untouched(q)
  BY TimeAssumption DEF End, TypeInv, TypeOK, Shape, Untouched, Label
<1> QED
  BY <1>1, IdleSession

\* One step of a session, or of the clock, keeps the types.
LEMMA StepTypes == TypeInv /\ [Next]_vars => TypeInv'
<1> SUFFICES ASSUME TypeInv, [Next]_vars PROVE TypeInv'
  OBVIOUS
<1>0. /\ Shape /\ assets \in [Key -> Row \cup {NoRow}] /\ sighted \in [Key -> 0..MaxTime]
      /\ clock \in 0..MaxTime
      /\ \A s \in Session : SessionInv(at[s], req[s], todo[s], tx[s], assets)
  BY DEF TypeInv, TypeOK, Shape
<1>1. CASE Tick
  <2>1. clock' \in 0..MaxTime
    BY <1>0, <1>1, TimeAssumption DEF Tick
  <2> QED
    BY <1>1, <2>1 DEF Tick, TypeInv, TypeOK
<1>2. ASSUME NEW s \in Session, NEW r \in Request, Begin(s, r) PROVE TypeInv'
  <2> DEFINE work == IF r.kind = "upsert" THEN r.recs ELSE << >>
             label == CASE r.kind = "upsert"  -> "stamp"
                        [] r.kind = "patch"   -> "find"
                        [] r.kind = "archive" -> "find"
                        [] r.kind = "sweep"   -> "scan"
  <2>1. /\ at[s] = "idle" /\ req' = [req EXCEPT ![s] = r]
        /\ began' = [began EXCEPT ![s] = clock]
        /\ todo' = [todo EXCEPT ![s] = work] /\ at' = [at EXCEPT ![s] = label]
        /\ UNCHANGED <<clock, assets, stamp, tx, sighted>>
    BY <1>2 DEF Begin, Goto
  <2>2. SessionOK(label, r, work, tx[s]) /\ label \in {"stamp", "find", "scan"}
    <3>1. Partial(tx[s], Key, Row)
      BY <1>0 DEF SessionInv, SessionOK
    <3>2. CASE r \in Upserts
      BY <3>1, <3>2 DEF Upserts, SessionOK
    <3>3. CASE r \in Patches
      BY <3>1, <3>3 DEF Patches, SessionOK
    <3>4. CASE r \in Archives
      BY <3>1, <3>4 DEF Archives, SessionOK
    <3>5. CASE r \in Sweeps
      BY <3>1, <3>5 DEF Sweeps, SessionOK
    <3> QED
      BY <3>2, <3>3, <3>4, <3>5, RequestAssumption
  <2> HIDE DEF work, label
  <2>3. at'[s] = label /\ req'[s] = r /\ todo'[s] = work /\ tx'[s] = tx[s]
    BY <1>0, <2>1 DEF Shape
  <2>4. SessionInv(at'[s], req'[s], todo'[s], tx'[s], assets')
    BY <2>2, <2>3 DEF SessionInv
  <2>5. Shape' /\ \A q \in Session \ {s} : Untouched(q)
    BY <1>0, <2>1, <2>2 DEF Shape, Untouched, Label
  <2> QED
    BY <1>0, <2>1, <2>4, <2>5, OneSession
<1>3. ASSUME NEW s \in Session, TakeStamp(s) PROVE TypeInv'
  <2>1. Shape' /\ \A q \in Session \ {s} : Untouched(q)
    BY <1>0, <1>3 DEF TakeStamp, Goto, Shape, Untouched, Label
  <2>2. SessionInv(at'[s], req'[s], todo'[s], tx'[s], assets')
    BY <1>0, <1>3 DEF TakeStamp, Goto, Shape, SessionInv, SessionOK
  <2> QED
    BY <1>0, <1>3, <2>1, <2>2, OneSession DEF TakeStamp
<1>4. ASSUME NEW s \in Session, UpsertRow(s) PROVE TypeInv'
  <2> DEFINE rec == Head(todo[s])
             old == RowSeenBy(s, rec.key)
             row == IF old = NoRow THEN FirstSeen(s, rec)
                    ELSE [Merged(old, rec) EXCEPT !.last = stamp[s]]
             label == IF Len(todo[s]) > 1 THEN "stamp" ELSE "commit"
  <2>1. /\ at[s] = "upsert"
        /\ tx' = [tx EXCEPT ![s] = Put(@, rec.key, row)]
        /\ todo' = [todo EXCEPT ![s] = Tail(@)]
        /\ at' = [at EXCEPT ![s] = label]
        /\ UNCHANGED <<clock, assets, req, began, stamp, sighted>>
    BY <1>4 DEF UpsertRow, Write, Goto
  <2>2. /\ req[s] \in Upserts /\ todo[s] \in Seq(SeenRecord) \ {<< >>}
        /\ Partial(tx[s], Key, Row)
    BY <1>0, <2>1 DEF SessionInv, SessionOK
  <2>3. rec \in SeenRecord /\ rec.key \in Key
    <3>1. rec \in SeenRecord
      BY <2>2, HeadAndTail
    <3> QED
      BY <3>1 DEF SeenRecord
  <2>4. old \in Row \cup {NoRow} /\ stamp[s] \in 0..MaxTime
    BY <1>0, <2>2, <2>3 DEF RowSeenBy, Partial, Shape
  <2>5. row \in Row
    BY <2>3, <2>4, MergedRow, NewRow
  <2>6. label \in {"stamp", "commit"}
        /\ (label = "stamp" => Tail(todo[s]) \in Seq(SeenRecord) \ {<< >>})
    BY <2>2, HeadAndTail
  <2> HIDE DEF rec, row, label
  <2>7. Partial(Put(tx[s], rec.key, row), Key, Row)
    BY <2>2, <2>3, <2>5, PutRow
  <2>8. SessionInv(at'[s], req'[s], todo'[s], tx'[s], assets')
    <3>1. /\ at'[s] = label /\ req'[s] = req[s] /\ todo'[s] = Tail(todo[s])
          /\ tx'[s] = Put(tx[s], rec.key, row)
      BY <1>0, <2>1 DEF Shape
    <3> QED
      BY <2>2, <2>6, <2>7, <3>1 DEF SessionInv, SessionOK
  <2>9. Shape' /\ \A q \in Session \ {s} : Untouched(q)
    BY <1>0, <2>1, <2>6 DEF Shape, Untouched, Label
  <2> QED
    BY <1>0, <2>1, <2>8, <2>9, OneSession
<1>5. ASSUME NEW s \in Session, FindRow(s) PROVE TypeInv'
  <2>1. CASE End(s)
    BY <1>0, <1>5, <2>1, EndTypes, OneSession DEF FindRow
  <2>2. CASE assets[req[s].key] # NoRow /\ Goto(s, "update")
             /\ UNCHANGED <<req, todo, began, stamp, tx>>
    <3>1. Shape' /\ \A q \in Session \ {s} : Untouched(q)
      BY <1>0, <2>2 DEF Goto, Shape, Untouched, Label
    <3>2. at[s] = "find" /\ UNCHANGED <<clock, assets, sighted>>
      BY <1>5 DEF FindRow
    <3>3. SessionInv(at'[s], req'[s], todo'[s], tx'[s], assets')
      BY <1>0, <2>2, <3>2 DEF Goto, Shape, SessionInv, SessionOK
    <3> QED
      BY <1>0, <3>1, <3>2, <3>3, OneSession
  <2> QED
    BY <1>5, <2>1, <2>2 DEF FindRow
<1>6. ASSUME NEW s \in Session, UpdateRow(s) PROVE TypeInv'
  <2> DEFINE k == req[s].key
             fields == IF req[s].kind = "patch" THEN req[s].set
                       ELSE [status |-> "archived"]
             row == Updated(assets[k], fields)
  <2>1. /\ at[s] = "update"
        /\ tx' = [tx EXCEPT ![s] = Put(@, k, row)]
        /\ at' = [at EXCEPT ![s] = "commit"]
        /\ UNCHANGED <<clock, assets, req, todo, began, stamp, sighted>>
    BY <1>6 DEF UpdateRow, Write, Goto
  <2>2. /\ req[s] \in Patches \cup Archives /\ assets[k] # NoRow
        /\ Partial(tx[s], Key, Row)
    BY <1>0, <2>1 DEF SessionInv, SessionOK
  <2>3. k \in Key /\ fields \in PatchFields \cup [status : {"archived"}]
    BY <2>2 DEF Patches, Archives
  <2>4. row \in Row
    <3>1. assets[k] \in Row
      BY <1>0, <2>2, <2>3
    <3> QED
      BY <2>3, <3>1, UpdatedRow
  <2> HIDE DEF k, row
  <2>5. Partial(Put(tx[s], k, row), Key, Row)
    BY <2>2, <2>3, <2>4, PutRow
  <2>6. SessionInv(at'[s], req'[s], todo'[s], tx'[s], assets')
    BY <1>0, <2>1, <2>5 DEF Shape, SessionInv, SessionOK
  <2>7. Shape' /\ \A q \in Session \ {s} : Untouched(q)
    BY <1>0, <2>1 DEF Shape, Untouched, Label
  <2> QED
    BY <1>0, <2>1, <2>6, <2>7, OneSession
<1>7. ASSUME NEW s \in Session, Scan(s) PROVE TypeInv'
  <2>1. Shape' /\ \A q \in Session \ {s} : Untouched(q)
    BY <1>0, <1>7 DEF Scan, Goto, Shape, Untouched, Label
  <2>2. SessionInv(at'[s], req'[s], todo'[s], tx'[s], assets')
    BY <1>0, <1>7 DEF Scan, Goto, Shape, SessionInv, SessionOK
  <2> QED
    BY <1>0, <1>7, <2>1, <2>2, OneSession DEF Scan
<1>8. ASSUME NEW s \in Session, SweepRow(s) PROVE TypeInv'
  <2>1. /\ at[s] = "sweep" /\ UNCHANGED <<clock, assets, at, req, began, stamp, sighted>>
        /\ todo[s] \in SUBSET Key /\ req[s] \in Sweeps /\ Partial(tx[s], Key, Row)
    BY <1>0, <1>8 DEF SweepRow, SessionInv, SessionOK
  <2>2. PICK k \in todo[s] :
          /\ todo' = [todo EXCEPT ![s] = @ \ {k}]
          /\ IF Unseen(s, assets[k])
             THEN Write(s, k, [assets[k] EXCEPT !.status = "stale"])
             ELSE UNCHANGED tx
    BY <1>8 DEF SweepRow
  <2>3. DOMAIN tx' = Session /\ Partial(tx'[s], Key, Row)
        /\ \A q \in Session \ {s} : tx'[q] = tx[q]
    <3>1. CASE Unseen(s, assets[k])
      <4>1. [assets[k] EXCEPT !.status = "stale"] \in Row
        BY <1>0, <2>1, <3>1 DEF Unseen, Row, AssetStatus
      <4>2. Partial(Put(tx[s], k, [assets[k] EXCEPT !.status = "stale"]), Key, Row)
        BY <2>1, <4>1, PutRow
      <4> QED
        BY <1>0, <2>2, <3>1, <4>2 DEF Write, Shape
    <3>2. CASE ~Unseen(s, assets[k])
      BY <1>0, <2>1, <2>2, <3>2 DEF Shape
    <3> QED
      BY <3>1, <3>2
  <2>4. SessionInv(at'[s], req'[s], todo'[s], tx'[s], assets')
    BY <1>0, <2>1, <2>2, <2>3 DEF Shape, SessionInv, SessionOK
  <2>5. Shape' /\ \A q \in Session \ {s} : Untouched(q)
    BY <1>0, <2>1, <2>2, <2>3 DEF Shape, Untouched
  <2> QED
    BY <1>0, <2>1, <2>4, <2>5, OneSession
<1>9. ASSUME NEW s \in Session, SweepDone(s) PROVE TypeInv'
  <2>1. Shape' /\ \A q \in Session \ {s} : Untouched(q)
    BY <1>0, <1>9 DEF SweepDone, Goto, Shape, Untouched, Label
  <2>2. SessionInv(at'[s], req'[s], todo'[s], tx'[s], assets')
    BY <1>0, <1>9 DEF SweepDone, Goto, Shape, SessionInv, SessionOK
  <2> QED
    BY <1>0, <1>9, <2>1, <2>2, OneSession DEF SweepDone
<1>10. ASSUME NEW s \in Session, Commit(s) PROVE TypeInv'
  <2>1. End(s) /\ assets' = Overlay(assets, tx[s]) /\ clock' = clock
    BY <1>10 DEF Commit
  <2>2. Partial(tx[s], Key, Row)
    BY <1>0 DEF SessionInv, SessionOK
  <2>3. /\ assets' \in [Key -> Row \cup {NoRow}]
        /\ \A k \in Key : assets'[k] = IF k \in DOMAIN tx[s] THEN tx[s][k] ELSE assets[k]
    BY <1>0, <2>1, <2>2, OverlayTable
  <2>4. \A k \in Key : k \in DOMAIN tx[s] => tx[s][k] \in Row
    BY <2>2 DEF Partial
  <2>5. \A k \in Key : assets[k] # NoRow => assets'[k] # NoRow
    BY <2>3, <2>4, NoRowAssumption
  <2>6. sighted' \in [Key -> 0..MaxTime]
    BY <1>0, <1>10, <2>4 DEF Commit, Row
  <2> QED
    BY <2>1, <2>3, <2>5, <2>6, EndTypes, OneSession
<1>11. ASSUME NEW s \in Session, Rollback(s) PROVE TypeInv'
  BY <1>0, <1>11, EndTypes, OneSession DEF Rollback
<1>12. CASE UNCHANGED vars
  BY <1>12 DEF vars, TypeInv, TypeOK
<1> QED
  BY <1>1, <1>2, <1>3, <1>4, <1>5, <1>6, <1>7, <1>8, <1>9, <1>10, <1>11, <1>12
  DEF Next, Step

-----------------------------------------------------------------------------
(* What a step can do to rows, locks and times.                            *)

\* Nothing is written; a session may start or take its stamp.
MovesOn(s) ==
    /\ UNCHANGED <<clock, assets, tx, sighted>> /\ Shape'
    /\ \A q \in Session \ {s} : Untouched(q) /\ stamp'[q] = stamp[q]
    /\ at'[s] # "idle"
    /\ \/ at[s] = "idle" /\ began'[s] = clock
       \/ at[s] # "idle" /\ began'[s] = began[s] /\ req'[s] = req[s]
    /\ at'[s] = "upsert" => stamp'[s] = clock /\ at[s] # "idle"

\* The request is a PATCH that names the column.
Names(r, column) == r.kind = "patch" /\ column \in DOMAIN r.set

\* What request r may make of the row old, in one statement or in several.
Follows(r, old, row) ==
    /\ row.id = old.id /\ row.first = old.first
    /\ DOMAIN old.meta \subseteq DOMAIN row.meta
    /\ old.tags \subseteq row.tags \/ Names(r, "tags")
    /\ old.status = "archived" => \/ row.status = "archived"
                                  \/ r.kind = "upsert" /\ row.status = "active"
                                  \/ Names(r, "status")
    /\ old.status = "active" /\ r.kind = "upsert" => row.status = "active"

\* One row is written, under the lock that this takes.
Writes(s, k, row) ==
    /\ UNCHANGED <<clock, assets, req, began, stamp, sighted>> /\ Shape'
    /\ k \in Key /\ row \in Row /\ Free(s, k)
    /\ at[s] # "idle" /\ at'[s] \notin {"idle", "upsert"}
    /\ \A q \in Session \ {s} : at'[q] = at[q] /\ tx'[q] = tx[q]
    /\ tx'[s] = Put(tx[s], k, row)
    /\ \/ at[s] = "upsert" /\ req[s].kind # "sweep" /\ row.last = stamp[s]
       \/ /\ assets[k] # NoRow /\ row.last = assets[k].last
          /\ req[s].kind = "sweep" => Unseen(s, assets[k])
    /\ IF k \in DOMAIN tx[s] /\ at[s] = "upsert" THEN Follows(req[s], tx[s][k], row)
       ELSE assets[k] # NoRow => Follows(req[s], assets[k], row)

Commits(s) ==
    /\ at[s] = "commit"
    /\ \A k \in Key : assets'[k] = IF k \in DOMAIN tx[s] THEN tx[s][k] ELSE assets[k]
    /\ \A k \in Key : sighted'[k] = IF k \in DOMAIN tx[s] /\ tx[s][k].last > sighted[k]
                                    THEN tx[s][k].last ELSE sighted[k]

\* The session ends, with or without a commit.
Ends(s) ==
    /\ clock' = clock /\ Shape'
    /\ at'[s] = "idle" /\ tx'[s] = NoTx
    /\ \A q \in Session \ {s} : Untouched(q) /\ stamp'[q] = stamp[q]
    /\ UNCHANGED <<assets, sighted>> \/ Commits(s)

Effect == \E s \in Session : \/ MovesOn(s)
                             \/ \E k \in Key, row \in Row : Writes(s, k, row)
                             \/ Ends(s)

\* An upsert of a row it finds, an UPDATE of the row it found, and a sweep.
LEMMA MergedFollows ==
    ASSUME NEW r \in Upserts, NEW old \in Row, NEW rec \in SeenRecord, NEW t
    PROVE  Follows(r, old, [Merged(old, rec) EXCEPT !.last = t])
<1> DEFINE row == [Merged(old, rec) EXCEPT !.last = t]
<1>1. /\ row.id = old.id /\ row.first = old.first
      /\ row.status = IF rec.status = "active" THEN "active" ELSE old.status
      /\ row.tags = old.tags \cup rec.tags
      /\ row.meta = Overlay(old.meta, rec.meta)
  BY DEF Merged, Row
<1>2. DOMAIN old.meta \subseteq DOMAIN Overlay(old.meta, rec.meta)
  BY DEF Overlay
<1>3. r.kind = "upsert"
  BY DEF Upserts
<1>4. old.status = "archived" => row.status \in {"archived", "active"}
  BY <1>1
<1>5. old.status = "active" => row.status = "active"
  BY <1>1
<1>6. old.tags \subseteq row.tags /\ DOMAIN old.meta \subseteq DOMAIN row.meta
  BY <1>1, <1>2
<1>7. SUFFICES Follows(r, old, row)
  OBVIOUS
<1> HIDE DEF row
<1> QED
  BY <1>1, <1>3, <1>4, <1>5, <1>6, Zenon DEF Follows

LEMMA UpdatedFollows ==
    ASSUME NEW r \in Patches \cup Archives, NEW old \in Row
    PROVE  Follows(r, old, Updated(old, IF r.kind = "patch" THEN r.set
                                        ELSE [status |-> "archived"]))
<1> DEFINE fields == IF r.kind = "patch" THEN r.set ELSE [status |-> "archived"]
           row == Updated(old, fields)
<1>1. /\ row.id = old.id /\ row.first = old.first /\ row.meta = old.meta
      /\ row.status = IF "status" \in DOMAIN fields THEN fields.status ELSE old.status
      /\ row.tags = IF "tags" \in DOMAIN fields THEN fields.tags ELSE old.tags
  BY DEF Updated, Row
<1> SUFFICES Follows(r, old, row)
  OBVIOUS
<1>2. CASE r \in Patches
  <2>1. r.kind = "patch" /\ fields = r.set
    BY <1>2 DEF Patches
  <2>2. row.status = old.status \/ Names(r, "status")
    BY <1>1, <2>1 DEF Names
  <2>3. row.tags = old.tags \/ Names(r, "tags")
    BY <1>1, <2>1 DEF Names
  <2> HIDE DEF row, fields
  <2> QED
    BY <1>1, <2>1, <2>2, <2>3, Zenon DEF Follows
<1>3. CASE r \in Archives
  <2>1. r.kind = "archive" /\ fields = [status |-> "archived"]
    BY <1>3 DEF Archives
  <2>2. row.status = "archived" /\ row.tags = old.tags
    BY <1>1, <2>1
  <2> HIDE DEF row, fields
  <2> QED
    BY <1>1, <2>1, <2>2, Zenon DEF Follows
<1> QED
  BY <1>2, <1>3

LEMMA StaleFollows ==
    ASSUME NEW r \in Sweeps, NEW old \in Row, old.status = "active"
    PROVE  Follows(r, old, [old EXCEPT !.status = "stale"])
BY DEF Follows, Sweeps, Row

\* What follows from what follows, follows.
LEMMA FollowsTransitive ==
    ASSUME NEW r, NEW a, NEW b, NEW c, Follows(r, a, b), Follows(r, b, c), r.kind = "upsert"
    PROVE  Follows(r, a, c)
BY DEF Follows, Names

\* After a write the session holds that row, and the others it held.
LEMMA Written ==
    ASSUME TypeInv, NEW s \in Session, NEW k \in Key, NEW row \in Row, Writes(s, k, row)
    PROVE  /\ DOMAIN tx'[s] = DOMAIN tx[s] \cup {k} /\ tx'[s][k] = row
           /\ \A l \in DOMAIN tx[s] \ {k} : tx'[s][l] = tx[s][l]
           /\ \A q \in Session \ {s} : tx'[q] = tx[q] /\ k \notin DOMAIN tx[q]
<1>1. Partial(tx[s], Key, Row)
  BY DEF TypeInv, TypeOK, SessionOK
<1>2. tx'[s] = Put(tx[s], k, row) /\ Free(s, k)
      /\ \A q \in Session \ {s} : tx'[q] = tx[q]
  BY DEF Writes
<1>3. /\ DOMAIN Put(tx[s], k, row) = DOMAIN tx[s] \cup {k} /\ Put(tx[s], k, row)[k] = row
      /\ \A l \in DOMAIN tx[s] \ {k} : Put(tx[s], k, row)[l] = tx[s][l]
  BY <1>1 DEF Put, Overlay, Partial
<1> QED
  BY <1>2, <1>3 DEF Free

LEMMA EndEffect ==
    ASSUME TypeInv, TypeInv', NEW s \in Session, End(s), clock' = clock,
           UNCHANGED <<assets, sighted>> \/ Commits(s)
    PROVE  Ends(s)
<1>1. Shape /\ Shape'
  BY DEF TypeInv, TypeOK, Shape
<1> QED
  BY <1>1 DEF End, Ends, Untouched, Shape

\* Every step but the clock's has one of these effects.
LEMMA Effects ==
    ASSUME TypeInv, TypeInv', NEW s \in Session,
           (\E r \in Request : Begin(s, r)) \/ Step(s) \/ Rollback(s)
    PROVE  Effect
<1>0. /\ Shape /\ Shape' /\ assets \in [Key -> Row \cup {NoRow}]
      /\ sighted \in [Key -> 0..MaxTime]
      /\ SessionInv(at[s], req[s], todo[s], tx[s], assets)
  BY DEF TypeInv, TypeOK, Shape
<1>1. ASSUME NEW r \in Request, Begin(s, r) PROVE MovesOn(s)
  <2> DEFINE label == CASE r.kind = "upsert"  -> "stamp"
                        [] r.kind = "patch"   -> "find"
                        [] r.kind = "archive" -> "find"
                        [] r.kind = "sweep"   -> "scan"
  <2>1. r.kind \in {"upsert", "patch", "archive", "sweep"}
    BY RequestAssumption DEF Upserts, Patches, Archives, Sweeps
  <2>2. label \in {"stamp", "find", "scan"}
    BY <2>1
  <2> HIDE DEF label
  <2>3. at' = [at EXCEPT ![s] = label]
    BY <1>1 DEF Begin, Goto, label
  <2> QED
    BY <1>0, <1>1, <2>2, <2>3 DEF Begin, MovesOn, Untouched, Shape
<1>2. CASE TakeStamp(s)
  BY <1>0, <1>2 DEF TakeStamp, Goto, MovesOn, Untouched, Shape, Effect
<1>3. CASE UpsertRow(s)
  <2> DEFINE rec == Head(todo[s])
             old == RowSeenBy(s, rec.key)
             row == IF old = NoRow THEN FirstSeen(s, rec)
                    ELSE [Merged(old, rec) EXCEPT !.last = stamp[s]]
  <2>1. /\ at[s] = "upsert" /\ Free(s, rec.key)
        /\ tx' = [tx EXCEPT ![s] = Put(@, rec.key, row)]
        /\ at' = [at EXCEPT ![s] = IF Len(todo[s]) > 1 THEN "stamp" ELSE "commit"]
        /\ UNCHANGED <<clock, assets, req, began, stamp, sighted>>
    BY <1>3 DEF UpsertRow, Write, Goto
  <2>2. /\ req[s] \in Upserts /\ todo[s] \in Seq(SeenRecord) \ {<< >>}
        /\ Partial(tx[s], Key, Row)
    BY <1>0, <2>1 DEF SessionInv, SessionOK
  <2>3. rec \in SeenRecord
    BY <2>2, HeadAndTail
  <2>4. rec.key \in Key
    BY <2>3 DEF SeenRecord
  <2>5. old \in Row \cup {NoRow} /\ stamp[s] \in 0..MaxTime
    BY <1>0, <2>2, <2>4 DEF RowSeenBy, Partial, Shape
  <2>6. row \in Row
    BY <2>3, <2>5, MergedRow, NewRow
  <2>7. row.last = stamp[s]
    <3>1. FirstSeen(s, rec).last = stamp[s]
      BY DEF FirstSeen
    <3>2. old # NoRow => [Merged(old, rec) EXCEPT !.last = stamp[s]].last = stamp[s]
      BY <2>5 DEF Merged, Row
    <3> QED
      BY <3>1, <3>2
  <2>8. old # NoRow => Follows(req[s], old, row)
    BY <2>2, <2>3, <2>5, MergedFollows
  <2>9. /\ old = IF rec.key \in DOMAIN tx[s] THEN tx[s][rec.key] ELSE assets[rec.key]
        /\ rec.key \in DOMAIN tx[s] => tx[s][rec.key] # NoRow
    BY <2>2, NoRowAssumption DEF RowSeenBy, Partial
  <2> HIDE DEF rec, row, old
  <2>10. /\ UNCHANGED <<clock, assets, req, began, stamp, sighted>> /\ Shape'
         /\ rec.key \in Key /\ row \in Row /\ Free(s, rec.key)
         /\ at[s] # "idle" /\ at'[s] \notin {"idle", "upsert"}
         /\ \A q \in Session \ {s} : at'[q] = at[q] /\ tx'[q] = tx[q]
         /\ tx'[s] = Put(tx[s], rec.key, row)
         /\ at[s] = "upsert" /\ req[s].kind # "sweep" /\ row.last = stamp[s]
    BY <1>0, <2>1, <2>2, <2>4, <2>6, <2>7 DEF Upserts, Shape
  <2>11. Writes(s, rec.key, row)
    BY <2>8, <2>9, <2>10 DEF Writes
  <2> QED
    BY <2>4, <2>6, <2>11 DEF Effect
<1>4. CASE FindRow(s)
  <2>1. CASE End(s)
    BY <1>4, <2>1, EndEffect DEF FindRow, Effect
  <2>2. CASE ~End(s)
    BY <1>0, <1>4, <2>2 DEF FindRow, Goto, MovesOn, Untouched, Shape, Effect
  <2> QED
    BY <2>1, <2>2
<1>5. CASE UpdateRow(s)
  <2> DEFINE k == req[s].key
             fields == IF req[s].kind = "patch" THEN req[s].set
                       ELSE [status |-> "archived"]
             row == Updated(assets[k], fields)
  <2>1. /\ at[s] = "update" /\ Free(s, k)
        /\ tx' = [tx EXCEPT ![s] = Put(@, k, row)]
        /\ at' = [at EXCEPT ![s] = "commit"]
        /\ UNCHANGED <<clock, assets, req, todo, began, stamp, sighted>>
    BY <1>5 DEF UpdateRow, Write, Goto
  <2>2. req[s] \in Patches \cup Archives /\ assets[k] # NoRow
    BY <1>0, <2>1 DEF SessionInv, SessionOK
  <2>3. /\ k \in Key /\ fields \in PatchFields \cup [status : {"archived"}]
        /\ req[s].kind # "sweep"
    BY <2>2 DEF Patches, Archives
  <2>4. row \in Row /\ row.last = assets[k].last /\ Follows(req[s], assets[k], row)
    <3>1. assets[k] \in Row
      BY <1>0, <2>2, <2>3
    <3> QED
      BY <2>2, <2>3, <3>1, UpdatedRow, UpdatedFollows
  <2> HIDE DEF k, row
  <2>5. Writes(s, k, row)
    BY <1>0, <2>1, <2>2, <2>3, <2>4 DEF Writes, Shape
  <2> QED
    BY <2>3, <2>4, <2>5 DEF Effect
<1>6. CASE Scan(s)
  BY <1>0, <1>6 DEF Scan, Goto, MovesOn, Untouched, Shape, Effect
<1>7. CASE SweepRow(s)
  <2>1. /\ at[s] = "sweep" /\ UNCHANGED <<clock, assets, at, req, began, stamp, sighted>>
        /\ todo[s] \in SUBSET Key /\ req[s] \in Sweeps
    BY <1>0, <1>7 DEF SweepRow, SessionInv, SessionOK
  <2>2. PICK k \in todo[s] :
          /\ Free(s, k)
          /\ todo' = [todo EXCEPT ![s] = @ \ {k}]
          /\ IF Unseen(s, assets[k])
             THEN Write(s, k, [assets[k] EXCEPT !.status = "stale"])
             ELSE UNCHANGED tx
    BY <1>7 DEF SweepRow
  <2>3. CASE Unseen(s, assets[k])
    <3> DEFINE row == [assets[k] EXCEPT !.status = "stale"]
    <3>0. k \in Key /\ assets[k] \in Row /\ assets[k].status = "active"
      BY <1>0, <2>1, <2>3 DEF Unseen
    <3>1. /\ row \in Row /\ row.last = assets[k].last /\ assets[k] # NoRow
          /\ Follows(req[s], assets[k], row)
      BY <2>1, <3>0, NoRowAssumption, StaleFollows DEF Row, AssetStatus
    <3>2. tx' = [tx EXCEPT ![s] = Put(@, k, row)]
      BY <2>2, <2>3 DEF Write
    <3> HIDE DEF row
    <3>3. Writes(s, k, row)
      BY <1>0, <2>1, <2>2, <2>3, <3>0, <3>1, <3>2 DEF Writes, Shape
    <3> QED
      BY <3>0, <3>1, <3>3 DEF Effect
  <2>4. CASE ~Unseen(s, assets[k])
    BY <1>0, <2>1, <2>2, <2>4 DEF MovesOn, Untouched, Shape, Effect
  <2> QED
    BY <2>3, <2>4
<1>8. CASE SweepDone(s)
  BY <1>0, <1>8 DEF SweepDone, Goto, MovesOn, Untouched, Shape, Effect
<1>9. CASE Commit(s)
  <2>1. Partial(tx[s], Key, Row)
    BY <1>0 DEF SessionInv, SessionOK
  <2>2. \A k \in Key : assets'[k] = IF k \in DOMAIN tx[s] THEN tx[s][k] ELSE assets[k]
    BY <1>0, <1>9, <2>1, OverlayTable DEF Commit
  <2>3. Commits(s)
    BY <1>9, <2>2 DEF Commit, Commits
  <2> QED
    BY <1>9, <2>3, EndEffect DEF Commit, Effect
<1>10. CASE Rollback(s)
  BY <1>10, EndEffect DEF Rollback, Effect
<1> QED
  BY <1>1, <1>2, <1>3, <1>4, <1>5, <1>6, <1>7, <1>8, <1>9, <1>10 DEF Step, Effect

-----------------------------------------------------------------------------
(* Locks and times.                                                        *)

\* No two sessions hold the same row.
Exclusive == \A s, q \in Session : s # q => DOMAIN tx[s] \cap DOMAIN tx[q] = {}

\* An open transaction is not older than MaxTxn, and an upsert's stamp is
\* taken during it.
Clocks(s) ==
    /\ at[s] # "idle" => began[s] <= clock /\ clock - began[s] <= MaxTxn
    /\ at[s] = "upsert" => began[s] <= stamp[s] /\ stamp[s] <= clock

\* A row about to be committed was seen during the transaction, or its
\* last_seen is that of the row it replaces.
Recent(s, k) ==
    /\ tx[s][k].last <= clock
    /\ \/ began[s] <= tx[s][k].last
       \/ assets[k] # NoRow /\ tx[s][k].last = assets[k].last

Lags(k) ==
    /\ sighted[k] <= clock
    /\ assets[k] # NoRow => /\ assets[k].last <= sighted[k]
                            /\ sighted[k] - MaxTxn <= assets[k].last

SweepInv == Exclusive /\ SweepOnlyUnseen

\* Every uncommitted row follows from the committed one, as it is now and not
\* only as it was when the session read it.
HeldInv == \A s \in Session : \A k \in DOMAIN tx[s] :
              assets[k] # NoRow => Follows(req[s], assets[k], tx[s][k])

LagInv ==
    /\ \A s \in Session : Clocks(s) /\ \A k \in DOMAIN tx[s] : Recent(s, k)
    /\ \A k \in Key : Lags(k)

LEMMA InitSafe == Init => SweepInv /\ LagInv /\ HeldInv
<1> SUFFICES ASSUME Init PROVE SweepInv /\ LagInv /\ HeldInv
  OBVIOUS
<1>1. \A s \in Session : tx[s] = NoTx /\ at[s] = "idle" /\ DOMAIN tx[s] = {}
  BY EmptyTx DEF Init
<1>2. SweepInv
  BY <1>1 DEF SweepInv, Exclusive, SweepOnlyUnseen, Sweeping
<1>3. LagInv
  BY <1>1, TimeAssumption DEF Init, LagInv, Clocks, Lags
<1>4. HeldInv
  BY <1>1 DEF HeldInv
<1> QED
  BY <1>2, <1>3, <1>4

\* What a session without rows holds.
LEMMA NoRowsHeld ==
    ASSUME TypeInv, NEW s \in Session
    PROVE  at[s] = "idle" => DOMAIN tx[s] = {}
BY DEF TypeInv, SessionInv

\* The lock a write takes keeps the rows of sessions apart, and a sweep looks
\* at the row it locks; a commit changes only rows no other session holds.
LEMMA SweepStep ==
    ASSUME TypeInv, TypeInv', SweepInv, Effect
    PROVE  SweepInv'
<1>1. PICK s \in Session : \/ MovesOn(s)
                           \/ \E k \in Key, row \in Row : Writes(s, k, row)
                           \/ Ends(s)
  BY DEF Effect
<1>3. CASE MovesOn(s)
  <2>1. Exclusive'
    BY <1>3 DEF MovesOn, SweepInv, Exclusive
  <2>2. ASSUME NEW q \in Session, NEW k \in Key, Sweeping(q, k)'
        PROVE  Unseen(q, assets[k])'
    <3>1. k \in DOMAIN tx[q] /\ at[q] # "idle" /\ assets'[k] = assets[k]
      BY <1>3, <2>2, NoRowsHeld DEF MovesOn, Sweeping
    <3>2. began'[q] = began[q] /\ req'[q] = req[q]
      BY <1>3, <3>1 DEF MovesOn, Untouched
    <3>3. Sweeping(q, k)
      BY <2>2, <3>1, <3>2 DEF Sweeping
    <3> QED
      BY <3>1, <3>2, <3>3 DEF SweepInv, SweepOnlyUnseen, Unseen
  <2> QED
    BY <2>1, <2>2 DEF SweepInv, SweepOnlyUnseen
<1>4. ASSUME NEW k \in Key, NEW row \in Row, Writes(s, k, row)
      PROVE  SweepInv'
  <2>1. DOMAIN tx'[s] = DOMAIN tx[s] \cup {k}
    BY <1>4, Written
  <2>2. Exclusive'
    <3> SUFFICES ASSUME NEW p \in Session, NEW q \in Session, p # q
                 PROVE  DOMAIN tx'[p] \cap DOMAIN tx'[q] = {}
      BY DEF Exclusive
    <3>1. DOMAIN tx[p] \cap DOMAIN tx[q] = {}
      BY DEF SweepInv, Exclusive
    <3>2. \A r \in Session \ {s} : tx'[r] = tx[r] /\ k \notin DOMAIN tx[r]
      BY <1>4, Written
    <3> QED
      BY <2>1, <3>1, <3>2
  <2>3. ASSUME NEW q \in Session, NEW l \in Key, Sweeping(q, l)'
        PROVE  Unseen(q, assets[l])'
    <3>1. UNCHANGED <<assets, began, req>>
      BY <1>4 DEF Writes
    <3>2. CASE q = s /\ l = k
      BY <1>4, <2>3, <3>1, <3>2 DEF Writes, Sweeping, Unseen
    <3>3. CASE ~(q = s /\ l = k)
      <4>1. Sweeping(q, l)
        BY <1>4, <2>1, <2>3, <3>1, <3>3 DEF Writes, Sweeping
      <4> QED
        BY <3>1, <4>1 DEF SweepInv, SweepOnlyUnseen, Unseen
    <3> QED
      BY <3>2, <3>3
  <2> QED
    BY <2>2, <2>3 DEF SweepInv, SweepOnlyUnseen
<1>5. CASE Ends(s)
  <2>1. DOMAIN tx'[s] = {} /\ \A q \in Session \ {s} : Untouched(q)
    BY <1>5, EmptyTx DEF Ends
  <2>2. Exclusive'
    BY <2>1 DEF Untouched, SweepInv, Exclusive
  <2>3. ASSUME NEW q \in Session, NEW k \in Key, Sweeping(q, k)'
        PROVE  Unseen(q, assets[k])'
    <3>1. q # s /\ Untouched(q)
      BY <2>1, <2>3 DEF Sweeping
    <3>2. Sweeping(q, k)
      BY <2>3, <3>1 DEF Untouched, Sweeping
    <3>3. k \notin DOMAIN tx[s]
      BY <3>1, <3>2 DEF Sweeping, SweepInv, Exclusive
    <3>4. assets'[k] = assets[k]
      BY <1>5, <3>3 DEF Ends, Commits
    <3> QED
      BY <3>1, <3>2, <3>4 DEF Untouched, SweepInv, SweepOnlyUnseen, Unseen
  <2> QED
    BY <2>2, <2>3 DEF SweepInv, SweepOnlyUnseen
<1> QED
  BY <1>1, <1>3, <1>4, <1>5

\* The lock keeps the committed row what it was; only who holds a row commits it.
LEMMA HeldStep ==
    ASSUME TypeInv, TypeInv', SweepInv, HeldInv, Effect
    PROVE  HeldInv'
<1>1. PICK s \in Session : \/ MovesOn(s)
                           \/ \E k \in Key, row \in Row : Writes(s, k, row)
                           \/ Ends(s)
  BY DEF Effect
<1>2. SUFFICES ASSUME NEW q \in Session, NEW l \in DOMAIN tx'[q], assets'[l] # NoRow
               PROVE  Follows(req'[q], assets'[l], tx'[q][l])
  BY DEF HeldInv
<1>3. CASE MovesOn(s)
  <2>1. l \in DOMAIN tx[q] /\ at[q] # "idle" /\ UNCHANGED <<assets, tx>>
    BY <1>2, <1>3, NoRowsHeld DEF MovesOn
  <2>2. req'[q] = req[q]
    BY <1>3, <2>1 DEF MovesOn, Untouched
  <2> QED
    BY <1>2, <2>1, <2>2 DEF HeldInv
<1>4. ASSUME NEW k \in Key, NEW row \in Row, Writes(s, k, row)
      PROVE  Follows(req'[q], assets'[l], tx'[q][l])
  <2>1. UNCHANGED <<assets, req>>
    BY <1>4 DEF Writes
  <2>2. CASE q = s /\ l = k /\ k \in DOMAIN tx[s] /\ at[s] = "upsert"
    <3>1. tx'[s][k] = row /\ Follows(req[s], tx[s][k], row)
      BY <1>4, <2>2, Written DEF Writes
    <3>2. Follows(req[s], assets[k], tx[s][k])
      BY <1>2, <2>1, <2>2 DEF HeldInv
    <3>3. req[s].kind = "upsert"
      BY <2>2 DEF TypeInv, SessionInv, SessionOK, Upserts
    <3> QED
      BY <2>1, <2>2, <3>1, <3>2, <3>3, FollowsTransitive
  <2>3. CASE q = s /\ l = k /\ ~(k \in DOMAIN tx[s] /\ at[s] = "upsert")
    <3>1. tx'[s][k] = row /\ Follows(req[s], assets[k], row)
      BY <1>2, <1>4, <2>1, <2>3, Written DEF Writes
    <3> QED
      BY <2>1, <2>3, <3>1
  <2>4. CASE ~(q = s /\ l = k)
    <3>1. l \in DOMAIN tx[q] /\ tx'[q][l] = tx[q][l]
      BY <1>2, <1>4, <2>4, Written
    <3> QED
      BY <1>2, <2>1, <3>1 DEF HeldInv
  <2> QED
    BY <2>2, <2>3, <2>4
<1>5. CASE Ends(s)
  <2>1. q # s /\ Untouched(q) /\ l \in DOMAIN tx[q]
    BY <1>2, <1>5, EmptyTx DEF Ends, Untouched
  <2>2. l \in Key /\ l \notin DOMAIN tx[s]
    BY <2>1 DEF TypeInv, TypeOK, SessionOK, Partial, SweepInv, Exclusive
  <2>3. assets'[l] = assets[l]
    BY <1>5, <2>2 DEF Ends, Commits
  <2> QED
    BY <1>2, <2>1, <2>3 DEF Untouched, HeldInv
<1> QED
  BY <1>1, <1>3, <1>4, <1>5

\* The clock moves only while every open transaction may grow older.
LEMMA TickKeepsLag ==
    ASSUME TypeInv, LagInv, Tick
    PROVE  LagInv'
<1>1. clock' = clock + 1 /\ UNCHANGED <<assets, at, req, todo, began, stamp, tx, sighted>>
      /\ clock \in Nat /\ sighted \in [Key -> 0..MaxTime]
  BY TimeAssumption DEF Tick, TypeInv, TypeOK
<1>2. \A s \in Session : began[s] \in Nat /\ stamp[s] \in Nat
  BY TimeAssumption DEF TypeInv, TypeOK
<1>3. ASSUME NEW s \in Session PROVE Clocks(s)'
  BY <1>1, <1>2, TimeAssumption DEF LagInv, Clocks, Tick
<1>4. ASSUME NEW s \in Session, NEW k \in DOMAIN tx[s] PROVE Recent(s, k)'
  <2>1. tx[s][k].last \in Nat
    BY TimeAssumption DEF TypeInv, TypeOK, SessionOK, Partial, Row
  <2> QED
    BY <1>1, <2>1 DEF LagInv, Recent
<1>5. ASSUME NEW k \in Key PROVE Lags(k)'
  BY <1>1, TimeAssumption DEF LagInv, Lags
<1> QED
  BY <1>1, <1>3, <1>4, <1>5 DEF LagInv

\* An upsert waits for its row with the stamp it took before, but not longer
\* than a transaction lives; every other write keeps the last_seen it finds.
LEMMA LagStep ==
    ASSUME TypeInv, TypeInv', SweepInv, LagInv, Effect
    PROVE  LagInv'
<1>1. PICK s \in Session : \/ MovesOn(s)
                           \/ \E k \in Key, row \in Row : Writes(s, k, row)
                           \/ Ends(s)
  BY DEF Effect
<1>2. /\ Shape /\ Shape' /\ clock \in Nat /\ MaxTxn \in Nat
      /\ assets \in [Key -> Row \cup {NoRow}]
      /\ \A q \in Session : Partial(tx[q], Key, Row)
      /\ \A q \in Session : began[q] \in Nat /\ stamp[q] \in Nat
      /\ \A k \in Key : sighted[k] \in Nat
      /\ \A row \in Row : row.last \in Nat
  <2>1. Shape /\ Shape' /\ \A q \in Session : Partial(tx[q], Key, Row)
    BY DEF TypeInv, TypeOK, SessionOK, Shape
  <2>2. \A row \in Row : row.last \in Nat
    BY TimeAssumption DEF Row
  <2> QED
    BY <2>1, <2>2, TimeAssumption DEF TypeInv, TypeOK, Shape
<1>3. CASE MovesOn(s)
  <2>1. UNCHANGED <<clock, assets, tx, sighted>>
    BY <1>3 DEF MovesOn
  <2>2. ASSUME NEW q \in Session PROVE Clocks(q)'
    <3>1. CASE q = s
      BY <1>2, <1>3, <2>1, <3>1 DEF MovesOn, LagInv, Clocks
    <3>2. CASE q # s
      BY <1>3, <2>1, <3>2 DEF MovesOn, Untouched, LagInv, Clocks
    <3> QED
      BY <3>1, <3>2
  <2>3. ASSUME NEW q \in Session, NEW k \in DOMAIN tx[q] PROVE Recent(q, k)'
    <3>1. at[q] # "idle"
      BY <2>3, NoRowsHeld
    <3>2. began'[q] = began[q]
      BY <1>3, <3>1 DEF MovesOn, Untouched
    <3> QED
      BY <2>1, <2>3, <3>2 DEF LagInv, Recent
  <2>4. \A k \in Key : Lags(k)'
    BY <2>1 DEF LagInv, Lags
  <2> QED
    BY <2>1, <2>2, <2>3, <2>4 DEF LagInv
<1>4. ASSUME NEW k \in Key, NEW row \in Row, Writes(s, k, row)
      PROVE  LagInv'
  <2>1. UNCHANGED <<clock, assets, began, stamp, sighted>>
    BY <1>4 DEF Writes
  <2>2. ASSUME NEW q \in Session PROVE Clocks(q)'
    BY <1>4, <2>1 DEF Writes, LagInv, Clocks
  <2>3. ASSUME NEW q \in Session, NEW l \in DOMAIN tx'[q] PROVE Recent(q, l)'
    <3>1. CASE q = s /\ l = k
      <4>1. tx'[q][l] = row
        BY <1>4, <3>1, Written
      <4>2. at[s] = "upsert" => began[s] <= stamp[s] /\ stamp[s] <= clock
        BY DEF LagInv, Clocks
      <4>3. assets[k] # NoRow => assets[k].last <= clock
        <5>1. assets[k] # NoRow => assets[k].last \in Nat
          BY <1>2
        <5> QED
          BY <1>2, <5>1 DEF LagInv, Lags
      <4> QED
        BY <1>4, <2>1, <3>1, <4>1, <4>2, <4>3 DEF Writes, Recent
    <3>2. CASE ~(q = s /\ l = k)
      <4>1. l \in DOMAIN tx[q] /\ tx'[q][l] = tx[q][l]
        BY <1>4, <2>3, <3>2, Written
      <4> QED
        BY <2>1, <4>1 DEF LagInv, Recent
    <3> QED
      BY <3>1, <3>2
  <2>4. \A l \in Key : Lags(l)'
    BY <2>1 DEF LagInv, Lags
  <2> QED
    BY <2>2, <2>3, <2>4 DEF LagInv
<1>5. CASE Ends(s)
  <2>1. /\ clock' = clock /\ at'[s] = "idle" /\ DOMAIN tx'[s] = {}
        /\ \A q \in Session \ {s} : Untouched(q) /\ stamp'[q] = stamp[q]
    BY <1>5, EmptyTx DEF Ends
  <2>2. ASSUME NEW q \in Session PROVE Clocks(q)'
    BY <2>1 DEF Untouched, LagInv, Clocks
  <2>3. ASSUME NEW q \in Session, NEW k \in DOMAIN tx'[q] PROVE Recent(q, k)'
    <3>1. q # s /\ Untouched(q) /\ k \in DOMAIN tx[q]
      BY <2>1, <2>3 DEF Untouched
    <3>2. k \in Key /\ k \notin DOMAIN tx[s]
      BY <1>2, <3>1 DEF Partial, SweepInv, Exclusive
    <3>3. assets'[k] = assets[k]
      BY <1>5, <3>2 DEF Ends, Commits
    <3> QED
      BY <2>1, <3>1, <3>3 DEF Untouched, LagInv, Recent
  <2>4. ASSUME NEW k \in Key PROVE Lags(k)'
    <3>1. CASE UNCHANGED <<assets, sighted>>
      BY <2>1, <3>1 DEF LagInv, Lags
    <3>2. CASE Commits(s) /\ k \notin DOMAIN tx[s]
      BY <2>1, <3>2 DEF Commits, LagInv, Lags
    <3>3. CASE Commits(s) /\ k \in DOMAIN tx[s]
      <4>1. assets'[k] = tx[s][k] /\ tx[s][k].last \in Nat
        BY <1>2, <3>3 DEF Commits, Partial
      <4>2. sighted'[k] = IF tx[s][k].last > sighted[k] THEN tx[s][k].last ELSE sighted[k]
        BY <3>3 DEF Commits
      <4>3. Recent(s, k) /\ Clocks(s) /\ Lags(k) /\ at[s] = "commit"
        BY <3>3 DEF Commits, LagInv
      <4>4. assets[k] # NoRow => assets[k].last \in Nat
        BY <1>2
      <4>5. sighted'[k] <= clock
        BY <1>2, <4>1, <4>2, <4>3 DEF Recent, Lags
      <4>6. tx[s][k].last <= sighted'[k]
        BY <1>2, <4>1, <4>2
      <4>7. sighted'[k] - MaxTxn <= tx[s][k].last
        BY <1>2, <4>1, <4>2, <4>3, <4>4 DEF Recent, Clocks, Lags
      <4> QED
        BY <2>1, <4>1, <4>5, <4>6, <4>7 DEF Lags
    <3> QED
      BY <1>5, <3>1, <3>2, <3>3 DEF Ends
  <2> QED
    BY <2>2, <2>3, <2>4 DEF LagInv
<1> QED
  BY <1>1, <1>3, <1>4, <1>5

-----------------------------------------------------------------------------
(* The theorems.                                                           *)

Safe == TypeInv /\ SweepInv /\ LagInv /\ HeldInv

LEMMA SafeInductive == Safe /\ [Next]_vars => Safe'
<1> SUFFICES ASSUME Safe, [Next]_vars PROVE Safe'
  OBVIOUS
<1>1. TypeInv /\ TypeInv' /\ SweepInv /\ LagInv /\ HeldInv
  BY StepTypes DEF Safe
<1>2. CASE Tick
  <2>1. SweepInv'
    BY <1>1, <1>2 DEF Tick, SweepInv, Exclusive, SweepOnlyUnseen, Sweeping, Unseen
  <2>2. HeldInv'
    BY <1>1, <1>2 DEF Tick, HeldInv
  <2> QED
    BY <1>1, <1>2, <2>1, <2>2, TickKeepsLag DEF Safe
<1>3. CASE \E s \in Session : (\E r \in Request : Begin(s, r)) \/ Step(s) \/ Rollback(s)
  <2>1. Effect
    BY <1>1, <1>3, Effects
  <2> QED
    BY <1>1, <2>1, SweepStep, LagStep, HeldStep DEF Safe
<1>4. CASE UNCHANGED vars
  BY <1>1, <1>4 DEF vars, Safe, SweepInv, Exclusive, SweepOnlyUnseen, Sweeping, Unseen,
     LagInv, Clocks, Recent, Lags, HeldInv
<1> QED
  BY <1>2, <1>3, <1>4 DEF Next

LEMMA AlwaysSafe == Spec => []Safe
<1>1. Init => Safe
  BY InitTypes, InitSafe DEF Safe
<1> QED
  BY <1>1, SafeInductive, PTL DEF Spec

\* Every reachable state is of the declared types: whatever is requested, no
\* session writes a malformed row or loses track of what it works on.
THEOREM TypeCorrect == Spec => []TypeOK
<1>1. Safe => TypeOK
  BY DEF Safe, TypeInv
<1> QED
  BY <1>1, AlwaysSafe, PTL

\* mark_stale's UPDATE, which finds rows first and locks them later, only ever
\* takes rows that are active and unseen, from the lock to the commit.
THEOREM SweepCorrect == Spec => []SweepOnlyUnseen
<1>1. Safe => SweepOnlyUnseen
  BY DEF Safe, SweepInv
<1> QED
  BY <1>1, AlwaysSafe, PTL

\* last_seen, stamped before the wait for the row, never goes back by more
\* than the longest transaction.
THEOREM LagBounded == Spec => []LastSeenLags
<1>1. Safe => LastSeenLags
  <2> SUFFICES ASSUME Safe, NEW k \in Key, assets[k] # NoRow
               PROVE  assets[k].last >= sighted[k] - MaxTxn
    BY DEF LastSeenLags
  <2>1. assets[k].last \in Nat /\ sighted[k] \in Nat
    BY TimeAssumption DEF Safe, TypeInv, TypeOK, Row
  <2> QED
    BY <2>1, TimeAssumption DEF Safe, LagInv, Lags
<1> QED
  BY <1>1, AlwaysSafe, PTL

\* A sweep therefore takes no asset that was seen after its cutoff plus the
\* length of a transaction.
THEOREM StaleBounded == Spec => []StaleNotTooEarly
<1>1. Safe => StaleNotTooEarly
  <2> SUFFICES ASSUME Safe, NEW s \in Session, NEW k \in Key, Sweeping(s, k)
               PROVE  sighted[k] < began[s] - Threshold + MaxTxn
    BY DEF StaleNotTooEarly
  <2>1. assets[k] # NoRow /\ assets[k].last < began[s] - Threshold
    BY DEF Safe, SweepInv, SweepOnlyUnseen, Unseen
  <2>2. assets[k].last \in Nat /\ sighted[k] \in Nat /\ began[s] \in Nat
    BY <2>1, TimeAssumption DEF Safe, TypeInv, TypeOK, Row
  <2>3. sighted[k] - MaxTxn <= assets[k].last
    BY <2>1 DEF Safe, LagInv, Lags
  <2> QED
    BY <2>1, <2>2, <2>3, TimeAssumption
<1> QED
  BY <1>1, AlwaysSafe, PTL

\* Only a commit touches the table, and it puts rows there that follow from
\* the ones it replaces.
LEMMA CommitFollows ==
    ASSUME Safe, [Next]_vars, NEW k \in Key, assets[k] # NoRow
    PROVE  \/ assets'[k] = assets[k]
           \/ \E s \in Session : /\ at[s] = "commit" /\ at'[s] = "idle"
                                 /\ k \in DOMAIN tx[s] /\ assets'[k] \in Row
                                 /\ Follows(req[s], assets[k], assets'[k])
<1>1. TypeInv /\ TypeInv' /\ HeldInv
  BY StepTypes DEF Safe
<1>2. CASE Tick \/ UNCHANGED vars
  BY <1>2 DEF Tick, vars
<1>3. CASE \E s \in Session : (\E r \in Request : Begin(s, r)) \/ Step(s) \/ Rollback(s)
  <2>1. PICK s \in Session : \/ MovesOn(s)
                             \/ \E l \in Key, row \in Row : Writes(s, l, row)
                             \/ Ends(s)
    BY <1>1, <1>3, Effects DEF Effect
  <2>2. CASE Ends(s) /\ Commits(s) /\ k \in DOMAIN tx[s]
    <3>1. at[s] = "commit" /\ at'[s] = "idle" /\ assets'[k] = tx[s][k]
      BY <2>2 DEF Ends, Commits
    <3>2. tx[s][k] \in Row
      BY <1>1, <2>2 DEF TypeInv, TypeOK, SessionOK, Partial
    <3>3. Follows(req[s], assets[k], tx[s][k])
      BY <1>1, <2>2 DEF HeldInv
    <3> QED
      BY <2>2, <3>1, <3>2, <3>3
  <2>3. CASE Ends(s) /\ ~(Commits(s) /\ k \in DOMAIN tx[s])
    BY <2>3 DEF Ends, Commits
  <2>4. CASE MovesOn(s)
    BY <2>4 DEF MovesOn
  <2>5. CASE \E l \in Key, row \in Row : Writes(s, l, row)
    BY <2>5 DEF Writes
  <2> QED
    BY <2>1, <2>2, <2>3, <2>4, <2>5
<1> QED
  BY <1>2, <1>3 DEF Next

\* Whatever raced, no import and no status change drops a tag, a metadata key,
\* the identity or the first sighting of an asset.
THEOREM NothingIsLost == Spec => NothingLost
<1>1. ASSUME Safe, [Next]_vars, NEW k \in Key, assets[k] # NoRow
      PROVE  /\ assets'[k] # NoRow
             /\ assets'[k].id = assets[k].id /\ assets'[k].first = assets[k].first
             /\ DOMAIN assets[k].meta \subseteq DOMAIN assets'[k].meta
             /\ assets[k].tags \subseteq assets'[k].tags \/ Patching({"tags"})
  <2>1. CASE assets'[k] = assets[k]
    BY <1>1, <2>1
  <2>2. ASSUME NEW s \in Session, at[s] = "commit", at'[s] = "idle",
               assets'[k] \in Row, Follows(req[s], assets[k], assets'[k])
        PROVE  /\ assets'[k] # NoRow
               /\ assets'[k].id = assets[k].id /\ assets'[k].first = assets[k].first
               /\ DOMAIN assets[k].meta \subseteq DOMAIN assets'[k].meta
               /\ assets[k].tags \subseteq assets'[k].tags \/ Patching({"tags"})
    <3>1. Names(req[s], "tags") => Patching({"tags"})
      BY <2>2 DEF Names, Patching
    <3> QED
      BY <2>2, <3>1, NoRowAssumption DEF Follows
  <2> QED
    BY <1>1, <2>1, <2>2, CommitFollows
<1>2. Safe /\ [Next]_vars =>
        [\A k \in Key : assets[k] # NoRow =>
            /\ assets'[k] # NoRow
            /\ assets'[k].id = assets[k].id /\ assets'[k].first = assets[k].first
            /\ DOMAIN assets[k].meta \subseteq DOMAIN assets'[k].meta
            /\ assets[k].tags \subseteq assets'[k].tags \/ Patching({"tags"})]_vars
  BY <1>1
<1> QED
  BY <1>2, AlwaysSafe, PTL DEF Spec, NothingLost

\* An archived asset stays archived but for an upsert as active or a PATCH
\* that names the status, whatever read it before it was archived.
THEOREM ArchivedHolds == Spec => ArchiveHolds
<1>1. ASSUME Safe, [Next]_vars, NEW k \in Key, assets[k] # NoRow,
             assets[k].status = "archived"
      PROVE  \/ assets'[k].status = "archived"
             \/ Seen(k) /\ assets'[k].status = "active"
             \/ Patching({"status"})
  <2>1. CASE assets'[k] = assets[k]
    BY <1>1, <2>1
  <2>2. ASSUME NEW s \in Session, at[s] = "commit", at'[s] = "idle", k \in DOMAIN tx[s],
               Follows(req[s], assets[k], assets'[k])
        PROVE  \/ assets'[k].status = "archived"
               \/ Seen(k) /\ assets'[k].status = "active"
               \/ Patching({"status"})
    <3>1. Names(req[s], "status") => Patching({"status"})
      BY <2>2 DEF Names, Patching
    <3>2. req[s].kind = "upsert" => Seen(k)
      BY <2>2 DEF Seen
    <3> QED
      BY <1>1, <2>2, <3>1, <3>2 DEF Follows
  <2> QED
    BY <1>1, <2>1, <2>2, CommitFollows
<1>2. Safe /\ [Next]_vars =>
        [\A k \in Key :
            assets[k] # NoRow /\ assets[k].status = "archived" =>
                \/ assets'[k].status = "archived"
                \/ Seen(k) /\ assets'[k].status = "active"
                \/ Patching({"status"})]_vars
  BY <1>1
<1> QED
  BY <1>2, AlwaysSafe, PTL DEF Spec, ArchiveHolds
=============================================================================
