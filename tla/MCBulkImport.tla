---------------------------- MODULE MCBulkImport ----------------------------
(***************************************************************************)
(* Small batches for the runs of BulkImport.                               *)
(***************************************************************************)
EXTENDS BulkImport, TLC

CONSTANTS A, B,             \* jobs
          k1, k2, k3,       \* natural keys
          d1, s1, x1,       \* temporary ids
          t1, t2,           \* tags
          m, v1, v2         \* a metadata key and two values

Plain(k, id, tags, meta) ==
    [kind |-> "good", key |-> k, id |-> id, parent |-> NoId, covers |-> NoId,
     status |-> "active", tags |-> tags, meta |-> meta]
Meta(v) == [q \in {m} |-> v]
NoMeta == [q \in {} |-> v1]

\* Two imports that lock k1 and k2 in opposite orders.  A names a row before it
\* is there and gives one id to two rows, so that as the victim of a deadlock
\* it is left with an id whose row is gone; B hints into nowhere and has a
\* record that validation refuses.
CrossedA == <<
    [Plain(k1, s1, {t1}, Meta(v1)) EXCEPT !.parent = x1, !.status = "stale"],
    Plain(k2, s1, {t1}, NoMeta),
    [Plain(k1, x1, {t2}, Meta(v2)) EXCEPT !.status = "other"] >>
CrossedB == <<
    [Plain(k2, d1, {t2}, Meta(v2)) EXCEPT !.status = "archived", !.parent = x1],
    [Plain(k1, s1, {}, NoMeta) EXCEPT !.covers = d1, !.status = "stale"],
    [Plain(k1, NoId, {t1}, NoMeta) EXCEPT !.kind = "invalid"] >>
Crossed == A :> CrossedA @@ B :> CrossedB

\* One import of two chunks: the first names its rows, in the second the
\* server refuses a record.
Refused == A :> <<
    [Plain(k1, s1, {t1}, Meta(v1)) EXCEPT !.parent = d1],
    [Plain(k2, d1, {t1}, Meta(v2)) EXCEPT !.status = "other"],
    Plain(k3, NoId, {t2}, NoMeta),
    [Plain(k2, NoId, {t1}, NoMeta) EXCEPT !.kind = "poison"] >>

\* A single good record.
Single == A :> << Plain(k1, s1, {t1}, NoMeta) >>
=============================================================================
