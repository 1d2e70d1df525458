----------------------------- MODULE ChunkStore -----------------------------
(***************************************************************************)
(* What the asset table promises to imports: every chunk is merged into it *)
(* in one step and at most once per delivery of its message, each chunk as *)
(* if the records of the batch had been upserted one after another with    *)
(* nobody else at work.  A chunk with a record the server refuses is never *)
(* merged at all.                                                          *)
(***************************************************************************)
EXTENDS Integers, Sequences, AssetMerge

CONSTANTS Exec,         \* executions that may apply chunks
          Key,          \* natural keys
          ChunkSize,    \* records per chunk
          Batch         \* Batch[e]: the normalized records e works through

VARIABLES assets,       \* assets[k]: the row under key k, or NoRow
          applied       \* the pairs <<e, i>> merged so far: record i of e

Init ==
    /\ assets = [k \in Key |-> NoRow]
    /\ applied = {}

\* The row under key k once the good records first..last of e are upserted.
RowAfter(e, k, first, last) ==
    LET row[i \in (first - 1)..last] ==
            IF i = first - 1 THEN assets[k]
            ELSE IF Batch[e][i].kind = "good" /\ Batch[e][i].key = k
                 THEN Upserted(row[i - 1], <<e, i>>, Batch[e][i])
                 ELSE row[i - 1]
    IN row[last]

ChunkLast(e, first) ==
    IF first + ChunkSize - 1 < Len(Batch[e]) THEN first + ChunkSize - 1
    ELSE Len(Batch[e])

ApplyChunk(e, first) ==
    LET chunk == first..ChunkLast(e, first)
    IN /\ \A i \in chunk : Batch[e][i].kind # "poison"
       /\ \A i \in first..Len(Batch[e]) : <<e, i>> \notin applied
       /\ assets' = [k \in Key |-> RowAfter(e, k, first, ChunkLast(e, first))]
       /\ applied' = applied \cup ({e} \X chunk)

Next ==
    \E e \in Exec : \E first \in DOMAIN Batch[e] :
        /\ first % ChunkSize = 1 % ChunkSize
        /\ ApplyChunk(e, first)

Spec == Init /\ [][Next]_<<assets, applied>>
=============================================================================
