----------------------------- MODULE AssetMerge -----------------------------
(***************************************************************************)
(* The row that one upsert leaves in the assets table: the INSERT ... ON   *)
(* CONFLICT (org_id, type, value) DO UPDATE of AssetRepository.upsert.     *)
(* An asset is found by its natural key (type and sanitized value, inside  *)
(* one organization); its id is the uuid4 drawn by the statement that      *)
(* first inserted it.  Metadata is a function from the keys it has to      *)
(* their values; tags are a set.                                           *)
(***************************************************************************)

CONSTANTS
    NoRow,      \* stands for "no row under this key"
    Tag,        \* tags
    MetaKey,    \* keys of metadata documents
    MetaValue   \* their values

AssetStatus == {"active", "stale", "archived"}
Metadata == UNION {[M -> MetaValue] : M \in SUBSET MetaKey}

\* f is a function from some of the elements of S to elements of T.
Partial(f, S, T) == DOMAIN f \subseteq S /\ f \in [DOMAIN f -> T]

\* A function that agrees with new where new is defined and with old
\* elsewhere: jsonb's old || new, and Redis' HSET of a hash.
Overlay(old, new) ==
    [f \in DOMAIN old \cup DOMAIN new |->
        IF f \in DOMAIN new THEN new[f] ELSE old[f]]

\* One more entry in a transaction's rows.
Put(f, k, row) == Overlay(f, [q \in {k} |-> row])

Inserted(id, rec) ==
    [id |-> id, status |-> rec.status, tags |-> rec.tags, meta |-> rec.meta]

\* Mutation of Merged: status = excluded.status, without the CASE.
MergedTakingStatus(row, rec) ==
    [row EXCEPT !.status = rec.status,
                !.tags   = @ \cup rec.tags,
                !.meta   = Overlay(@, rec.meta)]

\* The conflict clause: it can reactivate a row but sets no other status;
\* id, first_seen and source stay those of the first insert.
Merged(row, rec) ==
    [row EXCEPT !.status = IF rec.status = "active" THEN "active" ELSE @,
                !.tags   = @ \cup rec.tags,
                !.meta   = Overlay(@, rec.meta)]

\* Mutation of Upserted: the fresh id goes into the SET list as well.
UpsertedWithNewId(row, id, rec) ==
    IF row = NoRow THEN Inserted(id, rec) ELSE [Merged(row, rec) EXCEPT !.id = id]

Upserted(row, id, rec) ==
    IF row = NoRow THEN Inserted(id, rec) ELSE Merged(row, rec)
=============================================================================
