---------------------------- MODULE MCAssetStore ----------------------------
(***************************************************************************)
(* Requests for the runs of AssetStore.                                    *)
(***************************************************************************)
EXTENDS AssetStore, TLC

CONSTANTS s1, s2, k1, k2, t, m, v

Rec(k, status, tags) ==
    [key |-> k, status |-> status, tags |-> tags, meta |-> [q \in {m} |-> v]]

\* Every kind of request on one asset, and a chunk that takes another one
\* first.
Requests == {
    [kind |-> "upsert", recs |-> <<Rec(k1, "stale", {t})>>],
    [kind |-> "upsert", recs |-> <<Rec(k2, "active", {}), Rec(k1, "active", {})>>],
    [kind |-> "patch", key |-> k1, set |-> [status |-> "active", tags |-> {}]],
    [kind |-> "archive", key |-> k1],
    [kind |-> "sweep"] }

SessionSymmetry == Permutations({s1, s2})
=============================================================================
