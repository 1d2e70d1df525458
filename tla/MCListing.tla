----------------------------- MODULE MCListing -----------------------------
(***************************************************************************)
(* Listing over three assets of two types, two of which have expired.      *)
(***************************************************************************)
EXTENDS Listing, TLC

CONSTANTS a1, a2, a3, t1, t2

ThreeAssets == {a1, a2, a3}
TwoTypes == {t1, t2}
TypesOfAssets == [a \in ThreeAssets |-> IF a = a3 THEN t2 ELSE t1]
FiltersUsed == {Everything, "active"}
ExpiredAssets == {a1, a2}
BothOrders == {"asc", "desc"}

Symmetry == Permutations({a1, a2})
=============================================================================
