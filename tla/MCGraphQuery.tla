---------------------------- MODULE MCGraphQuery ----------------------------
(***************************************************************************)
(* A small graph for the run of GraphQuery: a triangle, two relationships  *)
(* between one pair, and one of an asset with itself.                      *)
(***************************************************************************)
EXTENDS GraphQuery

CONSTANTS a1, a2, a3

Rel(s, t, type) == [source |-> s, target |-> t, type |-> type]
Links == { Rel(a1, a2, "resolves_to"), Rel(a2, a1, "covered_by"),
           Rel(a2, a3, "subdomain_of"), Rel(a3, a1, "runs_on"),
           Rel(a2, a2, "belongs_to") }
=============================================================================
