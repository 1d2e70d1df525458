-------------------------- MODULE MCRelationships --------------------------
(***************************************************************************)
(* Two organizations, an edge and its reverse that two imports insert in   *)
(* opposite orders, and an edge into the other organization.               *)
(***************************************************************************)
EXTENDS Relationships, TLC

CONSTANTS a, b, c, o1, o2, s1, s2, w1, w2

Assets == {a, b, c}
Owners == [x \in Assets |-> IF x = c THEN o2 ELSE o1]
Ana == [org |-> o1, role |-> "admin"]
Edge(x, y) == [source |-> x, target |-> y, type |-> "resolves_to"]
Keys == {Edge(a, b), Edge(b, a), Edge(a, c)}
Orders == [w \in {w1, w2} |-> IF w = w1 THEN <<Edge(a, b), Edge(b, a)>>
                                        ELSE <<Edge(b, a), Edge(a, b)>>]
Users == {Ana, [org |-> o2, role |-> "analyst"]}

Symmetry == Permutations({s1, s2})
=============================================================================
