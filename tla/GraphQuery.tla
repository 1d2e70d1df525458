----------------------------- MODULE GraphQuery -----------------------------
(***************************************************************************)
(* GraphService: the breadth-first subgraph around an asset, and the whole *)
(* graph of an organization, read while other requests write.              *)
(*                                                                         *)
(* The reader is one session at READ COMMITTED, so each SELECT sees what   *)
(* has been committed by then; between two SELECTs assets may appear and   *)
(* relationships may appear and go.  Assets are never deleted: DELETE only *)
(* archives them, and the graph shows archived assets too.                 *)
(***************************************************************************)
EXTENDS Integers, Sequences, FiniteSets

CONSTANTS
    Asset,      \* ids of assets, existing or not
    Nobody,     \* stands for no id
    Link,       \* relationships clients may create: [source, target, type]
    Depths      \* values of the query parameter depth

MinDepth == 1
MaxDepth == 5

ASSUME LinkAssumption ==
    /\ IsFiniteSet(Link)
    /\ \A l \in Link : l.source \in Asset /\ l.target \in Asset
ASSUME NobodyAssumption == Nobody \notin Asset
ASSUME DepthsAssumption == Depths \subseteq MinDepth..MaxDepth

VARIABLES
    assets,     \* committed assets
    rels,       \* committed relationships
    pc,         \* where the reader is
    root,       \* root_id of its request
    depth,      \* depth of its request, 0 for the whole graph
    visited,    \* visited_ids
    queue,      \* queue of <<id, depth>>
    current,    \* the pair being expanded
    nodes,      \* nodes of the response
    edges,      \* edges of the response
    known,      \* history: assets when the request arrived
    stable,     \* history: relationships there since it arrived
    ever        \* history: relationships there at some time since it arrived

tables  == <<assets, rels>>
locals  == <<root, depth, visited, queue, current, nodes, edges>>
history == <<known, stable, ever>>
vars    == <<tables, pc, locals, history>>

Init ==
    /\ assets = {} /\ rels = {}
    /\ pc = "idle"
    /\ root = Nobody /\ depth = 0
    /\ visited = {} /\ queue = << >> /\ current = <<Nobody, 0>>
    /\ nodes = {} /\ edges = {}
    /\ known = {} /\ stable = {} /\ ever = {}

-----------------------------------------------------------------------------
(* Writers.                                                                *)

\* A request or an import that inserts an asset commits.
AddAsset(a) ==
    /\ assets' = assets \cup {a}
    /\ UNCHANGED <<rels, pc, locals, history>>

\* create_relationship finds both assets and inserts the row; imports insert
\* between rows of their own.  A second row with the same ends and type is
\* refused by the unique constraint.
CreateRelationship(l) ==
    /\ {l.source, l.target} \subseteq assets
    /\ l \notin rels
    /\ rels' = rels \cup {l}
    /\ ever' = IF pc = "idle" THEN {} ELSE ever \cup {l}
    /\ UNCHANGED <<assets, pc, locals, known, stable>>

DeleteRelationship(l) ==
    /\ l \in rels
    /\ rels' = rels \ {l}
    /\ stable' = stable \ {l}
    /\ UNCHANGED <<assets, pc, locals, known, ever>>

-----------------------------------------------------------------------------
(* get_graph.                                                              *)

Clamp(d) == IF d < MinDepth THEN MinDepth ELSE IF d > MaxDepth THEN MaxDepth ELSE d

Remember ==
    /\ known' = assets
    /\ stable' = rels
    /\ ever' = rels

Begin(a, d) ==
    /\ pc = "idle"
    /\ pc' = "visit"
    /\ root' = a /\ depth' = Clamp(d)
    /\ queue' = << <<a, 0>> >>
    /\ Remember
    /\ UNCHANGED <<tables, visited, current, nodes, edges>>

\* Mutation of Skip: the queue is looked at, not popped.
SkipWithoutPop ==
    /\ pc = "visit" /\ queue # << >>
    /\ Head(queue)[1] \in visited
    /\ UNCHANGED vars

\* The rest of an id in the queue that has been visited: continue.
Skip ==
    /\ pc = "visit" /\ queue # << >>
    /\ Head(queue)[1] \in visited
    /\ queue' = Tail(queue)
    /\ UNCHANGED <<tables, pc, root, depth, visited, current, nodes, edges, history>>

\* Mutation of Visit: one hop too many is expanded.
VisitOneTooFar ==
    LET id == Head(queue)[1]
    IN /\ pc = "visit" /\ queue # << >>
       /\ id \notin visited
       /\ queue' = Tail(queue)
       /\ visited' = visited \cup {id}
       /\ nodes' = nodes \cup ({id} \cap assets)
       /\ IF id \in assets /\ Head(queue)[2] <= depth
          THEN pc' = "expand" /\ current' = Head(queue)
          ELSE UNCHANGED <<pc, current>>
       /\ UNCHANGED <<tables, root, depth, edges, history>>

\* SELECT the asset; at the last hop its relationships are not read.
Visit ==
    LET id == Head(queue)[1]
    IN /\ pc = "visit" /\ queue # << >>
       /\ id \notin visited
       /\ queue' = Tail(queue)
       /\ visited' = visited \cup {id}
       /\ nodes' = nodes \cup ({id} \cap assets)
       /\ IF id \in assets /\ Head(queue)[2] < depth
          THEN pc' = "expand" /\ current' = Head(queue)
          ELSE UNCHANGED <<pc, current>>
       /\ UNCHANGED <<tables, root, depth, edges, history>>

Incident(E, a) == {l \in E : a \in {l.source, l.target}}

\* Mutation of Neighbor: edges are followed in their direction only.
NeighborAhead(l, a) == l.target

Neighbor(l, a) == IF l.source = a THEN l.target ELSE l.source

\* The rows of a result in any order: the SELECT has no ORDER BY.
Orders(S) == {rows \in [1..Cardinality(S) -> S] : \A l \in S : \E i \in DOMAIN rows : rows[i] = l}

\* Mutation of Expand: neighbors at the last hop are left out.
ExpandShort ==
    LET id   == current[1]
        next == {l \in Incident(rels, id) : /\ Neighbor(l, id) \notin visited
                                            /\ current[2] + 1 < depth}
    IN /\ pc = "expand"
       /\ edges' = edges \cup Incident(rels, id)
       /\ \E rows \in Orders(next) :
             queue' = queue \o [i \in DOMAIN rows |-> <<Neighbor(rows[i], id), current[2] + 1>>]
       /\ pc' = "visit"
       /\ current' = <<Nobody, 0>>
       /\ UNCHANGED <<tables, root, depth, visited, nodes, history>>

\* SELECT the relationships at either end of the asset and queue the
\* neighbors not visited yet, some of them perhaps twice.
Expand ==
    LET id   == current[1]
        next == {l \in Incident(rels, id) : Neighbor(l, id) \notin visited}
    IN /\ pc = "expand"
       /\ edges' = edges \cup Incident(rels, id)
       /\ \E rows \in Orders(next) :
             queue' = queue \o [i \in DOMAIN rows |-> <<Neighbor(rows[i], id), current[2] + 1>>]
       /\ pc' = "visit"
       /\ current' = <<Nobody, 0>>
       /\ UNCHANGED <<tables, root, depth, visited, nodes, history>>

Return ==
    /\ pc = "visit" /\ queue = << >>
    /\ pc' = "done"
    /\ UNCHANGED <<tables, locals, history>>

-----------------------------------------------------------------------------
(* get_all_graph_data: two SELECTs.                                        *)

\* Mutation of ReadAssets: joined with the relationships.
ReadAssetsJoined ==
    /\ pc = "idle"
    /\ pc' = "export"
    /\ nodes' = {a \in assets : Incident(rels, a) # {}}
    /\ Remember
    /\ UNCHANGED <<tables, root, depth, visited, queue, current, edges>>

ReadAssets ==
    /\ pc = "idle"
    /\ pc' = "export"
    /\ nodes' = assets
    /\ Remember
    /\ UNCHANGED <<tables, root, depth, visited, queue, current, edges>>

ReadRels ==
    /\ pc = "export"
    /\ edges' = rels
    /\ pc' = "done"
    /\ UNCHANGED <<tables, root, depth, visited, queue, current, nodes, history>>

\* The response is on its way; the next request may come.
Respond ==
    /\ pc = "done"
    /\ pc' = "idle"
    /\ root' = Nobody /\ depth' = 0
    /\ visited' = {} /\ nodes' = {} /\ edges' = {}
    /\ known' = {} /\ stable' = {} /\ ever' = {}
    /\ UNCHANGED <<tables, queue, current>>

-----------------------------------------------------------------------------
Read == Skip \/ Visit \/ Expand \/ Return \/ ReadRels

Next ==
    \/ \E a \in Asset \ assets : AddAsset(a)
    \/ \E l \in Link : CreateRelationship(l) \/ DeleteRelationship(l)
    \/ \E a \in Asset, d \in Depths : Begin(a, d)
    \/ ReadAssets \/ Read \/ Respond

Spec == Init /\ [][Next]_vars

\* The reader's session goes on while others write.
FairSpec == Spec /\ WF_vars(Read)

-----------------------------------------------------------------------------
(* Properties.                                                             *)

\* Type invariant of the tables and of the reader's locals; nothing is queued
\* deeper than the request asks for.
TypeOK ==
    /\ assets \in SUBSET Asset /\ rels \in SUBSET Link
    /\ pc \in {"idle", "visit", "expand", "export", "done"}
    /\ root \in Asset \cup {Nobody} /\ depth \in {0} \cup MinDepth..MaxDepth
    /\ visited \in SUBSET Asset
    /\ queue \in Seq(Asset \X (0..depth))
    /\ current \in (Asset \cup {Nobody}) \X (0..depth)
    /\ pc = "expand" => current[1] \in Asset /\ current[2] < depth
    /\ nodes \in SUBSET Asset /\ edges \in SUBSET Link
    /\ known \in SUBSET Asset /\ stable \in SUBSET Link /\ ever \in SUBSET Link

Ends(l) == {l.source, l.target}
Answered == pc = "done" /\ depth > 0
Exported == pc = "done" /\ depth = 0

\* A subgraph has a node for both ends of every edge, whatever is inserted
\* between the SELECTs of one request: an edge is only read where the search
\* still goes on to its other end.
NoDanglingEdge == Answered => \A l \in edges : Ends(l) \subseteq nodes

\* The ids at most n hops from a along the relationships in E.
Ball(E, a, n) ==
    LET ball[i \in 0..n] ==
            IF i = 0 THEN {a}
            ELSE ball[i - 1] \cup UNION {Ends(l) : l \in {e \in E : Ends(e) \cap ball[i - 1] # {}}}
    IN ball[n]

\* Nothing within reach is missed: an asset that relationships which were
\* there all the time connect to the root in depth hops is a node, and such a
\* relationship next to a node less than depth hops away is an edge.
ReachFound ==
    Answered /\ root \in known =>
        /\ Ball(stable, root, depth) \subseteq nodes
        /\ \A l \in stable : Ends(l) \cap Ball(stable, root, depth - 1) # {} => l \in edges

\* Nothing is invented or out of reach: every node is within depth hops and
\* every edge starts within depth - 1 hops, along relationships that existed
\* at some time during the request.
NothingOutOfReach ==
    Answered =>
        /\ nodes \subseteq Ball(ever, root, depth)
        /\ \A l \in edges : l \in ever /\ Ends(l) \cap Ball(ever, root, depth - 1) # {}

\* The whole graph is read in two SELECTs: an edge can lack a node only if
\* that asset came after the first of them, and nothing that stays is missed.
ExportDanglesOnlyToNew ==
    Exported =>
        /\ known \subseteq nodes /\ stable \subseteq edges
        /\ \A l \in edges : Ends(l) \subseteq nodes \/ l \in ever \ stable

\* A request ends although others keep writing: an asset is expanded once.
RequestEnds == (pc \in {"visit", "expand", "export"}) ~> (pc = "done")
=============================================================================
