-------------------------- MODULE GraphQueryProofs --------------------------
(***************************************************************************)
(* Theorems of GraphQuery, for any assets, relationships, depths and       *)
(* writers: its types; an edge of a subgraph has both of its nodes; the    *)
(* subgraph is what lies within reach, no less and no more; and the export *)
(* of the whole graph can lack only what came while it was read.           *)
(***************************************************************************)
EXTENDS GraphQuery, FiniteSetTheorems, TLAPS

\* The ids in the queue.
Queued == {queue[i][1] : i \in 1..Len(queue)}

\* What the queue holds.
Waiting == Asset \X (0..depth)

\* The tables: the foreign keys hold.
ForeignKeys == \A l \in rels : Ends(l) \subseteq assets

\* What was queued after the root exists, what was visited is a node, and
\* both ends of an edge are nodes or still to be visited.  A root that does
\* not exist ends the search at once.
Search ==
    /\ visited # {} => Queued \subseteq assets
    /\ visited \subseteq nodes \/ (nodes = {} /\ queue = << >>)
    /\ \A l \in edges : Ends(l) \subseteq nodes \cup Queued

Places ==
    /\ pc = "idle" => /\ depth = 0 /\ visited = {} /\ nodes = {} /\ edges = {}
    /\ pc # "expand" => current = <<Nobody, 0>>
    /\ pc \in {"idle", "export", "done"} => queue = << >>
    /\ pc = "export" => depth = 0
    /\ pc = "visit" => depth > 0
    /\ pc = "visit" /\ visited = {} => Len(queue) = 1 /\ nodes = {} /\ edges = {}
    /\ pc = "expand" => depth > 0 /\ current[1] \in visited \cap nodes

GraphInv ==
    /\ TypeOK /\ ForeignKeys /\ Places
    /\ depth > 0 => Search

-----------------------------------------------------------------------------
(* Queues.                                                                 *)

LEMMA Popped ==
    ASSUME NEW S, NEW q \in Seq(S), q # << >>
    PROVE  /\ Head(q) \in S /\ Tail(q) \in Seq(S)
           /\ \A i \in 1..Len(q) : q[i] = Head(q) \/ \E j \in 1..Len(Tail(q)) : Tail(q)[j] = q[i]
           /\ \A j \in 1..Len(Tail(q)) : \E i \in 1..Len(q) : Tail(q)[j] = q[i]
<1>1. Head(q) \in S /\ Tail(q) \in Seq(S) /\ Head(q) = q[1]
      /\ Len(Tail(q)) = Len(q) - 1 /\ Len(q) \in Nat
      /\ \A j \in 1..Len(Tail(q)) : Tail(q)[j] = q[j + 1]
  OBVIOUS
<1>2. ASSUME NEW i \in 1..Len(q)
      PROVE  q[i] = Head(q) \/ \E j \in 1..Len(Tail(q)) : Tail(q)[j] = q[i]
  <2>1. CASE i = 1
    BY <1>1, <2>1
  <2>2. CASE i > 1
    <3>1. i - 1 \in 1..Len(Tail(q)) /\ Tail(q)[i - 1] = q[i]
      BY <1>1, <2>2
    <3> QED
      BY <3>1
  <2> QED
    BY <2>1, <2>2
<1>3. ASSUME NEW j \in 1..Len(Tail(q)) PROVE \E i \in 1..Len(q) : Tail(q)[j] = q[i]
  <2>1. j + 1 \in 1..Len(q)
    BY <1>1
  <2> QED
    BY <1>1, <2>1
<1> QED
  BY <1>1, <1>2, <1>3

-----------------------------------------------------------------------------
(* Each step.                                                              *)

\* The writers leave the reader's locals alone.
LEMMA WriterStep ==
    ASSUME GraphInv,
           \/ \E a \in Asset : AddAsset(a)
           \/ \E l \in Link : CreateRelationship(l) \/ DeleteRelationship(l)
    PROVE  GraphInv'
<1>1. /\ UNCHANGED <<pc, locals>>
      /\ assets \subseteq assets' /\ assets' \in SUBSET Asset
      /\ rels' \in SUBSET Link /\ \A l \in rels' : Ends(l) \subseteq assets'
      /\ known' \in SUBSET Asset /\ stable' \in SUBSET Link /\ ever' \in SUBSET Link
  <2>1. CASE \E a \in Asset : AddAsset(a)
    BY <2>1 DEF AddAsset, GraphInv, TypeOK, ForeignKeys, history, locals
  <2>2. CASE \E l \in Link : CreateRelationship(l)
    BY <2>2 DEF CreateRelationship, GraphInv, TypeOK, ForeignKeys, Ends, locals
  <2>3. CASE \E l \in Link : DeleteRelationship(l)
    BY <2>3 DEF DeleteRelationship, GraphInv, TypeOK, ForeignKeys, locals
  <2> QED
    BY <2>1, <2>2, <2>3
<1>2. TypeOK' /\ ForeignKeys' /\ Places'
  BY <1>1 DEF GraphInv, TypeOK, ForeignKeys, Places, Answered, locals
<1>3. Queued' = Queued
  BY <1>1 DEF Queued, locals
<1>4. (depth > 0 => Search)'
  BY <1>1, <1>3 DEF GraphInv, Search, locals
<1> QED
  BY <1>2, <1>4 DEF GraphInv

LEMMA BeginStep ==
    ASSUME GraphInv, NEW a \in Asset, NEW d \in Depths, Begin(a, d)
    PROVE  GraphInv'
<1>1. /\ pc = "idle" /\ pc' = "visit" /\ root' = a /\ depth' = Clamp(d)
      /\ queue' = << <<a, 0>> >> /\ known' = assets /\ stable' = rels /\ ever' = rels
      /\ UNCHANGED <<assets, rels, visited, current, nodes, edges>>
  BY DEF Begin, Remember, tables
<1>2. Clamp(d) \in MinDepth..MaxDepth /\ Clamp(d) > 0
  BY DepthsAssumption DEF Clamp, MinDepth, MaxDepth
<1>3. visited = {} /\ nodes = {} /\ edges = {}
  BY <1>1 DEF GraphInv, Places
<1>4. queue' \in Seq(Asset \X (0..depth'))
  BY <1>1, <1>2 DEF MinDepth, MaxDepth
<1>5. current' \in (Asset \cup {Nobody}) \X (0..depth')
  <2>1. current \in (Asset \cup {Nobody}) \X (0..depth) /\ depth = 0
    BY <1>1 DEF GraphInv, TypeOK, Places
  <2> QED
    BY <1>1, <1>2, <2>1 DEF MinDepth, MaxDepth
<1>6. TypeOK' /\ ForeignKeys' /\ Places'
  BY <1>1, <1>2, <1>3, <1>4, <1>5 DEF GraphInv, TypeOK, ForeignKeys, Places, Answered
<1>7. Search'
  BY <1>1, <1>3 DEF Search
<1> QED
  BY <1>6, <1>7 DEF GraphInv

\* What popping does to the ids that wait.
LEMMA PopQueued ==
    ASSUME TypeOK, queue # << >>, queue' = Tail(queue)
    PROVE  /\ Head(queue) \in Asset \X (0..depth) /\ queue' \in Seq(Asset \X (0..depth))
           /\ Queued = Queued' \cup {Head(queue)[1]}
<1>1. queue \in Seq(Asset \X (0..depth))
  BY DEF TypeOK
<1>2. /\ Head(queue) \in Asset \X (0..depth) /\ Tail(queue) \in Seq(Asset \X (0..depth))
      /\ \A i \in 1..Len(queue) : queue[i] = Head(queue)
            \/ \E j \in 1..Len(Tail(queue)) : Tail(queue)[j] = queue[i]
      /\ \A j \in 1..Len(Tail(queue)) : \E i \in 1..Len(queue) : Tail(queue)[j] = queue[i]
  BY <1>1, Popped
<1>3. Head(queue) = queue[1] /\ 1 \in 1..Len(queue)
  BY <1>1
<1>4. Queued \subseteq Queued' \cup {Head(queue)[1]}
  <2>1. SUFFICES ASSUME NEW i \in 1..Len(queue)
                 PROVE  queue[i][1] \in Queued' \cup {Head(queue)[1]}
    BY DEF Queued
  <2>2. CASE queue[i] = Head(queue)
    BY <2>2
  <2>3. CASE \E j \in 1..Len(queue') : queue'[j] = queue[i]
    BY <2>3 DEF Queued
  <2> QED
    BY <1>2, <2>2, <2>3
<1>5. Queued' \subseteq Queued
  <2>1. SUFFICES ASSUME NEW j \in 1..Len(queue') PROVE queue'[j][1] \in Queued
    BY DEF Queued
  <2>2. PICK i \in 1..Len(queue) : queue'[j] = queue[i]
    BY <1>2
  <2> QED
    BY <2>2 DEF Queued
<1>6. Head(queue)[1] \in Queued
  BY <1>3 DEF Queued
<1> QED
  BY <1>2, <1>4, <1>5, <1>6

LEMMA SkipStep == ASSUME GraphInv, Skip PROVE GraphInv'
<1>1. /\ pc = "visit" /\ queue # << >> /\ Head(queue)[1] \in visited /\ queue' = Tail(queue)
      /\ UNCHANGED <<assets, rels, pc, root, depth, visited, current, nodes, edges, known,
                     stable, ever>>
  BY DEF Skip, tables, history
<1>2. TypeOK /\ ForeignKeys /\ Places /\ Search /\ depth > 0
  BY <1>1 DEF GraphInv, Places
<1>3. queue' \in Seq(Asset \X (0..depth)) /\ Queued = Queued' \cup {Head(queue)[1]}
  BY <1>1, <1>2, PopQueued
<1>4. TypeOK' /\ ForeignKeys' /\ Places'
  BY <1>1, <1>2, <1>3 DEF TypeOK, ForeignKeys, Places, Answered
<1>5. Head(queue)[1] \in nodes
  BY <1>1, <1>2 DEF Search
<1>6. Search'
  BY <1>1, <1>2, <1>3, <1>5 DEF Search
<1> QED
  BY <1>4, <1>6 DEF GraphInv

LEMMA VisitStep == ASSUME GraphInv, Visit PROVE GraphInv'
<1> DEFINE id == Head(queue)[1]
<1>1. /\ pc = "visit" /\ queue # << >> /\ id \notin visited /\ queue' = Tail(queue)
      /\ visited' = visited \cup {id} /\ nodes' = nodes \cup ({id} \cap assets)
      /\ \/ id \in assets /\ Head(queue)[2] < depth /\ pc' = "expand"
            /\ current' = Head(queue)
         \/ UNCHANGED <<pc, current>>
      /\ UNCHANGED <<assets, rels, root, depth, edges, known, stable, ever>>
  BY DEF Visit, tables, history
<1>2. TypeOK /\ ForeignKeys /\ Places /\ Search /\ depth > 0
  BY <1>1 DEF GraphInv, Places
<1>3. /\ Head(queue) \in Asset \X (0..depth) /\ queue' \in Seq(Asset \X (0..depth))
      /\ Queued = Queued' \cup {id}
  BY <1>1, <1>2, PopQueued
<1>4. TypeOK'
  BY <1>1, <1>2, <1>3 DEF TypeOK
<1>5. ForeignKeys' /\ Places'
  BY <1>1, <1>2 DEF ForeignKeys, Places, Answered
<1>6. visited = {} => Queued' = {} /\ queue' = << >> /\ nodes = {} /\ edges = {}
  <2>1. SUFFICES ASSUME visited = {}
                 PROVE  Queued' = {} /\ queue' = << >> /\ nodes = {} /\ edges = {}
    OBVIOUS
  <2>2. Len(queue) = 1 /\ nodes = {} /\ edges = {}
    BY <1>1, <1>2, <2>1 DEF Places
  <2>3. Len(queue') = 0 /\ queue' = << >>
    BY <1>1, <1>2, <2>2 DEF TypeOK
  <2>4. 1..Len(queue') = {}
    BY <2>3
  <2> QED
    BY <2>2, <2>3, <2>4 DEF Queued
<1>7. CASE id \in assets
  <2>1. visited' \subseteq nodes'
    BY <1>1, <1>2, <1>6, <1>7 DEF Search
  <2>2. Queued' \subseteq assets'
    BY <1>1, <1>2, <1>3, <1>6 DEF Search
  <2>3. \A l \in edges' : Ends(l) \subseteq nodes' \cup Queued'
    BY <1>1, <1>2, <1>3, <1>7 DEF Search
  <2> QED
    BY <1>4, <1>5, <2>1, <2>2, <2>3 DEF GraphInv, Search
<1>8. CASE id \notin assets
  <2>1. visited = {}
    BY <1>2, <1>3, <1>8 DEF Search
  <2> QED
    BY <1>1, <1>4, <1>5, <1>6, <1>8, <2>1 DEF GraphInv, Search
<1> QED
  BY <1>7, <1>8

\* The relationships Expand follows, and what it queues for each.
More == {l \in Incident(rels, current[1]) : Neighbor(l, current[1]) \notin visited}
Further(l) == <<Neighbor(l, current[1]), current[2] + 1>>

\* The queue grows at its end, by the neighbors not visited.
LEMMA ExpandQueue ==
    ASSUME GraphInv, Expand
    PROVE  /\ queue' \in Seq(Waiting)
           /\ Len(queue) \in Nat /\ Len(queue') \in Nat /\ Len(queue') >= Len(queue)
           /\ \A i \in 1..Len(queue) : queue'[i] = queue[i]
           /\ \A i \in 1..Len(queue') : i > Len(queue) => \E l \in More : queue'[i] = Further(l)
           /\ \A l \in More : \E i \in 1..Len(queue') : queue'[i] = Further(l)
<1>1. PICK rows \in Orders(More) : queue' = queue \o [i \in DOMAIN rows |-> Further(rows[i])]
  BY DEF Expand, More, Further
<1>2. TypeOK /\ pc = "expand"
  BY DEF GraphInv, Expand
<1>3. More \subseteq Link /\ Cardinality(More) \in Nat
  <2>1. More \subseteq Link
    BY <1>2 DEF TypeOK, Incident, More
  <2> QED
    BY <2>1, LinkAssumption, FS_Subset, FS_CardinalityType
<1>4. \A l \in More : Further(l) \in Waiting
  <2>1. depth \in Nat
    BY <1>2 DEF TypeOK, MinDepth, MaxDepth
  <2>2. current[2] + 1 \in 0..depth
    BY <1>2, <2>1 DEF TypeOK
  <2>3. \A l \in More : Neighbor(l, current[1]) \in Asset
    BY <1>3, LinkAssumption DEF Neighbor
  <2> QED
    BY <2>2, <2>3 DEF Waiting, Further
<1> DEFINE n == Cardinality(More)
<1>5. /\ n \in Nat /\ rows \in [1..n -> More] /\ DOMAIN rows = 1..n
      /\ \A l \in More : \E i \in 1..n : rows[i] = l
  BY <1>1, <1>3 DEF Orders
<1> DEFINE w == [i \in 1..n |-> Further(rows[i])]
<1> HIDE DEF n
<1>6. w \in [1..n -> Waiting]
  BY <1>4, <1>5
<1>7. w \in Seq(Waiting) /\ Len(w) = n /\ \A i \in 1..n : w[i] = Further(rows[i])
  BY <1>5, <1>6
<1>8. queue \in Seq(Waiting) /\ queue' = queue \o w
  BY <1>1, <1>2, <1>5 DEF TypeOK, Waiting
<1> HIDE DEF w
<1>9. /\ queue' \in Seq(Waiting) /\ Len(queue') = Len(queue) + n
      /\ Len(queue) \in Nat
      /\ \A j \in 1..Len(queue') :
            queue'[j] = IF j <= Len(queue) THEN queue[j] ELSE w[j - Len(queue)]
  <2>1. w \in Seq(Waiting) /\ queue \in Seq(Waiting) /\ queue' = queue \o w
    BY <1>7, <1>8
  <2>2. /\ queue' \in Seq(Waiting) /\ Len(queue') = Len(queue) + Len(w)
        /\ Len(queue) \in Nat
        /\ \A j \in 1..Len(queue') :
              queue'[j] = IF j <= Len(queue) THEN queue[j] ELSE w[j - Len(queue)]
    BY <2>1
  <2> QED
    BY <1>7, <2>2
<1>10. \A i \in 1..Len(queue) : queue'[i] = queue[i]
  BY <1>5, <1>9
<1>11. ASSUME NEW i \in 1..Len(queue'), i > Len(queue) PROVE \E l \in More : queue'[i] = Further(l)
  <2>1. i - Len(queue) \in 1..n /\ queue'[i] = w[i - Len(queue)]
    BY <1>5, <1>9, <1>11
  <2> QED
    BY <1>5, <1>7, <2>1
<1>12. ASSUME NEW l \in More PROVE \E i \in 1..Len(queue') : queue'[i] = Further(l)
  <2>1. PICK k \in 1..n : rows[k] = l
    BY <1>5
  <2>2. /\ Len(queue) + k \in 1..Len(queue') /\ (Len(queue) + k) - Len(queue) = k
        /\ ~(Len(queue) + k <= Len(queue))
    BY <1>5, <1>9
  <2>3. queue'[Len(queue) + k] = w[k]
    BY <1>9, <2>2
  <2> QED
    BY <1>7, <2>1, <2>2, <2>3
<1> QED
  BY <1>5, <1>9, <1>10, <1>11, <1>12

LEMMA ExpandStep == ASSUME GraphInv, Expand PROVE GraphInv'
<1> DEFINE id == current[1]
<1>1. /\ pc = "expand" /\ pc' = "visit" /\ current' = <<Nobody, 0>>
      /\ edges' = edges \cup Incident(rels, id)
      /\ UNCHANGED <<assets, rels, root, depth, visited, nodes, known, stable, ever>>
  BY DEF Expand, tables, history
<1>2. /\ TypeOK /\ ForeignKeys /\ Places /\ Search /\ depth > 0 /\ depth \in Nat
      /\ id \in Asset /\ id \in nodes /\ visited # {}
  <2>1. TypeOK /\ ForeignKeys /\ Places /\ Search /\ depth > 0
    BY <1>1 DEF GraphInv, Places
  <2>2. depth \in Nat /\ id \in Asset /\ id \in nodes /\ id \in visited
    BY <1>1, <2>1 DEF TypeOK, Places, MinDepth, MaxDepth
  <2> QED
    BY <2>1, <2>2
<1>3. /\ queue' \in Seq(Waiting)
      /\ Len(queue) \in Nat /\ Len(queue') \in Nat /\ Len(queue') >= Len(queue)
      /\ \A i \in 1..Len(queue) : queue'[i] = queue[i]
      /\ \A i \in 1..Len(queue') : i > Len(queue) => \E l \in More : queue'[i] = Further(l)
      /\ \A l \in More : \E i \in 1..Len(queue') : queue'[i] = Further(l)
  BY ExpandQueue
<1>4. \A l \in More : Neighbor(l, id) \in Queued'
  <2> SUFFICES ASSUME NEW l \in More PROVE Neighbor(l, id) \in Queued'
    OBVIOUS
  <2>1. PICK i \in 1..Len(queue') : queue'[i] = Further(l)
    BY <1>3
  <2>2. queue'[i][1] = Neighbor(l, id)
    BY <2>1 DEF Further
  <2> QED
    BY <2>2 DEF Queued
<1>5. Queued \subseteq Queued'
  <2> SUFFICES ASSUME NEW i \in 1..Len(queue) PROVE queue[i][1] \in Queued'
    BY DEF Queued
  <2>1. i \in 1..Len(queue') /\ queue'[i] = queue[i]
    BY <1>3
  <2> QED
    BY <2>1 DEF Queued
<1>6. Queued' \subseteq Queued \cup {Neighbor(l, id) : l \in More}
  <2> SUFFICES ASSUME NEW i \in 1..Len(queue')
               PROVE  queue'[i][1] \in Queued \cup {Neighbor(l, id) : l \in More}
    BY DEF Queued
  <2>1. CASE i <= Len(queue)
    <3>1. i \in 1..Len(queue) /\ queue'[i] = queue[i]
      BY <1>3, <2>1
    <3> QED
      BY <3>1 DEF Queued
  <2>2. CASE i > Len(queue)
    BY <1>3, <2>2 DEF Further
  <2> QED
    BY <1>3, <2>1, <2>2
<1>7. current' \in (Asset \cup {Nobody}) \X (0..depth)
  BY <1>1, <1>2
<1>8. TypeOK'
  <2>1. edges' \in SUBSET Link
    BY <1>1, <1>2 DEF TypeOK, Incident
  <2> QED
    BY <1>1, <1>2, <1>3, <1>7, <2>1 DEF TypeOK, Waiting
<1>9. ForeignKeys' /\ Places'
  BY <1>1, <1>2 DEF ForeignKeys, Places, Answered
<1>10. Queued' \subseteq assets'
  <2>1. \A l \in More : Neighbor(l, id) \in assets
    BY <1>2 DEF ForeignKeys, Ends, Neighbor, More, Incident
  <2> QED
    BY <1>1, <1>2, <1>6, <2>1 DEF Search
<1>11. visited \subseteq nodes
  BY <1>2 DEF Search
<1>12. \A l \in edges' : Ends(l) \subseteq nodes' \cup Queued'
  <2>1. ASSUME NEW l \in Incident(rels, id) PROVE Ends(l) \subseteq nodes \cup Queued'
    <3>1. Ends(l) = {id, Neighbor(l, id)}
      BY DEF Ends, Neighbor, Incident
    <3>2. Neighbor(l, id) \in visited \/ l \in More
      BY DEF More
    <3> QED
      BY <1>2, <1>4, <1>11, <3>1, <3>2
  <2> QED
    BY <1>1, <1>2, <1>5, <2>1 DEF Search
<1> QED
  BY <1>1, <1>8, <1>9, <1>10, <1>11, <1>12 DEF GraphInv, Search

LEMMA ReturnStep == ASSUME GraphInv, Return PROVE GraphInv'
<1>1. /\ pc = "visit" /\ queue = << >> /\ pc' = "done"
      /\ UNCHANGED <<tables, locals, history>>
  BY DEF Return
<1>2. TypeOK' /\ ForeignKeys' /\ Places'
  BY <1>1 DEF GraphInv, TypeOK, ForeignKeys, Places, Answered, tables, locals, history
<1>3. Queued' = Queued
  BY <1>1 DEF Queued, locals
<1>4. (depth > 0 => Search)'
  BY <1>1, <1>3 DEF GraphInv, Search, tables, locals
<1> QED
  BY <1>2, <1>4 DEF GraphInv

LEMMA ExportStep == ASSUME GraphInv, ReadAssets \/ ReadRels PROVE GraphInv'
<1>1. CASE ReadAssets
  <2>1. /\ pc = "idle" /\ pc' = "export" /\ nodes' = assets
        /\ known' = assets /\ stable' = rels /\ ever' = rels
        /\ UNCHANGED <<assets, rels, root, depth, visited, queue, current, edges>>
    BY <1>1 DEF ReadAssets, Remember, tables
  <2>2. depth' = 0
    BY <2>1 DEF GraphInv, Places
  <2>3. TypeOK' /\ ForeignKeys' /\ Places'
    BY <2>1, <2>2 DEF GraphInv, TypeOK, ForeignKeys, Places, Answered
  <2> QED
    BY <2>2, <2>3 DEF GraphInv
<1>2. CASE ReadRels
  <2>1. /\ pc = "export" /\ pc' = "done" /\ edges' = rels
        /\ UNCHANGED <<assets, rels, root, depth, visited, queue, current, nodes, known,
                       stable, ever>>
    BY <1>2 DEF ReadRels, tables, history
  <2>2. depth' = 0
    BY <2>1 DEF GraphInv, Places
  <2>3. TypeOK' /\ ForeignKeys' /\ Places'
    BY <2>1, <2>2 DEF GraphInv, TypeOK, ForeignKeys, Places, Answered
  <2> QED
    BY <2>2, <2>3 DEF GraphInv
<1> QED
  BY <1>1, <1>2

LEMMA RespondStep == ASSUME GraphInv, Respond PROVE GraphInv'
<1>1. /\ pc = "done" /\ pc' = "idle" /\ root' = Nobody /\ depth' = 0
      /\ visited' = {} /\ nodes' = {} /\ edges' = {}
      /\ known' = {} /\ stable' = {} /\ ever' = {}
      /\ UNCHANGED <<assets, rels, queue, current>>
  BY DEF Respond, tables
<1>2. queue' = << >> /\ queue' \in Seq(Asset \X (0..depth'))
  BY <1>1 DEF GraphInv, Places
<1>3. current' = <<Nobody, 0>> /\ current' \in (Asset \cup {Nobody}) \X (0..depth')
  BY <1>1 DEF GraphInv, Places
<1>4. TypeOK' /\ ForeignKeys' /\ Places'
  BY <1>1, <1>2, <1>3 DEF GraphInv, TypeOK, ForeignKeys, Places, Answered
<1> QED
  BY <1>1, <1>4 DEF GraphInv

-----------------------------------------------------------------------------
(* The theorems.                                                           *)

LEMMA GraphInit == Init => GraphInv
<1> SUFFICES ASSUME Init PROVE GraphInv
  OBVIOUS
<1>1. queue \in Seq(Asset \X (0..depth)) /\ current \in (Asset \cup {Nobody}) \X (0..depth)
  BY DEF Init
<1> QED
  BY <1>1 DEF Init, GraphInv, TypeOK, ForeignKeys, Places, Answered

LEMMA GraphInductive == GraphInv /\ [Next]_vars => GraphInv'
<1> SUFFICES ASSUME GraphInv, [Next]_vars PROVE GraphInv'
  OBVIOUS
<1>1. CASE UNCHANGED vars
  <2>1. Queued' = Queued
    BY <1>1 DEF Queued, vars, locals
  <2>2. UNCHANGED <<assets, rels, pc, root, depth, visited, queue, current, nodes, edges,
                    known, stable, ever>>
    BY <1>1 DEF vars, tables, locals, history
  <2>3. TypeOK' /\ ForeignKeys' /\ Places'
    BY <2>2 DEF GraphInv, TypeOK, ForeignKeys, Places, Answered
  <2> QED
    BY <2>1, <2>2, <2>3 DEF GraphInv, Search
<1>2. CASE (\E a \in Asset : AddAsset(a))
           \/ \E l \in Link : CreateRelationship(l) \/ DeleteRelationship(l)
  BY <1>2, WriterStep
<1>3. CASE \E a \in Asset, d \in Depths : Begin(a, d)
  BY <1>3, BeginStep
<1>4. CASE ReadAssets
  BY <1>4, ExportStep
<1>5. CASE Read
  BY <1>5, SkipStep, VisitStep, ExpandStep, ReturnStep, ExportStep DEF Read
<1>6. CASE Respond
  BY <1>6, RespondStep
<1> QED
  BY <1>1, <1>2, <1>3, <1>4, <1>5, <1>6 DEF Next

LEMMA AlwaysGraphInv == Spec => []GraphInv
BY GraphInit, GraphInductive, PTL DEF Spec

\* The reader's locals keep their types, the queue never holds more hops than
\* the request asks for: the first half of get_graph's contract.
THEOREM GraphTypes == Spec => []TypeOK
<1>1. GraphInv => TypeOK
  BY DEF GraphInv
<1> QED
  BY <1>1, AlwaysGraphInv, PTL

\* A subgraph that get_graph returns has a node for both ends of each edge,
\* whatever other sessions commit between its SELECTs.
THEOREM GraphClosed == Spec => []NoDanglingEdge
<1>1. GraphInv => NoDanglingEdge
  BY DEF GraphInv, Search, Places, NoDanglingEdge, Answered, Queued
<1> QED
  BY <1>1, AlwaysGraphInv, PTL

-----------------------------------------------------------------------------
(* The whole graph.                                                        *)

\* What was there when the request arrived, and what has been there since.
Around ==
    pc # "idle" =>
        /\ stable \subseteq rels /\ rels \subseteq ever /\ known \subseteq assets
        /\ \A l \in stable : Ends(l) \subseteq known

\* A step of the writers, as the reader sees it.
Others ==
    /\ UNCHANGED <<pc, root, depth, visited, queue, current, nodes, edges, known>>
    /\ assets \subseteq assets' /\ stable' \subseteq stable
    /\ pc # "idle" => ever \subseteq ever'

\* A step of the search.
Searching ==
    /\ Skip \/ Visit \/ Expand \/ Return
    /\ UNCHANGED <<assets, rels, known, stable, ever, root, depth>>
    /\ pc \in {"visit", "expand"} /\ pc' # "idle" /\ pc' # "export"

LEMMA NextIs ==
    ASSUME GraphInv, [Next]_vars
    PROVE  \/ Others \/ Searching \/ ReadAssets \/ ReadRels \/ Respond
           \/ \E a \in Asset, d \in Depths : Begin(a, d)
<1>1. CASE UNCHANGED vars
  BY <1>1 DEF vars, tables, locals, history, Others
<1>2. ASSUME NEW a \in Asset, AddAsset(a) PROVE Others
  BY <1>2 DEF AddAsset, locals, history, Others
<1>3. ASSUME NEW l \in Link, CreateRelationship(l) PROVE Others
  BY <1>3 DEF CreateRelationship, locals, Others
<1>4. ASSUME NEW l \in Link, DeleteRelationship(l) PROVE Others
  BY <1>4 DEF DeleteRelationship, locals, Others
<1>5. CASE Skip \/ Visit \/ Expand \/ Return
  BY <1>5 DEF Skip, Visit, Expand, Return, tables, locals, history, Searching
<1> QED
  BY <1>1, <1>2, <1>3, <1>4, <1>5 DEF Next, Read

LEMMA AroundStep == GraphInv /\ Around /\ [Next]_vars => Around'
<1> SUFFICES ASSUME GraphInv, Around, [Next]_vars PROVE Around'
  OBVIOUS
<1>1. ForeignKeys
  BY DEF GraphInv
<1>2. CASE UNCHANGED vars
  BY <1>2 DEF vars, tables, locals, history, Around
<1>3. ASSUME NEW a \in Asset, AddAsset(a) PROVE Around'
  BY <1>3 DEF AddAsset, locals, history, Around
<1>4. ASSUME NEW l \in Link, CreateRelationship(l) PROVE Around'
  BY <1>4 DEF CreateRelationship, locals, Around
<1>5. ASSUME NEW l \in Link, DeleteRelationship(l) PROVE Around'
  BY <1>5 DEF DeleteRelationship, locals, Around
<1>6. CASE ReadAssets \/ \E a \in Asset, d \in Depths : Begin(a, d)
  BY <1>1, <1>6 DEF ReadAssets, Begin, Remember, tables, ForeignKeys, Around
<1>7. CASE Read
  BY <1>7 DEF Read, Skip, Visit, Expand, Return, ReadRels, tables, locals, history, Around
<1>8. CASE Respond
  BY <1>8 DEF Respond, Around
<1> QED
  BY <1>2, <1>3, <1>4, <1>5, <1>6, <1>7, <1>8 DEF Next

\* The first SELECT of an export sees every asset.
ExportInv ==
    /\ pc = "export" => nodes = known
    /\ ExportDanglesOnlyToNew

LEMMA ExportInvStep == GraphInv /\ Around /\ ExportInv /\ [Next]_vars => ExportInv'
<1> SUFFICES ASSUME GraphInv, Around, ExportInv, [Next]_vars PROVE ExportInv'
  OBVIOUS
<1>1. CASE Others
  BY <1>1 DEF Others, ExportInv, ExportDanglesOnlyToNew, Exported
<1>2. CASE Searching
  <2>1. depth > 0 /\ ~(depth = 0)
    BY <1>2 DEF Searching, GraphInv, Places, TypeOK, MinDepth, MaxDepth
  <2> QED
    BY <1>2, <2>1 DEF Searching, ExportInv, ExportDanglesOnlyToNew, Exported
<1>3. CASE ReadAssets
  BY <1>3 DEF ReadAssets, Remember, ExportInv, ExportDanglesOnlyToNew, Exported
<1>4. CASE ReadRels
  BY <1>4 DEF ReadRels, tables, history, Around, ExportInv, ExportDanglesOnlyToNew, Exported
<1>5. CASE Respond
  BY <1>5 DEF Respond, ExportInv, ExportDanglesOnlyToNew, Exported
<1>6. CASE \E a \in Asset, d \in Depths : Begin(a, d)
  BY <1>6 DEF Begin, ExportInv, ExportDanglesOnlyToNew, Exported
<1> QED
  BY <1>1, <1>2, <1>3, <1>4, <1>5, <1>6, NextIs

\* The whole graph misses nothing that stays while it is read, and an edge of
\* it lacks a node only if the relationship came after the first SELECT.
THEOREM ExportsDangleOnlyToNew == Spec => []ExportDanglesOnlyToNew
<1>1. Init => Around /\ ExportInv
  BY DEF Init, Around, ExportInv, ExportDanglesOnlyToNew, Exported
<1>2. ExportInv => ExportDanglesOnlyToNew
  BY DEF ExportInv
<1> QED
  BY <1>1, <1>2, GraphInit, GraphInductive, AroundStep, ExportInvStep, PTL DEF Spec

-----------------------------------------------------------------------------
(* Balls.                                                                  *)

\* The ids in B, and those one hop further along E.
Grow(E, B) == B \cup UNION {Ends(l) : l \in {e \in E : Ends(e) \cap B # {}}}

LEMMA BallDef ==
    ASSUME NEW E, NEW a, NEW n \in 0..5
    PROVE  Ball(E, a, n) = (CHOOSE f : f = [i \in 0..n |-> IF i = 0 THEN {a} ELSE Grow(E, f[i - 1])])[n]
BY Zenon DEF Ball, Grow

\* As no request asks for more than MaxDepth hops, the balls that matter can
\* be written out one by one.
LEMMA BallIs ==
    ASSUME NEW E, NEW a
    PROVE  /\ Ball(E, a, 0) = {a}
           /\ \A n \in 0..4 : Ball(E, a, n + 1) = Grow(E, Ball(E, a, n))
<1> DEFINE b0 == {a}  b1 == Grow(E, b0)  b2 == Grow(E, b1)  b3 == Grow(E, b2)
           b4 == Grow(E, b3)  b5 == Grow(E, b4)
           hop == [i \in 0..5 |-> IF i = 0 THEN b0 ELSE IF i = 1 THEN b1 ELSE IF i = 2 THEN b2
                                  ELSE IF i = 3 THEN b3 ELSE IF i = 4 THEN b4 ELSE b5]
<1>1. hop[0] = {a} /\ \A i \in 1..5 : hop[i] = Grow(E, hop[i - 1])
  <2>1. /\ hop[0] = b0 /\ hop[1] = b1 /\ hop[2] = b2 /\ hop[3] = b3 /\ hop[4] = b4 /\ hop[5] = b5
    OBVIOUS
  <2> HIDE DEF hop
  <2>2. /\ hop[0] = {a} /\ hop[1] = Grow(E, hop[0]) /\ hop[2] = Grow(E, hop[1])
        /\ hop[3] = Grow(E, hop[2]) /\ hop[4] = Grow(E, hop[3]) /\ hop[5] = Grow(E, hop[4])
    BY <2>1
  <2>3. \A i \in 1..5 : i = 1 \/ i = 2 \/ i = 3 \/ i = 4 \/ i = 5
    OBVIOUS
  <2>4. 1 - 1 = 0 /\ 2 - 1 = 1 /\ 3 - 1 = 2 /\ 4 - 1 = 3 /\ 5 - 1 = 4
    OBVIOUS
  <2> QED
    BY <2>2, <2>3, <2>4, Zenon
<1> HIDE DEF hop
<1>2. ASSUME NEW n \in 0..5 PROVE Ball(E, a, n) = hop[n]
  <2> DEFINE Is(f) == f = [i \in 0..n |-> IF i = 0 THEN {a} ELSE Grow(E, f[i - 1])]
             g == CHOOSE f : Is(f)
  <2>1. Is([i \in 0..n |-> hop[i]])
    <3> DEFINE f == [i \in 0..n |-> hop[i]]
    <3>1. \A i \in 0..n : f[i] = hop[i] /\ (i # 0 => i - 1 \in 0..n /\ f[i - 1] = hop[i - 1])
      OBVIOUS
    <3>2. \A i \in 0..n : f[i] = IF i = 0 THEN {a} ELSE Grow(E, f[i - 1])
      <4> SUFFICES ASSUME NEW i \in 0..n
                   PROVE  f[i] = IF i = 0 THEN {a} ELSE Grow(E, f[i - 1])
        OBVIOUS
      <4>1. i # 0 => i \in 1..5
        OBVIOUS
      <4> HIDE DEF f
      <4> QED
        BY <1>1, <3>1, <4>1, Zenon
    <3> QED
      BY <3>2
  <2>2. Is(g)
    <3> HIDE DEF Is
    <3> QED
      BY <2>1, Zenon
  <2>3. \A i \in 0..n : g[i] = IF i = 0 THEN {a} ELSE Grow(E, g[i - 1])
    <3> HIDE DEF g
    <3> QED
      BY <2>2, Zenon
  <2>4. Ball(E, a, n) = g[n]
    BY BallDef, Zenon
  <2> HIDE DEF g
  <2>5. \A i \in 1..5 : i \in 0..n => i - 1 \in 0..n /\ g[i] = Grow(E, g[i - 1])
    BY <2>3
  <2>6. 0 \in 0..n /\ g[0] = hop[0]
    BY <1>1, <2>3
  <2>7. \A i \in 1..5 : i \in 0..n /\ g[i - 1] = hop[i - 1] => g[i] = hop[i]
    BY <1>1, <2>5, Zenon
  <2>8. \A i \in 1..5 : i \in 0..n /\ (i - 1 \in 0..n => g[i - 1] = hop[i - 1]) => g[i] = hop[i]
    BY <2>5, <2>7, Zenon
  <2>9. /\ 1 \in 0..n => g[1] = hop[1]
        /\ 2 \in 0..n => g[2] = hop[2]
        /\ 3 \in 0..n => g[3] = hop[3]
        /\ 4 \in 0..n => g[4] = hop[4]
        /\ 5 \in 0..n => g[5] = hop[5]
    BY <2>6, <2>8
  <2> QED
    BY <2>4, <2>6, <2>9
<1> QED
  BY <1>1, <1>2

LEMMA BallOrder ==
    ASSUME NEW E, NEW a
    PROVE  /\ \A m, n \in 0..5 : m <= n => Ball(E, a, m) \subseteq Ball(E, a, n)
           /\ \A n \in 0..4, l \in E : Ends(l) \cap Ball(E, a, n) # {}
                 => Ends(l) \subseteq Ball(E, a, n + 1)
<1>1. \A n \in 0..4 : Ball(E, a, n) \subseteq Ball(E, a, n + 1)
  BY BallIs DEF Grow
<1>2. /\ Ball(E, a, 0) \subseteq Ball(E, a, 1) /\ Ball(E, a, 1) \subseteq Ball(E, a, 2)
      /\ Ball(E, a, 2) \subseteq Ball(E, a, 3) /\ Ball(E, a, 3) \subseteq Ball(E, a, 4)
      /\ Ball(E, a, 4) \subseteq Ball(E, a, 5)
  <2>1. /\ 0 \in 0..4 /\ 1 \in 0..4 /\ 2 \in 0..4 /\ 3 \in 0..4 /\ 4 \in 0..4
        /\ 0 + 1 = 1 /\ 1 + 1 = 2 /\ 2 + 1 = 3 /\ 3 + 1 = 4 /\ 4 + 1 = 5
    OBVIOUS
  <2> QED
    BY <1>1, <2>1
<1>3. \A n \in 0..5 : n = 0 \/ n = 1 \/ n = 2 \/ n = 3 \/ n = 4 \/ n = 5
  OBVIOUS
<1>4. \A m, n \in 0..5 : m <= n => Ball(E, a, m) \subseteq Ball(E, a, n)
  BY <1>2, <1>3
<1>5. \A n \in 0..4, l \in E : Ends(l) \cap Ball(E, a, n) # {}
         => Ends(l) \subseteq Ball(E, a, n + 1)
  BY BallIs DEF Grow
<1> QED
  BY <1>4, <1>5

\* More relationships reach further.
LEMMA BallMore ==
    ASSUME NEW E, NEW F, E \subseteq F, NEW a
    PROVE  \A n \in 0..5 : Ball(E, a, n) \subseteq Ball(F, a, n)
<1>1. Ball(E, a, 0) \subseteq Ball(F, a, 0)
  BY BallIs
<1>2. \A n \in 0..4 : Ball(E, a, n) \subseteq Ball(F, a, n)
         => Ball(E, a, n + 1) \subseteq Ball(F, a, n + 1)
  BY BallIs DEF Grow
<1>3. /\ 0 \in 0..4 /\ 1 \in 0..4 /\ 2 \in 0..4 /\ 3 \in 0..4 /\ 4 \in 0..4
      /\ 0 + 1 = 1 /\ 1 + 1 = 2 /\ 2 + 1 = 3 /\ 3 + 1 = 4 /\ 4 + 1 = 5
  OBVIOUS
<1>4. \A n \in 0..5 : n = 0 \/ n = 1 \/ n = 2 \/ n = 3 \/ n = 4 \/ n = 5
  OBVIOUS
<1>5. /\ Ball(E, a, 1) \subseteq Ball(F, a, 1) /\ Ball(E, a, 2) \subseteq Ball(F, a, 2)
      /\ Ball(E, a, 3) \subseteq Ball(F, a, 3) /\ Ball(E, a, 4) \subseteq Ball(F, a, 4)
      /\ Ball(E, a, 5) \subseteq Ball(F, a, 5)
  BY <1>1, <1>2, <1>3
<1> QED
  BY <1>1, <1>4, <1>5

-----------------------------------------------------------------------------
(* Nothing is out of reach.                                                *)

\* What waits is as many hops away, at most, as its pair says; so is what is
\* expanded, and what has been read is within reach.
WithinInv ==
    pc # "idle" /\ depth > 0 =>
        /\ \A i \in 1..Len(queue) : queue[i][1] \in Ball(ever, root, queue[i][2])
        /\ pc = "expand" => current[1] \in Ball(ever, root, current[2])
        /\ nodes \subseteq Ball(ever, root, depth)
        /\ \A l \in edges : l \in ever /\ Ends(l) \cap Ball(ever, root, depth - 1) # {}

\* The numbers of hops that occur.
LEMMA Hops ==
    ASSUME TypeOK
    PROVE  /\ depth \in Nat /\ depth \in 0..5 /\ Len(queue) \in Nat
           /\ depth > 0 => depth - 1 \in 0..4
           /\ \A i \in 1..Len(queue) : /\ queue[i] \in Asset \X (0..depth)
                                       /\ queue[i][2] \in 0..depth /\ queue[i][2] \in 0..5
           /\ pc = "expand" => /\ current[2] \in 0..4 /\ current[2] + 1 \in 0..5
                               /\ current[2] <= depth - 1
<1>1. depth \in 0..5
  BY DEF TypeOK, MinDepth, MaxDepth
<1>2. \A i \in 1..Len(queue) : queue[i] \in Asset \X (0..depth)
  BY DEF TypeOK
<1>3. \A i \in 1..Len(queue) : queue[i][2] \in 0..depth
  BY <1>2
<1>4. \A n \in 0..depth : n \in 0..5
  BY <1>1
<1>5. pc = "expand" => current[2] \in 0..depth /\ current[2] < depth
  BY DEF TypeOK
<1>6. Len(queue) \in Nat
  BY DEF TypeOK
<1> QED
  BY <1>1, <1>2, <1>3, <1>4, <1>5, <1>6

LEMMA PopIndex ==
    ASSUME TypeOK, queue # << >>, queue' = Tail(queue)
    PROVE  /\ Len(queue) \in Nat /\ 1 \in 1..Len(queue) /\ Head(queue) = queue[1]
           /\ Len(queue') = Len(queue) - 1
           /\ \A j \in 1..Len(queue') : j + 1 \in 1..Len(queue) /\ queue'[j] = queue[j + 1]
<1>1. queue \in Seq(Asset \X (0..depth))
  BY DEF TypeOK
<1> QED
  BY <1>1

LEMMA WithinStep == GraphInv /\ Around /\ WithinInv /\ [Next]_vars => WithinInv'
<1> SUFFICES ASSUME GraphInv, Around, WithinInv, [Next]_vars PROVE WithinInv'
  OBVIOUS
<1>0. TypeOK
  BY DEF GraphInv
<1>1. CASE Others
  <2> SUFFICES ASSUME pc # "idle", depth > 0
               PROVE  WithinInv'
    BY <1>1 DEF Others, WithinInv
  <2>1. \A n \in 0..5 : Ball(ever, root, n) \subseteq Ball(ever', root, n)
    BY <1>1, BallMore DEF Others
  <2>2. /\ \A i \in 1..Len(queue) : queue[i][1] \in Ball(ever', root, queue[i][2])
        /\ pc = "expand" => current[1] \in Ball(ever', root, current[2])
        /\ nodes \subseteq Ball(ever', root, depth)
        /\ \A l \in edges : l \in ever' /\ Ends(l) \cap Ball(ever', root, depth - 1) # {}
    <3>1. /\ \A i \in 1..Len(queue) : queue[i][2] \in 0..5
          /\ pc = "expand" => current[2] \in 0..5
          /\ depth \in 0..5 /\ depth - 1 \in 0..5
      BY <1>0, Hops
    <3> QED
      BY <1>1, <2>1, <3>1 DEF Others, WithinInv
  <2>3. UNCHANGED <<pc, root, depth, queue, current, nodes, edges>>
    BY <1>1 DEF Others
  <2> QED
    BY <2>2, <2>3 DEF WithinInv
<1>2. CASE \E a \in Asset, d \in Depths : Begin(a, d)
  <2>1. PICK a \in Asset, d \in Depths : Begin(a, d)
    BY <1>2
  <2>2. nodes' = {} /\ edges' = {} /\ pc' = "visit" /\ root' = a /\ queue' = << <<a, 0>> >>
    BY <2>1 DEF Begin, GraphInv, Places
  <2>3. Ball(ever', a, 0) = {a}
    BY BallIs
  <2>4. \A i \in 1..Len(queue') : queue'[i][1] = a /\ queue'[i][2] = 0
    BY <2>2
  <2> QED
    BY <2>2, <2>3, <2>4 DEF WithinInv
<1>3. CASE Searching
  <2>1. /\ UNCHANGED <<rels, ever, root, depth>> /\ depth > 0 /\ pc # "idle"
    BY <1>3 DEF Searching, GraphInv, Places
  <2>2. /\ \A i \in 1..Len(queue) : queue[i][1] \in Ball(ever, root, queue[i][2])
        /\ pc = "expand" => current[1] \in Ball(ever, root, current[2])
        /\ nodes \subseteq Ball(ever, root, depth)
        /\ \A l \in edges : l \in ever /\ Ends(l) \cap Ball(ever, root, depth - 1) # {}
    BY <2>1 DEF WithinInv
  <2>3. CASE Skip \/ Return
    <3>1. /\ UNCHANGED <<nodes, edges>> /\ pc' # "expand"
          /\ queue' = queue \/ (queue # << >> /\ queue' = Tail(queue))
      BY <2>3 DEF Skip, Return, locals
    <3>2. \A i \in 1..Len(queue') : queue'[i][1] \in Ball(ever, root, queue'[i][2])
      BY <1>0, <2>2, <3>1, PopIndex
    <3> QED
      BY <2>1, <2>2, <3>1, <3>2 DEF WithinInv
  <2>4. CASE Visit
    <3>1. /\ queue # << >> /\ queue' = Tail(queue) /\ edges' = edges
          /\ nodes' \subseteq nodes \cup {Head(queue)[1]}
          /\ pc' = "expand" => current' = Head(queue)
      BY <2>4 DEF Visit
    <3>2. \A i \in 1..Len(queue') : queue'[i][1] \in Ball(ever, root, queue'[i][2])
      BY <1>0, <2>2, <3>1, PopIndex
    <3>3. Head(queue)[1] \in Ball(ever, root, Head(queue)[2]) /\ Head(queue)[2] \in 0..depth
          /\ Head(queue)[2] \in 0..5
      BY <1>0, <2>2, <3>1, PopIndex, Hops
    <3>4. Head(queue)[1] \in Ball(ever, root, depth)
      BY <1>0, <3>3, Hops, BallOrder
    <3> QED
      BY <2>1, <2>2, <3>1, <3>2, <3>3, <3>4 DEF WithinInv
  <2>5. CASE Expand
    <3>1. /\ UNCHANGED nodes /\ pc = "expand" /\ pc' = "visit"
          /\ edges' = edges \cup Incident(rels, current[1])
      BY <2>5 DEF Expand
    <3>2. /\ current[2] \in 0..4 /\ current[2] + 1 \in 0..5 /\ current[2] <= depth - 1
          /\ depth - 1 \in 0..4 /\ depth - 1 \in 0..5 /\ current[2] \in 0..5
      BY <1>0, <2>1, <3>1, Hops
    <3>3. current[1] \in Ball(ever, root, current[2])
      BY <2>2, <3>1
    <3>4. current[1] \in Ball(ever, root, depth - 1)
      BY <3>2, <3>3, BallOrder
    <3>5. \A l \in Incident(rels, current[1]) : l \in ever /\ current[1] \in Ends(l)
                                               /\ Neighbor(l, current[1]) \in Ends(l)
      BY <2>1 DEF Around, Incident, Ends, Neighbor
    <3>6. \A l \in More : Neighbor(l, current[1]) \in Ball(ever, root, current[2] + 1)
      <4>1. \A l \in More : l \in ever /\ Ends(l) \cap Ball(ever, root, current[2]) # {}
        BY <3>3, <3>5 DEF More
      <4>2. \A l \in More : Ends(l) \subseteq Ball(ever, root, current[2] + 1)
        BY <3>2, <4>1, BallOrder
      <4> QED
        BY <3>5, <4>2 DEF More
    <3>7. \A i \in 1..Len(queue') : queue'[i][1] \in Ball(ever, root, queue'[i][2])
      <4> SUFFICES ASSUME NEW i \in 1..Len(queue')
                   PROVE  queue'[i][1] \in Ball(ever, root, queue'[i][2])
        OBVIOUS
      <4>1. /\ Len(queue) \in Nat /\ Len(queue') \in Nat
            /\ i <= Len(queue) => i \in 1..Len(queue) /\ queue'[i] = queue[i]
            /\ i > Len(queue) => \E l \in More : queue'[i] = Further(l)
        BY <2>5, ExpandQueue
      <4>2. CASE i <= Len(queue)
        BY <2>2, <4>1, <4>2
      <4>3. CASE i > Len(queue)
        <5>1. PICK l \in More : queue'[i] = Further(l)
          BY <4>1, <4>3
        <5>2. queue'[i][1] = Neighbor(l, current[1]) /\ queue'[i][2] = current[2] + 1
          BY <5>1 DEF Further
        <5> QED
          BY <3>6, <5>2
      <4> QED
        BY <4>1, <4>2, <4>3
    <3>8. \A l \in edges' : l \in ever /\ Ends(l) \cap Ball(ever, root, depth - 1) # {}
      BY <2>2, <3>1, <3>4, <3>5
    <3> QED
      BY <2>1, <2>2, <3>1, <3>7, <3>8 DEF WithinInv
  <2> QED
    BY <1>3, <2>3, <2>4, <2>5 DEF Searching
<1>4. CASE ReadAssets \/ ReadRels \/ Respond
  <2>1. depth' = 0 \/ pc' = "idle"
    BY <1>4 DEF ReadAssets, ReadRels, Respond, GraphInv, Places
  <2>2. ~(0 > 0)
    OBVIOUS
  <2> QED
    BY <2>1, <2>2 DEF WithinInv
<1> QED
  BY <1>1, <1>2, <1>3, <1>4, NextIs

\* A subgraph has no node out of reach and no edge that starts there, along
\* relationships that existed at some time during the request.
THEOREM NothingIsOutOfReach == Spec => []NothingOutOfReach
<1>1. Init => Around /\ WithinInv
  BY DEF Init, Around, WithinInv
<1>2. WithinInv => NothingOutOfReach
  BY DEF WithinInv, NothingOutOfReach, Answered
<1> QED
  BY <1>1, <1>2, GraphInit, GraphInductive, AroundStep, WithinStep, PTL DEF Spec

-----------------------------------------------------------------------------
(* Nothing within reach is missed.                                         *)

\* v has been seen at hop n or before, or waits with such a hop.
Level(waiting, seen, lev, v, n) ==
    \/ v \in seen /\ lev[v] <= n
    \/ \E i \in 1..Len(waiting) : waiting[i][1] = v /\ waiting[i][2] <= n

\* lev gives the hop at which each id was visited.  The search is breadth
\* first: hops wait in order, at most two of them at a time, none before what
\* was visited; and what was expanded has its neighbors visited or waiting, by
\* the next hop.
Covered(lev) ==
    /\ Level(queue, visited, lev, root, 0)
    /\ \A i, j \in 1..Len(queue) : i <= j =>
          queue[i][2] <= queue[j][2] /\ queue[j][2] <= queue[i][2] + 1
    /\ \A v \in visited, i \in 1..Len(queue) : lev[v] <= queue[i][2]
    /\ pc = "expand" =>
          /\ lev[current[1]] = current[2]
          /\ \A v \in visited : lev[v] <= current[2]
          /\ \A i \in 1..Len(queue) : queue[i][2] <= current[2] + 1
    /\ \A v \in visited, l \in stable :
          lev[v] < depth /\ v \in Ends(l) /\ ~(pc = "expand" /\ current[1] = v) =>
             l \in edges /\ Level(queue, visited, lev, Neighbor(l, v), lev[v] + 1)

CoverInv ==
    pc # "idle" /\ depth > 0 /\ root \in known =>
        /\ visited \subseteq nodes
        /\ \E lev \in [visited -> 0..depth] : Covered(lev)

LEMMA CoverOthers ==
    ASSUME CoverInv, Others PROVE CoverInv'
<1> SUFFICES ASSUME pc # "idle", depth > 0, root \in known PROVE CoverInv'
  BY DEF Others, CoverInv
<1>1. PICK lev \in [visited -> 0..depth] : Covered(lev)
  BY DEF CoverInv
<1>2. /\ UNCHANGED <<pc, root, depth, visited, queue, current, nodes, edges, known>>
      /\ stable' \subseteq stable
  BY DEF Others
<1>3. \A v, n : Level(queue', visited', lev, v, n) <=> Level(queue, visited, lev, v, n)
  BY <1>2 DEF Level
<1>4. Covered(lev)'
  BY <1>1, <1>2, <1>3 DEF Covered
<1>5. visited' \subseteq nodes' /\ lev \in [visited' -> 0..depth']
  BY <1>2 DEF CoverInv
<1> QED
  BY <1>4, <1>5 DEF CoverInv

LEMMA CoverBegin ==
    ASSUME GraphInv, NEW a \in Asset, NEW d \in Depths, Begin(a, d) PROVE CoverInv'
<1>1. /\ pc' = "visit" /\ root' = a /\ queue' = << <<a, 0>> >>
      /\ visited' = {} /\ edges' = {} /\ nodes' = {}
  BY DEF Begin, GraphInv, Places
<1>2. Len(queue') = 1 /\ \A i \in 1..Len(queue') : queue'[i][1] = a /\ queue'[i][2] = 0
  BY <1>1
<1>3. PICK lev : lev = [v \in {} |-> 0]
  OBVIOUS
<1>4. lev \in [visited' -> 0..depth']
  BY <1>1, <1>3
<1>5. Level(queue', visited', lev, root', 0)
  BY <1>1, <1>2 DEF Level
<1>6. Covered(lev)'
  BY <1>1, <1>2, <1>5 DEF Covered
<1> QED
  BY <1>1, <1>4, <1>6 DEF CoverInv

\* The head of the queue is popped and has been visited, by its hop.
LEMMA CoverPop ==
    ASSUME TypeOK, queue # << >>, queue' = Tail(queue), NEW lev \in [visited -> 0..depth],
           Covered(lev), NEW next \in [visited' -> 0..depth], visited \subseteq visited',
           visited' \subseteq visited \cup {Head(queue)[1]}, Head(queue)[1] \in visited',
           \A v \in visited : next[v] = lev[v], next[Head(queue)[1]] <= Head(queue)[2]
    PROVE  /\ \A v, n : n \in Nat /\ Level(queue, visited, lev, v, n)
                           => Level(queue', visited', next, v, n)
           /\ \A i, k \in 1..Len(queue') : i <= k =>
                 queue'[i][2] <= queue'[k][2] /\ queue'[k][2] <= queue'[i][2] + 1
           /\ \A v \in visited', i \in 1..Len(queue') : next[v] <= queue'[i][2]
           /\ \A v \in visited' : next[v] <= Head(queue)[2]
           /\ \A i \in 1..Len(queue') : queue'[i][2] <= Head(queue)[2] + 1
<1>1. /\ Len(queue) \in Nat /\ 1 \in 1..Len(queue) /\ Head(queue) = queue[1]
      /\ Len(queue') = Len(queue) - 1
      /\ \A k \in 1..Len(queue') : k + 1 \in 1..Len(queue) /\ queue'[k] = queue[k + 1]
      /\ \A k \in 1..Len(queue) : queue[k][2] \in Nat
  BY PopIndex, Hops
<1>2. depth \in Nat /\ \A v \in visited' : next[v] \in Nat
  <2>1. depth \in Nat
    BY Hops
  <2> QED
    BY <2>1
<1>3. \A v \in visited' : next[v] <= Head(queue)[2]
  BY <1>1 DEF Covered
<1>4. ASSUME NEW v, NEW n \in Nat, Level(queue, visited, lev, v, n)
      PROVE  Level(queue', visited', next, v, n)
  <2>1. CASE v \in visited /\ lev[v] <= n
    BY <2>1 DEF Level
  <2>2. CASE \E i \in 1..Len(queue) : queue[i][1] = v /\ queue[i][2] <= n
    <3>1. PICK i \in 1..Len(queue) : queue[i][1] = v /\ queue[i][2] <= n
      BY <2>2
    <3>2. CASE i = 1
      <4>1. v \in visited' /\ next[v] <= queue[1][2] /\ queue[1][2] <= n
        BY <1>1, <3>1, <3>2
      <4>2. next[v] <= n
        BY <1>1, <1>2, <4>1
      <4> QED
        BY <4>1, <4>2 DEF Level
    <3>3. CASE i # 1
      <4>1. i - 1 \in 1..Len(queue') /\ queue'[i - 1] = queue[i]
        BY <1>1, <3>3
      <4> QED
        BY <3>1, <4>1 DEF Level
    <3> QED
      BY <3>2, <3>3
  <2> QED
    BY <1>4, <2>1, <2>2 DEF Level
<1>5. \A i, k \in 1..Len(queue') : i <= k =>
         queue'[i][2] <= queue'[k][2] /\ queue'[k][2] <= queue'[i][2] + 1
  <2> SUFFICES ASSUME NEW i \in 1..Len(queue'), NEW k \in 1..Len(queue'), i <= k
               PROVE  queue'[i][2] <= queue'[k][2] /\ queue'[k][2] <= queue'[i][2] + 1
    OBVIOUS
  <2>1. /\ i + 1 \in 1..Len(queue) /\ queue'[i] = queue[i + 1] /\ i + 1 <= k + 1
        /\ k + 1 \in 1..Len(queue) /\ queue'[k] = queue[k + 1]
    BY <1>1
  <2> QED
    BY <2>1 DEF Covered
<1>6. \A i \in 1..Len(queue') : /\ Head(queue)[2] <= queue'[i][2]
                                /\ queue'[i][2] <= Head(queue)[2] + 1
  <2> SUFFICES ASSUME NEW i \in 1..Len(queue')
               PROVE  Head(queue)[2] <= queue'[i][2] /\ queue'[i][2] <= Head(queue)[2] + 1
    OBVIOUS
  <2>1. /\ i + 1 \in 1..Len(queue) /\ queue'[i] = queue[i + 1] /\ 1 <= i + 1
    BY <1>1
  <2> QED
    BY <1>1, <2>1 DEF Covered
<1>7. \A v \in visited', i \in 1..Len(queue') : next[v] <= queue'[i][2]
  <2> SUFFICES ASSUME NEW v \in visited', NEW i \in 1..Len(queue') PROVE next[v] <= queue'[i][2]
    OBVIOUS
  <2>1. /\ next[v] \in Nat /\ Head(queue)[2] \in Nat /\ queue'[i][2] \in Nat
        /\ next[v] <= Head(queue)[2] /\ Head(queue)[2] <= queue'[i][2]
    BY <1>1, <1>2, <1>3, <1>6
  <2> QED
    BY <2>1
<1> QED
  BY <1>3, <1>4, <1>5, <1>6, <1>7

LEMMA CoverSkip ==
    ASSUME GraphInv, CoverInv, Skip PROVE CoverInv'
<1>1. /\ queue # << >> /\ queue' = Tail(queue) /\ Head(queue)[1] \in visited /\ pc = "visit"
      /\ UNCHANGED <<pc, root, depth, visited, current, nodes, edges, known, stable>>
  BY DEF Skip, history
<1> SUFFICES ASSUME depth > 0, root \in known PROVE CoverInv'
  BY <1>1 DEF CoverInv
<1>2. TypeOK
  BY DEF GraphInv
<1>3. PICK lev \in [visited -> 0..depth] : Covered(lev)
  BY <1>1 DEF CoverInv
<1>4. lev[Head(queue)[1]] <= Head(queue)[2]
  <2>1. 1 \in 1..Len(queue) /\ Head(queue) = queue[1]
    BY <1>1, <1>2, PopIndex
  <2> QED
    BY <1>1, <1>3, <2>1 DEF Covered
<1>5. /\ \A v, n : n \in Nat /\ Level(queue, visited, lev, v, n)
                      => Level(queue', visited', lev, v, n)
      /\ \A i, k \in 1..Len(queue') : i <= k =>
            queue'[i][2] <= queue'[k][2] /\ queue'[k][2] <= queue'[i][2] + 1
      /\ \A v \in visited', i \in 1..Len(queue') : lev[v] <= queue'[i][2]
  <2>1. lev \in [visited' -> 0..depth] /\ visited' = visited
    BY <1>1
  <2> QED
    BY <1>1, <1>2, <1>3, <1>4, <2>1, CoverPop
<1>6. \A v \in visited, l \in stable : lev[v] < depth /\ v \in Ends(l) =>
         l \in edges /\ Level(queue', visited', lev, Neighbor(l, v), lev[v] + 1)
  <2>1. \A v \in visited : lev[v] + 1 \in Nat
    BY <1>2, <1>3, Hops
  <2> QED
    BY <1>1, <1>3, <1>5, <2>1 DEF Covered
<1>7. Level(queue', visited', lev, root', 0)
  BY <1>1, <1>3, <1>5 DEF Covered
<1>8. Covered(lev)'
  BY <1>1, <1>5, <1>6, <1>7 DEF Covered
<1>9. visited' \subseteq nodes' /\ lev \in [visited' -> 0..depth']
  BY <1>1 DEF CoverInv
<1> QED
  BY <1>8, <1>9 DEF CoverInv

LEMMA CoverVisit ==
    ASSUME GraphInv, Around, CoverInv, Visit PROVE CoverInv'
<1> DEFINE id == Head(queue)[1]
<1> DEFINE hop == Head(queue)[2]
<1>1. /\ pc = "visit" /\ queue # << >> /\ id \notin visited /\ queue' = Tail(queue)
      /\ visited' = visited \cup {id} /\ nodes' = nodes \cup ({id} \cap assets)
      /\ IF id \in assets /\ hop < depth THEN pc' = "expand" /\ current' = Head(queue)
         ELSE UNCHANGED <<pc, current>>
      /\ UNCHANGED <<root, depth, edges, known, stable>>
  BY DEF Visit, history
<1> SUFFICES ASSUME depth > 0, root \in known PROVE CoverInv'
  BY <1>1 DEF CoverInv
<1>2. TypeOK /\ Search /\ Places
  BY DEF GraphInv
<1>3. PICK lev \in [visited -> 0..depth] : Covered(lev)
  BY <1>1 DEF CoverInv
<1>4. /\ 1 \in 1..Len(queue) /\ Head(queue) = queue[1] /\ hop \in 0..depth
  BY <1>1, <1>2, PopIndex, Hops
<1>5. id \in assets
  <2>1. CASE visited = {}
    <3>1. Len(queue) = 1
      BY <1>1, <1>2, <2>1 DEF Places
    <3>2. PICK i \in 1..Len(queue) : queue[i][1] = root
      BY <1>3, <2>1 DEF Covered, Level
    <3>3. i = 1
      BY <3>1, <3>2
    <3> QED
      BY <1>1, <1>4, <3>2, <3>3 DEF Around
  <2>2. CASE visited # {}
    <3>1. id \in Queued
      BY <1>4 DEF Queued
    <3> QED
      BY <1>2, <2>2, <3>1 DEF Search
  <2> QED
    BY <2>1, <2>2
<1>6. PICK next : next = [v \in visited' |-> IF v = id THEN hop ELSE lev[v]]
  OBVIOUS
<1>7. /\ next \in [visited' -> 0..depth] /\ next[id] = hop /\ id \in visited'
      /\ \A v \in visited : next[v] = lev[v]
  BY <1>1, <1>3, <1>4, <1>6
<1>8. hop <= hop
  BY <1>4
<1> HIDE DEF id, hop
<1>9. /\ \A v, n : n \in Nat /\ Level(queue, visited, lev, v, n)
                      => Level(queue', visited', next, v, n)
      /\ \A i, k \in 1..Len(queue') : i <= k =>
            queue'[i][2] <= queue'[k][2] /\ queue'[k][2] <= queue'[i][2] + 1
      /\ \A v \in visited', i \in 1..Len(queue') : next[v] <= queue'[i][2]
      /\ \A v \in visited' : next[v] <= hop
      /\ \A i \in 1..Len(queue') : queue'[i][2] <= hop + 1
  BY <1>1, <1>2, <1>3, <1>7, <1>8, CoverPop DEF id, hop
<1>10. Level(queue', visited', next, root', 0)
  BY <1>1, <1>3, <1>9 DEF Covered
<1>11. pc' = "expand" => next[current'[1]] = current'[2] /\ current'[2] = hop
  BY <1>1, <1>7 DEF id, hop
<1>12. ASSUME NEW v \in visited', NEW l \in stable, next[v] < depth, v \in Ends(l),
              ~(pc' = "expand" /\ current'[1] = v)
       PROVE  l \in edges /\ Level(queue', visited', next, Neighbor(l, v), next[v] + 1)
  <2>1. v # id
    BY <1>1, <1>5, <1>7, <1>12 DEF id
  <2>2. v \in visited /\ next[v] = lev[v]
    BY <1>1, <1>7, <2>1
  <2>3. l \in edges /\ Level(queue, visited, lev, Neighbor(l, v), lev[v] + 1)
    BY <1>1, <1>3, <1>12, <2>2 DEF Covered
  <2>4. lev[v] + 1 \in Nat
    BY <1>2, <1>3, <2>2, Hops
  <2> QED
    BY <1>9, <2>2, <2>3, <2>4
<1>13. Covered(next)'
  BY <1>1, <1>9, <1>10, <1>11, <1>12 DEF Covered
<1>14. visited' \subseteq nodes' /\ next \in [visited' -> 0..depth']
  BY <1>1, <1>5, <1>7 DEF CoverInv
<1> QED
  BY <1>13, <1>14 DEF CoverInv

LEMMA CoverExpand ==
    ASSUME GraphInv, Around, CoverInv, Expand PROVE CoverInv'
<1> DEFINE id == current[1]
<1> DEFINE hop == current[2]
<1>1. /\ pc = "expand" /\ pc' = "visit" /\ edges' = edges \cup Incident(rels, id)
      /\ UNCHANGED <<root, depth, visited, nodes, known, stable>>
  BY DEF Expand, history
<1> SUFFICES ASSUME depth > 0, root \in known PROVE CoverInv'
  BY <1>1 DEF CoverInv
<1>2. TypeOK /\ id \in visited
  BY <1>1 DEF GraphInv, Places
<1>3. PICK lev \in [visited -> 0..depth] : Covered(lev)
  BY <1>1 DEF CoverInv
<1>4. /\ lev[id] = hop /\ hop \in Nat /\ \A v \in visited : lev[v] <= hop /\ lev[v] \in Nat
      /\ \A i \in 1..Len(queue) : /\ hop <= queue[i][2] /\ queue[i][2] <= hop + 1
                                  /\ queue[i][2] \in Nat
  <2>1. \A v \in visited : lev[v] \in Nat
    BY <1>2, <1>3, Hops
  <2>2. \A i \in 1..Len(queue) : queue[i][2] \in Nat
    BY <1>2, Hops
  <2>3. hop \in Nat
    BY <1>1, <1>2, Hops
  <2> QED
    BY <1>1, <1>2, <1>3, <2>1, <2>2, <2>3 DEF Covered
<1>5. /\ Len(queue) \in Nat /\ Len(queue') \in Nat /\ Len(queue') >= Len(queue)
      /\ \A i \in 1..Len(queue) : queue'[i] = queue[i]
      /\ \A i \in 1..Len(queue') : i > Len(queue) => queue'[i][2] = hop + 1
      /\ \A l \in More : \E i \in 1..Len(queue') :
            queue'[i][1] = Neighbor(l, id) /\ queue'[i][2] = hop + 1
  <2>1. \A l : Further(l)[1] = Neighbor(l, id) /\ Further(l)[2] = hop + 1
    BY DEF Further
  <2> HIDE DEF hop
  <2>2. /\ Len(queue) \in Nat /\ Len(queue') \in Nat /\ Len(queue') >= Len(queue)
        /\ \A i \in 1..Len(queue) : queue'[i] = queue[i]
        /\ \A i \in 1..Len(queue') : i > Len(queue) => \E l \in More : queue'[i] = Further(l)
        /\ \A l \in More : \E i \in 1..Len(queue') : queue'[i] = Further(l)
    BY <1>1, ExpandQueue
  <2> QED
    BY <2>1, <2>2
<1> HIDE DEF hop
<1>6. \A v, n : Level(queue, visited, lev, v, n) => Level(queue', visited', lev, v, n)
  <2>1. \A i \in 1..Len(queue) : i \in 1..Len(queue')
    BY <1>5
  <2> QED
    BY <1>1, <1>5, <2>1 DEF Level
<1>7. \A i, k \in 1..Len(queue') : i <= k =>
         queue'[i][2] <= queue'[k][2] /\ queue'[k][2] <= queue'[i][2] + 1
  <2> SUFFICES ASSUME NEW i \in 1..Len(queue'), NEW k \in 1..Len(queue'), i <= k
               PROVE  queue'[i][2] <= queue'[k][2] /\ queue'[k][2] <= queue'[i][2] + 1
    OBVIOUS
  <2>1. CASE k <= Len(queue)
    <3>1. i \in 1..Len(queue) /\ k \in 1..Len(queue)
      BY <1>5, <2>1
    <3> QED
      BY <1>3, <1>5, <3>1 DEF Covered
  <2>2. CASE k > Len(queue)
    <3>1. queue'[k][2] = hop + 1
      BY <1>5, <2>2
    <3>2. i <= Len(queue) => i \in 1..Len(queue)
      BY <1>5
    <3>3. hop <= queue'[i][2] /\ queue'[i][2] <= hop + 1 /\ queue'[i][2] \in Nat
      BY <1>4, <1>5, <3>2
    <3> QED
      BY <1>4, <3>1, <3>3
  <2> QED
    BY <1>5, <2>1, <2>2
<1>8. \A v \in visited, i \in 1..Len(queue') : lev[v] <= queue'[i][2]
  <2> SUFFICES ASSUME NEW v \in visited, NEW i \in 1..Len(queue') PROVE lev[v] <= queue'[i][2]
    OBVIOUS
  <2>1. i <= Len(queue) => i \in 1..Len(queue)
    BY <1>5
  <2>2. hop <= queue'[i][2] /\ queue'[i][2] \in Nat
    BY <1>4, <1>5, <2>1
  <2> QED
    BY <1>4, <2>2
<1>9. Level(queue', visited', lev, root', 0)
  BY <1>1, <1>3, <1>6 DEF Covered
<1>10. ASSUME NEW v \in visited, NEW l \in stable, lev[v] < depth, v \in Ends(l)
       PROVE  l \in edges' /\ Level(queue', visited', lev, Neighbor(l, v), lev[v] + 1)
  <2>1. CASE v # id
    <3>1. l \in edges /\ Level(queue, visited, lev, Neighbor(l, v), lev[v] + 1)
      BY <1>3, <1>10, <2>1 DEF Covered
    <3> QED
      BY <1>1, <1>6, <3>1
  <2>2. CASE v = id
    <3>1. l \in Incident(rels, id)
      BY <1>1, <1>10, <2>2 DEF Around, Incident, Ends
    <3>2. CASE Neighbor(l, id) \in visited
      <4>1. lev[Neighbor(l, id)] <= lev[id] + 1
        BY <1>4, <3>2
      <4> QED
        BY <1>1, <2>2, <3>1, <3>2, <4>1 DEF Level
    <3>3. CASE Neighbor(l, id) \notin visited
      <4>1. l \in More
        BY <3>1, <3>3 DEF More
      <4>2. PICK i \in 1..Len(queue') : queue'[i][1] = Neighbor(l, id) /\ queue'[i][2] = hop + 1
        BY <1>5, <4>1
      <4>3. queue'[i][2] <= lev[v] + 1
        BY <1>4, <2>2, <4>2
      <4> QED
        BY <1>1, <2>2, <3>1, <4>2, <4>3 DEF Level
    <3> QED
      BY <3>2, <3>3
  <2> QED
    BY <2>1, <2>2
<1>11. Covered(lev)'
  BY <1>1, <1>7, <1>8, <1>9, <1>10 DEF Covered
<1>12. visited' \subseteq nodes' /\ lev \in [visited' -> 0..depth']
  BY <1>1 DEF CoverInv
<1> QED
  BY <1>11, <1>12 DEF CoverInv

LEMMA CoverReturn ==
    ASSUME CoverInv, Return PROVE CoverInv'
<1>1. /\ pc = "visit" /\ pc' = "done"
      /\ UNCHANGED <<root, depth, visited, queue, current, nodes, edges, known, stable>>
  BY DEF Return, locals, history
<1> SUFFICES ASSUME depth > 0, root \in known PROVE CoverInv'
  BY <1>1 DEF CoverInv
<1>2. PICK lev \in [visited -> 0..depth] : Covered(lev)
  BY <1>1 DEF CoverInv
<1>3. \A v, n : Level(queue', visited', lev, v, n) <=> Level(queue, visited, lev, v, n)
  BY <1>1 DEF Level
<1>4. Covered(lev)'
  BY <1>1, <1>2, <1>3 DEF Covered
<1> QED
  BY <1>1, <1>4 DEF CoverInv

LEMMA CoverStep == GraphInv /\ Around /\ CoverInv /\ [Next]_vars => CoverInv'
<1> SUFFICES ASSUME GraphInv, Around, CoverInv, [Next]_vars PROVE CoverInv'
  OBVIOUS
<1>1. CASE Others
  BY <1>1, CoverOthers
<1>2. CASE \E a \in Asset, d \in Depths : Begin(a, d)
  BY <1>2, CoverBegin
<1>3. CASE Searching
  BY <1>3, CoverSkip, CoverVisit, CoverExpand, CoverReturn DEF Searching
<1>4. CASE ReadAssets \/ ReadRels \/ Respond
  <2>1. depth' = 0 \/ pc' = "idle"
    BY <1>4 DEF ReadAssets, ReadRels, Respond, GraphInv, Places
  <2>2. ~(0 > 0)
    OBVIOUS
  <2> QED
    BY <2>1, <2>2 DEF CoverInv
<1> QED
  BY <1>1, <1>2, <1>3, <1>4, NextIs

\* Once the queue is empty, what n hops along relationships that stayed lead
\* to has been visited, at hop n or before.
LEMMA CoverFinds == ASSUME GraphInv, CoverInv PROVE ReachFound
<1> SUFFICES ASSUME pc = "done", depth > 0, root \in known
             PROVE  /\ Ball(stable, root, depth) \subseteq nodes
                    /\ \A l \in stable : Ends(l) \cap Ball(stable, root, depth - 1) # {} => l \in edges
  BY DEF ReachFound, Answered
<1>1. visited \subseteq nodes /\ queue = << >> /\ TypeOK
  BY DEF CoverInv, GraphInv, Places
<1>2. PICK lev \in [visited -> 0..depth] : Covered(lev)
  BY DEF CoverInv
<1>3. depth \in 0..5 /\ depth \in Nat /\ depth - 1 \in 0..4 /\ depth - 1 + 1 = depth
  BY <1>1, Hops
<1> DEFINE Near(n) == {v \in visited : lev[v] <= n}
<1>4. \A v, n : Level(queue, visited, lev, v, n) => v \in Near(n)
  <2>1. Len(queue) = 0
    BY <1>1
  <2>2. 1..0 = {}
    OBVIOUS
  <2> QED
    BY <2>1, <2>2 DEF Level
<1>5. \A v \in visited : lev[v] \in 0..depth /\ lev[v] \in Nat
  BY <1>2, <1>3
<1>6. Ball(stable, root, 0) \subseteq Near(0)
  BY <1>2, <1>4, BallIs DEF Covered
<1>7. \A v \in visited, l \in stable : lev[v] < depth /\ v \in Ends(l) =>
         l \in edges /\ Neighbor(l, v) \in Near(lev[v] + 1)
  BY <1>2, <1>4 DEF Covered
<1>8. ASSUME NEW n \in 0..4, n < depth, Ball(stable, root, n) \subseteq Near(n)
      PROVE  /\ Ball(stable, root, n + 1) \subseteq Near(n + 1)
             /\ \A l \in stable : Ends(l) \cap Ball(stable, root, n) # {} => l \in edges
  <2>1. \A v \in Near(n) : v \in visited /\ lev[v] <= n /\ lev[v] < depth /\ v \in Near(n + 1)
    BY <1>3, <1>5, <1>8
  <2>2. \A v \in Near(n) : \A x : x \in Near(lev[v] + 1) => x \in Near(n + 1)
    BY <1>5, <2>1
  <2>3. ASSUME NEW l \in stable, NEW v \in Ends(l), v \in Ball(stable, root, n)
        PROVE  l \in edges /\ Ends(l) \subseteq Near(n + 1)
    <3>1. v \in Near(n)
      BY <1>8, <2>3
    <3>2. l \in edges /\ Neighbor(l, v) \in Near(lev[v] + 1)
      BY <1>7, <2>1, <2>3, <3>1
    <3>3. Ends(l) \subseteq {v, Neighbor(l, v)}
      BY <2>3 DEF Ends, Neighbor
    <3>4. v \in Near(n + 1) /\ Neighbor(l, v) \in Near(n + 1)
      BY <2>1, <2>2, <3>1, <3>2
    <3> HIDE DEF Near
    <3> QED
      BY <3>2, <3>3, <3>4
  <2>4. Ball(stable, root, n + 1) = Grow(stable, Ball(stable, root, n))
    BY BallIs
  <2>5. Ball(stable, root, n) \subseteq Near(n + 1)
    BY <1>8, <2>1
  <2> HIDE DEF Near
  <2>6. Ball(stable, root, n + 1) \subseteq Near(n + 1)
    BY <2>3, <2>4, <2>5 DEF Grow
  <2> QED
    BY <2>3, <2>6
<1> HIDE DEF Near
<1>9. \A n \in 0..5 : n <= depth => Ball(stable, root, n) \subseteq Near(n)
  <2>1. \A n \in 0..4 : n + 1 <= depth /\ (n <= depth => Ball(stable, root, n) \subseteq Near(n))
                           => Ball(stable, root, n + 1) \subseteq Near(n + 1)
    BY <1>3, <1>8
  <2>2. \A n \in 0..4 : n + 1 <= depth => n <= depth
    BY <1>3
  <2>3. /\ 0 \in 0..4 /\ 1 \in 0..4 /\ 2 \in 0..4 /\ 3 \in 0..4 /\ 4 \in 0..4
        /\ 0 + 1 = 1 /\ 1 + 1 = 2 /\ 2 + 1 = 3 /\ 3 + 1 = 4 /\ 4 + 1 = 5
    OBVIOUS
  <2>4. /\ 1 <= depth => Ball(stable, root, 1) \subseteq Near(1)
        /\ 2 <= depth => Ball(stable, root, 2) \subseteq Near(2)
        /\ 3 <= depth => Ball(stable, root, 3) \subseteq Near(3)
        /\ 4 <= depth => Ball(stable, root, 4) \subseteq Near(4)
        /\ 5 <= depth => Ball(stable, root, 5) \subseteq Near(5)
    <3>1. \A n \in 0..4 : n + 1 <= depth /\ Ball(stable, root, n) \subseteq Near(n)
                             => Ball(stable, root, n + 1) \subseteq Near(n + 1)
      BY <2>1
    <3>2. 1 <= depth => Ball(stable, root, 1) \subseteq Near(1)
      BY <1>6, <2>3, <3>1, Zenon
    <3>3. 2 <= depth => Ball(stable, root, 2) \subseteq Near(2)
      BY <2>2, <2>3, <3>1, <3>2, Zenon
    <3>4. 3 <= depth => Ball(stable, root, 3) \subseteq Near(3)
      BY <2>2, <2>3, <3>1, <3>3, Zenon
    <3>5. 4 <= depth => Ball(stable, root, 4) \subseteq Near(4)
      BY <2>2, <2>3, <3>1, <3>4, ZenonT(30)
    <3>6. 5 <= depth => Ball(stable, root, 5) \subseteq Near(5)
      BY <2>2, <2>3, <3>1, <3>5
    <3> QED
      BY <3>2, <3>3, <3>4, <3>5, <3>6
  <2>5. \A n \in 0..5 : n = 0 \/ n = 1 \/ n = 2 \/ n = 3 \/ n = 4 \/ n = 5
    OBVIOUS
  <2> QED
    BY <1>6, <2>4, <2>5
<1>10. Ball(stable, root, depth) \subseteq Near(depth)
  BY <1>3, <1>9
<1>11. Near(depth) \subseteq visited
  BY DEF Near
<1>12. depth - 1 < depth /\ Ball(stable, root, depth - 1) \subseteq Near(depth - 1)
  BY <1>3, <1>9
<1> QED
  BY <1>1, <1>3, <1>8, <1>10, <1>11, <1>12

\* A subgraph misses nothing within reach along relationships that were there
\* all the time, for a root that existed when the request arrived.
THEOREM ReachIsFound == Spec => []ReachFound
<1>1. Init => Around /\ CoverInv
  BY DEF Init, Around, CoverInv
<1> QED
  BY <1>1, GraphInit, GraphInductive, AroundStep, CoverStep, CoverFinds, PTL DEF Spec
=============================================================================
