------------------------ MODULE RelationshipsProofs ------------------------
(***************************************************************************)
(* Theorems of Relationships.                                              *)
(***************************************************************************)
EXTENDS Relationships, TLAPS

-----------------------------------------------------------------------------
(* Types.                                                                  *)

LEMMA Actors ==
    /\ \A s \in Session : s \in Actor /\ s \notin Import
    /\ \A w \in Import : w \in Actor /\ w \notin Session /\ w # "post"
BY ActorAssumption DEF Actor

LEMMA HintTyped ==
    ASSUME NEW w \in Import, NEW i \in 1..Len(Hints[w])
    PROVE  /\ Hints[w][i] \in Key
           /\ OwnerOf[Hints[w][i].source] \in Org
           /\ OwnerOf[Hints[w][i].target] = OwnerOf[Hints[w][i].source]
<1>1. Hints[w] \in Seq(Key)
  BY HintsAssumption
<1>2. Hints[w][i] \in Key
  BY <1>1
<1>3. Hints[w][i].source \in Asset
  BY <1>2, KeyAssumption
<1> QED
  BY <1>2, <1>3, HintsAssumption, AssetAssumption

LEMMA InitTyped == Init => TypeOK
<1> SUFFICES ASSUME Init PROVE TypeOK
  OBVIOUS
<1>1. \A s \in Session : SessionOK(s)
  BY Actors DEF Init, SessionOK
<1>2. \A w \in Import : ImportOK(w)
  BY Actors DEF Init, ImportOK
<1> QED
  BY <1>1, <1>2, BoundsAssumption DEF Init, TypeOK

LEMMA CreateTyped ==
    ASSUME TypeOK, NEW s \in Session, NEW u \in User, NEW k \in Key, Create(s, u, k)
    PROVE  TypeOK'
<1> DEFINE row == [id |-> <<"post", created + 1>>, org |-> u.org, key |-> k]
<1>1. row \in Row
  BY UserAssumption DEF Row, Id, TypeOK, Create
<1> HIDE DEF row
<1>2. /\ pc' = [pc EXCEPT ![s] = "insert"] /\ request' = [request EXCEPT ![s] = row]
      /\ UNCHANGED <<rows, next, inserted, deleted, faults, told, gone, cut>>
      /\ created < MaxCreates /\ created' = created + 1 /\ pc[s] = "idle"
  BY DEF Create, Begin, Goto, tx, history, row
<1>3. \A q \in Session : SessionOK(q)'
  BY <1>1, <1>2, Actors DEF TypeOK, SessionOK
<1>4. \A w \in Import : ImportOK(w)'
  BY <1>2, Actors DEF TypeOK, ImportOK
<1> QED
  BY <1>2, <1>3, <1>4, BoundsAssumption DEF TypeOK

LEMMA DeleteTyped ==
    ASSUME TypeOK, NEW s \in Session, NEW u \in User, NEW r \in rows \cup told \cup gone,
           Delete(s, u, r.id)
    PROVE  TypeOK'
<1> DEFINE req == [id |-> r.id, org |-> u.org]
<1>1. req \in [id : Id, org : Org]
  BY UserAssumption DEF Row, TypeOK
<1> HIDE DEF req
<1>2. /\ pc' = [pc EXCEPT ![s] = "delete"] /\ request' = [request EXCEPT ![s] = req]
      /\ UNCHANGED <<rows, created, next, inserted, deleted, faults, told, gone, cut>>
      /\ pc[s] = "idle"
  BY DEF Delete, Begin, Goto, tx, history, req
<1>3. \A q \in Session : SessionOK(q)'
  BY <1>1, <1>2, Actors DEF TypeOK, SessionOK
<1>4. \A w \in Import : ImportOK(w)'
  BY <1>2, Actors DEF TypeOK, ImportOK
<1> QED
  BY <1>2, <1>3, <1>4 DEF TypeOK

\* After the end of an actor.
LEMMA EndTyped ==
    ASSUME TypeOK, NEW x \in Actor, NEW where, End(x, where),
           x \in Session => where = "idle",
           x \in Import => where \in {"done", "failed"},
           next' = next
    PROVE  /\ DOMAIN pc' = Actor /\ DOMAIN request' = Session
           /\ inserted' \in [Actor -> SUBSET Row] /\ deleted' \in [Actor -> SUBSET Row]
           /\ \A q \in Session : SessionOK(q)'
           /\ \A w \in Import : ImportOK(w)'
<1>1. \A q \in Session : SessionOK(q)'
  BY Actors DEF TypeOK, SessionOK, End
<1>2. \A w \in Import : ImportOK(w)'
  BY Actors DEF TypeOK, ImportOK, End
<1> QED
  BY <1>1, <1>2 DEF TypeOK, End

LEMMA InsertTyped ==
    ASSUME TypeOK, NEW s \in Session, Insert(s)
    PROVE  TypeOK'
<1>1. s \in Actor /\ s \notin Import /\ pc[s] = "insert" /\ request[s] \in Row
  BY Actors DEF Insert, TypeOK, SessionOK
<1>2. UNCHANGED <<rows, created, next, faults, told, gone, cut>>
  BY DEF Insert, history
<1>3. CASE End(s, "idle")
  BY <1>1, <1>2, <1>3, EndTyped DEF TypeOK
<1>4. CASE /\ inserted' = [inserted EXCEPT ![s] = {request[s]}]
           /\ pc' = [pc EXCEPT ![s] = "respond"]
           /\ UNCHANGED <<request, deleted>>
  <2>1. \A q \in Session : SessionOK(q)'
    BY <1>1, <1>4, Actors DEF TypeOK, SessionOK
  <2>2. \A w \in Import : ImportOK(w)'
    BY <1>1, <1>2, <1>4, Actors DEF TypeOK, ImportOK
  <2> QED
    BY <1>1, <1>2, <1>4, <2>1, <2>2 DEF TypeOK
<1> QED
  BY <1>3, <1>4 DEF Insert, Goto

LEMMA DeleteRowTyped ==
    ASSUME TypeOK, NEW s \in Session, DeleteRow(s)
    PROVE  TypeOK'
<1>1. s \in Actor /\ s \notin Import /\ pc[s] = "delete" /\ Wanted(s) \subseteq Row
  BY Actors DEF DeleteRow, TypeOK, Wanted
<1>2. UNCHANGED <<rows, created, next, faults, told, gone, cut>>
  BY DEF DeleteRow, history
<1>3. CASE End(s, "idle")
  BY <1>1, <1>2, <1>3, EndTyped DEF TypeOK
<1>4. CASE /\ deleted' = [deleted EXCEPT ![s] = Wanted(s)]
           /\ pc' = [pc EXCEPT ![s] = "respond"]
           /\ UNCHANGED <<request, inserted>>
  <2>1. \A q \in Session : SessionOK(q)'
    BY <1>1, <1>4, Actors DEF TypeOK, SessionOK
  <2>2. \A w \in Import : ImportOK(w)'
    BY <1>1, <1>2, <1>4, Actors DEF TypeOK, ImportOK
  <2> QED
    BY <1>1, <1>2, <1>4, <2>1, <2>2 DEF TypeOK
<1> QED
  BY <1>3, <1>4 DEF DeleteRow, Goto

LEMMA RespondTyped ==
    ASSUME TypeOK, NEW s \in Session, Respond(s)
    PROVE  TypeOK'
<1>1. /\ s \in Actor /\ s \notin Import /\ pc' = [pc EXCEPT ![s] = "commit"] /\ pc[s] = "respond"
      /\ told' = told \cup inserted[s] /\ gone' = gone \cup deleted[s]
      /\ UNCHANGED <<rows, created, request, next, inserted, deleted, faults, cut>>
  BY Actors DEF Respond, Goto, tx
<1>2. \A q \in Session : SessionOK(q)'
  BY <1>1, Actors DEF TypeOK, SessionOK
<1>3. \A w \in Import : ImportOK(w)'
  BY <1>1, Actors DEF TypeOK, ImportOK
<1> QED
  BY <1>1, <1>2, <1>3 DEF TypeOK

LEMMA CommitTyped ==
    ASSUME TypeOK, NEW s \in Session, Commit(s)
    PROVE  TypeOK'
<1>1. s \in Actor /\ s \notin Import /\ inserted[s] \subseteq Row /\ deleted[s] \subseteq Row
  BY Actors DEF TypeOK
<1>2. /\ rows' = (rows \ deleted[s]) \cup inserted[s] /\ End(s, "idle")
      /\ UNCHANGED <<created, next, faults, told, gone>>
  BY DEF Commit
<1>3. Deletion(s) \subseteq Org \X Key
  BY <1>1 DEF Deletion, Row
<1>4. cut' \in [Import -> SUBSET (Org \X Key)]
  BY <1>3 DEF Commit, TypeOK
<1> QED
  BY <1>1, <1>2, <1>4, EndTyped DEF TypeOK

LEMMA DieTyped ==
    ASSUME TypeOK, NEW s \in Session, Die(s)
    PROVE  TypeOK'
<1>1. s \in Actor /\ s \notin Import
  BY Actors
<1> QED
  BY <1>1, EndTyped, BoundsAssumption DEF Die, TypeOK

LEMMA BeginPhaseTyped ==
    ASSUME TypeOK, NEW w \in Import, BeginPhase(w)
    PROVE  TypeOK'
<1>1. /\ w \in Actor /\ w \notin Session /\ pc' = [pc EXCEPT ![w] = "relate"]
      /\ UNCHANGED <<rows, created, request, next, inserted, deleted, faults, told, gone, cut>>
  BY Actors DEF BeginPhase, Goto, tx, history
<1>2. \A q \in Session : SessionOK(q)'
  BY <1>1, Actors DEF TypeOK, SessionOK
<1>3. \A v \in Import : ImportOK(v)'
  BY <1>1, Actors DEF TypeOK, ImportOK
<1> QED
  BY <1>1, <1>2, <1>3 DEF TypeOK

\* The row an import inserts.
HintRow(w) == [id |-> <<w, next[w]>>, org |-> HintOrg(w), key |-> Hint(w)]

LEMMA HintRowTyped ==
    ASSUME TypeOK, NEW w \in Import, next[w] <= Len(Hints[w])
    PROVE  /\ HintRow(w) \in Row /\ HintOrg(w) \in Org /\ Hint(w) \in Key
           /\ next[w] \in 1..Len(Hints[w])
           /\ OwnerOf[Hint(w).source] = HintOrg(w) /\ OwnerOf[Hint(w).target] = HintOrg(w)
<1>0. Len(Hints[w]) \in Nat
  BY HintsAssumption
<1>1. next[w] \in 1..Len(Hints[w])
  BY <1>0 DEF TypeOK
<1>2. HintOrg(w) \in Org /\ Hint(w) \in Key /\ <<w, next[w]>> \in Id
  BY <1>1, HintTyped DEF HintOrg, Hint, Id
<1> QED
  BY <1>1, <1>2, HintTyped DEF HintRow, Row, HintOrg, Hint

LEMMA RelateTyped ==
    ASSUME TypeOK, NEW w \in Import, Relate(w)
    PROVE  TypeOK'
<1>1. /\ w \in Actor /\ w \notin Session /\ pc[w] = "relate" /\ HintRow(w) \in Row
      /\ inserted' \in {inserted, [inserted EXCEPT ![w] = @ \cup {HintRow(w)}]}
      /\ next' = [next EXCEPT ![w] = @ + 1]
      /\ UNCHANGED <<rows, created, pc, request, deleted, faults, told, gone, cut>>
  BY Actors, HintRowTyped DEF Relate, HintRow, history
<1>2. /\ inserted' \in [Actor -> SUBSET Row]
      /\ \A x \in Actor \ {w} : inserted'[x] = inserted[x]
  BY <1>1 DEF TypeOK
<1>3. \A q \in Session : SessionOK(q)'
  BY <1>1, <1>2, Actors DEF TypeOK, SessionOK
<1>4. \A v \in Import : ImportOK(v)'
  BY <1>1, <1>2, Actors DEF TypeOK, ImportOK
<1> QED
  BY <1>1, <1>2, <1>3, <1>4 DEF TypeOK

LEMMA CommitPhaseTyped ==
    ASSUME TypeOK, NEW w \in Import, CommitPhase(w)
    PROVE  TypeOK'
<1>1. w \in Actor /\ w \notin Session /\ inserted[w] \subseteq Row
  BY Actors DEF TypeOK
<1> QED
  BY <1>1, EndTyped DEF CommitPhase, TypeOK

LEMMA FailPhaseTyped ==
    ASSUME TypeOK, NEW w \in Import, FailPhase(w), faults' \in 0..MaxFaults
    PROVE  TypeOK'
<1>1. w \in Actor /\ w \notin Session
  BY Actors
<1> QED
  BY <1>1, EndTyped DEF FailPhase, TypeOK

LEMMA NextTyped == TypeOK /\ [Next]_vars => TypeOK'
<1> SUFFICES ASSUME TypeOK, [Next]_vars PROVE TypeOK'
  OBVIOUS
<1>1. ASSUME NEW s \in Session, SessionStep(s) PROVE TypeOK'
  BY <1>1, InsertTyped, DeleteRowTyped, RespondTyped, CommitTyped DEF SessionStep
<1>2. ASSUME NEW w \in Import, LosePhase(w) PROVE TypeOK'
  BY <1>2, FailPhaseTyped, BoundsAssumption DEF LosePhase, TypeOK
<1>3. ASSUME NEW w \in Import, DeadlockVictim(w) PROVE TypeOK'
  BY <1>3, FailPhaseTyped DEF DeadlockVictim, TypeOK
<1>4. CASE UNCHANGED vars
  BY <1>4 DEF vars, locals, tx, history, TypeOK, SessionOK, ImportOK
<1> QED
  BY <1>1, <1>2, <1>3, <1>4, CreateTyped, DeleteTyped, DieTyped, BeginPhaseTyped,
     RelateTyped, CommitPhaseTyped DEF Next

\* Every actor has at each point what its code gives it, in every interleaving
\* of requests and imports.
THEOREM TypeCorrect == Spec => []TypeOK
BY InitTyped, NextTyped, PTL DEF Spec

-----------------------------------------------------------------------------
(* The inductive invariant.                                                *)

\* Stored, or in a transaction.
Alive(r) == r \in rows \/ \E x \in Actor : r \in inserted[x]
Mentioned(r) == Alive(r) \/ r \in gone

\* The unique key, among all that is stored and all that may be.
KeyUnique == \A q, r \in Row : Alive(q) /\ Alive(r) /\ Same(q, r.org, r.key) => q = r

\* A row is inserted by one actor, and is new.
InsertsApart ==
    \A x \in Actor : \A r \in inserted[x] :
        /\ r \notin rows /\ r \notin gone
        /\ \A y \in Actor \ {x} : r \notin inserted[y]

\* A row is deleted by one actor, and is stored.
DeletesApart ==
    \A x \in Actor : \A r \in deleted[x] :
        /\ r \in rows
        /\ \A y \in Actor \ {x} : r \notin deleted[y]

\* Ids drawn for requests, and all those in use.
Drawn(id) == \E n \in 1..created : id = <<"post", n>>
Used(id) == Drawn(id) \/ \E w \in Import : \E n \in 1..(next[w] - 1) : id = <<w, n>>

\* The id of a row about to be inserted is its own.
IdsDiffer ==
    /\ \A r \in Row : Mentioned(r) => Used(r.id)
    /\ \A s \in Session : pc[s] = "insert" =>
          /\ Drawn(request[s].id)
          /\ \A r \in Row : Mentioned(r) => r.id # request[s].id
          /\ \A t \in Session \ {s} : pc[t] = "insert" => request[t].id # request[s].id

\* Both ends of a row belong to its organization.
Owned(r) == OwnerOf[r.key.source] = r.org /\ OwnerOf[r.key.target] = r.org

RowsOwned == \A r \in Row : Alive(r) => Owned(r)
RequestsOwned == \A s \in Session : pc[s] = "insert" => Owned(request[s])

\* What has been answered, and what it rests on.
ToldKept ==
    \A r \in told : r \in rows \/ r \in gone \/ \E s \in Session : r \in inserted[s]

GoneGoes ==
    \A r \in gone : r \in rows => \E s \in Session : pc[s] = "commit" /\ r \in deleted[s]

CommitsAnswered ==
    \A s \in Session : pc[s] = "commit" => deleted[s] \subseteq gone

\* Import w has related its i-th hint, or met its row, or seen it deleted.
Related(w, i) ==
    LET org == OwnerOf[Hints[w][i].source]
    IN \/ \E r \in rows \cup inserted[w] : Same(r, org, Hints[w][i])
       \/ <<org, Hints[w][i]>> \in cut[w]

HintsRelated ==
    \A w \in Import : pc[w] = "relate" =>
        \A i \in 1..Len(Hints[w]) : i < next[w] => Related(w, i)

\* About the table and the transactions.
RowsInv == KeyUnique /\ InsertsApart /\ DeletesApart /\ RowsOwned /\ ToldKept
\* About what the actors will do with them.
ActorsInv == IdsDiffer /\ RequestsOwned /\ GoneGoes /\ CommitsAnswered /\ DeletedOnce

IInv == TypeOK /\ RowsInv /\ ActorsInv /\ HintsRelated

-----------------------------------------------------------------------------
(* What the handlers do to the table and to the transactions.              *)

\* Neither the table nor a transaction changes.
Quiet == UNCHANGED <<rows, inserted, deleted, told, gone>>

\* x lets go of its transaction.
Drops(x) ==
    /\ inserted' = [inserted EXCEPT ![x] = {}]
    /\ deleted' = [deleted EXCEPT ![x] = {}]

\* x inserts a row that nothing conflicts with.
Adds(x, row) ==
    /\ ~\E r \in rows \cup inserted[x] : Same(r, row.org, row.key)
    /\ \A y \in Actor \ {x} : \A r \in inserted[y] : ~Same(r, row.org, row.key)
    /\ inserted' = [inserted EXCEPT ![x] = @ \cup {row}]
    /\ UNCHANGED <<rows, deleted, told, gone, cut>>

LEMMA InsertSplit ==
    ASSUME TypeOK, NEW s \in Session, Insert(s)
    PROVE  /\ s \in Actor /\ pc[s] = "insert" /\ request[s] \in Row
           /\ next' = next /\ created' = created /\ cut' = cut
           /\ \/ Quiet /\ pc' = [pc EXCEPT ![s] = "idle"]
                 /\ \A q \in Session \ {s} : request'[q] = request[q]
              \/ Adds(s, request[s]) /\ pc' = [pc EXCEPT ![s] = "respond"] /\ request' = request
<1>1. /\ s \in Actor /\ s \notin Import /\ pc[s] = "insert" /\ request[s] \in Row
      /\ inserted[s] = {} /\ deleted[s] = {}
      /\ UNCHANGED <<rows, created, next, faults, told, gone, cut>>
  BY Actors DEF Insert, TypeOK, SessionOK, history
<1>2. CASE End(s, "idle")
  BY <1>1, <1>2 DEF End, Quiet, TypeOK
<1>3. CASE ~End(s, "idle")
  <2>1. /\ ~Taken(s, request[s].org, request[s].key)
        /\ InsertWaitsFor(s, request[s].org, request[s].key) = {}
        /\ inserted' = [inserted EXCEPT ![s] = {request[s]}]
        /\ pc' = [pc EXCEPT ![s] = "respond"] /\ UNCHANGED <<request, deleted>>
    BY <1>3 DEF Insert, Goto
  <2>2. Adds(s, request[s])
    BY <1>1, <2>1 DEF Adds, Taken, InsertWaitsFor, TypeOK
  <2> QED
    BY <1>1, <2>1, <2>2
<1> QED
  BY <1>2, <1>3

LEMMA DeleteRowSplit ==
    ASSUME TypeOK, NEW s \in Session, DeleteRow(s)
    PROVE  /\ s \in Actor /\ pc[s] = "delete" /\ inserted[s] = {} /\ deleted[s] = {}
           /\ UNCHANGED <<rows, inserted, told, gone, next, created, cut>>
           /\ \A q \in Session \ {s} : request'[q] = request[q]
           /\ \/ deleted' = deleted /\ pc' = [pc EXCEPT ![s] = "idle"]
              \/ /\ deleted' = [deleted EXCEPT ![s] = Wanted(s)]
                 /\ Wanted(s) \subseteq rows
                 /\ \A y \in Actor \ {s} : Wanted(s) \cap deleted[y] = {}
                 /\ pc' = [pc EXCEPT ![s] = "respond"]
<1>1. /\ s \in Actor /\ s \notin Import /\ pc[s] = "delete" /\ inserted[s] = {} /\ deleted[s] = {}
      /\ UNCHANGED <<rows, created, next, faults, told, gone, cut>>
  BY Actors DEF DeleteRow, TypeOK, SessionOK, history
<1>2. CASE End(s, "idle")
  BY <1>1, <1>2 DEF End, TypeOK
<1>3. CASE ~End(s, "idle")
  BY <1>1, <1>3 DEF DeleteRow, Goto, DeleteWaitsFor, Wanted
<1> QED
  BY <1>2, <1>3

LEMMA RelateSplit ==
    ASSUME TypeOK, NEW w \in Import, Relate(w)
    PROVE  /\ w \in Actor /\ HintRow(w) \in Row
           /\ next' = [next EXCEPT ![w] = @ + 1]
           /\ UNCHANGED <<created, pc, request, cut>>
           /\ \/ Adds(w, HintRow(w))
              \/ Quiet /\ Taken(w, HintOrg(w), Hint(w))
<1>1. /\ w \in Actor /\ HintRow(w) \in Row /\ next' = [next EXCEPT ![w] = @ + 1]
      /\ InsertWaitsFor(w, HintOrg(w), Hint(w)) = {}
      /\ UNCHANGED <<rows, created, pc, request, deleted, told, gone, cut>>
  BY Actors, HintRowTyped DEF Relate, history
<1>2. CASE Taken(w, HintOrg(w), Hint(w))
  BY <1>1, <1>2 DEF Relate, Quiet
<1>3. CASE ~Taken(w, HintOrg(w), Hint(w))
  <2>1. inserted' = [inserted EXCEPT ![w] = @ \cup {HintRow(w)}]
    BY <1>3 DEF Relate, HintRow
  <2>2. HintRow(w).org = HintOrg(w) /\ HintRow(w).key = Hint(w)
    BY DEF HintRow
  <2>3. Adds(w, HintRow(w))
    BY <1>1, <1>3, <2>1, <2>2 DEF Adds, Taken, InsertWaitsFor
  <2> QED
    BY <1>1, <2>3
<1> QED
  BY <1>2, <1>3

LEMMA CreateSplit ==
    ASSUME TypeOK, NEW s \in Session, NEW u \in User, NEW k \in Key, Create(s, u, k)
    PROVE  /\ Quiet /\ s \in Actor /\ pc[s] = "idle" /\ pc' = [pc EXCEPT ![s] = "insert"]
           /\ created' = created + 1 /\ next' = next /\ cut' = cut
           /\ request' = [request EXCEPT ![s] = request'[s]]
           /\ request'[s].id = <<"post", created + 1>> /\ Owned(request'[s])
<1> DEFINE row == [id |-> <<"post", created + 1>>, org |-> u.org, key |-> k]
<1>1. row.id = <<"post", created + 1>> /\ Owned(row)
  BY DEF Create, Exists, Owned
<1> HIDE DEF row
<1>2. /\ pc' = [pc EXCEPT ![s] = "insert"] /\ request' = [request EXCEPT ![s] = row]
      /\ UNCHANGED <<rows, next, inserted, deleted, faults, told, gone, cut>>
      /\ created' = created + 1 /\ pc[s] = "idle"
  BY DEF Create, Begin, Goto, tx, history, row
<1> QED
  BY <1>1, <1>2, Actors DEF Quiet, TypeOK

LEMMA DeleteSplit ==
    ASSUME TypeOK, NEW s \in Session, NEW u \in User, NEW id, Delete(s, u, id)
    PROVE  /\ Quiet /\ s \in Actor /\ pc[s] = "idle" /\ pc' = [pc EXCEPT ![s] = "delete"]
           /\ created' = created /\ next' = next /\ cut' = cut
           /\ \A q \in Session \ {s} : request'[q] = request[q]
BY Actors DEF Delete, Begin, Goto, tx, history, Quiet, TypeOK

LEMMA RespondSplit ==
    ASSUME TypeOK, NEW s \in Session, Respond(s)
    PROVE  /\ s \in Actor /\ pc[s] = "respond" /\ pc' = [pc EXCEPT ![s] = "commit"]
           /\ told' = told \cup inserted[s] /\ gone' = gone \cup deleted[s]
           /\ UNCHANGED <<rows, created, request, next, inserted, deleted, cut>>
BY Actors DEF Respond, Goto, tx

LEMMA CommitSplit ==
    ASSUME TypeOK, NEW s \in Session, Commit(s)
    PROVE  /\ s \in Actor /\ pc[s] = "commit" /\ pc' = [pc EXCEPT ![s] = "idle"]
           /\ rows' = (rows \ deleted[s]) \cup inserted[s] /\ Drops(s)
           /\ UNCHANGED <<created, next, told, gone>>
           /\ \A q \in Session \ {s} : request'[q] = request[q]
BY Actors DEF Commit, End, Drops, TypeOK

LEMMA DieSplit ==
    ASSUME TypeOK, NEW s \in Session, Die(s)
    PROVE  /\ s \in Actor /\ pc' = [pc EXCEPT ![s] = "idle"] /\ Drops(s)
           /\ told' = told \ inserted[s] /\ gone' = gone \ deleted[s]
           /\ UNCHANGED <<rows, created, next, cut>>
           /\ \A q \in Session \ {s} : request'[q] = request[q]
BY Actors DEF Die, End, Drops, TypeOK

LEMMA BeginPhaseSplit ==
    ASSUME TypeOK, NEW w \in Import, BeginPhase(w)
    PROVE  /\ Quiet /\ w \in Actor /\ pc[w] = "waiting" /\ pc' = [pc EXCEPT ![w] = "relate"]
           /\ UNCHANGED <<created, next, cut, request>>
BY Actors DEF BeginPhase, Goto, tx, history, Quiet

\* Both ends of the phase of an import.
LEMMA PhaseSplit ==
    ASSUME TypeOK, NEW w \in Import, CommitPhase(w) \/ FailPhase(w)
    PROVE  /\ w \in Actor /\ pc'[w] \in {"done", "failed"}
           /\ pc' = [pc EXCEPT ![w] = pc'[w]] /\ Drops(w)
           /\ rows' \in {rows, rows \cup inserted[w]} /\ deleted[w] = {}
           /\ \A v \in Import \ {w} : cut'[v] = cut[v]
           /\ UNCHANGED <<created, next, told, gone>>
           /\ \A q \in Session : request'[q] = request[q]
<1>1. w \in Actor /\ w \notin Session /\ deleted[w] = {}
  BY Actors DEF TypeOK, ImportOK
<1>2. ASSUME NEW where \in {"done", "failed"}, End(w, where)
      PROVE  /\ pc'[w] \in {"done", "failed"} /\ pc' = [pc EXCEPT ![w] = pc'[w]] /\ Drops(w)
             /\ \A q \in Session : request'[q] = request[q]
  BY <1>1, <1>2 DEF End, Drops, TypeOK
<1>3. CASE CommitPhase(w)
  BY <1>1, <1>2, <1>3 DEF CommitPhase, TypeOK
<1>4. CASE FailPhase(w)
  BY <1>1, <1>2, <1>4 DEF FailPhase, TypeOK
<1> QED
  BY <1>3, <1>4

-----------------------------------------------------------------------------
(* The table and the transactions.                                         *)

LEMMA QuietRows ==
    ASSUME RowsInv, Quiet
    PROVE  RowsInv' /\ \A r \in Row : Mentioned(r)' => Mentioned(r)
BY DEF RowsInv, Quiet, KeyUnique, InsertsApart, DeletesApart, RowsOwned, ToldKept, Alive, Mentioned

LEMMA AddsRows ==
    ASSUME TypeOK, RowsInv, NEW x \in Actor, NEW row \in Row, Adds(x, row),
           ~Mentioned(row), Owned(row)
    PROVE  RowsInv' /\ \A r \in Row : Mentioned(r)' => Mentioned(r) \/ r = row
<1>1. \A r \in Row : Alive(r)' => Alive(r) \/ r = row
  BY DEF Adds, Alive, TypeOK
<1>2. \A r \in Row : Alive(r) => ~Same(r, row.org, row.key)
  BY DEF Adds, Alive
<1>3. KeyUnique'
  BY <1>1, <1>2 DEF KeyUnique, RowsInv, Same
<1>4. InsertsApart'
  <2>1. /\ row \notin rows /\ row \notin gone /\ \A y \in Actor : row \notin inserted[y]
        /\ inserted' = [inserted EXCEPT ![x] = @ \cup {row}]
        /\ rows' = rows /\ gone' = gone
    BY DEF Mentioned, Alive, Adds
  <2> QED
    BY <2>1 DEF InsertsApart, RowsInv, TypeOK
<1>5. DeletesApart'
  BY DEF Adds, DeletesApart, RowsInv
<1>6. RowsOwned'
  BY <1>1 DEF RowsOwned, RowsInv, Owned
<1>7. ToldKept'
  BY DEF Adds, ToldKept, RowsInv, TypeOK
<1>8. \A r \in Row : Mentioned(r)' => Mentioned(r) \/ r = row
  BY <1>1 DEF Mentioned, Adds
<1> QED
  BY <1>3, <1>4, <1>5, <1>6, <1>7, <1>8 DEF RowsInv

LEMMA DeleteRowRows ==
    ASSUME TypeOK, RowsInv, NEW s \in Session, DeleteRow(s)
    PROVE  RowsInv' /\ \A r \in Row : Mentioned(r)' => Mentioned(r)
<1>1. UNCHANGED <<rows, inserted, told, gone>>
  BY DeleteRowSplit
<1>2. DeletesApart'
  BY DeleteRowSplit DEF DeletesApart, RowsInv, TypeOK
<1> QED
  BY <1>1, <1>2 DEF RowsInv, KeyUnique, InsertsApart, RowsOwned, ToldKept, Alive, Mentioned

LEMMA RespondRows ==
    ASSUME TypeOK, RowsInv, NEW s \in Session, Respond(s)
    PROVE  RowsInv' /\ \A r \in Row : Mentioned(r)' => Mentioned(r)
<1>1. \A r \in Row : Alive(r)' <=> Alive(r)
  BY RespondSplit DEF Alive
<1>2. InsertsApart'
  BY RespondSplit DEF InsertsApart, DeletesApart, RowsInv
<1>3. DeletesApart'
  BY RespondSplit DEF DeletesApart, RowsInv
<1>4. ToldKept'
  BY RespondSplit DEF ToldKept, RowsInv
<1>5. \A r \in Row : Mentioned(r)' => Mentioned(r)
  BY <1>1, RespondSplit DEF Mentioned, DeletesApart, RowsInv, Alive
<1> QED
  BY <1>1, <1>2, <1>3, <1>4, <1>5 DEF RowsInv, KeyUnique, RowsOwned, Owned

\* The rows of an actor that ends are stored or lost, and those it has deleted
\* are back or gone.
LEMMA DropsRows ==
    ASSUME TypeOK, RowsInv, NEW x \in Actor, Drops(x),
           \/ rows' = rows
           \/ rows' = (rows \ deleted[x]) \cup inserted[x],
           gone' \subseteq gone
    PROVE  /\ KeyUnique' /\ InsertsApart' /\ DeletesApart' /\ RowsOwned'
           /\ \A r \in Row : Mentioned(r)' => Mentioned(r)
<1>1. \A r \in Row : Alive(r)' => Alive(r)
  BY DEF Alive, Drops, TypeOK
<1>2. InsertsApart'
  BY DEF Drops, InsertsApart, RowsInv, TypeOK
<1>3. DeletesApart'
  BY DEF Drops, DeletesApart, RowsInv, TypeOK
<1>4. \A r \in Row : Mentioned(r)' => Mentioned(r)
  BY <1>1 DEF Mentioned
<1> QED
  BY <1>1, <1>2, <1>3, <1>4 DEF RowsInv, KeyUnique, RowsOwned, Owned

LEMMA CommitRows ==
    ASSUME TypeOK, RowsInv, CommitsAnswered, NEW s \in Session, Commit(s)
    PROVE  RowsInv' /\ \A r \in Row : Mentioned(r)' => Mentioned(r)
<1>1. ToldKept'
  <2>1. /\ rows' = (rows \ deleted[s]) \cup inserted[s] /\ told' = told /\ gone' = gone
        /\ \A x \in Actor \ {s} : inserted'[x] = inserted[x]
        /\ deleted[s] \subseteq gone
    BY CommitSplit DEF Drops, TypeOK, CommitsAnswered
  <2> QED
    BY <2>1, Actors DEF ToldKept, RowsInv
<1> QED
  BY <1>1, CommitSplit, DropsRows DEF RowsInv

LEMMA DieRows ==
    ASSUME TypeOK, RowsInv, NEW s \in Session, Die(s)
    PROVE  RowsInv' /\ \A r \in Row : Mentioned(r)' => Mentioned(r)
<1>1. /\ rows' = rows /\ told' = told \ inserted[s] /\ gone' = gone \ deleted[s]
      /\ \A x \in Actor \ {s} : inserted'[x] = inserted[x]
      /\ deleted[s] \subseteq rows
  BY DieSplit DEF Drops, TypeOK, RowsInv, DeletesApart
<1>2. ToldKept'
  BY <1>1, Actors DEF ToldKept, RowsInv
<1> QED
  BY <1>2, DieSplit, DropsRows DEF RowsInv

LEMMA PhaseRows ==
    ASSUME TypeOK, RowsInv, NEW w \in Import, CommitPhase(w) \/ FailPhase(w)
    PROVE  RowsInv' /\ \A r \in Row : Mentioned(r)' => Mentioned(r)
<1>1. ToldKept'
  <2>1. /\ rows \subseteq rows' /\ told' = told /\ gone' = gone
        /\ \A x \in Actor \ {w} : inserted'[x] = inserted[x]
    BY PhaseSplit DEF Drops, TypeOK
  <2> QED
    BY <2>1, Actors DEF ToldKept, RowsInv
<1>2. rows' = rows \/ rows' = (rows \ deleted[w]) \cup inserted[w]
  BY PhaseSplit
<1> QED
  BY <1>1, <1>2, PhaseSplit, DropsRows DEF RowsInv

-----------------------------------------------------------------------------
(* What the actors will do.                                                *)

LEMMA Counted ==
    ASSUME TypeOK
    PROVE  /\ created \in Nat /\ \A w \in Import : next[w] \in Nat \ {0}
           /\ ~Drawn(<<"post", created + 1>>)
           /\ \A w \in Import : ~Used(<<w, next[w]>>)
BY Actors, BoundsAssumption DEF TypeOK, Drawn, Used

LEMMA UsedGrows ==
    ASSUME TypeOK, NEW id, created' \in {created, created + 1},
           \A w \in Import : next'[w] \in {next[w], next[w] + 1}
    PROVE  (Used(id) => Used(id)') /\ (Drawn(id) => Drawn(id)')
<1>1. created \in Nat /\ created' \in Nat /\ created <= created'
  BY Counted
<1>2. Drawn(id) => Drawn(id)'
  BY <1>1 DEF Drawn
<1>3. ASSUME NEW w \in Import, NEW n \in 1..(next[w] - 1)
      PROVE  n \in 1..(next'[w] - 1)
  BY Counted
<1> QED
  BY <1>2, <1>3 DEF Used

\* Nothing new is mentioned and nobody is about to insert who was not.
LEMMA IdsKept ==
    ASSUME TypeOK, IdsDiffer, created' = created, next' = next,
           \A r \in Row : Mentioned(r)' => Mentioned(r),
           \A t \in Session : pc'[t] = "insert" => pc[t] = "insert" /\ request'[t] = request[t]
    PROVE  IdsDiffer'
BY DEF IdsDiffer, Used, Drawn

LEMMA CreateActors ==
    ASSUME IInv, NEW s \in Session, NEW u \in User, NEW k \in Key, Create(s, u, k)
    PROVE  ActorsInv'
<1> DEFINE id == <<"post", created + 1>>
<1>1. /\ s \in Actor /\ Quiet /\ pc[s] = "idle" /\ pc' = [pc EXCEPT ![s] = "insert"]
      /\ created' = created + 1 /\ next' = next
      /\ \A t \in Session \ {s} : request'[t] = request[t] /\ pc'[t] = pc[t]
      /\ request'[s].id = id /\ Owned(request'[s])
  BY CreateSplit, Actors DEF IInv, TypeOK
<1>2. ~Drawn(id) /\ ~Used(id)
  BY Actors, Counted DEF IInv, Used
<1>3. \A i : i = id => Drawn(i)'
  <2>1. created + 1 \in 1..created'
    BY <1>1, Counted DEF IInv
  <2> QED
    BY <2>1 DEF Drawn
<1>4. \A i : (Used(i) => Used(i)') /\ (Drawn(i) => Drawn(i)')
  BY <1>1, UsedGrows DEF IInv
<1>5. \A r \in Row : Mentioned(r)' => Mentioned(r)
  BY <1>1, QuietRows DEF IInv
<1> HIDE DEF id
<1>6. IdsDiffer'
  BY <1>1, <1>2, <1>3, <1>4, <1>5 DEF IdsDiffer, IInv, ActorsInv
<1>7. RequestsOwned' /\ GoneGoes' /\ CommitsAnswered' /\ DeletedOnce'
  BY <1>1, Actors DEF RequestsOwned, GoneGoes, CommitsAnswered, DeletedOnce, Quiet, Owned,
              IInv, ActorsInv, TypeOK
<1> QED
  BY <1>6, <1>7 DEF ActorsInv

LEMMA DeleteActors ==
    ASSUME IInv, NEW s \in Session, NEW u \in User, NEW id, Delete(s, u, id)
    PROVE  ActorsInv'
<1>1. /\ s \in Actor /\ Quiet /\ pc' = [pc EXCEPT ![s] = "delete"] /\ pc[s] = "idle"
      /\ created' = created /\ next' = next
      /\ \A t \in Session \ {s} : request'[t] = request[t] /\ pc'[t] = pc[t]
  BY DeleteSplit, Actors DEF IInv, TypeOK
<1>2. IdsDiffer'
  BY <1>1, IdsKept, QuietRows DEF IInv, ActorsInv, TypeOK
<1>3. RequestsOwned' /\ GoneGoes' /\ CommitsAnswered' /\ DeletedOnce'
  BY <1>1 DEF RequestsOwned, GoneGoes, CommitsAnswered, DeletedOnce, Quiet, Owned,
              IInv, ActorsInv, TypeOK
<1> QED
  BY <1>2, <1>3 DEF ActorsInv

LEMMA InsertActors ==
    ASSUME IInv, NEW s \in Session, Insert(s)
    PROVE  RowsInv' /\ ActorsInv'
<1>1. /\ s \in Actor /\ request[s] \in Row /\ pc[s] = "insert"
      /\ created' = created /\ next' = next
      /\ pc'[s] \in {"idle", "respond"} /\ pc' = [pc EXCEPT ![s] = pc'[s]]
      /\ \A t \in Session \ {s} : request'[t] = request[t] /\ pc'[t] = pc[t]
      /\ UNCHANGED <<rows, deleted, told, gone>>
      /\ deleted[s] = {}
      /\ Quiet \/ Adds(s, request[s])
  BY InsertSplit, Actors DEF IInv, TypeOK, Quiet, Adds, SessionOK
<1>2. RowsInv' /\ \A r \in Row : Mentioned(r)' => Mentioned(r) \/ r = request[s]
  <2>1. ~Mentioned(request[s]) /\ Owned(request[s])
    BY <1>1 DEF IInv, ActorsInv, IdsDiffer, RequestsOwned
  <2> QED
    BY <1>1, <2>1, QuietRows, AddsRows DEF IInv
<1>3. IdsDiffer'
  BY <1>1, <1>2 DEF IdsDiffer, IInv, ActorsInv, Used, Drawn
<1>4. RequestsOwned' /\ GoneGoes' /\ CommitsAnswered' /\ DeletedOnce'
  BY <1>1 DEF RequestsOwned, GoneGoes, CommitsAnswered, DeletedOnce, Owned, IInv, ActorsInv, TypeOK
<1> QED
  BY <1>2, <1>3, <1>4 DEF ActorsInv

LEMMA DeleteRowActors ==
    ASSUME IInv, NEW s \in Session, DeleteRow(s)
    PROVE  ActorsInv'
<1>1. /\ s \in Actor /\ pc[s] = "delete" /\ deleted[s] = {}
      /\ UNCHANGED <<rows, inserted, told, gone, created, next>>
      /\ pc'[s] \in {"idle", "respond"}
      /\ \A t \in Actor \ {s} : pc'[t] = pc[t] /\ deleted'[t] = deleted[t]
      /\ \A t \in Session \ {s} : request'[t] = request[t]
      /\ pc'[s] = "respond" =>
            /\ deleted'[s] \subseteq rows
            /\ \A y \in Actor \ {s} : deleted'[s] \cap deleted[y] = {}
  BY DeleteRowSplit DEF IInv, TypeOK
<1>2. IdsDiffer'
  BY <1>1, Actors, IdsKept, DeleteRowRows DEF IInv, ActorsInv
<1>3. RequestsOwned'
  BY <1>1, Actors DEF RequestsOwned, Owned, IInv, ActorsInv
<1>4. GoneGoes' /\ CommitsAnswered'
  BY <1>1, Actors DEF GoneGoes, CommitsAnswered, IInv, ActorsInv
<1>5. DeletedOnce'
  BY <1>1, Actors DEF DeletedOnce, GoneGoes, IInv, ActorsInv
<1> QED
  BY <1>2, <1>3, <1>4, <1>5 DEF ActorsInv

LEMMA RespondActors ==
    ASSUME IInv, NEW s \in Session, Respond(s)
    PROVE  ActorsInv'
<1>1. /\ s \in Actor /\ pc[s] = "respond" /\ pc'[s] = "commit"
      /\ \A t \in Actor \ {s} : pc'[t] = pc[t]
      /\ gone' = gone \cup deleted[s]
      /\ UNCHANGED <<rows, created, request, next, inserted, deleted>>
  BY RespondSplit DEF IInv, TypeOK
<1>2. IdsDiffer'
  BY <1>1, Actors, IdsKept, RespondRows DEF IInv, ActorsInv
<1>3. RequestsOwned'
  BY <1>1, Actors DEF RequestsOwned, Owned, IInv, ActorsInv
<1>4. GoneGoes' /\ CommitsAnswered'
  BY <1>1, Actors DEF GoneGoes, CommitsAnswered, IInv, ActorsInv
<1>5. DeletedOnce'
  BY <1>1, Actors DEF DeletedOnce, DeletesApart, IInv, ActorsInv, RowsInv
<1> QED
  BY <1>2, <1>3, <1>4, <1>5 DEF ActorsInv

\* An actor that ends takes with it what it has deleted.
LEMMA DropsActors ==
    ASSUME IInv, NEW x \in Actor, Drops(x), created' = created, next' = next,
           \A r \in Row : Mentioned(r)' => Mentioned(r),
           pc'[x] \notin {"insert", "respond", "commit"},
           \A t \in Actor \ {x} : pc'[t] = pc[t],
           \A t \in Session \ {x} : request'[t] = request[t],
           gone' \in {gone, gone \ deleted[x]},
           \/ rows' = rows /\ gone' = gone \ deleted[x]
           \/ rows' = (rows \ deleted[x]) \cup inserted[x] /\ gone' = gone
    PROVE  ActorsInv'
<1>1. \A t \in Actor \ {x} : inserted'[t] = inserted[t] /\ deleted'[t] = deleted[t]
  BY DEF Drops, IInv, TypeOK
<1>2. IdsDiffer'
  BY Actors, IdsKept DEF IInv, ActorsInv
<1>3. RequestsOwned'
  BY Actors DEF RequestsOwned, Owned, IInv, ActorsInv
<1>4. GoneGoes'
  BY <1>1, Actors DEF GoneGoes, InsertsApart, IInv, ActorsInv, RowsInv
<1>5. CommitsAnswered'
  BY <1>1, Actors DEF CommitsAnswered, DeletesApart, IInv, ActorsInv, RowsInv
<1>6. DeletedOnce'
  BY <1>1, Actors DEF DeletedOnce, IInv, ActorsInv
<1> QED
  BY <1>2, <1>3, <1>4, <1>5, <1>6 DEF ActorsInv

LEMMA CommitActors ==
    ASSUME IInv, NEW s \in Session, Commit(s)
    PROVE  ActorsInv'
BY CommitSplit, CommitRows, DropsActors DEF IInv, TypeOK, ActorsInv

LEMMA DieActors ==
    ASSUME IInv, NEW s \in Session, Die(s)
    PROVE  ActorsInv'
BY DieSplit, DieRows, DropsActors DEF IInv, TypeOK

LEMMA BeginPhaseActors ==
    ASSUME IInv, NEW w \in Import, BeginPhase(w)
    PROVE  ActorsInv'
<1>1. /\ Quiet /\ created' = created /\ next' = next
      /\ \A t \in Session : request'[t] = request[t] /\ pc'[t] = pc[t]
  BY BeginPhaseSplit, Actors DEF IInv, TypeOK
<1>2. IdsDiffer'
  BY <1>1, IdsKept, QuietRows DEF IInv, ActorsInv
<1> QED
  BY <1>1, <1>2 DEF RequestsOwned, GoneGoes, CommitsAnswered, DeletedOnce, Quiet, Owned,
                    IInv, ActorsInv

LEMMA RelateActors ==
    ASSUME IInv, NEW w \in Import, Relate(w)
    PROVE  RowsInv' /\ ActorsInv'
<1>1. /\ w \in Actor /\ HintRow(w) \in Row /\ HintRow(w).id = <<w, next[w]>>
      /\ next' = [next EXCEPT ![w] = @ + 1]
      /\ UNCHANGED <<created, pc, request, rows, deleted, told, gone>>
      /\ Quiet \/ Adds(w, HintRow(w))
  BY RelateSplit DEF IInv, Quiet, Adds, HintRow
<1>2. ~Used(HintRow(w).id) /\ \A i : i = HintRow(w).id => Used(i)'
  <2>1. next[w] \in 1..(next'[w] - 1)
    BY <1>1, Counted DEF IInv, TypeOK
  <2>2. \A i : i = <<w, next[w]>> => Used(i)'
    BY <2>1 DEF Used
  <2> QED
    BY <1>1, <2>2, Counted DEF IInv
<1>3. RowsInv' /\ \A r \in Row : Mentioned(r)' => Mentioned(r) \/ r = HintRow(w)
  <2>1. Owned(HintRow(w))
    BY HintRowTyped DEF Owned, HintRow, Relate, IInv
  <2>2. ~Mentioned(HintRow(w))
    BY <1>1, <1>2 DEF IInv, ActorsInv, IdsDiffer
  <2> QED
    BY <1>1, <2>1, <2>2, QuietRows, AddsRows DEF IInv
<1>4. IdsDiffer'
  <2>1. \A id : (Used(id) => Used(id)') /\ (Drawn(id) <=> Drawn(id)')
    BY <1>1, UsedGrows DEF IInv, TypeOK, Drawn
  <2>2. \A id : Drawn(id) => id # HintRow(w).id
    BY <1>1, <1>2 DEF Used
  <2> QED
    BY <1>1, <1>2, <1>3, <2>1, <2>2 DEF IdsDiffer, IInv, ActorsInv
<1> QED
  BY <1>1, <1>3, <1>4 DEF RequestsOwned, GoneGoes, CommitsAnswered, DeletedOnce, Owned,
                          IInv, ActorsInv

LEMMA PhaseActors ==
    ASSUME IInv, NEW w \in Import, CommitPhase(w) \/ FailPhase(w)
    PROVE  ActorsInv'
<1>1. /\ w \in Actor /\ Drops(w) /\ deleted[w] = {}
      /\ pc'[w] \notin {"insert", "respond", "commit"}
      /\ rows' = rows \/ rows' = (rows \ deleted[w]) \cup inserted[w]
      /\ created' = created /\ next' = next /\ gone' = gone
      /\ \A t \in Actor \ {w} : pc'[t] = pc[t]
      /\ \A t \in Session : request'[t] = request[t]
  BY PhaseSplit, Actors DEF IInv, TypeOK
<1> QED
  BY <1>1, PhaseRows, DropsActors DEF IInv

-----------------------------------------------------------------------------
(* What imports have related.                                              *)

\* A hint stays related while its import is in its phase: its row stays, or is
\* moved, or its deletion is noted.
LEMMA RelatedKept ==
    ASSUME NEW w \in Import, NEW i \in 1..Len(Hints[w]), Related(w, i),
           \A r \in rows \cup inserted[w] :
               r \in rows' \cup inserted'[w] \/ <<r.org, r.key>> \in cut'[w],
           cut[w] \subseteq cut'[w]
    PROVE  Related(w, i)'
BY DEF Related, Same

\* While nothing leaves the table, and no import but w begins.
LEMMA HintsKept ==
    ASSUME TypeOK, HintsRelated, next' = next, cut' = cut, rows \subseteq rows',
           \A v \in Import : /\ pc'[v] = "relate" => pc[v] = "relate"
                             /\ pc'[v] = "relate" => inserted[v] \subseteq inserted'[v]
    PROVE  HintsRelated'
BY RelatedKept DEF HintsRelated

LEMMA DeleteRowHints ==
    ASSUME IInv, NEW s \in Session, DeleteRow(s)
    PROVE  HintsRelated'
BY DeleteRowSplit, HintsKept, Actors DEF IInv, TypeOK

LEMMA InsertHints ==
    ASSUME IInv, NEW s \in Session, Insert(s)
    PROVE  HintsRelated'
<1>1. /\ rows' = rows /\ next' = next /\ cut' = cut
      /\ \A v \in Import : pc'[v] = pc[v] /\ inserted'[v] = inserted[v]
  BY InsertSplit, Actors DEF IInv, TypeOK, Quiet, Adds
<1> QED
  BY <1>1, HintsKept DEF IInv

LEMMA CommitHints ==
    ASSUME IInv, NEW s \in Session, Commit(s)
    PROVE  HintsRelated'
<1>1. /\ rows' = (rows \ deleted[s]) \cup inserted[s] /\ next' = next
      /\ \A v \in Import : pc'[v] = pc[v] /\ inserted'[v] = inserted[v]
  BY CommitSplit, Actors DEF IInv, TypeOK, Drops
<1>2. \A v \in Import : pc[v] = "relate" => cut'[v] = cut[v] \cup Deletion(s)
  BY DEF Commit
<1>3. ASSUME NEW w \in Import, pc'[w] = "relate", NEW i \in 1..Len(Hints[w]), i < next'[w]
      PROVE  Related(w, i)'
  <2>1. Related(w, i) /\ cut'[w] = cut[w] \cup Deletion(s)
    BY <1>1, <1>2, <1>3 DEF HintsRelated, IInv
  <2>2. \A r \in rows \cup inserted[w] :
            r \in rows' \cup inserted'[w] \/ <<r.org, r.key>> \in cut'[w]
    BY <1>1, <2>1 DEF Deletion
  <2> QED
    BY <2>1, <2>2, RelatedKept
<1> QED
  BY <1>3 DEF HintsRelated

LEMMA DieHints ==
    ASSUME IInv, NEW s \in Session, Die(s)
    PROVE  HintsRelated'
<1>1. /\ rows' = rows /\ next' = next /\ cut' = cut
      /\ \A v \in Import : pc'[v] = pc[v] /\ inserted'[v] = inserted[v]
  BY DieSplit, Actors DEF IInv, TypeOK, Drops
<1> QED
  BY <1>1, HintsKept DEF IInv

LEMMA BeginPhaseHints ==
    ASSUME IInv, NEW w \in Import, BeginPhase(w)
    PROVE  HintsRelated'
<1>1. /\ rows' = rows /\ inserted' = inserted /\ next' = next /\ cut' = cut
      /\ \A v \in Import \ {w} : pc'[v] = pc[v]
      /\ next[w] = 1
  BY BeginPhaseSplit, Actors DEF IInv, TypeOK, ImportOK, Quiet
<1>2. ASSUME NEW v \in Import, pc'[v] = "relate", NEW i \in 1..Len(Hints[v]), i < next'[v]
      PROVE  Related(v, i)'
  <2>1. CASE v = w
    BY <1>1, <1>2, <2>1
  <2>2. CASE v # w
    BY <1>1, <1>2, <2>2, RelatedKept DEF HintsRelated, IInv
  <2> QED
    BY <2>1, <2>2
<1> QED
  BY <1>2 DEF HintsRelated

LEMMA RelateHints ==
    ASSUME IInv, NEW w \in Import, Relate(w)
    PROVE  HintsRelated'
<1>1. /\ rows' = rows /\ pc' = pc /\ cut' = cut
      /\ \A v \in Import : inserted[v] \subseteq inserted'[v]
      /\ next' = [next EXCEPT ![w] = @ + 1]
      /\ pc[w] = "relate"
  BY RelateSplit, Actors DEF IInv, TypeOK, Quiet, Adds, Relate
<1>2. ASSUME NEW v \in Import, pc[v] = "relate", NEW i \in 1..Len(Hints[v]), i < next[v]
      PROVE  Related(v, i)'
  BY <1>1, <1>2, RelatedKept DEF HintsRelated, IInv
<1>3. \E r \in rows' \cup inserted'[w] : Same(r, HintOrg(w), Hint(w))
  <2>1. CASE Taken(w, HintOrg(w), Hint(w))
    BY <1>1, <2>1 DEF Taken
  <2>2. CASE Adds(w, HintRow(w))
    <3>1. HintRow(w) \in inserted'[w]
      BY <2>2, Actors DEF Adds, IInv, TypeOK
    <3>2. Same(HintRow(w), HintOrg(w), Hint(w))
      BY DEF Same, HintRow
    <3> QED
      BY <3>1, <3>2
  <2> QED
    BY <2>1, <2>2, RelateSplit DEF IInv
<1>4. \A i \in 1..Len(Hints[w]) : i = next[w] => Related(w, i)'
  BY <1>3 DEF Related, HintOrg, Hint
<1>5. next[w] \in Nat /\ \A v \in Import \ {w} : next'[v] = next[v]
  BY <1>1 DEF IInv, TypeOK
<1> QED
  BY <1>1, <1>2, <1>4, <1>5 DEF HintsRelated, IInv, TypeOK

LEMMA PhaseHints ==
    ASSUME IInv, NEW w \in Import, CommitPhase(w) \/ FailPhase(w)
    PROVE  HintsRelated'
<1>1. /\ rows \subseteq rows' /\ next' = next /\ pc'[w] # "relate"
      /\ \A v \in Import \ {w} :
            pc'[v] = pc[v] /\ inserted'[v] = inserted[v] /\ cut'[v] = cut[v]
  BY PhaseSplit, Actors DEF IInv, TypeOK, Drops
<1> QED
  BY <1>1, RelatedKept DEF HintsRelated, IInv

-----------------------------------------------------------------------------
(* The invariant.                                                          *)

LEMMA InitInv == Init => IInv
<1> SUFFICES ASSUME Init PROVE IInv
  OBVIOUS
<1>1. /\ rows = {} /\ told = {} /\ gone = {}
      /\ \A x \in Actor : inserted[x] = {} /\ deleted[x] = {}
      /\ \A s \in Session : pc[s] = "idle"
      /\ \A w \in Import : pc[w] = "waiting"
  BY Actors DEF Init
<1>2. RowsInv
  BY <1>1 DEF RowsInv, KeyUnique, InsertsApart, DeletesApart, RowsOwned, ToldKept, Alive
<1>3. ActorsInv
  BY <1>1 DEF ActorsInv, IdsDiffer, RequestsOwned, GoneGoes, CommitsAnswered, DeletedOnce,
              Mentioned, Alive
<1>4. HintsRelated
  BY <1>1 DEF HintsRelated
<1> QED
  BY <1>2, <1>3, <1>4, InitTyped DEF IInv

LEMMA QuietInv ==
    ASSUME IInv, RowsInv', ActorsInv', HintsRelated', [Next]_vars
    PROVE  IInv'
BY NextTyped DEF IInv

LEMMA NextInv == IInv /\ [Next]_vars => IInv'
<1> SUFFICES ASSUME IInv, [Next]_vars PROVE IInv'
  OBVIOUS
<1>0. TypeOK /\ RowsInv /\ CommitsAnswered
  BY DEF IInv, ActorsInv
<1>1. ASSUME NEW s \in Session, NEW u \in User, NEW k \in Key, Create(s, u, k) PROVE IInv'
  <2>1. RowsInv'
    BY <1>0, <1>1, CreateSplit, QuietRows
  <2>2. HintsRelated'
    BY <1>0, <1>1, CreateSplit, HintsKept, Actors DEF Quiet, IInv, TypeOK
  <2> QED
    BY <1>1, <2>1, <2>2, CreateActors, QuietInv
<1>2. ASSUME NEW s \in Session, NEW u \in User, NEW r \in rows \cup told \cup gone,
             Delete(s, u, r.id)
      PROVE  IInv'
  <2>1. RowsInv'
    BY <1>0, <1>2, DeleteSplit, QuietRows
  <2>2. HintsRelated'
    BY <1>0, <1>2, DeleteSplit, HintsKept, Actors DEF Quiet, IInv, TypeOK
  <2> QED
    BY <1>2, <2>1, <2>2, DeleteActors, QuietInv
<1>3. ASSUME NEW s \in Session, SessionStep(s) PROVE IInv'
  <2>1. CASE Insert(s)
    BY <2>1, InsertActors, InsertHints, QuietInv
  <2>2. CASE DeleteRow(s)
    BY <1>0, <2>2, DeleteRowRows, DeleteRowActors, DeleteRowHints, QuietInv
  <2>3. CASE Respond(s)
    <3>1. HintsRelated'
      BY <1>0, <2>3, RespondSplit, HintsKept, Actors DEF IInv, TypeOK
    <3> QED
      BY <1>0, <2>3, <3>1, RespondRows, RespondActors, QuietInv
  <2>4. CASE Commit(s)
    BY <1>0, <2>4, CommitRows, CommitActors, CommitHints, QuietInv
  <2> QED
    BY <1>3, <2>1, <2>2, <2>3, <2>4 DEF SessionStep
<1>4. ASSUME NEW s \in Session, Die(s) PROVE IInv'
  BY <1>0, <1>4, DieRows, DieActors, DieHints, QuietInv
<1>5. ASSUME NEW w \in Import, BeginPhase(w) PROVE IInv'
  BY <1>0, <1>5, BeginPhaseSplit, QuietRows, BeginPhaseActors, BeginPhaseHints, QuietInv
<1>6. ASSUME NEW w \in Import, Relate(w) PROVE IInv'
  BY <1>6, RelateActors, RelateHints, QuietInv
<1>7. ASSUME NEW w \in Import, CommitPhase(w) \/ FailPhase(w) PROVE IInv'
  BY <1>0, <1>7, PhaseRows, PhaseActors, PhaseHints, QuietInv
<1>8. CASE UNCHANGED vars
  BY <1>8, NextTyped DEF vars, locals, tx, history, IInv, RowsInv, KeyUnique, InsertsApart,
     DeletesApart, RowsOwned, ToldKept, ActorsInv, IdsDiffer, RequestsOwned, GoneGoes,
     CommitsAnswered, DeletedOnce, HintsRelated, Related, Alive, Mentioned, Drawn, Used, Owned
<1> QED
  BY <1>1, <1>2, <1>3, <1>4, <1>5, <1>6, <1>7, <1>8 DEF Next, LosePhase, DeadlockVictim

LEMMA Invariance == Spec => []IInv
BY InitInv, NextInv, PTL DEF Spec

-----------------------------------------------------------------------------
(* What clients are told.                                                  *)

LEMMA AnswersFollow == IInv => AnswersHold
<1> SUFFICES ASSUME IInv PROVE AnswersHold
  OBVIOUS
<1>1. told \subseteq Row /\ rows \subseteq Row
  BY DEF IInv, TypeOK
<1>2. \A r \in told \ gone : Alive(r)
  BY Actors DEF IInv, RowsInv, ToldKept, Alive
<1>3. OneStands
  BY <1>1, <1>2 DEF OneStands, IInv, RowsInv, KeyUnique
<1>4. ListShows
  <2>1. ASSUME NEW r \in told, r \notin gone, r \notin UNION {inserted[y] : y \in Actor}
        PROVE  r \in rows
    BY <2>1, Actors DEF IInv, RowsInv, ToldKept
  <2>2. ASSUME NEW r \in rows, r \in gone
        PROVE  r \in UNION {deleted[y] : y \in Actor}
    BY <2>2, Actors DEF IInv, ActorsInv, GoneGoes
  <2>3. ASSUME NEW r \in rows
        PROVE  {OwnerOf[r.key.source], OwnerOf[r.key.target]} = {r.org}
    BY <1>1 DEF IInv, RowsInv, RowsOwned, Owned, Alive
  <2> QED
    BY <2>1, <2>2, <2>3 DEF ListShows, Listed
<1> QED
  BY <1>3, <1>4 DEF AnswersHold, IInv, ActorsInv

\* One row stands for each key clients have been told of, no row is deleted for
\* two of them, and listings show what they were told: although no handler looks
\* at the table before it writes, and each answers before it commits.
THEOREM AnswersStand == Spec => []AnswersHold
BY Invariance, AnswersFollow, PTL

-----------------------------------------------------------------------------
(* Who waits for whom.                                                     *)

\* A request others wait for is past its own statement.
LEMMA HoldersRun ==
    ASSUME TypeOK, NEW x \in Actor, NEW s \in Session, s \in WaitsFor(x)
    PROVE  pc[s] \in {"respond", "commit"}
<1>1. inserted[s] # {} \/ deleted[s] # {}
  BY DEF WaitsFor, InsertWaitsFor, DeleteWaitsFor
<1> QED
  BY <1>1 DEF TypeOK, SessionOK

LEMMA RequestsFree == TypeOK => RequestsNeverBlock
BY HoldersRun DEF RequestsNeverBlock, WaitsFor

\* Whoever waits for a request waits for one that runs, so that no deadlock has
\* a request in it.
THEOREM RequestsRun == Spec => []RequestsNeverBlock
BY TypeCorrect, RequestsFree, PTL

-----------------------------------------------------------------------------
(* What imports leave behind.                                              *)

LEMMA PhaseRelates ==
    ASSUME IInv, NEW w \in Import, CommitPhase(w), NEW i \in 1..Len(Hints[w])
    PROVE  LET org == OwnerOf[Hints[w][i].source]
           IN \/ \E r \in rows' : Same(r, org, Hints[w][i])
              \/ <<org, Hints[w][i]>> \in cut[w]
<1>1. pc[w] = "relate" /\ next[w] > Len(Hints[w]) /\ rows' = rows \cup inserted[w]
  BY DEF CommitPhase
<1>2. i < next[w]
  BY <1>1, HintsAssumption DEF IInv, TypeOK
<1>3. Related(w, i)
  BY <1>1, <1>2 DEF IInv, HintsRelated
<1> QED
  BY <1>1, <1>3 DEF Related

\* Every hint of an import that commits its phase is stored, unless a DELETE has
\* removed it since the phase began.
THEOREM HintsStored == Spec => ImportsRelated
<1>1. IInv /\ [Next]_vars => [\A w \in Import : CommitPhase(w) =>
          \A i \in 1..Len(Hints[w]) :
              LET org == OwnerOf[Hints[w][i].source]
              IN \/ \E r \in rows' : Same(r, org, Hints[w][i])
                 \/ <<org, Hints[w][i]>> \in cut[w]]_vars
  BY PhaseRelates
<1> QED
  BY <1>1, Invariance, PTL DEF Spec, ImportsRelated

=============================================================================
