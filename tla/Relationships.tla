--------------------------- MODULE Relationships ---------------------------
(***************************************************************************)
(* The table asset_relationships under concurrent requests and imports:    *)
(* POST and GET /assets/{id}/relationships, DELETE /relationships/{id},    *)
(* and the relationship phase of the import task.                          *)
(*                                                                         *)
(* A request commits after its response has been sent (the exit code of    *)
(* get_db).  Users and roles never change and assets are never deleted, so *)
(* what the SELECTs before an INSERT have found stays true; a GET is one   *)
(* statement and changes nothing.                                          *)
(***************************************************************************)
EXTENDS Integers, Sequences

CONSTANTS
    Asset,      \* assets; a missing one is refused as a foreign one is
    Org,
    OwnerOf,    \* OwnerOf[a]: the organization of asset a
    User,       \* records of an organization and a role
    Key,        \* records of source, target and rel_type that clients ask for
    Session,    \* API requests under way at a time
    Import,     \* executions of the import task in their relationship phase
    Hints,      \* Hints[w]: the keys import w inserts, in order
    MaxCreates, \* bound: requests that create a relationship
    MaxFaults   \* bound: transactions lost

Type == {"subdomain_of", "resolves_to", "covered_by", "runs_on", "belongs_to"}

ASSUME AssetAssumption == OwnerOf \in [Asset -> Org]
ASSUME UserAssumption == User \subseteq [org : Org, role : {"admin", "analyst", "readonly"}]
ASSUME KeyAssumption == Key \subseteq [source : Asset, target : Asset, type : Type]
ASSUME ActorAssumption == Session \cap Import = {} /\ "post" \notin Import
ASSUME HintsAssumption ==
    /\ Hints \in [Import -> Seq(Key)]
    /\ \A w \in Import : \A i \in 1..Len(Hints[w]) :
          OwnerOf[Hints[w][i].source] = OwnerOf[Hints[w][i].target]
ASSUME BoundsAssumption == MaxCreates \in Nat /\ MaxFaults \in Nat

Actor == Session \cup Import
\* A uuid4: who has drawn it, and its number.
Id == ({"post"} \cup Import) \X (Nat \ {0})
Row == [id : Id, org : Org, key : Key]

VARIABLES
    rows,       \* committed relationships
    created,    \* number of requests to create a relationship
    pc,         \* where an actor is
    request,    \* request[s]: the row session s inserts, or the id and organization
                \* of the row it deletes
    inserted,   \* inserted[x]: rows of x's open transaction
    deleted,    \* deleted[x]: rows deleted by x's open transaction
    next,       \* next[w]: position of import w in its hints
    faults,     \* transactions lost so far
    told,       \* history: rows answered 201 whose commit was not lost
    gone,       \* history: rows answered 204 whose commit was not lost
    cut         \* history: keys of rows deleted while import w is in its phase

locals == <<pc, request, next>>
tx == <<inserted, deleted>>
history == <<told, gone, cut>>
vars == <<rows, created, locals, tx, faults, history>>

NoRequest == <<>>

Init ==
    /\ rows = {} /\ created = 0 /\ faults = 0
    /\ pc = [x \in Actor |-> IF x \in Import THEN "waiting" ELSE "idle"]
    /\ request = [s \in Session |-> NoRequest]
    /\ inserted = [x \in Actor |-> {}] /\ deleted = [x \in Actor |-> {}]
    /\ next = [w \in Import |-> 1]
    /\ told = {} /\ gone = {} /\ cut = [w \in Import |-> {}]

-----------------------------------------------------------------------------
(* What transactions see of each other.                                    *)

Same(r, org, key) == r.org = org /\ r.key = key

\* Mutation of InsertWaitsFor: rows of open transactions are not looked at.
InsertWaitsForNobody(x, org, key) == {}

\* An INSERT waits for the outcome of any other transaction that has inserted
\* the same key, or deleted the row that has it.
InsertWaitsFor(x, org, key) ==
    {y \in Actor \ {x} : \E r \in inserted[y] \cup deleted[y] : Same(r, org, key)}

Taken(x, org, key) == \E r \in rows \cup inserted[x] : Same(r, org, key)

\* A DELETE waits for another transaction that has deleted its row.
DeleteWaitsFor(x, row) == {y \in Actor \ {x} : row \in deleted[y]}

Goto(x, where) == pc' = [pc EXCEPT ![x] = where]

\* Mutation of End: the connection goes back to the pool with its transaction.
EndKeepingLocks(x, where) ==
    /\ pc' = [pc EXCEPT ![x] = where]
    /\ request' = [s \in Session |-> IF s = x THEN NoRequest ELSE request[s]]
    /\ UNCHANGED <<inserted, deleted>>

\* The transaction of x is over, the request too.
End(x, where) ==
    /\ pc' = [pc EXCEPT ![x] = where]
    /\ request' = [s \in Session |-> IF s = x THEN NoRequest ELSE request[s]]
    /\ inserted' = [inserted EXCEPT ![x] = {}]
    /\ deleted' = [deleted EXCEPT ![x] = {}]

-----------------------------------------------------------------------------
(* Requests.                                                               *)

Begin(s, req, where) ==
    /\ pc[s] = "idle"
    /\ Goto(s, where)
    /\ request' = [request EXCEPT ![s] = req]
    /\ UNCHANGED <<rows, next, tx, faults, history>>

\* get_by_id: an asset of another organization does not exist.
Exists(org, a) == OwnerOf[a] = org

\* Anything else is refused before it writes.
Create(s, u, k) ==
    /\ u.role \in {"admin", "analyst"}
    /\ Exists(u.org, k.source) /\ Exists(u.org, k.target)
    /\ created < MaxCreates
    /\ created' = created + 1
    /\ Begin(s, [id |-> <<"post", created + 1>>, org |-> u.org, key |-> k], "insert")

Delete(s, u, id) ==
    /\ u.role = "admin"
    /\ Begin(s, [id |-> id, org |-> u.org], "delete")
    /\ UNCHANGED created

\* flush() and refresh(), under the id drawn for the request: a duplicate is an
\* IntegrityError, answered 500.
Insert(s) ==
    LET row == request[s]
    IN /\ pc[s] = "insert"
       /\ InsertWaitsFor(s, row.org, row.key) = {}
       /\ IF Taken(s, row.org, row.key)
          THEN End(s, "idle")
          ELSE /\ inserted' = [inserted EXCEPT ![s] = {row}]
               /\ Goto(s, "respond")
               /\ UNCHANGED <<request, deleted>>
       /\ UNCHANGED <<rows, created, next, faults, history>>

Wanted(s) == {r \in rows : r.id = request[s].id /\ r.org = request[s].org}

\* rowcount: the row may be gone once the one who held it has committed.
DeleteRow(s) ==
    /\ pc[s] = "delete"
    /\ \A r \in Wanted(s) : DeleteWaitsFor(s, r) = {}
    /\ IF Wanted(s) = {}
       THEN End(s, "idle")
       ELSE /\ deleted' = [deleted EXCEPT ![s] = Wanted(s)]
            /\ Goto(s, "respond")
            /\ UNCHANGED <<request, inserted>>
    /\ UNCHANGED <<rows, created, next, faults, history>>

\* get_relationships: what a GET answers at any moment.
Listed(org, a) == {r \in rows : r.org = org /\ a \in {r.key.source, r.key.target}}

\* The client reads 201 or 204; the transaction is still open.
Respond(s) ==
    /\ pc[s] = "respond"
    /\ Goto(s, "commit")
    /\ told' = told \cup inserted[s]
    /\ gone' = gone \cup deleted[s]
    /\ UNCHANGED <<rows, created, request, next, tx, faults, cut>>

Deletion(x) == {<<r.org, r.key>> : r \in deleted[x]}

Commit(s) ==
    /\ pc[s] = "commit"
    /\ rows' = (rows \ deleted[s]) \cup inserted[s]
    /\ cut' = [w \in Import |-> IF pc[w] = "relate" THEN cut[w] \cup Deletion(s) ELSE cut[w]]
    /\ End(s, "idle")
    /\ UNCHANGED <<created, next, faults, told, gone>>

\* An exception, a cancelled request or a lost connection: the transaction is
\* rolled back, whatever has been answered.
Die(s) ==
    /\ pc[s] # "idle"
    /\ faults < MaxFaults
    /\ faults' = faults + 1
    /\ told' = told \ inserted[s]
    /\ gone' = gone \ deleted[s]
    /\ End(s, "idle")
    /\ UNCHANGED <<rows, created, next, cut>>

-----------------------------------------------------------------------------
(* The relationship phase of an import.                                    *)

BeginPhase(w) ==
    /\ pc[w] = "waiting"
    /\ Goto(w, "relate")
    /\ UNCHANGED <<rows, created, request, next, tx, faults, history>>

HintOrg(w) == OwnerOf[Hints[w][next[w]].source]
Hint(w) == Hints[w][next[w]]

\* Mutation of Relate: a row that may still be rolled back counts as there.
RelateUnlessDrafted(w) ==
    /\ pc[w] = "relate" /\ next[w] <= Len(Hints[w])
    /\ inserted' = IF InsertWaitsFor(w, HintOrg(w), Hint(w)) # {} \/ Taken(w, HintOrg(w), Hint(w))
                   THEN inserted
                   ELSE [inserted EXCEPT ![w] =
                            @ \cup {[id |-> <<w, next[w]>>, org |-> HintOrg(w), key |-> Hint(w)]}]
    /\ next' = [next EXCEPT ![w] = @ + 1]
    /\ UNCHANGED <<rows, created, pc, request, deleted, faults, history>>

\* INSERT ... ON CONFLICT DO NOTHING, which waits like any INSERT.
Relate(w) ==
    /\ pc[w] = "relate" /\ next[w] <= Len(Hints[w])
    /\ InsertWaitsFor(w, HintOrg(w), Hint(w)) = {}
    /\ inserted' = IF Taken(w, HintOrg(w), Hint(w)) THEN inserted
                   ELSE [inserted EXCEPT ![w] =
                            @ \cup {[id |-> <<w, next[w]>>, org |-> HintOrg(w), key |-> Hint(w)]}]
    /\ next' = [next EXCEPT ![w] = @ + 1]
    /\ UNCHANGED <<rows, created, pc, request, deleted, faults, history>>

CommitPhase(w) ==
    /\ pc[w] = "relate" /\ next[w] > Len(Hints[w])
    /\ rows' = rows \cup inserted[w]
    /\ End(w, "done")
    /\ cut' = [cut EXCEPT ![w] = {}]
    /\ UNCHANGED <<created, next, faults, told, gone>>

\* The exception leaves the task: nothing of the phase is stored.
FailPhase(w) ==
    /\ End(w, "failed")
    /\ cut' = [cut EXCEPT ![w] = {}]
    /\ UNCHANGED <<rows, created, next, told, gone>>

LosePhase(w) ==
    /\ pc[w] = "relate"
    /\ faults < MaxFaults
    /\ faults' = faults + 1
    /\ FailPhase(w)

\* Whom x waits for.
WaitsFor(x) ==
    CASE pc[x] = "insert" -> InsertWaitsFor(x, request[x].org, request[x].key)
      [] pc[x] = "delete" -> UNION {DeleteWaitsFor(x, r) : r \in Wanted(x)}
      [] pc[x] = "relate" /\ next[x] <= Len(Hints[x]) -> InsertWaitsFor(x, HintOrg(x), Hint(x))
      [] OTHER -> {}

\* Everyone in S waits for someone in S.
Deadlocked(S) == S # {} /\ \A x \in S : WaitsFor(x) \cap S # {}

\* The deadlock detector ends one of them: two imports that insert the same
\* keys in different orders.
DeadlockVictim(w) ==
    /\ \E S \in SUBSET Import : w \in S /\ Deadlocked(S)
    /\ FailPhase(w)
    /\ UNCHANGED faults

-----------------------------------------------------------------------------
SessionStep(s) ==
    Insert(s) \/ DeleteRow(s) \/ Respond(s) \/ Commit(s)

Next ==
    \/ \E s \in Session :
          \/ \E u \in User, k \in Key : Create(s, u, k)
          \/ \E u \in User, r \in rows \cup told \cup gone : Delete(s, u, r.id)
          \/ SessionStep(s) \/ Die(s)
    \/ \E w \in Import :
          BeginPhase(w) \/ Relate(w) \/ CommitPhase(w) \/ LosePhase(w) \/ DeadlockVictim(w)

Spec == Init /\ [][Next]_vars

-----------------------------------------------------------------------------
(* Properties.                                                             *)

\* What a session or an import has at each point: it holds rows only between
\* its INSERT or DELETE and its end.
SessionOK(s) ==
    /\ pc[s] \in {"idle", "insert", "delete", "respond", "commit"}
    /\ pc[s] = "insert" => request[s] \in Row
    /\ pc[s] = "delete" => request[s] \in [id : Id, org : Org]
    /\ pc[s] \in {"idle", "insert", "delete"} => inserted[s] = {} /\ deleted[s] = {}

ImportOK(w) ==
    /\ pc[w] \in {"waiting", "relate", "done", "failed"}
    /\ pc[w] = "waiting" => next[w] = 1
    /\ pc[w] # "relate" => inserted[w] = {}
    /\ deleted[w] = {}

\* Type invariant.
TypeOK ==
    /\ rows \subseteq Row /\ created \in 0..MaxCreates
    /\ DOMAIN pc = Actor /\ DOMAIN request = Session
    /\ inserted \in [Actor -> SUBSET Row] /\ deleted \in [Actor -> SUBSET Row]
    /\ next \in [Import -> Nat \ {0}]
    /\ faults \in 0..MaxFaults
    /\ told \subseteq Row /\ gone \subseteq Row
    /\ cut \in [Import -> SUBSET (Org \X Key)]
    /\ \A s \in Session : SessionOK(s)
    /\ \A w \in Import : ImportOK(w)

\* A relationship answered 201 is the only one with its key that clients have
\* been told of, unless its DELETE was answered or its commit lost.
OneStands ==
    \A q, r \in told \ gone : q # r => ~Same(q, r.org, r.key)

\* A row is deleted for one client only: a DELETE about to answer 204 has not
\* found a row whose deletion was answered before.
DeletedOnce ==
    \A s \in Session : pc[s] = "respond" => deleted[s] \cap gone = {}

\* A listing has every relationship its organization was told of that is not
\* deleted or about to be committed, and none whose deletion has been
\* committed; both ends of a row belong to the organization.
ListShows ==
    LET pending == UNION {inserted[y] : y \in Actor}
        going == UNION {deleted[y] : y \in Actor}
    IN \A org \in Org, a \in Asset :
          /\ \A r \in told \ (gone \cup pending) :
                r.org = org /\ a \in {r.key.source, r.key.target} => r \in Listed(org, a)
          /\ \A r \in Listed(org, a) :
                /\ r \in gone => r \in going
                /\ {OwnerOf[r.key.source], OwnerOf[r.key.target]} = {org}

\* What clients are told holds, although no handler looks at the table before
\* it writes and each answers before it commits.
AnswersHold == OneStands /\ DeletedOnce /\ ListShows

\* What an import has related stands when it has committed, unless a DELETE
\* has removed it meanwhile: a conflict is skipped only if the row it met is
\* committed, never for one that may still be rolled back.
ImportsRelated ==
    [][\A w \in Import : CommitPhase(w) =>
          \A i \in 1..Len(Hints[w]) :
              LET org == OwnerOf[Hints[w][i].source]
              IN \/ \E r \in rows' : Same(r, org, Hints[w][i])
                 \/ <<org, Hints[w][i]>> \in cut[w]]_vars

\* Whoever waits for a request waits for one that runs: a request waits before
\* it holds anything, so it is never part of a deadlock, though imports are.
RequestsNeverBlock ==
    \A x \in Actor : \A s \in WaitsFor(x) \cap Session : WaitsFor(s) = {}

=============================================================================
