-------------------------- MODULE DeploymentProofs --------------------------
(***************************************************************************)
(* Theorems of Deployment.                                                 *)
(***************************************************************************)
EXTENDS Deployment, SequenceTheorems, TLAPS

Version == {"base", "0001", "head"}

\* The schema each revision stands for.
SchemaOf(v) == CASE v = "base" -> Empty [] v = "0001" -> Released [] v = "head" -> Declared

-----------------------------------------------------------------------------
(* The revisions.                                                          *)

\* Five changes, one per table, that lead from one schema to the other.
Leg(L, old, new) ==
    /\ Len(L) = 5
    /\ \A i \in 1..5 : L[i].table \in Table
    /\ \A i, j \in 1..5 : L[i].table = L[j].table => i = j
    /\ \A t \in Table : \E i \in 1..5 : L[i].table = t
    /\ \A i \in 1..5 : Applied(L[i], old[L[i].table]) = new[L[i].table]

LEMMA Tuple ==
    ASSUME NEW a, NEW b, NEW c, NEW d, NEW e
    PROVE  LET L == <<a, b, c, d, e>>
           IN /\ Len(L) = 5 /\ DOMAIN L = 1..5 /\ L \in Seq({a, b, c, d, e})
              /\ L[1] = a /\ L[2] = b /\ L[3] = c /\ L[4] = d /\ L[5] = e
OBVIOUS

LEMMA OneToFive == 1..5 = {1, 2, 3, 4, 5}
OBVIOUS

\* A leg goes through the tables in some order.
LEMMA TableOrder ==
    ASSUME NEW L, NEW a, NEW b, NEW c, NEW d, NEW e,
           Len(L) = 5, {a, b, c, d, e} = Table,
           a # b, a # c, a # d, a # e, b # c, b # d, b # e, c # d, c # e, d # e,
           L[1].table = a, L[2].table = b, L[3].table = c, L[4].table = d, L[5].table = e,
           NEW old, NEW new,
           Applied(L[1], old[a]) = new[a], Applied(L[2], old[b]) = new[b],
           Applied(L[3], old[c]) = new[c], Applied(L[4], old[d]) = new[d],
           Applied(L[5], old[e]) = new[e]
    PROVE  Leg(L, old, new)
<1>1. \A i \in 1..5 : L[i].table \in Table
  BY OneToFive
<1>2. \A i, j \in 1..5 : L[i].table = L[j].table => i = j
  BY OneToFive
<1>3. \A t \in Table : \E i \in 1..5 : L[i].table = t
  BY OneToFive
<1>4. \A i \in 1..5 : Applied(L[i], old[L[i].table]) = new[L[i].table]
  BY OneToFive
<1> QED
  BY <1>1, <1>2, <1>3, <1>4 DEF Leg

LEMMA ReleasedTables ==
    /\ Released["organizations"] = {"table", "uq_org_slug", "ix_org_slug"}
    /\ Released["users"] = {"table", "uq_user_email", "ix_user_org", "ix_user_email"}
    /\ Released["assets"] = {"table", "uq_asset_org_type_value", "ix_asset_org_id",
        "ix_asset_org_type", "ix_asset_org_status", "ix_asset_org_last_seen",
        "ix_asset_tags_gin", "ix_asset_metadata_gin"}
    /\ Released["asset_relationships"] = {"table", "uq_relationship_org_src_tgt_type",
        "ix_rel_org", "ix_rel_source", "ix_rel_target"}
    /\ Released["import_jobs"] = {"table", "ix_job_org", "counts nullable"}
<1>1. DOMAIN Initial = {1, 2, 3, 4, 5}
  BY Tuple, OneToFive DEF Initial
<1>2. /\ Initial[1].table = "organizations" /\ Initial[2].table = "users"
      /\ Initial[3].table = "assets" /\ Initial[4].table = "asset_relationships"
      /\ Initial[5].table = "import_jobs"
  BY Tuple DEF Initial, Change
<1>3. /\ (CHOOSE i \in DOMAIN Initial : Initial[i].table = "organizations") = 1
      /\ (CHOOSE i \in DOMAIN Initial : Initial[i].table = "users") = 2
      /\ (CHOOSE i \in DOMAIN Initial : Initial[i].table = "assets") = 3
      /\ (CHOOSE i \in DOMAIN Initial : Initial[i].table = "asset_relationships") = 4
      /\ (CHOOSE i \in DOMAIN Initial : Initial[i].table = "import_jobs") = 5
  BY <1>1, <1>2
<1>4. /\ Released["organizations"] = Initial[1].add /\ Released["users"] = Initial[2].add
      /\ Released["assets"] = Initial[3].add
      /\ Released["asset_relationships"] = Initial[4].add
      /\ Released["import_jobs"] = Initial[5].add
  BY <1>3 DEF Released, Table
<1> QED
  BY <1>4 DEF Initial, Change

LEMMA DeclaredTables ==
    /\ Declared["organizations"] = {"table", "updated_at", "unique ix_organizations_slug"}
    /\ Declared["users"] = {"table", "updated_at", "unique ix_users_email", "ix_users_org_id"}
    /\ Declared["assets"] = {"table", "updated_at", "uq_asset_org_type_value", "ix_assets_org_id",
        "ix_asset_org_type", "ix_asset_org_status", "ix_asset_org_last_seen",
        "ix_asset_tags_gin", "ix_asset_metadata_gin"}
    /\ Declared["asset_relationships"] = {"table", "updated_at",
        "uq_relationship_org_src_tgt_type", "ix_asset_relationships_org_id",
        "ix_rel_source", "ix_rel_target"}
    /\ Declared["import_jobs"] = {"table", "updated_at", "ix_import_jobs_org_id"}
BY DEF Declared, DeclaredAccounts, Table

\* The changes of the code lead from one revision to the next, and back.
LEMMA InitialLeg == Leg(Initial, Empty, Released)
<1>1. /\ Len(Initial) = 5
      /\ Initial[1].table = "organizations" /\ Initial[2].table = "users"
      /\ Initial[3].table = "assets" /\ Initial[4].table = "asset_relationships"
      /\ Initial[5].table = "import_jobs"
  BY Tuple DEF Initial, Change
<1>2. /\ Initial[1].drop = {} /\ Initial[2].drop = {} /\ Initial[3].drop = {}
      /\ Initial[4].drop = {} /\ Initial[5].drop = {}
  BY DEF Initial, Change
<1>3. /\ Initial[1].add = Released["organizations"] /\ Initial[2].add = Released["users"]
      /\ Initial[3].add = Released["assets"]
      /\ Initial[4].add = Released["asset_relationships"]
      /\ Initial[5].add = Released["import_jobs"]
  BY ReleasedTables DEF Initial, Change
<1>4. \A t \in Table : /\ Applied(Initial[1], Empty[t]) = Initial[1].add
                       /\ Applied(Initial[2], Empty[t]) = Initial[2].add
                       /\ Applied(Initial[3], Empty[t]) = Initial[3].add
                       /\ Applied(Initial[4], Empty[t]) = Initial[4].add
                       /\ Applied(Initial[5], Empty[t]) = Initial[5].add
  BY <1>2 DEF Applied, Everything, Empty
<1>5. {"organizations", "users", "assets", "asset_relationships", "import_jobs"} = Table
  BY DEF Table
<1> QED
  BY <1>1, <1>3, <1>4, <1>5, TableOrder

LEMMA UpdatedAtLeg == Leg(UpdatedAt, Released, Declared)
<1>1. /\ Len(UpdatedAt) = 5
      /\ UpdatedAt[1].table = "asset_relationships" /\ UpdatedAt[2].table = "assets"
      /\ UpdatedAt[3].table = "import_jobs" /\ UpdatedAt[4].table = "organizations"
      /\ UpdatedAt[5].table = "users"
  BY DEF UpdatedAt, Change
<1>2. Applied(UpdatedAt[1], Released["asset_relationships"]) = Declared["asset_relationships"]
  <2>1. /\ UpdatedAt[1].drop = {"ix_rel_org"}
        /\ UpdatedAt[1].add = {"updated_at", "ix_asset_relationships_org_id"}
    BY DEF UpdatedAt, Change
  <2> QED
    BY <2>1, ReleasedTables, DeclaredTables DEF Applied, Everything
<1>3. Applied(UpdatedAt[2], Released["assets"]) = Declared["assets"]
  BY ReleasedTables, DeclaredTables DEF Applied, Everything, UpdatedAt, Change
<1>4. Applied(UpdatedAt[3], Released["import_jobs"]) = Declared["import_jobs"]
  BY ReleasedTables, DeclaredTables DEF Applied, Everything, UpdatedAt, Change
<1>5. Applied(UpdatedAt[4], Released["organizations"]) = Declared["organizations"]
  BY ReleasedTables, DeclaredTables DEF Applied, Everything, UpdatedAt, Change
<1>6. Applied(UpdatedAt[5], Released["users"]) = Declared["users"]
  BY ReleasedTables, DeclaredTables DEF Applied, Everything, UpdatedAt, Change
<1>7. {"asset_relationships", "assets", "import_jobs", "organizations", "users"} = Table
  BY DEF Table
<1> QED
  BY <1>1, <1>2, <1>3, <1>4, <1>5, <1>6, <1>7, TableOrder

LEMMA UpdatedAtDownLeg == Leg(UpdatedAtDown, Declared, Released)
<1>1. /\ Len(UpdatedAtDown) = 5
      /\ UpdatedAtDown[1].table = "users" /\ UpdatedAtDown[2].table = "organizations"
      /\ UpdatedAtDown[3].table = "import_jobs" /\ UpdatedAtDown[4].table = "assets"
      /\ UpdatedAtDown[5].table = "asset_relationships"
  BY DEF UpdatedAtDown, UsersDown, Change
<1>2. Applied(UpdatedAtDown[1], Declared["users"]) = Released["users"]
  BY ReleasedTables, DeclaredTables DEF Applied, Everything, UpdatedAtDown, UsersDown, Change
<1>3. Applied(UpdatedAtDown[2], Declared["organizations"]) = Released["organizations"]
  BY ReleasedTables, DeclaredTables DEF Applied, Everything, UpdatedAtDown, Change
<1>4. Applied(UpdatedAtDown[3], Declared["import_jobs"]) = Released["import_jobs"]
  BY ReleasedTables, DeclaredTables DEF Applied, Everything, UpdatedAtDown, Change
<1>5. Applied(UpdatedAtDown[4], Declared["assets"]) = Released["assets"]
  BY ReleasedTables, DeclaredTables DEF Applied, Everything, UpdatedAtDown, Change
<1>6. Applied(UpdatedAtDown[5], Declared["asset_relationships"]) = Released["asset_relationships"]
  BY ReleasedTables, DeclaredTables DEF Applied, Everything, UpdatedAtDown, Change
<1>7. {"users", "organizations", "import_jobs", "assets", "asset_relationships"} = Table
  BY DEF Table
<1> QED
  BY <1>1, <1>2, <1>3, <1>4, <1>5, <1>6, <1>7, TableOrder

LEMMA InitialDownLeg == Leg(InitialDown, Released, Empty)
<1>1. /\ Len(InitialDown) = 5
      /\ InitialDown[1].table = "import_jobs" /\ InitialDown[2].table = "asset_relationships"
      /\ InitialDown[3].table = "assets" /\ InitialDown[4].table = "users"
      /\ InitialDown[5].table = "organizations"
  BY DEF InitialDown, Change
<1>2. /\ InitialDown[1].drop = Everything /\ InitialDown[2].drop = Everything
      /\ InitialDown[3].drop = Everything /\ InitialDown[4].drop = Everything
      /\ InitialDown[5].drop = Everything
  BY DEF InitialDown, Change
<1>3. \A t \in Table : Empty[t] = {}
  BY DEF Empty
<1>4. {"import_jobs", "asset_relationships", "assets", "users", "organizations"} = Table
  BY DEF Table
<1>5. \A objects : /\ Applied(InitialDown[1], objects) = {}
                   /\ Applied(InitialDown[2], objects) = {}
                   /\ Applied(InitialDown[3], objects) = {}
                   /\ Applied(InitialDown[4], objects) = {}
                   /\ Applied(InitialDown[5], objects) = {}
  BY <1>2 DEF Applied
<1>6. /\ Applied(InitialDown[1], Released["import_jobs"]) = Empty["import_jobs"]
      /\ Applied(InitialDown[2], Released["asset_relationships"]) = Empty["asset_relationships"]
      /\ Applied(InitialDown[3], Released["assets"]) = Empty["assets"]
      /\ Applied(InitialDown[4], Released["users"]) = Empty["users"]
      /\ Applied(InitialDown[5], Released["organizations"]) = Empty["organizations"]
  BY <1>3, <1>4, <1>5, Zenon
<1> QED
  BY <1>1, <1>4, <1>6, TableOrder

\* A revision cannot be run twice: its first change fails on the schema of
\* the last revision.
LEMMA NotTwice ==
    /\ ~Applies(Initial[1], Declared[Initial[1].table])
    /\ ~Applies(UpdatedAt[1], Declared[UpdatedAt[1].table])
<1>1. ~Applies(Initial[1], Declared[Initial[1].table])
  BY DeclaredTables DEF Applies, Everything, Initial, Change
<1>2. ~Applies(UpdatedAt[1], Declared[UpdatedAt[1].table])
  <2>1. UpdatedAt[1].drop = {"ix_rel_org"} /\ UpdatedAt[1].table = "asset_relationships"
    BY DEF UpdatedAt, Change
  <2>2. "ix_rel_org" \notin Declared["asset_relationships"] /\ {"ix_rel_org"} # Everything
    BY DeclaredTables DEF Everything
  <2> QED
    BY <2>1, <2>2 DEF Applies
<1> QED
  BY <1>1, <1>2

-----------------------------------------------------------------------------
(* How far a migration has come.                                           *)

\* All the changes that m's migration makes if it finds version v.
Path(m, v) ==
    IF m = Operator THEN IF v = "head" THEN UpdatedAtDown ELSE InitialDown ELSE Upgrade(v)

\* Where they lead.
Target(m, v) == IF m # Operator THEN "head" ELSE IF v = "head" THEN "0001" ELSE "base"

\* A table is at the new schema if its change is among the first d.
Through(view, L, d, old, new) ==
    \A i \in 1..5 : view[L[i].table] = IF i <= d THEN new[L[i].table] ELSE old[L[i].table]

\* What a migration that began at v sees after p changes.
Reached(m, v, p, view) ==
    CASE m = Operator /\ v = "head" -> Through(view, UpdatedAtDown, p, Declared, Released)
      [] m = Operator /\ v # "head" -> Through(view, InitialDown, p, Released, Empty)
      [] m # Operator /\ v = "0001" -> Through(view, UpdatedAt, p, Released, Declared)
      [] m # Operator /\ v = "base" ->
            \/ p <= 5 /\ Through(view, Initial, p, Empty, Released)
            \/ p >= 5 /\ Through(view, UpdatedAt, p - 5, Released, Declared)
      [] m # Operator /\ v = "head" -> \A t \in Table : view[t] = Declared[t]

Begins(m, v) == v \in Version /\ (m = Operator => v # "base")

Changes == UNION {{L[i] : i \in 1..5} : L \in {Initial, UpdatedAt, UpdatedAtDown, InitialDown}}

LEMMA LegSequence ==
    /\ Initial \in Seq(Changes) /\ UpdatedAt \in Seq(Changes)
    /\ UpdatedAtDown \in Seq(Changes) /\ InitialDown \in Seq(Changes)
<1>1. ASSUME NEW S, NEW a \in S, NEW b \in S, NEW c \in S, NEW d \in S, NEW e \in S
      PROVE  <<a, b, c, d, e>> \in Seq(S)
  OBVIOUS
<1>2. \A L \in {Initial, UpdatedAt, UpdatedAtDown, InitialDown} :
         /\ L[1] \in Changes /\ L[2] \in Changes /\ L[3] \in Changes
         /\ L[4] \in Changes /\ L[5] \in Changes
  BY OneToFive DEF Changes
<1>3. \A L : (\E a, b, c, d, e : L = <<a, b, c, d, e>>) => L = <<L[1], L[2], L[3], L[4], L[5]>>
  OBVIOUS
<1>4. /\ \E a, b, c, d, e : Initial = <<a, b, c, d, e>>
      /\ \E a, b, c, d, e : UpdatedAt = <<a, b, c, d, e>>
      /\ \E a, b, c, d, e : UpdatedAtDown = <<a, b, c, d, e>>
      /\ \E a, b, c, d, e : InitialDown = <<a, b, c, d, e>>
  BY Zenon DEF Initial, UpdatedAt, UpdatedAtDown, InitialDown
<1>5. \A L \in {Initial, UpdatedAt, UpdatedAtDown, InitialDown} :
         /\ <<L[1], L[2], L[3], L[4], L[5]>> \in Seq(Changes)
         /\ L = <<L[1], L[2], L[3], L[4], L[5]>>
  BY <1>1, <1>2, <1>3, <1>4
<1> QED
  BY <1>5

LEMMA TwoLegs ==
    \A a, b \in Seq(Changes) : Len(a) = 5 /\ Len(b) = 5 =>
        /\ a \o b \in Seq(Changes) /\ Len(a \o b) = 10
        /\ \A i \in 1..5 : (a \o b)[i] = a[i]
        /\ \A i \in 6..10 : (a \o b)[i] = b[i - 5]
<1> SUFFICES ASSUME NEW a \in Seq(Changes), NEW b \in Seq(Changes), Len(a) = 5, Len(b) = 5
             PROVE  /\ a \o b \in Seq(Changes) /\ Len(a \o b) = 10
                    /\ \A i \in 1..5 : (a \o b)[i] = a[i]
                    /\ \A i \in 6..10 : (a \o b)[i] = b[i - 5]
  OBVIOUS
<1>1. /\ a \o b \in Seq(Changes) /\ Len(a \o b) = Len(a) + Len(b)
      /\ \A i \in 1..(Len(a) + Len(b)) : (a \o b)[i] = IF i <= Len(a) THEN a[i] ELSE b[i - Len(a)]
  BY ConcatProperties, Zenon
<1> QED
  BY <1>1

\* The path that m takes from v, as the legs it consists of.
LEMMA Paths ==
    ASSUME NEW m, NEW v, Begins(m, v)
    PROVE  /\ Path(m, v) \in Seq(Changes)
           /\ m = Operator /\ v = "head" => Path(m, v) = UpdatedAtDown
           /\ m = Operator /\ v = "0001" => Path(m, v) = InitialDown
           /\ m # Operator /\ v = "0001" => Path(m, v) = UpdatedAt
           /\ m # Operator /\ v = "head" => Path(m, v) = <<>>
           /\ m # Operator /\ v = "base" =>
                 /\ Len(Path(m, v)) = 10
                 /\ \A i \in 1..5 : Path(m, v)[i] = Initial[i]
                 /\ \A i \in 6..10 : Path(m, v)[i] = UpdatedAt[i - 5]
<1>1. Upgrade("base") = Initial \o UpdatedAt /\ Upgrade("0001") = UpdatedAt
      /\ Upgrade("head") = <<>>
  BY DEF Upgrade
<1>2. /\ Initial \in Seq(Changes) /\ UpdatedAt \in Seq(Changes)
      /\ Len(Initial) = 5 /\ Len(UpdatedAt) = 5
  BY LegSequence, InitialLeg, UpdatedAtLeg DEF Leg
<1>3. <<>> \in Seq(Changes)
  OBVIOUS
<1>4. CASE m = Operator
  BY <1>4, LegSequence DEF Path, Begins, Version
<1>5. CASE m # Operator /\ v = "base"
  <2>1. Path(m, v) = Initial \o UpdatedAt
    BY <1>1, <1>5 DEF Path
  <2>2. /\ Initial \o UpdatedAt \in Seq(Changes) /\ Len(Initial \o UpdatedAt) = 10
        /\ \A i \in 1..5 : (Initial \o UpdatedAt)[i] = Initial[i]
        /\ \A i \in 6..10 : (Initial \o UpdatedAt)[i] = UpdatedAt[i - 5]
    BY <1>2, TwoLegs, Zenon
  <2>3. /\ Path(m, v) \in Seq(Changes) /\ Len(Path(m, v)) = 10
        /\ \A i \in 1..5 : Path(m, v)[i] = Initial[i]
        /\ \A i \in 6..10 : Path(m, v)[i] = UpdatedAt[i - 5]
    BY <2>1, <2>2, Zenon
  <2> QED
    BY <1>5, <2>3, Zenon
<1>6. CASE m # Operator /\ v = "0001"
  BY <1>1, <1>2, <1>6 DEF Path
<1>7. CASE m # Operator /\ v = "head"
  BY <1>1, <1>3, <1>7 DEF Path
<1> QED
  BY <1>4, <1>5, <1>6, <1>7 DEF Begins, Version

\* One change of a leg.
LEMMA LegStep ==
    ASSUME NEW L, NEW old, NEW new, Leg(L, old, new), NEW d \in 0..4,
           NEW view, Through(view, L, d, old, new), NEW next,
           \A t \in Table : next[t] = IF t = L[d + 1].table THEN Applied(L[d + 1], view[t])
                                      ELSE view[t]
    PROVE  Through(next, L, d + 1, old, new)
<1> SUFFICES ASSUME NEW i \in 1..5
             PROVE  next[L[i].table] = IF i <= d + 1 THEN new[L[i].table] ELSE old[L[i].table]
  BY DEF Through
<1>1. L[i].table \in Table /\ d + 1 \in 1..5 /\ (L[i].table = L[d + 1].table => i = d + 1)
  BY DEF Leg
<1>2. view[L[i].table] = IF i <= d THEN new[L[i].table] ELSE old[L[i].table]
  BY DEF Through
<1>3. CASE i = d + 1
  <2>1. next[L[i].table] = Applied(L[i], old[L[i].table])
    BY <1>1, <1>2, <1>3
  <2> QED
    BY <1>3, <2>1 DEF Leg
<1>4. CASE i # d + 1
  BY <1>1, <1>2, <1>4
<1> QED
  BY <1>3, <1>4

LEMMA LegEnds ==
    ASSUME NEW L, NEW old, NEW new, Leg(L, old, new), NEW view
    PROVE  /\ Through(view, L, 0, old, new) <=> \A t \in Table : view[t] = old[t]
           /\ Through(view, L, 5, old, new) <=> \A t \in Table : view[t] = new[t]
BY DEF Leg, Through

\* The definitions above, case by case.
LEMMA Cases ==
    ASSUME NEW m, NEW p, NEW view
    PROVE  /\ SchemaOf("base") = Empty /\ SchemaOf("0001") = Released
           /\ SchemaOf("head") = Declared
           /\ m = Operator =>
                 /\ Target(m, "head") = "0001" /\ Target(m, "0001") = "base"
                 /\ Reached(m, "head", p, view)
                       <=> Through(view, UpdatedAtDown, p, Declared, Released)
                 /\ Reached(m, "0001", p, view)
                       <=> Through(view, InitialDown, p, Released, Empty)
           /\ m # Operator =>
                 /\ \A v : Target(m, v) = "head"
                 /\ Reached(m, "0001", p, view)
                       <=> Through(view, UpdatedAt, p, Released, Declared)
                 /\ Reached(m, "base", p, view)
                       <=> \/ p <= 5 /\ Through(view, Initial, p, Empty, Released)
                           \/ p >= 5 /\ Through(view, UpdatedAt, p - 5, Released, Declared)
                 /\ Reached(m, "head", p, view) <=> \A t \in Table : view[t] = Declared[t]
BY DEF SchemaOf, Target, Reached

LEMMA Departs ==
    ASSUME NEW m, NEW v, Begins(m, v), NEW view, \A t \in Table : view[t] = SchemaOf(v)[t]
    PROVE  Reached(m, v, 0, view)
<1>1. /\ Through(view, UpdatedAtDown, 0, Declared, Released) <=> \A t \in Table : view[t] = Declared[t]
      /\ Through(view, InitialDown, 0, Released, Empty) <=> \A t \in Table : view[t] = Released[t]
      /\ Through(view, UpdatedAt, 0, Released, Declared) <=> \A t \in Table : view[t] = Released[t]
      /\ Through(view, Initial, 0, Empty, Released) <=> \A t \in Table : view[t] = Empty[t]
  BY UpdatedAtDownLeg, InitialDownLeg, UpdatedAtLeg, InitialLeg, LegEnds
<1>2. CASE v = "head"
  BY <1>1, <1>2, Cases
<1>3. CASE v = "0001"
  BY <1>1, <1>3, Cases
<1>4. CASE v = "base"
  BY <1>1, <1>4, Cases DEF Begins
<1> QED
  BY <1>2, <1>3, <1>4 DEF Begins, Version

LEMMA Advances ==
    ASSUME NEW m, NEW v, Begins(m, v), NEW p \in Nat, p < Len(Path(m, v)),
           NEW view, Reached(m, v, p, view), NEW next,
           \A t \in Table : next[t] = IF t = Path(m, v)[p + 1].table
                                      THEN Applied(Path(m, v)[p + 1], view[t]) ELSE view[t]
    PROVE  Reached(m, v, p + 1, next)
<1>1. CASE m = Operator /\ v = "head"
  <2>1. Path(m, v) = UpdatedAtDown /\ Len(UpdatedAtDown) = 5
    BY <1>1, Paths, UpdatedAtDownLeg DEF Leg
  <2>0. p \in 0..4
    BY <2>1
  <2>2. Through(view, UpdatedAtDown, p, Declared, Released)
    BY <1>1, Cases
  <2>3. Through(next, UpdatedAtDown, p + 1, Declared, Released)
    BY <2>0, <2>1, <2>2, UpdatedAtDownLeg, LegStep
  <2> QED
    BY <1>1, <2>3, Cases
<1>2. CASE m = Operator /\ v = "0001"
  <2>0. Path(m, v) = InitialDown /\ Len(InitialDown) = 5
    BY <1>2, Paths, InitialDownLeg DEF Leg
  <2>1. Path(m, v) = InitialDown /\ p \in 0..4
    BY <2>0
  <2>2. Through(view, InitialDown, p, Released, Empty)
    BY <1>2, Cases
  <2>3. Through(next, InitialDown, p + 1, Released, Empty)
    BY <2>1, <2>2, InitialDownLeg, LegStep
  <2> QED
    BY <1>2, <2>3, Cases
<1>3. CASE m # Operator /\ v = "0001"
  <2>1. Path(m, v) = UpdatedAt /\ Len(UpdatedAt) = 5
    BY <1>3, Paths, UpdatedAtLeg DEF Leg
  <2>0. p \in 0..4
    BY <2>1
  <2>2. Through(view, UpdatedAt, p, Released, Declared)
    BY <1>3, Cases
  <2>3. Through(next, UpdatedAt, p + 1, Released, Declared)
    BY <2>0, <2>1, <2>2, UpdatedAtLeg, LegStep
  <2> QED
    BY <1>3, <2>3, Cases
<1>4. CASE m # Operator /\ v = "base"
  <2>1. /\ Len(Path(m, v)) = 10
        /\ \A i \in 1..5 : Path(m, v)[i] = Initial[i]
        /\ \A i \in 6..10 : Path(m, v)[i] = UpdatedAt[i - 5]
    BY <1>4, Paths
  <2>2. CASE p < 5
    <3>1. Through(view, Initial, p, Empty, Released) /\ p \in 0..4
      BY <1>4, <2>2, Cases
    <3>2. Path(m, v)[p + 1] = Initial[p + 1]
      BY <2>1, <2>2
    <3>3. Through(next, Initial, p + 1, Empty, Released)
      BY <3>1, <3>2, InitialLeg, LegStep
    <3> QED
      BY <1>4, <2>2, <3>3, Cases
  <2>3. CASE p >= 5
    <3>1. \/ p = 5 /\ Through(view, Initial, 5, Empty, Released)
          \/ Through(view, UpdatedAt, p - 5, Released, Declared)
      BY <1>4, <2>3, Cases
    <3>2. Through(view, UpdatedAt, p - 5, Released, Declared)
      BY <3>1, InitialLeg, UpdatedAtLeg, LegEnds
    <3>3. p - 5 \in 0..4 /\ (p - 5) + 1 = (p + 1) - 5 /\ p + 1 >= 5
      BY <2>1, <2>3
    <3>4. Path(m, v)[p + 1] = UpdatedAt[(p - 5) + 1]
      BY <2>1, <2>3
    <3>5. Through(next, UpdatedAt, (p - 5) + 1, Released, Declared)
      BY <3>2, <3>3, <3>4, UpdatedAtLeg, LegStep
    <3> QED
      BY <1>4, <3>3, <3>5, Cases
  <2> QED
    BY <2>2, <2>3
<1>5. CASE m # Operator /\ v = "head"
  <2>1. Len(Path(m, v)) = 0
    BY <1>5, Paths
  <2> QED
    BY <2>1
<1> QED
  BY <1>1, <1>2, <1>3, <1>4, <1>5 DEF Begins, Version

LEMMA Arrives ==
    ASSUME NEW m, NEW v, Begins(m, v), NEW view, Reached(m, v, Len(Path(m, v)), view)
    PROVE  \A t \in Table : view[t] = SchemaOf(Target(m, v))[t]
<1>1. /\ Through(view, UpdatedAtDown, 5, Declared, Released) <=> \A t \in Table : view[t] = Released[t]
      /\ Through(view, InitialDown, 5, Released, Empty) <=> \A t \in Table : view[t] = Empty[t]
      /\ Through(view, UpdatedAt, 5, Released, Declared) <=> \A t \in Table : view[t] = Declared[t]
  BY UpdatedAtDownLeg, InitialDownLeg, UpdatedAtLeg, LegEnds
<1>2. Len(UpdatedAtDown) = 5 /\ Len(InitialDown) = 5 /\ Len(UpdatedAt) = 5
  BY UpdatedAtDownLeg, InitialDownLeg, UpdatedAtLeg DEF Leg
<1>3. CASE m = Operator /\ v = "head"
  <2>1. Reached(m, "head", 5, view)
    BY <1>2, <1>3, Paths
  <2> QED
    BY <1>1, <1>3, <2>1, Cases
<1>4. CASE m = Operator /\ v = "0001"
  <2>1. Reached(m, "0001", 5, view)
    BY <1>2, <1>4, Paths
  <2> QED
    BY <1>1, <1>4, <2>1, Cases
<1>5. CASE m # Operator /\ v = "0001"
  <2>1. Reached(m, "0001", 5, view)
    BY <1>2, <1>5, Paths
  <2> QED
    BY <1>1, <1>5, <2>1, Cases
<1>6. CASE m # Operator /\ v = "base"
  <2>1. Len(Path(m, v)) = 10
    BY <1>6, Paths
  <2>2. Reached(m, "base", 10, view)
    BY <1>6, <2>1
  <2>3. Through(view, UpdatedAt, 5, Released, Declared)
    BY <1>6, <2>2, Cases
  <2> QED
    BY <1>1, <1>6, <2>3, Cases
<1>7. CASE m # Operator /\ v = "head"
  BY <1>7, Cases
<1> QED
  BY <1>3, <1>4, <1>5, <1>6, <1>7 DEF Begins, Version

LEMMA PathTables ==
    ASSUME NEW m, NEW v, Begins(m, v)
    PROVE  \A i \in 1..Len(Path(m, v)) : Path(m, v)[i].table \in Table
<1>1. /\ Len(Initial) = 5 /\ Len(UpdatedAt) = 5 /\ Len(UpdatedAtDown) = 5 /\ Len(InitialDown) = 5
      /\ \A i \in 1..5 : /\ Initial[i].table \in Table /\ UpdatedAt[i].table \in Table
                         /\ UpdatedAtDown[i].table \in Table /\ InitialDown[i].table \in Table
  BY InitialLeg, UpdatedAtLeg, UpdatedAtDownLeg, InitialDownLeg DEF Leg
<1>2. CASE m = Operator
  <2>1. Path(m, v) = UpdatedAtDown \/ Path(m, v) = InitialDown
    BY <1>2 DEF Path
  <2> QED
    BY <1>1, <2>1
<1>3. CASE m # Operator /\ v = "base"
  <2>1. /\ Len(Path(m, v)) = 10
        /\ \A i \in 1..5 : Path(m, v)[i] = Initial[i]
        /\ \A i \in 6..10 : Path(m, v)[i] = UpdatedAt[i - 5]
    BY <1>3, Paths
  <2>2. \A i \in 6..10 : i - 5 \in 1..5
    OBVIOUS
  <2>3. \A i \in 1..10 : i \in 1..5 \/ i \in 6..10
    OBVIOUS
  <2> QED
    BY <1>1, <2>1, <2>2, <2>3
<1>4. CASE m # Operator /\ v = "0001"
  <2>1. Path(m, v) = UpdatedAt
    BY <1>4, Paths
  <2> QED
    BY <1>1, <2>1
<1>5. CASE m # Operator /\ v = "head"
  <2>1. Path(m, v) = <<>>
    BY <1>5, Paths
  <2> QED
    BY <2>1
<1> QED
  BY <1>2, <1>3, <1>4, <1>5 DEF Begins, Version

\* What is left of a path, after p changes and after one more.
LEMMA Rest ==
    ASSUME NEW P \in Seq(Changes), NEW p \in 0..Len(P)
    PROVE  /\ SubSeq(P, 1, Len(P)) = P
           /\ p < Len(P) => /\ SubSeq(P, p + 1, Len(P)) # <<>>
                            /\ Head(SubSeq(P, p + 1, Len(P))) = P[p + 1]
                            /\ Tail(SubSeq(P, p + 1, Len(P))) = SubSeq(P, (p + 1) + 1, Len(P))
           /\ p = Len(P) => SubSeq(P, p + 1, Len(P)) = <<>>
<1>1. SubSeq(P, 1, Len(P)) = P
  BY SubSeqFull
<1>2. Len(P) \in Nat
  OBVIOUS
<1>3. ASSUME p < Len(P)
      PROVE  /\ SubSeq(P, p + 1, Len(P)) # <<>>
             /\ Head(SubSeq(P, p + 1, Len(P))) = P[p + 1]
             /\ Tail(SubSeq(P, p + 1, Len(P))) = SubSeq(P, (p + 1) + 1, Len(P))
  <2>1. p + 1 \in 1..Len(P) /\ Len(P) \in (p + 1)..Len(P)
    BY <1>2, <1>3
  <2>2. \A i \in (p + 1)..Len(P) : P[i] \in Changes
    BY <1>2
  <2>3. Len(SubSeq(P, p + 1, Len(P))) = Len(P) - (p + 1) + 1
    BY <2>1, <2>2, SubSeqProperties
  <2>4. SubSeq(P, p + 1, Len(P)) # <<>>
    <3>1. \A s : s = <<>> => Len(s) = 0
      OBVIOUS
    <3>2. Len(P) - (p + 1) + 1 # 0
      BY <1>2, <1>3
    <3> QED
      BY <2>3, <3>1, <3>2, Zenon
  <2> QED
    BY <2>1, <2>4, HeadTailOfSubSeq
<1>4. ASSUME p = Len(P) PROVE SubSeq(P, p + 1, Len(P)) = <<>>
  BY <1>2, <1>4, SubSeqEmpty
<1> QED
  BY <1>1, <1>3, <1>4

-----------------------------------------------------------------------------
(* The inductive invariant.                                                *)

Where == {"down", "migrate", "connect", "seed", "serving"}
None == [t \in {} |-> {}]

\* The schema as m's transaction sees it.
View(m) == [t \in Table |-> IF t \in DOMAIN draft[m] THEN draft[m][t] ELSE schema[t]]

\* m's migration read version v and has made p changes.  Until the first, which
\* takes a lock, another one may have been faster.
Under(m, v, p) ==
    /\ Begins(m, v) /\ p \in 0..Len(Path(m, v))
    /\ plan[m] = SubSeq(Path(m, v), p + 1, Len(Path(m, v)))
    /\ IF p = 0 THEN draft[m] = None /\ (version = v \/ (m # Operator /\ version = "head"))
       ELSE version = v /\ Path(m, v)[1].table \in DOMAIN draft[m]
    /\ version = v => Reached(m, v, p, View(m))

Migrating(m) ==
    IF pc[m] = "migrate" THEN \E v \in Version, p \in Nat : Under(m, v, p)
    ELSE draft[m] = None

Shape ==
    /\ pc \in [Migrator -> Where] /\ DOMAIN plan = Migrator /\ DOMAIN draft = Migrator
    /\ DOMAIN work = Client
    /\ pc[Operator] \in {"down", "migrate"}

\* No two migrations have locked the same table.
Locks == \A m, n \in Migrator : m # n => DOMAIN draft[m] \cap DOMAIN draft[n] = {}

\* The operator migrates with the app containers stopped.
Alone == pc[Operator] = "migrate" => \A a \in App : pc[a] = "down"

\* Only a container that starts seeds.
Jobs == /\ \A a \in App : work[a] = "seed" <=> pc[a] = "seed"
        /\ \A w \in Worker : work[w] # "seed"

MigrationInv ==
    /\ Shape /\ version \in Version /\ SchemaIsWhole
    /\ Locks /\ Alone /\ Jobs
    /\ \A m \in Migrator : Migrating(m)

LEMMA WholeSchema ==
    /\ SchemaIsWhole <=>
         /\ schema = SchemaOf(version)
         /\ \A a \in App : pc[a] \in {"connect", "seed", "serving"} => version = "head"
    /\ \A v \in Version : SchemaOf(v) = [t \in Table |-> SchemaOf(v)[t]]
<1>1. /\ Empty = [t \in Table |-> Empty[t]] /\ Released = [t \in Table |-> Released[t]]
      /\ Declared = [t \in Table |-> Declared[t]]
  <2>1. Empty = [t \in Table |-> Empty[t]]
    BY Zenon DEF Empty
  <2>2. Released = [t \in Table |-> Released[t]]
    BY SMT DEF Released
  <2>3. Declared = [t \in Table |-> Declared[t]]
    BY Zenon DEF Declared
  <2> QED
    BY <2>1, <2>2, <2>3
<1> QED
  BY <1>1 DEF SchemaIsWhole, SchemaOf, Version

LEMMA Actors ==
    /\ Operator \in Migrator /\ App \subseteq Migrator /\ App \subseteq Client
    /\ Worker \subseteq Client
    /\ \A m \in Migrator : m # Operator <=> m \in App
    /\ \A w \in Worker : w \notin Migrator
BY ActorAssumption DEF Migrator, Client

\* A migration does not notice what leaves it and the tables alone.
LEMMA MigratingStays ==
    ASSUME NEW m \in Migrator, Migrating(m), plan'[m] = plan[m], draft'[m] = draft[m],
           UNCHANGED <<schema, version>>,
           \/ pc'[m] = pc[m]
           \/ pc[m] # "migrate" /\ pc'[m] # "migrate"
    PROVE  Migrating(m)'
<1>1. View(m)' = View(m)
  BY DEF View
<1>2. \A v, p : Under(m, v, p) => Under(m, v, p)'
  BY <1>1 DEF Under
<1> QED
  BY <1>2 DEF Migrating

\* A start, an end or a step of a transaction, or of the server.
LEMMA TrafficStep ==
    ASSUME MigrationInv, UNCHANGED migration, DOMAIN work' = Client, Jobs',
           pc' \in [Migrator -> Where],
           \A m \in Migrator :
               \/ pc'[m] = pc[m]
               \/ /\ m \in App /\ pc[m] \in {"connect", "seed", "serving"}
                  /\ pc'[m] \in {"down", "seed", "serving"}
    PROVE  MigrationInv'
<1>1. Shape'
  BY Actors, ActorAssumption DEF MigrationInv, Shape, migration
<1>2. UNCHANGED <<schema, version, plan, draft>>
  BY DEF migration
<1>3. SchemaIsWhole'
  BY <1>2, Actors DEF MigrationInv, SchemaIsWhole
<1>4. Locks' /\ version' \in Version
  BY <1>2 DEF MigrationInv, Locks
<1>5. Alone'
  BY Actors, ActorAssumption DEF MigrationInv, Alone
<1>6. \A m \in Migrator : Migrating(m)'
  BY <1>2, MigratingStays DEF MigrationInv
<1> QED
  BY <1>1, <1>3, <1>4, <1>5, <1>6 DEF MigrationInv

\* A container that exits, or the operator's migration that is rolled back.
LEMMA AbandonStep ==
    ASSUME MigrationInv, NEW m \in Migrator, Abandoned(m), Goto(m, "down"),
           UNCHANGED <<schema, version>>, DOMAIN work' = Client, Jobs'
    PROVE  MigrationInv'
<1>1. /\ pc' \in [Migrator -> Where] /\ pc'[m] = "down" /\ draft'[m] = None
      /\ DOMAIN plan' = Migrator /\ DOMAIN draft' = Migrator
      /\ \A n \in Migrator \ {m} : pc'[n] = pc[n] /\ plan'[n] = plan[n] /\ draft'[n] = draft[n]
  BY DEF Abandoned, Goto, MigrationInv, Shape, Where, None
<1>2. Shape'
  BY <1>1, Actors DEF MigrationInv, Shape
<1>3. SchemaIsWhole' /\ version' \in Version
  BY <1>1, Actors DEF MigrationInv, SchemaIsWhole
<1>4. Locks'
  <2>1. DOMAIN None = {}
    BY DEF None
  <2> QED
    BY <1>1, <2>1 DEF MigrationInv, Locks
<1>5. Alone'
  BY <1>1, Actors DEF MigrationInv, Alone
<1>6. \A n \in Migrator : Migrating(n)'
  <2>1. \A n \in Migrator \ {m} : Migrating(n)'
    BY <1>1, MigratingStays DEF MigrationInv
  <2>2. Migrating(m)'
    BY <1>1 DEF Migrating
  <2> QED
    BY <2>1, <2>2
<1> QED
  BY <1>2, <1>3, <1>4, <1>5, <1>6 DEF MigrationInv

\* alembic reads the version.
LEMMA StartStep ==
    ASSUME MigrationInv, NEW m \in Migrator, pc[m] = "down", Begins(m, version), Goto(m, "migrate"),
           plan' = [plan EXCEPT ![m] = Path(m, version)],
           UNCHANGED <<schema, version, draft, work>>,
           IF m = Operator THEN \A a \in App : pc[a] = "down" ELSE pc[Operator] = "down"
    PROVE  MigrationInv'
<1>1. /\ pc' \in [Migrator -> Where] /\ pc'[m] = "migrate" /\ plan'[m] = Path(m, version)
      /\ DOMAIN plan' = Migrator
      /\ \A n \in Migrator \ {m} : pc'[n] = pc[n] /\ plan'[n] = plan[n]
  BY DEF Goto, MigrationInv, Shape, Where
<1>2. Shape'
  BY <1>1, Actors DEF MigrationInv, Shape
<1>3. SchemaIsWhole' /\ version' \in Version /\ Locks'
  BY <1>1, Actors DEF MigrationInv, SchemaIsWhole, Locks
<1>4. Alone' /\ Jobs'
  BY <1>1, Actors DEF MigrationInv, Alone, Jobs
<1>5. Migrating(m)'
  <2>1. draft'[m] = None
    BY DEF MigrationInv, Migrating
  <2>2. Path(m, version) \in Seq(Changes)
    BY Paths
  <2>3. /\ plan'[m] = SubSeq(Path(m, version), 0 + 1, Len(Path(m, version)))
        /\ 0 \in 0..Len(Path(m, version))
    BY <1>1, <2>2, Rest
  <2>4. \A t \in Table : View(m)'[t] = SchemaOf(version)[t]
    BY <2>1, WholeSchema DEF View, None, MigrationInv
  <2>5. Reached(m, version, 0, View(m)')
    BY <2>4, Departs
  <2>6. \A v : v = version => Under(m, v, 0)'
    BY <2>1, <2>3, <2>5 DEF Under
  <2> QED
    BY <1>1, <2>6 DEF Migrating, Begins
<1>6. \A n \in Migrator : Migrating(n)'
  BY <1>1, <1>5, MigratingStays DEF MigrationInv
<1> QED
  BY <1>2, <1>3, <1>4, <1>6 DEF MigrationInv

\* A migration makes its next change, or fails.
LEMMA MigrateStep ==
    ASSUME MigrationInv, NEW m \in Migrator, Migrate(m)
    PROVE  MigrationInv'
<1>1. PICK v \in Version, p \in Nat : Under(m, v, p)
  BY DEF MigrationInv, Migrating, Migrate
<1> DEFINE P == Path(m, v)
<1> DEFINE c == P[p + 1]
<1>2. /\ P \in Seq(Changes) /\ p \in 0..Len(P) /\ Len(P) \in Nat
      /\ plan[m] = SubSeq(P, p + 1, Len(P)) /\ plan[m] # <<>>
  BY <1>1, Paths DEF Under, Migrate
<1>3. p < Len(P)
  <2>1. p = Len(P) => SubSeq(P, p + 1, Len(P)) = <<>>
    BY <1>2, Rest
  <2> QED
    BY <1>2, <2>1
<1>4. /\ Head(plan[m]) = c /\ Tail(plan[m]) = SubSeq(P, (p + 1) + 1, Len(P))
  BY <1>2, <1>3, Rest
<1>5. c.table \in Table
  BY <1>1, <1>2, <1>3, PathTables DEF Under
<1>6. /\ UNCHANGED <<schema, version, work>> /\ DOMAIN work' = Client
      /\ pc[m] = "migrate" /\ MigratorWaitsFor(m) = {}
  BY DEF Migrate, traffic, MigrationInv, Shape
<1>7. UNCHANGED pc => Jobs'
  BY <1>6 DEF Jobs, MigrationInv
<1>8. Goto(m, "down") => Jobs'
  BY <1>6, Actors DEF Jobs, MigrationInv, Goto, Shape
<1> DEFINE now == IF c.table \in DOMAIN draft[m] THEN draft[m][c.table] ELSE schema[c.table]
<1>9. /\ Applies(c, now) =>
            /\ plan' = [plan EXCEPT ![m] = Tail(@)]
            /\ draft' = [draft EXCEPT ![m] =
                  [t \in DOMAIN draft[m] \cup {c.table} |->
                     IF t = c.table THEN Applied(c, now) ELSE draft[m][t]]]
            /\ UNCHANGED pc
      /\ ~Applies(c, now) => Abandoned(m) /\ Goto(m, "down")
  BY <1>4 DEF Migrate
<1> HIDE DEF P, c
<1>10. CASE ~Applies(c, now)
  BY <1>6, <1>8, <1>9, <1>10, AbandonStep
<1>11. CASE version = v /\ Applies(c, now)
  <2>1. /\ UNCHANGED pc /\ DOMAIN plan' = Migrator /\ DOMAIN draft' = Migrator
        /\ plan'[m] = Tail(plan[m])
        /\ draft'[m] = [t \in DOMAIN draft[m] \cup {c.table} |->
                           IF t = c.table THEN Applied(c, now) ELSE draft[m][t]]
        /\ \A n \in Migrator \ {m} : plan'[n] = plan[n] /\ draft'[n] = draft[n]
    BY <1>9, <1>11 DEF MigrationInv, Shape
  <2>2. DOMAIN draft'[m] = DOMAIN draft[m] \cup {c.table}
    BY <2>1
  <2>3. Shape' /\ SchemaIsWhole' /\ version' \in Version
    BY <1>6, <2>1 DEF MigrationInv, Shape, SchemaIsWhole
  <2>4. Alone' /\ Jobs'
    BY <1>7, <2>1 DEF MigrationInv, Alone
  <2>5. Locks'
    <3>1. \A n \in Migrator \ {m} : c.table \notin DOMAIN draft[n]
      BY <1>2, <1>4, <1>6 DEF MigratorWaitsFor
    <3> QED
      BY <2>1, <2>2, <3>1 DEF MigrationInv, Locks
  <2>6. Migrating(m)'
    <3>1. \A t \in Table : View(m)'[t] = IF t = c.table THEN Applied(c, View(m)[t]) ELSE View(m)[t]
      BY <1>5, <1>6, <2>1, <2>2 DEF View
    <3>2. Reached(m, v, p, View(m))
      BY <1>1, <1>11 DEF Under
    <3>3. Reached(m, v, p + 1, View(m)')
      BY <1>1, <1>3, <3>1, <3>2, Advances DEF Under, P, c
    <3>4. p + 1 \in 0..Len(P) /\ p + 1 # 0 /\ plan'[m] = SubSeq(P, (p + 1) + 1, Len(P))
      <4>1. p + 1 \in 0..Len(P) /\ p + 1 # 0
        BY <1>2, <1>3
      <4>2. plan'[m] = SubSeq(P, (p + 1) + 1, Len(P))
        BY <1>4, <2>1, Zenon
      <4> QED
        BY <4>1, <4>2
    <3>5. P[1].table \in DOMAIN draft'[m]
      <4>1. CASE p = 0
        BY <2>2, <4>1 DEF c
      <4>2. CASE p # 0
        BY <1>1, <2>2, <4>2 DEF Under, P
      <4> QED
        BY <4>1, <4>2
    <3>6. \A q : q = p + 1 => Under(m, v, q)'
      BY <1>1, <1>6, <1>11, <3>3, <3>4, <3>5 DEF Under, P
    <3>7. p + 1 \in Nat /\ pc'[m] = "migrate"
      BY <1>6, <2>1
    <3> QED
      BY <3>6, <3>7 DEF Migrating
  <2>7. \A n \in Migrator : Migrating(n)'
    BY <1>6, <2>1, <2>6, MigratingStays DEF MigrationInv
  <2> QED
    BY <2>3, <2>4, <2>5, <2>7 DEF MigrationInv
<1>12. CASE version # v /\ Applies(c, now)
  <2>1. p = 0 /\ draft[m] = None /\ m # Operator /\ version = "head" /\ Begins(m, v)
    BY <1>1, <1>12 DEF Under
  <2>2. now = Declared[c.table]
    <3>1. schema = Declared
      BY <2>1, WholeSchema, Cases DEF MigrationInv
    <3> QED
      BY <2>1, <3>1 DEF None
  <2>3. c = Initial[1] \/ c = UpdatedAt[1]
    <3>1. v = "base" \/ v = "0001"
      BY <1>12, <2>1 DEF Version
    <3> QED
      BY <2>1, <3>1, Paths DEF c, P
  <2> QED
    BY <1>12, <2>2, <2>3, NotTwice
<1> QED
  BY <1>10, <1>11, <1>12

\* A migration commits all it has changed, and the version it stands for.
LEMMA CommitStep ==
    ASSUME MigrationInv, NEW m \in Migrator, CommitMigration(m)
    PROVE  MigrationInv'
<1>1. PICK v \in Version, p \in Nat : Under(m, v, p)
  BY DEF MigrationInv, Migrating, CommitMigration
<1>2. /\ Path(m, v) \in Seq(Changes) /\ p \in 0..Len(Path(m, v)) /\ Len(Path(m, v)) \in Nat
      /\ plan[m] = SubSeq(Path(m, v), p + 1, Len(Path(m, v))) /\ plan[m] = <<>>
      /\ Begins(m, v)
  BY <1>1, Paths DEF Under, CommitMigration
<1>3. p = Len(Path(m, v))
  BY <1>2, Rest
<1>4. version = v
  <2>1. CASE p # 0
    BY <1>1, <2>1 DEF Under
  <2>2. CASE p = 0
    <3>1. v = "head" /\ m # Operator
      <4>1. /\ Len(InitialDown) = 5 /\ Len(UpdatedAtDown) = 5 /\ Len(UpdatedAt) = 5
            /\ Len(Path(m, v)) = 0
        BY <1>3, <2>2, InitialDownLeg, UpdatedAtDownLeg, UpdatedAtLeg DEF Leg
      <4>2. \/ Path(m, v) = UpdatedAtDown \/ Path(m, v) = InitialDown \/ Path(m, v) = UpdatedAt
            \/ Len(Path(m, v)) = 10
            \/ v = "head" /\ m # Operator
        BY <1>2, Paths DEF Begins, Version
      <4>3. 0 # 5 /\ 0 # 10
        OBVIOUS
      <4> QED
        BY <4>1, <4>2, <4>3, Zenon
    <3> QED
      BY <1>1, <2>2, <3>1 DEF Under
  <2> QED
    BY <2>1, <2>2
<1>5. \A t \in Table : View(m)[t] = SchemaOf(Target(m, v))[t]
  BY <1>1, <1>2, <1>3, <1>4, Arrives DEF Under
<1>6. schema' = View(m) /\ version' = Target(m, v)
  BY <1>4, Actors DEF CommitMigration, View, Target
<1>7. version' \in Version
  BY <1>6 DEF Target, Version
<1>8. schema' = SchemaOf(version')
  <2>1. View(m) = [t \in Table |-> View(m)[t]]
    BY DEF View
  <2>2. SchemaOf(version') = [t \in Table |-> SchemaOf(version')[t]]
    BY <1>7, WholeSchema
  <2> QED
    BY <1>5, <1>6, <2>1, <2>2
<1>9. /\ pc' \in [Migrator -> Where] /\ pc'[m] = (IF m \in App THEN "connect" ELSE "down")
      /\ draft'[m] = None /\ DOMAIN plan' = Migrator /\ DOMAIN draft' = Migrator
      /\ \A n \in Migrator \ {m} : pc'[n] = pc[n] /\ plan'[n] = plan[n] /\ draft'[n] = draft[n]
      /\ UNCHANGED work /\ pc[m] = "migrate"
  BY DEF CommitMigration, Abandoned, Goto, MigrationInv, Shape, Where, None, traffic
<1>10. Shape'
  BY <1>9, Actors DEF MigrationInv, Shape
<1>11. Locks'
  <2>1. DOMAIN None = {}
    BY DEF None
  <2> QED
    BY <1>9, <2>1 DEF MigrationInv, Locks
<1>12. Alone' /\ Jobs'
  BY <1>9, Actors DEF MigrationInv, Alone, Jobs
<1>13. SchemaIsWhole'
  <2>1. \A a \in App : pc'[a] \in {"connect", "seed", "serving"} => version' = "head"
    <3>1. CASE m = Operator
      BY <1>9, <3>1, Actors DEF MigrationInv, Alone
    <3>2. CASE m # Operator
      BY <1>6, <3>2 DEF Target
    <3> QED
      BY <3>1, <3>2
  <2> QED
    BY <1>8, <2>1 DEF SchemaIsWhole, SchemaOf
<1>14. ASSUME NEW n \in Migrator \ {m} PROVE Migrating(n)'
  <2>1. CASE pc[n] # "migrate"
    BY <1>9, <2>1 DEF MigrationInv, Migrating
  <2>2. CASE pc[n] = "migrate"
    <3>1. n \in App /\ n # Operator /\ m \in App /\ m # Operator
      BY <1>9, <2>2, Actors DEF MigrationInv, Alone
    <3>2. PICK w \in Version, q \in Nat : Under(n, w, q)
      BY <2>2 DEF MigrationInv, Migrating
    <3>3. q = 0
      <4> SUFFICES ASSUME q # 0 PROVE FALSE
        OBVIOUS
      <4>1. w = version /\ Path(n, w)[1].table \in DOMAIN draft[n] /\ q \in 0..Len(Path(n, w))
        BY <3>2 DEF Under
      <4>2. Path(n, w) = Path(m, v)
        BY <1>4, <3>1, <4>1 DEF Path
      <4>3. p # 0
        BY <1>2, <1>3, <4>1, <4>2
      <4>4. Path(m, v)[1].table \in DOMAIN draft[m]
        BY <1>1, <4>3 DEF Under
      <4> QED
        BY <4>1, <4>2, <4>4 DEF MigrationInv, Locks
    <3>4. version' = "head" /\ schema' = Declared
      <4>1. version' = "head"
        BY <1>6, <3>1 DEF Target
      <4> QED
        BY <1>8, <4>1, Cases
    <3>5. draft'[n] = None
      BY <1>9, <3>2, <3>3 DEF Under
    <3>6. version' = w => Reached(n, w, 0, View(n)')
      <4>1. \A t \in Table : View(n)'[t] = Declared[t]
        BY <3>4, <3>5 DEF View, None
      <4>2. SchemaOf("head") = Declared
        BY Cases
      <4> QED
        BY <3>1, <3>2, <3>4, <4>1, <4>2, Departs DEF Under
    <3>7. \A r : r = q => Under(n, w, r)'
      BY <1>9, <3>1, <3>2, <3>3, <3>4, <3>5, <3>6 DEF Under
    <3> QED
      BY <1>9, <2>2, <3>7 DEF Migrating
  <2> QED
    BY <2>1, <2>2
<1>15. Migrating(m)'
  BY <1>9 DEF Migrating
<1> QED
  BY <1>7, <1>10, <1>11, <1>12, <1>13, <1>14, <1>15 DEF MigrationInv

LEMMA InitMigration == Init => MigrationInv
<1> SUFFICES ASSUME Init PROVE MigrationInv
  OBVIOUS
<1>1. Shape /\ Jobs /\ version \in Version
  BY Actors DEF Init, Shape, Jobs, Where, Version
<1>2. SchemaIsWhole
  BY Actors DEF Init, SchemaIsWhole
<1>3. \A m \in Migrator : pc[m] = "down" /\ draft[m] = None
  BY DEF Init, None
<1>4. Locks /\ \A m \in Migrator : Migrating(m)
  <2>1. DOMAIN None = {}
    BY DEF None
  <2> QED
    BY <1>3, <2>1 DEF Locks, Migrating
<1>5. Alone
  BY <1>3, Actors DEF Alone
<1> QED
  BY <1>1, <1>2, <1>4, <1>5 DEF MigrationInv

\* An error in a transaction.
LEMMA FailsStep ==
    ASSUME MigrationInv, NEW x \in Client, Fails(x), UNCHANGED migration,
           x \in Migrator => pc[x] # "migrate"
    PROVE  MigrationInv'
<1>1. DOMAIN work' = Client /\ work'[x] = "none" /\ \A y \in Client \ {x} : work'[y] = work[y]
  BY DEF Fails, Open, MigrationInv, Shape
<1>2. CASE work[x] = "seed"
  <2>1. x \in App /\ pc[x] = "seed"
    BY <1>2 DEF MigrationInv, Jobs, Client
  <2>2. /\ pc'[x] \in {"down", "serving"} /\ \A m \in Migrator \ {x} : pc'[m] = pc[m]
        /\ pc' \in [Migrator -> Where]
    BY <1>2, <2>1, Actors DEF Fails, Goto, MigrationInv, Shape, Where
  <2>3. Jobs'
    BY <1>1, <2>1, <2>2, Actors, ActorAssumption DEF MigrationInv, Jobs
  <2> QED
    BY <1>1, <2>1, <2>2, <2>3, TrafficStep
<1>3. CASE work[x] # "seed"
  <2>1. UNCHANGED pc /\ pc' \in [Migrator -> Where]
    BY <1>3 DEF Fails, MigrationInv, Shape
  <2>2. Jobs'
    BY <1>1, <1>3, <2>1, Actors DEF MigrationInv, Jobs
  <2> QED
    BY <1>1, <2>1, <2>2, TrafficStep
<1> QED
  BY <1>2, <1>3

\* What a container does besides migrating.
LEMMA ServerStep ==
    ASSUME MigrationInv, NEW a \in App,
           \/ Connect(a) \/ Seeded(a) \/ Stop(a)
           \/ \E kind \in {"request", "sweep"} : Accept(a, kind)
    PROVE  MigrationInv'
<1>1. UNCHANGED migration
  BY DEF Connect, Seeded, Stop, Accept
<1>2. /\ DOMAIN work' = Client /\ pc' \in [Migrator -> Where]
      /\ \A y \in Client \ {a} : work'[y] = work[y]
      /\ \A m \in Migrator \ {a} : pc'[m] = pc[m]
  BY DEF Connect, Seeded, Stop, Accept, Goto, Open, traffic, MigrationInv, Shape, Where
<1>3. /\ pc[a] \in {"connect", "seed", "serving"} /\ pc'[a] \in {"down", "seed", "serving"}
      /\ work'[a] = "seed" <=> pc'[a] = "seed"
  BY Actors DEF Connect, Seeded, Stop, Accept, Goto, Open, traffic, MigrationInv, Shape, Jobs
<1>4. Jobs'
  BY <1>2, <1>3, Actors, ActorAssumption DEF MigrationInv, Jobs
<1>5. \A m \in Migrator :
         \/ pc'[m] = pc[m]
         \/ /\ m \in App /\ pc[m] \in {"connect", "seed", "serving"}
            /\ pc'[m] \in {"down", "seed", "serving"}
  BY <1>2, <1>3, Zenon
<1> QED
  BY <1>1, <1>2, <1>4, <1>5, TrafficStep

\* The transactions of workers and servers.
LEMMA TransactionStep ==
    ASSUME MigrationInv, UNCHANGED <<migration, pc>>,
           NEW x \in Client,
           \/ UNCHANGED work
           \/ /\ work' = [work EXCEPT ![x] = "none"] /\ work[x] # "seed"
           \/ /\ x \in Worker
              /\ \E kind \in {"chunk", "relate", "sync"} : work' = [work EXCEPT ![x] = kind]
    PROVE  MigrationInv'
<1>1. DOMAIN work' = Client /\ pc' \in [Migrator -> Where]
  BY DEF MigrationInv, Shape
<1>2. Jobs'
  BY Actors, ActorAssumption DEF MigrationInv, Jobs, Shape
<1> QED
  BY <1>1, <1>2, TrafficStep

LEMMA StepMigration == MigrationInv /\ [Next]_vars => MigrationInv'
<1> SUFFICES ASSUME MigrationInv, [Next]_vars PROVE MigrationInv'
  OBVIOUS
<1>1. ASSUME NEW a \in App, Boot(a) PROVE MigrationInv'
  <2>1. /\ Begins(a, version) /\ Path(a, version) = Upgrade(version) /\ a # Operator
    BY Actors DEF MigrationInv, Begins, Path
  <2> QED
    BY <1>1, <2>1, Actors, StartStep DEF Boot, traffic
<1>2. ASSUME NEW a \in App,
             \/ Connect(a) \/ Seeded(a) \/ Stop(a)
             \/ \E kind \in {"request", "sweep"} : Accept(a, kind)
      PROVE  MigrationInv'
  BY <1>2, ServerStep
<1>3. ASSUME NEW a \in App, Crash(a) PROVE MigrationInv'
  <2>1. DOMAIN work' = Client /\ work'[a] = "none" /\ \A y \in Client \ {a} : work'[y] = work[y]
    BY <1>3, Actors DEF Crash, Open, MigrationInv, Shape
  <2>2. Jobs'
    BY <1>3, <2>1, Actors, ActorAssumption DEF Crash, Goto, MigrationInv, Jobs, Shape
  <2> QED
    BY <1>3, <2>1, <2>2, Actors, AbandonStep DEF Crash
<1>4. ASSUME Downgrade PROVE MigrationInv'
  <2>1. /\ Begins(Operator, version)
        /\ Path(Operator, version) = IF version = "head" THEN UpdatedAtDown ELSE InitialDown
    BY <1>4 DEF MigrationInv, Begins, Path, Downgrade
  <2> QED
    BY <1>4, <2>1, Actors, StartStep DEF Downgrade, traffic
<1>5. ASSUME NEW m \in Migrator, Migrate(m) \/ CommitMigration(m) PROVE MigrationInv'
  BY <1>5, MigrateStep, CommitStep
<1>6. ASSUME NEW w \in Worker, NEW kind \in {"chunk", "relate", "sync"}, Work(w, kind)
      PROVE  MigrationInv'
  BY <1>6, Actors, TransactionStep DEF Work, Open
<1>7. ASSUME NEW x \in Client, Touch(x) PROVE MigrationInv'
  <2>1. UNCHANGED migration
    BY <1>7 DEF Touch
  <2>2. CASE UNCHANGED <<work, pc>>
    BY <2>1, <2>2, TransactionStep
  <2>3. CASE Fails(x)
    <3>1. CASE x \in Migrator /\ pc[x] = "migrate"
      <4>1. work[x] # "seed"
        BY <3>1, Actors, ActorAssumption DEF MigrationInv, Jobs, Client, Migrator
      <4> QED
        BY <2>1, <2>3, <4>1, TransactionStep DEF Fails, Open
    <3> QED
      BY <2>1, <2>3, <3>1, FailsStep
  <2> QED
    BY <1>7, <2>2, <2>3 DEF Touch
<1>8. ASSUME NEW x \in Client, Finish(x) PROVE MigrationInv'
  BY <1>8, TransactionStep DEF Finish, Open
<1>9. ASSUME NEW x \in Migrator \cup Client, DeadlockVictim(x) PROVE MigrationInv'
  <2>1. CASE x \in Migrator /\ pc[x] = "migrate"
    <3>1. Abandoned(x) /\ Goto(x, "down") /\ UNCHANGED <<schema, version, work>>
      BY <1>9, <2>1 DEF DeadlockVictim, traffic
    <3>2. DOMAIN work' = Client /\ Jobs'
      BY <2>1, <3>1, Actors DEF Goto, MigrationInv, Jobs, Shape
    <3> QED
      BY <2>1, <3>1, <3>2, AbandonStep
  <2>2. CASE ~(x \in Migrator /\ pc[x] = "migrate")
    <3>1. Fails(x) /\ UNCHANGED migration
      BY <1>9, <2>2 DEF DeadlockVictim, migration
    <3>2. x \in Client
      BY <1>9, <2>2 DEF DeadlockVictim, WaitsFor
    <3> QED
      BY <2>2, <3>1, <3>2, FailsStep
  <2> QED
    BY <2>1, <2>2
<1>10. ASSUME UNCHANGED vars PROVE MigrationInv'
  <2>1. UNCHANGED migration /\ UNCHANGED pc /\ UNCHANGED work
    BY <1>10 DEF vars, traffic
  <2>2. DOMAIN work' = Client /\ Jobs' /\ pc' \in [Migrator -> Where]
    BY <2>1 DEF MigrationInv, Shape, Jobs
  <2> QED
    BY <2>1, <2>2, TrafficStep
<1> QED
  BY <1>1, <1>2, <1>3, <1>4, <1>5, <1>6, <1>7, <1>8, <1>9, <1>10 DEF Next

\* For any number of containers, workers, crashes and downgrades: the schema is
\* always that of one revision, the one alembic_version names, and no container
\* serves or seeds at another than the last.
THEOREM SchemaIsAlwaysWhole == Spec => []SchemaIsWhole
<1>1. MigrationInv => SchemaIsWhole
  BY DEF MigrationInv
<1> QED
  BY <1>1, InitMigration, StepMigration, PTL DEF Spec

=============================================================================
