----------------------------- MODULE AuthProofs -----------------------------
(***************************************************************************)
(* Theorems of Auth.                                                       *)
(***************************************************************************)
EXTENDS Auth, FiniteSetTheorems, TLAPS

\* What is drawn, and what may still be, is within the bounds.
Budget ==
    /\ drawn + Cardinality(Drawing) <= MaxTokens
    /\ drawnOrgs + Cardinality(Registering) <= MaxOrgs

TypeInv == TypeOK /\ Budget

-----------------------------------------------------------------------------
(* A step of one handler.                                                  *)

\* The locals of a handler have their types.
Shape ==
    /\ pc \in [Handler -> Label]
    /\ req \in [Handler -> Request]
    /\ user \in [Handler -> Email \cup {Nobody}]
    /\ fresh \in [Handler -> Token \cup {Unknown}]
    /\ draft \in [Handler -> [orgs : SUBSET OrgRow, users : SUBSET UserRow]]

Untouched(q) ==
    /\ pc'[q] = pc[q] /\ req'[q] = req[q] /\ user'[q] = user[q]
    /\ fresh'[q] = fresh[q] /\ draft'[q] = draft[q]

\* Nobody but h moves.
Others(h) == \A q \in Handler \ {h} : Untouched(q)

\* h moves, and knows what it must where it gets.
Moves(h) ==
    /\ Shape' /\ Others(h)
    /\ HandlerOK(pc'[h], req'[h], user'[h], fresh'[h])

LEMMA Bounds == MaxOrgs \in Nat /\ MaxTokens \in Nat /\ MaxFaults \in Nat
BY BoundsAssumption

LEMMA Counted ==
    /\ IsFiniteSet(Drawing) /\ Cardinality(Drawing) \in Nat
    /\ IsFiniteSet(Registering) /\ Cardinality(Registering) \in Nat
<1>1. Drawing \in SUBSET Handler /\ Registering \in SUBSET Handler
  BY DEF Drawing, Registering
<1>2. IsFiniteSet(Drawing) /\ IsFiniteSet(Registering)
  BY <1>1, HandlerAssumption, FS_Subset
<1> QED
  BY <1>2, FS_CardinalityType

\* Handlers that leave a set make room in it.
LEMMA Fewer ==
    ASSUME NEW S, IsFiniteSet(S), NEW T \in SUBSET S, NEW h
    PROVE  /\ Cardinality(T) \in Nat /\ Cardinality(T) <= Cardinality(S)
           /\ h \in S \ T => Cardinality(T) + 1 <= Cardinality(S)
<1>1. IsFiniteSet(T) /\ Cardinality(T) <= Cardinality(S)
  BY FS_Subset
<1>2. Cardinality(T) \in Nat /\ Cardinality(S) \in Nat
  BY <1>1, FS_CardinalityType
<1>3. ASSUME h \in S \ T PROVE Cardinality(T) + 1 <= Cardinality(S)
  <2>1. IsFiniteSet(S \ {h}) /\ Cardinality(S \ {h}) = Cardinality(S) - 1
    BY <1>3, FS_RemoveElement
  <2>2. T \in SUBSET (S \ {h})
    BY <1>3
  <2>3. Cardinality(T) <= Cardinality(S \ {h})
    BY <2>1, <2>2, FS_Subset
  <2> QED
    BY <1>2, <2>1, <2>3
<1> QED
  BY <1>1, <1>2, <1>3

LEMMA AtMostOneMore ==
    ASSUME NEW S, IsFiniteSet(S), NEW h, NEW T \in SUBSET (S \cup {h})
    PROVE  Cardinality(T) \in Nat /\ Cardinality(T) <= Cardinality(S) + 1
<1>1. Cardinality(S) \in Nat
  BY FS_CardinalityType
<1>2. IsFiniteSet(S \cup {h}) /\ Cardinality(S \cup {h}) <= Cardinality(S) + 1
  BY <1>1, FS_AddElement
<1>3. IsFiniteSet(T) /\ Cardinality(T) <= Cardinality(S \cup {h})
  BY <1>2, FS_Subset
<1> QED
  BY <1>1, <1>2, <1>3, FS_CardinalityType

\* A step of h that draws no token keeps to the bound if h could have drawn
\* one before, cannot after, or there is room.
LEMMA TokensBudget ==
    ASSUME Budget, NEW h \in Handler, Others(h), drawn \in Nat, drawn' = drawn,
           MayDraw(pc'[h], req'[h]) => MayDraw(pc[h], req[h]) \/ Room
    PROVE  drawn' + Cardinality(Drawing') <= MaxTokens
<1>1. Drawing' \in SUBSET (Drawing \cup {h})
  BY DEF Drawing, Others, Untouched, MayDraw
<1>2. Cardinality(Drawing') \in Nat /\ Cardinality(Drawing') <= Cardinality(Drawing) + 1
  BY <1>1, Counted, AtMostOneMore
<1>3. CASE Room
  BY <1>2, <1>3, Counted, Bounds DEF Room
<1>4. CASE ~Room
  <2>1. Drawing' \in SUBSET Drawing
    BY <1>4 DEF Drawing, Others, Untouched, MayDraw
  <2>2. Cardinality(Drawing') \in Nat /\ Cardinality(Drawing') <= Cardinality(Drawing)
    BY <2>1, Counted, Fewer
  <2> QED
    BY <2>2, Counted, Bounds DEF Budget
<1> QED
  BY <1>3, <1>4

LEMMA OrgsBudget ==
    ASSUME Budget, NEW h \in Handler, Others(h), drawnOrgs \in Nat, drawnOrgs' = drawnOrgs,
           pc'[h] \in {"check", "org"} => pc[h] \in {"check", "org"} \/ OrgRoom
    PROVE  drawnOrgs' + Cardinality(Registering') <= MaxOrgs
<1>1. Registering' \in SUBSET (Registering \cup {h})
  BY DEF Registering, Others, Untouched
<1>2. Cardinality(Registering') \in Nat /\ Cardinality(Registering') <= Cardinality(Registering) + 1
  BY <1>1, Counted, AtMostOneMore
<1>3. CASE OrgRoom
  BY <1>2, <1>3, Counted, Bounds DEF OrgRoom
<1>4. CASE ~OrgRoom
  <2>1. Registering' \in SUBSET Registering
    BY <1>4 DEF Registering, Others, Untouched
  <2>2. Cardinality(Registering') \in Nat /\ Cardinality(Registering') <= Cardinality(Registering)
    BY <2>1, Counted, Fewer
  <2> QED
    BY <2>2, Counted, Bounds DEF Budget
<1> QED
  BY <1>3, <1>4

\* A step of h that draws a token or an organization was reckoned with.
LEMMA TokensSpent ==
    ASSUME Budget, NEW h \in Handler, Others(h), drawn \in Nat, drawn' = drawn + 1,
           MayDraw(pc[h], req[h]), ~MayDraw(pc'[h], req'[h])
    PROVE  drawn' \in Token /\ drawn' + Cardinality(Drawing') <= MaxTokens
<1>1. Drawing' \in SUBSET Drawing /\ h \in Drawing \ Drawing'
  BY DEF Drawing, Others, Untouched, MayDraw
<1>2. Cardinality(Drawing') \in Nat /\ Cardinality(Drawing') + 1 <= Cardinality(Drawing)
  BY <1>1, Counted, Fewer
<1> QED
  BY <1>2, Counted, Bounds DEF Budget, Token

LEMMA OrgsSpent ==
    ASSUME Budget, NEW h \in Handler, Others(h), drawnOrgs \in Nat, drawnOrgs' = drawnOrgs + 1,
           pc[h] \in {"check", "org"}, pc'[h] \notin {"check", "org"}
    PROVE  drawnOrgs' \in 1..MaxOrgs /\ drawnOrgs' + Cardinality(Registering') <= MaxOrgs
<1>1. Registering' \in SUBSET Registering /\ h \in Registering \ Registering'
  BY DEF Registering, Others, Untouched
<1>2. Cardinality(Registering') \in Nat /\ Cardinality(Registering') + 1 <= Cardinality(Registering)
  BY <1>1, Counted, Fewer
<1> QED
  BY <1>2, Counted, Bounds DEF Budget

-----------------------------------------------------------------------------
(* Types.                                                                  *)

\* The rest of the state.
Tables ==
    /\ orgs \in SUBSET OrgRow /\ users \in SUBSET UserRow /\ drawnOrgs \in 0..MaxOrgs
    /\ redis \in [Token -> Email \cup {Nobody}] /\ drawn \in 0..MaxTokens
    /\ lineage \in [Token -> SUBSET Token]
    /\ held \in SUBSET Token /\ faults \in 0..MaxFaults
    /\ lost \in SUBSET Token /\ raced \in SUBSET Token

LEMMA TypesOfAll ==
    ASSUME TypeOK, NEW h \in Handler, Moves(h), Tables' PROVE TypeOK'
<1>1. \A q \in Handler : HandlerOK(pc'[q], req'[q], user'[q], fresh'[q])
  BY DEF Moves, Others, Untouched, TypeOK
<1> QED
  BY <1>1 DEF Moves, Shape, Tables, TypeOK

LEMMA TypesNow ==
    ASSUME TypeOK
    PROVE  /\ Shape /\ Tables
           /\ \A h \in Handler : HandlerOK(pc[h], req[h], user[h], fresh[h])
BY DEF TypeOK, Shape, Tables

LEMMA EndMoves ==
    ASSUME TypeOK, NEW h \in Handler, End(h)
    PROVE  /\ Moves(h) /\ pc'[h] = "idle" /\ req'[h] = NoRequest
           /\ fresh'[h] = Unknown /\ draft'[h] = NoRows
<1>1. /\ pc'[h] = "idle" /\ req'[h] = NoRequest
      /\ fresh'[h] = Unknown /\ draft'[h] = NoRows
      /\ Others(h)
  BY DEF End, Goto, TypeOK, Others, Untouched
<1>2. Shape'
  <2>1. NoRows \in [orgs : SUBSET OrgRow, users : SUBSET UserRow]
    BY DEF NoRows
  <2>2. NoRequest \in Request
    BY DEF Request
  <2> QED
    BY <2>1, <2>2 DEF End, Goto, TypeOK, Shape, Label
<1>3. HandlerOK(pc'[h], req'[h], user'[h], fresh'[h])
  BY <1>1 DEF HandlerOK
<1> QED
  BY <1>1, <1>2, <1>3 DEF Moves

LEMMA InitTypes == Init => TypeInv
<1> SUFFICES ASSUME Init PROVE TypeInv
  OBVIOUS
<1>1. TypeOK
  <2>1. \A h \in Handler : HandlerOK(pc[h], req[h], user[h], fresh[h])
    BY DEF Init, HandlerOK
  <2>2. Shape
    <3>1. NoRows \in [orgs : SUBSET OrgRow, users : SUBSET UserRow]
      BY DEF NoRows
    <3>2. NoRequest \in Request
      BY DEF Request
    <3> QED
      BY <3>1, <3>2 DEF Init, Shape, Label
  <2>3. Tables
    BY Bounds DEF Init, Tables
  <2> QED
    BY <2>1, <2>2, <2>3 DEF TypeOK, Shape, Tables
<1>2. Drawing = {} /\ Registering = {}
  BY DEF Init, Drawing, Registering, MayDraw
<1> QED
  BY <1>1, <1>2, FS_EmptySet, Bounds DEF Init, TypeInv, Budget

\* The two parts of the budget make the whole.
LEMMA BudgetWhole ==
    ASSUME drawn' + Cardinality(Drawing') <= MaxTokens,
           drawnOrgs' + Cardinality(Registering') <= MaxOrgs
    PROVE  Budget'
BY DEF Budget

LEMMA RequestBegins ==
    ASSUME TypeInv, NEW h \in Handler, NEW r \in Request, NEW a \in Label, Begin(h, r, a),
           HandlerOK(a, r, user[h], fresh[h]),
           Room \/ ~MayDraw(a, r), OrgRoom \/ a \notin {"check", "org"}
    PROVE  TypeInv'
<1>1. Others(h) /\ pc'[h] = a /\ req'[h] = r
  BY DEF Begin, Goto, TypeInv, TypeOK, Others, Untouched
<1>2. Moves(h)
  <2>1. Shape'
    BY DEF Begin, Goto, TypeInv, TypeOK, Shape
  <2>2. user' = user /\ fresh' = fresh
    BY DEF Begin
  <2> QED
    BY <1>1, <2>1, <2>2 DEF Moves
<1>3. Tables'
  BY DEF Begin, TypeInv, TypeOK, Tables, tables, tokens, client
<1>4. TypeOK'
  BY <1>2, <1>3, TypesOfAll DEF TypeInv
<1>5. drawn' = drawn /\ drawnOrgs' = drawnOrgs /\ drawn \in Nat /\ drawnOrgs \in Nat
  BY Bounds DEF Begin, tables, tokens, TypeInv, TypeOK
<1>6. Budget'
  BY <1>1, <1>5, TokensBudget, OrgsBudget, BudgetWhole DEF TypeInv
<1> QED
  BY <1>4, <1>6 DEF TypeInv

\* A step of h that draws nothing and does not begin a request.
LEMMA GoesOn ==
    ASSUME TypeInv, NEW h \in Handler, Moves(h), Tables',
           drawn' = drawn, drawnOrgs' = drawnOrgs,
           MayDraw(pc'[h], req'[h]) => MayDraw(pc[h], req[h]),
           pc'[h] \in {"check", "org"} => pc[h] \in {"check", "org"}
    PROVE  TypeInv'
<1>1. TypeOK'
  BY TypesOfAll DEF TypeInv
<1>2. drawn \in Nat /\ drawnOrgs \in Nat
  BY Bounds DEF TypeInv, TypeOK
<1>3. Budget'
  BY <1>2, TokensBudget, OrgsBudget, BudgetWhole DEF TypeInv, Moves
<1> QED
  BY <1>1, <1>3 DEF TypeInv

\* A request that ends makes room.
LEMMA EndGoesOn ==
    ASSUME TypeInv, NEW h \in Handler, End(h), Tables',
           drawn' = drawn, drawnOrgs' = drawnOrgs
    PROVE  TypeInv'
<1>1. Moves(h) /\ pc'[h] = "idle"
  BY EndMoves DEF TypeInv
<1> QED
  BY <1>1, GoesOn DEF MayDraw

LEMMA StepTypes == TypeInv /\ [Next]_vars => TypeInv'
<1> SUFFICES ASSUME TypeInv, [Next]_vars PROVE TypeInv'
  OBVIOUS
<1>0. /\ Shape /\ Tables
      /\ \A h \in Handler : HandlerOK(pc[h], req[h], user[h], fresh[h])
  BY TypesNow DEF TypeInv
<1>1. ASSUME NEW h \in Handler, NEW s \in Slug, NEW e \in Email, Register(h, s, e)
      PROVE  TypeInv'
  <2>1. [kind |-> "register", slug |-> s, email |-> e] \in Registers
    BY DEF Registers
  <2> QED
    BY <1>1, <2>1, RequestBegins DEF Register, Request, Label, HandlerOK
<1>2. ASSUME NEW h \in Handler, NEW e \in Email, Login(h, e) PROVE TypeInv'
  <2>1. [kind |-> "login", email |-> e] \in Logins
    BY DEF Logins
  <2> QED
    BY <1>2, <2>1, RequestBegins DEF Login, Request, Label, HandlerOK
<1>3. ASSUME NEW h \in Handler, NEW t \in held \cup {Unknown}, Refresh(h, t)
      PROVE  TypeInv'
  <2>1. [kind |-> "refresh", token |-> t] \in Refreshes
    BY <1>0 DEF Refreshes, Tables
  <2>2. Room \/ ~MayDraw("get", [kind |-> "refresh", token |-> t])
    BY <1>3 DEF Refresh, MayDraw
  <2> QED
    BY <1>3, <2>1, <2>2, RequestBegins DEF Refresh, Request, Label, HandlerOK
<1>4. ASSUME NEW h \in Handler, CheckSlug(h) PROVE TypeInv'
  <2>1. Tables' /\ drawn' = drawn /\ drawnOrgs' = drawnOrgs
    BY <1>0, <1>4 DEF CheckSlug, Tables, tables, tokens, client
  <2>2. CASE End(h)
    BY <2>1, <2>2, EndGoesOn
  <2>3. CASE Goto(h, "org") /\ UNCHANGED <<req, user, fresh, draft>>
    <3>1. Moves(h)
      BY <1>0, <1>4, <2>3 DEF CheckSlug, Goto, Shape, Moves, Others, Untouched, HandlerOK, Label
    <3> QED
      BY <1>0, <1>4, <2>1, <2>3, <3>1, GoesOn DEF CheckSlug, Goto, Shape, MayDraw
  <2> QED
    BY <1>4, <2>2, <2>3 DEF CheckSlug
<1>5. ASSUME NEW h \in Handler, Commit(h) PROVE TypeInv'
  <2>1. Tables' /\ drawn' = drawn /\ drawnOrgs' = drawnOrgs
    BY <1>0, <1>5 DEF Commit, Tables, Shape, tokens, client
  <2>2. NoRows \in [orgs : SUBSET OrgRow, users : SUBSET UserRow]
    BY DEF NoRows
  <2>3. Moves(h)
    BY <1>0, <1>5, <2>2 DEF Commit, Goto, Shape, Moves, Others, Untouched, HandlerOK, Label
  <2> QED
    BY <1>0, <1>5, <2>1, <2>3, GoesOn DEF Commit, Goto, Shape, MayDraw
<1>6. ASSUME NEW h \in Handler, InsertOrg(h) PROVE TypeInv'
  <2>1. CASE SlugTaken(orgs, req[h].slug)
    <3>1. End(h) /\ Tables' /\ drawn' = drawn /\ drawnOrgs' = drawnOrgs
      BY <1>0, <1>6, <2>1 DEF InsertOrg, Tables, tokens, client
    <3> QED
      BY <3>1, EndGoesOn
  <2>2. CASE ~SlugTaken(orgs, req[h].slug)
    <3> DEFINE row == [slug |-> req[h].slug, id |-> drawnOrgs']
    <3>1. /\ pc[h] = "org" /\ drawnOrgs' = drawnOrgs + 1
          /\ draft' = [draft EXCEPT ![h].orgs = {row}]
          /\ Goto(h, "user") /\ UNCHANGED <<req, user, fresh>>
          /\ UNCHANGED <<orgs, users, tokens, client>>
      BY <1>6, <2>2 DEF InsertOrg
    <3>2. Others(h) /\ pc'[h] = "user" /\ req[h] \in Registers
      BY <1>0, <3>1 DEF Others, Untouched, Goto, Shape, HandlerOK
    <3>3. drawnOrgs \in Nat /\ drawn \in Nat /\ drawn' = drawn
      BY <1>0, <3>1, Bounds DEF Tables, tokens
    <3>4. /\ drawnOrgs' \in 1..MaxOrgs
          /\ drawnOrgs' + Cardinality(Registering') <= MaxOrgs
      BY <3>1, <3>2, <3>3, OrgsSpent DEF TypeInv
    <3>5. Tables'
      BY <1>0, <3>1, <3>4, Bounds DEF Tables, tokens, client
    <3>6. Moves(h)
      <4>1. row \in OrgRow
        BY <3>2, <3>4 DEF OrgRow, Registers
      <4>2. Shape'
        BY <1>0, <3>1, <4>1 DEF Shape, Goto, Label
      <4> QED
        BY <1>0, <3>1, <3>2, <4>2 DEF Moves, HandlerOK
    <3>7. TypeOK'
      BY <3>5, <3>6, TypesOfAll DEF TypeInv
    <3>8. drawn' + Cardinality(Drawing') <= MaxTokens
      BY <3>1, <3>2, <3>3, TokensBudget DEF TypeInv, MayDraw
    <3> QED
      BY <3>4, <3>7, <3>8, BudgetWhole DEF TypeInv
  <2> QED
    BY <2>1, <2>2
<1>7. ASSUME NEW h \in Handler, InsertUser(h) PROVE TypeInv'
  <2>1. Tables' /\ drawn' = drawn /\ drawnOrgs' = drawnOrgs
    BY <1>0, <1>7 DEF InsertUser, Tables, tables, tokens, client
  <2>2. CASE EmailTaken(users, req[h].email)
    BY <1>7, <2>1, <2>2, EndGoesOn DEF InsertUser
  <2>3. CASE ~EmailTaken(users, req[h].email)
    <3> DEFINE rows == {[email |-> req[h].email, org |-> o.id] : o \in draft[h].orgs}
    <3>1. /\ pc[h] = "user" /\ Goto(h, "commit")
          /\ draft' = [draft EXCEPT ![h].users = rows]
          /\ user' = [user EXCEPT ![h] = req[h].email]
          /\ UNCHANGED <<req, fresh>>
      BY <1>7, <2>3 DEF InsertUser
    <3>2. Others(h) /\ pc'[h] = "commit" /\ req[h] \in Registers
      BY <1>0, <3>1 DEF Others, Untouched, Goto, Shape, HandlerOK
    <3>3. rows \in SUBSET UserRow
      <4>1. \A o \in draft[h].orgs : o.id \in 1..MaxOrgs
        BY <1>0 DEF Shape, OrgRow
      <4> QED
        BY <3>2, <4>1 DEF UserRow, Registers
    <3>4. req[h].email \in Email
      BY <3>2 DEF Registers
    <3>5. Shape'
      BY <1>0, <3>1, <3>3, <3>4 DEF Shape, Goto, Label
    <3>6. Moves(h)
      BY <1>0, <3>1, <3>2, <3>4, <3>5 DEF Shape, Moves, HandlerOK
    <3> QED
      BY <2>1, <3>1, <3>2, <3>6, GoesOn DEF MayDraw
  <2> QED
    BY <2>2, <2>3
<1>8. ASSUME NEW h \in Handler, Authenticate(h) PROVE TypeInv'
  <2>1. Tables' /\ drawn' = drawn /\ drawnOrgs' = drawnOrgs
    BY <1>0, <1>8 DEF Authenticate, Tables, tables, tokens, client
  <2>2. CASE End(h)
    BY <2>1, <2>2, EndGoesOn
  <2>3. CASE ~End(h)
    <3>1. /\ pc[h] = "authenticate" /\ Goto(h, "issue")
          /\ user' = [user EXCEPT ![h] = req[h].email]
          /\ UNCHANGED <<req, fresh, draft>>
      BY <1>8, <2>3 DEF Authenticate
    <3>2. Others(h) /\ pc'[h] = "issue" /\ req[h] \in Logins
      BY <1>0, <3>1 DEF Others, Untouched, Goto, Shape, HandlerOK
    <3>3. req[h].email \in Email
      BY <3>2 DEF Logins
    <3>4. Moves(h)
      BY <1>0, <3>1, <3>2, <3>3 DEF Shape, Goto, Label, Moves, HandlerOK
    <3> QED
      BY <2>1, <3>1, <3>2, <3>4, GoesOn DEF MayDraw
  <2> QED
    BY <2>2, <2>3
<1>9. ASSUME NEW h \in Handler, GetToken(h) PROVE TypeInv'
  <2>1. Tables' /\ drawn' = drawn /\ drawnOrgs' = drawnOrgs
    <3>1. UNCHANGED <<tables, tokens, held, faults, lost>>
      BY <1>9 DEF GetToken
    <3>2. pc[h] = "get" => req[h] \in Refreshes
      BY <1>0 DEF HandlerOK
    <3>3. raced' \in SUBSET Token
      BY <1>0, <1>9, <3>2 DEF GetToken, Refreshes, Tables
    <3> QED
      BY <1>0, <3>1, <3>3 DEF Tables, tables, tokens
  <2>2. CASE End(h)
    BY <2>1, <2>2, EndGoesOn
  <2>3. CASE ~End(h)
    <3>1. /\ pc[h] = "get" /\ Goto(h, "delete")
          /\ user' = [user EXCEPT ![h] = redis[req[h].token]]
          /\ req[h].token # Unknown /\ redis[req[h].token] # Nobody
          /\ UNCHANGED <<req, fresh, draft>>
      BY <1>9, <2>3 DEF GetToken
    <3>2. Others(h) /\ pc'[h] = "delete" /\ req[h] \in Refreshes
      BY <1>0, <3>1 DEF Others, Untouched, Goto, Shape, HandlerOK
    <3>3. redis[req[h].token] \in Email
      BY <1>0, <3>1, <3>2 DEF Refreshes, Tables
    <3>4. Moves(h)
      BY <1>0, <3>1, <3>2, <3>3 DEF Shape, Goto, Label, Moves, HandlerOK
    <3> QED
      BY <2>1, <3>1, <3>2, <3>4, GoesOn DEF MayDraw
  <2> QED
    BY <2>2, <2>3
<1>10. ASSUME NEW h \in Handler, DeleteToken(h) PROVE TypeInv'
  <2>1. Tables' /\ drawn' = drawn /\ drawnOrgs' = drawnOrgs
    BY <1>0, <1>10 DEF DeleteToken, Tables, tables, client
  <2>2. Moves(h) /\ pc'[h] = "issue"
    BY <1>0, <1>10 DEF DeleteToken, Others, Untouched, Goto, Shape, Label, Moves, HandlerOK
  <2> QED
    BY <1>10, <2>1, <2>2, GoesOn DEF DeleteToken, MayDraw
<1>11. ASSUME NEW h \in Handler, IssueToken(h) PROVE TypeInv'
  <2> DEFINE next == IF req[h].kind = "refresh" THEN "load" ELSE "respond"
  <2>1. /\ pc[h] = "issue" /\ drawn' = drawn + 1
        /\ Others(h) /\ pc'[h] = next /\ UNCHANGED <<req, user, draft>>
        /\ fresh' = [fresh EXCEPT ![h] = drawn']
    BY <1>0, <1>11 DEF IssueToken, Others, Untouched, Goto, Shape
  <2>2. drawnOrgs \in Nat /\ drawn \in Nat /\ drawnOrgs' = drawnOrgs
    BY <1>0, <1>11, Bounds DEF Tables, tables, IssueToken
  <2>3. drawn' \in Token /\ drawn' + Cardinality(Drawing') <= MaxTokens
    BY <2>1, <2>2, TokensSpent DEF TypeInv, MayDraw
  <2>4. drawnOrgs' + Cardinality(Registering') <= MaxOrgs
    BY <2>1, <2>2, OrgsBudget DEF TypeInv
  <2>5. /\ HandlerOK("issue", req[h], user[h], fresh[h]) /\ user[h] \in Email
        /\ Replaced(h) \in SUBSET Token
    <3>1. HandlerOK("issue", req[h], user[h], fresh[h])
      BY <1>0, <2>1
    <3>2. req[h].kind = "refresh" => req[h].token \in Token
      BY <3>1 DEF HandlerOK, Registers, Logins, Refreshes
    <3> QED
      BY <1>0, <3>1, <3>2 DEF HandlerOK, Replaced, Tables
  <2>6. Tables'
    <3>1. drawn' \in 0..MaxTokens
      BY <2>3, Bounds DEF Token
    <3>2. redis' \in [Token -> Email \cup {Nobody}] /\ lineage' \in [Token -> SUBSET Token]
      BY <1>0, <1>11, <2>3, <2>5 DEF IssueToken, Tables
    <3> QED
      BY <1>0, <1>11, <3>1, <3>2 DEF IssueToken, Tables, tables, client
  <2>7. Moves(h)
    <3>1. Shape'
      BY <1>0, <1>11, <2>1, <2>3 DEF IssueToken, Shape, Goto, Label
    <3>2. fresh'[h] = drawn'
      BY <1>0, <2>1 DEF Shape
    <3>3. HandlerOK(next, req[h], user[h], drawn')
      BY <2>3, <2>5 DEF HandlerOK, Registers, Logins, Refreshes
    <3> QED
      BY <2>1, <3>1, <3>2, <3>3 DEF Moves
  <2> QED
    BY <2>3, <2>4, <2>6, <2>7, TypesOfAll, BudgetWhole DEF TypeInv
<1>12. ASSUME NEW h \in Handler, LoadUser(h) PROVE TypeInv'
  <2>1. Tables' /\ drawn' = drawn /\ drawnOrgs' = drawnOrgs
    BY <1>0, <1>12 DEF LoadUser, Tables, tables, tokens, client
  <2>2. CASE End(h)
    BY <2>1, <2>2, EndGoesOn
  <2>3. CASE Goto(h, "respond") /\ UNCHANGED <<req, user, fresh, draft>>
    <3>1. Moves(h) /\ pc'[h] = "respond"
      BY <1>0, <1>12, <2>3 DEF LoadUser, Goto, Shape, Moves, Others, Untouched, HandlerOK, Label
    <3> QED
      BY <2>1, <3>1, GoesOn DEF MayDraw
  <2> QED
    BY <1>12, <2>2, <2>3 DEF LoadUser
<1>13. ASSUME NEW h \in Handler, Respond(h) PROVE TypeInv'
  <2>1. fresh[h] \in Token
    BY <1>0, <1>13 DEF Respond, HandlerOK
  <2>2. Tables' /\ drawn' = drawn /\ drawnOrgs' = drawnOrgs
    BY <1>0, <1>13, <2>1 DEF Respond, Tables, tables, tokens
  <2> QED
    BY <1>13, <2>2, EndGoesOn DEF Respond
<1>14. ASSUME NEW h \in Handler, Die(h) PROVE TypeInv'
  <2>1. lost' \in SUBSET Token
    <3>1. ASSUME Rotating(h) PROVE req[h].token \in Token
      <4>1. HandlerOK(pc[h], req[h], user[h], fresh[h])
        BY <1>0
      <4> QED
        BY <3>1, <4>1 DEF Rotating, HandlerOK, Registers, Logins, Refreshes
    <3> QED
      BY <1>0, <1>14, <3>1 DEF Die, Tables
  <2>2. Tables' /\ drawn' = drawn /\ drawnOrgs' = drawnOrgs
    BY <1>0, <1>14, <2>1, Bounds DEF Die, Tables, tables, tokens
  <2> QED
    BY <1>14, <2>2, EndGoesOn DEF Die
<1>15. ASSUME NEW t \in Token, Expire(t) PROVE TypeInv'
  <2>1. Tables'
    BY <1>0, <1>15, Bounds DEF Expire, Tables, tables
  <2>2. UNCHANGED handler /\ drawn' = drawn /\ drawnOrgs' = drawnOrgs
    BY <1>15 DEF Expire, tables
  <2>3. TypeOK'
    BY <1>0, <2>1, <2>2 DEF handler, TypeOK, Shape, Tables
  <2> QED
    BY <2>2, <2>3 DEF TypeInv, Budget, Drawing, Registering, handler
<1>16. CASE UNCHANGED vars
  <2>1. UNCHANGED <<handler, tables, tokens, client>>
    BY <1>16 DEF vars
  <2>2. TypeOK'
    BY <1>0, <2>1 DEF handler, tables, tokens, client, TypeOK, Shape, Tables
  <2> QED
    BY <2>1, <2>2 DEF TypeInv, Budget, Drawing, Registering, handler, tables, tokens
<1> QED
  BY <1>1, <1>2, <1>3, <1>4, <1>5, <1>6, <1>7, <1>8, <1>9, <1>10, <1>11, <1>12,
     <1>13, <1>14, <1>15, <1>16 DEF Next, Step

\* Rows, tokens and what handlers know at each point have their types, for
\* any number of requests, slugs, addresses and tokens.
THEOREM TypeCorrect == Spec => []TypeOK
<1>1. Spec => []TypeInv
  BY InitTypes, StepTypes, PTL DEF Spec
<1>2. TypeInv => TypeOK
  BY DEF TypeInv
<1> QED
  BY <1>1, <1>2, PTL

-----------------------------------------------------------------------------
(* Tokens that have been rotated.                                          *)

\* Whatever names a token names one that has been drawn, so a token that is
\* drawn now cannot be one that has been replaced.
DrawnBefore ==
    /\ \A t \in Token : \A a \in lineage[t] : a <= drawn
    /\ \A t \in held : t <= drawn
    /\ \A h \in Handler : /\ fresh[h] <= drawn
                          /\ req[h].kind = "refresh" => req[h].token <= drawn

\* A refresh has deleted the old token when it comes to draw the new one.
DeletedFirst ==
    \A h \in Handler :
        pc[h] = "issue" /\ req[h].kind = "refresh" => redis[req[h].token] = Nobody

\* Once a token has a successor it is gone for good, and so is every token
\* before it.
Spent == \A t \in Token : \A a \in lineage[t] \ {t} : redis[a] = Nobody

RotationInv == DrawnBefore /\ Spent /\ DeletedFirst

\* Every step but IssueToken leaves the lineage alone and at most removes
\* tokens.
LEMMA TokensOnlyGo ==
    ASSUME TypeOK, RotationInv, NEW h \in Handler, Others(h),
           \A t \in Token : redis'[t] \in {redis[t], Nobody},
           lineage' = lineage, drawn' = drawn, held' \in SUBSET (held \cup {fresh[h]}),
           fresh'[h] \in {fresh[h], Unknown},
           req'[h].kind = "refresh" => req'[h].token <= drawn,
           pc'[h] = "issue" /\ req'[h].kind = "refresh" => redis'[req'[h].token] = Nobody
    PROVE  RotationInv'
<1>1. DrawnBefore'
  <2>1. Unknown <= drawn
    BY Bounds DEF TypeOK, Unknown
  <2> QED
    BY <2>1 DEF RotationInv, DrawnBefore, Others, Untouched
<1>2. Spent'
  BY DEF RotationInv, Spent, TypeOK
<1>3. DeletedFirst'
  <2>1. ASSUME NEW q \in Handler \ {h}, pc[q] = "issue", req[q].kind = "refresh"
        PROVE  redis'[req[q].token] = Nobody
    <3>1. req[q].token \in Token
      BY <2>1 DEF TypeOK, HandlerOK, Registers, Logins, Refreshes
    <3>2. redis[req[q].token] = Nobody
      BY <2>1 DEF RotationInv, DeletedFirst
    <3> QED
      BY <3>1, <3>2
  <2> QED
    BY <2>1 DEF DeletedFirst, Others, Untouched
<1> QED
  BY <1>1, <1>2, <1>3 DEF RotationInv

\* The same for steps that neither touch the tokens nor change the request.
LEMMA TokensStay ==
    ASSUME TypeOK, RotationInv, NEW h \in Handler, Others(h),
           UNCHANGED <<redis, lineage, drawn, held, req, fresh>>,
           pc'[h] # "issue" \/ req[h] \in Registers \cup Logins
    PROVE  RotationInv'
<1>1. req[h].kind = "refresh" => req[h].token <= drawn
  BY DEF RotationInv, DrawnBefore
<1>2. req[h] \in Registers \cup Logins => req[h].kind # "refresh"
  BY DEF Registers, Logins
<1> QED
  BY <1>1, <1>2, TokensOnlyGo

LEMMA TokensBegin ==
    ASSUME TypeOK, RotationInv, NEW h \in Handler, NEW r, NEW a, Begin(h, r, a),
           a # "issue", r.kind = "refresh" => r.token <= drawn
    PROVE  RotationInv'
<1>1. Others(h) /\ pc'[h] = a /\ req'[h] = r
  BY DEF Begin, Goto, TypeOK, Others, Untouched
<1> QED
  BY <1>1, TokensOnlyGo DEF Begin, tokens, client

LEMMA TokensEnd ==
    ASSUME TypeOK, RotationInv, NEW h \in Handler, End(h), UNCHANGED tokens,
           held' \in SUBSET (held \cup {fresh[h]})
    PROVE  RotationInv'
<1>1. /\ Others(h) /\ pc'[h] = "idle" /\ req'[h] = NoRequest /\ fresh'[h] = Unknown
  BY EndMoves DEF Moves
<1> QED
  BY <1>1, TokensOnlyGo DEF tokens, NoRequest

LEMMA InitRotation == Init => RotationInv
BY DEF Init, RotationInv, DrawnBefore, Spent, DeletedFirst, NoRequest, Unknown

LEMMA StepRotation == TypeOK /\ TypeOK' /\ RotationInv /\ [Next]_vars => RotationInv'
<1> SUFFICES ASSUME TypeOK, TypeOK', RotationInv, [Next]_vars PROVE RotationInv'
  OBVIOUS
<1>0. /\ Shape /\ Tables
      /\ \A h \in Handler : HandlerOK(pc[h], req[h], user[h], fresh[h])
  BY TypesNow
<1>1. ASSUME NEW h \in Handler, NEW s \in Slug, NEW e \in Email, Register(h, s, e)
      PROVE  RotationInv'
  BY <1>1, TokensBegin DEF Register
<1>2. ASSUME NEW h \in Handler, NEW e \in Email, Login(h, e) PROVE RotationInv'
  BY <1>2, TokensBegin DEF Login
<1>3. ASSUME NEW h \in Handler, NEW t \in held \cup {Unknown}, Refresh(h, t)
      PROVE  RotationInv'
  <2>1. t <= drawn
    BY Bounds DEF RotationInv, DrawnBefore, TypeOK, Unknown
  <2> QED
    BY <1>3, <2>1, TokensBegin DEF Refresh
<1>4. ASSUME NEW h \in Handler, CheckSlug(h) PROVE RotationInv'
  <2>1. CASE End(h)
    BY <1>4, <2>1, TokensEnd DEF CheckSlug, client
  <2>2. CASE Goto(h, "org") /\ UNCHANGED <<req, user, fresh, draft>>
    <3>1. Others(h) /\ pc'[h] = "org"
      BY <1>0, <2>2 DEF Goto, Others, Untouched, Shape
    <3> QED
      BY <1>4, <2>2, <3>1, TokensStay DEF CheckSlug, tokens, client
  <2> QED
    BY <1>4, <2>1, <2>2 DEF CheckSlug
<1>5. ASSUME NEW h \in Handler, InsertOrg(h) PROVE RotationInv'
  <2>1. CASE End(h)
    BY <1>5, <2>1, TokensEnd DEF InsertOrg, client
  <2>2. CASE ~End(h)
    <3>1. Others(h) /\ pc'[h] = "user" /\ UNCHANGED <<req, fresh>>
      BY <1>0, <1>5, <2>2 DEF InsertOrg, Goto, Others, Untouched, Shape
    <3> QED
      BY <1>5, <3>1, TokensStay DEF InsertOrg, tokens, client
  <2> QED
    BY <2>1, <2>2
<1>6. ASSUME NEW h \in Handler, InsertUser(h) PROVE RotationInv'
  <2>1. CASE End(h)
    BY <1>6, <2>1, TokensEnd DEF InsertUser, client
  <2>2. CASE ~End(h)
    <3>1. Others(h) /\ pc'[h] = "commit" /\ UNCHANGED <<req, fresh>>
      BY <1>0, <1>6, <2>2 DEF InsertUser, Goto, Others, Untouched, Shape
    <3> QED
      BY <1>6, <3>1, TokensStay DEF InsertUser, tokens, client
  <2> QED
    BY <2>1, <2>2
<1>7. ASSUME NEW h \in Handler, Commit(h) PROVE RotationInv'
  <2>1. Others(h) /\ req[h] \in Registers
    BY <1>0, <1>7 DEF Commit, Goto, Others, Untouched, Shape, HandlerOK
  <2> QED
    BY <1>7, <2>1, TokensStay DEF Commit, tokens, client
<1>8. ASSUME NEW h \in Handler, Authenticate(h) PROVE RotationInv'
  <2>1. CASE End(h)
    BY <1>8, <2>1, TokensEnd DEF Authenticate, client
  <2>2. CASE ~End(h)
    <3>1. Others(h) /\ req[h] \in Logins /\ UNCHANGED <<req, fresh>>
      BY <1>0, <1>8, <2>2 DEF Authenticate, Goto, Others, Untouched, Shape, HandlerOK
    <3> QED
      BY <1>8, <3>1, TokensStay DEF Authenticate, tokens, client
  <2> QED
    BY <2>1, <2>2
<1>9. ASSUME NEW h \in Handler, GetToken(h) PROVE RotationInv'
  <2>1. CASE End(h)
    BY <1>9, <2>1, TokensEnd DEF GetToken, client
  <2>2. CASE ~End(h)
    <3>1. Others(h) /\ pc'[h] = "delete" /\ UNCHANGED <<req, fresh>>
      BY <1>0, <1>9, <2>2 DEF GetToken, Goto, Others, Untouched, Shape
    <3> QED
      BY <1>9, <3>1, TokensStay DEF GetToken, tokens, client
  <2> QED
    BY <2>1, <2>2
<1>10. ASSUME NEW h \in Handler, DeleteToken(h) PROVE RotationInv'
  <2>1. /\ Others(h) /\ pc'[h] = "issue" /\ UNCHANGED <<req, fresh, lineage, drawn, held>>
        /\ redis' = [redis EXCEPT ![req[h].token] = Nobody]
    BY <1>0, <1>10 DEF DeleteToken, Goto, Others, Untouched, Shape, client
  <2>2. req[h].token \in Token
    BY <1>0, <1>10 DEF DeleteToken, HandlerOK, Refreshes
  <2>3. req[h].kind = "refresh" => req[h].token <= drawn
    BY DEF RotationInv, DrawnBefore
  <2>4. redis'[req[h].token] = Nobody /\ \A t \in Token : redis'[t] \in {redis[t], Nobody}
    BY <1>0, <2>1, <2>2 DEF Tables
  <2> QED
    BY <2>1, <2>3, <2>4, TokensOnlyGo
<1>11. ASSUME NEW h \in Handler, IssueToken(h) PROVE RotationInv'
  <2>1. /\ pc[h] = "issue" /\ drawn' = drawn + 1 /\ Others(h)
        /\ pc'[h] # "issue" /\ fresh'[h] = drawn' /\ UNCHANGED <<req, held>>
        /\ redis' = [redis EXCEPT ![drawn'] = user[h]]
        /\ lineage' = [lineage EXCEPT ![drawn'] = {drawn'} \cup Replaced(h)]
    BY <1>0, <1>11 DEF IssueToken, Goto, Others, Untouched, Shape, client
  <2>2. drawn \in Nat
    BY Bounds DEF TypeOK
  <2>3. req[h].kind = "refresh" =>
           /\ req[h].token \in Token /\ req[h].token <= drawn
           /\ redis[req[h].token] = Nobody
    <3>1. HandlerOK("issue", req[h], user[h], fresh[h])
      BY <1>0, <2>1
    <3> QED
      BY <2>1, <3>1 DEF HandlerOK, Registers, Logins, Refreshes, RotationInv, DrawnBefore, DeletedFirst
  <2>4. \A a \in Replaced(h) : a \in Token /\ a <= drawn /\ redis[a] = Nobody
    BY <1>0, <2>3 DEF Replaced, Tables, RotationInv, DrawnBefore, Spent
  <2>5. \A t \in Token : \A a \in lineage[t] : a \in Token /\ a <= drawn
    BY <1>0 DEF Tables, RotationInv, DrawnBefore
  <2>6. \A a \in Token : a <= drawn => redis'[a] = redis[a]
    BY <1>0, <2>1, <2>2 DEF Tables, Token
  <2>7. \A t \in Token : t # drawn' => lineage'[t] = lineage[t]
    BY <1>0, <2>1 DEF Tables
  <2>8. drawn' \in Token => lineage'[drawn'] = {drawn'} \cup Replaced(h)
    BY <1>0, <2>1 DEF Tables
  <2>9. DrawnBefore'
    <3>1. \A t \in Token : \A a \in lineage'[t] : a <= drawn'
      <4> SUFFICES ASSUME NEW t \in Token, NEW a \in lineage'[t] PROVE a <= drawn'
        OBVIOUS
      <4>1. CASE t = drawn'
        BY <2>1, <2>2, <2>4, <2>8, <4>1 DEF Token
      <4>2. CASE t # drawn'
        BY <2>1, <2>2, <2>5, <2>7, <4>2 DEF Token
      <4> QED
        BY <4>1, <4>2
    <3>2. \A t \in held' : t <= drawn'
      BY <1>0, <2>1, <2>2 DEF RotationInv, DrawnBefore, Tables, Token
    <3>3. ASSUME NEW q \in Handler
          PROVE  fresh'[q] <= drawn' /\ (req'[q].kind = "refresh" => req'[q].token <= drawn')
      <4>1. CASE q = h
        BY <2>1, <2>2, <2>3, <4>1 DEF Token
      <4>2. CASE q # h
        <5>1. fresh[q] \in Int /\ fresh[q] <= drawn
          BY <1>0 DEF Shape, Token, Unknown, RotationInv, DrawnBefore
        <5>2. req[q].kind = "refresh" => req[q].token \in Int /\ req[q].token <= drawn
          BY <1>0 DEF Shape, Request, Registers, Logins, Refreshes, NoRequest, Token, Unknown,
             RotationInv, DrawnBefore
        <5> QED
          BY <2>1, <2>2, <4>2, <5>1, <5>2 DEF Others, Untouched
      <4> QED
        BY <4>1, <4>2
    <3> QED
      BY <3>1, <3>2, <3>3 DEF DrawnBefore
  <2>10. Spent'
    <3> SUFFICES ASSUME NEW t \in Token, NEW a \in lineage'[t] \ {t} PROVE redis'[a] = Nobody
      BY DEF Spent
    <3>1. CASE t = drawn'
      BY <2>4, <2>6, <2>8, <3>1
    <3>2. CASE t # drawn'
      BY <2>5, <2>6, <2>7, <3>2 DEF RotationInv, Spent
    <3> QED
      BY <3>1, <3>2
  <2>11. DeletedFirst'
    <3> SUFFICES ASSUME NEW q \in Handler, pc'[q] = "issue", req'[q].kind = "refresh"
                 PROVE  redis'[req'[q].token] = Nobody
      BY DEF DeletedFirst
    <3>1. q # h /\ pc[q] = "issue" /\ req[q].kind = "refresh" /\ req'[q] = req[q]
      BY <2>1 DEF Others, Untouched
    <3>2. HandlerOK("issue", req[q], user[q], fresh[q])
      BY <1>0, <3>1
    <3>3. req[q].token \in Token /\ req[q].token <= drawn /\ redis[req[q].token] = Nobody
      BY <3>1, <3>2 DEF HandlerOK, Registers, Logins, Refreshes, RotationInv, DrawnBefore, DeletedFirst
    <3> QED
      BY <2>6, <3>1, <3>3
  <2> QED
    BY <2>9, <2>10, <2>11 DEF RotationInv
<1>12. ASSUME NEW h \in Handler, LoadUser(h) PROVE RotationInv'
  <2>1. CASE End(h)
    BY <1>12, <2>1, TokensEnd DEF LoadUser, client
  <2>2. CASE Goto(h, "respond") /\ UNCHANGED <<req, user, fresh, draft>>
    <3>1. Others(h) /\ pc'[h] = "respond"
      BY <1>0, <2>2 DEF Goto, Others, Untouched, Shape
    <3> QED
      BY <1>12, <2>2, <3>1, TokensStay DEF LoadUser, tokens, client
  <2> QED
    BY <1>12, <2>1, <2>2 DEF LoadUser
<1>13. ASSUME NEW h \in Handler, Respond(h) PROVE RotationInv'
  BY <1>13, TokensEnd DEF Respond
<1>14. ASSUME NEW h \in Handler, Die(h) PROVE RotationInv'
  BY <1>14, TokensEnd DEF Die
<1>15. ASSUME NEW t \in Token, Expire(t) PROVE RotationInv'
  <2>1. UNCHANGED <<handler, lineage, drawn, held>>
    BY <1>15 DEF Expire
  <2>2. \A a \in Token : redis'[a] \in {redis[a], Nobody}
    BY <1>0, <1>15 DEF Expire, Tables
  <2>3. Spent'
    BY <1>0, <2>1, <2>2 DEF RotationInv, Spent, Tables
  <2>4. DeletedFirst'
    <3> SUFFICES ASSUME NEW q \in Handler, pc[q] = "issue", req[q].kind = "refresh"
                 PROVE  redis'[req[q].token] = Nobody
      BY <2>1 DEF DeletedFirst, handler
    <3>1. HandlerOK("issue", req[q], user[q], fresh[q])
      BY <1>0
    <3> QED
      BY <2>2, <3>1 DEF HandlerOK, Registers, Logins, Refreshes, RotationInv, DeletedFirst
  <2> QED
    BY <2>1, <2>3, <2>4 DEF RotationInv, DrawnBefore, handler
<1>16. CASE UNCHANGED vars
  BY <1>16 DEF vars, handler, tokens, client, RotationInv, DrawnBefore, Spent, DeletedFirst
<1> QED
  BY <1>1, <1>2, <1>3, <1>4, <1>5, <1>6, <1>7, <1>8, <1>9, <1>10, <1>11, <1>12,
     <1>13, <1>14, <1>15, <1>16 DEF Next, Step

-----------------------------------------------------------------------------
(* Sessions that fork.                                                     *)

\* h has read t and has not drawn its successor yet.
Rotates(h, t) ==
    pc[h] \in {"delete", "issue"} /\ req[h].kind = "refresh" /\ req[h].token = t

\* Unless two refreshes read t, whoever rotates it is the only one, and the
\* first one.
RotatesAlone ==
    \A h \in Handler, t \in Token : Rotates(h, t) /\ t \notin raced =>
        /\ \A q \in Handler \ {h} : ~Rotates(q, t)
        /\ \A s \in Token \ {t} : t \notin lineage[s]

OwnLineage == \A t \in Token : t <= drawn => t \in lineage[t]

ForksRaced ==
    \A p, q \in Token : Forked(p, q) => lineage[p] \cap lineage[q] \cap raced # {}

ForkInv == RotatesAlone /\ OwnLineage /\ ForksRaced

\* A step of h that draws no token and reads none.
LEMMA ForksStay ==
    ASSUME ForkInv, NEW h \in Handler, Others(h), UNCHANGED <<lineage, drawn, raced>>,
           \A t \in Token : Rotates(h, t)' => Rotates(h, t)
    PROVE  ForkInv'
<1>1. \A q \in Handler, t \in Token : Rotates(q, t)' => Rotates(q, t)
  BY DEF Others, Untouched, Rotates
<1>2. RotatesAlone'
  BY <1>1 DEF ForkInv, RotatesAlone
<1>3. OwnLineage' /\ ForksRaced'
  BY DEF ForkInv, OwnLineage, ForksRaced, Forked
<1> QED
  BY <1>2, <1>3 DEF ForkInv

LEMMA ForksEnd ==
    ASSUME TypeOK, ForkInv, NEW h \in Handler, End(h), UNCHANGED <<lineage, drawn, raced>>
    PROVE  ForkInv'
<1>1. Others(h) /\ pc'[h] = "idle"
  BY EndMoves DEF Moves
<1>2. \A t \in Token : ~Rotates(h, t)'
  BY <1>1 DEF Rotates
<1> QED
  BY <1>1, <1>2, ForksStay

\* The token h reads is there: it has no successor, nobody has deleted it, and
\* whoever has read it before makes it a raced one.
LEMMA GetForks ==
    ASSUME TypeOK, RotationInv, ForkInv, NEW h \in Handler, GetToken(h), ~End(h)
    PROVE  ForkInv'
<1> DEFINE t == req[h].token
<1>1. /\ pc[h] = "get" /\ t # Unknown /\ redis[t] # Nobody
      /\ raced' = IF ReadByAnother(h, t) THEN raced \cup {t} ELSE raced
      /\ Goto(h, "delete") /\ UNCHANGED <<req, lineage, drawn, redis>>
  BY DEF GetToken, tokens
<1>2. Others(h) /\ \A u \in Token : Rotates(h, u)' => u = t
  BY <1>1 DEF GetToken, tokens, Goto, TypeOK, Others, Untouched, Rotates
<1>3. t \in Token
  BY <1>1 DEF TypeOK, HandlerOK, Refreshes
<1>4. \A q \in Handler \ {h} : Rotates(q, t) => t \in raced'
  <2> SUFFICES ASSUME NEW q \in Handler \ {h}, Rotates(q, t) PROVE t \in raced'
    OBVIOUS
  <2>1. pc[q] # "issue"
    BY <1>1 DEF Rotates, RotationInv, DeletedFirst
  <2>2. ReadByAnother(h, t)
    BY <2>1 DEF Rotates, ReadByAnother
  <2> QED
    BY <1>1, <2>2
<1>5. \A s \in Token \ {t} : t \notin lineage[s]
  BY <1>1, <1>3 DEF RotationInv, Spent
<1>6. raced \subseteq raced'
  BY <1>1
<1>7. RotatesAlone'
  <2> SUFFICES ASSUME NEW q \in Handler, NEW u \in Token, Rotates(q, u)', u \notin raced'
               PROVE  /\ \A r \in Handler \ {q} : ~Rotates(r, u)'
                      /\ \A s \in Token \ {u} : u \notin lineage'[s]
    BY DEF RotatesAlone
  <2>1. \A r \in Handler \ {h} : Rotates(r, u)' <=> Rotates(r, u)
    BY <1>2 DEF Others, Untouched, Rotates
  <2>2. CASE q = h
    BY <1>1, <1>2, <1>4, <1>5, <2>1, <2>2
  <2>3. CASE q # h
    <3>1. Rotates(q, u) /\ u \notin raced
      BY <1>6, <2>1, <2>3
    <3>2. ~Rotates(h, u)'
      BY <1>2, <1>4, <2>3, <3>1
    <3>3. /\ \A r \in Handler \ {q} : ~Rotates(r, u)
          /\ \A s \in Token \ {u} : u \notin lineage[s]
      BY <3>1 DEF ForkInv, RotatesAlone
    <3> QED
      BY <1>1, <2>1, <3>2, <3>3
  <2> QED
    BY <2>2, <2>3
<1>8. OwnLineage' /\ ForksRaced'
  BY <1>1, <1>6 DEF ForkInv, OwnLineage, ForksRaced, Forked
<1> QED
  BY <1>7, <1>8 DEF ForkInv

\* The token h draws replaces the one it read: either h is the only one to
\* replace that, or it is a raced one.
LEMMA IssueForks ==
    ASSUME TypeOK, TypeOK', RotationInv, ForkInv, NEW h \in Handler, IssueToken(h)
    PROVE  ForkInv'
<1> DEFINE n == drawn'
           t == req[h].token
           Fork(p, q) == /\ lineage'[p] \cap lineage'[q] # {}
                         /\ p \notin lineage'[q] /\ q \notin lineage'[p]
<1>1. /\ pc[h] = "issue" /\ n = drawn + 1 /\ pc'[h] \notin {"delete", "issue"}
      /\ Others(h) /\ UNCHANGED <<req, raced>>
      /\ lineage' = [lineage EXCEPT ![n] = {n} \cup Replaced(h)]
  BY DEF IssueToken, Goto, TypeOK, Others, Untouched, client
<1>2. drawn \in Nat /\ n \in Token
  BY <1>1, Bounds DEF TypeOK, Token
<1>3. /\ lineage'[n] = {n} \cup Replaced(h)
      /\ \A s \in Token \ {n} : lineage'[s] = lineage[s]
  BY <1>1, <1>2 DEF TypeOK
<1>4. \A s \in Token : n \notin lineage[s]
  BY <1>1, <1>2 DEF RotationInv, DrawnBefore
<1>5. req[h].kind = "refresh" => t \in Token /\ t <= drawn /\ t # n /\ Rotates(h, t)
  <2>1. HandlerOK("issue", req[h], user[h], fresh[h])
    BY <1>1 DEF TypeOK
  <2>2. req[h].kind = "refresh" => t \in Token /\ t <= drawn
    BY <2>1 DEF HandlerOK, Registers, Logins, Refreshes, RotationInv, DrawnBefore
  <2> QED
    BY <1>1, <1>2, <2>2 DEF Rotates, Token
<1>6. RotatesAlone'
  <2> SUFFICES ASSUME NEW q \in Handler, NEW u \in Token, Rotates(q, u)', u \notin raced
               PROVE  /\ \A r \in Handler \ {q} : ~Rotates(r, u)'
                      /\ \A s \in Token \ {u} : u \notin lineage'[s]
    BY <1>1 DEF RotatesAlone
  <2>1. \A r \in Handler : Rotates(r, u)' => Rotates(r, u) /\ r # h
    BY <1>1 DEF Others, Untouched, Rotates
  <2>2. /\ q # h /\ Rotates(q, u)
        /\ \A r \in Handler \ {q} : ~Rotates(r, u)
        /\ \A s \in Token \ {u} : u \notin lineage[s]
    BY <2>1 DEF ForkInv, RotatesAlone
  <2>3. u # n
    BY <1>1, <1>2, <2>2 DEF Rotates, RotationInv, DrawnBefore, Token
  <2>4. u \notin Replaced(h)
    BY <1>5, <2>2 DEF Replaced
  <2> QED
    BY <1>3, <2>1, <2>2, <2>3, <2>4
<1>7. OwnLineage'
  <2> SUFFICES ASSUME NEW u \in Token, u <= n PROVE u \in lineage'[u]
    BY DEF OwnLineage
  <2>1. CASE u = n
    BY <1>3, <2>1
  <2>2. CASE u # n
    BY <1>1, <1>2, <1>3, <2>2 DEF ForkInv, OwnLineage, Token
  <2> QED
    BY <2>1, <2>2
<1>8. ASSUME NEW q \in Token \ {n}, Fork(n, q)
      PROVE  lineage'[n] \cap lineage'[q] \cap raced # {}
  <2>1. lineage'[q] = lineage[q] /\ n \notin lineage[q] /\ q \notin Replaced(h)
    BY <1>3, <1>4, <1>8
  <2>2. Replaced(h) \cap lineage[q] # {}
    BY <1>3, <1>8, <2>1
  <2>3. req[h].kind = "refresh" /\ Replaced(h) = lineage[t] /\ t \in lineage[t]
    BY <1>5, <2>2 DEF Replaced, ForkInv, OwnLineage
  <2>4. q # t
    BY <2>1, <2>3
  <2>5. CASE t \in lineage[q]
    <3>1. t \in raced
      BY <1>5, <2>3, <2>4, <2>5 DEF ForkInv, RotatesAlone
    <3> QED
      BY <1>3, <2>1, <2>3, <2>5, <3>1
  <2>6. CASE t \notin lineage[q]
    <3>1. Forked(t, q)
      BY <2>1, <2>2, <2>3, <2>6 DEF Forked
    <3>2. lineage[t] \cap lineage[q] \cap raced # {}
      BY <1>5, <2>3, <3>1 DEF ForkInv, ForksRaced
    <3> QED
      BY <1>3, <2>1, <2>3, <3>2
  <2> QED
    BY <2>5, <2>6
<1>9. ForksRaced'
  <2> SUFFICES ASSUME NEW p \in Token, NEW q \in Token, Fork(p, q)
               PROVE  lineage'[p] \cap lineage'[q] \cap raced # {}
    BY <1>1 DEF ForksRaced, Forked
  <2>1. p # n \/ q # n
    BY <1>3
  <2>2. CASE p = n
    BY <1>8, <2>1, <2>2
  <2>3. CASE q = n
    BY <1>8, <2>1, <2>3
  <2>4. CASE p # n /\ q # n
    BY <1>3, <2>4 DEF ForkInv, ForksRaced, Forked
  <2> QED
    BY <2>2, <2>3, <2>4
<1> QED
  BY <1>6, <1>7, <1>9 DEF ForkInv

LEMMA InitForks == Init => ForkInv
BY Bounds DEF Init, ForkInv, RotatesAlone, OwnLineage, ForksRaced, Forked, Rotates, Token

LEMMA StepForks ==
    ASSUME TypeOK, TypeOK', RotationInv, ForkInv, [Next]_vars PROVE ForkInv'
<1>0. Shape
  BY TypesNow
<1>1. ASSUME NEW h \in Handler,
             \/ \E s \in Slug, e \in Email : Register(h, s, e)
             \/ \E e \in Email : Login(h, e)
             \/ \E t \in held \cup {Unknown} : Refresh(h, t)
      PROVE  ForkInv'
  <2>1. /\ Others(h) /\ pc'[h] \in {"check", "authenticate", "get"}
        /\ UNCHANGED <<lineage, drawn, raced>>
    BY <1>0, <1>1 DEF Register, Login, Refresh, Begin, Goto, Others, Untouched, Shape, tokens,
       client
  <2>2. \A t \in Token : ~Rotates(h, t)'
    BY <2>1 DEF Rotates
  <2> QED
    BY <2>1, <2>2, ForksStay
<1>2. ASSUME NEW h \in Handler, \/ CheckSlug(h) \/ InsertOrg(h) \/ InsertUser(h)
                                \/ Authenticate(h) \/ LoadUser(h)
      PROVE  ForkInv'
  <2>1. UNCHANGED <<lineage, drawn, raced>>
    BY <1>2 DEF CheckSlug, InsertOrg, InsertUser, Authenticate, LoadUser, tokens, client
  <2>2. CASE End(h)
    BY <2>1, <2>2, ForksEnd
  <2>3. CASE ~End(h)
    <3>1. Others(h) /\ UNCHANGED req /\ pc'[h] # "delete"
          /\ (pc'[h] = "issue" => pc[h] = "authenticate")
      BY <1>0, <1>2, <2>3 DEF CheckSlug, InsertOrg, InsertUser, Authenticate, LoadUser, Goto,
         Others, Untouched, Shape
    <3>2. pc[h] = "authenticate" => req[h].kind # "refresh"
      BY DEF TypeOK, HandlerOK, Logins
    <3>3. \A t \in Token : ~Rotates(h, t)'
      BY <3>1, <3>2 DEF Rotates
    <3> QED
      BY <2>1, <3>1, <3>3, ForksStay
  <2> QED
    BY <2>2, <2>3
<1>3. ASSUME NEW h \in Handler, Commit(h) PROVE ForkInv'
  <2>1. Others(h) /\ UNCHANGED <<req, lineage, drawn, raced>> /\ pc[h] = "commit"
    BY <1>0, <1>3 DEF Commit, Goto, Others, Untouched, Shape, tokens, client
  <2>2. req[h].kind # "refresh"
    BY <2>1 DEF TypeOK, HandlerOK, Registers
  <2>3. \A t \in Token : ~Rotates(h, t)'
    BY <2>1, <2>2 DEF Rotates
  <2> QED
    BY <2>1, <2>3, ForksStay
<1>4. ASSUME NEW h \in Handler, GetToken(h) PROVE ForkInv'
  <2>1. CASE End(h)
    <3>1. UNCHANGED <<lineage, drawn, raced>>
      BY <1>0, <1>4, <2>1 DEF GetToken, End, Goto, Shape, tokens
    <3> QED
      BY <2>1, <3>1, ForksEnd
  <2> QED
    BY <1>4, <2>1, GetForks
<1>5. ASSUME NEW h \in Handler, DeleteToken(h) PROVE ForkInv'
  <2>1. Others(h) /\ UNCHANGED <<req, lineage, drawn, raced>> /\ pc[h] = "delete"
    BY <1>0, <1>5 DEF DeleteToken, Goto, Others, Untouched, Shape, client
  <2>2. \A t \in Token : Rotates(h, t)' => Rotates(h, t)
    BY <2>1 DEF Rotates
  <2> QED
    BY <2>1, <2>2, ForksStay
<1>6. ASSUME NEW h \in Handler, IssueToken(h) PROVE ForkInv'
  BY <1>6, IssueForks
<1>7. ASSUME NEW h \in Handler, Respond(h) \/ Die(h) PROVE ForkInv'
  BY <1>7, ForksEnd DEF Respond, Die, tokens
<1>8. CASE UNCHANGED vars \/ \E t \in Token : Expire(t)
  BY <1>8 DEF Expire, vars, handler, tokens, client, ForkInv, RotatesAlone, Rotates, OwnLineage,
     ForksRaced, Forked
<1> QED
  BY <1>1, <1>2, <1>3, <1>4, <1>5, <1>6, <1>7, <1>8 DEF Next, Step

\* A token that has been rotated stays spent, and has one successor unless two
\* refreshes read it before either deleted it, with any number of requests
\* that rotate it, or others, at the same time.
THEOREM RotationIsFinal == Spec => []RotatedOnce
<1> DEFINE Inv == TypeInv /\ RotationInv /\ ForkInv
<1>1. Init => Inv
  BY InitTypes, InitRotation, InitForks
<1>2. Inv /\ [Next]_vars => Inv'
  <2> SUFFICES ASSUME Inv, [Next]_vars PROVE Inv'
    OBVIOUS
  <2>1. TypeInv' /\ TypeOK /\ TypeOK'
    BY StepTypes DEF TypeInv
  <2> QED
    BY <2>1, StepRotation, StepForks
<1>3. Inv => RotatedOnce
  BY DEF RotationInv, Spent, ForkInv, ForksRaced, RotatedOnce
<1> QED
  BY <1>1, <1>2, <1>3, PTL DEF Spec

-----------------------------------------------------------------------------
(* Registrations.                                                          *)

\* What a handler at label a, acting for u, has inserted and not committed.
DraftOK(a, u, d) ==
    /\ a \notin {"user", "commit"} => d.orgs = {}
    /\ a = "user" => \E o \in OrgRow : d.orgs = {o}
    /\ a # "commit" => d.users = {}
    /\ a = "commit" =>
          \E o \in OrgRow : d.orgs = {o} /\ d.users = {[email |-> u, org |-> o.id]}

\* The unique indexes see the rows of open transactions too.
OrgsApart(O, P) == \A o \in O, p \in P : o.slug # p.slug /\ o.id # p.id
UsersApart(U, W) == \A u \in U, w \in W : u.email # w.email

Exclusive ==
    /\ \A h, q \in Handler : h # q => /\ OrgsApart(draft[h].orgs, draft[q].orgs)
                                      /\ UsersApart(draft[h].users, draft[q].users)
    /\ \A h \in Handler : /\ OrgsApart(draft[h].orgs, orgs)
                          /\ UsersApart(draft[h].users, users)

\* Ids are drawn in order.
IdsDrawn ==
    /\ \A o \in orgs : o.id <= drawnOrgs
    /\ \A h \in Handler : \A o \in draft[h].orgs : o.id <= drawnOrgs

RowsInv ==
    /\ \A h \in Handler : DraftOK(pc[h], user[h], draft[h])
    /\ Exclusive /\ IdsDrawn /\ OrgsWhole

\* A step of h that inserts nothing.
LEMMA RowsStay ==
    ASSUME RowsInv, NEW h \in Handler, Others(h), UNCHANGED tables,
           draft'[h] = draft[h], DraftOK(pc'[h], user'[h], draft[h])
    PROVE  RowsInv'
<1>1. \A q \in Handler : draft'[q] = draft[q]
  BY DEF Others, Untouched
<1>2. \A q \in Handler : DraftOK(pc'[q], user'[q], draft'[q])
  BY <1>1 DEF RowsInv, Others, Untouched
<1>3. Exclusive' /\ IdsDrawn'
  BY <1>1 DEF RowsInv, Exclusive, IdsDrawn, tables
<1> QED
  BY <1>2, <1>3 DEF RowsInv, OrgsWhole, tables

\* A request that ends rolls back what it has not committed.
LEMMA RowsEnd ==
    ASSUME TypeOK, RowsInv, NEW h \in Handler, End(h), UNCHANGED tables
    PROVE  RowsInv'
<1>1. Others(h) /\ pc'[h] = "idle" /\ draft'[h] = NoRows
  BY EndMoves DEF Moves
<1>2. NoRows.orgs = {} /\ NoRows.users = {}
  BY DEF NoRows
<1>3. \A q \in Handler : DraftOK(pc'[q], user'[q], draft'[q])
  BY <1>1, <1>2 DEF RowsInv, Others, Untouched, DraftOK
<1>4. Exclusive' /\ IdsDrawn'
  BY <1>1, <1>2 DEF RowsInv, Exclusive, IdsDrawn, tables, Others, Untouched, OrgsApart, UsersApart
<1> QED
  BY <1>3, <1>4 DEF RowsInv, OrgsWhole, tables

LEMMA RowsBegin ==
    ASSUME TypeOK, RowsInv, NEW h \in Handler, NEW r, NEW a, Begin(h, r, a),
           a \notin {"user", "commit"}
    PROVE  RowsInv'
<1>1. Others(h) /\ pc[h] = "idle" /\ pc'[h] = a /\ draft' = draft /\ UNCHANGED tables
  BY DEF Begin, Goto, TypeOK, Others, Untouched
<1>2. DraftOK(pc[h], user[h], draft[h])
  BY DEF RowsInv
<1>3. DraftOK(a, user'[h], draft[h])
  BY <1>1, <1>2 DEF DraftOK
<1> QED
  BY <1>1, <1>3, RowsStay

LEMMA InitRows == Init => RowsInv
<1> SUFFICES ASSUME Init PROVE RowsInv
  OBVIOUS
<1>1. \A h \in Handler : pc[h] = "idle" /\ draft[h].orgs = {} /\ draft[h].users = {}
  BY DEF Init, NoRows
<1>2. orgs = {} /\ users = {}
  BY DEF Init
<1> QED
  BY <1>1, <1>2 DEF RowsInv, DraftOK, Exclusive, OrgsApart, UsersApart, IdsDrawn, OrgsWhole

\* Rows that clash with no other row, open or committed, may be inserted.
LEMMA InsertApart ==
    ASSUME RowsInv, NEW h \in Handler, Others(h), orgs' = orgs, users' = users,
           OrgsApart(draft'[h].orgs, orgs), UsersApart(draft'[h].users, users),
           \A q \in Handler \ {h} : /\ OrgsApart(draft'[h].orgs, draft[q].orgs)
                                    /\ OrgsApart(draft[q].orgs, draft'[h].orgs)
                                    /\ UsersApart(draft'[h].users, draft[q].users)
                                    /\ UsersApart(draft[q].users, draft'[h].users)
    PROVE  Exclusive'
<1>1. \A q \in Handler \ {h} : draft'[q] = draft[q]
  BY DEF Others, Untouched
<1>2. ASSUME NEW q \in Handler
      PROVE  OrgsApart(draft'[q].orgs, orgs') /\ UsersApart(draft'[q].users, users')
  BY <1>1 DEF RowsInv, Exclusive
<1>3. ASSUME NEW p \in Handler, NEW q \in Handler, p # q
      PROVE  /\ OrgsApart(draft'[p].orgs, draft'[q].orgs)
             /\ UsersApart(draft'[p].users, draft'[q].users)
  <2>1. CASE p = h
    BY <1>1, <1>3, <2>1
  <2>2. CASE q = h
    BY <1>1, <1>3, <2>2
  <2>3. CASE p # h /\ q # h
    BY <1>1, <1>3, <2>3 DEF RowsInv, Exclusive
  <2> QED
    BY <2>1, <2>2, <2>3
<1> QED
  BY <1>2, <1>3 DEF Exclusive

LEMMA InsertOrgRows ==
    ASSUME TypeOK, TypeOK', RowsInv, NEW h \in Handler, InsertOrg(h)
    PROVE  RowsInv'
<1>1. CASE SlugTaken(orgs, req[h].slug)
  <2>1. End(h) /\ UNCHANGED tables
    BY <1>1 DEF InsertOrg, tables
  <2> QED
    BY <2>1, RowsEnd
<1>2. CASE ~SlugTaken(orgs, req[h].slug)
  <2> DEFINE row == [slug |-> req[h].slug, id |-> drawnOrgs']
  <2>1. /\ pc[h] = "org" /\ Goto(h, "user") /\ drawnOrgs' = drawnOrgs + 1
        /\ draft' = [draft EXCEPT ![h].orgs = {row}]
        /\ UNCHANGED <<orgs, users, user, req, fresh>>
        /\ \A q \in Handler \ {h} : ~SlugTaken(draft[q].orgs, req[h].slug)
    BY <1>2 DEF InsertOrg
  <2>2. Others(h) /\ pc'[h] = "user" /\ draft'[h].orgs = {row} /\ draft'[h].users = draft[h].users
    BY <2>1 DEF Goto, Others, Untouched, TypeOK
  <2>3. row \in OrgRow
    BY <2>2 DEF TypeOK
  <2>4. DraftOK(pc'[h], user'[h], draft'[h])
    <3>1. DraftOK("org", user[h], draft[h])
      BY <2>1 DEF RowsInv
    <3> QED
      BY <2>2, <2>3, <3>1 DEF DraftOK
  <2>5. drawnOrgs \in Nat
    BY Bounds DEF TypeOK
  <2>6. /\ \A o \in orgs : o.id \in Nat /\ o.id <= drawnOrgs
        /\ \A q \in Handler : \A o \in draft[q].orgs : o.id \in Nat /\ o.id <= drawnOrgs
    BY Bounds DEF TypeOK, OrgRow, RowsInv, IdsDrawn
  <2>7. OrgsApart({row}, orgs)
    BY <1>2, <2>1, <2>5, <2>6 DEF OrgsApart, SlugTaken
  <2>8. \A q \in Handler \ {h} : OrgsApart({row}, draft[q].orgs) /\ OrgsApart(draft[q].orgs, {row})
    BY <2>1, <2>5, <2>6 DEF OrgsApart, SlugTaken
  <2>9. Exclusive'
    <3>1. UsersApart(draft'[h].users, users)
      BY <2>2 DEF RowsInv, Exclusive
    <3>2. \A q \in Handler \ {h} : /\ UsersApart(draft'[h].users, draft[q].users)
                                   /\ UsersApart(draft[q].users, draft'[h].users)
      BY <2>2 DEF RowsInv, Exclusive
    <3>3. OrgsApart(draft'[h].orgs, orgs)
      BY <2>2, <2>7
    <3>4. \A q \in Handler \ {h} : /\ OrgsApart(draft'[h].orgs, draft[q].orgs)
                                   /\ OrgsApart(draft[q].orgs, draft'[h].orgs)
      BY <2>2, <2>8
    <3> QED
      BY <2>1, <2>2, <3>1, <3>2, <3>3, <3>4, InsertApart
  <2>10. IdsDrawn'
    BY <2>1, <2>2, <2>5, <2>6 DEF IdsDrawn, Others, Untouched
  <2>11. \A q \in Handler : DraftOK(pc'[q], user'[q], draft'[q])
    BY <2>2, <2>4 DEF RowsInv, Others, Untouched
  <2> QED
    BY <2>1, <2>9, <2>10, <2>11 DEF RowsInv, OrgsWhole
<1> QED
  BY <1>1, <1>2

LEMMA InsertUserRows ==
    ASSUME TypeOK, TypeOK', RowsInv, NEW h \in Handler, InsertUser(h)
    PROVE  RowsInv'
<1>1. CASE EmailTaken(users, req[h].email)
  BY <1>1, RowsEnd DEF InsertUser
<1>2. CASE ~EmailTaken(users, req[h].email)
  <2> DEFINE rows == {[email |-> req[h].email, org |-> o.id] : o \in draft[h].orgs}
  <2>1. /\ pc[h] = "user" /\ Goto(h, "commit") /\ UNCHANGED tables
        /\ draft' = [draft EXCEPT ![h].users = rows]
        /\ user' = [user EXCEPT ![h] = req[h].email]
        /\ UNCHANGED <<req, fresh>>
        /\ \A q \in Handler \ {h} : ~EmailTaken(draft[q].users, req[h].email)
    BY <1>2 DEF InsertUser
  <2>2. /\ Others(h) /\ pc'[h] = "commit" /\ user'[h] = req[h].email
        /\ draft'[h].orgs = draft[h].orgs /\ draft'[h].users = rows
    BY <2>1 DEF Goto, Others, Untouched, TypeOK
  <2>3. PICK o \in OrgRow : draft[h].orgs = {o}
    BY <2>1 DEF RowsInv, DraftOK
  <2>4. rows = {[email |-> req[h].email, org |-> o.id]}
    BY <2>3
  <2>5. DraftOK(pc'[h], user'[h], draft'[h])
    BY <2>2, <2>3, <2>4 DEF DraftOK
  <2>6. UsersApart(rows, users)
    BY <1>2, <2>4 DEF UsersApart, EmailTaken
  <2>7. \A q \in Handler \ {h} : UsersApart(rows, draft[q].users) /\ UsersApart(draft[q].users, rows)
    BY <2>1, <2>4 DEF UsersApart, EmailTaken
  <2>8. Exclusive'
    <3>1. OrgsApart(draft'[h].orgs, orgs)
      BY <2>2 DEF RowsInv, Exclusive
    <3>2. \A q \in Handler \ {h} : /\ OrgsApart(draft'[h].orgs, draft[q].orgs)
                                   /\ OrgsApart(draft[q].orgs, draft'[h].orgs)
      BY <2>2 DEF RowsInv, Exclusive
    <3>3. UsersApart(draft'[h].users, users)
      BY <2>2, <2>6
    <3>4. \A q \in Handler \ {h} : /\ UsersApart(draft'[h].users, draft[q].users)
                                   /\ UsersApart(draft[q].users, draft'[h].users)
      BY <2>2, <2>7
    <3>5. orgs' = orgs /\ users' = users
      BY <2>1 DEF tables
    <3> QED
      BY <2>2, <3>1, <3>2, <3>3, <3>4, <3>5, InsertApart
  <2>9. IdsDrawn'
    BY <2>1, <2>2 DEF IdsDrawn, RowsInv, Others, Untouched, tables
  <2>10. \A q \in Handler : DraftOK(pc'[q], user'[q], draft'[q])
    BY <2>2, <2>5 DEF RowsInv, Others, Untouched
  <2> QED
    BY <2>1, <2>8, <2>9, <2>10 DEF RowsInv, OrgsWhole, tables
<1> QED
  BY <1>1, <1>2

LEMMA CommitRows ==
    ASSUME TypeOK, RowsInv, NEW h \in Handler, Commit(h)
    PROVE  RowsInv'
<1>1. /\ pc[h] = "commit" /\ Others(h) /\ pc'[h] = "issue" /\ draft'[h] = NoRows
      /\ orgs' = orgs \cup draft[h].orgs /\ users' = users \cup draft[h].users
      /\ drawnOrgs' = drawnOrgs
  BY DEF Commit, Goto, Others, Untouched, TypeOK
<1>2. NoRows.orgs = {} /\ NoRows.users = {}
  BY DEF NoRows
<1>3. PICK o \in OrgRow :
         draft[h].orgs = {o} /\ draft[h].users = {[email |-> user[h], org |-> o.id]}
  BY <1>1 DEF RowsInv, DraftOK
<1>4. \A q \in Handler : DraftOK(pc'[q], user'[q], draft'[q])
  BY <1>1, <1>2 DEF RowsInv, Others, Untouched, DraftOK
<1>5. IdsDrawn'
  BY <1>1, <1>2 DEF IdsDrawn, RowsInv, Others, Untouched
<1>6. Exclusive'
  BY <1>1, <1>2 DEF Exclusive, RowsInv, Others, Untouched, OrgsApart, UsersApart
<1>7. OrgsApart({o}, orgs) /\ UsersApart({[email |-> user[h], org |-> o.id]}, users)
  BY <1>3 DEF RowsInv, Exclusive
<1>8. \A p, r \in orgs' : p.slug = r.slug \/ p.id = r.id => p = r
  BY <1>1, <1>3, <1>7 DEF RowsInv, OrgsWhole, OrgsApart
<1>9. \A w \in users : \E p \in orgs : w.org = p.id
  BY DEF RowsInv, OrgsWhole
<1>10. \A u, w \in users' : u.email = w.email \/ u.org = w.org => u = w
  BY <1>1, <1>3, <1>7, <1>9 DEF RowsInv, OrgsWhole, OrgsApart, UsersApart
<1>11. {p.id : p \in orgs'} = {u.org : u \in users'}
  <2>1. {p.id : p \in orgs'} = {p.id : p \in orgs} \cup {o.id}
    BY <1>1, <1>3
  <2>2. {u.org : u \in users'} = {u.org : u \in users} \cup {o.id}
    <3> DEFINE admin == [email |-> user[h], org |-> o.id]
    <3>1. admin.org = o.id
      OBVIOUS
    <3> HIDE DEF admin
    <3>2. users' = users \cup {admin}
      BY <1>1, <1>3 DEF admin
    <3> QED
      BY <3>1, <3>2
  <2> QED
    BY <2>1, <2>2 DEF RowsInv, OrgsWhole
<1> QED
  BY <1>4, <1>5, <1>6, <1>8, <1>10, <1>11 DEF RowsInv, OrgsWhole

LEMMA StepRows == TypeOK /\ TypeOK' /\ RowsInv /\ [Next]_vars => RowsInv'
<1> SUFFICES ASSUME TypeOK, TypeOK', RowsInv, [Next]_vars PROVE RowsInv'
  OBVIOUS
<1>0. /\ Shape
      /\ \A h \in Handler : DraftOK(pc[h], user[h], draft[h])
  BY TypesNow DEF RowsInv
<1>1. ASSUME NEW h \in Handler, NEW s \in Slug, NEW e \in Email, Register(h, s, e)
      PROVE  RowsInv'
  BY <1>1, RowsBegin DEF Register
<1>2. ASSUME NEW h \in Handler, NEW e \in Email, Login(h, e) PROVE RowsInv'
  BY <1>2, RowsBegin DEF Login
<1>3. ASSUME NEW h \in Handler, NEW t \in held \cup {Unknown}, Refresh(h, t)
      PROVE  RowsInv'
  BY <1>3, RowsBegin DEF Refresh
<1>4. ASSUME NEW h \in Handler, CheckSlug(h) PROVE RowsInv'
  <2>1. CASE End(h)
    BY <1>4, <2>1, RowsEnd DEF CheckSlug
  <2>2. CASE Goto(h, "org") /\ UNCHANGED <<req, user, fresh, draft>>
    <3>1. Others(h) /\ pc'[h] = "org" /\ pc[h] = "check" /\ UNCHANGED tables
      BY <1>0, <1>4, <2>2 DEF CheckSlug, Goto, Others, Untouched, Shape
    <3> QED
      BY <1>0, <2>2, <3>1, RowsStay DEF DraftOK
  <2> QED
    BY <1>4, <2>1, <2>2 DEF CheckSlug
<1>5. ASSUME NEW h \in Handler, Authenticate(h) PROVE RowsInv'
  <2>1. CASE End(h)
    BY <1>5, <2>1, RowsEnd DEF Authenticate
  <2>2. CASE ~End(h)
    <3>1. /\ Others(h) /\ pc'[h] = "issue" /\ pc[h] = "authenticate"
          /\ draft' = draft /\ UNCHANGED tables
      BY <1>0, <1>5, <2>2 DEF Authenticate, Goto, Others, Untouched, Shape
    <3> QED
      BY <1>0, <3>1, RowsStay DEF DraftOK
  <2> QED
    BY <2>1, <2>2
<1>6. ASSUME NEW h \in Handler, GetToken(h) PROVE RowsInv'
  <2>1. CASE End(h)
    BY <1>6, <2>1, RowsEnd DEF GetToken
  <2>2. CASE ~End(h)
    <3>1. /\ Others(h) /\ pc'[h] = "delete" /\ pc[h] = "get"
          /\ draft' = draft /\ UNCHANGED tables
      BY <1>0, <1>6, <2>2 DEF GetToken, Goto, Others, Untouched, Shape
    <3> QED
      BY <1>0, <3>1, RowsStay DEF DraftOK
  <2> QED
    BY <2>1, <2>2
<1>7. ASSUME NEW h \in Handler, DeleteToken(h) PROVE RowsInv'
  <2>1. /\ Others(h) /\ pc'[h] = "issue" /\ pc[h] = "delete"
        /\ draft' = draft /\ UNCHANGED tables
    BY <1>0, <1>7 DEF DeleteToken, Goto, Others, Untouched, Shape
  <2> QED
    BY <1>0, <2>1, RowsStay DEF DraftOK
<1>8. ASSUME NEW h \in Handler, IssueToken(h) PROVE RowsInv'
  <2>1. /\ Others(h) /\ pc'[h] \in {"load", "respond"} /\ pc[h] = "issue"
        /\ draft' = draft /\ UNCHANGED tables
    BY <1>0, <1>8 DEF IssueToken, Goto, Others, Untouched, Shape
  <2> QED
    BY <1>0, <2>1, RowsStay DEF DraftOK
<1>9. ASSUME NEW h \in Handler, LoadUser(h) PROVE RowsInv'
  <2>1. CASE End(h)
    BY <1>9, <2>1, RowsEnd DEF LoadUser
  <2>2. CASE Goto(h, "respond") /\ UNCHANGED <<req, user, fresh, draft>>
    <3>1. Others(h) /\ pc'[h] = "respond" /\ pc[h] = "load" /\ UNCHANGED tables
      BY <1>0, <1>9, <2>2 DEF LoadUser, Goto, Others, Untouched, Shape
    <3> QED
      BY <1>0, <2>2, <3>1, RowsStay DEF DraftOK
  <2> QED
    BY <1>9, <2>1, <2>2 DEF LoadUser
<1>10. ASSUME NEW h \in Handler, Respond(h) PROVE RowsInv'
  BY <1>10, RowsEnd DEF Respond
<1>11. ASSUME NEW h \in Handler, Die(h) PROVE RowsInv'
  BY <1>11, RowsEnd DEF Die
<1>12. ASSUME UNCHANGED <<tables, handler>> PROVE RowsInv'
  BY <1>12 DEF tables, handler, RowsInv, Exclusive, IdsDrawn, OrgsWhole
<1>13. (\E t \in Token : Expire(t)) \/ UNCHANGED vars => UNCHANGED <<tables, handler>>
  BY DEF Expire, vars
<1> QED
  BY <1>1, <1>2, <1>3, <1>4, <1>5, <1>6, <1>7, <1>8, <1>9, <1>10, <1>11, <1>12, <1>13,
     InsertOrgRows, InsertUserRows, CommitRows DEF Next, Step

LEMMA TypesAndRows == Spec => [](TypeOK /\ RowsInv)
<1>1. TypeInv => TypeOK
  BY DEF TypeInv
<1>2. Init => TypeInv /\ RowsInv
  BY InitTypes, InitRows
<1>3. TypeInv /\ RowsInv /\ [Next]_vars => (TypeInv /\ RowsInv)'
  BY <1>1, StepTypes, StepRows DEF TypeInv
<1> QED
  BY <1>1, <1>2, <1>3, PTL DEF Spec

\* Registration is all or nothing and unique, with any number of requests at
\* the same time.
THEOREM RegistrationIsWhole == Spec => []OrgsWhole
<1>1. RowsInv => OrgsWhole
  BY DEF RowsInv
<1> QED
  BY <1>1, TypesAndRows, PTL

-----------------------------------------------------------------------------
(* Whom tokens stand for.                                                  *)

\* Whoever a handler acts for is committed.
KnownUsers ==
    /\ TokensNameUsers
    /\ \A h \in Handler : pc[h] \in {"delete", "issue", "load"} => EmailTaken(users, user[h])

\* Users are never removed.
LEMMA UsersStay ==
    ASSUME NEW e, EmailTaken(users, e), users \subseteq users'
    PROVE  EmailTaken(users', e)
BY DEF EmailTaken

LEMMA KnownStay ==
    ASSUME KnownUsers, NEW h \in Handler, Others(h), users \subseteq users',
           \A t \in Token : redis'[t] # Nobody =>
               redis'[t] = redis[t] \/ EmailTaken(users, redis'[t]),
           pc'[h] \in {"delete", "issue", "load"} => EmailTaken(users', user'[h])
    PROVE  KnownUsers'
<1>1. TokensNameUsers'
  BY UsersStay DEF KnownUsers, TokensNameUsers
<1>2. \A q \in Handler \ {h} : pc'[q] \in {"delete", "issue", "load"} => EmailTaken(users', user'[q])
  BY UsersStay DEF KnownUsers, Others, Untouched
<1> QED
  BY <1>1, <1>2 DEF KnownUsers

LEMMA KnownEnd ==
    ASSUME TypeOK, KnownUsers, NEW h \in Handler, End(h), UNCHANGED <<users, redis>>
    PROVE  KnownUsers'
<1>1. Others(h) /\ pc'[h] = "idle"
  BY EndMoves DEF Moves
<1> QED
  BY <1>1, KnownStay

LEMMA KnownBegin ==
    ASSUME TypeOK, KnownUsers, NEW h \in Handler, NEW r, NEW a, Begin(h, r, a),
           a \notin {"delete", "issue", "load"}
    PROVE  KnownUsers'
<1>1. Others(h) /\ pc'[h] = a /\ UNCHANGED <<users, redis>>
  BY DEF Begin, Goto, TypeOK, Others, Untouched, tables, tokens
<1> QED
  BY <1>1, KnownStay

LEMMA StepKnown == TypeOK /\ RowsInv /\ KnownUsers /\ [Next]_vars => KnownUsers'
<1> SUFFICES ASSUME TypeOK, RowsInv, KnownUsers, [Next]_vars PROVE KnownUsers'
  OBVIOUS
<1>0. Shape /\ Tables
  BY TypesNow
<1>1. ASSUME NEW h \in Handler, NEW s \in Slug, NEW e \in Email, Register(h, s, e)
      PROVE  KnownUsers'
  BY <1>1, KnownBegin DEF Register
<1>2. ASSUME NEW h \in Handler, NEW e \in Email, Login(h, e) PROVE KnownUsers'
  BY <1>2, KnownBegin DEF Login
<1>3. ASSUME NEW h \in Handler, NEW t \in held \cup {Unknown}, Refresh(h, t)
      PROVE  KnownUsers'
  BY <1>3, KnownBegin DEF Refresh
<1>4. ASSUME NEW h \in Handler, CheckSlug(h) PROVE KnownUsers'
  <2>1. Others(h) /\ pc'[h] \in {"idle", "org"} /\ UNCHANGED <<users, redis>>
    BY <1>0, <1>4, EndMoves
       DEF CheckSlug, Goto, Others, Untouched, Shape, Moves, tables, tokens
  <2> QED
    BY <2>1, KnownStay
<1>5. ASSUME NEW h \in Handler, InsertOrg(h) PROVE KnownUsers'
  <2>1. Others(h) /\ pc'[h] \in {"idle", "user"} /\ UNCHANGED <<users, redis>>
    BY <1>0, <1>5, EndMoves DEF InsertOrg, Goto, Others, Untouched, Shape, Moves, tokens
  <2> QED
    BY <2>1, KnownStay
<1>6. ASSUME NEW h \in Handler, InsertUser(h) PROVE KnownUsers'
  <2>1. Others(h) /\ pc'[h] \in {"idle", "commit"} /\ UNCHANGED <<users, redis>>
    BY <1>0, <1>6, EndMoves
       DEF InsertUser, Goto, Others, Untouched, Shape, Moves, tables, tokens
  <2> QED
    BY <2>1, KnownStay
<1>7. ASSUME NEW h \in Handler, Commit(h) PROVE KnownUsers'
  <2>1. /\ pc[h] = "commit" /\ Others(h) /\ user'[h] = user[h] /\ redis' = redis
        /\ users' = users \cup draft[h].users
    BY <1>0, <1>7 DEF Commit, Goto, Others, Untouched, Shape, tokens
  <2>2. PICK o \in OrgRow : draft[h].users = {[email |-> user[h], org |-> o.id]}
    BY <2>1 DEF RowsInv, DraftOK
  <2>3. EmailTaken(users', user'[h])
    <3> DEFINE admin == [email |-> user[h], org |-> o.id]
    <3>1. admin.email = user[h] /\ admin \in draft[h].users
      BY <2>2
    <3> HIDE DEF admin
    <3> QED
      BY <2>1, <3>1 DEF EmailTaken
  <2> QED
    BY <2>1, <2>3, KnownStay
<1>8. ASSUME NEW h \in Handler, Authenticate(h) PROVE KnownUsers'
  <2>1. UNCHANGED <<users, redis>>
    BY <1>8 DEF Authenticate, tables, tokens
  <2>2. CASE End(h)
    BY <2>1, <2>2, KnownEnd
  <2>3. CASE ~End(h)
    <3>1. Others(h) /\ user'[h] = req[h].email /\ EmailTaken(users, req[h].email)
      BY <1>0, <1>8, <2>3 DEF Authenticate, Goto, Others, Untouched, Shape
    <3> QED
      BY <2>1, <3>1, KnownStay
  <2> QED
    BY <2>2, <2>3
<1>9. ASSUME NEW h \in Handler, GetToken(h) PROVE KnownUsers'
  <2>1. UNCHANGED <<users, redis>>
    BY <1>9 DEF GetToken, tables, tokens
  <2>2. CASE End(h)
    BY <2>1, <2>2, KnownEnd
  <2>3. CASE ~End(h)
    <3>1. /\ pc[h] = "get" /\ Others(h) /\ user'[h] = redis[req[h].token]
          /\ req[h].token # Unknown /\ redis[req[h].token] # Nobody
      BY <1>0, <1>9, <2>3 DEF GetToken, Goto, Others, Untouched, Shape
    <3>2. req[h].token \in Token
      BY <3>1 DEF TypeOK, HandlerOK, Refreshes
    <3>3. EmailTaken(users, redis[req[h].token])
      BY <3>1, <3>2 DEF KnownUsers, TokensNameUsers
    <3> QED
      BY <2>1, <3>1, <3>3, KnownStay
  <2> QED
    BY <2>2, <2>3
<1>10. ASSUME NEW h \in Handler, DeleteToken(h) PROVE KnownUsers'
  <2>1. /\ pc[h] = "delete" /\ Others(h) /\ user'[h] = user[h] /\ users' = users
    BY <1>0, <1>10 DEF DeleteToken, Goto, Others, Untouched, Shape, tables
  <2>2. \A t \in Token : redis'[t] \in {redis[t], Nobody}
    BY <1>0, <1>10 DEF DeleteToken, Tables
  <2>3. EmailTaken(users, user[h])
    BY <2>1 DEF KnownUsers
  <2> QED
    BY <2>1, <2>2, <2>3, KnownStay
<1>11. ASSUME NEW h \in Handler, IssueToken(h) PROVE KnownUsers'
  <2>1. /\ pc[h] = "issue" /\ Others(h) /\ pc'[h] \in {"load", "respond"}
        /\ UNCHANGED <<users, user>>
    BY <1>0, <1>11 DEF IssueToken, Goto, Others, Untouched, Shape, tables
  <2>2. \A t \in Token : redis'[t] \in {redis[t], user[h]}
    BY <1>0, <1>11 DEF IssueToken, Tables
  <2>3. EmailTaken(users, user[h])
    BY <2>1 DEF KnownUsers
  <2> QED
    BY <2>1, <2>2, <2>3, KnownStay
<1>12. ASSUME NEW h \in Handler, LoadUser(h) PROVE KnownUsers'
  <2>1. Others(h) /\ pc'[h] \in {"idle", "respond"} /\ UNCHANGED <<users, redis>>
    BY <1>0, <1>12, EndMoves
       DEF LoadUser, Goto, Others, Untouched, Shape, Moves, tables, tokens
  <2> QED
    BY <2>1, KnownStay
<1>13. ASSUME NEW h \in Handler, Respond(h) PROVE KnownUsers'
  BY <1>13, KnownEnd DEF Respond, tables, tokens
<1>14. ASSUME NEW h \in Handler, Die(h) PROVE KnownUsers'
  BY <1>14, KnownEnd DEF Die, tables, tokens
<1>15. ASSUME NEW t \in Token, Expire(t) PROVE KnownUsers'
  <2>1. UNCHANGED <<tables, handler>> /\ \A a \in Token : redis'[a] \in {redis[a], Nobody}
    BY <1>0, <1>15 DEF Expire, Tables
  <2> QED
    BY <2>1 DEF KnownUsers, TokensNameUsers, tables, handler
<1>16. CASE UNCHANGED vars
  BY <1>16 DEF vars, tables, tokens, handler, KnownUsers, TokensNameUsers
<1> QED
  BY <1>1, <1>2, <1>3, <1>4, <1>5, <1>6, <1>7, <1>8, <1>9, <1>10, <1>11, <1>12,
     <1>13, <1>14, <1>15, <1>16 DEF Next, Step

\* A refresh token never stands for a user who is not committed.
THEOREM TokensAreUsers == Spec => []TokensNameUsers
<1>1. Init => KnownUsers
  BY DEF Init, KnownUsers, TokensNameUsers
<1>2. KnownUsers => TokensNameUsers
  BY DEF KnownUsers
<1> QED
  BY <1>1, <1>2, StepKnown, TypesAndRows, PTL DEF Spec

-----------------------------------------------------------------------------
(* Sessions.                                                               *)

\* A client has the token, or is about to be sent it.
Given(t) == t \in held \/ OnItsWay(t)

\* SessionKept for one token.
Kept(t) ==
    \/ Successors(t) \cap lost # {}
    \/ \E q \in Successors(t) : redis[q] # Nobody /\ Given(q)
    \/ \E h \in Handler : Rotating(h) /\ pc[h] = "issue" /\ t \in lineage[req[h].token]

\* A token on its way belongs to the handler that drew it, and succeeds what
\* that handler replaced.
FreshOK(h) ==
    fresh[h] # Unknown => /\ pc[h] \in {"load", "respond"}
                          /\ lineage[fresh[h]] = {fresh[h]} \cup Replaced(h)

\* Only tokens that have been drawn succeed any.
LineageDrawn == \A t \in Token : lineage[t] # {} => t <= drawn

\* Tokens on their way are kept as well as those that clients have: they are
\* what clients will have.
KeptInv ==
    /\ \A t \in Token : Given(t) => Kept(t)
    /\ \A h \in Handler : FreshOK(h)
    /\ LineageDrawn

LEMMA TokensAreNumbers == \A t \in Token : t \in Nat /\ t # Unknown
BY Bounds DEF Token, Unknown

\* What the steps of h that touch no token leave as it was.
LEMMA FreshStays ==
    ASSUME KeptInv, NEW h \in Handler, Others(h), lineage' = lineage,
           fresh'[h] # Unknown =>
               /\ fresh'[h] = fresh[h] /\ req'[h] = req[h] /\ pc'[h] \in {"load", "respond"}
    PROVE  \A q \in Handler : FreshOK(q)'
<1> SUFFICES ASSUME NEW q \in Handler PROVE FreshOK(q)'
  OBVIOUS
<1>1. FreshOK(q)
  BY DEF KeptInv
<1>2. CASE q = h
  BY <1>1, <1>2 DEF FreshOK, Replaced
<1>3. CASE q # h
  BY <1>1, <1>3 DEF FreshOK, Replaced, Others, Untouched
<1> QED
  BY <1>2, <1>3

\* A step of h that is neither the last nor one on tokens keeps sessions.
LEMMA KeptOn ==
    ASSUME TypeOK, KeptInv, NEW h \in Handler, Others(h),
           UNCHANGED <<redis, lineage, drawn, held, lost>>, fresh'[h] = fresh[h],
           fresh[h] # Unknown => req'[h] = req[h] /\ pc'[h] \in {"load", "respond"},
           pc[h] = "issue" => ~Rotating(h)
    PROVE  KeptInv'
<1>1. \A q \in Handler : FreshOK(q)'
  BY FreshStays
<1>2. \A t : Given(t)' <=> Given(t)
  BY DEF Given, OnItsWay, Others, Untouched
<1>3. \A t : Successors(t)' = Successors(t)
  BY DEF Successors
<1>4. ASSUME NEW t \in Token, Given(t)' PROVE Kept(t)'
  <2>1. Kept(t)
    BY <1>2, <1>4 DEF KeptInv
  <2>2. CASE \E q \in Handler : Rotating(q) /\ pc[q] = "issue" /\ t \in lineage[req[q].token]
    <3>1. PICK q \in Handler : Rotating(q) /\ pc[q] = "issue" /\ t \in lineage[req[q].token]
      BY <2>2
    <3>2. q # h
      BY <3>1
    <3>3. (Rotating(q) /\ pc[q] = "issue" /\ t \in lineage[req[q].token])'
      BY <3>1, <3>2 DEF Rotating, Others, Untouched
    <3> QED
      BY <3>3 DEF Kept
  <2>3. CASE \E q \in Successors(t) : redis[q] # Nobody /\ Given(q)
    BY <1>2, <1>3, <2>3 DEF Kept
  <2>4. CASE Successors(t) \cap lost # {}
    BY <1>3, <2>4 DEF Kept
  <2> QED
    BY <2>1, <2>2, <2>3, <2>4 DEF Kept
<1>5. LineageDrawn'
  BY DEF KeptInv, LineageDrawn
<1> QED
  BY <1>1, <1>4, <1>5 DEF KeptInv

LEMMA KeptBegin ==
    ASSUME TypeOK, KeptInv, NEW h \in Handler, NEW r, NEW a, Begin(h, r, a)
    PROVE  KeptInv'
<1>1. /\ Others(h) /\ pc[h] = "idle" /\ fresh'[h] = fresh[h]
      /\ UNCHANGED <<redis, lineage, drawn, held, lost>>
  BY DEF Begin, Goto, TypeOK, Others, Untouched, tokens, client
<1>2. fresh[h] = Unknown
  BY <1>1 DEF KeptInv, FreshOK
<1> QED
  BY <1>1, <1>2, KeptOn

\* When a handler ends, its token is with the client, or the session it was
\* rotating is lost.
LEMMA KeptEnd ==
    ASSUME TypeOK, TypeOK', KeptInv, NEW h \in Handler, End(h), UNCHANGED tokens,
           held \subseteq held', held' \subseteq held \cup {fresh[h]}, lost \subseteq lost',
           Rotating(h) => req[h].token \in lost' \/ fresh[h] \in held'
    PROVE  KeptInv'
<1>1. Others(h) /\ pc'[h] = "idle" /\ fresh'[h] = Unknown
  BY EndMoves DEF Moves
<1>2. redis' = redis /\ lineage' = lineage /\ drawn' = drawn /\ held' \subseteq Token
  BY DEF tokens, TypeOK
<1>3. \A q \in Handler : FreshOK(q)'
  BY <1>1, <1>2, FreshStays
<1>4. \A t : Successors(t)' = Successors(t)
  BY <1>2 DEF Successors
<1>5. ASSUME NEW t \in Token, Given(t)' PROVE Kept(t)'
  <2>1. /\ t \in held' \/ \E q \in Handler \ {h} : fresh[q] = t
        /\ Given(t)
    BY <1>1, <1>5, TokensAreNumbers DEF Given, OnItsWay, Others, Untouched
  <2>2. Kept(t)
    BY <2>1 DEF KeptInv
  <2>3. Rotating(h) /\ t \in lineage[req[h].token] /\ fresh[h] \notin held' => Kept(t)'
    <3> SUFFICES ASSUME Rotating(h), t \in lineage[req[h].token], fresh[h] \notin held'
                 PROVE  Kept(t)'
      OBVIOUS
    <3>1. req[h].token \in Token
      BY DEF Rotating, TypeOK, HandlerOK, Registers, Logins, Refreshes
    <3>2. req[h].token \in Successors(t)' \cap lost'
      BY <1>4, <3>1 DEF Successors
    <3> QED
      BY <3>2 DEF Kept
  <2>4. CASE Successors(t) \cap lost # {}
    BY <1>4, <2>4 DEF Kept
  <2>5. ASSUME NEW q \in Successors(t), redis[q] # Nobody, Given(q) PROVE Kept(t)'
    <3>1. CASE q \in held' \/ \E g \in Handler \ {h} : fresh[g] = q
      <4>1. Given(q)'
        BY <1>1, <3>1 DEF Given, OnItsWay, Others, Untouched
      <4> QED
        BY <1>2, <1>4, <2>5, <4>1 DEF Kept
    <3>2. CASE ~(q \in held' \/ \E g \in Handler \ {h} : fresh[g] = q)
      <4>1. q = fresh[h] /\ q # t /\ q # Unknown
        BY <2>1, <2>5, <3>2, TokensAreNumbers DEF Given, OnItsWay, Successors
      <4>2. pc[h] \in {"load", "respond"} /\ lineage[q] = {q} \cup Replaced(h)
        BY <4>1 DEF KeptInv, FreshOK
      <4>3. t \in Replaced(h)
        BY <2>5, <4>1, <4>2 DEF Successors
      <4>4. Rotating(h) /\ t \in lineage[req[h].token]
        BY <4>2, <4>3 DEF Replaced, Rotating
      <4> QED
        BY <2>3, <3>2, <4>1, <4>4
    <3> QED
      BY <3>1, <3>2
  <2>6. ASSUME NEW q \in Handler, Rotating(q), pc[q] = "issue", t \in lineage[req[q].token]
        PROVE  Kept(t)'
    <3>1. CASE q # h
      <4>1. (Rotating(q) /\ pc[q] = "issue" /\ t \in lineage[req[q].token])'
        BY <1>1, <1>2, <2>6, <3>1 DEF Rotating, Others, Untouched
      <4> QED
        BY <4>1 DEF Kept
    <3>2. CASE q = h
      <4>1. fresh[h] = Unknown
        BY <2>6, <3>2 DEF KeptInv, FreshOK
      <4>2. fresh[h] \notin held'
        BY <1>2, <4>1, TokensAreNumbers
      <4> QED
        BY <2>3, <2>6, <3>2, <4>2
    <3> QED
      BY <3>1, <3>2
  <2> QED
    BY <2>2, <2>4, <2>5, <2>6 DEF Kept
<1>6. LineageDrawn'
  BY <1>2 DEF KeptInv, LineageDrawn
<1> QED
  BY <1>3, <1>5, <1>6 DEF KeptInv

\* The key expires, or the rotation deletes it and will draw another.
LEMMA KeptTokenGone ==
    ASSUME TypeOK, KeptInv, NEW d \in Token,
           redis' = [redis EXCEPT ![d] = Nobody], UNCHANGED <<lineage, drawn, fresh, req, held>>,
           lost \subseteq lost',
           \A h \in Handler : FreshOK(h)',
           \A h \in Handler : pc[h] = "issue" => pc'[h] = "issue",
           \/ d \in lost'
           \/ \E h \in Handler : req[h].kind = "refresh" /\ req[h].token = d /\ pc'[h] = "issue"
    PROVE  KeptInv'
<1>1. \A t : Successors(t)' = Successors(t) /\ (Given(t)' <=> Given(t))
  BY DEF Successors, Given, OnItsWay
<1>2. ASSUME NEW t \in Token, Given(t)' PROVE Kept(t)'
  <2>1. Kept(t)
    BY <1>1, <1>2 DEF KeptInv
  <2>2. CASE Successors(t) \cap lost # {}
    BY <1>1, <2>2 DEF Kept
  <2>3. ASSUME NEW q \in Successors(t), redis[q] # Nobody, Given(q) PROVE Kept(t)'
    <3>1. CASE q # d
      <4>1. redis'[q] # Nobody
        BY <2>3, <3>1 DEF TypeOK, Successors
      <4> QED
        BY <1>1, <2>3, <4>1 DEF Kept
    <3>2. CASE q = d /\ d \in lost'
      BY <1>1, <2>3, <3>2 DEF Kept
    <3>3. CASE q = d /\ \E h \in Handler : req[h].kind = "refresh" /\ req[h].token = d
                                           /\ pc'[h] = "issue"
      <4>1. PICK h \in Handler : req[h].kind = "refresh" /\ req[h].token = d /\ pc'[h] = "issue"
        BY <3>3
      <4>2. t \in lineage[d]
        BY <2>3, <3>3 DEF Successors
      <4>3. (Rotating(h) /\ pc[h] = "issue" /\ t \in lineage[req[h].token])'
        BY <4>1, <4>2 DEF Rotating
      <4> QED
        BY <4>3 DEF Kept
    <3> QED
      BY <3>1, <3>2, <3>3
  <2>4. ASSUME NEW q \in Handler, Rotating(q), pc[q] = "issue", t \in lineage[req[q].token]
        PROVE  Kept(t)'
    <3>1. (Rotating(q) /\ pc[q] = "issue" /\ t \in lineage[req[q].token])'
      BY <2>4 DEF Rotating
    <3> QED
      BY <3>1 DEF Kept
  <2> QED
    BY <2>1, <2>2, <2>3, <2>4 DEF Kept
<1>3. LineageDrawn'
  BY DEF KeptInv, LineageDrawn
<1> QED
  BY <1>2, <1>3 DEF KeptInv

\* The new token succeeds all that the old one did, and is on its way.
LEMMA KeptIssue ==
    ASSUME TypeOK, TypeOK', KeptInv, DrawnBefore, NEW h \in Handler, IssueToken(h)
    PROVE  KeptInv'
<1>0. Shape /\ Tables /\ drawn \in Nat
  BY TypesNow, Bounds DEF Tables
<1>1. /\ pc[h] = "issue" /\ drawn' = drawn + 1 /\ Others(h)
      /\ pc'[h] \in {"load", "respond"} /\ fresh'[h] = drawn' /\ UNCHANGED <<req, held, lost>>
      /\ redis' = [redis EXCEPT ![drawn'] = user[h]]
      /\ lineage' = [lineage EXCEPT ![drawn'] = {drawn'} \cup Replaced(h)]
  BY <1>0 DEF IssueToken, Goto, Others, Untouched, Shape, client
<1>2. HandlerOK("issue", req[h], user[h], fresh[h])
  BY <1>1, TypesNow
<1>3. user[h] # Nobody
  BY <1>2, NobodyAssumption DEF HandlerOK
<1>4. fresh[h] = Unknown
  BY <1>1 DEF KeptInv, FreshOK
<1>5. drawn' \in Token
  <2>1. fresh'[h] \in Token
    BY <1>1 DEF TypeOK, HandlerOK
  <2> QED
    BY <1>1, <2>1
<1>6. /\ lineage'[drawn'] = {drawn'} \cup Replaced(h) /\ redis'[drawn'] # Nobody
      /\ \A t \in Token : t # drawn' => lineage'[t] = lineage[t] /\ redis'[t] = redis[t]
  BY <1>0, <1>1, <1>3, <1>5 DEF Tables
<1>7. \A q \in Handler : fresh[q] \in Int /\ fresh[q] <= drawn
  BY <1>0 DEF Shape, Token, Unknown, DrawnBefore
<1>8. \A q \in Handler : req[q].kind = "refresh" => req[q].token \in Int /\ req[q].token <= drawn
  BY <1>0 DEF Shape, Request, Registers, Logins, Refreshes, NoRequest, Token, Unknown, DrawnBefore
<1>9. \A t \in Token : t <= drawn => t # drawn'
  BY <1>0, <1>1 DEF Token
<1>10. \A q \in Handler : FreshOK(q)'
  <2>1. FreshOK(h)'
    BY <1>0, <1>1, <1>5, <1>6, <1>8 DEF FreshOK, Replaced
  <2>2. ASSUME NEW q \in Handler \ {h}, fresh[q] # Unknown
        PROVE  /\ pc[q] \in {"load", "respond"} /\ Replaced(q)' = Replaced(q)
               /\ lineage'[fresh[q]] = {fresh[q]} \cup Replaced(q)
    <3>1. pc[q] \in {"load", "respond"} /\ lineage[fresh[q]] = {fresh[q]} \cup Replaced(q)
      BY <2>2 DEF KeptInv, FreshOK
    <3>2. fresh[q] \in Token
      BY <1>0, <2>2 DEF Shape
    <3>3. lineage'[fresh[q]] = lineage[fresh[q]]
      BY <1>6, <1>7, <1>9, <3>2
    <3>4. req[q].kind = "refresh" => req[q].token \in Token
      BY <3>1 DEF TypeOK, HandlerOK, Registers, Logins, Refreshes
    <3>5. req[q].kind = "refresh" => lineage'[req[q].token] = lineage[req[q].token]
      BY <1>6, <1>8, <1>9, <3>4
    <3> QED
      BY <1>1, <3>1, <3>3, <3>5 DEF Replaced
  <2>3. \A q \in Handler \ {h} : FreshOK(q)'
    BY <1>1, <2>2 DEF FreshOK, Others, Untouched
  <2> QED
    BY <2>1, <2>3
<1>11. \A t \in Token : t \in held => t <= drawn
  BY DEF DrawnBefore
<1>12. \A t \in Token : Given(t)' <=> t = drawn' \/ Given(t)
  BY <1>1, <1>4, TokensAreNumbers DEF Given, OnItsWay, Others, Untouched
<1>13. \A q \in Token : q = drawn' => Given(q)' /\ redis'[q] # Nobody
  BY <1>6, <1>12
<1>14. \A t \in Token : t \in lineage'[drawn'] => Kept(t)'
  <2> SUFFICES ASSUME NEW t \in Token, NEW q \in Token, q = drawn', t \in lineage'[q]
               PROVE  Kept(t)'
    BY <1>5
  <2>1. q \in Successors(t)' /\ redis'[q] # Nobody /\ Given(q)'
    BY <1>13 DEF Successors
  <2> QED
    BY <2>1 DEF Kept
<1>15. \A t \in Token : \A q \in Successors(t) : q # drawn' /\ q \in Successors(t)'
  BY <1>6, <1>9 DEF Successors, KeptInv, LineageDrawn
<1>16. ASSUME NEW t \in Token, Given(t)' PROVE Kept(t)'
  <2>1. CASE t = drawn'
    BY <1>6, <1>14, <2>1
  <2>2. CASE t # drawn'
    <3>1. Kept(t)
      BY <1>12, <1>16, <2>2 DEF KeptInv
    <3>2. CASE Successors(t) \cap lost # {}
      BY <1>1, <1>15, <3>2 DEF Kept
    <3>3. ASSUME NEW q \in Successors(t), redis[q] # Nobody, Given(q) PROVE Kept(t)'
      <4>1. q \in Token /\ redis'[q] # Nobody /\ Given(q)' /\ q \in Successors(t)'
        BY <1>6, <1>12, <1>15, <3>3 DEF Successors
      <4> QED
        BY <4>1 DEF Kept
    <3>4. ASSUME NEW q \in Handler, Rotating(q), pc[q] = "issue", t \in lineage[req[q].token]
          PROVE  Kept(t)'
      <4>1. CASE q = h
        BY <1>6, <1>14, <3>4, <4>1 DEF Rotating, Replaced
      <4>2. CASE q # h
        <5>1. req[q].token \in Token /\ req[q].token <= drawn
          BY <1>8, <3>4 DEF Rotating, TypeOK, HandlerOK, Registers, Logins, Refreshes
        <5>2. lineage'[req[q].token] = lineage[req[q].token]
          BY <1>6, <1>9, <5>1
        <5>3. (Rotating(q) /\ pc[q] = "issue" /\ t \in lineage[req[q].token])'
          BY <1>1, <3>4, <4>2, <5>2 DEF Rotating, Others, Untouched
        <5> QED
          BY <5>3 DEF Kept
      <4> QED
        BY <4>1, <4>2
    <3> QED
      BY <3>1, <3>2, <3>3, <3>4 DEF Kept
  <2> QED
    BY <2>1, <2>2
<1>17. LineageDrawn'
  <2> SUFFICES ASSUME NEW t \in Token, lineage'[t] # {} PROVE t <= drawn'
    BY DEF LineageDrawn
  <2>1. CASE t = drawn'
    BY <1>0, <1>1, <2>1
  <2>2. CASE t # drawn'
    BY <1>0, <1>1, <1>6, <2>2, TokensAreNumbers DEF KeptInv, LineageDrawn
  <2> QED
    BY <2>1, <2>2
<1> QED
  BY <1>10, <1>16, <1>17 DEF KeptInv

LEMMA InitKept == Init => KeptInv
BY DEF Init, KeptInv, Given, OnItsWay, FreshOK, LineageDrawn, Unknown, Token

LEMMA StepKept ==
    ASSUME TypeOK, TypeOK', RotationInv, KnownUsers, KeptInv, [Next]_vars PROVE KeptInv'
<1>0. /\ Shape /\ Tables /\ DrawnBefore
      /\ \A h \in Handler : HandlerOK(pc[h], req[h], user[h], fresh[h])
      /\ \A h \in Handler : fresh[h] # Unknown => pc[h] \in {"load", "respond"}
      /\ \A h \in Handler : pc[h] = "load" => EmailTaken(users, user[h])
  BY TypesNow DEF RotationInv, KeptInv, FreshOK, KnownUsers
<1>1. ASSUME NEW h \in Handler,
             \/ \E s \in Slug, e \in Email : Register(h, s, e)
             \/ \E e \in Email : Login(h, e)
             \/ \E t \in held \cup {Unknown} : Refresh(h, t)
      PROVE  KeptInv'
  BY <1>1, KeptBegin DEF Register, Login, Refresh
<1>2. ASSUME NEW h \in Handler, \/ CheckSlug(h) \/ InsertOrg(h) \/ InsertUser(h) \/ Commit(h)
                                \/ Authenticate(h) \/ GetToken(h)
      PROVE  KeptInv'
  <2>1. UNCHANGED tokens /\ UNCHANGED <<held, lost>> /\ ~Rotating(h)
        /\ pc[h] \notin {"load", "respond", "issue"}
    BY <1>2 DEF CheckSlug, InsertOrg, InsertUser, Commit, Authenticate, GetToken, Rotating, tokens, client
  <2>2. CASE End(h)
    BY <2>1, <2>2, KeptEnd DEF client
  <2>3. CASE ~End(h)
    <3>1. Others(h) /\ fresh'[h] = fresh[h]
      BY <1>0, <1>2, <2>3 DEF CheckSlug, InsertOrg, InsertUser, Commit, Authenticate, GetToken,
         Goto, Others, Untouched, Shape
    <3> QED
      BY <1>0, <2>1, <3>1, KeptOn DEF tokens, client
  <2> QED
    BY <2>2, <2>3
<1>3. ASSUME NEW h \in Handler, DeleteToken(h) PROVE KeptInv'
  <2>1. /\ pc[h] = "delete" /\ pc'[h] = "issue" /\ Others(h)
        /\ UNCHANGED <<lineage, drawn, fresh, req, held, lost>>
        /\ redis' = [redis EXCEPT ![req[h].token] = Nobody]
    BY <1>0, <1>3 DEF DeleteToken, Goto, Others, Untouched, Shape, client
  <2>2. req[h].token \in Token /\ req[h].kind = "refresh" /\ fresh[h] = Unknown
    BY <1>0, <2>1 DEF HandlerOK, Refreshes
  <2>3. \A q \in Handler : FreshOK(q)'
    BY <2>1, <2>2, FreshStays
  <2>4. \A q \in Handler : pc[q] = "issue" => pc'[q] = "issue"
    BY <2>1 DEF Others, Untouched
  <2> QED
    BY <2>1, <2>2, <2>3, <2>4, KeptTokenGone
<1>4. ASSUME NEW h \in Handler, IssueToken(h) PROVE KeptInv'
  BY <1>0, <1>4, KeptIssue
<1>5. ASSUME NEW h \in Handler, LoadUser(h) PROVE KeptInv'
  <2>1. /\ pc[h] = "load" /\ EmailTaken(users, user[h])
        /\ UNCHANGED tokens /\ UNCHANGED client
    BY <1>0, <1>5 DEF LoadUser
  <2>2. Goto(h, "respond") /\ UNCHANGED <<req, user, fresh, draft>>
    BY <1>5, <2>1 DEF LoadUser
  <2>3. Others(h) /\ pc'[h] = "respond"
    BY <1>0, <2>2 DEF Goto, Others, Untouched, Shape
  <2> QED
    BY <2>1, <2>2, <2>3, KeptOn DEF tokens, client
<1>6. ASSUME NEW h \in Handler, Respond(h) PROVE KeptInv'
  BY <1>6, KeptEnd DEF Respond
<1>7. ASSUME NEW h \in Handler, Die(h) PROVE KeptInv'
  BY <1>7, KeptEnd DEF Die
<1>8. ASSUME NEW t \in Token, Expire(t) PROVE KeptInv'
  <2>1. /\ UNCHANGED handler /\ UNCHANGED <<lineage, drawn, fresh, req, held, pc>>
        /\ redis' = [redis EXCEPT ![t] = Nobody] /\ lost' = lost \cup {t}
    BY <1>8 DEF Expire, handler
  <2>2. \A q \in Handler : FreshOK(q)'
    BY <2>1 DEF KeptInv, FreshOK, Replaced
  <2> QED
    BY <2>1, <2>2, KeptTokenGone
<1>9. CASE UNCHANGED vars
  BY <1>9 DEF vars, handler, tokens, client, KeptInv, Given, OnItsWay, Kept, Successors,
     Rotating, FreshOK, Replaced, LineageDrawn
<1> QED
  BY <1>1, <1>2, <1>3, <1>4, <1>5, <1>6, <1>7, <1>8, <1>9 DEF Next, Step

\* Whoever was sent a refresh token keeps the session, through any rotations
\* of it at the same time, but for a token that expired and a request that
\* died while it rotated one.
THEOREM SessionIsKept == Spec => []SessionKept
<1>1. TypeInv => TypeOK
  BY DEF TypeInv
<1>2. Init => TypeInv /\ RowsInv /\ RotationInv /\ KnownUsers /\ KeptInv
  <2>1. Init => KnownUsers
    BY DEF Init, KnownUsers, TokensNameUsers
  <2> QED
    BY <2>1, InitTypes, InitRows, InitRotation, InitKept
<1>3. TypeInv /\ RowsInv /\ RotationInv /\ KnownUsers /\ KeptInv /\ [Next]_vars
         => (TypeInv /\ RowsInv /\ RotationInv /\ KnownUsers /\ KeptInv)'
  <2> SUFFICES ASSUME TypeInv, RowsInv, RotationInv, KnownUsers, KeptInv, [Next]_vars
               PROVE  (TypeInv /\ RowsInv /\ RotationInv /\ KnownUsers /\ KeptInv)'
    OBVIOUS
  <2>1. TypeInv' /\ TypeOK /\ TypeOK'
    BY StepTypes DEF TypeInv
  <2> QED
    BY <2>1, StepRows, StepRotation, StepKnown, StepKept
<1>4. TypeInv /\ KeptInv => SessionKept
  <2> SUFFICES ASSUME TypeOK, KeptInv, NEW t \in held
               PROVE  \/ Successors(t) \cap lost # {}
                      \/ \E q \in Successors(t) : redis[q] # Nobody /\ (q \in held \/ OnItsWay(q))
                      \/ \E h \in Handler : /\ Rotating(h) /\ pc[h] = "issue"
                                            /\ t \in lineage[req[h].token]
    BY DEF SessionKept, TypeInv
  <2>1. Kept(t)
    BY DEF TypeOK, KeptInv, Given
  <2> QED
    BY <2>1 DEF Kept, Given
<1> QED
  BY <1>2, <1>3, <1>4, PTL DEF Spec
=============================================================================
