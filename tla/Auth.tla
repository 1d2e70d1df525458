-------------------------------- MODULE Auth --------------------------------
(***************************************************************************)
(* Registration, login and refresh of one deployment: requests handled     *)
(* concurrently over the tables organizations and users (PostgreSQL, READ  *)
(* COMMITTED, one transaction per request) and the refresh tokens in       *)
(* Redis.                                                                  *)
(*                                                                         *)
(* A user is known by the e-mail address, which is unique; a refresh token *)
(* is known by the order in which it was drawn, so that no two are equal.  *)
(* Users are neither removed nor deactivated by any code.                  *)
(***************************************************************************)
EXTENDS Integers, FiniteSets

CONSTANTS
    Handler,    \* requests under way at a time
    Slug,       \* slugs of organizations
    Email,      \* e-mail addresses
    Nobody,     \* stands for no user
    MaxOrgs,    \* bound: organization rows ever inserted
    MaxTokens,  \* bound: refresh tokens ever drawn
    MaxFaults   \* bound: requests that die and tokens that expire

ASSUME HandlerAssumption == IsFiniteSet(Handler)
ASSUME NobodyAssumption == Nobody \notin Email
ASSUME BoundsAssumption == {MaxOrgs, MaxTokens, MaxFaults} \subseteq Nat

Token == 1..MaxTokens
Unknown == 0    \* a string that is no token

VARIABLES
    orgs,       \* committed rows [slug, id] of organizations
    users,      \* committed rows [email, org] of users
    redis,      \* redis[t]: the user under refresh:<hash of t>, or Nobody
    drawnOrgs,  \* organization ids drawn so far
    drawn,      \* refresh tokens drawn so far
    pc,         \* pc[h]: where handler h is
    req,        \* req[h]: its request
    user,       \* user[h]: the user it acts for
    fresh,      \* fresh[h]: the refresh token it has drawn
    draft,      \* draft[h]: rows it has inserted and not committed
    held,       \* refresh tokens that clients have been sent
    faults,     \* faults so far
    lineage,    \* history: lineage[t]: t and the tokens it replaces
    lost,       \* history: tokens whose session a fault has hit
    raced       \* history: tokens that two refreshes read before either deleted

tables  == <<orgs, users, drawnOrgs>>
tokens  == <<redis, drawn, lineage>>
handler == <<pc, req, user, fresh, draft>>
client  == <<held, faults, lost, raced>>
vars    == <<tables, tokens, handler, client>>

NoRows == [orgs |-> {}, users |-> {}]
NoRequest == [kind |-> "none"]

Init ==
    /\ orgs = {} /\ users = {} /\ drawnOrgs = 0
    /\ redis = [t \in Token |-> Nobody] /\ drawn = 0
    /\ lineage = [t \in Token |-> {}]
    /\ pc = [h \in Handler |-> "idle"]
    /\ req = [h \in Handler |-> NoRequest]
    /\ user = [h \in Handler |-> Nobody]
    /\ fresh = [h \in Handler |-> Unknown]
    /\ draft = [h \in Handler |-> NoRows]
    /\ held = {} /\ faults = 0 /\ lost = {} /\ raced = {}

-----------------------------------------------------------------------------
Goto(h, label) == pc' = [pc EXCEPT ![h] = label]

\* Mutation of End: the session is not rolled back.
EndKeepingRows(h) ==
    /\ Goto(h, "idle")
    /\ req' = [req EXCEPT ![h] = NoRequest]
    /\ user' = [user EXCEPT ![h] = Nobody]
    /\ fresh' = [fresh EXCEPT ![h] = Unknown]
    /\ UNCHANGED draft

\* The request is answered, or raises: rows that are not committed are gone.
End(h) ==
    /\ Goto(h, "idle")
    /\ req' = [req EXCEPT ![h] = NoRequest]
    /\ user' = [user EXCEPT ![h] = Nobody]
    /\ fresh' = [fresh EXCEPT ![h] = Unknown]
    /\ draft' = [draft EXCEPT ![h] = NoRows]

\* The requests under way that may still draw a token, or an organization.
MayDraw(a, r) ==
    \/ a \in {"check", "org", "user", "commit", "authenticate", "delete", "issue"}
    \/ a = "get" /\ r.token # Unknown
Drawing == {h \in Handler : MayDraw(pc[h], req[h])}
Registering == {h \in Handler : pc[h] \in {"check", "org"}}

\* The bounds leave room for what all of them may draw.
Room == drawn + Cardinality(Drawing) < MaxTokens
OrgRoom == drawnOrgs + Cardinality(Registering) < MaxOrgs

Begin(h, r, label) ==
    /\ pc[h] = "idle"
    /\ Goto(h, label)
    /\ req' = [req EXCEPT ![h] = r]
    /\ UNCHANGED <<tables, tokens, user, fresh, draft, client>>

-----------------------------------------------------------------------------
(* register.                                                               *)

Register(h, s, e) ==
    /\ Room /\ OrgRoom
    /\ Begin(h, [kind |-> "register", slug |-> s, email |-> e], "check")

SlugTaken(rows, s) == \E o \in rows : o.slug = s
EmailTaken(rows, e) == \E u \in rows : u.email = e

\* The slug is looked up among the committed rows; 409 if it is there.
CheckSlug(h) ==
    /\ pc[h] = "check"
    /\ IF SlugTaken(orgs, req[h].slug) THEN End(h)
       ELSE Goto(h, "org") /\ UNCHANGED <<req, user, fresh, draft>>
    /\ UNCHANGED <<tables, tokens, client>>

\* INSERT of the organization.  The unique index makes it wait for a row of
\* another open transaction and fail on a committed one.
InsertOrg(h) ==
    LET s == req[h].slug
    IN /\ pc[h] = "org"
       /\ \A q \in Handler \ {h} : ~SlugTaken(draft[q].orgs, s)
       /\ IF SlugTaken(orgs, s)
          THEN End(h) /\ UNCHANGED drawnOrgs
          ELSE /\ drawnOrgs' = drawnOrgs + 1
               /\ draft' = [draft EXCEPT ![h].orgs = {[slug |-> s, id |-> drawnOrgs']}]
               /\ Goto(h, "user")
               /\ UNCHANGED <<req, user, fresh>>
       /\ UNCHANGED <<orgs, users, tokens, client>>

\* Mutation of InsertUser: an address that is taken is passed over.
InsertUserOrNot(h) ==
    LET e == req[h].email
    IN /\ pc[h] = "user"
       /\ \A q \in Handler \ {h} : ~EmailTaken(draft[q].users, e)
       /\ draft' = [draft EXCEPT ![h].users = {[email |-> e, org |-> o.id] :
                       o \in {p \in draft[h].orgs : ~EmailTaken(users, e)}}]
       /\ user' = [user EXCEPT ![h] = e]
       /\ Goto(h, "commit")
       /\ UNCHANGED <<tables, tokens, req, fresh, client>>

\* INSERT of its admin, after the password was hashed in a thread.
InsertUser(h) ==
    LET e == req[h].email
    IN /\ pc[h] = "user"
       /\ \A q \in Handler \ {h} : ~EmailTaken(draft[q].users, e)
       /\ IF EmailTaken(users, e)
          THEN End(h)
          ELSE /\ draft' = [draft EXCEPT ![h].users = {[email |-> e, org |-> o.id] :
                               o \in draft[h].orgs}]
               /\ user' = [user EXCEPT ![h] = e]
               /\ Goto(h, "commit")
               /\ UNCHANGED <<req, fresh>>
       /\ UNCHANGED <<tables, tokens, client>>

\* Mutation of Commit: it is left to get_db, after the tokens.
CommitLater(h) ==
    /\ pc[h] = "commit"
    /\ Goto(h, "issue")
    /\ UNCHANGED <<tables, tokens, req, user, fresh, draft, client>>

Commit(h) ==
    /\ pc[h] = "commit"
    /\ orgs' = orgs \cup draft[h].orgs
    /\ users' = users \cup draft[h].users
    /\ draft' = [draft EXCEPT ![h] = NoRows]
    /\ Goto(h, "issue")
    /\ UNCHANGED <<drawnOrgs, tokens, req, user, fresh, client>>

-----------------------------------------------------------------------------
(* login.                                                                  *)

Login(h, e) ==
    /\ Room
    /\ Begin(h, [kind |-> "login", email |-> e], "authenticate")

\* The user is looked up, and the password is right or not.
Authenticate(h) ==
    /\ pc[h] = "authenticate"
    /\ \/ End(h)
       \/ /\ EmailTaken(users, req[h].email)
          /\ user' = [user EXCEPT ![h] = req[h].email]
          /\ Goto(h, "issue")
          /\ UNCHANGED <<req, fresh, draft>>
    /\ UNCHANGED <<tables, tokens, client>>

-----------------------------------------------------------------------------
(* refresh: GET, DEL and SETEX are commands of their own.                  *)

Refresh(h, t) ==
    /\ t = Unknown \/ Room
    /\ Begin(h, [kind |-> "refresh", token |-> t], "get")

\* Mutation of GetToken: a token that is not there is not refused.
GetTokenUnchecked(h) ==
    LET t == req[h].token
    IN /\ pc[h] = "get"
       /\ user' = [user EXCEPT ![h] = IF t = Unknown THEN Nobody ELSE redis[t]]
       /\ Goto(h, "delete")
       /\ UNCHANGED <<req, fresh, draft, tables, tokens, client>>

\* Another refresh has read t and has not deleted it yet.
ReadByAnother(h, t) ==
    \E q \in Handler \ {h} : pc[q] = "delete" /\ req[q].token = t

GetToken(h) ==
    LET t == req[h].token
    IN /\ pc[h] = "get"
       /\ IF t # Unknown /\ redis[t] # Nobody
          THEN /\ user' = [user EXCEPT ![h] = redis[t]]
               /\ raced' = IF ReadByAnother(h, t) THEN raced \cup {t} ELSE raced
               /\ Goto(h, "delete")
               /\ UNCHANGED <<req, fresh, draft>>
          ELSE End(h) /\ UNCHANGED raced
       /\ UNCHANGED <<tables, tokens, held, faults, lost>>

\* Mutation of DeleteToken: the old token stays.
DeleteTokenNot(h) ==
    /\ pc[h] = "delete"
    /\ Goto(h, "issue")
    /\ UNCHANGED <<tables, tokens, req, user, fresh, draft, client>>

DeleteToken(h) ==
    /\ pc[h] = "delete"
    /\ redis' = [redis EXCEPT ![req[h].token] = Nobody]
    /\ Goto(h, "issue")
    /\ UNCHANGED <<tables, drawn, lineage, req, user, fresh, draft, client>>

Replaced(h) == IF req[h].kind = "refresh" THEN lineage[req[h].token] ELSE {}

\* Mutation of IssueToken: one token per user, the last one counts.
IssueTokenPerUser(h) ==
    /\ pc[h] = "issue"
    /\ drawn' = drawn + 1
    /\ redis' = [t \in Token |-> IF t = drawn' THEN user[h]
                                 ELSE IF redis[t] = user[h] THEN Nobody ELSE redis[t]]
    /\ lineage' = [lineage EXCEPT ![drawn'] = {drawn'} \cup Replaced(h)]
    /\ fresh' = [fresh EXCEPT ![h] = drawn']
    /\ Goto(h, IF req[h].kind = "refresh" THEN "load" ELSE "respond")
    /\ UNCHANGED <<tables, req, user, draft, client>>

\* create_refresh_token, for all three.
IssueToken(h) ==
    /\ pc[h] = "issue"
    /\ drawn' = drawn + 1
    /\ redis' = [redis EXCEPT ![drawn'] = user[h]]
    /\ lineage' = [lineage EXCEPT ![drawn'] = {drawn'} \cup Replaced(h)]
    /\ fresh' = [fresh EXCEPT ![h] = drawn']
    /\ Goto(h, IF req[h].kind = "refresh" THEN "load" ELSE "respond")
    /\ UNCHANGED <<tables, req, user, draft, client>>

\* refresh looks the user up only now; 401 if there is none.
LoadUser(h) ==
    /\ pc[h] = "load"
    /\ IF EmailTaken(users, user[h])
       THEN Goto(h, "respond") /\ UNCHANGED <<req, user, fresh, draft>>
       ELSE End(h)
    /\ UNCHANGED <<tables, tokens, client>>

Respond(h) ==
    /\ pc[h] = "respond"
    /\ held' = held \cup {fresh[h]}
    /\ End(h)
    /\ UNCHANGED <<tables, tokens, faults, lost, raced>>

-----------------------------------------------------------------------------
(* Faults.                                                                 *)

\* Rotating(h): the old token is gone and the new one is not with the client.
Rotating(h) == req[h].kind = "refresh" /\ pc[h] \in {"issue", "load", "respond"}

\* An exception, a lost connection, or the process dies.
Die(h) ==
    /\ pc[h] # "idle"
    /\ faults < MaxFaults
    /\ faults' = faults + 1
    /\ lost' = IF Rotating(h) THEN lost \cup {req[h].token} ELSE lost
    /\ End(h)
    /\ UNCHANGED <<tables, tokens, held, raced>>

\* The key's time to live runs out.
Expire(t) ==
    /\ redis[t] # Nobody
    /\ faults < MaxFaults
    /\ faults' = faults + 1
    /\ lost' = lost \cup {t}
    /\ redis' = [redis EXCEPT ![t] = Nobody]
    /\ UNCHANGED <<tables, drawn, lineage, handler, held, raced>>

-----------------------------------------------------------------------------
Step(h) ==
    \/ CheckSlug(h) \/ InsertOrg(h) \/ InsertUser(h) \/ Commit(h)
    \/ Authenticate(h) \/ GetToken(h) \/ DeleteToken(h) \/ IssueToken(h)
    \/ LoadUser(h) \/ Respond(h)

Next ==
    \/ \E h \in Handler :
          \/ \E s \in Slug, e \in Email : Register(h, s, e)
          \/ \E e \in Email : Login(h, e)
          \/ \E t \in held \cup {Unknown} : Refresh(h, t)
          \/ Step(h)
          \/ Die(h)
    \/ \E t \in Token : Expire(t)

Spec == Init /\ [][Next]_vars

\* A live handler goes on, PostgreSQL and Redis answer.
FairSpec == Spec /\ \A h \in Handler : WF_vars(Step(h))

-----------------------------------------------------------------------------
(* Properties.                                                             *)

Label == {"idle", "check", "org", "user", "commit", "authenticate", "get", "delete",
          "issue", "load", "respond"}
OrgRow == [slug : Slug, id : 1..MaxOrgs]
UserRow == [email : Email, org : 1..MaxOrgs]
Registers == [kind : {"register"}, slug : Slug, email : Email]
Logins == [kind : {"login"}, email : Email]
Refreshes == [kind : {"refresh"}, token : Token \cup {Unknown}]
Request == Registers \cup Logins \cup Refreshes \cup {NoRequest}

\* What a handler at label a knows: request r, user u, new token f.
HandlerOK(a, r, u, f) ==
    /\ a \in {"check", "org", "user", "commit"} => r \in Registers
    /\ a = "authenticate" => r \in Logins
    /\ a = "get" => r \in Refreshes
    /\ a \in {"delete", "load"} => r \in Refreshes /\ r.token # Unknown
    /\ a \in {"issue", "respond"} =>
          r \in Registers \/ r \in Logins \/ (r \in Refreshes /\ r.token # Unknown)
    /\ a \in {"commit", "delete", "issue", "load", "respond"} => u \in Email
    /\ a \in {"load", "respond"} => f \in Token

\* Type invariant: rows, tokens and what handlers know at each point.
TypeOK ==
    /\ orgs \in SUBSET OrgRow /\ users \in SUBSET UserRow /\ drawnOrgs \in 0..MaxOrgs
    /\ redis \in [Token -> Email \cup {Nobody}] /\ drawn \in 0..MaxTokens
    /\ lineage \in [Token -> SUBSET Token]
    /\ pc \in [Handler -> Label]
    /\ req \in [Handler -> Request]
    /\ user \in [Handler -> Email \cup {Nobody}]
    /\ fresh \in [Handler -> Token \cup {Unknown}]
    /\ draft \in [Handler -> [orgs : SUBSET OrgRow, users : SUBSET UserRow]]
    /\ \A h \in Handler : HandlerOK(pc[h], req[h], user[h], fresh[h])
    /\ held \in SUBSET Token /\ faults \in 0..MaxFaults
    /\ lost \in SUBSET Token /\ raced \in SUBSET Token

\* Registration is all or nothing, however requests for the same slug or the
\* same address interleave between the check, the inserts and the commit: no
\* two organizations share a slug, no two users an address, not even in two
\* organizations (models.py:40), and each organization has exactly one admin.
OrgsWhole ==
    /\ \A o, p \in orgs : o.slug = p.slug \/ o.id = p.id => o = p
    /\ \A u, w \in users : u.email = w.email \/ u.org = w.org => u = w
    /\ {o.id : o \in orgs} = {u.org : u \in users}

\* A refresh token never stands for a user who is not committed: register
\* commits before it draws one, and what refresh and login act for exists.
TokensNameUsers ==
    \A t \in Token : redis[t] # Nobody => EmailTaken(users, redis[t])

\* Of two tokens of one session neither replaces the other.
Forked(p, q) ==
    /\ lineage[p] \cap lineage[q] # {}
    /\ p \notin lineage[q] /\ q \notin lineage[p]

\* A token is honoured once: once it has a successor, it and every token before
\* it are gone (rotate_refresh_token: DEL comes before SETEX), and a session
\* has two current tokens only if two refreshes read one of its tokens before
\* either deleted it, which GET and DEL as two commands allow.
RotatedOnce ==
    /\ \A t \in Token : \A a \in lineage[t] \ {t} : redis[a] = Nobody
    /\ \A p, q \in Token :
          Forked(p, q) => lineage[p] \cap lineage[q] \cap raced # {}

\* Whoever was sent a token keeps the session: unless a fault hit it, the
\* token or one it was rotated into is valid and with the client or on its
\* way to it, or is just being drawn.
Successors(t) == {q \in Token : t \in lineage[q]}
OnItsWay(t) == \E h \in Handler : fresh[h] = t
SessionKept ==
    \A t \in held :
        \/ Successors(t) \cap lost # {}
        \/ \E q \in Successors(t) : redis[q] # Nobody /\ (q \in held \/ OnItsWay(q))
        \/ \E h \in Handler : /\ Rotating(h) /\ pc[h] = "issue"
                              /\ t \in lineage[req[h].token]

\* Every request is answered: registrations that wait for each other's slug
\* or address do so in one order, so none waits for ever.
RequestsAnswered == \A h \in Handler : (pc[h] # "idle") ~> (pc[h] = "idle")

-----------------------------------------------------------------------------
(* What the repository's documents say and the code does not do.           *)

\* "Refresh token rotation -- old token invalidated on use (prevents replay
\* attacks)": software_design_doc.md:100.
InvalidatedOnUse == \A p, q \in Token : ~Forked(p, q)
=============================================================================
