------------------------------ MODULE Listing ------------------------------
(***************************************************************************)
(* GET /assets, GET /assets/stats, POST /ai/query and POST /ai/summarize,  *)
(* read in several statements of one session at READ COMMITTED while       *)
(* requests, imports and sweeps commit.                                    *)
(*                                                                         *)
(* A client walks through a listing page by page until a page is not full. *)
(* A question in plain English is answered from the first page of the      *)
(* listing that the language model's filter selects; an asset either has a *)
(* metadata entry "expires" in the past or not.                            *)
(* A row is its status and last_seen; its type is part of its key and      *)
(* never changes.  Of the filters the status stands for all, and of the    *)
(* sort columns last_seen.                                                 *)
(***************************************************************************)
EXTENDS Integers, FiniteSets, FiniteSetsExt

CONSTANTS
    Asset,      \* ids of assets, existing or not
    Type,       \* types of assets
    TypeOf,     \* TypeOf[a]: the type of a
    PageSize,   \* page_size of the requests
    Filters,    \* values of the query parameter status, Everything for none
    Everything,
    Orders,     \* values of the query parameter order
    Expired,    \* assets whose metadata say that they expired
    MaxTime     \* bound: distinct values of last_seen

AssetStatus == {"active", "stale", "archived"}

ASSUME AssetAssumption ==
    /\ IsFiniteSet(Asset) /\ IsFiniteSet(Type)
    /\ TypeOf \in [Asset -> Type] /\ Expired \subseteq Asset
ASSUME FilterAssumption ==
    Everything \notin AssetStatus /\ Filters \subseteq AssetStatus \cup {Everything}
ASSUME OrderAssumption == Orders \subseteq {"asc", "desc"}
ASSUME BoundsAssumption == PageSize \in Nat \ {0} /\ MaxTime \in Nat

Row == [status : AssetStatus, last : 0..MaxTime]

VARIABLES
    rows,       \* committed rows, a function from the assets that exist
    clock,      \* the latest last_seen
    pc,         \* where the reader is
    asks,       \* what the request wants of the listing
    filter, order, page,    \* its parameters
    total,      \* COUNT of the listing, or total_assets
    items,      \* the page, or the results of a query
    byType, byStatus,       \* counts of the statistics, or of a summary
    seen,       \* history: assets the walk has returned
    untouched,  \* history: matching rows not written since the walk began
    fell,       \* history: a row left the listing or moved towards its end
                \* since the walk began, or two rows tied in a SELECT
    left, came  \* history: a row left, or entered, since COUNT

request == <<asks, filter, order, page, total, items, byType, byStatus>>
history == <<seen, untouched, fell, left, came>>
vars == <<rows, clock, pc, request, history>>

Init ==
    /\ rows = [a \in {} |-> 0] /\ clock = 0
    /\ pc = "idle"
    /\ asks = "page" /\ filter = Everything /\ order = "desc" /\ page = 1 /\ total = 0 /\ items = {}
    /\ byType = [t \in Type |-> 0] /\ byStatus = [s \in AssetStatus |-> 0]
    /\ seen = {} /\ untouched = {} /\ fell = FALSE /\ left = FALSE /\ came = FALSE

-----------------------------------------------------------------------------
(* What a SELECT returns.                                                  *)

Passes(row) == filter \in {Everything, row.status}

\* The WHERE clause on table f.
Matching(f) == {a \in DOMAIN f : Passes(f[a])}

\* r may come before or together with s in the ORDER BY.
NotAfter(r, s) == IF order = "desc" THEN r.last >= s.last ELSE r.last <= s.last

\* Sets of n rows of S that may come first; rows that tie come in any order.
Firsts(S, n) ==
    {F \in SUBSET S : /\ Cardinality(F) = Min({n, Cardinality(S)})
                      /\ \A a \in F, b \in S \ F : NotAfter(rows[a], rows[b])}

Tied(S) == \E a, b \in S : a # b /\ rows[a].last = rows[b].last

\* Mutation of Offset: pages counted from 0.
OffsetFromZero(p) == p * PageSize

Offset(p) == (p - 1) * PageSize

\* Mutation of Pages: the division rounds down.
PagesRoundedDown(n) == Max({1, n \div PageSize})

\* -(-total // page_size), at least 1.
Pages(n) == Max({1, -((-n) \div PageSize)})

-----------------------------------------------------------------------------
(* Writers.  What a commit does to the history of a walk:                  *)

Enters(a, row) == Passes(row) /\ a \notin Matching(rows)
Leaves(a, row) == ~Passes(row) /\ a \in Matching(rows)
Falls(a, row) == a \in Matching(rows) /\ Passes(row) /\ ~NotAfter(row, rows[a])

Walking == pc \in {"count", "select", "respond"}
Counted == pc = "select"

Write(a, row) ==
    /\ rows' = [b \in DOMAIN rows \cup {a} |-> IF b = a THEN row ELSE rows[b]]
    /\ untouched' = untouched \ {a}
    /\ fell' = (fell \/ (Walking /\ (Leaves(a, row) \/ Falls(a, row))))
    /\ left' = (left \/ (Counted /\ Leaves(a, row)))
    /\ came' = (came \/ (Counted /\ Enters(a, row)))
    /\ UNCHANGED <<pc, request, seen>>

\* upsert: a new row, or an old one with its status and last_seen.  A session
\* that waited may commit a last_seen that is no later than the newest.
Upsert(a, s, now) ==
    /\ clock' = Max({clock, now})
    /\ Write(a, [status |-> IF a \in DOMAIN rows /\ s # "active" THEN rows[a].status ELSE s,
                 last   |-> now])

\* PATCH, DELETE and stale marking set the status.
SetStatus(a, s) ==
    /\ a \in DOMAIN rows
    /\ Write(a, [rows[a] EXCEPT !.status = s])
    /\ UNCHANGED clock

-----------------------------------------------------------------------------
(* The listing.                                                            *)

Begin(wanted, f, o) ==
    /\ pc = "idle"
    /\ pc' = "count"
    /\ asks' = wanted /\ filter' = f /\ order' = o
    /\ untouched' = {a \in DOMAIN rows : f \in {Everything, rows[a].status}}
    /\ UNCHANGED <<rows, clock, page, total, items, byType, byStatus, seen, fell, left, came>>

BeginWalk(f, o) == Begin("page", f, o)

\* What the language model may make of a question.  A silent model and a filter
\* that is no AssetFilterSchema are refused; a status that PostgreSQL does not
\* know fails the first statement.
Translated == Filters

BeginQuery == \E f \in Translated : Begin("expired", f, "desc")
BeginSummary == Begin("summary", Everything, "desc")

Count ==
    /\ pc = "count"
    /\ pc' = "select"
    /\ total' = Cardinality(Matching(rows))
    /\ UNCHANGED <<rows, clock, asks, filter, order, page, items, byType, byStatus, history>>

\* Mutation of Select: LIMIT with one row to look ahead.
SelectOneMore ==
    LET S == Matching(rows)
    IN /\ pc = "select"
       /\ pc' = "respond"
       /\ \E skipped \in Firsts(S, Offset(page)) :
             items' \in Firsts(S \ skipped, PageSize + 1)
       /\ fell' = (fell \/ Tied(S))
       /\ UNCHANGED <<rows, clock, asks, filter, order, page, total, byType, byStatus,
                      seen, untouched, left, came>>

\* OFFSET and LIMIT.
Select ==
    LET S == Matching(rows)
    IN /\ pc = "select"
       /\ pc' = "respond"
       /\ \E skipped \in Firsts(S, Offset(page)) :
             items' \in Firsts(S \ skipped, PageSize)
       /\ fell' = (fell \/ Tied(S))
       /\ UNCHANGED <<rows, clock, asks, filter, order, page, total, byType, byStatus,
                      seen, untouched, left, came>>

\* The page is answered; a client asks for the next one if it was full.
Respond ==
    /\ pc = "respond" /\ asks = "page"
    /\ seen' = seen \cup items
    /\ IF Cardinality(items) = PageSize
       THEN pc' = "count" /\ page' = page + 1
       ELSE pc' = "walked" /\ UNCHANGED page
    /\ total' = 0 /\ items' = {} /\ left' = FALSE /\ came' = FALSE
    /\ UNCHANGED <<rows, clock, asks, filter, order, byType, byStatus, untouched, fell>>

\* Mutation of PastExpiry: an entry that is missing compares as the past.
PastExpiryOrNone(a) == TRUE

\* metadata["expires"], "9999-99-99" if there is none, is before today.
PastExpiry(a) == a \in Expired

CountsByType(S) == [t \in Type |-> Cardinality({a \in S : TypeOf[a] = t})]

\* The condition on metadata is applied to the page.  (A query without one is
\* answered with the page.)
AnswerQuery ==
    /\ pc = "respond" /\ asks = "expired"
    /\ pc' = "answered"
    /\ items' = {a \in items : PastExpiry(a)}
    /\ UNCHANGED <<rows, clock, asks, filter, order, page, total, byType, byStatus, history>>

\* The assets of the page are counted and given to the model.
Summarize ==
    /\ pc = "respond" /\ asks = "summary"
    /\ pc' = "answered"
    /\ byType' = CountsByType(items)
    /\ UNCHANGED <<rows, clock, asks, filter, order, page, total, items, byStatus, history>>

-----------------------------------------------------------------------------
(* The statistics.                                                         *)

BeginStats ==
    /\ pc = "idle"
    /\ pc' = "types"
    /\ total' = Cardinality(DOMAIN rows)
    /\ UNCHANGED <<rows, clock, asks, filter, order, page, items, byType, byStatus, history>>

CountTypes ==
    /\ pc = "types"
    /\ pc' = "statuses"
    /\ byType' = CountsByType(DOMAIN rows)
    /\ UNCHANGED <<rows, clock, asks, filter, order, page, total, items, byStatus, history>>

\* Mutation of CountStatuses: archived assets do not count.
CountLivingStatuses ==
    /\ pc = "statuses"
    /\ pc' = "counted"
    /\ byStatus' = [s \in AssetStatus |->
                       IF s = "archived" THEN 0
                       ELSE Cardinality({a \in DOMAIN rows : rows[a].status = s})]
    /\ UNCHANGED <<rows, clock, asks, filter, order, page, total, items, byType, history>>

CountStatuses ==
    /\ pc = "statuses"
    /\ pc' = "counted"
    /\ byStatus' = [s \in AssetStatus |-> Cardinality({a \in DOMAIN rows : rows[a].status = s})]
    /\ UNCHANGED <<rows, clock, asks, filter, order, page, total, items, byType, history>>

\* The client is done with its answer.
Finish ==
    /\ pc \in {"walked", "answered", "counted"}
    /\ pc' = "idle"
    /\ asks' = "page" /\ filter' = Everything /\ order' = "desc" /\ page' = 1 /\ total' = 0 /\ items' = {}
    /\ byType' = [t \in Type |-> 0] /\ byStatus' = [s \in AssetStatus |-> 0]
    /\ seen' = {} /\ untouched' = {} /\ fell' = FALSE /\ left' = FALSE /\ came' = FALSE
    /\ UNCHANGED <<rows, clock>>

-----------------------------------------------------------------------------
Next ==
    \/ \E a \in Asset, s \in AssetStatus, now \in {clock, clock + 1} :
          now <= MaxTime /\ Upsert(a, s, now)
    \/ \E a \in Asset, s \in AssetStatus : SetStatus(a, s)
    \/ \E f \in Filters, o \in Orders : BeginWalk(f, o)
    \/ BeginQuery \/ BeginSummary
    \/ Count \/ Select \/ Respond \/ AnswerQuery \/ Summarize
    \/ BeginStats \/ CountTypes \/ CountStatuses \/ Finish

Spec == Init /\ [][Next]_vars

-----------------------------------------------------------------------------
(* Properties.                                                             *)

\* Type invariant; a page is never longer than its size.
TypeOK ==
    /\ DOMAIN rows \subseteq Asset /\ \A a \in DOMAIN rows : rows[a] \in Row
    /\ clock \in 0..MaxTime
    /\ pc \in {"idle", "count", "select", "respond", "walked", "answered",
                "types", "statuses", "counted"}
    /\ asks \in {"page", "expired", "summary"}
    /\ filter \in AssetStatus \cup {Everything} /\ order \in {"asc", "desc"}
    /\ page \in 1..(Cardinality(Asset) + 1)
    /\ total \in 0..Cardinality(Asset)
    /\ items \in SUBSET Asset /\ Cardinality(items) <= PageSize
    /\ byType \in [Type -> 0..Cardinality(Asset)]
    /\ byStatus \in [AssetStatus -> 0..Cardinality(Asset)]
    /\ seen \in SUBSET Asset /\ untouched \in SUBSET Asset
    /\ {fell, left, came} \subseteq BOOLEAN

\* A walk over a changing listing skips a row nobody wrote only if another
\* row left the listing or moved towards its end, or rows tied: new assets and
\* upserts, which move a row to the front of the default order, cost
\* repetitions, never omissions.
SkipsOnlyAfterFall ==
    pc = "walked" => fell \/ untouched \subseteq seen

\* A page agrees with the count of the statement before it: it has the rows
\* the total and the page number promise, unless rows have entered or left
\* between the two, and the number of pages is the one that holds the total.
Promised == Max({0, Min({PageSize, total - Offset(page)})})
PageFits ==
    pc = "respond" =>
        /\ left \/ Cardinality(items) >= Promised
        /\ came \/ Cardinality(items) <= Promised
        /\ page < Pages(total) => Promised = PageSize
        /\ page > Pages(total) => Promised = 0

\* A question is answered from one page.  Unless more rows match than a page
\* holds (which the total shows, and the summary says) or a row entered after
\* COUNT, the answer is about every matching row that nobody wrote meanwhile:
\* the results have each of those that expired and nothing that has not, and
\* the counts of a summary include them all.
AnswerWhole ==
    pc = "answered" =>
        LET whole == total <= PageSize /\ ~came
        IN IF asks = "expired"
           THEN items \subseteq Expired /\ (whole => untouched \cap Expired \subseteq items)
           ELSE whole => \A t \in Type : byType[t] >= CountsByType(untouched)[t]

\* Assets are never deleted, so the three statements of the statistics count
\* ever more: no count is missing from a later one, whatever commits between.
StatsGrow ==
    pc = "counted" =>
        LET types == MapThenSumSet(LAMBDA t : byType[t], Type)
            statuses == MapThenSumSet(LAMBDA s : byStatus[s], AssetStatus)
        IN total <= types /\ types <= statuses
=============================================================================
