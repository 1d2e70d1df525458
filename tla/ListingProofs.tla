--------------------------- MODULE ListingProofs ---------------------------
(***************************************************************************)
(* Theorems of Listing.                                                    *)
(***************************************************************************)
EXTENDS Listing, FiniteSetTheorems, TLAPS

-----------------------------------------------------------------------------
(* Cardinalities and bounds.                                               *)

LEMMA LeastAndGreatest ==
    \A i, j \in Int : /\ Min({i, j}) = IF i <= j THEN i ELSE j
                      /\ Max({i, j}) = IF i >= j THEN i ELSE j
<1> SUFFICES ASSUME NEW i \in Int, NEW j \in Int
             PROVE  /\ Min({i, j}) = IF i <= j THEN i ELSE j
                    /\ Max({i, j}) = IF i >= j THEN i ELSE j
  OBVIOUS
<1>1. CASE i <= j
  <2>1. \E x \in {i, j} : \A y \in {i, j} : x =< y
    BY <1>1
  <2>2. \E x \in {i, j} : \A y \in {i, j} : x >= y
    BY <1>1
  <2> QED
    BY <1>1, <2>1, <2>2 DEF Min, Max
<1>2. CASE i > j
  <2>1. \E x \in {i, j} : \A y \in {i, j} : x =< y
    BY <1>2
  <2>2. \E x \in {i, j} : \A y \in {i, j} : x >= y
    BY <1>2
  <2> QED
    BY <1>2, <2>1, <2>2 DEF Min, Max
<1> QED
  BY <1>1, <1>2

LEMMA Bounds == PageSize \in Nat /\ PageSize >= 1 /\ MaxTime \in Nat
BY BoundsAssumption

LEMMA Sizes ==
    ASSUME NEW S \in SUBSET Asset
    PROVE  /\ IsFiniteSet(S) /\ Cardinality(S) \in Nat /\ Cardinality(S) <= Cardinality(Asset)
           /\ \A T \in SUBSET S :
                 /\ Cardinality(T) \in Nat /\ Cardinality(T) <= Cardinality(S)
                 /\ Cardinality(T) = Cardinality(S) => T = S
                 /\ Cardinality(S \ T) = Cardinality(S) - Cardinality(T)
<1>1. IsFiniteSet(S) /\ Cardinality(S) <= Cardinality(Asset)
  BY AssetAssumption, FS_Subset
<1>2. ASSUME NEW T \in SUBSET S
      PROVE  /\ Cardinality(T) \in Nat /\ Cardinality(T) <= Cardinality(S)
             /\ Cardinality(T) = Cardinality(S) => T = S
             /\ Cardinality(S \ T) = Cardinality(S) - Cardinality(T)
  <2>1. /\ IsFiniteSet(T) /\ Cardinality(T) <= Cardinality(S)
        /\ Cardinality(S) = Cardinality(T) => S = T
    BY <1>1, FS_Subset
  <2>2. S \ T \in SUBSET S
    OBVIOUS
  <2>3. IsFiniteSet(S \ T)
    BY <1>1, <2>2, FS_Subset
  <2>4. Cardinality(T) \in Nat /\ Cardinality(S \ T) \in Nat /\ Cardinality(S) \in Nat
    BY <1>1, <2>1, <2>3, FS_CardinalityType
  <2>5. Cardinality(T \cup (S \ T)) =
           Cardinality(T) + Cardinality(S \ T) - Cardinality(T \cap (S \ T))
    BY <2>1, <2>3, FS_Union
  <2>6. T \cup (S \ T) = S /\ T \cap (S \ T) = {}
    OBVIOUS
  <2>7. Cardinality({}) = 0
    BY FS_EmptySet
  <2>8. Cardinality(S) = Cardinality(T) + Cardinality(S \ T) - 0
    BY <2>5, <2>6, <2>7, Zenon
  <2>9. Cardinality(S \ T) = Cardinality(S) - Cardinality(T)
    BY <2>4, <2>8
  <2> QED
    BY <2>1, <2>4, <2>9
<1>3. Cardinality(S) \in Nat
  BY <1>1, FS_CardinalityType
<1> QED
  BY <1>1, <1>2, <1>3

\* The first n rows of S.
LEMMA FirstsAre ==
    ASSUME NEW S \in SUBSET Asset, NEW n \in Nat, NEW F \in Firsts(S, n)
    PROVE  /\ F \in SUBSET S
           /\ Cardinality(F) = IF n <= Cardinality(S) THEN n ELSE Cardinality(S)
           /\ \A a \in F, b \in S \ F : NotAfter(rows[a], rows[b])
<1>1. /\ F \in SUBSET S /\ Cardinality(F) = Min({n, Cardinality(S)})
      /\ \A a \in F, b \in S \ F : NotAfter(rows[a], rows[b])
  BY DEF Firsts
<1>2. n \in Int /\ Cardinality(S) \in Int
  BY Sizes
<1> QED
  BY <1>1, <1>2, LeastAndGreatest

\* A page skips the rows before it and takes up to PageSize of the others.
LEMMA PageTaken ==
    ASSUME NEW S \in SUBSET Asset, NEW n \in Nat, NEW skipped \in Firsts(S, n),
           NEW taken \in Firsts(S \ skipped, PageSize)
    PROVE  /\ taken \in SUBSET Asset /\ taken \in SUBSET S
           /\ Cardinality(taken) \in Nat /\ Cardinality(taken) <= PageSize
           /\ Cardinality(S) <= n => Cardinality(taken) = 0
           /\ Cardinality(S) >= n /\ Cardinality(S) - n <= PageSize
                 => Cardinality(taken) = Cardinality(S) - n
           /\ Cardinality(S) >= n + PageSize <=> Cardinality(taken) = PageSize
<1>1. /\ skipped \in SUBSET S /\ Cardinality(skipped) \in Nat
      /\ Cardinality(skipped) = IF n <= Cardinality(S) THEN n ELSE Cardinality(S)
      /\ Cardinality(S) \in Nat
      /\ Cardinality(S \ skipped) = Cardinality(S) - Cardinality(skipped)
  BY FirstsAre, Sizes
<1>2. S \ skipped \in SUBSET Asset
  OBVIOUS
<1>3. /\ taken \in SUBSET (S \ skipped)
      /\ Cardinality(taken) = IF PageSize <= Cardinality(S \ skipped) THEN PageSize
                              ELSE Cardinality(S \ skipped)
  BY <1>2, Bounds, FirstsAre
<1> QED
  BY <1>1, <1>3, Bounds

LEMMA OffsetIs ==
    \A p \in Nat : p >= 1 => /\ Offset(p) \in Nat /\ Offset(p + 1) = Offset(p) + PageSize
                             /\ p <= Offset(p) + PageSize /\ Offset(1) = 0
<1> SUFFICES ASSUME NEW p \in Nat, p >= 1
             PROVE  /\ Offset(p) \in Nat /\ Offset(p + 1) = Offset(p) + PageSize
                    /\ p <= Offset(p) + PageSize /\ Offset(1) = 0
  OBVIOUS
<1>1. \A q, n \in Nat : n >= 1 => /\ q * n \in Nat /\ q * n >= q
                                  /\ (q + 1) * n = q * n + n /\ 0 * n = 0
  OBVIOUS
<1>2. p - 1 \in Nat /\ (p + 1) - 1 = (p - 1) + 1
  OBVIOUS
<1>3. /\ (p - 1) * PageSize \in Nat /\ (p - 1) * PageSize >= p - 1
      /\ ((p - 1) + 1) * PageSize = (p - 1) * PageSize + PageSize /\ 0 * PageSize = 0
  BY <1>1, <1>2, Bounds
<1> QED
  BY <1>2, <1>3, Bounds DEF Offset

-----------------------------------------------------------------------------
(* Type correctness.                                                       *)

\* A full page ends within the assets there are, so the next page number is
\* within its bound.
TypeInv ==
    /\ TypeOK
    /\ pc = "respond" /\ Cardinality(items) = PageSize => page <= Cardinality(Asset)

\* What commits is a row of its type, and a time within the bound.
Writing == \E a \in Asset, row \in Row : Write(a, row) /\ clock' \in 0..MaxTime

LEMMA Writers ==
    ASSUME TypeOK,
           \/ \E a \in Asset, s \in AssetStatus, now \in {clock, clock + 1} :
                 now <= MaxTime /\ Upsert(a, s, now)
           \/ \E a \in Asset, s \in AssetStatus : SetStatus(a, s)
    PROVE  Writing
<1>1. ASSUME NEW a \in Asset, NEW s \in AssetStatus, NEW now \in {clock, clock + 1},
             now <= MaxTime, Upsert(a, s, now)
      PROVE  Writing
  <2>1. now \in 0..MaxTime /\ clock \in 0..MaxTime
    BY <1>1 DEF TypeOK
  <2>2. clock' \in 0..MaxTime
    <3>1. clock' = Max({clock, now}) /\ clock \in Int /\ now \in Int
      BY <1>1, <2>1 DEF Upsert
    <3> QED
      BY <2>1, <3>1, LeastAndGreatest
  <2> DEFINE status == IF a \in DOMAIN rows /\ s # "active" THEN rows[a].status ELSE s
  <2>3. status \in AssetStatus
    BY DEF TypeOK, Row
  <2>4. [status |-> status, last |-> now] \in Row
    BY <2>1, <2>3 DEF Row
  <2>5. Write(a, [status |-> status, last |-> now])
    BY <1>1 DEF Upsert
  <2> QED
    BY <2>2, <2>4, <2>5 DEF Writing
<1>2. ASSUME NEW a \in Asset, NEW s \in AssetStatus, SetStatus(a, s)
      PROVE  Writing
  <2>1. [rows[a] EXCEPT !.status = s] \in Row
    BY <1>2 DEF SetStatus, TypeOK, Row
  <2>2. Write(a, [rows[a] EXCEPT !.status = s]) /\ clock' \in 0..MaxTime
    BY <1>2 DEF SetStatus, TypeOK
  <2> QED
    BY <2>1, <2>2 DEF Writing
<1> QED
  BY <1>1, <1>2

LEMMA Counts ==
    ASSUME TypeOK
    PROVE  /\ Matching(rows) \in SUBSET Asset /\ DOMAIN rows \in SUBSET Asset
           /\ Cardinality(Matching(rows)) \in 0..Cardinality(Asset)
           /\ Cardinality(DOMAIN rows) \in 0..Cardinality(Asset)
           /\ Cardinality(Asset) \in Nat /\ Cardinality({}) = 0
           /\ \A S \in SUBSET Asset : CountsByType(S) \in [Type -> 0..Cardinality(Asset)]
<1>1. Matching(rows) \in SUBSET Asset /\ DOMAIN rows \in SUBSET Asset
  BY DEF Matching, TypeOK
<1>2. \A S \in SUBSET Asset : Cardinality(S) \in 0..Cardinality(Asset)
  BY Sizes
<1>3. Cardinality(Asset) \in Nat /\ Cardinality({}) = 0
  BY Sizes, FS_EmptySet
<1>4. \A S \in SUBSET Asset : CountsByType(S) \in [Type -> 0..Cardinality(Asset)]
  <2> SUFFICES ASSUME NEW S \in SUBSET Asset
               PROVE  CountsByType(S) \in [Type -> 0..Cardinality(Asset)]
    OBVIOUS
  <2>1. \A t : {a \in S : TypeOf[a] = t} \in SUBSET Asset
    OBVIOUS
  <2>2. \A t : Cardinality({a \in S : TypeOf[a] = t}) \in 0..Cardinality(Asset)
    BY <1>2, <2>1
  <2> QED
    BY <2>2 DEF CountsByType
<1> QED
  BY <1>1, <1>2, <1>3, <1>4

\* The values of the variables while there is no request.
AtRest ==
    /\ 1 \in 1..(Cardinality(Asset) + 1) /\ 0 \in 0..Cardinality(Asset)
    /\ {} \in SUBSET Asset /\ Cardinality({}) <= PageSize
    /\ [t \in Type |-> 0] \in [Type -> 0..Cardinality(Asset)]
    /\ [s \in AssetStatus |-> 0] \in [AssetStatus -> 0..Cardinality(Asset)]

LEMMA Rests == AtRest
<1>1. Cardinality(Asset) \in Nat /\ Cardinality({}) = 0
  BY Sizes, FS_EmptySet
<1>2. 1 \in 1..(Cardinality(Asset) + 1) /\ 0 \in 0..Cardinality(Asset)
  BY <1>1
<1> QED
  BY <1>1, <1>2, Bounds DEF AtRest

LEMMA InitType == Init => TypeInv
<1> SUFFICES ASSUME Init PROVE TypeInv
  OBVIOUS
<1>1. AtRest
  BY Rests
<1>2. DOMAIN rows = {} /\ clock \in 0..MaxTime
  BY Bounds DEF Init
<1> QED
  BY <1>1, <1>2 DEF Init, TypeInv, TypeOK, AtRest

\* Every statement of the reader.
Reading ==
    \/ \E f \in Filters, o \in Orders : BeginWalk(f, o)
    \/ BeginQuery \/ BeginSummary
    \/ Count \/ Select \/ Respond \/ AnswerQuery \/ Summarize
    \/ BeginStats \/ CountTypes \/ CountStatuses \/ Finish

Beginning ==
    \E f \in AssetStatus \cup {Everything}, o \in {"asc", "desc"},
       wanted \in {"page", "expired", "summary"} : Begin(wanted, f, o)

LEMMA Begins ==
    ASSUME \/ \E f \in Filters, o \in Orders : BeginWalk(f, o)
           \/ BeginQuery \/ BeginSummary
    PROVE  Beginning
BY FilterAssumption, OrderAssumption
  DEF Beginning, BeginWalk, BeginQuery, BeginSummary, Translated

LEMMA WriteType == TypeInv /\ Writing => TypeInv'
<1> SUFFICES ASSUME TypeInv, NEW a \in Asset, NEW row \in Row, Write(a, row),
                    clock' \in 0..MaxTime
             PROVE  TypeInv'
  BY DEF Writing
<1>1. DOMAIN rows' \subseteq Asset /\ \A b \in DOMAIN rows' : rows'[b] \in Row
  BY DEF Write, TypeInv, TypeOK
<1>2. untouched' \in SUBSET Asset /\ {fell', left', came'} \subseteq BOOLEAN
  BY DEF Write, TypeInv, TypeOK
<1>3. UNCHANGED <<pc, request, seen>>
  BY DEF Write
<1> QED
  BY <1>1, <1>2, <1>3 DEF TypeInv, TypeOK, request

LEMMA ReadType == TypeInv /\ Reading => TypeInv'
<1> SUFFICES ASSUME TypeInv, Reading PROVE TypeInv'
  OBVIOUS
<1> USE DEF TypeInv
<1>0. /\ Matching(rows) \in SUBSET Asset /\ DOMAIN rows \in SUBSET Asset
      /\ Cardinality(Matching(rows)) \in 0..Cardinality(Asset)
      /\ Cardinality(DOMAIN rows) \in 0..Cardinality(Asset)
      /\ Cardinality(Asset) \in Nat /\ Cardinality({}) = 0
      /\ \A S \in SUBSET Asset : CountsByType(S) \in [Type -> 0..Cardinality(Asset)]
  BY Counts
<1>1. CASE Beginning
  <2>1. PICK f \in AssetStatus \cup {Everything}, o \in {"asc", "desc"},
             wanted \in {"page", "expired", "summary"} : Begin(wanted, f, o)
    BY <1>1 DEF Beginning
  <2> QED
    BY <2>1 DEF Begin, TypeOK
<1>2. CASE Count
  BY <1>0, <1>2 DEF Count, history, TypeOK
<1>3. CASE Select
  <2>1. PICK skipped \in Firsts(Matching(rows), Offset(page)) :
           items' \in Firsts(Matching(rows) \ skipped, PageSize)
    BY <1>3 DEF Select
  <2>2. page \in Nat /\ page >= 1
    BY <1>0 DEF TypeOK
  <2>3. /\ Offset(page) \in Nat /\ page <= Offset(page) + PageSize
    BY <2>2, OffsetIs
  <2>4. /\ items' \in SUBSET Asset /\ Cardinality(items') <= PageSize
        /\ Cardinality(items') = PageSize => Cardinality(Matching(rows)) >= Offset(page) + PageSize
    BY <1>0, <2>1, <2>3, PageTaken
  <2>5. Cardinality(items') = PageSize => page <= Cardinality(Asset)
    BY <1>0, <2>2, <2>3, <2>4, Bounds
  <2> QED
    BY <1>3, <2>4, <2>5 DEF Select, TypeOK
<1>4. CASE Respond
  <2>1. /\ Cardinality(items') <= PageSize /\ items' = {} /\ total' \in 0..Cardinality(Asset)
        /\ total' = 0
    BY <1>0, <1>4, Bounds DEF Respond
  <2>2. page' \in 1..(Cardinality(Asset) + 1)
    BY <1>0, <1>4 DEF Respond, TypeOK
  <2> QED
    BY <1>4, <2>1, <2>2 DEF Respond, TypeOK
<1>5. CASE AnswerQuery
  <2>1. items' \in SUBSET items /\ items' \in SUBSET Asset
    BY <1>5 DEF AnswerQuery, TypeOK
  <2>2. Cardinality(items') <= PageSize
    <3>1. items \in SUBSET Asset /\ Cardinality(items) <= PageSize
      BY DEF TypeOK
    <3>2. /\ Cardinality(items) \in Nat /\ Cardinality(items') \in Nat
          /\ Cardinality(items') <= Cardinality(items)
      BY <2>1, <3>1, Sizes
    <3> QED
      BY <3>1, <3>2, Bounds
  <2> QED
    BY <1>5, <2>1, <2>2 DEF AnswerQuery, history, TypeOK
<1>6. CASE Summarize
  BY <1>0, <1>6 DEF Summarize, history, TypeOK
<1>7. CASE BeginStats
  BY <1>0, <1>7 DEF BeginStats, history, TypeOK
<1>8. CASE CountTypes
  BY <1>0, <1>8 DEF CountTypes, history, TypeOK
<1>9. CASE CountStatuses
  <2>1. \A s : {a \in DOMAIN rows : rows[a].status = s} \in SUBSET Asset
    BY <1>0
  <2>2. \A s : Cardinality({a \in DOMAIN rows : rows[a].status = s}) \in 0..Cardinality(Asset)
    BY <2>1, Sizes
  <2> QED
    BY <1>9, <2>2 DEF CountStatuses, history, TypeOK
<1>10. CASE Finish
  <2>1. AtRest
    BY Rests
  <2> QED
    BY <1>10, <2>1 DEF Finish, TypeOK, AtRest
<1> QED
  BY <1>1, <1>2, <1>3, <1>4, <1>5, <1>6, <1>7, <1>8, <1>9, <1>10, Begins DEF Reading

LEMMA NextIs == TypeOK /\ [Next]_vars => Writing \/ Reading \/ UNCHANGED vars
<1> SUFFICES ASSUME TypeOK, Next PROVE Writing \/ Reading
  OBVIOUS
<1> QED
  BY Writers DEF Next, Reading

LEMMA StepType == TypeInv /\ [Next]_vars => TypeInv'
<1> SUFFICES ASSUME TypeInv, [Next]_vars PROVE TypeInv'
  OBVIOUS
<1>1. CASE UNCHANGED vars
  BY <1>1 DEF vars, request, history, TypeInv, TypeOK
<1> QED
  BY <1>1, NextIs, WriteType, ReadType DEF TypeInv

\* The listing, the statistics and the answers keep to their types; a page
\* never has more rows than asked for, and a walk ends within its bound.
THEOREM TypeCorrect == Spec => []TypeOK
<1>1. TypeInv => TypeOK
  BY DEF TypeInv
<1> QED
  BY <1>1, InitType, StepType, PTL DEF Spec

-----------------------------------------------------------------------------
(* Walks skip nothing that nobody wrote.                                   *)

\* Rows of the listing that come before a, or tie with it.
Ahead(a) == {b \in Matching(rows) \ {a} : NotAfter(rows[b], rows[a])}

\* What the walk has not returned, and nobody has written, is still to come:
\* so many rows are ahead of it as the pages so far have passed over.
ToCome == \A a \in untouched \ seen : Cardinality(Ahead(a)) >= Offset(page)

\* It is in the page, or behind a full one.
HereOrToCome ==
    \A a \in untouched \ seen :
        \/ a \in items
        \/ /\ Cardinality(items) = PageSize
           /\ Cardinality(Ahead(a)) >= Offset(page) + PageSize

WalkInv ==
    /\ TypeOK
    /\ untouched \subseteq Matching(rows)
    /\ pc = "idle" => page = 1
    /\ pc \in {"count", "select"} => fell \/ ToCome
    /\ pc = "respond" => fell \/ HereOrToCome
    /\ pc = "walked" => fell \/ untouched \subseteq seen
    /\ pc \in {"types", "statuses", "counted"} => page = 1

LEMMA AheadSize ==
    ASSUME TypeOK
    PROVE  \A a : /\ Ahead(a) \in SUBSET Asset /\ IsFiniteSet(Ahead(a))
                  /\ Cardinality(Ahead(a)) \in Nat
<1>1. \A a : Ahead(a) \in SUBSET Asset
  BY DEF Ahead, Matching, TypeOK
<1> QED
  BY <1>1, Sizes

\* A commit that lets no row leave or fall back leaves ahead of a row what
\* was ahead of it.
LEMMA StaysAhead ==
    ASSUME TypeOK, TypeOK', NEW w \in Asset, NEW row \in Row, Write(w, row),
           ~Leaves(w, row), ~Falls(w, row),
           NEW a \in Matching(rows), a # w
    PROVE  Cardinality(Ahead(a)') >= Cardinality(Ahead(a))
<1>1. /\ DOMAIN rows' = DOMAIN rows \cup {w} /\ rows'[w] = row
      /\ \A b \in DOMAIN rows \ {w} : rows'[b] = rows[b]
      /\ filter' = filter /\ order' = order
  BY DEF Write, request
<1>2. a \in DOMAIN rows /\ rows'[a] = rows[a] /\ rows[a].last \in Int /\ row.last \in Int
  BY <1>1 DEF Matching, TypeOK, Row
<1>3. ASSUME NEW b \in Ahead(a) PROVE b \in Ahead(a)'
  <2>1. /\ b \in DOMAIN rows /\ b # a /\ Passes(rows[b]) /\ NotAfter(rows[b], rows[a])
        /\ rows[b].last \in Int
    BY <1>3 DEF Ahead, Matching, TypeOK, Row
  <2>2. CASE b = w
    <3>1. Passes(row) /\ NotAfter(row, rows[b])
      BY <2>1, <2>2 DEF Leaves, Falls, Matching
    <3>2. NotAfter(row, rows[a])
      BY <1>2, <2>1, <3>1 DEF NotAfter
    <3> QED
      BY <1>1, <1>2, <2>1, <2>2, <3>1, <3>2 DEF Ahead, Matching, Passes, NotAfter
  <2>3. CASE b # w
    BY <1>1, <1>2, <2>1, <2>3 DEF Ahead, Matching, Passes, NotAfter
  <2> QED
    BY <2>2, <2>3
<1>4. Ahead(a) \subseteq Ahead(a)'
  BY <1>3
<1>5. Ahead(a)' \in SUBSET Asset
  BY DEF Ahead, Matching, TypeOK
<1> QED
  BY <1>4, <1>5, Sizes

LEMMA WriteWalk == WalkInv /\ TypeOK' /\ Writing => WalkInv'
<1> SUFFICES ASSUME WalkInv, TypeOK', NEW w \in Asset, NEW row \in Row, Write(w, row)
             PROVE  WalkInv'
  BY DEF Writing
<1>0. TypeOK
  BY DEF WalkInv
<1>1. /\ DOMAIN rows' = DOMAIN rows \cup {w} /\ untouched' = untouched \ {w}
      /\ \A b \in DOMAIN rows \ {w} : rows'[b] = rows[b]
      /\ UNCHANGED <<pc, filter, order, page, items, seen>>
      /\ fell' = (fell \/ (Walking /\ (Leaves(w, row) \/ Falls(w, row))))
  BY DEF Write, request
<1>2. untouched' \subseteq Matching(rows)'
  BY <1>1 DEF WalkInv, Matching, Passes
<1>3. ASSUME pc \in {"count", "select", "respond"}, ~fell'
      PROVE  \A a \in untouched' :
                 /\ Cardinality(Ahead(a)') >= Cardinality(Ahead(a))
                 /\ Cardinality(Ahead(a)') \in Nat /\ Cardinality(Ahead(a)) \in Nat
  <2> SUFFICES ASSUME NEW a \in untouched'
               PROVE  /\ Cardinality(Ahead(a)') >= Cardinality(Ahead(a))
                      /\ Cardinality(Ahead(a)') \in Nat /\ Cardinality(Ahead(a)) \in Nat
    OBVIOUS
  <2>1. ~Leaves(w, row) /\ ~Falls(w, row)
    BY <1>1, <1>3 DEF Walking
  <2>2. a \in Matching(rows) /\ a # w
    BY <1>1 DEF WalkInv
  <2>3. Ahead(a) \in SUBSET Asset /\ Ahead(a)' \in SUBSET Asset
    BY <1>0 DEF Ahead, Matching, TypeOK
  <2> QED
    BY <1>0, <2>1, <2>2, <2>3, StaysAhead, Sizes
<1>4. page \in Nat /\ page >= 1 /\ Offset(page) \in Nat /\ PageSize \in Nat
  <2>1. page \in Nat /\ page >= 1
    BY <1>0, Sizes DEF TypeOK
  <2> QED
    BY <2>1, OffsetIs, Bounds
<1>5. ~fell' => ~fell
  BY <1>1
<1>6. pc' \in {"count", "select"} => fell' \/ ToCome'
  <2> SUFFICES ASSUME pc' \in {"count", "select"}, ~fell', NEW a \in (untouched \ seen)'
               PROVE  Cardinality(Ahead(a)') >= Offset(page)
    BY <1>1 DEF ToCome, Offset
  <2>1. Cardinality(Ahead(a)) >= Offset(page)
    BY <1>1, <1>5 DEF WalkInv, ToCome
  <2> QED
    BY <1>1, <1>3, <1>4, <2>1
<1>7. pc' = "respond" => fell' \/ HereOrToCome'
  <2> SUFFICES ASSUME pc' = "respond", ~fell', NEW a \in (untouched \ seen)', a \notin items
               PROVE  /\ Cardinality(items) = PageSize
                      /\ Cardinality(Ahead(a)') >= Offset(page) + PageSize
    BY <1>1 DEF HereOrToCome, Offset
  <2>1. /\ Cardinality(items) = PageSize
        /\ Cardinality(Ahead(a)) >= Offset(page) + PageSize
    BY <1>1, <1>5 DEF WalkInv, HereOrToCome
  <2> QED
    BY <1>1, <1>3, <1>4, <2>1
<1>8. /\ pc' = "walked" => fell' \/ untouched' \subseteq seen'
      /\ pc' = "idle" => page' = 1
      /\ pc' \in {"types", "statuses", "counted"} => page' = 1
  BY <1>1, <1>5 DEF WalkInv
<1> QED
  BY <1>2, <1>6, <1>7, <1>8 DEF WalkInv

\* Without ties, OFFSET skips only rows that have so many ahead of them as the
\* pages before, and LIMIT leaves out only rows behind a full page.
LEMMA SelectKeeps ==
    ASSUME WalkInv, ToCome, ~Tied(Matching(rows)),
           NEW skipped \in Firsts(Matching(rows), Offset(page)),
           NEW taken \in Firsts(Matching(rows) \ skipped, PageSize),
           NEW a \in untouched \ seen, a \notin taken
    PROVE  /\ Cardinality(taken) = PageSize
           /\ Cardinality(Ahead(a)) >= Offset(page) + PageSize
<1> DEFINE S == Matching(rows)
<1>0. TypeOK
  BY DEF WalkInv
<1>1. S \in SUBSET Asset /\ S \ skipped \in SUBSET Asset /\ a \in S
  BY <1>0, Counts DEF WalkInv
<1>2. page \in Nat /\ page >= 1 /\ Offset(page) \in Nat
  <2>1. page \in Nat /\ page >= 1
    BY <1>0, Sizes DEF TypeOK
  <2> QED
    BY <2>1, OffsetIs
<1>3. /\ skipped \in SUBSET S
      /\ Cardinality(skipped) = IF Offset(page) <= Cardinality(S) THEN Offset(page)
                                ELSE Cardinality(S)
      /\ \A x \in skipped, y \in S \ skipped : NotAfter(rows[x], rows[y])
  <2>1. S \in SUBSET Asset /\ Offset(page) \in Nat /\ skipped \in Firsts(S, Offset(page))
    BY <1>1, <1>2
  <2> HIDE DEF S
  <2> QED
    BY <2>1, FirstsAre, SMTT(30)
<1>4. /\ taken \in SUBSET (S \ skipped)
      /\ Cardinality(taken) = IF PageSize <= Cardinality(S \ skipped) THEN PageSize
                              ELSE Cardinality(S \ skipped)
      /\ \A x \in taken, y \in (S \ skipped) \ taken : NotAfter(rows[x], rows[y])
  BY <1>1, Bounds, FirstsAre
<1>5. /\ Cardinality(S) \in Nat /\ Cardinality(skipped) \in Nat /\ Cardinality(taken) \in Nat
      /\ Cardinality(S \ skipped) = Cardinality(S) - Cardinality(skipped)
      /\ Cardinality(Ahead(a)) \in Nat /\ Cardinality(Ahead(a)) >= Offset(page)
      /\ IsFiniteSet(Ahead(a)) /\ Ahead(a) \in SUBSET Asset
  <2>1. taken \in SUBSET Asset /\ skipped \in SUBSET Asset
    BY <1>1, <1>3, <1>4
  <2> QED
    BY <1>0, <1>1, <1>3, <2>1, Sizes, AheadSize DEF ToCome
<1>6. \A b \in S : b # a /\ NotAfter(rows[b], rows[a]) => b \in Ahead(a)
  BY DEF Ahead
<1>7. a \notin Ahead(a)
  BY DEF Ahead
<1>8. a \notin skipped
  <2> SUFFICES ASSUME a \in skipped PROVE FALSE
    OBVIOUS
  <2>1. ASSUME NEW b \in Ahead(a) PROVE b \in skipped
    <3>1. /\ b \in S /\ b # a /\ NotAfter(rows[b], rows[a])
          /\ rows[a].last \in Int /\ rows[b].last \in Int
      BY <1>0, <1>1 DEF Ahead, Matching, TypeOK, Row
    <3>2. rows[b].last # rows[a].last
      BY <1>1, <3>1 DEF Tied
    <3>3. ~NotAfter(rows[a], rows[b])
      BY <3>1, <3>2 DEF NotAfter
    <3> QED
      BY <1>3, <3>1, <3>3
  <2>2. Ahead(a) \cup {a} \in SUBSET skipped
    BY <2>1
  <2>3. Cardinality(Ahead(a) \cup {a}) = Cardinality(Ahead(a)) + 1
    BY <1>5, <1>7, FS_AddElement
  <2>4. Cardinality(Ahead(a) \cup {a}) <= Cardinality(skipped)
    <3>1. skipped \in SUBSET Asset
      BY <1>1, <1>3
    <3> QED
      BY <2>2, <3>1, Sizes
  <2> QED
    BY <1>2, <1>3, <1>5, <2>3, <2>4
<1>9. Cardinality(taken) = PageSize
  <2>1. Cardinality(taken) = Cardinality(S \ skipped) => taken = S \ skipped
    BY <1>1, <1>4, Sizes
  <2> QED
    BY <1>1, <1>4, <1>8, <2>1
<1>10. skipped \cup taken \in SUBSET Ahead(a)
  <2>1. \A b \in skipped : b \in Ahead(a)
    BY <1>1, <1>3, <1>6, <1>8
  <2>2. \A b \in taken : b \in Ahead(a)
    BY <1>1, <1>4, <1>6, <1>8
  <2> QED
    BY <2>1, <2>2
<1>11. Cardinality(skipped) = Offset(page)
  <2>1. skipped # S
    BY <1>1, <1>8
  <2>2. Cardinality(skipped) = Cardinality(S) => skipped = S
    BY <1>1, <1>3, Sizes
  <2> QED
    BY <1>3, <2>1, <2>2
<1>12. Cardinality(skipped \cup taken) = Cardinality(skipped) + Cardinality(taken)
  <2>1. skipped \cup taken \in SUBSET Asset /\ skipped \in SUBSET (skipped \cup taken)
    BY <1>1, <1>3, <1>4
  <2>2. Cardinality((skipped \cup taken) \ skipped) =
           Cardinality(skipped \cup taken) - Cardinality(skipped)
    BY <2>1, Sizes
  <2>3. (skipped \cup taken) \ skipped = taken
    BY <1>4
  <2>4. Cardinality(skipped \cup taken) \in Nat
    BY <2>1, Sizes
  <2>5. Cardinality(taken) = Cardinality(skipped \cup taken) - Cardinality(skipped)
    BY <2>2, <2>3, Zenon
  <2> QED
    BY <1>5, <2>4, <2>5
<1>13. Cardinality(skipped \cup taken) <= Cardinality(Ahead(a))
  BY <1>5, <1>10, Sizes
<1> QED
  BY <1>9, <1>11, <1>12, <1>13

\* What follows of the listing, where the rows and the parameters stay.
LEMMA SelectWalk == WalkInv /\ TypeOK' /\ Select => WalkInv'
<1> SUFFICES ASSUME WalkInv, TypeOK', Select PROVE WalkInv'
  OBVIOUS
<1>1. PICK skipped \in Firsts(Matching(rows), Offset(page)) :
         items' \in Firsts(Matching(rows) \ skipped, PageSize)
  BY DEF Select
<1>2. /\ UNCHANGED <<rows, filter, order, page, seen, untouched>> /\ pc = "select"
      /\ pc' = "respond" /\ fell' = (fell \/ Tied(Matching(rows)))
  BY DEF Select
<1>3. untouched' \subseteq Matching(rows)'
  BY <1>2 DEF WalkInv, Matching, Passes
<1>4. fell' \/ HereOrToCome'
  <2> SUFFICES ASSUME ~fell' PROVE HereOrToCome'
    OBVIOUS
  <2>1. ToCome /\ ~Tied(Matching(rows))
    BY <1>2 DEF WalkInv
  <2>2. \A a : Ahead(a)' = Ahead(a)
    BY <1>2 DEF Ahead, Matching, Passes, NotAfter
  <2>3. \A a \in untouched \ seen :
            a \in items' \/ /\ Cardinality(items') = PageSize
                            /\ Cardinality(Ahead(a)) >= Offset(page) + PageSize
    BY <1>1, <2>1, SelectKeeps
  <2> QED
    BY <1>2, <2>2, <2>3 DEF HereOrToCome, Offset
<1> QED
  BY <1>2, <1>3, <1>4 DEF WalkInv

LEMMA RespondWalk == WalkInv /\ TypeOK' /\ Respond => WalkInv'
<1> SUFFICES ASSUME WalkInv, TypeOK', Respond PROVE WalkInv'
  OBVIOUS
<1>1. /\ UNCHANGED <<rows, filter, order, untouched, fell>> /\ pc = "respond"
      /\ seen' = seen \cup items
  BY DEF Respond
<1>2. untouched' \subseteq Matching(rows)'
  BY <1>1 DEF WalkInv, Matching, Passes
<1>3. \A a : Ahead(a)' = Ahead(a)
  BY <1>1 DEF Ahead, Matching, Passes, NotAfter
<1>4. CASE Cardinality(items) = PageSize
  <2>1. pc' = "count" /\ page' = page + 1
    BY <1>4 DEF Respond
  <2>2. page \in Nat /\ page >= 1
    BY Sizes DEF WalkInv, TypeOK
  <2>3. Offset(page + 1) = Offset(page) + PageSize
    BY <2>2, OffsetIs
  <2>4. fell' \/ ToCome'
    BY <1>1, <1>3, <2>1, <2>3 DEF WalkInv, HereOrToCome, ToCome, Offset
  <2> QED
    BY <1>2, <2>1, <2>4 DEF WalkInv
<1>5. CASE Cardinality(items) # PageSize
  <2>1. pc' = "walked" /\ page' = page
    BY <1>5 DEF Respond
  <2>2. fell' \/ untouched' \subseteq seen'
    BY <1>1, <1>5 DEF WalkInv, HereOrToCome
  <2> QED
    BY <1>2, <2>1, <2>2 DEF WalkInv
<1> QED
  BY <1>4, <1>5

LEMMA ReadWalk == WalkInv /\ TypeOK' /\ Reading => WalkInv'
<1> SUFFICES ASSUME WalkInv, TypeOK', Reading PROVE WalkInv'
  OBVIOUS
<1>1. CASE Beginning
  <2>1. PICK f \in AssetStatus \cup {Everything}, o \in {"asc", "desc"},
             wanted \in {"page", "expired", "summary"} : Begin(wanted, f, o)
    BY <1>1 DEF Beginning
  <2>2. /\ untouched' \subseteq Matching(rows)' /\ page' = 1 /\ pc' = "count"
    BY <2>1 DEF Begin, WalkInv, Matching, Passes
  <2>3. ToCome'
    <3>1. Offset(1) = 0
      BY OffsetIs
    <3>2. \A a : Ahead(a)' \in SUBSET Asset
      BY DEF Ahead, Matching, TypeOK
    <3>3. \A a : Cardinality(Ahead(a)') \in Nat
      BY <3>2, Sizes
    <3> QED
      BY <2>2, <3>1, <3>3 DEF ToCome, Offset
  <2> QED
    BY <2>2, <2>3 DEF WalkInv
<1>2. CASE Count
  <2>1. UNCHANGED <<rows, filter, order, page, seen, untouched, fell>> /\ pc = "count" /\ pc' = "select"
    BY <1>2 DEF Count, history
  <2>2. untouched' \subseteq Matching(rows)' /\ (ToCome => ToCome')
    BY <2>1 DEF WalkInv, Matching, Passes, ToCome, Ahead, NotAfter, Offset
  <2> QED
    BY <2>1, <2>2 DEF WalkInv
<1>3. CASE AnswerQuery \/ Summarize \/ BeginStats \/ CountTypes \/ CountStatuses
  <2>1. /\ UNCHANGED <<rows, filter, page, untouched>>
        /\ pc' \in {"answered", "types", "statuses", "counted"}
        /\ pc' # "answered" => pc \in {"idle", "types", "statuses"}
    BY <1>3 DEF AnswerQuery, Summarize, BeginStats, CountTypes, CountStatuses, history
  <2>2. untouched' \subseteq Matching(rows)'
    BY <2>1 DEF WalkInv, Matching, Passes
  <2> QED
    BY <2>1, <2>2 DEF WalkInv
<1>4. CASE Finish
  BY <1>4 DEF Finish, WalkInv
<1> QED
  BY <1>1, <1>2, <1>3, <1>4, Begins, SelectWalk, RespondWalk DEF Reading

LEMMA InitWalk == Init => WalkInv
BY InitType DEF Init, TypeInv, WalkInv

LEMMA StepWalk == WalkInv /\ TypeOK' /\ [Next]_vars => WalkInv'
<1> SUFFICES ASSUME WalkInv, TypeOK', [Next]_vars PROVE WalkInv'
  OBVIOUS
<1>1. CASE UNCHANGED vars
  BY <1>1 DEF vars, request, history, WalkInv, Matching, Passes, ToCome, HereOrToCome,
              Ahead, NotAfter, Offset
<1> QED
  BY <1>1, NextIs, WriteWalk, ReadWalk DEF WalkInv

\* For any assets and any page size: a walk that ends has returned every row
\* that was there from the start and that nobody wrote, unless a row left the
\* listing or moved towards its end, or rows tied.
THEOREM NothingIsSkipped == Spec => []SkipsOnlyAfterFall
<1>1. WalkInv => SkipsOnlyAfterFall
  BY DEF WalkInv, SkipsOnlyAfterFall
<1>2. TypeInv => TypeOK
  BY DEF TypeInv
<1> QED
  BY <1>1, <1>2, InitType, StepType, InitWalk, StepWalk, PTL DEF Spec

-----------------------------------------------------------------------------
(* A page agrees with its count.                                           *)

LEMMA RoundedUp ==
    \A n, d \in Nat : d >= 1 =>
        LET q == -((-n) \div d)
        IN q \in Int /\ (q - 1) * d < n /\ n <= q * d
OBVIOUS

\* The pages before the last are full, and behind the last there is nothing.
LEMMA PagesHold ==
    ASSUME NEW n \in Nat, NEW p \in Nat, p >= 1
    PROVE  /\ p < Pages(n) => n - Offset(p) >= PageSize
           /\ p > Pages(n) => n - Offset(p) <= 0
<1> DEFINE q == -((-n) \div PageSize)
<1>1. q \in Int /\ (q - 1) * PageSize < n /\ n <= q * PageSize
  BY Bounds, RoundedUp
<1> HIDE DEF q
<1>2. Pages(n) = IF 1 >= q THEN 1 ELSE q
  <2>1. Pages(n) = Max({1, q})
    BY DEF Pages, q
  <2>2. 1 \in Int /\ q \in Int
    BY <1>1
  <2> QED
    BY <2>1, <2>2, LeastAndGreatest, Zenon
<1>3. \A i, j, d \in Int : i <= j /\ d >= 1 => i * d <= j * d
  OBVIOUS
<1>4. p * PageSize = Offset(p) + PageSize /\ Offset(p) = (p - 1) * PageSize
      /\ Offset(p) \in Nat
  BY OffsetIs, Bounds DEF Offset
<1>5. ASSUME p < Pages(n) PROVE n - Offset(p) >= PageSize
  <2>1. p <= q - 1
    BY <1>1, <1>2, <1>5
  <2>2. p * PageSize <= (q - 1) * PageSize
    BY <1>1, <1>3, <2>1, Bounds
  <2>3. (q - 1) * PageSize \in Int
    BY <1>1, Bounds
  <2> QED
    BY <1>1, <1>4, <2>2, <2>3, Bounds
<1>6. ASSUME p > Pages(n) PROVE n - Offset(p) <= 0
  <2>1. q <= p - 1
    BY <1>1, <1>2, <1>6
  <2>2. q * PageSize <= (p - 1) * PageSize
    BY <1>1, <1>3, <2>1, Bounds
  <2>3. q * PageSize \in Int
    BY <1>1, Bounds
  <2> QED
    BY <1>1, <1>4, <2>2, <2>3
<1> QED
  BY <1>5, <1>6

LEMMA PromisedIs ==
    ASSUME TypeOK
    PROVE  /\ total - Offset(page) <= 0 => Promised = 0
           /\ total - Offset(page) >= PageSize => Promised = PageSize
           /\ 0 <= total - Offset(page) /\ total - Offset(page) <= PageSize
                 => Promised = total - Offset(page)
<1>1. page \in Nat /\ page >= 1 /\ total \in Nat /\ Offset(page) \in Nat
  <2>1. page \in Nat /\ page >= 1 /\ total \in Nat
    BY Sizes DEF TypeOK
  <2> QED
    BY <2>1, OffsetIs
<1> DEFINE rest == total - Offset(page)
<1> DEFINE most == Min({PageSize, rest})
<1>2. rest \in Int /\ PageSize \in Int /\ PageSize >= 0
  BY <1>1, Bounds
<1>3. Promised = Max({0, most})
  BY Zenon DEF Promised
<1> HIDE DEF rest
<1>4. most = IF PageSize <= rest THEN PageSize ELSE rest
  BY <1>2, LeastAndGreatest, Zenon
<1>5. most \in Int
  BY <1>2, <1>4
<1> HIDE DEF most
<1>6. 0 \in Int
  OBVIOUS
<1>7. Max({0, most}) = IF 0 >= most THEN 0 ELSE most
  BY <1>5, <1>6, LeastAndGreatest, Zenon
<1>8. /\ rest <= 0 => Promised = 0
      /\ rest >= PageSize => Promised = PageSize
      /\ 0 <= rest /\ rest <= PageSize => Promised = rest
  BY <1>2, <1>3, <1>4, <1>7
<1> QED
  BY <1>8 DEF rest

\* Between COUNT and SELECT the listing has grown or shrunk only if a row has
\* entered or left.
CountInv ==
    /\ TypeOK
    /\ pc \in {"idle", "count"} => ~left /\ ~came
    /\ pc = "select" => /\ left \/ total <= Cardinality(Matching(rows))
                        /\ came \/ Cardinality(Matching(rows)) <= total
    /\ PageFits

LEMMA WriteCount == CountInv /\ TypeOK' /\ Writing => CountInv'
<1> SUFFICES ASSUME CountInv, TypeOK', NEW w \in Asset, NEW row \in Row, Write(w, row)
             PROVE  CountInv'
  BY DEF Writing
<1>1. /\ DOMAIN rows' = DOMAIN rows \cup {w} /\ rows'[w] = row
      /\ \A b \in DOMAIN rows \ {w} : rows'[b] = rows[b]
      /\ UNCHANGED <<pc, filter, page, total, items>>
      /\ left' = (left \/ (Counted /\ Leaves(w, row)))
      /\ came' = (came \/ (Counted /\ Enters(w, row)))
  BY DEF Write, request
<1>2. /\ Matching(rows) \in SUBSET Asset /\ Matching(rows)' \in SUBSET Asset
  BY DEF CountInv, TypeOK, Matching
<1>3. ASSUME pc' = "select"
      PROVE  /\ left' \/ total' <= Cardinality(Matching(rows)')
             /\ came' \/ Cardinality(Matching(rows)') <= total'
  <2>1. Counted
    BY <1>1, <1>3 DEF Counted
  <2>2. ~Leaves(w, row) => Matching(rows) \subseteq Matching(rows)'
    BY <1>1 DEF Leaves, Matching, Passes
  <2>3. ~Enters(w, row) => Matching(rows)' \subseteq Matching(rows)
    BY <1>1 DEF Enters, Matching, Passes
  <2>4. /\ Cardinality(Matching(rows)) \in Nat /\ Cardinality(Matching(rows)') \in Nat
        /\ ~Leaves(w, row) => Cardinality(Matching(rows)) <= Cardinality(Matching(rows)')
        /\ ~Enters(w, row) => Cardinality(Matching(rows)') <= Cardinality(Matching(rows))
    BY <1>2, <2>2, <2>3, Sizes
  <2>5. total \in Nat
    BY Sizes DEF CountInv, TypeOK
  <2>6. /\ ~left' => ~left /\ ~Leaves(w, row)
        /\ ~came' => ~came /\ ~Enters(w, row)
    BY <1>1, <2>1
  <2>7. /\ left \/ total <= Cardinality(Matching(rows))
        /\ came \/ Cardinality(Matching(rows)) <= total
    BY <1>1, <1>3 DEF CountInv
  <2>8. total' = total
    BY <1>1
  <2> QED
    BY <2>4, <2>5, <2>6, <2>7, <2>8
<1>4. PageFits'
  <2>1. Promised' = Promised /\ Pages(total)' = Pages(total)
    BY <1>1 DEF Promised, Pages, Offset
  <2>2. (left => left') /\ (came => came')
    BY <1>1
  <2> QED
    BY <1>1, <2>1, <2>2 DEF CountInv, PageFits
<1>5. pc' \in {"idle", "count"} => ~left' /\ ~came'
  BY <1>1 DEF CountInv, Counted
<1> QED
  BY <1>3, <1>4, <1>5 DEF CountInv

LEMMA SelectCount == CountInv /\ TypeOK' /\ Select => CountInv'
<1> SUFFICES ASSUME CountInv, TypeOK', Select PROVE CountInv'
  OBVIOUS
<1>0. TypeOK
  BY DEF CountInv
<1>1. PICK skipped \in Firsts(Matching(rows), Offset(page)) :
         items' \in Firsts(Matching(rows) \ skipped, PageSize)
  BY DEF Select
<1>2. UNCHANGED <<page, total, left, came>> /\ pc = "select" /\ pc' = "respond"
  BY DEF Select
<1>3. page \in Nat /\ page >= 1 /\ total \in Nat /\ Offset(page) \in Nat
  <2>1. page \in Nat /\ page >= 1 /\ total \in Nat
    BY <1>0, Sizes DEF TypeOK
  <2> QED
    BY <2>1, OffsetIs
<1> DEFINE n == Cardinality(Matching(rows))
<1>4. /\ Cardinality(items') \in Nat /\ n \in Nat
      /\ n <= Offset(page) => Cardinality(items') = 0
      /\ n >= Offset(page) /\ n - Offset(page) <= PageSize
            => Cardinality(items') = n - Offset(page)
      /\ n >= Offset(page) + PageSize <=> Cardinality(items') = PageSize
  <2>1. Matching(rows) \in SUBSET Asset
    BY <1>0, Counts
  <2>2. n \in Nat
    BY <2>1, Sizes
  <2> QED
    BY <1>1, <1>3, <2>1, <2>2, PageTaken
<1>5. /\ left \/ total <= n
      /\ came \/ n <= total
  BY <1>2 DEF CountInv
<1> HIDE DEF n
<1>6. /\ left \/ Cardinality(items') >= Promised
      /\ came \/ Cardinality(items') <= Promised
  BY <1>0, <1>3, <1>4, <1>5, PromisedIs, Bounds
<1>7. /\ page < Pages(total) => Promised = PageSize
      /\ page > Pages(total) => Promised = 0
  BY <1>0, <1>3, PagesHold, PromisedIs
<1>8. Promised' = Promised /\ Pages(total)' = Pages(total)
  BY <1>2 DEF Promised, Pages, Offset
<1> QED
  BY <1>2, <1>6, <1>7, <1>8 DEF CountInv, PageFits

LEMMA ReadCount == CountInv /\ TypeOK' /\ Reading => CountInv'
<1> SUFFICES ASSUME CountInv, TypeOK', Reading PROVE CountInv'
  OBVIOUS
<1>1. CASE Beginning
  BY <1>1 DEF Beginning, Begin, CountInv, PageFits
<1>2. CASE Count
  <2>1. /\ UNCHANGED <<rows, filter>> /\ total' = Cardinality(Matching(rows)) /\ pc' = "select"
    BY <1>2 DEF Count
  <2>2. Matching(rows)' = Matching(rows)
    BY <2>1 DEF Matching, Passes
  <2>3. Cardinality(Matching(rows)) \in Nat
    BY Counts DEF CountInv
  <2> QED
    BY <2>1, <2>2, <2>3 DEF CountInv, PageFits
<1>3. CASE Respond
  BY <1>3 DEF Respond, CountInv, PageFits
<1>4. CASE AnswerQuery \/ Summarize \/ BeginStats \/ CountTypes \/ CountStatuses
  BY <1>4 DEF AnswerQuery, Summarize, BeginStats, CountTypes, CountStatuses, CountInv, PageFits
<1>5. CASE Finish
  BY <1>5 DEF Finish, CountInv, PageFits
<1> QED
  BY <1>1, <1>2, <1>3, <1>4, <1>5, Begins, SelectCount DEF Reading

LEMMA InitCount == Init => CountInv
BY InitType DEF Init, TypeInv, CountInv, PageFits

LEMMA StepCount == CountInv /\ TypeOK' /\ [Next]_vars => CountInv'
<1> SUFFICES ASSUME CountInv, TypeOK', [Next]_vars PROVE CountInv'
  OBVIOUS
<1>1. CASE UNCHANGED vars
  BY <1>1 DEF vars, request, history, CountInv, Matching, Passes, PageFits, Promised, Pages,
              Offset
<1> QED
  BY <1>1, NextIs, WriteCount, ReadCount DEF CountInv

\* For any assets and any page size: a page has the rows that its total and its
\* number promise, and the number of pages is the one that holds the total,
\* unless a row entered or left between COUNT and SELECT.
THEOREM PagesFit == Spec => []PageFits
<1>1. CountInv => PageFits
  BY DEF CountInv
<1>2. TypeInv => TypeOK
  BY DEF TypeInv
<1> QED
  BY <1>1, <1>2, InitType, StepType, InitCount, StepCount, PTL DEF Spec

-----------------------------------------------------------------------------
(* Answers from one page.                                                  *)

\* Only a walk asks for more than the first page, which has every row unless
\* the total says that more match.
AnswerInv ==
    /\ asks # "page" => page = 1
    /\ pc = "answered" => asks # "page"
    /\ pc = "respond" /\ asks # "page" /\ total <= PageSize /\ ~came => untouched \subseteq items
    /\ AnswerWhole

\* Fewer rows, fewer of each type.
LEMMA FewerByType ==
    ASSUME NEW S \in SUBSET Asset, NEW T \in SUBSET S, NEW t \in Type
    PROVE  /\ CountsByType(T)[t] \in Nat /\ CountsByType(S)[t] \in Nat
           /\ CountsByType(T)[t] <= CountsByType(S)[t]
<1>1. /\ {a \in S : TypeOf[a] = t} \in SUBSET Asset
      /\ {a \in T : TypeOf[a] = t} \in SUBSET {a \in S : TypeOf[a] = t}
  OBVIOUS
<1> QED
  BY <1>1, Sizes DEF CountsByType

LEMMA WriteAnswer == AnswerInv /\ TypeOK /\ Writing => AnswerInv'
<1> SUFFICES ASSUME AnswerInv, TypeOK, NEW w \in Asset, NEW row \in Row, Write(w, row)
             PROVE  AnswerInv'
  BY DEF Writing
<1>1. /\ untouched' \in SUBSET untouched /\ (came => came')
      /\ UNCHANGED <<pc, asks, page, total, items, byType>>
  BY DEF Write, request
<1>2. AnswerWhole'
  <2> SUFFICES ASSUME pc = "answered"
               PROVE  AnswerWhole'
    BY <1>1 DEF AnswerWhole
  <2>1. CASE asks = "expired"
    BY <1>1, <2>1 DEF AnswerInv, AnswerWhole
  <2>2. CASE asks # "expired"
    <3>1. ASSUME total <= PageSize, ~came', NEW t \in Type
          PROVE  byType[t] >= CountsByType(untouched')[t]
      <4>1. byType[t] >= CountsByType(untouched)[t] /\ byType[t] \in Nat
        BY <1>1, <2>2, <3>1, Sizes DEF AnswerInv, AnswerWhole, TypeOK
      <4>2. untouched \in SUBSET Asset
        BY DEF TypeOK
      <4>3. /\ CountsByType(untouched')[t] \in Nat /\ CountsByType(untouched)[t] \in Nat
            /\ CountsByType(untouched')[t] <= CountsByType(untouched)[t]
        BY <1>1, <4>2, FewerByType
      <4> QED
        BY <4>1, <4>3
    <3>2. \A t : CountsByType(untouched)'[t] = CountsByType(untouched')[t]
      BY DEF CountsByType
    <3> QED
      BY <1>1, <2>2, <3>1, <3>2 DEF AnswerWhole
  <2> QED
    BY <2>1, <2>2
<1> QED
  BY <1>1, <1>2 DEF AnswerInv

LEMMA SelectAnswer == AnswerInv /\ CountInv /\ WalkInv /\ Select => AnswerInv'
<1> SUFFICES ASSUME AnswerInv, CountInv, WalkInv, Select PROVE AnswerInv'
  OBVIOUS
<1>1. PICK skipped \in Firsts(Matching(rows), Offset(page)) :
         items' \in Firsts(Matching(rows) \ skipped, PageSize)
  BY DEF Select
<1>2. UNCHANGED <<asks, page, total, untouched, came>> /\ pc = "select" /\ pc' = "respond"
  BY DEF Select
<1>3. ASSUME asks # "page", total <= PageSize, ~came PROVE untouched \subseteq items'
  <2>1. page = 1 /\ Offset(page) = 0
    BY <1>3, OffsetIs DEF AnswerInv
  <2>2. /\ Matching(rows) \in SUBSET Asset /\ Cardinality(Matching(rows)) \in Nat
        /\ Cardinality(Matching(rows)) <= total
    BY <1>2, <1>3, Counts, Sizes DEF CountInv
  <2>3. total \in Nat
    BY Sizes DEF CountInv, TypeOK
  <2>4. \A z : z = 0 /\ skipped \in Firsts(Matching(rows), z) =>
            /\ items' \in SUBSET Matching(rows)
            /\ Cardinality(items') = Cardinality(Matching(rows)) - z
    <3> SUFFICES ASSUME NEW z, z = 0, skipped \in Firsts(Matching(rows), z)
                 PROVE  /\ items' \in SUBSET Matching(rows)
                        /\ Cardinality(items') = Cardinality(Matching(rows)) - z
      OBVIOUS
    <3>1. z \in Nat /\ Cardinality(Matching(rows)) >= z
          /\ Cardinality(Matching(rows)) - z <= PageSize
      BY <1>3, <2>2, <2>3, Bounds
    <3> QED
      BY <1>1, <2>2, <3>1, PageTaken
  <2>5. items' \in SUBSET Matching(rows) /\ Cardinality(items') = Cardinality(Matching(rows))
    BY <1>1, <2>1, <2>2, <2>4
  <2>6. items' = Matching(rows)
    BY <2>2, <2>5, Sizes
  <2> QED
    BY <2>6 DEF WalkInv
<1> QED
  BY <1>2, <1>3 DEF AnswerInv, AnswerWhole

LEMMA SummarizeAnswer == AnswerInv /\ TypeOK /\ Summarize => AnswerInv'
<1> SUFFICES ASSUME AnswerInv, TypeOK, Summarize PROVE AnswerInv'
  OBVIOUS
<1>1. /\ UNCHANGED <<asks, page, total, untouched, came>> /\ pc = "respond" /\ asks = "summary"
      /\ pc' = "answered" /\ byType' = CountsByType(items)
  BY DEF Summarize, history
<1>2. ASSUME total <= PageSize, ~came, NEW t \in Type
      PROVE  byType'[t] >= CountsByType(untouched)[t]
  <2>1. items \in SUBSET Asset /\ untouched \in SUBSET items
    BY <1>1, <1>2 DEF AnswerInv, TypeOK
  <2>2. /\ CountsByType(items)[t] \in Nat /\ CountsByType(untouched)[t] \in Nat
        /\ CountsByType(untouched)[t] <= CountsByType(items)[t]
    BY <2>1, FewerByType
  <2> QED
    BY <1>1, <2>2
<1>3. \A t : CountsByType(untouched)'[t] = CountsByType(untouched)[t]
  BY <1>1 DEF CountsByType
<1>4. AnswerWhole'
  BY <1>1, <1>2, <1>3 DEF AnswerWhole
<1> QED
  BY <1>1, <1>4 DEF AnswerInv

LEMMA ReadAnswer == AnswerInv /\ CountInv /\ WalkInv /\ Reading => AnswerInv'
<1> SUFFICES ASSUME AnswerInv, CountInv, WalkInv, Reading PROVE AnswerInv'
  OBVIOUS
<1>0. TypeOK
  BY DEF WalkInv
<1>1. CASE Beginning
  BY <1>1 DEF Beginning, Begin, AnswerInv, AnswerWhole, WalkInv
<1>2. CASE Count \/ BeginStats \/ CountTypes \/ CountStatuses
  BY <1>2 DEF Count, BeginStats, CountTypes, CountStatuses, AnswerInv, AnswerWhole
<1>3. CASE Respond
  BY <1>3 DEF Respond, AnswerInv, AnswerWhole
<1>4. CASE AnswerQuery
  <2>1. /\ UNCHANGED <<asks, page, total, untouched, came>> /\ pc = "respond" /\ asks = "expired"
        /\ pc' = "answered" /\ items' = items \cap Expired
    BY <1>4 DEF AnswerQuery, PastExpiry, history
  <2> QED
    BY <2>1 DEF AnswerInv, AnswerWhole
<1>5. CASE Finish
  BY <1>5 DEF Finish, AnswerInv, AnswerWhole
<1> QED
  BY <1>0, <1>1, <1>2, <1>3, <1>4, <1>5, Begins, SelectAnswer, SummarizeAnswer DEF Reading

LEMMA InitAnswer == Init => AnswerInv
BY DEF Init, AnswerInv, AnswerWhole

LEMMA StepAnswer == AnswerInv /\ CountInv /\ WalkInv /\ [Next]_vars => AnswerInv'
<1> SUFFICES ASSUME AnswerInv, CountInv, WalkInv, [Next]_vars PROVE AnswerInv'
  OBVIOUS
<1>1. CASE UNCHANGED vars
  BY <1>1 DEF vars, request, history, AnswerInv, AnswerWhole, CountsByType
<1> QED
  BY <1>1, NextIs, WriteAnswer, ReadAnswer DEF WalkInv

\* For any assets and any page size: an answer is about every matching row that
\* nobody wrote meanwhile, unless more match than a page holds, which the total
\* shows, or a row entered after COUNT.
THEOREM AnswersAreWhole == Spec => []AnswerWhole
<1>1. AnswerInv => AnswerWhole
  BY DEF AnswerInv
<1>2. TypeInv => TypeOK
  BY DEF TypeInv
<1> QED
  BY <1>1, <1>2, InitType, StepType, InitWalk, StepWalk, InitCount, StepCount,
     InitAnswer, StepAnswer, PTL DEF Spec

-----------------------------------------------------------------------------
(* The statistics: sums of counts.                                         *)

\* What StatsGrow adds up.
SumOf(f, T) == MapThenSumSet(LAMBDA t : f[t], T)

\* The equation that defines the sum, on the subsets of T.
SumUp(f, T, iter) ==
    iter = [s \in SUBSET T |->
               IF s = {} THEN 0
               ELSE f[CHOOSE x \in s : TRUE] + iter[s \ {CHOOSE x \in s : TRUE}]]

\* Members of D whose value is in s.
Having(D, c, s) == {a \in D : c[a] \in s}

LEMMA HavingOneMore ==
    ASSUME NEW D, IsFiniteSet(D), NEW c, NEW s, NEW x \in s
    PROVE  /\ Cardinality(Having(D, c, s)) \in Nat
           /\ Cardinality(Having(D, c, s)) =
                 Cardinality({a \in D : c[a] = x}) + Cardinality(Having(D, c, s \ {x}))
<1> DEFINE U == {a \in D : c[a] = x}
           V == Having(D, c, s \ {x})
<1>1. U \in SUBSET D /\ V \in SUBSET D /\ Having(D, c, s) = U \cup V /\ U \cap V = {}
  BY DEF Having
<1> HIDE DEF U, V
<1>2. IsFiniteSet(U) /\ IsFiniteSet(V)
  BY <1>1, FS_Subset
<1>3. Cardinality(U) \in Nat /\ Cardinality(V) \in Nat
  BY <1>2, FS_CardinalityType
<1>4. Cardinality(U \cup V) = Cardinality(U) + Cardinality(V) - Cardinality(U \cap V)
  BY <1>2, FS_Union
<1>5. Cardinality({}) = 0
  BY FS_EmptySet
<1>6. Cardinality(Having(D, c, s)) = Cardinality(U) + Cardinality(V) - 0
  BY <1>1, <1>4, <1>5, Zenon
<1>7. Cardinality(Having(D, c, s)) \in Nat /\ Cardinality(Having(D, c, s)) = Cardinality(U) + Cardinality(V)
  BY <1>3, <1>6
<1> QED
  BY <1>7 DEF U, V

\* The counts per value of a finite set add up to its size: the equation has
\* a solution, the sizes, and two solutions would differ on a smallest set.
LEMMA SumIs ==
    ASSUME NEW D, IsFiniteSet(D), NEW T, IsFiniteSet(T), NEW c, \A a \in D : c[a] \in T,
           NEW f, f = [t \in T |-> Cardinality({a \in D : c[a] = t})]
    PROVE  SumOf(f, T) = Cardinality(D)
<1> DEFINE size == [s \in SUBSET T |-> Cardinality(Having(D, c, s))]
           pick(s) == CHOOSE x \in s : TRUE
           R == StrictSubsetOrdering(T)
<1>1. \A s \in SUBSET T : s # {} => /\ pick(s) \in s /\ s \ {pick(s)} \in SUBSET T
                                    /\ size[s] = f[pick(s)] + size[s \ {pick(s)}]
  <2> SUFFICES ASSUME NEW s \in SUBSET T, s # {}
               PROVE  /\ pick(s) \in s /\ s \ {pick(s)} \in SUBSET T
                      /\ size[s] = f[pick(s)] + size[s \ {pick(s)}]
    OBVIOUS
  <2>1. pick(s) \in s
    BY Zenon
  <2>2. PICK x : x = pick(s)
    OBVIOUS
  <2>3. x \in s /\ x \in T /\ s \ {x} \in SUBSET T
    BY <2>1, <2>2
  <2>4. f[x] = Cardinality({a \in D : c[a] = x})
    BY <2>3
  <2>5. size[s] = f[x] + size[s \ {x}]
    BY <2>3, <2>4, HavingOneMore
  <2> QED
    BY <2>2, <2>3, <2>5, Zenon
<1>2. size[{}] = 0
  <2>1. Having(D, c, {}) = {}
    BY DEF Having
  <2> QED
    BY <2>1, FS_EmptySet
<1>3. SumUp(f, T, size)
  <2>1. \A s \in SUBSET T : size[s] = IF s = {} THEN 0 ELSE f[pick(s)] + size[s \ {pick(s)}]
    <3> HIDE DEF size, pick
    <3> QED
      BY <1>1, <1>2, Zenon
  <2>2. size = [s \in SUBSET T |-> size[s]]
    BY Zenon
  <2>3. [s \in SUBSET T |-> size[s]] =
          [s \in SUBSET T |-> IF s = {} THEN 0 ELSE f[pick(s)] + size[s \ {pick(s)}]]
    <3> HIDE DEF size, pick
    <3> QED
      BY <2>1, Zenon
  <2> HIDE DEF size
  <2> QED
    BY <2>2, <2>3, Zenon DEF SumUp
<1>4. PICK iter : SumUp(f, T, iter) /\ SumOf(f, T) = iter[T]
  <2>1. SumUp(f, T, CHOOSE i : SumUp(f, T, i))
    <3> HIDE DEF size
    <3> QED
      BY <1>3, Zenon
  <2>2. SumOf(f, T) = (CHOOSE i : SumUp(f, T, i))[T]
    BY Zenon DEF SumOf, MapThenSumSet, MapThenFoldSet, SumUp
  <2> QED
    BY <2>1, <2>2, Zenon
<1>5. \A s \in SUBSET T : iter[s] = IF s = {} THEN 0 ELSE f[pick(s)] + iter[s \ {pick(s)}]
  <2>1. iter = [s \in SUBSET T |-> IF s = {} THEN 0 ELSE f[pick(s)] + iter[s \ {pick(s)}]]
    BY <1>4, Zenon DEF SumUp
  <2> HIDE DEF pick
  <2>2. \A s \in SUBSET T :
           [u \in SUBSET T |-> IF u = {} THEN 0 ELSE f[pick(u)] + iter[u \ {pick(u)}]][s]
              = IF s = {} THEN 0 ELSE f[pick(s)] + iter[s \ {pick(s)}]
    BY Zenon
  <2> QED
    BY <2>1, <2>2, Zenon
<1>6. \A s \in SUBSET T : iter[s] = size[s]
  <2> DEFINE B == {s \in SUBSET T : iter[s] # size[s]}
  <2> SUFFICES ASSUME B # {} PROVE FALSE
    BY Zenon
  <2>1. IsWellFoundedOn(R, SUBSET T)
    BY FS_StrictSubsetOrderingWellFounded, FS_FiniteSubsetsOfFinite, Zenon
  <2>2. PICK s \in B : \A u \in B : <<u, s>> \notin R
    <3>1. B \subseteq SUBSET T
      OBVIOUS
    <3> HIDE DEF B, R
    <3> QED
      BY <2>1, <3>1, WFMin
  <2>3. s \in SUBSET T /\ iter[s] # size[s]
    BY Zenon
  <2>4. s # {}
    <3> HIDE DEF size, pick, R
    <3> QED
      BY <1>2, <1>5, <2>3, Zenon
  <2>5. pick(s) \in s /\ s \ {pick(s)} \in SUBSET T
    <3> HIDE DEF size, pick, R
    <3> QED
      BY <1>1, <2>3, <2>4, Zenon
  <2>6. <<s \ {pick(s)}, s>> \in R
    <3> HIDE DEF pick
    <3> QED
      BY <2>3, <2>5 DEF StrictSubsetOrdering
  <2>7. iter[s \ {pick(s)}] = size[s \ {pick(s)}]
    <3> HIDE DEF size, pick, R
    <3> QED
      BY <2>2, <2>5, <2>6, Zenon
  <2>8. size[s] = f[pick(s)] + size[s \ {pick(s)}] /\ iter[s] = f[pick(s)] + iter[s \ {pick(s)}]
    <3> HIDE DEF size, pick, R
    <3> QED
      BY <1>1, <1>5, <2>3, <2>4, Zenon
  <2> QED
    <3> HIDE DEF size, pick, R, B
    <3> QED
      BY <2>3, <2>7, <2>8, Zenon
<1>7. size[T] = Cardinality(D)
  <2>1. Having(D, c, T) = D
    BY DEF Having
  <2> QED
    BY <2>1
<1> QED
  <2> HIDE DEF size
  <2> QED
    BY <1>4, <1>6, <1>7, Zenon

\* Each statement of the statistics counts what the one before it counted, and
\* what came since.
StatsInv ==
    /\ pc = "types" => total <= Cardinality(DOMAIN rows)
    /\ pc = "statuses" =>
          \E D \in SUBSET DOMAIN rows : total <= Cardinality(D) /\ byType = CountsByType(D)
    /\ pc = "counted" =>
          \E E \in SUBSET Asset, D \in SUBSET Asset :
             /\ D \subseteq E
             /\ total <= Cardinality(D) /\ byType = CountsByType(D)
             /\ \E st \in [E -> AssetStatus] :
                   byStatus = [s \in AssetStatus |-> Cardinality({a \in E : st[a] = s})]

LEMMA StatusesFinite == IsFiniteSet(AssetStatus)
<1>1. /\ IsFiniteSet({"active"}) /\ IsFiniteSet({"stale"}) /\ IsFiniteSet({"archived"})
  BY FS_Singleton
<1>2. IsFiniteSet({"active"} \cup {"stale"})
  BY <1>1, FS_Union
<1>3. IsFiniteSet(({"active"} \cup {"stale"}) \cup {"archived"})
  BY <1>1, <1>2, FS_Union
<1>4. ({"active"} \cup {"stale"}) \cup {"archived"} = AssetStatus
  BY DEF AssetStatus
<1> QED
  BY <1>3, <1>4, Zenon

\* The sums of the invariant.
LEMMA StatsSum == TypeOK /\ StatsInv => StatsGrow
<1> SUFFICES ASSUME TypeOK, StatsInv, pc = "counted"
             PROVE  SumOf(byType, Type) >= total /\ SumOf(byType, Type) <= SumOf(byStatus, AssetStatus)
  BY DEF StatsGrow, SumOf
<1>0. PICK E \in SUBSET Asset, D \in SUBSET Asset :
         /\ D \subseteq E
         /\ total <= Cardinality(D) /\ byType = CountsByType(D)
         /\ \E st \in [E -> AssetStatus] :
               byStatus = [s \in AssetStatus |-> Cardinality({a \in E : st[a] = s})]
  BY DEF StatsInv
<1>1. PICK st \in [E -> AssetStatus] :
         byStatus = [s \in AssetStatus |-> Cardinality({a \in E : st[a] = s})]
  BY <1>0
<1>2. IsFiniteSet(D) /\ IsFiniteSet(E) /\ Cardinality(D) \in Nat /\ Cardinality(E) \in Nat
      /\ Cardinality(D) <= Cardinality(E)
  BY <1>0, Sizes
<1>3. byType = [t \in Type |-> Cardinality({a \in D : TypeOf[a] = t})]
  BY <1>0 DEF CountsByType
<1>4. \A a \in D : TypeOf[a] \in Type
  BY AssetAssumption
<1>5. SumOf(byType, Type) = Cardinality(D)
  <2>1. IsFiniteSet(D) /\ IsFiniteSet(Type)
    BY <1>2, AssetAssumption, Zenon
  <2> QED
    BY <2>1, <1>3, <1>4, SumIs, ZenonT(30)
<1>6. \A a \in E : st[a] \in AssetStatus
  OBVIOUS
<1>7. SumOf(byStatus, AssetStatus) = Cardinality(E)
  <2>1. IsFiniteSet(E)
    BY <1>2
  <2> QED
    BY <1>1, <1>6, <2>1, StatusesFinite, SumIs, ZenonT(30)
<1>8. total \in Nat
  BY Sizes DEF TypeOK
<1> QED
  BY <1>0, <1>2, <1>5, <1>7, <1>8

LEMMA InitStats == Init => StatsInv
BY DEF Init, StatsInv

LEMMA WriteStats == StatsInv /\ TypeOK /\ TypeOK' /\ Writing => StatsInv'
<1> SUFFICES ASSUME StatsInv, TypeOK, TypeOK', NEW a \in Asset, NEW row \in Row, Write(a, row)
             PROVE  StatsInv'
  BY DEF Writing
<1>1. DOMAIN rows \subseteq DOMAIN rows' /\ UNCHANGED <<pc, total, byType, byStatus>>
  BY DEF Write, request
<1>2. Cardinality(DOMAIN rows) <= Cardinality(DOMAIN rows')
      /\ Cardinality(DOMAIN rows) \in Nat /\ Cardinality(DOMAIN rows') \in Nat /\ total \in Nat
  <2>1. DOMAIN rows' \in SUBSET Asset /\ DOMAIN rows \in SUBSET (DOMAIN rows')
    BY <1>1 DEF TypeOK
  <2>2. total \in 0..Cardinality(Asset)
    BY DEF TypeOK
  <2>3. Asset \in SUBSET Asset
    OBVIOUS
  <2>4. total \in Nat
    BY <2>2, <2>3, Sizes
  <2>5. PICK S : S = DOMAIN rows'
    OBVIOUS
  <2>6. S \in SUBSET Asset /\ DOMAIN rows \in SUBSET S
    BY <2>1, <2>5, Zenon
  <2>7. Cardinality(DOMAIN rows) <= Cardinality(S) /\ Cardinality(S) \in Nat
        /\ Cardinality(DOMAIN rows) \in Nat
    BY <2>6, Sizes
  <2> QED
    BY <2>4, <2>5, <2>7, Zenon
<1>3. CASE pc = "types"
  BY <1>1, <1>2, <1>3 DEF StatsInv
<1>4. CASE pc = "statuses"
  BY <1>1, <1>4 DEF StatsInv, CountsByType
<1>5. CASE pc = "counted"
  BY <1>1, <1>5 DEF StatsInv, CountsByType
<1>6. CASE pc \notin {"types", "statuses", "counted"}
  BY <1>1, <1>6 DEF StatsInv
<1> QED
  BY <1>3, <1>4, <1>5, <1>6

LEMMA ReadStats == StatsInv /\ TypeOK /\ Reading => StatsInv'
<1> SUFFICES ASSUME StatsInv, TypeOK, Reading PROVE StatsInv'
  OBVIOUS
<1>1. ASSUME NEW wanted, NEW f, NEW o, Begin(wanted, f, o) PROVE StatsInv'
  BY <1>1 DEF Begin, StatsInv
<1>2. CASE Count \/ Select \/ Respond \/ AnswerQuery \/ Summarize \/ Finish
  <2>1. pc' \notin {"types", "statuses", "counted"}
    BY <1>2 DEF Count, Select, Respond, AnswerQuery, Summarize, Finish
  <2> QED
    BY <2>1 DEF StatsInv
<1>3. CASE BeginStats
  <2>1. pc' = "types" /\ total' = Cardinality(DOMAIN rows) /\ rows' = rows
    BY <1>3 DEF BeginStats
  <2>2. Cardinality(DOMAIN rows) \in Nat
    BY Sizes DEF TypeOK
  <2> QED
    BY <2>1, <2>2 DEF StatsInv
<1>4. CASE CountTypes
  <2>1. /\ pc = "types" /\ pc' = "statuses" /\ byType' = CountsByType(DOMAIN rows)
        /\ UNCHANGED <<rows, total>>
    BY <1>4 DEF CountTypes
  <2>2. total <= Cardinality(DOMAIN rows)
    BY <2>1 DEF StatsInv
  <2>3. \E D \in SUBSET DOMAIN rows' : total' <= Cardinality(D) /\ byType' = CountsByType(D)
    BY <2>1, <2>2
  <2> QED
    BY <2>1, <2>3 DEF StatsInv, CountsByType
<1>5. CASE CountStatuses
  <2>1. /\ pc = "statuses" /\ pc' = "counted" /\ UNCHANGED <<rows, total, byType>>
        /\ byStatus' = [s \in AssetStatus |-> Cardinality({a \in DOMAIN rows : rows[a].status = s})]
    BY <1>5 DEF CountStatuses
  <2>2. PICK D \in SUBSET DOMAIN rows : total <= Cardinality(D) /\ byType = CountsByType(D)
    BY <2>1 DEF StatsInv
  <2>3. PICK E : E = DOMAIN rows
    OBVIOUS
  <2>4. PICK st : st = [a \in E |-> rows[a].status]
    OBVIOUS
  <2>5. E \in SUBSET Asset /\ D \in SUBSET Asset /\ D \subseteq E /\ st \in [E -> AssetStatus]
    BY <2>2, <2>3, <2>4 DEF TypeOK, Row
  <2>6. \A s \in AssetStatus : {a \in DOMAIN rows : rows[a].status = s} = {a \in E : st[a] = s}
    BY <2>3, <2>4
  <2>7. byStatus' = [s \in AssetStatus |-> Cardinality({a \in E : st[a] = s})]
    BY <2>1, <2>6
  <2>8. byType' = CountsByType(D) /\ total' <= Cardinality(D)
    BY <2>1, <2>2
  <2>9. \E G \in SUBSET Asset, H \in SUBSET Asset :
            /\ H \subseteq G
            /\ total' <= Cardinality(H) /\ byType' = CountsByType(H)
            /\ \E o \in [G -> AssetStatus] :
                  byStatus' = [s \in AssetStatus |-> Cardinality({a \in G : o[a] = s})]
    BY <2>5, <2>7, <2>8, Zenon
  <2> QED
    BY <2>1, <2>9 DEF StatsInv, CountsByType
<1> QED
  BY <1>1, <1>2, <1>3, <1>4, <1>5, Begins DEF Reading, Beginning

LEMMA StepStats == StatsInv /\ TypeOK /\ TypeOK' /\ [Next]_vars => StatsInv'
<1> SUFFICES ASSUME StatsInv, TypeOK, TypeOK', [Next]_vars PROVE StatsInv'
  OBVIOUS
<1>1. CASE UNCHANGED vars
  BY <1>1 DEF vars, request, history, StatsInv, CountsByType
<1> QED
  BY <1>1, NextIs, WriteStats, ReadStats

\* For any assets and types: the counts per type miss no asset that the total
\* counted, and the counts per status none that those per type counted.
THEOREM StatisticsGrow == Spec => []StatsGrow
<1>1. TypeInv => TypeOK
  BY DEF TypeInv
<1> QED
  BY <1>1, InitType, StepType, InitStats, StepStats, StatsSum, PTL DEF Spec

=============================================================================
