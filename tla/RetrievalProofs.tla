-------------------------- MODULE RetrievalProofs --------------------------
(***************************************************************************)
(* A walk over the pages never leaves a row behind it, for any number of   *)
(* rows, clients, filters and page sizes.                                  *)
(***************************************************************************)
EXTENDS Retrieval, FiniteSetTheorems, TLAPS

\* Sets of analyses are finite, and so are the sets that positions count.
LEMMA FiniteRows ==
  ASSUME NEW rows \in SUBSET Analyses
  PROVE  /\ IsFiniteSet(rows)
         /\ Cardinality(rows) \in 0 .. Cardinality(Analyses)
<1>1. IsFiniteSet(rows) /\ Cardinality(rows) <= Cardinality(Analyses)
  BY AnalysesAssumption, FS_Subset
<1> QED BY <1>1, AnalysesAssumption, FS_CardinalityType

\* A row only moves to a later place when rows are added.
LEMMA PositionGrows ==
  ASSUME NEW more \in SUBSET Analyses, NEW rows \in SUBSET more, NEW a
  PROVE  /\ Position(rows, a) \in Nat
         /\ Position(more, a) \in Nat
         /\ Position(rows, a) <= Position(more, a)
<1> DEFINE R == {b \in rows : b > a}
           M == {b \in more : b > a}
<1>1. M \in SUBSET Analyses /\ R \in SUBSET Analyses /\ R \subseteq M
  OBVIOUS
<1>2. IsFiniteSet(M) /\ IsFiniteSet(R)
  BY <1>1, FiniteRows
<1>3. Cardinality(R) \in Nat /\ Cardinality(M) \in Nat /\ Cardinality(R) <= Cardinality(M)
  BY <1>1, <1>2, FS_Subset, FS_CardinalityType
<1> QED BY <1>3 DEF Position

\* A page begins at a natural number, and the next one where it ends.
LEMMA OffsetType ==
  ASSUME NEW q \in Queries
  PROVE  /\ Offset(q) \in Nat /\ q.size \in Nat \ {0} /\ q.page \in Nat \ {0}
         /\ q.page = 1 => Offset(q) = 0
         /\ q.filter \in SUBSET Analyses
<1>1. q.page \in 1 .. MaxPage /\ q.size \in PageSizes /\ q.filter \in Filters
  BY DEF Queries
<1>2. q.page - 1 \in Nat /\ q.page \in Nat \ {0}
  BY <1>1, SizesAssumption
<1>3. q.size \in Nat \ {0}
  BY <1>1, SizesAssumption
<1>4. q.filter \in SUBSET Analyses
  BY <1>1, FiltersAssumption
<1>5. \A m, n \in Nat : m * n \in Nat
  OBVIOUS
<1>6. \A n \in Nat : 0 * n = 0
  OBVIOUS
<1> QED BY <1>2, <1>3, <1>4, <1>5, <1>6 DEF Offset

\* A page begins where the one before it ends.
LEMMA OffsetNext ==
  ASSUME NEW q \in Queries, NEW r \in Queries, q = [r EXCEPT !.page = @ + 1]
  PROVE  Offset(q) = Offset(r) + r.size /\ q.filter = r.filter
<1>1. q.page = r.page + 1 /\ q.size = r.size /\ q.filter = r.filter
  BY DEF Queries
<1>2. r.page \in Nat /\ r.size \in Nat
  BY OffsetType
<1>3. \A m, n \in Nat : ((m + 1) - 1) * n = (m - 1) * n + n
  OBVIOUS
<1> QED BY <1>1, <1>2, <1>3 DEF Offset

\* The number of pages is a natural number.
LEMMA TotalPagesType ==
  ASSUME NEW n \in Nat, NEW size \in Nat \ {0}
  PROVE  TotalPages(n, size) \in Nat
<1>1. n + size - 1 \in Nat
  OBVIOUS
<1>2. \A m \in Nat, k \in Nat \ {0} : m \div k \in Nat
  OBVIOUS
<1> QED BY <1>1, <1>2 DEF TotalPages

\* The invariant holds at the start.
LEMMA InitInv == Init => RetrievalInv
<1>1. Init => TypeOK
  BY AnalysesAssumption, FS_CardinalityType DEF Init, TypeOK
<1> QED BY <1>1 DEF Init, RetrievalInv, CachedIsStored, WalkOK, GetOK

\* A row is committed: positions only grow, so what was ahead is ahead.
LEMMA CommitRowInv ==
  ASSUME RetrievalInv, NEW r \in Analyses, CommitRow(r)
  PROVE  RetrievalInv'
<1> USE DEF RetrievalInv, WalkOK, GetOK
<1>1. TypeOK' /\ CachedIsStored'
  BY DEF CommitRow, TypeOK, CachedIsStored
<1>2. ASSUME NEW filter \in SUBSET Analyses
      PROVE  /\ Matching(filter) \in SUBSET Matching(filter)'
             /\ Matching(filter)' \in SUBSET Analyses
  BY DEF CommitRow, Matching, TypeOK
<1>3. ASSUME NEW c \in Clients, NEW q \in Queries, NEW n \in Nat, Ahead(c, q, n)
      PROVE  Ahead(c, q, n)'
  <2>1. q.filter \in SUBSET Analyses
    BY OffsetType
  <2>2. \A a : /\ Position(Matching(q.filter), a) \in Nat
               /\ Position(Matching(q.filter)', a) \in Nat
               /\ Position(Matching(q.filter), a) <= Position(Matching(q.filter)', a)
    BY <1>2, <2>1, PositionGrows
  <2>3. \A a : Position(Matching(q.filter), a)' = Position(Matching(q.filter)', a)
    BY DEF Position
  <2>4. since'[c] = since[c] /\ seen'[c] = seen[c]
    BY DEF CommitRow
  <2> QED BY <1>2, <1>3, <2>1, <2>2, <2>3, <2>4 DEF Ahead
<1>4. ASSUME NEW c \in Clients
      PROVE  /\ pc[c] \in {"count", "select"} =>
                  query[c] \in Queries /\ Offset(query[c]) \in Nat
             /\ answer[c] # None =>
                  /\ answer[c].query \in Queries
                  /\ Offset(answer[c].query) + answer[c].query.size \in Nat
  BY OffsetType DEF TypeOK, Answers
<1>5. ASSUME NEW c \in Clients, pc[c] = "select"
      PROVE  total'[c] <= Cardinality(Matching(query[c].filter)')
  <2>1. query[c].filter \in SUBSET Analyses /\ query'[c] = query[c]
    BY <1>4, <1>5, OffsetType DEF CommitRow
  <2>2. \A f \in SUBSET Analyses :
          /\ Cardinality(Matching(f)) \in Nat /\ Cardinality(Matching(f)') \in Nat
          /\ Cardinality(Matching(f)) <= Cardinality(Matching(f)')
    <3> TAKE f \in SUBSET Analyses
    <3>1. Matching(f) \subseteq Matching(f)' /\ IsFiniteSet(Matching(f)')
      BY <1>2, FiniteRows
    <3> QED BY <3>1, FS_Subset, FS_CardinalityType
  <2>4. /\ total'[c] = total[c] /\ total[c] \in Nat
        /\ total[c] <= Cardinality(Matching(query[c].filter))
    BY <1>5 DEF CommitRow, TypeOK
  <2> QED BY <2>1, <2>2, <2>4
<1>6. ASSUME NEW c \in Clients
      PROVE  pc'[c] = pc[c] /\ query'[c] = query[c] /\ answer'[c] = answer[c]
             /\ wanted'[c] = wanted[c] /\ stored \subseteq stored'
  BY DEF CommitRow
<1> QED BY <1>1, <1>3, <1>4, <1>5, <1>6 DEF Offset

\* A step that touches nothing of a client and no row keeps what is known of it.
LEMMA Untouched ==
  ASSUME RetrievalInv, NEW c \in Clients, stored' = stored,
         pc'[c] = pc[c], query'[c] = query[c], wanted'[c] = wanted[c],
         total'[c] = total[c], answer'[c] = answer[c],
         seen'[c] = seen[c], since'[c] = since[c]
  PROVE  WalkOK(c)' /\ GetOK(c)'
BY DEF RetrievalInv, WalkOK, GetOK, Ahead, Matching, Position, Offset

\* The same of a step that leaves the walk alone but not the request.
LEMMA WalkUntouched ==
  ASSUME RetrievalInv, NEW c \in Clients, stored' = stored,
         answer'[c] = answer[c], seen'[c] = seen[c], since'[c] = since[c],
         pc'[c] \notin {"count", "select"}
  PROVE  WalkOK(c)'
BY DEF RetrievalInv, WalkOK, Ahead, Matching, Position, Offset

\* A page is asked for: the next one begins where the last one ended, and
\* the first one at the front.
LEMMA ListInv ==
  ASSUME RetrievalInv, NEW c \in Clients, NEW q \in Queries, List(c, q)
  PROVE  RetrievalInv'
<1>1. TypeOK' /\ CachedIsStored'
  BY DEF RetrievalInv, TypeOK, CachedIsStored, List, GoTo, Matching
<1>2. ASSUME NEW d \in Clients, d # c
      PROVE  WalkOK(d)' /\ GetOK(d)'
  BY <1>2, Untouched DEF RetrievalInv, TypeOK, List, GoTo
<1>3. /\ pc'[c] = "count" /\ query'[c] = q /\ stored' = stored
      /\ seen'[c] = IF Continues(c, q) THEN seen[c] ELSE {}
      /\ since'[c] = IF Continues(c, q) THEN since[c]
                     ELSE IF q.page = 1 THEN Matching(q.filter) ELSE {}
      /\ answer'[c] = IF Continues(c, q) THEN answer[c] ELSE None
  BY DEF RetrievalInv, TypeOK, List, GoTo
<1>4. q # None
  BY NoneAssumption
<1>5. WalkOK(c)'
  <2>1. CASE Continues(c, q)
    <3>1. answer[c].query \in Queries
      BY <2>1 DEF Continues, RetrievalInv, TypeOK, Answers
    <3>2. /\ Offset(q) = Offset(answer[c].query) + answer[c].query.size
          /\ q.filter = answer[c].query.filter
      BY <2>1, <3>1, OffsetNext DEF Continues
    <3>3. Ahead(c, answer[c].query, Offset(answer[c].query) + answer[c].query.size)
      BY <2>1 DEF Continues, RetrievalInv, WalkOK
    <3> QED BY <1>3, <1>4, <2>1, <3>2, <3>3 DEF WalkOK, Ahead, Matching, Position, Offset
  <2>2. CASE ~Continues(c, q) /\ q.page = 1
    <3>1. Offset(q) = 0 /\ Matching(q.filter) \in SUBSET Analyses
      BY <2>2, OffsetType DEF Matching
    <3>2. \A a : Position(Matching(q.filter), a) \in Nat
      BY <3>1, PositionGrows
    <3> QED BY <1>3, <1>4, <2>2, <3>1, <3>2 DEF WalkOK, Ahead, Matching, Position, Offset
  <2>3. CASE ~Continues(c, q) /\ q.page # 1
    BY <1>3, <1>4, <2>3 DEF WalkOK, Ahead
  <2> QED BY <2>1, <2>2, <2>3
<1>6. GetOK(c)'
  BY <1>3 DEF GetOK
<1> QED BY <1>1, <1>2, <1>5, <1>6 DEF RetrievalInv

\* The rows are counted.
LEMMA CountRowsInv ==
  ASSUME RetrievalInv, NEW c \in Clients, CountRows(c)
  PROVE  RetrievalInv'
<1>1. query[c] \in Queries /\ query'[c] = query[c]
  BY DEF RetrievalInv, TypeOK, WalkOK, CountRows
<1>2. Cardinality(Matching(query[c].filter)) \in 0 .. Cardinality(Analyses)
  BY <1>1, OffsetType, FiniteRows DEF Matching
<1>3. TypeOK' /\ CachedIsStored'
  BY <1>2 DEF RetrievalInv, TypeOK, CachedIsStored, CountRows, GoTo
<1>4. ASSUME NEW d \in Clients, d # c
      PROVE  WalkOK(d)' /\ GetOK(d)'
  BY <1>4, Untouched DEF RetrievalInv, TypeOK, CountRows, GoTo
<1>5. /\ pc'[c] = "select" /\ total'[c] = Cardinality(Matching(query[c].filter))
      /\ stored' = stored /\ seen' = seen /\ since' = since
      /\ answer' = answer /\ query' = query
  BY DEF RetrievalInv, TypeOK, CountRows, GoTo
<1>6. WalkOK(c)
  BY DEF RetrievalInv
<1>7. pc[c] = "count"
  BY DEF CountRows
<1>8. total'[c] <= total'[c]
  BY <1>2, <1>5
<1>9. WalkOK(c)' /\ GetOK(c)'
  BY <1>5, <1>6, <1>7, <1>8 DEF WalkOK, GetOK, Ahead, Matching, Position, Offset
<1> QED BY <1>3, <1>4, <1>9 DEF RetrievalInv

\* A page is read: what was on it has been given, what was not is behind it.
LEMMA SelectPageInv ==
  ASSUME RetrievalInv, NEW c \in Clients, SelectPage(c)
  PROVE  RetrievalInv'
<1> DEFINE q == query[c]
<1>1. q \in Queries /\ total[c] \in 0 .. Cardinality(Analyses) /\ q # None
  BY DEF RetrievalInv, TypeOK, WalkOK, SelectPage
<1>2. /\ Offset(q) \in Nat /\ q.size \in Nat \ {0}
      /\ Matching(q.filter) \in SUBSET Analyses /\ Page(q) \in SUBSET Analyses
  BY <1>1, OffsetType DEF Matching, Page
<1>3. TotalPages(total[c], q.size) \in Nat
  BY <1>1, <1>2, TotalPagesType
<1>4. TypeOK' /\ CachedIsStored'
  <2>1. [query |-> q, total |-> total[c], items |-> Page(q),
         total_pages |-> TotalPages(total[c], q.size)] \in Answers
    BY <1>1, <1>2, <1>3 DEF Answers
  <2>2. 0 \in 0 .. Cardinality(Analyses)
    BY AnalysesAssumption, FS_CardinalityType
  <2> QED BY <1>2, <2>1, <2>2 DEF RetrievalInv, TypeOK, CachedIsStored, SelectPage, GoTo
<1>5. ASSUME NEW d \in Clients, d # c
      PROVE  WalkOK(d)' /\ GetOK(d)'
  BY <1>5, Untouched DEF RetrievalInv, TypeOK, SelectPage, GoTo
<1>6. /\ pc'[c] = "idle" /\ stored' = stored /\ since'[c] = since[c]
      /\ seen'[c] = seen[c] \cup Page(q) /\ answer'[c].query = q
  BY DEF RetrievalInv, TypeOK, SelectPage, GoTo
<1>7. Ahead(c, q, Offset(q))
  BY DEF RetrievalInv, WalkOK, SelectPage
<1>8. \A a : Position(Matching(q.filter), a) \in Nat
  BY <1>2, PositionGrows
<1>9. \A a \in since[c] :
        \/ a \in seen'[c]
        \/ a \in Matching(q.filter) /\ Position(Matching(q.filter), a) >= Offset(q) + q.size
  BY <1>2, <1>6, <1>7, <1>8 DEF Ahead, Page
<1>10. WalkOK(c)' /\ GetOK(c)'
  BY <1>6, <1>9 DEF WalkOK, GetOK, Ahead, Matching, Position, Offset
<1> QED BY <1>4, <1>5, <1>10 DEF RetrievalInv

\* A listing fails.
LEMMA ListFailsInv ==
  ASSUME RetrievalInv, NEW c \in Clients, ListFails(c)
  PROVE  RetrievalInv'
<1>1. 0 \in 0 .. Cardinality(Analyses)
  BY AnalysesAssumption, FS_CardinalityType
<1>2. TypeOK' /\ CachedIsStored'
  BY <1>1 DEF RetrievalInv, TypeOK, CachedIsStored, ListFails, GoTo
<1>3. ASSUME NEW d \in Clients, d # c
      PROVE  WalkOK(d)' /\ GetOK(d)'
  BY <1>3, Untouched DEF RetrievalInv, TypeOK, ListFails, GoTo
<1>4. pc'[c] = "idle"
  BY DEF RetrievalInv, TypeOK, ListFails, GoTo
<1>5. WalkOK(c)' /\ GetOK(c)'
  BY <1>4, WalkUntouched DEF ListFails, GetOK
<1> QED BY <1>2, <1>3, <1>5 DEF RetrievalInv

\* The steps of GET /analyses/{id}.
GetStep(c) ==
  \/ \E a \in Analyses : Get(c, a)
  \/ LookInCache(c)
  \/ FetchCached(c)
  \/ Fetch(c)
  \/ CacheSet(c)
  \/ GetFails(c)

\* A GET of one analysis leaves every walk alone, and only caches an id it
\* has found.
LEMMA GetInv ==
  ASSUME RetrievalInv, NEW c \in Clients, GetStep(c)
  PROVE  RetrievalInv'
<1> USE DEF GetDone, GoTo
<1>1. TypeOK'
  <2> USE DEF RetrievalInv, TypeOK
  <2>1. CASE \E a \in Analyses : Get(c, a)
    BY <2>1 DEF Get
  <2>2. CASE LookInCache(c)
    BY <2>2 DEF LookInCache
  <2>3. CASE FetchCached(c)
    BY <2>3 DEF FetchCached
  <2>4. CASE Fetch(c)
    BY <2>4 DEF Fetch
  <2>5. CASE CacheSet(c)
    <3>1. wanted[c] \in Analyses
      BY <2>5 DEF CacheSet, GetOK
    <3> QED BY <2>5, <3>1 DEF CacheSet
  <2>6. CASE GetFails(c)
    BY <2>6 DEF GetFails
  <2> QED BY <2>1, <2>2, <2>3, <2>4, <2>5, <2>6 DEF GetStep
<1> USE DEF GetStep, Get, LookInCache, FetchCached, Fetch, CacheSet, GetFails
<1>2. CachedIsStored'
  BY DEF RetrievalInv, CachedIsStored, GetOK
<1>3. ASSUME NEW d \in Clients, d # c
      PROVE  WalkOK(d)' /\ GetOK(d)'
  BY <1>3, Untouched DEF RetrievalInv, TypeOK
<1>4. pc'[c] \notin {"count", "select"}
  BY DEF RetrievalInv, TypeOK
<1>5. WalkOK(c)'
  BY <1>4, WalkUntouched
<1>6. GetOK(c)'
  BY NoneAssumption DEF RetrievalInv, TypeOK, GetOK
<1> QED BY <1>1, <1>2, <1>3, <1>5, <1>6 DEF RetrievalInv

\* An entry goes away.
LEMMA ExpireInv ==
  ASSUME RetrievalInv, NEW a \in Analyses, Expire(a)
  PROVE  RetrievalInv'
<1>1. TypeOK' /\ CachedIsStored'
  BY DEF RetrievalInv, TypeOK, CachedIsStored, Expire
<1>2. ASSUME NEW d \in Clients
      PROVE  WalkOK(d)' /\ GetOK(d)'
  BY <1>2, Untouched DEF Expire
<1> QED BY <1>1, <1>2 DEF RetrievalInv

\* Nothing happens.
LEMMA StutterInv == RetrievalInv /\ UNCHANGED vars => RetrievalInv'
<1> SUFFICES ASSUME RetrievalInv, UNCHANGED vars
             PROVE  RetrievalInv'
  OBVIOUS
<1>1. TypeOK' /\ CachedIsStored'
  BY DEF RetrievalInv, TypeOK, CachedIsStored, vars
<1>2. ASSUME NEW d \in Clients
      PROVE  WalkOK(d)' /\ GetOK(d)'
  BY <1>2, Untouched DEF vars
<1> QED BY <1>1, <1>2 DEF RetrievalInv

\* Every step keeps the invariant.
LEMMA NextInv == RetrievalInv /\ [Next]_vars => RetrievalInv'
<1> SUFFICES ASSUME RetrievalInv, [Next]_vars
             PROVE  RetrievalInv'
  OBVIOUS
<1>1. ASSUME NEW a \in Analyses, CommitRow(a) \/ Expire(a)
      PROVE  RetrievalInv'
  BY <1>1, CommitRowInv, ExpireInv
<1>2. ASSUME NEW c \in Clients, NEW q \in Queries, List(c, q)
      PROVE  RetrievalInv'
  BY <1>2, ListInv
<1>3. ASSUME NEW c \in Clients, CountRows(c) \/ SelectPage(c) \/ ListFails(c)
      PROVE  RetrievalInv'
  BY <1>3, CountRowsInv, SelectPageInv, ListFailsInv
<1>4. ASSUME NEW c \in Clients, GetStep(c)
      PROVE  RetrievalInv'
  BY <1>4, GetInv
<1> QED BY <1>1, <1>2, <1>3, <1>4, StutterInv DEF Next, GetStep

\* The invariant of retrieval: whatever commits while a client walks the
\* pages, every row that was there when it began has been given to it or is
\* still on a page in front of it.
THEOREM RetrievalInvariant == Spec => []RetrievalInv
BY InitInv, NextInv, PTL DEF Spec

\* An entry analysis:<id> names a committed row.
THEOREM CachedStored == Spec => []CachedIsStored
<1>1. RetrievalInv => CachedIsStored
  BY DEF RetrievalInv
<1> QED BY <1>1, RetrievalInvariant, PTL

-----------------------------------------------------------------------------
(* Positions have no gaps, and what follows for the size of a page.        *)

\* A newer row stands before an older one.
LEMMA PositionOrder ==
  ASSUME NEW rows \in SUBSET Analyses, NEW a \in rows, NEW b \in rows, a < b
  PROVE  Position(rows, b) < Position(rows, a)
<1> DEFINE A == {c \in rows : c > a}
           B == {c \in rows : c > b}
<1>1. \A c \in rows : c \in Nat
  BY AnalysesAssumption
<1>2. B \subseteq A /\ b \in A /\ b \notin B
  BY <1>1
<1>3. IsFiniteSet(A) /\ IsFiniteSet(B)
  BY FiniteRows
<1>4. /\ Cardinality(A) \in Nat /\ Cardinality(B) \in Nat
      /\ Cardinality(B) <= Cardinality(A)
      /\ Cardinality(A) = Cardinality(B) => A = B
  BY <1>2, <1>3, FS_Subset, FS_CardinalityType
<1>5. Cardinality(B) < Cardinality(A)
  BY <1>2, <1>4
<1> QED BY <1>5 DEF Position

\* There are as many positions as rows.
LEMMA PositionRange ==
  ASSUME NEW rows \in SUBSET Analyses, NEW a \in rows
  PROVE  Position(rows, a) \in 0 .. Cardinality(rows) - 1
<1> DEFINE A == {c \in rows : c > a}
<1>1. a \in Nat
  BY AnalysesAssumption
<1>2. A \subseteq rows /\ a \notin A
  BY <1>1
<1>3. IsFiniteSet(rows) /\ IsFiniteSet(A)
  BY <1>2, FiniteRows
<1>4. /\ Cardinality(A) \in Nat /\ Cardinality(rows) \in Nat
      /\ Cardinality(A) <= Cardinality(rows)
      /\ Cardinality(rows) = Cardinality(A) => rows = A
  BY <1>2, <1>3, FS_Subset, FS_CardinalityType
<1>5. Cardinality(A) \in 0 .. Cardinality(rows) - 1
  BY <1>2, <1>4
<1> QED BY <1>5 DEF Position

\* Every position is taken: as many rows as positions, and no two share one.
LEMMA PositionsFilled ==
  ASSUME NEW rows \in SUBSET Analyses,
         NEW p \in 0 .. Cardinality(rows) - 1
  PROVE  \E a \in rows : Position(rows, a) = p
<1> DEFINE n == Cardinality(rows)
           f == [a \in rows |-> Position(rows, a)]
<1>1. n \in Nat
  BY FiniteRows, AnalysesAssumption, FS_CardinalityType
<1>2. IsFiniteSet(0 .. n - 1) /\ Cardinality(0 .. n - 1) = n
  BY <1>1, FS_Interval
<1>3. \A a, b \in rows : Position(rows, a) = Position(rows, b) => a = b
  <2> SUFFICES ASSUME NEW a \in rows, NEW b \in rows, a # b
               PROVE  Position(rows, a) # Position(rows, b)
    OBVIOUS
  <2>1. a < b \/ b < a
    BY AnalysesAssumption
  <2>2. Position(rows, a) \in Int /\ Position(rows, b) \in Int
    BY PositionRange
  <2> QED BY <2>1, <2>2, PositionOrder
<1>4. f \in [rows -> 0 .. n - 1]
  BY PositionRange
<1>5. f \in Injection(rows, 0 .. n - 1)
  BY <1>3, <1>4 DEF Injection, IsInjective
<1>6. f \in Surjection(rows, 0 .. n - 1)
  BY <1>2, <1>5, FS_Injection
<1> QED BY <1>6 DEF Surjection

\* A page is as long as its size, unless the rows end before that.
LEMMA PageSize ==
  ASSUME NEW q \in Queries, Matching(q.filter) \in SUBSET Analyses
  PROVE  LET n == Cardinality(Matching(q.filter)) IN
         /\ n \in Nat
         /\ Cardinality(Page(q)) = IF n <= Offset(q) THEN 0
                                   ELSE IF n - Offset(q) < q.size THEN n - Offset(q)
                                   ELSE q.size
<1> DEFINE rows == Matching(q.filter)
           n == Cardinality(rows)
           last == IF n < Offset(q) + q.size THEN n - 1 ELSE Offset(q) + q.size - 1
           places == Offset(q) .. last
           f == [a \in Page(q) |-> Position(rows, a)]
<1>1. n \in Nat
  BY FiniteRows, AnalysesAssumption, FS_CardinalityType
<1>2. Offset(q) \in Nat /\ q.size \in Nat \ {0}
  BY OffsetType
<1>3. last \in Int
  BY <1>1, <1>2
<1>4. IsFiniteSet(places)
      /\ Cardinality(places) = IF Offset(q) > last THEN 0 ELSE last - Offset(q) + 1
  <2>1. Offset(q) \in Int
    BY <1>2
  <2> HIDE DEF last
  <2> QED BY <2>1, <1>3, FS_Interval
<1>5. Page(q) \subseteq rows
  BY DEF Page
<1>6. f \in [Page(q) -> places]
  <2> SUFFICES ASSUME NEW a \in Page(q)
               PROVE  Position(rows, a) \in places
    OBVIOUS
  <2>1. Position(rows, a) \in 0 .. n - 1
    BY <1>5, PositionRange
  <2>2. Position(rows, a) \in Offset(q) .. Offset(q) + q.size - 1
    BY DEF Page
  <2> QED BY <1>1, <1>2, <2>1, <2>2
<1>7. \A a, b \in Page(q) : f[a] = f[b] => a = b
  <2> SUFFICES ASSUME NEW a \in Page(q), NEW b \in Page(q), a # b
               PROVE  Position(rows, a) # Position(rows, b)
    OBVIOUS
  <2>1. a \in rows /\ b \in rows /\ rows \in SUBSET Analyses
    BY <1>5
  <2>2. a < b \/ b < a
    <3>1. a \in Nat /\ b \in Nat
      BY <2>1, AnalysesAssumption
    <3> QED BY <3>1
  <2>3. Position(rows, a) \in Int /\ Position(rows, b) \in Int
    <3> HIDE DEF rows
    <3> QED BY <2>1, PositionRange
  <2> QED BY <2>1, <2>2, <2>3, PositionOrder
<1>8. \A p \in places : \E a \in Page(q) : f[a] = p
  <2> SUFFICES ASSUME NEW p \in places
               PROVE  \E a \in Page(q) : Position(rows, a) = p
    OBVIOUS
  <2>1. p \in 0 .. n - 1 /\ p \in Offset(q) .. Offset(q) + q.size - 1
    BY <1>1, <1>2
  <2>2. PICK a \in rows : Position(rows, a) = p
    BY <2>1, PositionsFilled
  <2>3. a \in Page(q)
    BY <2>1, <2>2 DEF Page
  <2> QED BY <2>2, <2>3
<1>9. f \in Injection(Page(q), places) /\ f \in Surjection(Page(q), places)
  BY <1>6, <1>7, <1>8 DEF Injection, Surjection, IsInjective
<1>10. Cardinality(Page(q)) = Cardinality(places)
  BY <1>4, <1>9, FS_Injection
<1> QED BY <1>1, <1>2, <1>4, <1>10

\* A page reaches at most as far as the rows, and if it is not full, it
\* reaches the last of them.
LEMMA ShortPageIsLast ==
  ASSUME NEW q \in Queries, Matching(q.filter) \in SUBSET Analyses,
         Cardinality(Page(q)) < q.size,
         NEW a \in Matching(q.filter), Position(Matching(q.filter), a) >= Offset(q)
  PROVE  a \in Page(q)
<1> DEFINE rows == Matching(q.filter)
<1>1. Offset(q) \in Nat /\ q.size \in Nat \ {0}
  BY OffsetType
<1>2. Cardinality(rows) \in Nat /\ Cardinality(rows) < Offset(q) + q.size
  BY <1>1, PageSize
<1>3. Position(rows, a) \in 0 .. Cardinality(rows) - 1
  BY PositionRange
<1>4. Position(rows, a) \in Offset(q) .. Offset(q) + q.size - 1
  BY <1>1, <1>2, <1>3
<1> QED BY <1>4 DEF Page

-----------------------------------------------------------------------------
(* The answers of a walk.                                                  *)

\* What is known of a client's last answer.
AnswersOK == WalkMissesNothing /\ ItemsReachTotal

\* A step that gives c nothing leaves what is known of its last answer.
LEMMA NoAnswer ==
  ASSUME AnswersOK,
         \A c \in Clients :
           \/ answer'[c] = None
           \/ answer'[c] = answer[c] /\ seen'[c] = seen[c] /\ since'[c] = since[c]
  PROVE  AnswersOK'
BY DEF AnswersOK, WalkMissesNothing, ItemsReachTotal

\* The page that is given is full, or it is the last one.
LEMMA SelectPageAnswers ==
  ASSUME RetrievalInv, AnswersOK, NEW c \in Clients, SelectPage(c)
  PROVE  AnswersOK'
<1> DEFINE q == query[c]
           rows == Matching(q.filter)
           n == Cardinality(Page(q))
<1>1. /\ q \in Queries /\ total[c] \in Nat /\ total[c] <= Cardinality(rows)
      /\ Ahead(c, q, Offset(q))
  <2>1. total[c] \in 0 .. Cardinality(Analyses) /\ Cardinality(Analyses) \in Nat
    BY AnalysesAssumption, FS_CardinalityType DEF RetrievalInv, TypeOK
  <2> QED BY <2>1 DEF RetrievalInv, TypeOK, WalkOK, SelectPage
<1>2. Offset(q) \in Nat /\ q.size \in Nat \ {0} /\ rows \in SUBSET Analyses
  BY <1>1, OffsetType DEF Matching
<1>3. /\ Cardinality(rows) \in Nat
      /\ n = IF Cardinality(rows) <= Offset(q) THEN 0
             ELSE IF Cardinality(rows) - Offset(q) < q.size THEN Cardinality(rows) - Offset(q)
             ELSE q.size
  BY <1>1, <1>2, PageSize
<1>4. n = q.size \/ (n < q.size /\ Offset(q) + n >= total[c])
  BY <1>1, <1>2, <1>3
<1>5. /\ answer'[c].query = q /\ answer'[c].items = Page(q)
      /\ answer'[c].total = total[c]
      /\ seen'[c] = seen[c] \cup Page(q) /\ since'[c] = since[c]
  BY DEF SelectPage, RetrievalInv, TypeOK
<1>6. n < q.size => since'[c] \subseteq seen'[c]
  <2> SUFFICES ASSUME n < q.size, NEW a \in since[c], a \notin seen[c]
               PROVE  a \in Page(q)
    BY <1>5
  <2>1. a \in rows /\ Position(rows, a) >= Offset(q)
    BY <1>1 DEF Ahead
  <2> QED BY <1>1, <1>2, <2>1, ShortPageIsLast
<1>7. ASSUME NEW d \in Clients, d # c
      PROVE  answer'[d] = answer[d] /\ seen'[d] = seen[d] /\ since'[d] = since[d]
  BY <1>7 DEF SelectPage, RetrievalInv, TypeOK
<1>8. WalkMissesNothing'
  BY <1>5, <1>6, <1>7 DEF AnswersOK, WalkMissesNothing
<1>9. ItemsReachTotal'
  BY <1>4, <1>5, <1>7 DEF AnswersOK, ItemsReachTotal, Offset
<1> QED BY <1>8, <1>9 DEF AnswersOK

\* Every step keeps it.
LEMMA AnswersStep == RetrievalInv /\ AnswersOK /\ [Next]_vars => AnswersOK'
<1> SUFFICES ASSUME RetrievalInv, AnswersOK, [Next]_vars
             PROVE  AnswersOK'
  OBVIOUS
<1>1. ASSUME NEW c \in Clients, SelectPage(c)
      PROVE  AnswersOK'
  BY <1>1, SelectPageAnswers
<1>2. ASSUME NEW c \in Clients, NEW q \in Queries, List(c, q)
      PROVE  AnswersOK'
  BY <1>2, NoAnswer DEF List, RetrievalInv, TypeOK
<1>3. ASSUME answer' = answer, seen' = seen, since' = since
      PROVE  AnswersOK'
  BY <1>3, NoAnswer
<1>4. ASSUME NEW a \in Analyses, CommitRow(a) \/ Expire(a)
      PROVE  AnswersOK'
  BY <1>3, <1>4 DEF CommitRow, Expire
<1>5. ASSUME NEW c \in Clients, CountRows(c) \/ ListFails(c) \/ GetStep(c)
      PROVE  AnswersOK'
  BY <1>3, <1>5 DEF CountRows, ListFails, GetStep, Get, LookInCache, FetchCached,
                    Fetch, CacheSet, GetFails
<1>6. ASSUME UNCHANGED vars
      PROVE  AnswersOK'
  BY <1>3, <1>6 DEF vars
<1> QED BY <1>1, <1>2, <1>4, <1>5, <1>6 DEF Next, GetStep

\* Both facts about the answers hold of every behaviour.
LEMMA AnswersInvariant == Spec => []AnswersOK
<1>1. Init => AnswersOK
  BY DEF Init, AnswersOK, WalkMissesNothing, ItemsReachTotal
<1> QED BY <1>1, AnswersStep, RetrievalInvariant, PTL DEF Spec

\* A walk that goes on until a page is not full misses no row that was there
\* when it began, whatever is committed meanwhile.
THEOREM WholeWalk == Spec => []WalkMissesNothing
<1>1. AnswersOK => WalkMissesNothing
  BY DEF AnswersOK
<1> QED BY <1>1, AnswersInvariant, PTL

\* Although total and items come from two statements, a page is full or goes
\* as far as the total.
THEOREM ItemsAndTotal == Spec => []ItemsReachTotal
<1>1. AnswersOK => ItemsReachTotal
  BY DEF AnswersOK
<1> QED BY <1>1, AnswersInvariant, PTL

-----------------------------------------------------------------------------
(* The number of pages.                                                    *)

\* Rounding up: a page number is at most the number of pages exactly if a row
\* comes after the pages before it.
LEMMA RoundedUp ==
  ASSUME NEW n \in Nat, NEW size \in Nat \ {0}, NEW page \in Nat \ {0}
  PROVE  page <= TotalPages(n, size) <=> (page - 1) * size < n
<1> DEFINE m == n + size - 1
           d == m \div size
<1>1. m \in Nat /\ d \in Nat
  BY TotalPagesType DEF TotalPages
<1>2. size * d <= m /\ m < size * d + size
  BY <1>1
<1>3. \A x, y, k \in Nat : x <= y => k * x <= k * y
  OBVIOUS
<1>4. (page - 1) * size = size * page - size /\ size * page \in Nat /\ size * d \in Nat
  BY <1>1
<1>5. ASSUME page <= d
      PROVE  (page - 1) * size < n
  <2>1. size * page <= size * d
    BY <1>1, <1>3, <1>5
  <2> QED BY <1>1, <1>2, <1>4, <2>1
<1>6. ASSUME d < page
      PROVE  ~((page - 1) * size < n)
  <2>1. size * (d + 1) <= size * page /\ size * (d + 1) = size * d + size
    BY <1>1, <1>3, <1>6
  <2> QED BY <1>1, <1>2, <1>4, <2>1
<1> QED BY <1>1, <1>5, <1>6 DEF TotalPages

\* A page has items exactly if a row comes after the pages before it.
LEMMA PageNotEmpty ==
  ASSUME NEW q \in Queries, Matching(q.filter) \in SUBSET Analyses
  PROVE  Page(q) # {} <=> Offset(q) < Cardinality(Matching(q.filter))
<1>1. Offset(q) \in Nat /\ q.size \in Nat \ {0}
  BY OffsetType
<1>2. Page(q) \in SUBSET Analyses
  BY DEF Page
<1>3. Cardinality(Page(q)) = 0 <=> Page(q) = {}
  BY <1>2, FiniteRows, FS_EmptySet
<1> QED BY <1>1, <1>3, PageSize

\* If nothing the filter matches is committed between the count and the
\* items, total_pages is the number of the last page that has items.
THEOREM PagesExact == Spec => TotalPagesExact
<1> DEFINE Exact ==
      \A c \in Clients :
        LET a == answer'[c] IN
        a # answer[c] /\ a # None /\ a.total = Cardinality(Matching(a.query.filter))
          => (a.items # {} <=> a.query.page <= a.total_pages)
<1>1. RetrievalInv /\ [Next]_vars => [Exact]_vars
  <2> SUFFICES ASSUME RetrievalInv, Next, NEW c \in Clients,
                      answer'[c] # answer[c], answer'[c] # None,
                      answer'[c].total = Cardinality(Matching(answer'[c].query.filter))
               PROVE  answer'[c].items # {}
                        <=> answer'[c].query.page <= answer'[c].total_pages
    BY Zenon DEF vars
  <2> DEFINE q == query[c]
  <2>1. SelectPage(c)
    <3>1. ASSUME NEW d \in Clients, SelectPage(d) PROVE SelectPage(c)
      BY <3>1 DEF SelectPage, RetrievalInv, TypeOK
    <3>2. ASSUME NEW d \in Clients, NEW r \in Queries, List(d, r) PROVE FALSE
      BY <3>2 DEF List, RetrievalInv, TypeOK
    <3>3. answer' # answer
      OBVIOUS
    <3> QED BY <3>1, <3>2, <3>3
            DEF Next, CommitRow, Expire, CountRows, ListFails, Get, LookInCache,
                FetchCached, Fetch, CacheSet, GetFails
  <2>2. q \in Queries /\ total[c] \in Nat
    <3>1. total[c] \in 0 .. Cardinality(Analyses) /\ Cardinality(Analyses) \in Nat
      BY AnalysesAssumption, FS_CardinalityType DEF RetrievalInv, TypeOK
    <3> QED BY <2>1, <3>1 DEF RetrievalInv, TypeOK, WalkOK, SelectPage
  <2>3. /\ answer'[c].query = q /\ answer'[c].items = Page(q)
        /\ answer'[c].total = total[c]
        /\ answer'[c].total_pages = TotalPages(total[c], q.size)
    BY <2>1 DEF SelectPage, RetrievalInv, TypeOK
  <2>4. Matching(q.filter) \in SUBSET Analyses /\ q.size \in Nat \ {0} /\ q.page \in Nat \ {0}
    BY <2>2, OffsetType DEF Matching
  <2>5. total[c] = Cardinality(Matching(q.filter))
    BY <2>3
  <2>6. Page(q) # {} <=> (q.page - 1) * q.size < total[c]
    BY <2>2, <2>4, <2>5, PageNotEmpty DEF Offset
  <2>7. q.page <= TotalPages(total[c], q.size) <=> (q.page - 1) * q.size < total[c]
    BY <2>2, <2>4, RoundedUp
  <2> QED BY <2>3, <2>6, <2>7
<1>2. TotalPagesExact <=> [][Exact]_vars
  BY PTL DEF TotalPagesExact
<1> QED BY <1>1, <1>2, RetrievalInvariant, PTL DEF Spec

=============================================================================
