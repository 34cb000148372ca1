----------------------------- MODULE Retrieval -----------------------------
(***************************************************************************)
(* GET /analyses and GET /analyses/{id}, while POSTs commit.  A listing is *)
(* two statements, the count and the page, and at READ COMMITTED each sees *)
(* what is committed when it runs.  AnalysisPipeline shows what may be     *)
(* assumed of the table here: a committed row is complete and never        *)
(* changes or goes away.                                                   *)
(*                                                                         *)
(* An analysis is named by its created_at, which is when its transaction   *)
(* began: analyses are committed in any order.  No two have the same.      *)
(***************************************************************************)
EXTENDS Integers, FiniteSets

CONSTANTS Analyses,   \* the rows there may be, as their created_at
          Clients,    \* clients, with one request at a time each
          Filters,    \* what WHERE may match: sets of analyses
          PageSizes,  \* page_size, ge=1
          MaxPage,    \* how far clients page, ge=1
          None        \* no request, no answer

ASSUME AnalysesAssumption == Analyses \subseteq Nat /\ IsFiniteSet(Analyses)
ASSUME FiltersAssumption == Filters \subseteq SUBSET Analyses
ASSUME SizesAssumption == PageSizes \subseteq Nat \ {0} /\ MaxPage \in Nat \ {0}

VARIABLES
  stored,  \* the committed rows
  cached,  \* the ids with an entry analysis:<id> in Redis
  pc,      \* pc[c]: the await the request of c is at
  query,   \* query[c]: the page c asks for, [page, size, filter], or None
  wanted,  \* wanted[c]: the analysis c asks for, or None
  total,   \* total[c]: what the count statement returned
  answer,  \* answer[c]: the last page c was given, or None
  seen,    \* history: what c has been given in this walk over the pages
  since    \* history: the rows of the filter stored when the walk began

vars == <<stored, cached, pc, query, wanted, total, answer, seen, since>>

Queries == [page : 1 .. MaxPage, size : PageSizes, filter : Filters]

ASSUME NoneAssumption == None \notin Analyses \cup Queries

Init ==
  /\ stored = {}
  /\ cached = {}
  /\ pc = [c \in Clients |-> "idle"]
  /\ query = [c \in Clients |-> None]
  /\ wanted = [c \in Clients |-> None]
  /\ total = [c \in Clients |-> 0]
  /\ answer = [c \in Clients |-> None]
  /\ seen = [c \in Clients |-> {}]
  /\ since = [c \in Clients |-> {}]

GoTo(c, l) == pc' = [pc EXCEPT ![c] = l]

\* A POST commits its row.
CommitRow(a) ==
  /\ a \notin stored
  /\ stored' = stored \cup {a}
  /\ UNCHANGED <<cached, pc, query, wanted, total, answer, seen, since>>

-----------------------------------------------------------------------------
(* The list.                                                               *)

\* The committed rows the filter matches.
Matching(filter) == stored \cap filter

\* Where a stands in rows, ordered by created_at, the newest first, from 0.
Position(rows, a) == Cardinality({b \in rows : b > a})

\* Mutant: pages counted from zero.
OffsetFromZero(q) == q.page * q.size

Offset(q) == (q.page - 1) * q.size

\* Mutant: the LIMIT is left out.
PageUnlimited(q) ==
  LET rows == Matching(q.filter) IN
  {a \in rows : Position(rows, a) >= Offset(q)}

\* ORDER BY created_at DESC OFFSET ... LIMIT ... .
Page(q) ==
  LET rows == Matching(q.filter) IN
  {a \in rows : Position(rows, a) \in Offset(q) .. Offset(q) + q.size - 1}

\* Mutant: rounded down.
TotalPagesFloor(n, size) == n \div size

TotalPages(n, size) == (n + size - 1) \div size

\* q goes on with the walk c is on.
Continues(c, q) ==
  answer[c] # None /\ q = [answer[c].query EXCEPT !.page = @ + 1]

\* A page is asked for: the first of a walk, the next one, or any other.
List(c, q) ==
  /\ pc[c] = "idle"
  /\ query' = [query EXCEPT ![c] = q]
  /\ seen' = [seen EXCEPT ![c] = IF Continues(c, q) THEN @ ELSE {}]
  /\ since' = [since EXCEPT ![c] =
                 IF Continues(c, q) THEN @
                 ELSE IF q.page = 1 THEN Matching(q.filter) ELSE {}]
  /\ answer' = [answer EXCEPT ![c] = IF Continues(c, q) THEN @ ELSE None]
  /\ GoTo(c, "count")
  /\ UNCHANGED <<stored, cached, wanted, total>>

\* Mutant: the filter is only put on the statement for the items.
CountAll(c) ==
  /\ pc[c] = "count"
  /\ total' = [total EXCEPT ![c] = Cardinality(stored)]
  /\ GoTo(c, "select")
  /\ UNCHANGED <<stored, cached, query, wanted, answer, seen, since>>

CountRows(c) ==
  /\ pc[c] = "count"
  /\ total' = [total EXCEPT ![c] = Cardinality(Matching(query[c].filter))]
  /\ GoTo(c, "select")
  /\ UNCHANGED <<stored, cached, query, wanted, answer, seen, since>>

\* The items, and the answer, whose locals end with it.
SelectPage(c) ==
  LET q == query[c] IN
  /\ pc[c] = "select"
  /\ answer' = [answer EXCEPT ![c] =
                  [query |-> q, total |-> total[c], items |-> Page(q),
                   total_pages |-> TotalPages(total[c], q.size)]]
  /\ seen' = [seen EXCEPT ![c] = @ \cup Page(q)]
  /\ query' = [query EXCEPT ![c] = None]
  /\ total' = [total EXCEPT ![c] = 0]
  /\ GoTo(c, "idle")
  /\ UNCHANGED <<stored, cached, wanted, since>>

\* Either statement fails, or the worker dies: c may ask again.
ListFails(c) ==
  /\ pc[c] \in {"count", "select"}
  /\ query' = [query EXCEPT ![c] = None]
  /\ total' = [total EXCEPT ![c] = 0]
  /\ GoTo(c, "idle")
  /\ UNCHANGED <<stored, cached, wanted, answer, seen, since>>

-----------------------------------------------------------------------------
(* A single analysis.                                                      *)

Get(c, a) ==
  /\ pc[c] = "idle"
  /\ wanted' = [wanted EXCEPT ![c] = a]
  /\ GoTo(c, "cache_get")
  /\ UNCHANGED <<stored, cached, query, total, answer, seen, since>>

GetDone(c) ==
  /\ wanted' = [wanted EXCEPT ![c] = None]
  /\ GoTo(c, "idle")

\* The entry only says that nothing needs to be cached: the row is read from
\* the database either way.  A RedisError is a miss.
LookInCache(c) ==
  /\ pc[c] = "cache_get"
  /\ \/ wanted[c] \in cached /\ GoTo(c, "fetch_cached")
     \/ GoTo(c, "fetch")
  /\ UNCHANGED <<stored, cached, query, wanted, total, answer, seen, since>>

FetchCached(c) ==
  /\ pc[c] = "fetch_cached"
  /\ GetDone(c)
  /\ UNCHANGED <<stored, cached, query, total, answer, seen, since>>

\* Mutant: the id is cached whether or not there is a row.
FetchUnchecked(c) ==
  /\ pc[c] = "fetch"
  /\ GoTo(c, "cache_set")
  /\ UNCHANGED <<stored, cached, query, wanted, total, answer, seen, since>>

\* get_by_id: a committed row is completed and has a result, so it is cached.
Fetch(c) ==
  /\ pc[c] = "fetch"
  /\ IF wanted[c] \in stored
       THEN GoTo(c, "cache_set") /\ UNCHANGED wanted
       ELSE GetDone(c)
  /\ UNCHANGED <<stored, cached, query, total, answer, seen, since>>

\* SETEX, whose failure is only logged.
CacheSet(c) ==
  /\ pc[c] = "cache_set"
  /\ cached' \in {cached, cached \cup {wanted[c]}}
  /\ GetDone(c)
  /\ UNCHANGED <<stored, query, total, answer, seen, since>>

\* A statement fails, or the worker dies.
GetFails(c) ==
  /\ pc[c] \in {"cache_get", "fetch_cached", "fetch", "cache_set"}
  /\ GetDone(c)
  /\ UNCHANGED <<stored, cached, query, total, answer, seen, since>>

\* The 24 hours of an entry pass, or it is evicted.
Expire(a) ==
  /\ a \in cached
  /\ cached' = cached \ {a}
  /\ UNCHANGED <<stored, pc, query, wanted, total, answer, seen, since>>

-----------------------------------------------------------------------------

Next ==
  \/ \E a \in Analyses : CommitRow(a) \/ Expire(a)
  \/ \E c \in Clients :
       \/ \E q \in Queries : List(c, q)
       \/ CountRows(c)
       \/ SelectPage(c)
       \/ ListFails(c)
       \/ \E a \in Analyses : Get(c, a)
       \/ LookInCache(c)
       \/ FetchCached(c)
       \/ Fetch(c)
       \/ CacheSet(c)
       \/ GetFails(c)

Spec == Init /\ [][Next]_vars

-----------------------------------------------------------------------------
(* Properties.                                                             *)

Answers ==
  [query : Queries, total : 0 .. Cardinality(Analyses),
   items : SUBSET Analyses, total_pages : Nat]

\* Every variable keeps its type.
TypeOK ==
  /\ stored \subseteq Analyses
  /\ cached \subseteq Analyses
  /\ pc \in [Clients -> {"idle", "count", "select", "cache_get", "fetch_cached",
                        "fetch", "cache_set"}]
  /\ query \in [Clients -> Queries \cup {None}]
  /\ wanted \in [Clients -> Analyses \cup {None}]
  /\ total \in [Clients -> 0 .. Cardinality(Analyses)]
  /\ answer \in [Clients -> Answers \cup {None}]
  /\ seen \in [Clients -> SUBSET Analyses]
  /\ since \in [Clients -> SUBSET Analyses]

\* A client that walks the pages until one is not full has been given every
\* row that was there when it began, whatever is committed meanwhile and
\* wherever it sorts: rows only ever move to later pages.
WalkMissesNothing ==
  \A c \in Clients :
    answer[c] # None /\ Cardinality(answer[c].items) < answer[c].query.size =>
      since[c] \subseteq seen[c]

\* The items of an answer go as far as its own total says, though the two come
\* from different statements: a page is full, or it is shorter than that and
\* with the pages before it makes up the total or more.
ItemsReachTotal ==
  \A c \in Clients :
    LET a == answer[c]
        size == a.query.size
        n == Cardinality(a.items)
    IN a # None => n = size \/ (n < size /\ (a.query.page - 1) * size + n >= a.total)

\* If nothing the filter matches is committed between the two statements, a
\* page has items exactly if its number is at most total_pages.
TotalPagesExact ==
  [][\A c \in Clients :
       LET a == answer'[c] IN
       a # answer[c] /\ a # None /\ a.total = Cardinality(Matching(a.query.filter))
         => (a.items # {} <=> a.query.page <= a.total_pages)]_vars

\* Unlike an entry for a hash, the entry for an id never names a row that is
\* not there.
CachedIsStored == cached \subseteq stored

\* What c has not been given yet of the rows it will want is at n or beyond.
Ahead(c, q, n) ==
  \A a \in since[c] :
    a \in seen[c] \/ (a \in Matching(q.filter) /\ Position(Matching(q.filter), a) >= n)

\* The inductive invariant of a walk: what a client has not been given yet is
\* on the page it asks for or behind it, and the total is not too high.
WalkOK(c) ==
  /\ pc[c] \in {"count", "select"} =>
       query[c] # None /\ Ahead(c, query[c], Offset(query[c]))
  /\ pc[c] = "select" => total[c] <= Cardinality(Matching(query[c].filter))
  /\ answer[c] # None =>
       Ahead(c, answer[c].query, Offset(answer[c].query) + answer[c].query.size)

\* A client that waits for an analysis has asked for one, and only caches an
\* id it has found.
GetOK(c) ==
  /\ pc[c] \in {"cache_get", "fetch_cached", "fetch", "cache_set"} => wanted[c] # None
  /\ pc[c] = "cache_set" => wanted[c] \in stored

RetrievalInv ==
  /\ TypeOK
  /\ CachedIsStored
  /\ \A c \in Clients : WalkOK(c) /\ GetOK(c)

=============================================================================
