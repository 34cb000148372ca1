--------------------------- MODULE ConnectionPool ---------------------------
(***************************************************************************)
(* The database connections of one worker.  A session takes a connection   *)
(* from the pool with its first statement and keeps it until get_db ends   *)
(* it: through the call to the LLM, its attempts and the waits between     *)
(* them, and through a write to Redis.  When all are taken a request       *)
(* waits, for DB_POOL_TIMEOUT at most.                                     *)
(*                                                                         *)
(* Time passes in ticks; what a request is doing takes at most left[r] of  *)
(* them.  What happens to rows and to the cache is AnalysisPipeline's and  *)
(* Retrieval's: here a request is one of four kinds.                       *)
(*   post    an analysis that the cache does not know                      *)
(*   cached  an analysis whose hash is in the cache                        *)
(*   read    a GET of analyses or statistics                               *)
(*   probe   GET /health                                                   *)
(***************************************************************************)
EXTENDS Integers, FiniteSets

CONSTANTS Requests,       \* the requests a worker has at a time
          Size,           \* DB_POOL_SIZE + DB_MAX_OVERFLOW
          PoolTimeout,    \* DB_POOL_TIMEOUT
          StatementTime,  \* what the statements between two waits take
          CallTime,       \* what one call to the LLM takes, by its timeout
          RetryWait,      \* wait_exponential, whose min and max leave it at 2 s
          MaxAttempts,    \* stop_after_attempt
          RedisTime       \* what a call to Redis takes, by the timeouts of the client
                          \* and the one time it tries again

ASSUME RequestsAssumption == IsFiniteSet(Requests)
ASSUME SizeAssumption == Size \in Nat \ {0} /\ MaxAttempts \in Nat \ {0}
ASSUME TimesAssumption ==
  {PoolTimeout, StatementTime, CallTime, RetryWait, RedisTime} \subseteq Nat \ {0}

VARIABLES
  pc,       \* pc[r]: what r waits for
  kind,     \* kind[r]: what r asks for
  conn,     \* conn[r]: r has a connection
  first,    \* first[r]: what became of the first statement of r
  attempt,  \* attempt[r]: the calls r has made to the LLM
  left,     \* left[r]: how long what r waits for may still take
  age       \* history: age[r] is how long ago r came to the pool

vars == <<pc, kind, conn, first, attempt, left, age>>

Kinds == {"post", "cached", "read", "probe"}

\* What became of a first statement; at its failure the request has a 5xx,
\* or the probe's database is unhealthy.
Firsts == {"none", "done", "failed", "timed_out"}

Init ==
  /\ pc = [r \in Requests |-> "idle"]
  /\ kind = [r \in Requests |-> "read"]
  /\ conn = [r \in Requests |-> FALSE]
  /\ first = [r \in Requests |-> "none"]
  /\ attempt = [r \in Requests |-> 0]
  /\ left = [r \in Requests |-> 0]
  /\ age = [r \in Requests |-> 0]

InUse == {r \in Requests : conn[r]}

HasRoom == Cardinality(InUse) < Size

\* r goes on to p, which takes at most time.
GoTo(r, p, time) ==
  /\ pc' = [pc EXCEPT ![r] = p]
  /\ left' = [left EXCEPT ![r] = time]

-----------------------------------------------------------------------------
(* The pool.                                                               *)

\* The first statement: the session asks the pool for a connection.  The
\* cache, which a POST looks into before, is not part of this.
Ask(r, k) ==
  /\ pc[r] = "idle"
  /\ GoTo(r, "checkout", PoolTimeout)
  /\ kind' = [kind EXCEPT ![r] = k]
  /\ UNCHANGED <<conn, first, attempt, age>>

\* Mutant: max_overflow = -1, a pool without a limit.
CheckoutUnlimited(r) ==
  /\ pc[r] = "checkout"
  /\ GoTo(r, "statements", StatementTime)
  /\ conn' = [conn EXCEPT ![r] = TRUE]
  /\ UNCHANGED <<kind, first, attempt, age>>

\* Whoever waits may be the next: a connection that is put back wakes one
\* waiter, but one that has just come may take it first.
Checkout(r) ==
  /\ pc[r] = "checkout"
  /\ HasRoom
  /\ GoTo(r, "statements", StatementTime)
  /\ conn' = [conn EXCEPT ![r] = TRUE]
  /\ UNCHANGED <<kind, first, attempt, age>>

\* Mutant: whoever is not given a connection asks again.
CheckoutAgain(r) ==
  /\ pc[r] = "checkout"
  /\ left[r] = 0
  /\ GoTo(r, "checkout", PoolTimeout)
  /\ UNCHANGED <<kind, conn, first, attempt, age>>

\* sqlalchemy.exc.TimeoutError, which is no OperationalError: the answer is a
\* 500.  Only the probe catches it and goes on.
CheckoutTimesOut(r) ==
  /\ pc[r] = "checkout"
  /\ left[r] = 0
  /\ first' = [first EXCEPT ![r] = "timed_out"]
  /\ IF kind[r] = "probe" THEN GoTo(r, "ping", RedisTime)
                          ELSE GoTo(r, "ending", StatementTime)
  /\ UNCHANGED <<kind, conn, attempt, age>>

-----------------------------------------------------------------------------
(* What a session does with its connection.                                *)

\* The statements before anything else is waited for.  A POST that finds a
\* stored analysis is done then, as is everything but a POST and a probe; the
\* id of a scenario found, or of a completed analysis read, goes to the cache.
StatementsDone(r) ==
  /\ pc[r] = "statements"
  /\ first' = [first EXCEPT ![r] = "done"]
  /\ \/ kind[r] # "probe" /\ GoTo(r, "ending", StatementTime) /\ UNCHANGED attempt
     \/ kind[r] \in {"post", "read"} /\ GoTo(r, "caching", RedisTime) /\ UNCHANGED attempt
     \/ /\ kind[r] = "post"
        /\ GoTo(r, "llm", CallTime)
        /\ attempt' = [attempt EXCEPT ![r] = 1]
     \/ kind[r] = "probe" /\ GoTo(r, "ping", RedisTime) /\ UNCHANGED attempt
  /\ UNCHANGED <<kind, conn, age>>

\* One of them fails, or the connection cannot be opened after all, which
\* gives its place back.
StatementsFail(r) ==
  /\ pc[r] = "statements"
  /\ first' = [first EXCEPT ![r] = "failed"]
  /\ conn' \in {conn, [conn EXCEPT ![r] = FALSE]}
  /\ IF kind[r] = "probe" THEN GoTo(r, "ping", RedisTime)
                          ELSE GoTo(r, "ending", StatementTime)
  /\ UNCHANGED <<kind, attempt, age>>

\* The call is answered, or fails in a way that is not tried again.
CallReturns(r) ==
  /\ pc[r] = "llm"
  /\ GoTo(r, "finishing", StatementTime)
  /\ UNCHANGED <<kind, conn, first, attempt, age>>

\* A connection error, a timeout or a 5xx: it is tried again, or the last
\* exception is raised.
CallFails(r) ==
  /\ pc[r] = "llm"
  /\ IF attempt[r] < MaxAttempts THEN GoTo(r, "pause", RetryWait)
                                 ELSE GoTo(r, "finishing", StatementTime)
  /\ UNCHANGED <<kind, conn, first, attempt, age>>

\* Mutant: the attempts are not counted.
RetryUncounted(r) ==
  /\ pc[r] = "pause"
  /\ left[r] = 0
  /\ GoTo(r, "llm", CallTime)
  /\ UNCHANGED <<kind, conn, first, attempt, age>>

Retry(r) ==
  /\ pc[r] = "pause"
  /\ left[r] = 0
  /\ GoTo(r, "llm", CallTime)
  /\ attempt' = [attempt EXCEPT ![r] = @ + 1]
  /\ UNCHANGED <<kind, conn, first, age>>

\* mark_completed is done and the result goes to the cache; or mark_failed is,
\* or one of the two fails.
Finish(r) ==
  /\ pc[r] = "finishing"
  /\ GoTo(r, "caching", RedisTime) \/ GoTo(r, "ending", StatementTime)
  /\ UNCHANGED <<kind, conn, first, attempt, age>>

\* Redis has taken the id, or a RedisError is caught; a mark_failed for a row
\* that is no response is one of the statements that end the request.
CacheDone(r) ==
  /\ pc[r] = "caching"
  /\ GoTo(r, "ending", StatementTime)
  /\ UNCHANGED <<kind, conn, first, attempt, age>>

\* The probe's PING is answered or fails; it has kept its connection, if it
\* was given one.
PingDone(r) ==
  /\ pc[r] = "ping"
  /\ GoTo(r, "ending", StatementTime)
  /\ UNCHANGED <<kind, conn, first, attempt, age>>

\* Mutant: the session is not closed.
LeaveOpen(r) ==
  /\ GoTo(r, "idle", 0)
  /\ kind' = [kind EXCEPT ![r] = "read"]
  /\ first' = [first EXCEPT ![r] = "none"]
  /\ attempt' = [attempt EXCEPT ![r] = 0]
  /\ age' = [age EXCEPT ![r] = 0]
  /\ UNCHANGED conn

\* finally: the session is closed and its connection put back.  The locals of
\* the request end with it.
Leave(r) ==
  /\ GoTo(r, "idle", 0)
  /\ conn' = [conn EXCEPT ![r] = FALSE]
  /\ kind' = [kind EXCEPT ![r] = "read"]
  /\ first' = [first EXCEPT ![r] = "none"]
  /\ attempt' = [attempt EXCEPT ![r] = 0]
  /\ age' = [age EXCEPT ![r] = 0]

\* The last statements, commit or rollback, and the answer.
End(r) == pc[r] = "ending" /\ Leave(r)

\* The request is cancelled wherever it is.
Cancel(r) == pc[r] # "idle" /\ Leave(r)

\* The worker dies and its pool with it.  What comes after is the pool of
\* another worker, which Deployment starts only with a new container.
Crash ==
  /\ pc' = [r \in Requests |-> "idle"]
  /\ kind' = [r \in Requests |-> "read"]
  /\ conn' = [r \in Requests |-> FALSE]
  /\ first' = [r \in Requests |-> "none"]
  /\ attempt' = [r \in Requests |-> 0]
  /\ left' = [r \in Requests |-> 0]
  /\ age' = [r \in Requests |-> 0]

\* A second passes, if nothing is due before.
Tick ==
  /\ \A r \in Requests : pc[r] # "idle" => left[r] > 0
  /\ ~ (HasRoom /\ \E r \in Requests : pc[r] = "checkout")
  /\ \E r \in Requests : pc[r] # "idle"
  /\ left' = [r \in Requests |-> IF pc[r] = "idle" THEN 0 ELSE left[r] - 1]
  /\ age' = [r \in Requests |-> IF pc[r] = "idle" THEN 0 ELSE age[r] + 1]
  /\ UNCHANGED <<pc, kind, conn, first, attempt>>

\* What a request does when what it waits for is there.
Step(r) ==
  \/ Checkout(r) \/ CheckoutTimesOut(r)
  \/ StatementsDone(r) \/ StatementsFail(r)
  \/ CallReturns(r) \/ CallFails(r) \/ Retry(r) \/ Finish(r)
  \/ CacheDone(r) \/ PingDone(r)
  \/ End(r)

Next ==
  \/ \E r \in Requests : Step(r) \/ Cancel(r) \/ \E k \in Kinds : Ask(r, k)
  \/ Crash
  \/ Tick

Spec == Init /\ [][Next]_vars

\* Time does not stop: not infinitely many requests come at one moment.
TimePasses == []<><<Tick>>_vars \/ []<>(\A r \in Requests : pc[r] = "idle")

\* Every wait ends, and time goes on.
FairSpec == Spec /\ TimePasses /\ \A r \in Requests : WF_vars(Step(r))

-----------------------------------------------------------------------------
(* Properties.                                                             *)

\* Every variable keeps its type.
TypeOK ==
  /\ pc \in [Requests -> {"idle", "checkout", "statements", "llm", "pause",
                         "finishing", "caching", "ping", "ending"}]
  /\ kind \in [Requests -> Kinds]
  /\ conn \in [Requests -> BOOLEAN]
  /\ first \in [Requests -> Firsts]
  /\ attempt \in [Requests -> 0 .. MaxAttempts]
  /\ left \in [Requests -> Nat]
  /\ age \in [Requests -> Nat]

\* A connection is only kept by a request that is past the pool, and every
\* way out of a request gives it back: while r waits for a connection it has
\* none, so no two requests wait for each other.
NothingKept ==
  \A r \in Requests : pc[r] \in {"idle", "checkout"} => ~conn[r]

\* No more connections than the pool has, and so, since a POST keeps its
\* connection while it waits for the LLM, no more calls to the LLM either.
PoolBoundsCalls ==
  /\ Cardinality(InUse) <= Size
  /\ Cardinality({r \in Requests : pc[r] \in {"llm", "pause"}}) <= Size

\* What n calls take, with the waits between them.
CallsTime(n) == n * CallTime + (n - 1) * RetryWait

\* What the analysis that a POST may cause takes until its row is updated.
Analysing(r) ==
  IF kind[r] = "post" THEN CallsTime(MaxAttempts) + StatementTime ELSE 0

\* How long after it came to the pool r goes on from where it is, at the latest.
Due(r) ==
  LET started == PoolTimeout + StatementTime IN
  CASE pc[r] = "checkout"   -> PoolTimeout
    [] pc[r] = "statements" -> started
    [] pc[r] = "llm"        -> started + CallsTime(attempt[r])
    [] pc[r] = "pause"      -> started + CallsTime(attempt[r]) + RetryWait
    [] pc[r] = "finishing"  -> started + CallsTime(MaxAttempts) + StatementTime
    [] pc[r] = "ping"       -> started + RedisTime
    [] pc[r] = "caching"    -> started + RedisTime + Analysing(r)
    [] OTHER -> started + StatementTime + Analysing(r)
                + IF kind[r] = "cached" THEN 0 ELSE RedisTime

\* However many requests there are, one is answered within the time of the wait
\* for a connection, of its statements and, unless its answer was cached, of one
\* call to Redis; a POST within that of its calls and the waits between them too.
AnsweredInTime ==
  \A r \in Requests :
    pc[r] # "idle" =>
      age[r] <= PoolTimeout + 2 * StatementTime
                + CASE kind[r] = "post"   -> StatementTime + CallsTime(MaxAttempts) + RedisTime
                    [] kind[r] = "cached" -> 0
                    [] OTHER              -> RedisTime

\* The inductive invariant: what a request may have and how late it can be.
RequestOK(r) ==
  /\ pc[r] \in {"idle", "checkout"} => ~conn[r]
  /\ pc[r] \in {"llm", "pause", "finishing"} => kind[r] = "post"
  /\ pc[r] \in {"statements", "llm", "pause", "finishing", "caching"} => conn[r]
  /\ pc[r] = "caching" => kind[r] \in {"post", "read"}
  /\ pc[r] = "ping" => kind[r] = "probe"
  /\ pc[r] \in {"llm", "pause"} => attempt[r] >= 1
  /\ pc[r] = "pause" => attempt[r] < MaxAttempts
  /\ pc[r] = "idle" => age[r] = 0
  /\ pc[r] # "idle" => age[r] + left[r] <= Due(r)

PoolInv ==
  /\ TypeOK
  /\ Cardinality(InUse) <= Size
  /\ \A r \in Requests : RequestOK(r)

\* A pool that is full does not stay full: whoever has a connection ends, or is
\* given up, however often a call is tried.
RoomAgain == ~HasRoom ~> HasRoom

=============================================================================
