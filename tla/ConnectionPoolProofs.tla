------------------------ MODULE ConnectionPoolProofs ------------------------
(***************************************************************************)
(* No connection is lost, no more calls to the LLM are under way than the  *)
(* pool has connections, and every request is answered in a time that does *)
(* not depend on how many there are; so a full pool has room again.        *)
(***************************************************************************)
EXTENDS ConnectionPool, SubsequencesProofs

\* The times and the numbers are positive.
LEMMA Constants ==
  /\ Size \in Nat /\ Size > 0 /\ MaxAttempts \in Nat /\ MaxAttempts > 0
  /\ PoolTimeout \in Nat /\ StatementTime \in Nat /\ CallTime \in Nat
  /\ RetryWait \in Nat /\ RedisTime \in Nat
BY SizeAssumption, TimesAssumption

\* Another call adds its time and the wait before it, and more calls never
\* take less.
LEMMA CallsTimeGrows ==
  ASSUME NEW n \in Nat, n >= 1
  PROVE  /\ CallsTime(n) \in Nat
         /\ CallsTime(1) = CallTime
         /\ CallsTime(n + 1) = CallsTime(n) + RetryWait + CallTime
         /\ n <= MaxAttempts => CallsTime(n) <= CallsTime(MaxAttempts)
         /\ CallsTime(MaxAttempts) \in Nat
<1>1. \A i, j \in Nat : i * j \in Nat
  OBVIOUS
<1>2. n - 1 \in Nat /\ MaxAttempts - 1 \in Nat
  BY Constants
<1>3. \A i, j, k \in Nat : i <= j => i * k <= j * k
  OBVIOUS
<1>4. CallsTime(n) \in Nat /\ CallsTime(MaxAttempts) \in Nat
  BY <1>1, <1>2, Constants DEF CallsTime
<1>5. CallsTime(1) = CallTime
  BY Constants DEF CallsTime
<1>6. CallsTime(n + 1) = CallsTime(n) + RetryWait + CallTime
  <2>1. (n + 1) * CallTime = n * CallTime + CallTime
    BY Constants
  <2>2. (n + 1) - 1 = (n - 1) + 1 /\ ((n - 1) + 1) * RetryWait = (n - 1) * RetryWait + RetryWait
    BY <1>2, Constants
  <2>3. n * CallTime \in Nat /\ (n - 1) * RetryWait \in Nat
    BY <1>1, <1>2, Constants
  <2> QED BY <2>1, <2>2, <2>3, Constants DEF CallsTime
<1>7. ASSUME n <= MaxAttempts
      PROVE  CallsTime(n) <= CallsTime(MaxAttempts)
  <2>1. n * CallTime <= MaxAttempts * CallTime
    BY <1>3, <1>7, Constants
  <2>2. (n - 1) * RetryWait <= (MaxAttempts - 1) * RetryWait
    BY <1>2, <1>3, <1>7, Constants
  <2>3. /\ n * CallTime \in Nat /\ MaxAttempts * CallTime \in Nat
        /\ (n - 1) * RetryWait \in Nat /\ (MaxAttempts - 1) * RetryWait \in Nat
    BY <1>1, <1>2, Constants
  <2> QED BY <2>1, <2>2, <2>3 DEF CallsTime
<1> QED BY <1>4, <1>5, <1>6, <1>7

\* The connections in use are a finite set of requests.
LEMMA InUseFinite == IsFiniteSet(InUse) /\ Cardinality(InUse) \in Nat
<1>1. InUse \in SUBSET Requests
  BY DEF InUse
<1> QED BY <1>1, RequestsAssumption, FS_Subset, FS_CardinalityType

\* A step that takes no connection leaves room for those in use.
LEMMA NoneTaken ==
  ASSUME PoolInv, \A r \in Requests : conn'[r] => conn[r]
  PROVE  Cardinality(InUse)' <= Size
<1>1. InUse' \subseteq InUse
  BY DEF InUse
<1>2. Cardinality(InUse') <= Cardinality(InUse) /\ Cardinality(InUse') \in Nat
  BY <1>1, InUseFinite, FS_Subset, FS_CardinalityType
<1> QED BY <1>2, InUseFinite, Constants DEF PoolInv

\* What is known of a request still is if a step does not touch it.
LEMMA Untouched ==
  ASSUME PoolInv, NEW d \in Requests,
         pc'[d] = pc[d], kind'[d] = kind[d], conn'[d] = conn[d],
         attempt'[d] = attempt[d], left'[d] = left[d], age'[d] = age[d]
  PROVE  RequestOK(d)'
BY DEF PoolInv, RequestOK, Due, Analysing

\* r goes on to p, which is due in time for the invariant.
LEMMA MovesOn ==
  ASSUME PoolInv, TypeOK', NEW r \in Requests,
         \A d \in Requests \ {r} :
           /\ pc'[d] = pc[d] /\ kind'[d] = kind[d] /\ conn'[d] = conn[d]
           /\ attempt'[d] = attempt[d] /\ left'[d] = left[d] /\ age'[d] = age[d],
         conn'[r] => conn[r],
         RequestOK(r)'
  PROVE  PoolInv'
<1>1. \A d \in Requests : RequestOK(d)'
  BY Untouched
<1>2. Cardinality(InUse)' <= Size
  BY NoneTaken
<1> QED BY <1>1, <1>2 DEF PoolInv

\* The invariant holds at the start.
LEMMA InitInv == Init => PoolInv
<1> SUFFICES ASSUME Init PROVE PoolInv
  OBVIOUS
<1>1. TypeOK
  BY Constants DEF Init, TypeOK, Kinds, Firsts
<1>2. InUse = {}
  BY DEF Init, InUse
<1>3. Cardinality(InUse) <= Size
  BY <1>2, FS_EmptySet, Constants
<1> QED BY <1>1, <1>3 DEF Init, PoolInv, RequestOK

\* A request comes to the pool.
LEMMA AskInv ==
  ASSUME PoolInv, NEW r \in Requests, NEW k \in Kinds, Ask(r, k)
  PROVE  PoolInv'
<1>1. TypeOK'
  BY Constants DEF PoolInv, TypeOK, Ask, GoTo
<1>2. /\ pc'[r] = "checkout" /\ left'[r] = PoolTimeout /\ age'[r] = 0
      /\ conn'[r] = conn[r] /\ ~conn[r]
  BY DEF PoolInv, TypeOK, RequestOK, Ask, GoTo
<1>3. RequestOK(r)'
  BY <1>2, Constants DEF RequestOK, Due, Analysing
<1> QED BY <1>1, <1>2, <1>3, MovesOn DEF PoolInv, TypeOK, Ask, GoTo

\* A connection is taken while there is room.
LEMMA CheckoutInv ==
  ASSUME PoolInv, NEW r \in Requests, Checkout(r)
  PROVE  PoolInv'
<1>1. TypeOK'
  BY Constants DEF PoolInv, TypeOK, Checkout, GoTo
<1>2. /\ pc'[r] = "statements" /\ left'[r] = StatementTime /\ age'[r] = age[r]
      /\ conn'[r] /\ pc[r] = "checkout" /\ ~conn[r]
      /\ age[r] \in Nat /\ left[r] \in Nat
  BY DEF PoolInv, TypeOK, RequestOK, Checkout, GoTo
<1>3. age[r] + left[r] <= PoolTimeout
  BY <1>2 DEF PoolInv, RequestOK, Due
<1>4. RequestOK(r)'
  BY <1>2, <1>3, Constants DEF RequestOK, Due, Analysing
<1>5. \A d \in Requests : RequestOK(d)'
  BY <1>4, Untouched DEF PoolInv, TypeOK, Checkout, GoTo
<1>6. InUse' = InUse \cup {r} /\ r \notin InUse
  BY <1>2 DEF PoolInv, TypeOK, InUse, Checkout, GoTo
<1>7. Cardinality(InUse') = Cardinality(InUse) + 1
  BY <1>6, InUseFinite, FS_AddElement
<1>8. Cardinality(InUse)' <= Size
  BY <1>7, InUseFinite, Constants DEF Checkout, HasRoom
<1> QED BY <1>1, <1>5, <1>8 DEF PoolInv

\* The wait for a connection ends without one.
LEMMA CheckoutTimesOutInv ==
  ASSUME PoolInv, NEW r \in Requests, CheckoutTimesOut(r)
  PROVE  PoolInv'
<1>1. TypeOK'
  BY Constants DEF PoolInv, TypeOK, CheckoutTimesOut, GoTo, Firsts
<1>2. /\ age'[r] = age[r] /\ kind'[r] = kind[r] /\ conn'[r] = conn[r] /\ kind[r] \in Kinds
      /\ IF kind[r] = "probe" THEN pc'[r] = "ping" /\ left'[r] = RedisTime
                              ELSE pc'[r] = "ending" /\ left'[r] = StatementTime
      /\ pc[r] = "checkout" /\ age[r] \in Nat /\ left[r] = 0
  BY DEF PoolInv, TypeOK, CheckoutTimesOut, GoTo
<1>3. age[r] <= PoolTimeout
  BY <1>2 DEF PoolInv, RequestOK, Due
<1>4. CallsTime(MaxAttempts) \in Nat
  BY CallsTimeGrows
<1>5. RequestOK(r)'
  BY <1>2, <1>3, <1>4, Constants DEF RequestOK, Due, Analysing
<1> QED BY <1>1, <1>2, <1>5, MovesOn DEF PoolInv, TypeOK, CheckoutTimesOut, GoTo

\* The first statements are done.
LEMMA StatementsDoneInv ==
  ASSUME PoolInv, NEW r \in Requests, StatementsDone(r)
  PROVE  PoolInv'
<1>1. TypeOK'
  BY Constants DEF PoolInv, TypeOK, StatementsDone, GoTo, Firsts
<1>2. /\ age'[r] = age[r] /\ kind'[r] = kind[r] /\ conn'[r] = conn[r]
      /\ pc[r] = "statements" /\ age[r] \in Nat /\ left[r] \in Nat
      /\ \/ kind[r] # "probe" /\ pc'[r] = "ending" /\ left'[r] = StatementTime
         \/ /\ kind[r] \in {"post", "read"} /\ pc'[r] = "caching"
            /\ left'[r] = RedisTime
         \/ /\ kind[r] = "post" /\ pc'[r] = "llm" /\ left'[r] = CallTime
            /\ attempt'[r] = 1
         \/ kind[r] = "probe" /\ pc'[r] = "ping" /\ left'[r] = RedisTime
  BY DEF PoolInv, TypeOK, StatementsDone, GoTo
<1>3. age[r] <= PoolTimeout + StatementTime /\ conn[r]
  BY <1>2, Constants DEF PoolInv, RequestOK, Due
<1>4. CallsTime(MaxAttempts) \in Nat /\ CallsTime(1) = CallTime
  BY CallsTimeGrows
<1>5. RequestOK(r)'
  BY <1>2, <1>3, <1>4, Constants DEF RequestOK, Due, Analysing
<1> QED BY <1>1, <1>2, <1>5, MovesOn DEF PoolInv, TypeOK, StatementsDone, GoTo

\* They fail.
LEMMA StatementsFailInv ==
  ASSUME PoolInv, NEW r \in Requests, StatementsFail(r)
  PROVE  PoolInv'
<1>1. TypeOK'
  BY Constants DEF PoolInv, TypeOK, StatementsFail, GoTo, Firsts
<1>2. /\ age'[r] = age[r] /\ kind'[r] = kind[r]
      /\ IF kind[r] = "probe" THEN pc'[r] = "ping" /\ left'[r] = RedisTime
                              ELSE pc'[r] = "ending" /\ left'[r] = StatementTime
      /\ pc[r] = "statements" /\ age[r] \in Nat /\ left[r] \in Nat /\ kind[r] \in Kinds
  BY DEF PoolInv, TypeOK, StatementsFail, GoTo
<1>3. age[r] <= PoolTimeout + StatementTime /\ conn[r]
  BY <1>2, Constants DEF PoolInv, RequestOK, Due
<1>4. CallsTime(MaxAttempts) \in Nat
  BY CallsTimeGrows
<1>5. RequestOK(r)'
  BY <1>2, <1>3, <1>4, Constants DEF RequestOK, Due, Analysing
<1> QED BY <1>1, <1>3, <1>5, MovesOn DEF PoolInv, TypeOK, StatementsFail, GoTo

\* A call to the LLM ends.
LEMMA CallEndsInv ==
  ASSUME PoolInv, NEW r \in Requests, CallReturns(r) \/ CallFails(r)
  PROVE  PoolInv'
<1>1. TypeOK'
  BY Constants DEF PoolInv, TypeOK, CallReturns, CallFails, GoTo
<1>2. /\ age'[r] = age[r] /\ kind'[r] = kind[r] /\ conn'[r] = conn[r]
      /\ attempt'[r] = attempt[r]
      /\ \/ pc'[r] = "finishing" /\ left'[r] = StatementTime
         \/ pc'[r] = "pause" /\ left'[r] = RetryWait /\ attempt[r] < MaxAttempts
      /\ pc[r] = "llm" /\ age[r] \in Nat /\ left[r] \in Nat
      /\ attempt[r] \in Nat /\ attempt[r] <= MaxAttempts
  BY Constants DEF PoolInv, TypeOK, CallReturns, CallFails, GoTo
<1>3. /\ age[r] <= PoolTimeout + StatementTime + CallsTime(attempt[r])
      /\ conn[r] /\ kind[r] = "post" /\ attempt[r] >= 1
      /\ CallsTime(attempt[r]) \in Nat
      /\ CallsTime(attempt[r]) <= CallsTime(MaxAttempts)
      /\ CallsTime(MaxAttempts) \in Nat
  <2>1. /\ age[r] + left[r] <= PoolTimeout + StatementTime + CallsTime(attempt[r])
        /\ conn[r] /\ kind[r] = "post" /\ attempt[r] >= 1
    BY <1>2 DEF PoolInv, RequestOK, Due
  <2>2. /\ CallsTime(attempt[r]) \in Nat
        /\ CallsTime(attempt[r]) <= CallsTime(MaxAttempts)
        /\ CallsTime(MaxAttempts) \in Nat
    BY <1>2, <2>1, CallsTimeGrows
  <2> QED BY <1>2, <2>1, <2>2, Constants
<1>4. RequestOK(r)'
  BY <1>2, <1>3, Constants DEF RequestOK, Due, Analysing
<1> QED BY <1>1, <1>2, <1>4, MovesOn
        DEF PoolInv, TypeOK, CallReturns, CallFails, GoTo

\* The LLM is called again.
LEMMA RetryInv ==
  ASSUME PoolInv, NEW r \in Requests, Retry(r)
  PROVE  PoolInv'
<1>1. /\ age'[r] = age[r] /\ kind'[r] = kind[r] /\ conn'[r] = conn[r]
      /\ attempt'[r] = attempt[r] + 1 /\ pc'[r] = "llm" /\ left'[r] = CallTime
      /\ pc[r] = "pause" /\ age[r] \in Nat /\ left[r] = 0 /\ attempt[r] \in Nat
  BY Constants DEF PoolInv, TypeOK, Retry, GoTo
<1>2. /\ age[r] <= PoolTimeout + StatementTime + CallsTime(attempt[r]) + RetryWait
      /\ conn[r] /\ kind[r] = "post" /\ attempt[r] >= 1 /\ attempt[r] < MaxAttempts
  BY <1>1 DEF PoolInv, RequestOK, Due
<1>3. TypeOK'
  BY <1>1, <1>2, Constants DEF PoolInv, TypeOK, Retry, GoTo
<1>4. /\ CallsTime(attempt[r]) \in Nat
      /\ CallsTime(attempt[r] + 1) = CallsTime(attempt[r]) + RetryWait + CallTime
  BY <1>1, <1>2, CallsTimeGrows
<1>5. age'[r] + left'[r] <= PoolTimeout + StatementTime + CallsTime(attempt'[r])
  BY <1>1, <1>2, <1>4, Constants
<1>6. RequestOK(r)'
  BY <1>1, <1>2, <1>5 DEF RequestOK, Due, CallsTime
<1> QED BY <1>1, <1>3, <1>6, MovesOn DEF PoolInv, TypeOK, Retry, GoTo

\* The row of the analysis is updated, the cache is written or the PING is done.
LEMMA FinishInv ==
  ASSUME PoolInv, NEW r \in Requests, Finish(r) \/ CacheDone(r) \/ PingDone(r)
  PROVE  PoolInv'
<1>1. TypeOK'
  BY Constants DEF PoolInv, TypeOK, Finish, CacheDone, PingDone, GoTo
<1>2. /\ age'[r] = age[r] /\ kind'[r] = kind[r] /\ conn'[r] = conn[r]
      /\ \/ /\ pc[r] = "finishing" /\ pc'[r] = "caching"
            /\ left'[r] = RedisTime
         \/ /\ pc[r] \in {"finishing", "caching", "ping"} /\ pc'[r] = "ending"
            /\ left'[r] = StatementTime
      /\ age[r] \in Nat /\ left[r] \in Nat /\ kind[r] \in Kinds
  BY DEF PoolInv, TypeOK, Finish, CacheDone, PingDone, GoTo
<1>3. /\ pc[r] = "finishing" =>
            kind[r] = "post" /\ age[r] + left[r] <= PoolTimeout + StatementTime
                                  + CallsTime(MaxAttempts) + StatementTime
      /\ pc[r] = "finishing" => conn[r]
      /\ pc[r] = "caching" =>
            /\ kind[r] \in {"post", "read"}
            /\ age[r] + left[r] <= PoolTimeout + StatementTime + RedisTime + Analysing(r)
      /\ pc[r] = "ping" =>
            kind[r] = "probe" /\ age[r] + left[r] <= PoolTimeout + StatementTime + RedisTime
  BY <1>2 DEF PoolInv, RequestOK, Due
<1>4. CallsTime(MaxAttempts) \in Nat
  BY CallsTimeGrows
<1>5. RequestOK(r)'
  BY <1>2, <1>3, <1>4, Constants DEF RequestOK, Due, Analysing
<1> QED BY <1>1, <1>2, <1>5, MovesOn DEF PoolInv, TypeOK, Finish, CacheDone, PingDone, GoTo

\* A request ends, and its connection is put back.
LEMMA LeaveInv ==
  ASSUME PoolInv, NEW r \in Requests, Leave(r)
  PROVE  PoolInv'
<1>1. TypeOK'
  BY Constants DEF PoolInv, TypeOK, Leave, GoTo, Kinds, Firsts
<1>2. pc'[r] = "idle" /\ ~conn'[r] /\ age'[r] = 0
  BY DEF PoolInv, TypeOK, Leave, GoTo
<1>3. RequestOK(r)'
  BY <1>2 DEF RequestOK
<1> QED BY <1>1, <1>2, <1>3, MovesOn DEF PoolInv, TypeOK, Leave, GoTo

\* The worker dies.
LEMMA CrashInv ==
  ASSUME PoolInv, Crash
  PROVE  PoolInv'
<1>1. TypeOK'
  BY Constants DEF TypeOK, Crash, Kinds, Firsts
<1>2. \A r \in Requests : RequestOK(r)' /\ ~conn'[r]
  BY DEF RequestOK, Crash
<1>3. Cardinality(InUse)' <= Size
  BY <1>2, NoneTaken
<1> QED BY <1>1, <1>2, <1>3 DEF PoolInv

\* A second passes: what was due after it still is.
LEMMA TickInv ==
  ASSUME PoolInv, Tick
  PROVE  PoolInv'
<1>1. \A r \in Requests : pc[r] # "idle" => left[r] - 1 \in Nat
  BY DEF PoolInv, TypeOK, Tick
<1>2. TypeOK'
  BY <1>1 DEF PoolInv, TypeOK, Tick
<1>3. ASSUME NEW r \in Requests
      PROVE  RequestOK(r)'
  <2>1. /\ pc'[r] = pc[r] /\ kind'[r] = kind[r] /\ conn'[r] = conn[r]
        /\ attempt'[r] = attempt[r] /\ RequestOK(r)
    BY DEF PoolInv, Tick
  <2>2. Due(r)' = Due(r)
    BY <2>1 DEF Due, Analysing
  <2>3. CASE pc[r] = "idle"
    BY <2>1, <2>3 DEF RequestOK, Tick
  <2>4. CASE pc[r] # "idle"
    <3>1. left'[r] = left[r] - 1 /\ age'[r] = age[r] + 1 /\ left[r] \in Nat /\ age[r] \in Nat
      BY <2>4 DEF Tick, PoolInv, TypeOK
    <3>2. age'[r] + left'[r] = age[r] + left[r]
      BY <3>1
    <3> QED BY <2>1, <2>2, <2>4, <3>2 DEF RequestOK
  <2> QED BY <2>3, <2>4
<1>4. Cardinality(InUse)' <= Size
  BY NoneTaken DEF Tick
<1> QED BY <1>2, <1>3, <1>4 DEF PoolInv

\* Every step keeps the invariant.
LEMMA NextInv == PoolInv /\ [Next]_vars => PoolInv'
<1> SUFFICES ASSUME PoolInv, [Next]_vars
             PROVE  PoolInv'
  OBVIOUS
<1>1. ASSUME NEW r \in Requests, Step(r)
      PROVE  PoolInv'
  BY <1>1, CheckoutInv, CheckoutTimesOutInv, StatementsDoneInv, StatementsFailInv,
     CallEndsInv, RetryInv, FinishInv, LeaveInv DEF Step, End
<1>2. ASSUME NEW r \in Requests, Cancel(r)
      PROVE  PoolInv'
  BY <1>2, LeaveInv DEF Cancel
<1>3. ASSUME NEW r \in Requests, NEW k \in Kinds, Ask(r, k)
      PROVE  PoolInv'
  BY <1>3, AskInv
<1>4. ASSUME UNCHANGED vars
      PROVE  PoolInv'
  <2>1. TypeOK' /\ Cardinality(InUse)' <= Size
    BY <1>4 DEF PoolInv, TypeOK, InUse, vars
  <2>2. \A r \in Requests : RequestOK(r)'
    BY <1>4, Untouched DEF vars
  <2> QED BY <2>1, <2>2 DEF PoolInv
<1> QED BY <1>1, <1>2, <1>3, <1>4, CrashInv, TickInv DEF Next

-----------------------------------------------------------------------------

\* The inductive invariant: at whatever a request waits, what it has and how
\* late it can be.
THEOREM PoolInvariant == Spec => []PoolInv
BY InitInv, NextInv, PTL DEF Spec

\* Types of all variables, and no more than MaxAttempts calls.
THEOREM TypeCorrect == Spec => []TypeOK
<1>1. PoolInv => TypeOK
  BY DEF PoolInv
<1> QED BY <1>1, PoolInvariant, PTL

\* Every way out of a request gives its connection back, and none is kept
\* while waiting for another.
THEOREM NothingIsKept == Spec => []NothingKept
<1>1. PoolInv => NothingKept
  BY DEF PoolInv, RequestOK, NothingKept
<1> QED BY <1>1, PoolInvariant, PTL

\* The pool bounds the connections in use, and with them the calls to the
\* LLM under way.
THEOREM CallsBounded == Spec => []PoolBoundsCalls
<1>1. PoolInv => PoolBoundsCalls
  <2> SUFFICES ASSUME PoolInv
               PROVE  PoolBoundsCalls
    OBVIOUS
  <2> DEFINE Calling == {r \in Requests : pc[r] \in {"llm", "pause"}}
  <2>1. Calling \subseteq InUse
    BY DEF PoolInv, RequestOK, InUse
  <2>2. Cardinality(Calling) <= Cardinality(InUse) /\ Cardinality(Calling) \in Nat
    BY <2>1, InUseFinite, FS_Subset, FS_CardinalityType
  <2>3. Cardinality(InUse) <= Size
    BY DEF PoolInv
  <2> QED BY <2>2, <2>3, InUseFinite, Constants DEF PoolBoundsCalls
<1> QED BY <1>1, PoolInvariant, PTL

\* The invariant says how late a request can be.
LEMMA InTime == PoolInv => AnsweredInTime
<1> SUFFICES ASSUME PoolInv, NEW r \in Requests, pc[r] # "idle"
             PROVE  age[r] <= PoolTimeout + 2 * StatementTime
                      + CASE kind[r] = "post"   -> StatementTime + CallsTime(MaxAttempts) + RedisTime
                          [] kind[r] = "cached" -> 0
                          [] OTHER              -> RedisTime
  BY DEF AnsweredInTime
<1>1. /\ age[r] \in Nat /\ left[r] \in Nat /\ attempt[r] \in Nat
      /\ attempt[r] <= MaxAttempts /\ RequestOK(r) /\ kind[r] \in Kinds
      /\ pc[r] \in {"checkout", "statements", "llm", "pause", "finishing", "caching", "ping",
                   "ending"}
  BY Constants DEF PoolInv, TypeOK
<1>2. CallsTime(MaxAttempts) \in Nat
  BY CallsTimeGrows
<1>3. pc[r] \in {"llm", "pause"} =>
        /\ CallsTime(attempt[r]) \in Nat
        /\ CallsTime(attempt[r]) <= CallsTime(MaxAttempts)
  BY <1>1, CallsTimeGrows DEF RequestOK
<1>4. age[r] <= Due(r)
  <2>1. age[r] + left[r] <= Due(r)
    BY <1>1 DEF RequestOK
  <2>2. Due(r) \in Int
    BY <1>1, <1>2, <1>3, Constants DEF Due, Analysing
  <2> QED BY <1>1, <2>1, <2>2
<1>5. CASE pc[r] \in {"checkout", "statements", "caching", "ping", "ending"}
  BY <1>1, <1>2, <1>4, <1>5, Constants DEF Due, RequestOK, Analysing, Kinds
<1>6. CASE pc[r] \in {"llm", "finishing"}
  BY <1>1, <1>2, <1>3, <1>4, <1>6, Constants DEF Due, RequestOK
<1>7. CASE pc[r] = "pause"
  <2>1. /\ CallsTime(attempt[r] + 1) = CallsTime(attempt[r]) + RetryWait + CallTime
        /\ CallsTime(attempt[r] + 1) <= CallsTime(MaxAttempts)
    BY <1>1, <1>7, CallsTimeGrows, Constants DEF RequestOK
  <2> QED BY <1>1, <1>2, <1>3, <1>4, <1>7, <2>1, Constants DEF Due, RequestOK
<1> QED BY <1>1, <1>5, <1>6, <1>7

\* However many requests come to the pool, each is answered in the time of
\* its own waits.
THEOREM Timely == Spec => []AnsweredInTime
BY InTime, PoolInvariant, PTL

-----------------------------------------------------------------------------
(* Liveness: a pool that is full does not stay full.  It follows from time *)
(* that passes and from the bound on what a request takes.                 *)

\* A connection that a request gives back leaves room.
LEMMA GivenBack ==
  ASSUME PoolInv, NEW r \in Requests, conn[r], InUse' = InUse \ {r}
  PROVE  HasRoom'
<1>1. r \in InUse
  BY DEF InUse
<1>2. Cardinality(InUse \ {r}) = Cardinality(InUse) - 1
  BY <1>1, InUseFinite, FS_RemoveElement
<1> QED BY <1>2, InUseFinite, Constants DEF PoolInv, HasRoom

\* While there is no room nobody is given a connection, nobody gives one back, and
\* whoever has one gets older.
LEMMA KeepsIt ==
  ASSUME PoolInv, NEW r \in Requests, conn[r], ~HasRoom, ~HasRoom', [Next]_vars
  PROVE  conn'[r] /\ age'[r] \in Nat /\ age'[r] >= age[r]
<1>1. /\ conn \in [Requests -> BOOLEAN] /\ age \in [Requests -> Nat]
      /\ pc[r] \notin {"idle", "checkout"}
  BY DEF PoolInv, TypeOK, RequestOK
<1>2. ASSUME NEW q \in Requests, Step(q) \/ Cancel(q), ~UNCHANGED <<conn, age>>
      PROVE  q # r /\ conn'[r] = conn[r] /\ age'[r] = age[r]
  <2>1. /\ conn' = [conn EXCEPT ![q] = FALSE]
        /\ \A d \in Requests \ {q} : age'[d] = age[d]
    BY <1>1, <1>2 DEF Step, Cancel, End, Leave, Checkout, CheckoutTimesOut, StatementsDone,
       StatementsFail, CallReturns, CallFails, Retry, Finish, CacheDone, PingDone
  <2>2. q # r
    <3> SUFFICES ASSUME q = r PROVE FALSE
      OBVIOUS
    <3>1. InUse' = InUse \ {r}
      BY <1>1, <2>1 DEF InUse
    <3> QED BY <3>1, GivenBack
  <2> QED BY <1>1, <2>1, <2>2
<1>3. CASE \E q \in Requests : Step(q) \/ Cancel(q)
  <2>1. PICK q \in Requests : Step(q) \/ Cancel(q)
    BY <1>3
  <2>2. CASE UNCHANGED <<conn, age>>
    BY <1>1, <2>2
  <2>3. CASE ~UNCHANGED <<conn, age>>
    <3>1. conn'[r] = conn[r] /\ age'[r] = age[r]
      BY <1>2, <2>1, <2>3
    <3> QED BY <1>1, <3>1
  <2> QED BY <2>2, <2>3
<1>4. CASE \E q \in Requests, k \in Kinds : Ask(q, k)
  BY <1>1, <1>4 DEF Ask
<1>5. CASE Crash
  <2>1. InUse' = {}
    BY <1>5 DEF Crash, InUse
  <2>2. Cardinality(InUse') = 0
    BY <2>1, FS_EmptySet
  <2> QED BY <2>2, Constants DEF HasRoom
<1>6. CASE Tick
  BY <1>1, <1>6 DEF Tick
<1>7. CASE UNCHANGED vars
  BY <1>1, <1>7 DEF vars
<1> QED BY <1>3, <1>4, <1>5, <1>6, <1>7 DEF Next

\* What the time of any request adds up to at most.
MaxAge == PoolTimeout + 3 * StatementTime + CallsTime(MaxAttempts) + RedisTime

\* No request is older than that while it has a connection.
LEMMA Young ==
  ASSUME PoolInv, NEW r \in Requests, conn[r]
  PROVE  age[r] \in Nat /\ age[r] <= MaxAge /\ MaxAge \in Nat
<1>1. age[r] \in Nat /\ pc[r] # "idle" /\ kind[r] \in Kinds
  BY DEF PoolInv, TypeOK, RequestOK
<1>2. CallsTime(MaxAttempts) \in Nat
  BY CallsTimeGrows
<1>3. AnsweredInTime
  BY InTime
<1> QED BY <1>1, <1>2, <1>3, Constants DEF AnsweredInTime, MaxAge, Kinds

\* r has had a connection for n seconds at least since it came to the pool.
Aged(r, n) == conn[r] /\ age[r] >= n

\* At some time from now on it has.
Ages(r, n) == <>Aged(r, n)

\* A pool that stays full while time passes.
StaysFull == []PoolInv /\ [][Next]_vars /\ TimePasses /\ []~HasRoom

\* Time that passes makes it older.
LEMMA GetsOlder ==
  ASSUME NEW q \in Requests, NEW n \in Nat
  PROVE  StaysFull => (Ages(q, n) => Ages(q, n + 1))
<1>1. PoolInv /\ ~HasRoom /\ ~HasRoom' /\ Aged(q, n) /\ [Next]_vars => Aged(q, n)'
  <2> SUFFICES ASSUME PoolInv, ~HasRoom, ~HasRoom', Aged(q, n), [Next]_vars
               PROVE  Aged(q, n)'
    OBVIOUS
  <2>1. conn'[q] /\ age'[q] \in Nat /\ age'[q] >= age[q] /\ age[q] \in Nat
    BY KeepsIt DEF Aged, PoolInv, TypeOK
  <2> QED BY <2>1 DEF Aged
<1>2. PoolInv /\ Aged(q, n) /\ <<Tick>>_vars => Aged(q, n + 1)'
  BY DEF PoolInv, TypeOK, RequestOK, Aged, Tick
<1>3. PoolInv /\ Aged(q, n) => ~(\A r \in Requests : pc[r] = "idle")
  BY DEF PoolInv, RequestOK, Aged
<1>4. []PoolInv /\ [][Next]_vars /\ []~HasRoom => [](Aged(q, n) => []Aged(q, n))
  BY <1>1, PTL
<1>5. []PoolInv /\ []<><<Tick>>_vars => ([]Aged(q, n) => Ages(q, n + 1))
  BY <1>2, PTL DEF Ages
<1>6. []PoolInv /\ []Aged(q, n) => ~[]<>(\A r \in Requests : pc[r] = "idle")
  BY <1>3, PTL
<1>7. TimePasses => []<><<Tick>>_vars \/ []<>(\A r \in Requests : pc[r] = "idle")
  BY PTL DEF TimePasses
<1> QED BY <1>4, <1>5, <1>6, <1>7, PTL DEF StaysFull, Ages

\* The numbers of seconds a connection will be kept for are a set.  This holds of
\* every behaviour, but a set constructor of TLA+ takes no temporal formula, so it
\* has to be a hypothesis of what is proved by induction on them.
AgesAreASet == \A r \in Requests : \E S : \A n \in Nat : n \in S <=> Ages(r, n)

\* So a request with a connection would have it for every number of seconds.
LEMMA KeptForEver ==
  ASSUME NEW r \in Requests
  PROVE  StaysFull /\ AgesAreASet /\ Ages(r, 0) => \A n \in Nat : Ages(r, n)
<1>1. ASSUME NEW S
      PROVE  StaysFull /\ Ages(r, 0) /\ (\A n \in Nat : n \in S <=> Ages(r, n))
               => \A n \in Nat : Ages(r, n)
  <2> SUFFICES ASSUME StaysFull, Ages(r, 0), \A n \in Nat : n \in S <=> Ages(r, n)
               PROVE  \A n \in Nat : Ages(r, n)
    OBVIOUS
  <2>1. 0 \in S /\ \A n \in Nat : n \in S => n + 1 \in S
    BY GetsOlder
  <2> QED BY <2>1, Induction
<1> QED BY <1>1 DEF AgesAreASet

\* But it is answered before.
LEMMA NotKept ==
  ASSUME NEW r \in Requests
  PROVE  StaysFull /\ AgesAreASet => ~conn[r]
<1>1. PoolInv /\ conn[r] => Aged(r, 0) /\ MaxAge \in Nat
  BY Young DEF Aged
<1>2. PoolInv => ~Aged(r, MaxAge + 1)
  BY Young DEF Aged
<1>3. StaysFull /\ AgesAreASet /\ Ages(r, 0) /\ MaxAge \in Nat => Ages(r, MaxAge + 1)
  BY KeptForEver
<1> QED BY <1>1, <1>2, <1>3, PTL DEF StaysFull, Ages

\* A pool that is full does not stay full.
THEOREM FullNotForEver == FairSpec /\ []AgesAreASet => RoomAgain
<1>1. StaysFull /\ AgesAreASet => \A r \in Requests : ~conn[r]
  BY NotKept
<1>2. (\A r \in Requests : ~conn[r]) => HasRoom
  <2> SUFFICES ASSUME \A r \in Requests : ~conn[r] PROVE HasRoom
    OBVIOUS
  <2>1. InUse = {}
    BY DEF InUse
  <2> QED BY <2>1, FS_EmptySet, Constants DEF HasRoom
<1>3. TimePasses => []TimePasses
  BY PTL DEF TimePasses
<1> QED BY <1>1, <1>2, <1>3, PoolInvariant, PTL DEF FairSpec, Spec, StaysFull, RoomAgain

=============================================================================
