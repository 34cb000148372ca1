--------------------------- MODULE RateLimiter ---------------------------
(***************************************************************************)
(* The per-endpoint rate limit: a counter per bucket in Redis, raised and  *)
(* given its TTL again by every call (INCR and EXPIRE in one MULTI), and   *)
(* read a second time for the Retry-After of a rejected call.  Calls of    *)
(* any number of clients interleave, and time passes in ticks, of which a  *)
(* second has a number: Redis counts milliseconds and answers seconds.     *)
(***************************************************************************)
EXTENDS Integers

CONSTANTS Calls,          \* slots for the calls in flight
          Callers,        \* clients: records [api_key, host]
          Absent,         \* no X-API-Key header, no client address
          NotTold,        \* nobody waits for a Retry-After
          MaxCalls,       \* the count of limit_str
          Second,         \* the ticks of a second
          Period,         \* the period of limit_str, in ticks
          RedisTimesOut,  \* whether a reply of Redis may be late or lost
          CountBound      \* how far the counters are followed

ASSUME LimitAssumption ==
  MaxCalls \in Nat \ {0} /\ Period \in Nat \ {0} /\ Second \in Nat \ {0}
ASSUME BoundAssumption == CountBound \in Nat
ASSUME TimeoutAssumption == RedisTimesOut \in BOOLEAN
ASSUME ToldAssumption == NotTold \notin Nat

VARIABLES
  pc,      \* pc[c]: "idle", or "get_ttl" once rejected
  bucket,  \* bucket[c]: the bucket the call of c counted against
  count,   \* count[b]: the counter, 0 if the key does not exist
  ttl,     \* ttl[b]: ticks before the key expires, 0 if it does not exist
  age,     \* history, age[b][n]: ticks since a call that got the number n
           \* was admitted; Period stands for Period or more
  told     \* history, told[b]: ticks left of the last Retry-After handed out
           \* and half a second more, or NotTold if b has been called since

vars == <<pc, bucket, count, ttl, age, told>>

\* (api_key or host) if there is a client, else "unknown": the conditional
\* binds looser than the "or".
Identifier(w) ==
  IF w.host = Absent THEN "unknown"
  ELSE IF w.api_key = Absent THEN w.host ELSE w.api_key

Buckets == {Identifier(w) : w \in Callers}

Tickets == 1 .. MaxCalls

Init ==
  /\ pc = [c \in Calls |-> "idle"]
  /\ bucket = [c \in Calls |-> Absent]
  /\ count = [b \in Buckets |-> 0]
  /\ ttl = [b \in Buckets |-> 0]
  /\ age = [b \in Buckets |-> [n \in Tickets |-> Period]]
  /\ told = [b \in Buckets |-> NotTold]

\* The pool is built with retry_on_timeout: a pipeline that times out is sent
\* once more, after Redis may have run it already.
Runs == IF RedisTimesOut THEN {1, 2} ELSE {1}

\* Mutant: the TTL is only set by the first call, as the docstring has it.
IncrWithTtlFirst(b, n) ==
  /\ count[b] + n <= CountBound
  /\ count' = [count EXCEPT ![b] = @ + n]
  /\ ttl' = [ttl EXCEPT ![b] = IF count[b] = 0 THEN Period ELSE @]
  /\ told' = [told EXCEPT ![b] = NotTold]

\* Mutant: the INCR goes out without its EXPIRE.
IncrAlone(b, n) ==
  /\ count[b] + n <= CountBound
  /\ count' = [count EXCEPT ![b] = @ + n]
  /\ told' = [told EXCEPT ![b] = NotTold]
  /\ UNCHANGED ttl

\* incr_with_ttl, run n times.
IncrWithTtl(b, n) ==
  /\ count[b] + n <= CountBound
  /\ count' = [count EXCEPT ![b] = @ + n]
  /\ ttl' = [ttl EXCEPT ![b] = Period]
  /\ told' = [told EXCEPT ![b] = NotTold]

\* A call within the limit goes on to the endpoint.
Admit(c, w) ==
  LET b == Identifier(w) IN
  /\ pc[c] = "idle"
  /\ \E n \in Runs : IncrWithTtl(b, n)
  /\ count'[b] <= MaxCalls
  /\ age' = [age EXCEPT ![b][count'[b]] = 0]
  /\ UNCHANGED <<pc, bucket>>

\* A call over the limit asks for the TTL, in a second round trip.
Reject(c, w) ==
  LET b == Identifier(w) IN
  /\ pc[c] = "idle"
  /\ \E n \in Runs : IncrWithTtl(b, n)
  /\ count'[b] > MaxCalls
  /\ pc' = [pc EXCEPT ![c] = "get_ttl"]
  /\ bucket' = [bucket EXCEPT ![c] = b]
  /\ UNCHANGED age

\* Redis ran the pipeline, but the call sees a RedisError, which
\* incr_with_ttl does not catch: a 500.
IncrementLost(c, w) ==
  /\ RedisTimesOut
  /\ pc[c] = "idle"
  /\ \E n \in Runs : IncrWithTtl(Identifier(w), n)
  /\ UNCHANGED <<pc, bucket, age>>

\* The seconds that Redis says are left of t ticks: the nearest number, and
\* the larger of two.
Nearest(n, t) == 2 * t - Second < 2 * (n * Second) /\ 2 * (n * Second) <= 2 * t + Second

\* Mutant: PTTL, and the whole seconds of it.
ReadTtlRoundedDown(c) ==
  /\ pc[c] = "get_ttl"
  /\ told' = [told EXCEPT ![bucket[c]] =
                IF ttl[bucket[c]] > 0
                  THEN (ttl[bucket[c]] \div Second) * Second + Second \div 2 ELSE @]
  /\ pc' = [pc EXCEPT ![c] = "idle"]
  /\ bucket' = [bucket EXCEPT ![c] = Absent]
  /\ UNCHANGED <<count, ttl, age>>

\* get_ttl, and RateLimitExceededException with what it returned.  A key that
\* has gone meanwhile gives -2, no time to wait for.
ReadTtl(c) ==
  /\ pc[c] = "get_ttl"
  /\ \E n \in 0 .. Period :
       /\ Nearest(n, ttl[bucket[c]])
       /\ told' = [told EXCEPT ![bucket[c]] =
                     IF ttl[bucket[c]] > 0 THEN n * Second + Second \div 2 ELSE @]
  /\ pc' = [pc EXCEPT ![c] = "idle"]
  /\ bucket' = [bucket EXCEPT ![c] = Absent]
  /\ UNCHANGED <<count, ttl, age>>

\* A RedisError in get_ttl gives -1; a client that goes away ends here too.
ReadTtlFails(c) ==
  /\ pc[c] = "get_ttl"
  /\ pc' = [pc EXCEPT ![c] = "idle"]
  /\ bucket' = [bucket EXCEPT ![c] = Absent]
  /\ UNCHANGED <<count, ttl, age, told>>

\* A countdown, which stops at zero.
Down(n) == IF n = 0 THEN 0 ELSE n - 1

\* Time passes; a key whose TTL runs out is gone.
Tick ==
  /\ ttl' = [b \in Buckets |-> Down(ttl[b])]
  /\ count' = [b \in Buckets |-> IF ttl[b] <= 1 THEN 0 ELSE count[b]]
  /\ age' = [b \in Buckets |-> [n \in Tickets |->
               IF age[b][n] < Period THEN age[b][n] + 1 ELSE Period]]
  /\ told' = [b \in Buckets |-> IF told[b] = NotTold THEN NotTold ELSE Down(told[b])]
  /\ UNCHANGED <<pc, bucket>>

\* maxmemory with allkeys-lru: Redis drops the counter.  What was admitted
\* before is not held against the limiter, so its history goes too.
Evict(b) ==
  /\ count[b] > 0
  /\ count' = [count EXCEPT ![b] = 0]
  /\ ttl' = [ttl EXCEPT ![b] = 0]
  /\ age' = [age EXCEPT ![b] = [n \in Tickets |-> Period]]
  /\ UNCHANGED <<pc, bucket, told>>

Next ==
  \/ \E c \in Calls, w \in Callers : Admit(c, w) \/ Reject(c, w) \/ IncrementLost(c, w)
  \/ \E c \in Calls : ReadTtl(c) \/ ReadTtlFails(c)
  \/ \E b \in Buckets : Evict(b)
  \/ Tick

Spec == Init /\ [][Next]_vars

-----------------------------------------------------------------------------
(* Properties.                                                             *)

TypeOK ==
  /\ pc \in [Calls -> {"idle", "get_ttl"}]
  /\ bucket \in [Calls -> Buckets \cup {Absent}]
  /\ count \in [Buckets -> 0 .. CountBound]
  /\ ttl \in [Buckets -> 0 .. Period]
  /\ age \in [Buckets -> [Tickets -> 0 .. Period]]
  /\ told \in [Buckets -> Nat \cup {NotTold}]

\* A number within the limit is only handed out again when the call that was
\* last admitted with it is a whole period old.  There are MaxCalls numbers,
\* so no window of the length of the period, wherever it starts, sees more
\* than MaxCalls admissions, as long as Redis keeps the counter.
AtMostMaxPerWindow ==
  [][\A b \in Buckets :
       count'[b] > count[b] /\ count'[b] <= MaxCalls =>
         age[b][count'[b]] = Period]_vars

\* The Retry-After is read a round trip after the count, when part of a second
\* may have passed, and Redis rounds what is left: the number may be too small,
\* but by no more than half a second.  A client that was told it and waits half
\* a second longer, with nobody else calling on its bucket, finds the counter
\* gone, whatever other calls, resends and evictions there were: its next call
\* is admitted.
RetryAfterHonoured == \A b \in Buckets : told[b] = 0 => count[b] = 0

\* The inductive invariant behind the two.
LimiterInv ==
  /\ TypeOK
  /\ \A c \in Calls : pc[c] = "get_ttl" => bucket[c] \in Buckets
  /\ \A b \in Buckets :
       /\ count[b] = 0 <=> ttl[b] = 0
       /\ \A n \in Tickets :
            age[b][n] < Period => n <= count[b] /\ ttl[b] >= Period - age[b][n]
       /\ told[b] # NotTold => ttl[b] <= told[b]

-----------------------------------------------------------------------------
(* What the repository says of the limiter and the code does not do.       *)

\* dependencies.py:74 and README.md:319 call it a sliding window, and
\* redis_client.py:114 sets the TTL on the first call: either way a call is
\* only turned away when MaxCalls calls were admitted in the last period.
RejectedOnlyOverLimit ==
  [][\A b \in Buckets :
       count'[b] > count[b] /\ count'[b] > MaxCalls =>
         \A n \in Tickets : age[b][n] < Period]_vars

=============================================================================
