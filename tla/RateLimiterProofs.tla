-------------------------- MODULE RateLimiterProofs --------------------------
(***************************************************************************)
(* The rate limit for any limit, period, clients and calls in flight.      *)
(***************************************************************************)
EXTENDS RateLimiter, TLAPS

\* Every counter starts out absent, every ticket old.
LEMMA InitInv == Init => LimiterInv
<1> SUFFICES ASSUME Init PROVE LimiterInv
  OBVIOUS
<1>1. TypeOK
  BY LimitAssumption, BoundAssumption DEF Init, TypeOK
<1>2. QED
  BY <1>1, LimitAssumption DEF Init, LimiterInv, Tickets

\* What one run of incr_with_ttl does, whatever becomes of the call.
LEMMA IncrInv ==
  ASSUME LimiterInv, NEW b \in Buckets, NEW n \in {1, 2}, IncrWithTtl(b, n)
  PROVE  /\ count' \in [Buckets -> 0 .. CountBound]
         /\ ttl' \in [Buckets -> 0 .. Period]
         /\ told' \in [Buckets -> Nat \cup {NotTold}]
         /\ count'[b] > count[b] /\ ttl'[b] = Period /\ told'[b] = NotTold
         /\ \A d \in Buckets \ {b} :
              count'[d] = count[d] /\ ttl'[d] = ttl[d] /\ told'[d] = told[d]
         /\ count'[b] \in Tickets => age[b][count'[b]] = Period
<1> USE LimitAssumption, BoundAssumption
<1>1. count' \in [Buckets -> 0 .. CountBound] /\ count'[b] > count[b]
  BY DEF LimiterInv, TypeOK, IncrWithTtl
<1>2. \A d \in Buckets \ {b} : count'[d] = count[d]
  BY DEF LimiterInv, TypeOK, IncrWithTtl
<1>3. ASSUME count'[b] \in Tickets PROVE age[b][count'[b]] = Period
  <2>1. age[b][count'[b]] \in 0 .. Period
    BY <1>3 DEF LimiterInv, TypeOK
  <2>2. ~ count'[b] <= count[b]
    BY <1>1 DEF LimiterInv, TypeOK
  <2>3. QED BY <1>3, <2>1, <2>2 DEF LimiterInv
<1>4. QED BY <1>1, <1>2, <1>3 DEF LimiterInv, TypeOK, IncrWithTtl

\* The number an admitted call gets is within the limit, so it is a ticket.
LEMMA AdmitInv ==
  ASSUME LimiterInv, NEW c \in Calls, NEW w \in Callers, Admit(c, w)
  PROVE  LimiterInv'
<1> USE LimitAssumption
<1> DEFINE b == Identifier(w)
<1>1. b \in Buckets
  BY DEF Buckets
<1>2. PICK n \in {1, 2} : IncrWithTtl(b, n)
  BY DEF Admit, Runs
<1>3. count'[b] \in Tickets
  BY <1>1, <1>2, IncrInv DEF LimiterInv, TypeOK, Admit, Tickets
<1>4. TypeOK'
  BY <1>1, <1>2, <1>3, IncrInv DEF LimiterInv, TypeOK, Admit
<1>5. ASSUME NEW d \in Buckets
      PROVE  /\ (count[d] = 0 <=> ttl[d] = 0)'
             /\ (told[d] # NotTold => ttl[d] <= told[d])'
  BY <1>1, <1>2, IncrInv DEF LimiterInv, TypeOK
<1>6. ASSUME NEW d \in Buckets, NEW m \in Tickets
      PROVE  (age[d][m] < Period => m <= count[d] /\ ttl[d] >= Period - age[d][m])'
  <2>1. CASE d = b /\ m = count'[b]
    BY <1>1, <1>2, <1>3, <2>1, IncrInv DEF LimiterInv, TypeOK, Admit, Tickets
  <2>2. CASE d = b /\ m # count'[b]
    <3>1. age'[d][m] = age[d][m] /\ age[d][m] \in 0 .. Period
      BY <1>1, <2>2 DEF LimiterInv, TypeOK, Admit
    <3>2. count'[d] > count[d] /\ ttl'[d] = Period
      BY <1>1, <1>2, <2>2, IncrInv
    <3>3. count[d] \in Nat /\ count'[d] \in Nat
      BY <1>4 DEF LimiterInv, TypeOK
    <3>4. QED BY <3>1, <3>2, <3>3 DEF LimiterInv, Tickets
  <2>3. CASE d # b
    BY <1>1, <1>2, <2>3, IncrInv DEF LimiterInv, TypeOK, Admit
  <2>4. QED BY <2>1, <2>2, <2>3
<1>7. QED BY <1>4, <1>5, <1>6 DEF LimiterInv, Admit

\* The calls that are not admitted, rejected or lost.
LEMMA CountInv ==
  ASSUME LimiterInv, NEW b \in Buckets, NEW n \in {1, 2}, IncrWithTtl(b, n),
         UNCHANGED age,
         pc' \in [Calls -> {"idle", "get_ttl"}],
         bucket' \in [Calls -> Buckets \cup {Absent}],
         \A c \in Calls : pc'[c] = "get_ttl" => bucket'[c] \in Buckets
  PROVE  LimiterInv'
<1> USE LimitAssumption
<1>1. TypeOK'
  BY IncrInv DEF LimiterInv, TypeOK
<1>2. ASSUME NEW d \in Buckets
      PROVE  /\ (count[d] = 0 <=> ttl[d] = 0)'
             /\ (told[d] # NotTold => ttl[d] <= told[d])'
  BY IncrInv DEF LimiterInv, TypeOK
<1>3. ASSUME NEW d \in Buckets, NEW m \in Tickets
      PROVE  (age[d][m] < Period => m <= count[d] /\ ttl[d] >= Period - age[d][m])'
  <2>1. age[d][m] \in 0 .. Period /\ count[d] \in Nat /\ count'[d] \in Nat /\ m \in Nat
    BY <1>1 DEF LimiterInv, TypeOK, Tickets
  <2>2. CASE d = b
    BY <2>1, <2>2, IncrInv DEF LimiterInv
  <2>3. CASE d # b
    BY <2>1, <2>3, IncrInv DEF LimiterInv
  <2>4. QED BY <2>2, <2>3
<1>4. QED BY <1>1, <1>2, <1>3 DEF LimiterInv

\* A call that is turned away, or that fails after Redis has counted it.
LEMMA RejectInv ==
  ASSUME LimiterInv, NEW c \in Calls, NEW w \in Callers,
         Reject(c, w) \/ IncrementLost(c, w)
  PROVE  LimiterInv'
<1>1. Identifier(w) \in Buckets
  BY DEF Buckets
<1>2. PICK n \in {1, 2} : IncrWithTtl(Identifier(w), n)
  BY DEF Reject, IncrementLost, Runs
<1>3. /\ UNCHANGED age
      /\ pc' \in [Calls -> {"idle", "get_ttl"}]
      /\ bucket' \in [Calls -> Buckets \cup {Absent}]
      /\ \A d \in Calls : pc'[d] = "get_ttl" => bucket'[d] \in Buckets
  BY <1>1 DEF LimiterInv, TypeOK, Reject, IncrementLost
<1>4. QED BY <1>1, <1>2, <1>3, CountInv

\* Half a second more than what Redis rounds t ticks to is no less than t.
LEMMA NearestLate ==
  ASSUME NEW t \in Nat, NEW n \in Nat, Nearest(n, t)
  PROVE  n * Second + Second \div 2 \in Nat /\ t <= n * Second + Second \div 2
<1> DEFINE m == n * Second
           half == Second \div 2
<1>1. m \in Nat /\ Second \in Nat
  BY LimitAssumption
<1>2. half \in Nat /\ Second <= 2 * half + 1
  BY <1>1
<1>3. 2 * t - Second < 2 * m
  BY DEF Nearest
<1> HIDE DEF m, half
<1>4. m + half \in Nat /\ t <= m + half
  BY <1>1, <1>2, <1>3
<1>5. QED BY <1>4 DEF m, half

\* What a rejected client is told, and half a second, is no less than what Redis
\* has left.
LEMMA ReadTtlInv ==
  ASSUME LimiterInv, NEW c \in Calls, ReadTtl(c) \/ ReadTtlFails(c)
  PROVE  LimiterInv'
<1>1. UNCHANGED <<count, ttl, age>> /\ bucket[c] \in Buckets
  BY DEF LimiterInv, ReadTtl, ReadTtlFails
<1>2. pc' \in [Calls -> {"idle", "get_ttl"}] /\ bucket' \in [Calls -> Buckets \cup {Absent}]
  BY DEF LimiterInv, TypeOK, ReadTtl, ReadTtlFails
<1>3. \A d \in Calls : pc'[d] = "get_ttl" => bucket'[d] \in Buckets
  BY DEF LimiterInv, TypeOK, ReadTtl, ReadTtlFails
<1> DEFINE e == bucket[c]
<1>4. PICK m \in Nat : (told' = told \/ told' = [told EXCEPT ![e] = m]) /\ ttl[e] <= m
  <2>1. CASE ReadTtl(c)
    <3>1. PICK n \in 0 .. Period :
            /\ Nearest(n, ttl[e])
            /\ told' = [told EXCEPT ![e] =
                          IF ttl[e] > 0 THEN n * Second + Second \div 2 ELSE @]
      BY <2>1 DEF ReadTtl
    <3>2. ttl[e] \in Nat /\ n \in Nat
      BY <1>1, LimitAssumption DEF LimiterInv, TypeOK
    <3>3. n * Second + Second \div 2 \in Nat /\ ttl[e] <= n * Second + Second \div 2
      BY <3>1, <3>2, NearestLate
    <3> DEFINE m == n * Second + Second \div 2
    <3> HIDE DEF m
    <3>4. told' = [told EXCEPT ![e] = IF ttl[e] > 0 THEN m ELSE told[e]]
      BY <3>1 DEF m
    <3>5. told' = told \/ told' = [told EXCEPT ![e] = m]
      BY <1>1, <3>4 DEF LimiterInv, TypeOK
    <3>6. m \in Nat /\ ttl[e] <= m
      BY <3>3 DEF m
    <3>7. QED BY <3>5, <3>6
  <2>2. CASE ReadTtlFails(c)
    <3>1. ttl[e] \in Nat /\ ttl[e] <= ttl[e]
      BY <1>1 DEF LimiterInv, TypeOK
    <3>2. QED BY <2>2, <3>1 DEF ReadTtlFails
  <2>3. QED BY <2>1, <2>2
<1>5. told \in [Buckets -> Nat \cup {NotTold}] /\ ttl' = ttl
  BY <1>1 DEF LimiterInv, TypeOK
<1> HIDE DEF e
<1>6. told' \in [Buckets -> Nat \cup {NotTold}]
  BY <1>4, <1>5
<1>7. ASSUME NEW b \in Buckets, told'[b] # NotTold PROVE ttl'[b] <= told'[b]
  <2>1. told[b] # NotTold => ttl[b] <= told[b]
    BY DEF LimiterInv
  <2>2. told'[b] = told[b] \/ (b = e /\ told'[b] = m)
    BY <1>4, <1>5
  <2>3. QED BY <1>4, <1>5, <1>7, <2>1, <2>2
<1>8. QED BY <1>1, <1>2, <1>3, <1>6, <1>7 DEF LimiterInv, TypeOK

\* An evicted counter starts over.
LEMMA EvictInv ==
  ASSUME LimiterInv, NEW g \in Buckets, Evict(g)
  PROVE  LimiterInv'
<1> USE LimitAssumption, BoundAssumption, ToldAssumption
<1>1. TypeOK'
  BY DEF LimiterInv, TypeOK, Evict
<1>2. ASSUME NEW b \in Buckets
      PROVE  /\ (count[b] = 0 <=> ttl[b] = 0)'
             /\ (told[b] # NotTold => ttl[b] <= told[b])'
  BY DEF LimiterInv, TypeOK, Evict
<1>3. ASSUME NEW b \in Buckets, NEW n \in Tickets
      PROVE  (age[b][n] < Period => n <= count[b] /\ ttl[b] >= Period - age[b][n])'
  BY DEF LimiterInv, TypeOK, Evict
<1>4. QED BY <1>1, <1>2, <1>3 DEF LimiterInv, Evict

\* A tick takes one from every TTL and from every promise alike.
LEMMA TickInv ==
  ASSUME LimiterInv, Tick
  PROVE  LimiterInv'
<1> USE LimitAssumption, BoundAssumption, ToldAssumption
<1>1. TypeOK'
  <2>1. ASSUME NEW b \in Buckets PROVE told'[b] \in Nat \cup {NotTold}
    <3>1. told[b] \in Nat \cup {NotTold}
      BY DEF LimiterInv, TypeOK
    <3>2. told'[b] = IF told[b] = NotTold THEN NotTold ELSE Down(told[b])
      BY DEF Tick
    <3>3. QED BY <3>1, <3>2 DEF Down
  <2>2. told' \in [Buckets -> Nat \cup {NotTold}]
    BY <2>1 DEF Tick
  <2>3. TypeOK
    BY DEF LimiterInv
  <2>4. count' \in [Buckets -> 0 .. CountBound]
    BY <2>3 DEF TypeOK, Tick
  <2>5. ttl' \in [Buckets -> 0 .. Period]
    <3>1. ttl' = [b \in Buckets |-> IF ttl[b] = 0 THEN 0 ELSE ttl[b] - 1]
      BY DEF Tick, Down
    <3>2. \A b \in Buckets : ttl[b] \in 0 .. Period
      BY <2>3 DEF TypeOK
    <3>3. ASSUME NEW b \in Buckets
          PROVE  (IF ttl[b] = 0 THEN 0 ELSE ttl[b] - 1) \in 0 .. Period
      BY <3>2
    <3>4. QED BY <3>1, <3>3
  <2>6. age' \in [Buckets -> [Tickets -> 0 .. Period]]
    BY <2>3 DEF TypeOK, Tick
  <2>7. QED BY <2>2, <2>3, <2>4, <2>5, <2>6 DEF TypeOK, Tick
<1>2. ASSUME NEW b \in Buckets
      PROVE  /\ (count[b] = 0 <=> ttl[b] = 0)'
             /\ (told[b] # NotTold => ttl[b] <= told[b])'
  <2>1. /\ count'[b] = (IF ttl[b] <= 1 THEN 0 ELSE count[b])
        /\ ttl'[b] = (IF ttl[b] = 0 THEN 0 ELSE ttl[b] - 1)
    BY DEF Tick, Down
  <2>2. /\ count[b] \in Nat /\ ttl[b] \in Nat
        /\ count[b] = 0 <=> ttl[b] = 0
    BY DEF LimiterInv, TypeOK
  <2>3. (count[b] = 0 <=> ttl[b] = 0)'
    BY <2>1, <2>2
  <2>4. ASSUME told'[b] # NotTold PROVE ttl'[b] <= told'[b]
    <3>1. told[b] # NotTold /\ told'[b] = (IF told[b] = 0 THEN 0 ELSE told[b] - 1)
      BY <2>4 DEF Tick, Down
    <3>2. told[b] \in Nat /\ ttl[b] <= told[b]
      BY <3>1 DEF LimiterInv, TypeOK
    <3>3. QED BY <2>1, <2>2, <3>1, <3>2
  <2>5. QED BY <2>3, <2>4
<1>3. ASSUME NEW b \in Buckets, NEW n \in Tickets
      PROVE  (age[b][n] < Period => n <= count[b] /\ ttl[b] >= Period - age[b][n])'
  BY DEF LimiterInv, TypeOK, Tick, Down
<1>4. QED BY <1>1, <1>2, <1>3 DEF LimiterInv, Tick

\* One step, action by action.
LEMMA NextInv == LimiterInv /\ [Next]_vars => LimiterInv'
<1> SUFFICES ASSUME LimiterInv, [Next]_vars PROVE LimiterInv'
  OBVIOUS
<1>1. CASE UNCHANGED vars
  BY <1>1 DEF vars, LimiterInv, TypeOK
<1>2. CASE Next
  BY <1>2, AdmitInv, RejectInv, ReadTtlInv, EvictInv, TickInv DEF Next
<1>3. QED BY <1>1, <1>2

\* The counter is alive exactly as long as what it remembers is young enough,
\* and dies no later than half a second after anyone was told it would.
THEOREM LimiterInvariant == Spec => []LimiterInv
<1>1. QED BY InitInv, NextInv, PTL DEF Spec

\* Types, and the countdowns never below zero.
THEOREM TypeCorrect == Spec => []TypeOK
<1>1. LimiterInv => TypeOK
  BY DEF LimiterInv
<1>2. QED BY <1>1, LimiterInvariant, PTL

\* Whatever the resolution of time: a client that waits for its Retry-After and half a
\* second more finds its counter gone.
THEOREM RetryAfter == Spec => []RetryAfterHonoured
<1>1. LimiterInv => RetryAfterHonoured
  BY ToldAssumption DEF LimiterInv, TypeOK, RetryAfterHonoured
<1>2. QED BY <1>1, LimiterInvariant, PTL

\* No window of the length of the period sees more than MaxCalls admissions.
THEOREM Window == Spec => AtMostMaxPerWindow
<1> DEFINE Fresh == \A b \in Buckets :
             count'[b] > count[b] /\ count'[b] <= MaxCalls => age[b][count'[b]] = Period
<1>1. ASSUME LimiterInv, Next PROVE Fresh
  <2>1. ASSUME NEW b \in Buckets, NEW n \in {1, 2}, IncrWithTtl(b, n) PROVE Fresh
    <3>1. count[b] \in Nat /\ count'[b] \in Nat
      BY <1>1, <2>1, IncrInv DEF LimiterInv, TypeOK
    <3>2. count'[b] <= MaxCalls => count'[b] \in Tickets
      BY <1>1, <2>1, <3>1, IncrInv, LimitAssumption DEF Tickets
    <3>3. \A d \in Buckets \ {b} : count'[d] = count[d] /\ count[d] \in Nat
      BY <1>1, <2>1, IncrInv DEF LimiterInv, TypeOK
    <3>4. count'[b] \in Tickets => age[b][count'[b]] = Period
      BY <1>1, <2>1, IncrInv
    <3>5. QED BY <3>2, <3>3, <3>4
  <2>2. CASE \E c \in Calls, w \in Callers : Admit(c, w) \/ Reject(c, w) \/ IncrementLost(c, w)
    BY <2>1, <2>2 DEF Admit, Reject, IncrementLost, Runs, Buckets
  <2>3. CASE \E c \in Calls : ReadTtl(c) \/ ReadTtlFails(c)
    BY <1>1, <2>3 DEF ReadTtl, ReadTtlFails, LimiterInv, TypeOK
  <2>4. CASE (\E b \in Buckets : Evict(b)) \/ Tick
    BY <1>1, <2>4 DEF Evict, Tick, LimiterInv, TypeOK
  <2>5. QED BY <1>1, <2>2, <2>3, <2>4 DEF Next
<1>2. LimiterInv /\ [Next]_vars => [Fresh]_vars
  BY <1>1
<1>3. QED BY <1>2, LimiterInvariant, PTL DEF Spec, AtMostMaxPerWindow

=============================================================================
