----------------------- MODULE AnalysisPipelineProofs -----------------------
(***************************************************************************)
(* The safety of the pipeline for any number of requests, inputs, kinds of *)
(* reply and attempts, and that its requests are answered.                 *)
(***************************************************************************)
EXTENDS AnalysisPipeline, TLAPS

\* The invariant holds before anything is posted.
LEMMA InitInv == Init => PipelineInv
<1> SUFFICES ASSUME Init PROVE PipelineInv
  OBVIOUS
<1>1. TypeOK
  BY AttemptsAssumption DEF Init, TypeOK, Labels, Statuses, Codes, NoRow
<1>2. ASSUME NEW r \in Requests
      PROVE  PhaseOK(r) /\ StoredOK(r) /\ TargetOK(r) /\ KnownOK(r)
  BY DEF Init, PhaseOK, StoredOK, TargetOK, KnownOK, Returning
<1>3. ASSUME NEW h \in Hashes PROVE EntryOK(h)
  BY DEF Init, EntryOK
<1>4. QED BY <1>1, <1>2, <1>3 DEF PipelineInv

\* A post that finds its content stored becomes known, with a row to be found.
LEMMA ArriveInv ==
  ASSUME PipelineInv, NEW r \in Requests, NEW in \in Inputs, Arrive(r, in)
  PROVE  PipelineInv'
<1> USE NamesAssumption
<1>1. TypeOK'
  BY DEF PipelineInv, TypeOK, Arrive, GoTo, Labels
<1>2. ASSUME NEW q \in Requests PROVE PhaseOK(q)'
  BY DEF PipelineInv, PhaseOK, TypeOK, Arrive, GoTo, Early
<1>3. ASSUME NEW q \in Requests PROVE StoredOK(q)'
  BY DEF PipelineInv, StoredOK, Arrive, GoTo
<1>4. ASSUME NEW q \in Requests PROVE TargetOK(q)'
  BY DEF PipelineInv, TargetOK, StoredOK, Returning, HashOf, Arrive, GoTo
<1>5. ASSUME NEW q \in Requests PROVE KnownOK(q)'
  BY DEF PipelineInv, KnownOK, PhaseOK, StoredOK, Completed, HashOf, TypeOK, Arrive,
         GoTo, Working, Early
<1>6. ASSUME NEW h \in Hashes PROVE EntryOK(h)'
  BY DEF PipelineInv, EntryOK, PhaseOK, HashOf, Arrive, GoTo, Early
<1>7. QED BY <1>1, <1>2, <1>3, <1>4, <1>5, <1>6 DEF PipelineInv

\* A request that has been posted has a hash the cache has a place for.
LEMMA HashTyped ==
  ASSUME PipelineInv, NEW r \in Requests, pc[r] # "idle"
  PROVE  HashOf(r) \in Hashes
BY DEF PipelineInv, TypeOK, PhaseOK, HashOf, Hashes

\* Validation touches no row.
LEMMA ValidateInv ==
  ASSUME PipelineInv, NEW r \in Requests, Validate(r)
  PROVE  PipelineInv'
<1> USE NamesAssumption
<1>1. TypeOK'
  BY DEF PipelineInv, TypeOK, Validate, GoTo, Raise, Labels, Codes
<1>2. ASSUME NEW q \in Requests PROVE PhaseOK(q)'
  BY DEF PipelineInv, TypeOK, PhaseOK, Validate, GoTo, Raise, Early
<1>3. ASSUME NEW q \in Requests PROVE StoredOK(q)'
  BY DEF PipelineInv, TypeOK, StoredOK, Validate, GoTo, Raise
<1>4. ASSUME NEW q \in Requests PROVE TargetOK(q)'
  BY DEF PipelineInv, TypeOK, TargetOK, Returning, HashOf, Validate, GoTo, Raise
<1>5. ASSUME NEW q \in Requests PROVE KnownOK(q)'
  BY DEF PipelineInv, TypeOK, KnownOK, HashOf, Working, Validate, GoTo, Raise
<1>6. ASSUME NEW h \in Hashes PROVE EntryOK(h)'
  BY DEF PipelineInv, TypeOK, EntryOK, HashOf, Validate, GoTo, Raise
<1>7. QED BY <1>1, <1>2, <1>3, <1>4, <1>5, <1>6 DEF PipelineInv

\* An id from the cache is of the right content, by EntryOK.
LEMMA CacheHitInv ==
  ASSUME PipelineInv, NEW r \in Requests, CacheHit(r)
  PROVE  PipelineInv'
<1> USE NamesAssumption
<1>1. TypeOK'
  <2>1. cache[HashOf(r)] \in Requests
    BY HashTyped DEF PipelineInv, TypeOK, CacheHit
  <2>2. QED BY <2>1 DEF PipelineInv, TypeOK, CacheHit, GoTo, Labels
<1>2. ASSUME NEW q \in Requests PROVE PhaseOK(q)'
  BY DEF PipelineInv, PhaseOK, CacheHit, GoTo, Early
<1>3. ASSUME NEW q \in Requests PROVE StoredOK(q)'
  BY DEF PipelineInv, StoredOK, CacheHit, GoTo
<1>4. ASSUME NEW q \in Requests PROVE TargetOK(q)'
  BY DEF PipelineInv, TypeOK, TargetOK, StoredOK, PhaseOK, EntryOK, Returning,
         HashOf, CacheHit, GoTo, Hashes
<1>5. ASSUME NEW q \in Requests PROVE KnownOK(q)'
  BY DEF PipelineInv, KnownOK, HashOf, Working, CacheHit, GoTo
<1>6. ASSUME NEW h \in Hashes PROVE EntryOK(h)'
  BY DEF PipelineInv, EntryOK, HashOf, CacheHit, GoTo
<1>7. QED BY <1>1, <1>2, <1>3, <1>4, <1>5, <1>6 DEF PipelineInv

\* A miss changes nothing but the place of the request.
LEMMA CacheMissInv ==
  ASSUME PipelineInv, NEW r \in Requests, CacheMiss(r)
  PROVE  PipelineInv'
<1> USE NamesAssumption
<1>1. TypeOK'
  BY DEF PipelineInv, TypeOK, CacheMiss, GoTo, Labels
<1>2. ASSUME NEW q \in Requests PROVE PhaseOK(q)'
  BY DEF PipelineInv, PhaseOK, CacheMiss, GoTo, Early
<1>3. ASSUME NEW q \in Requests PROVE StoredOK(q)'
  BY DEF PipelineInv, StoredOK, CacheMiss, GoTo
<1>4. ASSUME NEW q \in Requests PROVE TargetOK(q)'
  BY DEF PipelineInv, TargetOK, Returning, HashOf, CacheMiss, GoTo
<1>5. ASSUME NEW q \in Requests PROVE KnownOK(q)'
  BY DEF PipelineInv, KnownOK, HashOf, Working, CacheMiss, GoTo
<1>6. ASSUME NEW h \in Hashes PROVE EntryOK(h)'
  BY DEF PipelineInv, EntryOK, HashOf, CacheMiss, GoTo
<1>7. QED BY <1>1, <1>2, <1>3, <1>4, <1>5, <1>6 DEF PipelineInv

\* A cached id is only returned if its row is committed.
LEMMA FetchCachedInv ==
  ASSUME PipelineInv, NEW r \in Requests, FetchCached(r)
  PROVE  PipelineInv'
<1> USE NamesAssumption
<1>1. TypeOK'
  <2>1. CASE GoTo(r, "commit") /\ UNCHANGED code
    BY <2>1 DEF PipelineInv, TypeOK, FetchCached, GoTo, Labels
  <2>2. CASE \E c \in Codes : Raise(r, c)
    BY <2>2 DEF PipelineInv, TypeOK, FetchCached, Raise, GoTo, Labels
  <2>3. QED BY <2>1, <2>2 DEF FetchCached, Respond, Codes
<1>2. ASSUME NEW q \in Requests PROVE PhaseOK(q)'
  <2>1. CASE target[r] \in committed /\ GoTo(r, "commit") /\ UNCHANGED code
    <3>1. target[r] # r
      BY <2>1 DEF PipelineInv, StoredOK, FetchCached
    <3>2. QED
      BY <2>1, <3>1 DEF PipelineInv, PhaseOK, FetchCached, GoTo, Early
  <2>2. CASE \E c \in Codes \ {"created"} : Raise(r, c)
    BY <2>2 DEF PipelineInv, PhaseOK, FetchCached, Raise, GoTo, Early
  <2>3. QED BY <2>1, <2>2 DEF FetchCached, Respond, Codes
<1>3. ASSUME NEW q \in Requests PROVE StoredOK(q)'
  BY DEF PipelineInv, TypeOK, StoredOK, FetchCached, GoTo, Raise, Respond
<1>4. ASSUME NEW q \in Requests PROVE TargetOK(q)'
  BY DEF PipelineInv, TypeOK, TargetOK, Returning, HashOf, FetchCached, GoTo, Raise,
         Respond
<1>5. ASSUME NEW q \in Requests PROVE KnownOK(q)'
  BY DEF PipelineInv, TypeOK, KnownOK, HashOf, Working, FetchCached, GoTo, Raise,
         Respond
<1>6. ASSUME NEW h \in Hashes PROVE EntryOK(h)'
  BY DEF PipelineInv, TypeOK, EntryOK, HashOf, FetchCached, GoTo, Raise, Respond
<1>7. QED BY <1>1, <1>2, <1>3, <1>4, <1>5, <1>6 DEF PipelineInv

\* A row the database finds is committed, of the same content, and another's.
LEMMA DatabaseHitInv ==
  ASSUME PipelineInv, NEW r \in Requests, DatabaseHit(r)
  PROVE  PipelineInv'
<1> USE NamesAssumption
<1>0. PICK s \in Completed(HashOf(r)) :
         /\ target' = [target EXCEPT ![r] = s]
         /\ \/ GoTo(r, "backfill") /\ UNCHANGED code
            \/ GoTo(r, "commit") /\ UNCHANGED code
            \/ Raise(r, "internal")
  BY DEF DatabaseHit, Respond
<1>9. s \in committed /\ s \in Requests /\ s # r /\ HashOf(s) = HashOf(r)
  BY <1>0 DEF PipelineInv, TypeOK, Completed, StoredOK, DatabaseHit
<1>1. TypeOK'
  <2>1. target' \in [Requests -> Requests \cup {NoId}]
    BY <1>0, <1>9 DEF PipelineInv, TypeOK
  <2>2. pc' \in [Requests -> Labels] /\ code' \in [Requests -> Codes]
    <3>1. \E l \in Labels : pc' = [pc EXCEPT ![r] = l]
      BY <1>0 DEF GoTo, Raise, Labels
    <3>2. code' = code \/ code' = [code EXCEPT ![r] = "internal"]
      BY <1>0 DEF Raise
    <3>3. QED BY <3>1, <3>2 DEF PipelineInv, TypeOK, Codes
  <2>3. QED BY <2>1, <2>2 DEF PipelineInv, TypeOK, DatabaseHit
<1>2. ASSUME NEW q \in Requests PROVE PhaseOK(q)'
  BY <1>0, <1>9 DEF PipelineInv, TypeOK, PhaseOK, DatabaseHit, GoTo, Raise, Early
<1>3. ASSUME NEW q \in Requests PROVE StoredOK(q)'
  BY DEF PipelineInv, TypeOK, StoredOK, DatabaseHit, GoTo, Raise, Respond
<1>4. ASSUME NEW q \in Requests PROVE TargetOK(q)'
  BY <1>0, <1>9 DEF PipelineInv, TypeOK, TargetOK, Returning, HashOf, DatabaseHit,
                    GoTo, Raise
<1>5. ASSUME NEW q \in Requests PROVE KnownOK(q)'
  BY DEF PipelineInv, TypeOK, KnownOK, HashOf, Working, DatabaseHit, GoTo, Raise,
         Respond
<1>6. ASSUME NEW h \in Hashes PROVE EntryOK(h)'
  BY DEF PipelineInv, TypeOK, EntryOK, HashOf, DatabaseHit, GoTo, Raise, Respond
<1>7. QED BY <1>1, <1>2, <1>3, <1>4, <1>5, <1>6 DEF PipelineInv

\* A known request never misses, so what comes here may create a row.
LEMMA DatabaseMissInv ==
  ASSUME PipelineInv, NEW r \in Requests, DatabaseMiss(r)
  PROVE  PipelineInv'
<1> USE NamesAssumption
<1>1. TypeOK'
  BY DEF PipelineInv, TypeOK, DatabaseMiss, GoTo, Labels
<1>2. ASSUME NEW q \in Requests PROVE PhaseOK(q)'
  BY DEF PipelineInv, PhaseOK, DatabaseMiss, GoTo, Early
<1>3. ASSUME NEW q \in Requests PROVE StoredOK(q)'
  BY DEF PipelineInv, StoredOK, DatabaseMiss, GoTo
<1>4. ASSUME NEW q \in Requests PROVE TargetOK(q)'
  BY DEF PipelineInv, TargetOK, Returning, HashOf, DatabaseMiss, GoTo
<1>5. ASSUME NEW q \in Requests PROVE KnownOK(q)'
  BY DEF PipelineInv, TypeOK, KnownOK, StoredOK, Completed, HashOf, DatabaseMiss,
         GoTo
<1>6. ASSUME NEW h \in Hashes PROVE EntryOK(h)'
  BY DEF PipelineInv, EntryOK, HashOf, DatabaseMiss, GoTo
<1>7. QED BY <1>1, <1>2, <1>3, <1>4, <1>5, <1>6 DEF PipelineInv

\* What is put back into the cache is committed.
LEMMA BackfillCacheInv ==
  ASSUME PipelineInv, NEW r \in Requests, BackfillCache(r)
  PROVE  PipelineInv'
<1> USE NamesAssumption
<1>1. TypeOK'
  <2>1. target[r] \in Requests
    BY DEF PipelineInv, TypeOK, TargetOK, Returning, BackfillCache
  <2>2. cache' \in [Hashes -> Requests \cup {NoId}]
    BY <2>1 DEF PipelineInv, TypeOK, BackfillCache, CacheSet
  <2>3. pc' \in [Requests -> Labels] /\ code' \in [Requests -> Codes]
    BY DEF PipelineInv, TypeOK, BackfillCache, Respond, Raise, GoTo, Labels, Codes
  <2>4. QED BY <2>2, <2>3 DEF PipelineInv, TypeOK, BackfillCache
<1>2. ASSUME NEW q \in Requests PROVE PhaseOK(q)'
  <2>1. target[r] # r
    BY DEF PipelineInv, StoredOK, TargetOK, Returning, BackfillCache
  <2>2. CASE GoTo(r, "commit") /\ UNCHANGED code
    BY <2>1, <2>2 DEF PipelineInv, PhaseOK, BackfillCache, GoTo, Early
  <2>3. CASE Raise(r, "internal")
    BY <2>3 DEF PipelineInv, PhaseOK, BackfillCache, Raise, GoTo, Early
  <2>4. QED BY <2>2, <2>3 DEF BackfillCache, Respond
<1>3. ASSUME NEW q \in Requests PROVE StoredOK(q)'
  BY DEF PipelineInv, TypeOK, StoredOK, BackfillCache, GoTo, Raise, Respond
<1>4. ASSUME NEW q \in Requests PROVE TargetOK(q)'
  BY DEF PipelineInv, TypeOK, TargetOK, Returning, HashOf, BackfillCache, GoTo,
         Raise, Respond
<1>5. ASSUME NEW q \in Requests PROVE KnownOK(q)'
  BY DEF PipelineInv, TypeOK, KnownOK, HashOf, Working, BackfillCache, GoTo, Raise,
         Respond
<1>6. ASSUME NEW h \in Hashes PROVE EntryOK(h)'
  BY DEF PipelineInv, TypeOK, EntryOK, StoredOK, TargetOK, HashOf, BackfillCache,
         GoTo, Raise, Respond, CacheSet, Returning
<1>7. QED BY <1>1, <1>2, <1>3, <1>4, <1>5, <1>6 DEF PipelineInv

\* The row is inserted, for its own session only.
LEMMA CreateRecordInv ==
  ASSUME PipelineInv, NEW r \in Requests, CreateRecord(r)
  PROVE  PipelineInv'
<1> USE NamesAssumption
<1>1. TypeOK'
  BY DEF PipelineInv, TypeOK, CreateRecord, GoTo, Labels, Statuses
<1>2. ASSUME NEW q \in Requests PROVE PhaseOK(q)'
  BY DEF PipelineInv, TypeOK, PhaseOK, CreateRecord, GoTo, Early, NoRow
<1>3. ASSUME NEW q \in Requests PROVE StoredOK(q)'
  BY DEF PipelineInv, StoredOK, CreateRecord, GoTo
<1>4. ASSUME NEW q \in Requests PROVE TargetOK(q)'
  BY DEF PipelineInv, TargetOK, Returning, HashOf, CreateRecord, GoTo
<1>5. ASSUME NEW q \in Requests PROVE KnownOK(q)'
  BY DEF PipelineInv, KnownOK, HashOf, CreateRecord, GoTo
<1>6. ASSUME NEW h \in Hashes PROVE EntryOK(h)'
  BY DEF PipelineInv, EntryOK, HashOf, CreateRecord, GoTo
<1>7. QED BY <1>1, <1>2, <1>3, <1>4, <1>5, <1>6 DEF PipelineInv

\* The row moves on, for its own session only.
LEMMA MarkProcessingInv ==
  ASSUME PipelineInv, NEW r \in Requests, MarkProcessing(r)
  PROVE  PipelineInv'
<1> USE NamesAssumption, AttemptsAssumption
<1>1. TypeOK'
  BY DEF PipelineInv, TypeOK, MarkProcessing, GoTo, Labels, Statuses
<1>2. ASSUME NEW q \in Requests PROVE PhaseOK(q)'
  BY DEF PipelineInv, PhaseOK, MarkProcessing, GoTo, Early
<1>3. ASSUME NEW q \in Requests PROVE StoredOK(q)'
  BY DEF PipelineInv, StoredOK, MarkProcessing, GoTo
<1>4. ASSUME NEW q \in Requests PROVE TargetOK(q)'
  BY DEF PipelineInv, TargetOK, Returning, HashOf, MarkProcessing, GoTo
<1>5. ASSUME NEW q \in Requests PROVE KnownOK(q)'
  BY DEF PipelineInv, KnownOK, HashOf, Working, MarkProcessing, GoTo
<1>6. ASSUME NEW h \in Hashes PROVE EntryOK(h)'
  BY DEF PipelineInv, EntryOK, HashOf, MarkProcessing, GoTo
<1>7. QED BY <1>1, <1>2, <1>3, <1>4, <1>5, <1>6 DEF PipelineInv

\* A failed call leaves an attempt, or goes to mark_failed.
LEMMA CallFailsInv ==
  ASSUME PipelineInv, NEW r \in Requests, CallFails(r)
  PROVE  PipelineInv'
<1> USE NamesAssumption, AttemptsAssumption
<1>1. TypeOK'
  <2>1. attempts' \in [Requests -> 0 .. MaxAttempts]
    BY DEF PipelineInv, TypeOK, PhaseOK, CallFails, CallLLM
  <2>2. pc' \in [Requests -> Labels] /\ code' \in [Requests -> Codes]
    BY DEF PipelineInv, TypeOK, CallFails, RaiseInRun, GoTo, Labels, Codes
  <2>3. QED BY <2>1, <2>2 DEF PipelineInv, TypeOK, CallFails, CallLLM
<1>2. ASSUME NEW q \in Requests PROVE PhaseOK(q)'
  BY DEF PipelineInv, TypeOK, PhaseOK, CallFails, CallLLM, GoTo, RaiseInRun, Early
<1>3. ASSUME NEW q \in Requests PROVE StoredOK(q)'
  BY DEF PipelineInv, TypeOK, StoredOK, CallFails, CallLLM, GoTo, RaiseInRun
<1>4. ASSUME NEW q \in Requests PROVE TargetOK(q)'
  BY DEF PipelineInv, TypeOK, TargetOK, Returning, HashOf, CallFails, CallLLM, GoTo,
         RaiseInRun
<1>5. ASSUME NEW q \in Requests PROVE KnownOK(q)'
  BY DEF PipelineInv, TypeOK, KnownOK, HashOf, Working, CallFails, CallLLM, GoTo,
         RaiseInRun
<1>6. ASSUME NEW h \in Hashes PROVE EntryOK(h)'
  BY DEF PipelineInv, TypeOK, EntryOK, HashOf, CallFails, CallLLM, GoTo, RaiseInRun
<1>7. QED BY <1>1, <1>2, <1>3, <1>4, <1>5, <1>6 DEF PipelineInv

\* A refused call goes to mark_failed; no entry names the request yet.
LEMMA CallRefusedInv ==
  ASSUME PipelineInv, NEW r \in Requests, CallRefused(r)
  PROVE  PipelineInv'
<1> USE NamesAssumption, AttemptsAssumption
<1>1. TypeOK'
  BY DEF PipelineInv, TypeOK, CallRefused, CallLLM, GoTo, RaiseInRun, Labels, Codes,
         PhaseOK
<1>2. ASSUME NEW q \in Requests PROVE PhaseOK(q)'
  BY DEF PipelineInv, TypeOK, PhaseOK, CallRefused, CallLLM, GoTo, RaiseInRun, Early
<1>3. ASSUME NEW q \in Requests PROVE StoredOK(q)'
  BY DEF PipelineInv, StoredOK, CallRefused, CallLLM, GoTo, RaiseInRun
<1>4. ASSUME NEW q \in Requests PROVE TargetOK(q)'
  BY DEF PipelineInv, TargetOK, Returning, HashOf, CallRefused, CallLLM, GoTo,
         RaiseInRun
<1>5. ASSUME NEW q \in Requests PROVE KnownOK(q)'
  BY DEF PipelineInv, KnownOK, HashOf, Working, CallRefused, CallLLM, GoTo,
         RaiseInRun
<1>6. ASSUME NEW h \in Hashes PROVE EntryOK(h)'
  BY DEF PipelineInv, EntryOK, StoredOK, HashOf, CallRefused, CallLLM, GoTo,
         RaiseInRun
<1>7. QED BY <1>1, <1>2, <1>3, <1>4, <1>5, <1>6 DEF PipelineInv

\* A parsed reply is carried to mark_completed, any other to mark_failed.
LEMMA CallAnsweredInv ==
  ASSUME PipelineInv, NEW r \in Requests, CallAnswered(r)
  PROVE  PipelineInv'
<1> USE NamesAssumption, AttemptsAssumption
<1>1. TypeOK'
  <2>1. attempts' \in [Requests -> 0 .. MaxAttempts]
    BY DEF PipelineInv, TypeOK, PhaseOK, CallAnswered, CallLLM
  <2>2. reply' \in [Requests -> Replies \cup {NoReply}]
    BY DEF PipelineInv, TypeOK, CallAnswered, CallLLM
  <2>3. pc' \in [Requests -> Labels] /\ code' \in [Requests -> Codes]
    BY DEF PipelineInv, TypeOK, CallAnswered, RaiseInRun, GoTo, Labels, Codes
  <2>4. QED BY <2>1, <2>2, <2>3 DEF PipelineInv, TypeOK, CallAnswered, CallLLM
<1>2. ASSUME NEW q \in Requests PROVE PhaseOK(q)'
  BY DEF PipelineInv, TypeOK, PhaseOK, CallAnswered, CallLLM, GoTo, RaiseInRun,
         Early
<1>3. ASSUME NEW q \in Requests PROVE StoredOK(q)'
  BY DEF PipelineInv, TypeOK, StoredOK, CallAnswered, CallLLM, GoTo, RaiseInRun
<1>4. ASSUME NEW q \in Requests PROVE TargetOK(q)'
  BY DEF PipelineInv, TypeOK, TargetOK, Returning, HashOf, CallAnswered, CallLLM,
         GoTo, RaiseInRun
<1>5. ASSUME NEW q \in Requests PROVE KnownOK(q)'
  BY DEF PipelineInv, TypeOK, KnownOK, HashOf, Working, CallAnswered, CallLLM, GoTo,
         RaiseInRun
<1>6. ASSUME NEW h \in Hashes PROVE EntryOK(h)'
  BY DEF PipelineInv, TypeOK, EntryOK, HashOf, CallAnswered, CallLLM, GoTo,
         RaiseInRun
<1>7. QED BY <1>1, <1>2, <1>3, <1>4, <1>5, <1>6 DEF PipelineInv

\* The row becomes complete, with the reply as its result.
LEMMA MarkCompletedInv ==
  ASSUME PipelineInv, NEW r \in Requests, MarkCompleted(r)
  PROVE  PipelineInv'
<1> USE NamesAssumption
<1>1. TypeOK'
  BY DEF PipelineInv, TypeOK, MarkCompleted, GoTo, Labels, Statuses
<1>2. ASSUME NEW q \in Requests PROVE PhaseOK(q)'
  BY DEF PipelineInv, TypeOK, PhaseOK, MarkCompleted, GoTo, Early
<1>3. ASSUME NEW q \in Requests PROVE StoredOK(q)'
  BY DEF PipelineInv, StoredOK, MarkCompleted, GoTo
<1>4. ASSUME NEW q \in Requests PROVE TargetOK(q)'
  BY DEF PipelineInv, TargetOK, Returning, HashOf, MarkCompleted, GoTo
<1>5. ASSUME NEW q \in Requests PROVE KnownOK(q)'
  BY DEF PipelineInv, KnownOK, HashOf, Working, MarkCompleted, GoTo
<1>6. ASSUME NEW h \in Hashes PROVE EntryOK(h)'
  BY DEF PipelineInv, EntryOK, HashOf, MarkCompleted, GoTo
<1>7. QED BY <1>1, <1>2, <1>3, <1>4, <1>5, <1>6 DEF PipelineInv

\* The cache learns of a row on its way to the commit; what does not conform
\* turns back and can only end in a 500.
LEMMA CacheResultInv ==
  ASSUME PipelineInv, NEW r \in Requests, CacheResult(r)
  PROVE  PipelineInv'
<1> USE NamesAssumption
<1>1. TypeOK'
  <2>1. cache' \in [Hashes -> Requests \cup {NoId}]
    BY HashTyped DEF PipelineInv, TypeOK, CacheResult, CacheSet
  <2>2. pc' \in [Requests -> Labels] /\ code' \in [Requests -> Codes]
    BY DEF PipelineInv, TypeOK, CacheResult, RaiseInRun, GoTo, Labels, Codes
  <2>3. QED BY <2>1, <2>2 DEF PipelineInv, TypeOK, CacheResult
<1>2. ASSUME NEW q \in Requests PROVE PhaseOK(q)'
  BY DEF PipelineInv, TypeOK, PhaseOK, CacheResult, Acceptable, GoTo, RaiseInRun,
         Early
<1>3. ASSUME NEW q \in Requests PROVE StoredOK(q)'
  BY DEF PipelineInv, TypeOK, StoredOK, CacheResult, GoTo, RaiseInRun
<1>4. ASSUME NEW q \in Requests PROVE TargetOK(q)'
  BY DEF PipelineInv, TypeOK, TargetOK, PhaseOK, Returning, HashOf, CacheResult,
         GoTo, RaiseInRun
<1>5. ASSUME NEW q \in Requests PROVE KnownOK(q)'
  BY DEF PipelineInv, TypeOK, KnownOK, HashOf, Working, CacheResult, GoTo,
         RaiseInRun
<1>6. ASSUME NEW h \in Hashes PROVE EntryOK(h)'
  BY DEF PipelineInv, TypeOK, EntryOK, PhaseOK, HashOf, CacheResult, CacheSet, GoTo,
         RaiseInRun, DbErrorCodes
<1>7. QED BY <1>1, <1>2, <1>3, <1>4, <1>5, <1>6 DEF PipelineInv

\* The row is marked failed and never seen by anyone else.
LEMMA MarkFailedInv ==
  ASSUME PipelineInv, NEW r \in Requests, MarkFailed(r)
  PROVE  PipelineInv'
<1> USE NamesAssumption
<1>1. TypeOK'
  BY DEF PipelineInv, TypeOK, MarkFailed, GoTo, Labels, Statuses
<1>2. ASSUME NEW q \in Requests PROVE PhaseOK(q)'
  BY DEF PipelineInv, PhaseOK, MarkFailed, GoTo, Early
<1>3. ASSUME NEW q \in Requests PROVE StoredOK(q)'
  BY DEF PipelineInv, StoredOK, MarkFailed, GoTo
<1>4. ASSUME NEW q \in Requests PROVE TargetOK(q)'
  BY DEF PipelineInv, TargetOK, Returning, HashOf, MarkFailed, GoTo
<1>5. ASSUME NEW q \in Requests PROVE KnownOK(q)'
  BY DEF PipelineInv, KnownOK, HashOf, Working, MarkFailed, GoTo
<1>6. ASSUME NEW h \in Hashes PROVE EntryOK(h)'
  BY DEF PipelineInv, EntryOK, HashOf, MarkFailed, GoTo
<1>7. QED BY <1>1, <1>2, <1>3, <1>4, <1>5, <1>6 DEF PipelineInv

\* What becomes visible is a complete row, or there is none.
LEMMA CommitInv ==
  ASSUME PipelineInv, NEW r \in Requests, Commit(r)
  PROVE  PipelineInv'
<1> USE NamesAssumption
<1>1. TypeOK'
  BY DEF PipelineInv, TypeOK, Commit, CommitRow, Close, Labels, Codes
<1>2. ASSUME NEW q \in Requests PROVE PhaseOK(q)'
  BY DEF PipelineInv, TypeOK, PhaseOK, Commit, Close, Early
<1>3. ASSUME NEW q \in Requests PROVE StoredOK(q)'
  BY DEF PipelineInv, TypeOK, StoredOK, PhaseOK, Commit, CommitRow, Close, NoRow
<1>4. ASSUME NEW q \in Requests PROVE TargetOK(q)'
  BY DEF PipelineInv, TargetOK, PhaseOK, Returning, HashOf, Commit, CommitRow, Close
<1>5. ASSUME NEW q \in Requests PROVE KnownOK(q)'
  BY DEF PipelineInv, KnownOK, HashOf, Working, Commit, CommitRow, Close
<1>6. ASSUME NEW h \in Hashes PROVE EntryOK(h)'
  BY DEF PipelineInv, EntryOK, PhaseOK, HashOf, Commit, CommitRow, Close
<1>7. QED BY <1>1, <1>2, <1>3, <1>4, <1>5, <1>6 DEF PipelineInv

\* A commit that fails leaves its cache entry behind, as EntryOK allows.
LEMMA CommitFailsInv ==
  ASSUME PipelineInv, NEW r \in Requests, CommitFails(r)
  PROVE  PipelineInv'
<1> USE NamesAssumption
<1>1. TypeOK'
  BY DEF PipelineInv, TypeOK, CommitFails, GoTo, Raise, Labels, Codes, DbErrorCodes
<1>2. ASSUME NEW q \in Requests PROVE PhaseOK(q)'
  BY DEF PipelineInv, PhaseOK, CommitFails, GoTo, Raise, Early, DbErrorCodes
<1>3. ASSUME NEW q \in Requests PROVE StoredOK(q)'
  BY DEF PipelineInv, StoredOK, CommitFails, GoTo, Raise
<1>4. ASSUME NEW q \in Requests PROVE TargetOK(q)'
  BY DEF PipelineInv, TargetOK, Returning, HashOf, CommitFails, GoTo, Raise
<1>5. ASSUME NEW q \in Requests PROVE KnownOK(q)'
  BY DEF PipelineInv, KnownOK, HashOf, Working, CommitFails, GoTo, Raise
<1>6. ASSUME NEW h \in Hashes PROVE EntryOK(h)'
  BY DEF PipelineInv, TypeOK, EntryOK, HashOf, CommitFails, GoTo, Raise
<1>7. QED BY <1>1, <1>2, <1>3, <1>4, <1>5, <1>6 DEF PipelineInv

\* The row is visible, and its request can only roll back what is committed.
LEMMA CommitUnacknowledgedInv ==
  ASSUME PipelineInv, NEW r \in Requests, CommitUnacknowledged(r)
  PROVE  PipelineInv'
<1> USE NamesAssumption
<1>1. TypeOK'
  BY DEF PipelineInv, TypeOK, CommitUnacknowledged, CommitRow, GoTo, Raise, Labels,
         Codes, DbErrorCodes
<1>2. ASSUME NEW q \in Requests PROVE PhaseOK(q)'
  BY DEF PipelineInv, PhaseOK, CommitUnacknowledged, GoTo, Raise, Early,
         DbErrorCodes
<1>3. ASSUME NEW q \in Requests PROVE StoredOK(q)'
  BY DEF PipelineInv, TypeOK, StoredOK, PhaseOK, CommitUnacknowledged, CommitRow,
         GoTo, Raise, NoRow
<1>4. ASSUME NEW q \in Requests PROVE TargetOK(q)'
  BY DEF PipelineInv, TargetOK, Returning, HashOf, CommitUnacknowledged, CommitRow,
         GoTo, Raise
<1>5. ASSUME NEW q \in Requests PROVE KnownOK(q)'
  BY DEF PipelineInv, KnownOK, HashOf, Working, CommitUnacknowledged, CommitRow,
         GoTo, Raise
<1>6. ASSUME NEW h \in Hashes PROVE EntryOK(h)'
  BY DEF PipelineInv, EntryOK, PhaseOK, HashOf, CommitUnacknowledged, CommitRow,
         GoTo, Raise
<1>7. QED BY <1>1, <1>2, <1>3, <1>4, <1>5, <1>6 DEF PipelineInv

\* A rollback removes a row only if it was not committed.
LEMMA RollbackInv ==
  ASSUME PipelineInv, NEW r \in Requests, Rollback(r)
  PROVE  PipelineInv'
<1> USE NamesAssumption
<1>1. TypeOK'
  BY DEF PipelineInv, TypeOK, Rollback, DiscardRow, Close, Labels, Statuses, NoRow
<1>2. ASSUME NEW q \in Requests PROVE PhaseOK(q)'
  BY DEF PipelineInv, PhaseOK, Rollback, DiscardRow, Close, Early
<1>3. ASSUME NEW q \in Requests PROVE StoredOK(q)'
  BY DEF PipelineInv, StoredOK, Rollback, DiscardRow, Close
<1>4. ASSUME NEW q \in Requests PROVE TargetOK(q)'
  BY DEF PipelineInv, TargetOK, PhaseOK, Returning, HashOf, Rollback, Close
<1>5. ASSUME NEW q \in Requests PROVE KnownOK(q)'
  BY DEF PipelineInv, KnownOK, HashOf, Working, Rollback, Close
<1>6. ASSUME NEW h \in Hashes PROVE EntryOK(h)'
  BY DEF PipelineInv, EntryOK, HashOf, Rollback, Close
<1>7. QED BY <1>1, <1>2, <1>3, <1>4, <1>5, <1>6 DEF PipelineInv

\* A statement that fails goes straight to the rollback.
LEMMA StatementFailsInv ==
  ASSUME PipelineInv, NEW r \in Requests, StatementFails(r)
  PROVE  PipelineInv'
<1> USE NamesAssumption
<1>1. TypeOK'
  BY DEF PipelineInv, TypeOK, StatementFails, GoTo, Raise, Labels, Codes,
         DbErrorCodes
<1>2. ASSUME NEW q \in Requests PROVE PhaseOK(q)'
  BY DEF PipelineInv, PhaseOK, StatementFails, GoTo, Raise, Early, DbErrorCodes
<1>3. ASSUME NEW q \in Requests PROVE StoredOK(q)'
  BY DEF PipelineInv, StoredOK, StatementFails, GoTo, Raise
<1>4. ASSUME NEW q \in Requests PROVE TargetOK(q)'
  BY DEF PipelineInv, TargetOK, Returning, HashOf, StatementFails, GoTo, Raise
<1>5. ASSUME NEW q \in Requests PROVE KnownOK(q)'
  BY DEF PipelineInv, KnownOK, HashOf, Working, StatementFails, GoTo, Raise
<1>6. ASSUME NEW h \in Hashes PROVE EntryOK(h)'
  BY DEF PipelineInv, EntryOK, HashOf, StatementFails, GoTo, Raise
<1>7. QED BY <1>1, <1>2, <1>3, <1>4, <1>5, <1>6 DEF PipelineInv

\* A completion that fails goes to mark_failed, before the cache was told.
LEMMA CompletionFailsInv ==
  ASSUME PipelineInv, NEW r \in Requests, CompletionFails(r)
  PROVE  PipelineInv'
<1> USE NamesAssumption
<1>1. TypeOK'
  BY DEF PipelineInv, TypeOK, CompletionFails, GoTo, RaiseInRun, Labels, Codes,
         DbErrorCodes
<1>2. ASSUME NEW q \in Requests PROVE PhaseOK(q)'
  BY DEF PipelineInv, PhaseOK, CompletionFails, GoTo, RaiseInRun, Early,
         DbErrorCodes
<1>3. ASSUME NEW q \in Requests PROVE StoredOK(q)'
  BY DEF PipelineInv, StoredOK, CompletionFails, GoTo, RaiseInRun
<1>4. ASSUME NEW q \in Requests PROVE TargetOK(q)'
  BY DEF PipelineInv, TargetOK, Returning, HashOf, CompletionFails, GoTo, RaiseInRun
<1>5. ASSUME NEW q \in Requests PROVE KnownOK(q)'
  BY DEF PipelineInv, KnownOK, HashOf, Working, CompletionFails, GoTo, RaiseInRun
<1>6. ASSUME NEW h \in Hashes PROVE EntryOK(h)'
  BY DEF PipelineInv, EntryOK, HashOf, CompletionFails, GoTo, RaiseInRun
<1>7. QED BY <1>1, <1>2, <1>3, <1>4, <1>5, <1>6 DEF PipelineInv

\* A lost request leaves its row as PostgreSQL has it.
LEMMA AbortInv ==
  ASSUME PipelineInv, NEW r \in Requests, Abort(r)
  PROVE  PipelineInv'
<1> USE NamesAssumption
<1>1. TypeOK'
  BY DEF PipelineInv, TypeOK, Abort, DiscardRow, Close, Labels, Codes, Statuses,
         NoRow
<1>2. ASSUME NEW q \in Requests PROVE PhaseOK(q)'
  BY DEF PipelineInv, TypeOK, PhaseOK, Abort, DiscardRow, Close, Early
<1>3. ASSUME NEW q \in Requests PROVE StoredOK(q)'
  BY DEF PipelineInv, StoredOK, Abort, DiscardRow, Close
<1>4. ASSUME NEW q \in Requests PROVE TargetOK(q)'
  BY DEF PipelineInv, TypeOK, TargetOK, Returning, HashOf, Abort, Close
<1>5. ASSUME NEW q \in Requests PROVE KnownOK(q)'
  BY DEF PipelineInv, KnownOK, HashOf, Working, Abort, Close
<1>6. ASSUME NEW h \in Hashes PROVE EntryOK(h)'
  BY DEF PipelineInv, TypeOK, EntryOK, HashOf, Abort, Close
<1>7. QED BY <1>1, <1>2, <1>3, <1>4, <1>5, <1>6 DEF PipelineInv

\* An entry that goes away makes no claim.
LEMMA ExpireInv ==
  ASSUME PipelineInv, NEW g \in Hashes, Expire(g)
  PROVE  PipelineInv'
<1>1. TypeOK'
  BY DEF PipelineInv, TypeOK, Expire
<1>2. ASSUME NEW q \in Requests
      PROVE  PhaseOK(q)' /\ StoredOK(q)' /\ TargetOK(q)' /\ KnownOK(q)'
  BY DEF PipelineInv, PhaseOK, StoredOK, TargetOK, KnownOK, Returning, HashOf,
         Expire
<1>3. ASSUME NEW h \in Hashes PROVE EntryOK(h)'
  BY DEF PipelineInv, EntryOK, HashOf, Expire
<1>4. QED BY <1>1, <1>2, <1>3 DEF PipelineInv

\* Nothing happens.
LEMMA StutterInv ==
  ASSUME PipelineInv, UNCHANGED vars
  PROVE  PipelineInv'
BY DEF PipelineInv, vars, TypeOK, PhaseOK, StoredOK, TargetOK, KnownOK, EntryOK,
       Returning, HashOf

\* Every step keeps the invariant.
LEMMA NextInv == PipelineInv /\ [Next]_vars => PipelineInv'
<1> SUFFICES ASSUME PipelineInv, [Next]_vars PROVE PipelineInv'
  OBVIOUS
<1>1. CASE \E r \in Requests, in \in Inputs : Arrive(r, in)
  BY <1>1, ArriveInv
<1>2. CASE \E r \in Requests : Step(r)
  <2> SUFFICES ASSUME NEW r \in Requests, Step(r) PROVE PipelineInv'
    BY <1>2
  <2> QED
    BY ValidateInv, CacheHitInv, CacheMissInv, FetchCachedInv, DatabaseHitInv,
       DatabaseMissInv, BackfillCacheInv, CreateRecordInv, MarkProcessingInv,
       CallFailsInv, CallRefusedInv, CallAnsweredInv, MarkCompletedInv,
       CacheResultInv, MarkFailedInv, CommitInv, CommitFailsInv,
       CommitUnacknowledgedInv, RollbackInv, StatementFailsInv, CompletionFailsInv
       DEF Step
<1>3. CASE \E r \in Requests : Abort(r)
  BY <1>3, AbortInv
<1>4. CASE \E h \in Hashes : Expire(h)
  BY <1>4, ExpireInv
<1>5. CASE UNCHANGED vars
  BY <1>5, StutterInv
<1>6. QED BY <1>1, <1>2, <1>3, <1>4, <1>5 DEF Next

\* The inductive invariant holds in every reachable state.
THEOREM PipelineInvariant == Spec => []PipelineInv
<1>1. QED BY InitInv, NextInv, PTL DEF Spec

\* Types, and the bound on the calls one request makes to the LLM.
THEOREM TypeCorrect == Spec => []TypeOK
<1>1. PipelineInv => TypeOK
  BY DEF PipelineInv
<1>2. QED BY <1>1, PipelineInvariant, PTL

\* What other sessions can see is complete and builds a response.
THEOREM CommittedComplete == Spec => []CommittedRowsAreComplete
<1>1. PipelineInv => CommittedRowsAreComplete
  BY DEF PipelineInv, TypeOK, StoredOK, CommittedRowsAreComplete
<1>2. QED BY <1>1, PipelineInvariant, PTL

\* A 201 carries a committed analysis of the content that was posted.
THEOREM CreatedStored == Spec => []CreatedMeansStored
<1>1. PipelineInv => CreatedMeansStored
  BY DEF PipelineInv, TargetOK, Returning, CreatedMeansStored
<1>2. QED BY <1>1, PipelineInvariant, PTL

\* The cache never mixes up two contents, nor names what was not analysed.
THEOREM CacheAnalysed == Spec => []CacheNamesAnalysed
<1>1. PipelineInv => CacheNamesAnalysed
  BY DEF PipelineInv, EntryOK, CacheNamesAnalysed
<1>2. QED BY <1>1, PipelineInvariant, PTL

\* Where a cache entry without a row comes from.
THEOREM CachedStoredOrLost == Spec => []CachedIsStoredOrLost
<1>1. PipelineInv => CachedIsStoredOrLost
  BY DEF PipelineInv, EntryOK, CachedIsStoredOrLost, DbErrorCodes
<1>2. QED BY <1>1, PipelineInvariant, PTL

\* Deduplication: stored before posted means not analysed again.
THEOREM KnownContent == Spec => []KnownNotReanalysed
<1>1. PipelineInv => KnownNotReanalysed
  BY DEF PipelineInv, TypeOK, KnownOK, KnownNotReanalysed
<1>2. QED BY <1>1, PipelineInvariant, PTL

-----------------------------------------------------------------------------
(* Committed rows are final.                                               *)

\* A step changes at most the row of a request that has not committed.
LEMMA StepKeepsRows ==
  ASSUME PipelineInv, NEW r \in Requests, Step(r) \/ Abort(r),
         NEW s \in committed
  PROVE  s \in committed' /\ row'[s] = row[s]
<1>1. s \in Requests /\ pc[s] \in {"rollback", "done"}
  BY DEF PipelineInv, TypeOK, StoredOK
<1>2. CASE CreateRecord(r) \/ MarkProcessing(r) \/ MarkCompleted(r) \/ MarkFailed(r)
  BY <1>1, <1>2 DEF PipelineInv, TypeOK, CreateRecord, MarkProcessing,
                    MarkCompleted, MarkFailed
<1>3. CASE Rollback(r) \/ Abort(r)
  BY <1>1, <1>3 DEF PipelineInv, TypeOK, Rollback, Abort, DiscardRow
<1>4. CASE Commit(r) \/ CommitUnacknowledged(r)
  BY <1>4 DEF Commit, CommitUnacknowledged, CommitRow
<1>5. CASE CallFails(r) \/ CallRefused(r) \/ CallAnswered(r)
  BY <1>5 DEF CallFails, CallRefused, CallAnswered, CallLLM
<1>6. CASE UNCHANGED <<row, committed>>
  BY <1>6
<1>7. QED
  BY <1>2, <1>3, <1>4, <1>5, <1>6
     DEF Step, Validate, CacheHit, CacheMiss, FetchCached, DatabaseHit, DatabaseMiss,
         BackfillCache, CacheResult, CommitFails, StatementFails, CompletionFails

\* No step of anyone, crashes included, changes or removes a committed row.
THEOREM RowsFinal == Spec => CommittedRowsAreFinal
<1> DEFINE Kept == \A r \in committed : r \in committed' /\ row'[r] = row[r]
<1>1. ASSUME PipelineInv, Next PROVE Kept
  <2>1. CASE \E r \in Requests : Step(r) \/ Abort(r)
    BY <1>1, <2>1, StepKeepsRows
  <2>2. CASE \E r \in Requests, in \in Inputs : Arrive(r, in)
    BY <2>2 DEF Arrive
  <2>3. CASE \E h \in Hashes : Expire(h)
    BY <2>3 DEF Expire
  <2>4. QED BY <1>1, <2>1, <2>2, <2>3 DEF Next
<1>2. PipelineInv /\ [Next]_vars => [Kept]_vars
  BY <1>1
<1>3. QED BY <1>2, PipelineInvariant, PTL DEF Spec, CommittedRowsAreFinal

-----------------------------------------------------------------------------
(* The pipeline implements AnalysisStore.                                  *)

\* A step that shows the client nothing is a stutter of the store.
LEMMA Hidden ==
  ASSUME UNCHANGED <<input, known, committed>>,
         NEW r \in Requests, pc \in [Requests -> Labels],
         pc[r] # "done", pc'[r] # "done",
         \A q \in Requests \ {r} :
           pc'[q] = pc[q] /\ code'[q] = code[q] /\ target'[q] = target[q]
  PROVE  UNCHANGED Store!vars
BY DEF Store!vars

\* A request that ends without a 201 is refused.
LEMMA Refused ==
  ASSUME PipelineInv, NEW r \in Requests, NEW c \in Codes \ {"created"},
         pc[r] \notin {"idle", "done"}, Close(r, c),
         UNCHANGED <<input, known, committed>>
  PROVE  Store!Refuse(r)
BY DEF PipelineInv, TypeOK, PhaseOK, Close, Store!Refuse, Store!Open

\* Posting is asking, and the history says whether the content is fresh.
LEMMA ArriveAsks ==
  ASSUME PipelineInv, NEW r \in Requests, NEW in \in Inputs, Arrive(r, in)
  PROVE  Store!Ask(r, in)
<1> USE NamesAssumption
<1>1. Completed(ContentHash(in)) = {} <=>
        ~ \E s \in committed : ContentHash(input[s]) = ContentHash(in)
  BY DEF PipelineInv, TypeOK, StoredOK, Completed, HashOf
<1>2. input[r] = NoInput /\ r \notin known
  BY DEF PipelineInv, PhaseOK, KnownOK, Arrive
<1>3. {q \in Requests : input'[q] # NoInput} =
        {q \in Requests : input[q] # NoInput} \cup {r}
  BY <1>2 DEF PipelineInv, TypeOK, Arrive
<1>4. ({q \in Requests : input[q] # NoInput} \ known)' =
        IF \E s \in committed : ContentHash(input[s]) = ContentHash(in)
          THEN {q \in Requests : input[q] # NoInput} \ known
          ELSE ({q \in Requests : input[q] # NoInput} \ known) \cup {r}
  BY <1>1, <1>2, <1>3 DEF Arrive
<1>5. UNCHANGED <<committed, target, code>> /\
      \A q \in Requests : (pc'[q] = "done") <=> (pc[q] = "done")
  BY DEF PipelineInv, TypeOK, Arrive, GoTo
<1>6. QED BY <1>2, <1>4, <1>5 DEF Arrive, Store!Ask, ContentHash, Store!ContentHash

\* A commit that is acknowledged stores the analysis and serves it, or serves
\* one that is stored.
LEMMA CommitServes ==
  ASSUME PipelineInv, NEW r \in Requests, Commit(r)
  PROVE  Store!StoreAndServe(r) \/ Store!Reuse(r)
<1>1. pc[r] = "commit" /\ input[r] # NoInput /\ target[r] \in Requests
  BY DEF PipelineInv, TypeOK, PhaseOK, StoredOK, TargetOK, Returning, Commit
<1>2. {q \in Requests : pc'[q] = "done"} = {q \in Requests : pc[q] = "done"} \cup {r}
  BY DEF PipelineInv, TypeOK, Commit, Close
<1>3. [q \in Requests |-> IF pc'[q] = "done" /\ code'[q] = "created"
                            THEN target'[q] ELSE NoId]
        = [[q \in Requests |-> IF pc[q] = "done" /\ code[q] = "created"
                                 THEN target[q] ELSE NoId] EXCEPT ![r] = target[r]]
  BY DEF PipelineInv, TypeOK, Commit, Close
<1>4. CASE row[r].status = "absent"
  <2>1. target[r] # r
    BY <1>1, <1>4 DEF PipelineInv, PhaseOK
  <2>2. target[r] \in committed /\ HashOf(target[r]) = HashOf(r)
    BY <1>1, <2>1 DEF PipelineInv, TargetOK, Returning
  <2>3. UNCHANGED <<input, known, committed>>
    BY <1>4 DEF Commit, CommitRow
  <2>4. Store!Reuse(r)
    BY <1>1, <1>2, <1>3, <2>2, <2>3
       DEF Store!Reuse, Store!Open, Store!SameContent, HashOf, ContentHash,
           Store!ContentHash
  <2>5. QED BY <2>4
<1>5. CASE row[r].status # "absent"
  <2>1. target[r] = r /\ r \notin known /\ r \notin committed
    BY <1>1, <1>5 DEF PipelineInv, PhaseOK, KnownOK, StoredOK, NoRow
  <2>2. committed' = committed \cup {r} /\ UNCHANGED <<input, known>>
    BY <1>5 DEF Commit, CommitRow
  <2>3. Store!StoreAndServe(r)
    BY <1>1, <1>2, <1>3, <2>1, <2>2 DEF Store!StoreAndServe, Store!Open
  <2>4. QED BY <2>3
<1>6. QED BY <1>4, <1>5

\* A commit that goes through unacknowledged stores the analysis if there is
\* one, and the request is refused later.
LEMMA CommitStores ==
  ASSUME PipelineInv, NEW r \in Requests, CommitUnacknowledged(r)
  PROVE  Store!Store(r) \/ UNCHANGED Store!vars
<1>1. pc[r] = "commit" /\ input[r] # NoInput
  BY DEF PipelineInv, PhaseOK, CommitUnacknowledged
<1>2. \A q \in Requests : (pc'[q] = "done") <=> (pc[q] = "done")
  BY DEF PipelineInv, TypeOK, CommitUnacknowledged, Raise, GoTo
<1>3. \A q \in Requests : pc[q] = "done" => code'[q] = code[q]
  BY <1>1 DEF PipelineInv, TypeOK, CommitUnacknowledged, Raise
<1>4. UNCHANGED <<input, target, known>>
  BY DEF CommitUnacknowledged
<1>5. CASE row[r].status = "absent"
  <2>1. UNCHANGED committed
    BY <1>5 DEF CommitUnacknowledged, CommitRow
  <2>2. QED BY <1>2, <1>3, <1>4, <2>1 DEF Store!vars
<1>6. CASE row[r].status # "absent"
  <2>1. r \notin known /\ r \notin committed
    BY <1>1, <1>6 DEF PipelineInv, PhaseOK, KnownOK, StoredOK, NoRow
  <2>2. committed' = committed \cup {r}
    BY <1>6 DEF CommitUnacknowledged, CommitRow
  <2>3. QED
    BY <1>1, <1>2, <1>3, <1>4, <2>1, <2>2 DEF Store!Store, Store!Open
<1>7. QED BY <1>5, <1>6

\* Every other step of a request is hidden, until it is rolled back.
LEMMA StepImplements ==
  ASSUME PipelineInv, NEW r \in Requests, Step(r) \/ Abort(r)
  PROVE  Store!Next \/ UNCHANGED Store!vars
<1> USE DEF PipelineInv, TypeOK
<1>1. CASE Commit(r)
  BY <1>1, CommitServes DEF Store!Next
<1>2. CASE CommitUnacknowledged(r)
  BY <1>2, CommitStores DEF Store!Next
<1>3. CASE Rollback(r)
  <2>1. Close(r, code[r]) /\ pc[r] = "rollback" /\ UNCHANGED <<input, known, committed>>
    BY <1>3 DEF Rollback
  <2>2. code[r] \in Codes \ {"created"}
    BY <2>1 DEF PhaseOK
  <2>3. QED BY <2>1, <2>2, Refused DEF Store!Next
<1>4. CASE Abort(r)
  BY <1>4, Refused DEF Abort, Codes, Store!Next
<1>5. CASE Validate(r) \/ CacheHit(r) \/ CacheMiss(r) \/ DatabaseMiss(r)
  <2>1. UNCHANGED <<input, known, committed>> /\ pc[r] # "done" /\ pc'[r] # "done"
    BY <1>5 DEF Validate, CacheHit, CacheMiss, DatabaseMiss, Raise, GoTo
  <2>2. \A q \in Requests \ {r} :
          pc'[q] = pc[q] /\ code'[q] = code[q] /\ target'[q] = target[q]
    BY <1>5 DEF Validate, CacheHit, CacheMiss, DatabaseMiss, Raise, GoTo
  <2>3. QED BY <2>1, <2>2, Hidden
<1>6. CASE FetchCached(r) \/ DatabaseHit(r) \/ BackfillCache(r)
  <2>1. UNCHANGED <<input, known, committed>> /\ pc[r] # "done" /\ pc'[r] # "done"
    BY <1>6 DEF FetchCached, DatabaseHit, BackfillCache, Respond, Raise, GoTo
  <2>2. \A q \in Requests \ {r} :
          pc'[q] = pc[q] /\ code'[q] = code[q] /\ target'[q] = target[q]
    BY <1>6 DEF FetchCached, DatabaseHit, BackfillCache, Respond, Raise, GoTo
  <2>3. QED BY <2>1, <2>2, Hidden
<1>7. CASE CreateRecord(r) \/ MarkProcessing(r) \/ MarkCompleted(r) \/ MarkFailed(r)
  <2>1. UNCHANGED <<input, known, committed>> /\ pc[r] # "done" /\ pc'[r] # "done"
    BY <1>7 DEF CreateRecord, MarkProcessing, MarkCompleted, MarkFailed, GoTo
  <2>2. \A q \in Requests \ {r} :
          pc'[q] = pc[q] /\ code'[q] = code[q] /\ target'[q] = target[q]
    BY <1>7 DEF CreateRecord, MarkProcessing, MarkCompleted, MarkFailed, GoTo
  <2>3. QED BY <2>1, <2>2, Hidden
<1>8. CASE CallFails(r) \/ CallRefused(r) \/ CallAnswered(r)
  <2>1. UNCHANGED <<input, known, committed>> /\ pc[r] # "done" /\ pc'[r] # "done"
    BY <1>8 DEF CallFails, CallRefused, CallAnswered, CallLLM, RaiseInRun, GoTo
  <2>2. \A q \in Requests \ {r} :
          pc'[q] = pc[q] /\ code'[q] = code[q] /\ target'[q] = target[q]
    BY <1>8 DEF CallFails, CallRefused, CallAnswered, CallLLM, RaiseInRun, GoTo
  <2>3. QED BY <2>1, <2>2, Hidden
<1>9. CASE CacheResult(r) \/ CommitFails(r) \/ StatementFails(r) \/ CompletionFails(r)
  <2>1. UNCHANGED <<input, known, committed>> /\ pc[r] # "done" /\ pc'[r] # "done"
    BY <1>9 DEF CacheResult, CommitFails, StatementFails, CompletionFails, Raise,
                RaiseInRun, GoTo
  <2>2. \A q \in Requests \ {r} :
          pc'[q] = pc[q] /\ code'[q] = code[q] /\ target'[q] = target[q]
    BY <1>9 DEF CacheResult, CommitFails, StatementFails, CompletionFails, Raise,
                RaiseInRun, GoTo
  <2>3. QED BY <2>1, <2>2, Hidden
<1>10. QED
  BY <1>1, <1>2, <1>3, <1>4, <1>5, <1>6, <1>7, <1>8, <1>9 DEF Step

\* Every behaviour of the pipeline is one of the store its clients see.
THEOREM Implementation == Spec => StoreImplemented
<1>1. Init => Store!Init
  BY DEF Init, Store!Init
<1>2. PipelineInv /\ [Next]_vars => [Store!Next]_(Store!vars)
  <2> SUFFICES ASSUME PipelineInv, [Next]_vars
               PROVE  Store!Next \/ UNCHANGED Store!vars
    OBVIOUS
  <2>1. CASE \E r \in Requests : Step(r) \/ Abort(r)
    BY <2>1, StepImplements
  <2>2. CASE \E r \in Requests, in \in Inputs : Arrive(r, in)
    BY <2>2, ArriveAsks DEF Store!Next
  <2>3. CASE (\E h \in Hashes : Expire(h)) \/ UNCHANGED vars
    BY <2>3 DEF Expire, vars, Store!vars
  <2>4. QED BY <2>1, <2>2, <2>3 DEF Next
<1>3. QED
  BY <1>1, <1>2, PipelineInvariant, PTL DEF Spec, StoreImplemented, Store!Spec

-----------------------------------------------------------------------------
(* Every request gets further.                                             *)

\* A step of a request, or its end, brings it further and moves no other.
LEMMA Further ==
  ASSUME PipelineInv, PipelineInv', NEW r \in Requests,
         Step(r) \/ Abort(r) \/ \E in \in Inputs : Arrive(r, in)
  PROVE  /\ Progress(r)' > Progress(r)
         /\ pc'[r] # "idle"
         /\ \A q \in Requests \ {r} : pc'[q] = pc[q] /\ attempts'[q] = attempts[q]
<1>1. /\ pc \in [Requests -> Labels] /\ pc' \in [Requests -> Labels]
      /\ attempts \in [Requests -> Nat] /\ attempts' \in [Requests -> Nat]
  BY AttemptsAssumption DEF PipelineInv, TypeOK
<1>2. CASE Validate(r) \/ CacheHit(r) \/ CacheMiss(r) \/ FetchCached(r)
  BY <1>1, <1>2 DEF Progress, Place, Labels, Validate, CacheHit, CacheMiss, FetchCached,
                    Respond, Raise, GoTo
<1>3. CASE DatabaseHit(r) \/ DatabaseMiss(r) \/ BackfillCache(r) \/ CreateRecord(r)
           \/ MarkProcessing(r)
  BY <1>1, <1>3 DEF Progress, Place, Labels, DatabaseHit, DatabaseMiss, BackfillCache,
                    CreateRecord, MarkProcessing, Respond, Raise, GoTo
<1>4. CASE CallFails(r) \/ CallRefused(r) \/ CallAnswered(r)
  BY <1>1, <1>4 DEF Progress, Place, Labels, CallFails, CallRefused, CallAnswered, CallLLM,
                    RaiseInRun, GoTo
<1>5. CASE MarkCompleted(r) \/ CacheResult(r) \/ MarkFailed(r) \/ Commit(r) \/ CommitFails(r)
           \/ CommitUnacknowledged(r) \/ Rollback(r)
  BY <1>1, <1>5 DEF Progress, Place, Labels, MarkCompleted, CacheResult, MarkFailed, Commit,
                    CommitFails, CommitUnacknowledged, Rollback, Close, Raise, RaiseInRun, GoTo
<1>6. CASE StatementFails(r) \/ CompletionFails(r)
  BY <1>1, <1>6 DEF Progress, Place, Labels, StatementFails, CompletionFails, Raise,
                    RaiseInRun, GoTo
<1>7. CASE Abort(r)
  BY <1>1, <1>7 DEF Progress, Place, Labels, Abort, Close
<1>8. CASE \E in \in Inputs : Arrive(r, in)
  BY <1>1, <1>8 DEF Progress, Place, Labels, Arrive, GoTo
<1> QED BY <1>2, <1>3, <1>4, <1>5, <1>6, <1>7, <1>8 DEF Step

\* Whatever a step does, each request stays where it is or gets further.
LEMMA OnlyFurther ==
  ASSUME PipelineInv, PipelineInv', Next, NEW r \in Requests
  PROVE  \/ pc'[r] = pc[r] /\ attempts'[r] = attempts[r]
         \/ Progress(r)' > Progress(r) /\ pc'[r] # "idle"
<1>1. CASE \E q \in Requests : Step(q) \/ Abort(q) \/ \E in \in Inputs : Arrive(q, in)
  <2>1. PICK q \in Requests : Step(q) \/ Abort(q) \/ \E in \in Inputs : Arrive(q, in)
    BY <1>1
  <2>2. CASE q = r
    BY <2>1, <2>2, Further
  <2>3. CASE q # r
    BY <2>1, <2>3, Further
  <2> QED BY <2>2, <2>3
<1>2. CASE \E h \in Hashes : Expire(h)
  BY <1>2 DEF Expire
<1> QED BY <1>1, <1>2 DEF Next

\* No request is taken back by an error path, a retry or a crash.
THEOREM GoesOn == Spec => RequestsGoOn
<1> DEFINE On(r) == pc'[r] # pc[r] \/ attempts'[r] # attempts[r] => Progress(r)' > Progress(r)
<1>1. PipelineInv /\ PipelineInv' /\ [Next]_vars => [\A r \in Requests : On(r)]_vars
  BY OnlyFurther
<1> QED BY <1>1, PipelineInvariant, PTL DEF Spec, RequestsGoOn

-----------------------------------------------------------------------------
(* Liveness.  That an action is ENABLED is out of the provers' reach, so   *)
(* NeverStuck, which TLC checks, is a hypothesis.  What follows from it    *)
(* and from the fairness of the event loop is proved.                      *)

\* The fairness an entry and a request are given, and what they get by it.
ExpiresFairly(h) == WF_vars(Expire(h))
StepsFairly(r) == WF_vars(Step(r))
Heals(h) == Dangling(h) ~> ~Dangling(h)
IsAnswered(r) == pc[r] = "validate" ~> pc[r] = "done"
Going == Spec /\ []NeverStuck

\* A dangling entry that cannot heal otherwise expires.
LEMMA EntryExpires ==
  ASSUME NEW h \in Hashes
  PROVE  Going /\ ExpiresFairly(h) => Heals(h)
<1>1. PipelineInv /\ Dangling(h) /\ <<Expire(h)>>_vars => ~Dangling(h)'
  BY DEF PipelineInv, TypeOK, Dangling, Expire
<1>2. NeverStuck /\ Dangling(h) => ENABLED <<Expire(h)>>_vars
  BY DEF NeverStuck, Dangling
<1> QED BY <1>1, <1>2, PipelineInvariant, PTL DEF Going, Spec, ExpiresFairly, Heals

\* No cache entry names a missing analysis for ever.
THEOREM DanglingEnds == FairSpec /\ []NeverStuck => DanglingHeals
<1>1. Going /\ (\A h \in Hashes : ExpiresFairly(h)) => \A h \in Hashes : Heals(h)
  BY EntryExpires
<1> QED BY <1>1, PTL DEF Going, FairSpec, Fairness, DanglingHeals, ExpiresFairly, Heals

\* How far a request can be.
LEMMA ProgressBound ==
  ASSUME TypeOK, NEW r \in Requests
  PROVE  /\ Progress(r) \in Nat
         /\ pc[r] # "done" => Progress(r) <= 13 + MaxAttempts
         /\ pc[r] = "validate" => Progress(r) >= 1
<1>1. \A l \in Labels : Place[l] \in Nat /\ (l # "done" => Place[l] <= 13)
  <2>1. /\ Place["idle"] = 0 /\ Place["validate"] = 1 /\ Place["cache_get"] = 2
        /\ Place["fetch"] = 3 /\ Place["dedup"] = 4 /\ Place["backfill"] = 5
        /\ Place["create"] = 6 /\ Place["mark_processing"] = 7 /\ Place["llm"] = 8
        /\ Place["mark_completed"] = 9 /\ Place["cache_set"] = 10
        /\ Place["mark_failed"] = 11 /\ Place["commit"] = 12 /\ Place["rollback"] = 13
        /\ Place["done"] = 14
    BY DEF Place, Labels
  <2> QED BY <2>1 DEF Labels
<1>2. Place["validate"] = 1
  BY DEF Place, Labels
<1>3. pc[r] \in Labels /\ attempts[r] \in Nat /\ attempts[r] <= MaxAttempts
  BY AttemptsAssumption DEF TypeOK
<1> QED BY <1>1, <1>2, <1>3, AttemptsAssumption DEF Progress

\* r has been posted and has come n steps far.
HasCome(r, n) == pc[r] # "idle" /\ Progress(r) >= n

\* A request that has come n steps far comes m steps far, or is done.
Leads(r, n, m) == HasCome(r, n) ~> HasCome(r, m) \/ pc[r] = "done"

\* A request that is not done does not stay where it is.
LEMMA OneFurther ==
  ASSUME NEW r \in Requests, NEW n \in Nat, NEW m \in Nat, m = n + 1
  PROVE  Going /\ StepsFairly(r) => Leads(r, n, m)
<1>1. PipelineInv => Progress(r) \in Nat
  BY ProgressBound DEF PipelineInv
<1>2. PipelineInv' => (Progress(r) \in Nat)'
  BY <1>1, PTL
<1>3. PipelineInv /\ HasCome(r, n) /\ [Next]_vars => HasCome(r, n)'
  <2>1. CASE pc'[r] = pc[r] /\ attempts'[r] = attempts[r]
    BY <2>1 DEF HasCome, Progress
  <2>2. ASSUME PipelineInv, PipelineInv', HasCome(r, n), Progress(r)' > Progress(r), pc'[r] # "idle"
        PROVE  HasCome(r, n)'
    BY <1>1, <1>2, <2>2 DEF HasCome
  <2> QED BY <2>1, <2>2, OnlyFurther, NextInv DEF vars
<1>4. PipelineInv /\ HasCome(r, n) /\ <<Step(r)>>_vars => HasCome(r, m)'
  <2> SUFFICES ASSUME PipelineInv, HasCome(r, n), Step(r)
               PROVE  HasCome(r, m)'
    OBVIOUS
  <2>1. PipelineInv'
    BY NextInv DEF Next
  <2>2. Progress(r)' > Progress(r) /\ pc'[r] # "idle"
    BY <2>1, Further
  <2> QED BY <1>1, <1>2, <2>1, <2>2 DEF HasCome
<1>5. NeverStuck /\ HasCome(r, n) /\ ~(pc[r] = "done") => ENABLED <<Step(r)>>_vars
  BY DEF NeverStuck, HasCome
<1> QED BY <1>3, <1>4, <1>5, PipelineInvariant, PTL DEF Going, Spec, StepsFairly, Leads

\* A request is answered within as many steps as it has awaits and attempts:
\* with the three attempts of LLMService, sixteen at most.
LEMMA RequestAnswered ==
  ASSUME NEW r \in Requests, MaxAttempts <= 3
  PROVE  Going /\ StepsFairly(r) => IsAnswered(r)
<1>1. Going /\ StepsFairly(r) =>
       /\ Leads(r, 1, 2) /\ Leads(r, 2, 3) /\ Leads(r, 3, 4) /\ Leads(r, 4, 5)
       /\ Leads(r, 5, 6) /\ Leads(r, 6, 7) /\ Leads(r, 7, 8) /\ Leads(r, 8, 9)
       /\ Leads(r, 9, 10) /\ Leads(r, 10, 11) /\ Leads(r, 11, 12) /\ Leads(r, 12, 13)
       /\ Leads(r, 13, 14) /\ Leads(r, 14, 15) /\ Leads(r, 15, 16) /\ Leads(r, 16, 17)
  BY OneFurther
<1>2. PipelineInv /\ pc[r] = "validate" => HasCome(r, 1)
  BY ProgressBound DEF PipelineInv, HasCome
<1>3. PipelineInv /\ HasCome(r, 17) => pc[r] = "done"
  BY ProgressBound, AttemptsAssumption DEF PipelineInv, HasCome
<1> QED BY <1>1, <1>2, <1>3, PipelineInvariant, PTL DEF Going, Spec, Leads, IsAnswered

\* Every posted request is answered, or its connection is lost.
THEOREM AllAnswered == MaxAttempts <= 3 => (FairSpec /\ []NeverStuck => EveryRequestAnswered)
<1> SUFFICES ASSUME MaxAttempts <= 3 PROVE FairSpec /\ []NeverStuck => EveryRequestAnswered
  OBVIOUS
<1>1. Going /\ (\A r \in Requests : StepsFairly(r)) => \A r \in Requests : IsAnswered(r)
  BY RequestAnswered
<1> QED BY <1>1, PTL DEF Going, FairSpec, Fairness, EveryRequestAnswered, StepsFairly, IsAnswered

=============================================================================
