------------------------- MODULE AnalysisPipeline -------------------------
(***************************************************************************)
(* POST /analyses and POST /analyses/upload from the service's first line  *)
(* to the answer: AnalysisService over one database session, the Redis     *)
(* cache and the LLM.  Requests run concurrently, on any worker, and       *)
(* interleave at every await; an action is the code between two awaits,    *)
(* with the effect of the call it awaits.                                  *)
(*                                                                         *)
(* The database is PostgreSQL at READ COMMITTED with one transaction per   *)
(* request: a row a request inserts is seen by others once it commits,     *)
(* and nothing in the code touches a committed row again.  A row is named  *)
(* by the request that inserts it.                                         *)
(***************************************************************************)
EXTENDS Naturals, FiniteSets, ContentKey, ResponseSchema

CONSTANTS Requests,     \* the POSTs of a run, and the ids of their rows
          Inputs,       \* what a POST may carry
          Replies,      \* kinds of reply the LLM may give
          MaxAttempts,  \* stop_after_attempt(3)
          NoInput,      \* not yet posted
          NoId,         \* no analysis id
          NoReply       \* no parsed reply

ASSUME InputsAssumption == \A in \in Inputs : IsRequest(in)
ASSUME RepliesAssumption == Replies \subseteq AllReplies
ASSUME AttemptsAssumption == MaxAttempts \in Nat \ {0}
ASSUME NamesAssumption ==
  /\ NoId \notin Requests
  /\ NoInput \notin Inputs
  /\ NoReply \notin Replies

VARIABLES
  pc,         \* pc[r]: the await r is at
  input,      \* input[r]: what r posted
  target,     \* target[r]: the analysis r is about to return
  attempts,   \* attempts[r]: calls r has made to the LLM
  reply,      \* reply[r]: the parsed reply, llm_result.raw_result
  code,       \* code[r]: the outcome, decided before pc[r] = "done"
  row,        \* row[r]: the row r inserts, with status and result
  committed,  \* the ids of the committed rows
  cache,      \* cache[h]: the id under analysis_hash:<h> in Redis
  known       \* history: requests whose content was stored when they came

vars == <<pc, input, target, attempts, reply, code, row, committed, cache, known>>

Hashes == {ContentHash(in) : in \in Inputs}

HashOf(r) == ContentHash(input[r])

\* AnalysisStatus, and "absent" for a row that is not there.
Statuses == {"absent", "pending", "processing", "completed", "failed"}

\* The awaits of a request, and where it waits before and after.
Labels == {"idle", "validate", "cache_get", "fetch", "dedup", "backfill",
           "create", "mark_processing", "llm", "mark_completed", "cache_set",
           "mark_failed", "commit", "rollback", "done"}

NoRow == [status |-> "absent", result |-> NoReply]

Codes == {"none", "created", "rejected", "not_found", "bad_gateway",
          "unavailable", "internal", "dropped"}

\* A database call that fails: OperationalError becomes DatabaseException
\* (503), anything else (a pool timeout, a lost connection) is a 500.
DbErrorCodes == {"unavailable", "internal"}

Init ==
  /\ pc = [r \in Requests |-> "idle"]
  /\ input = [r \in Requests |-> NoInput]
  /\ target = [r \in Requests |-> NoId]
  /\ attempts = [r \in Requests |-> 0]
  /\ reply = [r \in Requests |-> NoReply]
  /\ code = [r \in Requests |-> "none"]
  /\ row = [r \in Requests |-> NoRow]
  /\ committed = {}
  /\ cache = [h \in Hashes |-> NoId]
  /\ known = {}

\* The committed, completed rows of a hash: get_by_content_hash's WHERE.
Completed(h) ==
  {s \in committed : HashOf(s) = h /\ row[s].status = "completed"}

-----------------------------------------------------------------------------
(* Control.  An exception passes through get_db, whose except branch rolls *)
(* the session back before the handler answers.                            *)

GoTo(r, l) == pc' = [pc EXCEPT ![r] = l]

Raise(r, c) ==
  /\ code' = [code EXCEPT ![r] = c]
  /\ GoTo(r, "rollback")

\* An exception inside _run_analysis's try: mark_failed comes first.
RaiseInRun(r, c) ==
  /\ code' = [code EXCEPT ![r] = c]
  /\ GoTo(r, "mark_failed")

\* The request ends and its locals with it; only a 201 carries an id.
Close(r, c) ==
  /\ pc' = [pc EXCEPT ![r] = "done"]
  /\ code' = [code EXCEPT ![r] = c]
  /\ target' = [target EXCEPT ![r] = IF c = "created" THEN @ ELSE NoId]
  /\ reply' = [reply EXCEPT ![r] = NoReply]

\* AnalysisResponse takes a row without a result, or with one of its schema.
Acceptable(s) == row[s].result = NoReply \/ Conforms(row[s].result)

\* _to_response on the row of s, then out of the endpoint to the commit; a
\* row the schema does not accept is a ValidationError, a 500.
Respond(r, s) ==
  IF Acceptable(s)
    THEN GoTo(r, "commit") /\ UNCHANGED code
    ELSE Raise(r, "internal")

-----------------------------------------------------------------------------
(* Before the database: the endpoint, validation, the cache lookup.        *)

Arrive(r, in) ==
  /\ pc[r] = "idle"
  /\ input' = [input EXCEPT ![r] = in]
  /\ known' = IF Completed(ContentHash(in)) = {} THEN known ELSE known \cup {r}
  /\ GoTo(r, "validate")
  /\ UNCHANGED <<target, attempts, reply, code, row, committed, cache>>

\* ScenarioTooShortException, or validate_and_extract on an uploaded file.
Validate(r) ==
  /\ pc[r] = "validate"
  /\ IF Usable(input[r])
       THEN GoTo(r, "cache_get") /\ UNCHANGED code
       ELSE Raise(r, "rejected")
  /\ UNCHANGED <<input, target, attempts, reply, row, committed, cache, known>>

CacheHit(r) ==
  /\ pc[r] = "cache_get"
  /\ cache[HashOf(r)] # NoId
  /\ target' = [target EXCEPT ![r] = cache[HashOf(r)]]
  /\ GoTo(r, "fetch")
  /\ UNCHANGED <<input, attempts, reply, code, row, committed, cache, known>>

\* A miss, or a RedisError, which CacheManager.get turns into a miss.
CacheMiss(r) ==
  /\ pc[r] = "cache_get"
  /\ GoTo(r, "dedup")
  /\ UNCHANGED <<input, target, attempts, reply, code, row, committed, cache, known>>

-----------------------------------------------------------------------------
(* Reusing an analysis.                                                    *)

\* Mutant: the cached id is trusted, its row is not looked for.
FetchTrustingCache(r) ==
  /\ pc[r] = "fetch"
  /\ Respond(r, target[r])
  /\ UNCHANGED <<input, target, attempts, reply, row, committed, cache, known>>

\* get_by_id on the cached id, and _to_response.
FetchCached(r) ==
  /\ pc[r] = "fetch"
  /\ IF target[r] \in committed
       THEN Respond(r, target[r])
       ELSE Raise(r, "not_found")
  /\ UNCHANGED <<input, target, attempts, reply, row, committed, cache, known>>

\* Mutant: the WHERE loses its content_hash conjunct.
DatabaseHitAnyContent(r) ==
  /\ pc[r] = "dedup"
  /\ \E s \in committed :
       /\ target' = [target EXCEPT ![r] = s]
       /\ IF input[r].source_type = "scenario"
            THEN GoTo(r, "backfill") /\ UNCHANGED code
            ELSE Respond(r, s)
  /\ UNCHANGED <<input, attempts, reply, row, committed, cache, known>>

\* get_by_content_hash finds rows.  It takes the newest by created_at; which
\* one makes no difference to what is checked here, so any may be taken.
\* The file flow returns at once, the scenario flow fills the cache first.
DatabaseHit(r) ==
  /\ pc[r] = "dedup"
  /\ \E s \in Completed(HashOf(r)) :
       /\ target' = [target EXCEPT ![r] = s]
       /\ IF input[r].source_type = "scenario"
            THEN GoTo(r, "backfill") /\ UNCHANGED code
            ELSE Respond(r, s)
  /\ UNCHANGED <<input, attempts, reply, row, committed, cache, known>>

\* Mutant: the database lookup is skipped after a cache miss.
DatabaseIgnored(r) ==
  /\ pc[r] = "dedup"
  /\ GoTo(r, "create")
  /\ UNCHANGED <<input, target, attempts, reply, code, row, committed, cache, known>>

\* get_by_content_hash finds nothing.
DatabaseMiss(r) ==
  /\ pc[r] = "dedup"
  /\ Completed(HashOf(r)) = {}
  /\ GoTo(r, "create")
  /\ UNCHANGED <<input, target, attempts, reply, code, row, committed, cache, known>>

\* SETEX of an id under the hash of r; a RedisError is only logged.
CacheSet(r, id) == cache' \in {cache, [cache EXCEPT ![HashOf(r)] = id]}

\* Mutant: SET NX instead of SETEX, and its refusal waited out.
BackfillIfEmpty(r) ==
  /\ pc[r] = "backfill"
  /\ cache[HashOf(r)] = NoId
  /\ CacheSet(r, target[r])
  /\ Respond(r, target[r])
  /\ UNCHANGED <<input, target, attempts, reply, row, committed, known>>

BackfillCache(r) ==
  /\ pc[r] = "backfill"
  /\ CacheSet(r, target[r])
  /\ Respond(r, target[r])
  /\ UNCHANGED <<input, target, attempts, reply, row, committed, known>>

-----------------------------------------------------------------------------
(* Making an analysis: _run_analysis inside the session's transaction.     *)

\* Mutant: the id is put in the cache as soon as there is one.
CreateAndReserve(r) ==
  /\ pc[r] = "create"
  /\ row' = [row EXCEPT ![r].status = "pending"]
  /\ CacheSet(r, r)
  /\ GoTo(r, "mark_processing")
  /\ UNCHANGED <<input, target, attempts, reply, code, committed, known>>

CreateRecord(r) ==
  /\ pc[r] = "create"
  /\ row' = [row EXCEPT ![r].status = "pending"]
  /\ GoTo(r, "mark_processing")
  /\ UNCHANGED <<input, target, attempts, reply, code, committed, cache, known>>

MarkProcessing(r) ==
  /\ pc[r] = "mark_processing"
  /\ row' = [row EXCEPT ![r].status = "processing"]
  /\ GoTo(r, "llm")
  /\ UNCHANGED <<input, target, attempts, reply, code, committed, cache, known>>

CallLLM(r) ==
  /\ pc[r] = "llm"
  /\ attempts' = [attempts EXCEPT ![r] = @ + 1]
  /\ UNCHANGED <<input, target, row, committed, cache, known>>

\* Mutant: no stop_after_attempt.
CallFailsForever(r) ==
  /\ CallLLM(r)
  /\ UNCHANGED <<pc, code, reply>>

\* A connection error, a timeout or a 5xx: tenacity tries again, and after
\* the last attempt re-raises (AnthropicAPIException).
CallFails(r) ==
  /\ CallLLM(r)
  /\ IF attempts'[r] < MaxAttempts
       THEN UNCHANGED <<pc, code>>
       ELSE RaiseInRun(r, "bad_gateway")
  /\ UNCHANGED reply

\* A 4xx from the API (AnthropicAPIException), or an error analyse does not
\* translate.
CallRefused(r) ==
  /\ CallLLM(r)
  /\ \E c \in {"bad_gateway", "internal"} : RaiseInRun(r, c)
  /\ UNCHANGED reply

\* A reply; one without an object is AnalysisFailedException.
CallAnswered(r) ==
  /\ CallLLM(r)
  /\ \E a \in Replies :
       IF Parsed(a)
         THEN /\ reply' = [reply EXCEPT ![r] = a]
              /\ GoTo(r, "mark_completed")
              /\ UNCHANGED code
         ELSE /\ RaiseInRun(r, "bad_gateway")
              /\ UNCHANGED reply

MarkCompleted(r) ==
  /\ pc[r] = "mark_completed"
  /\ row' = [row EXCEPT ![r] = [status |-> "completed", result |-> reply[r]]]
  /\ target' = [target EXCEPT ![r] = r]
  /\ GoTo(r, "cache_set")
  /\ UNCHANGED <<input, attempts, reply, code, committed, cache, known>>

\* Mutant: the result is cached and kept without building the response.
CacheResultUnchecked(r) ==
  /\ pc[r] = "cache_set"
  /\ CacheSet(r, r)
  /\ GoTo(r, "commit")
  /\ UNCHANGED <<input, target, attempts, reply, code, row, committed, known>>

\* The cache names the row before it is committed, and before _to_response
\* has looked at it.
CacheResult(r) ==
  /\ pc[r] = "cache_set"
  /\ CacheSet(r, r)
  /\ IF Acceptable(r)
       THEN GoTo(r, "commit") /\ UNCHANGED code
       ELSE RaiseInRun(r, "internal")
  /\ UNCHANGED <<input, target, attempts, reply, row, committed, known>>

\* Mutant: a failed analysis starts over.
MarkFailedRestarts(r) ==
  /\ pc[r] = "mark_failed"
  /\ row' = [row EXCEPT ![r] = [status |-> "processing", result |-> NoReply]]
  /\ attempts' = [attempts EXCEPT ![r] = 0]
  /\ code' = [code EXCEPT ![r] = "none"]
  /\ reply' = [reply EXCEPT ![r] = NoReply]
  /\ target' = [target EXCEPT ![r] = NoId]
  /\ GoTo(r, "llm")
  /\ UNCHANGED <<input, committed, cache, known>>

MarkFailed(r) ==
  /\ pc[r] = "mark_failed"
  /\ row' = [row EXCEPT ![r].status = "failed"]
  /\ GoTo(r, "rollback")
  /\ UNCHANGED <<input, target, attempts, reply, code, committed, cache, known>>

-----------------------------------------------------------------------------
(* The end of the session, and what can go wrong with it.                  *)

\* The rows of r after a commit: whatever its row holds becomes visible.
CommitRow(r) ==
  committed' = IF row[r].status = "absent" THEN committed ELSE committed \cup {r}

\* Mutant: get_db yields the session and never commits it.
CommitForgotten(r) ==
  /\ pc[r] = "commit"
  /\ Close(r, "created")
  /\ UNCHANGED <<input, attempts, row, committed, cache, known>>

\* session.commit() in get_db, before the response is sent.
Commit(r) ==
  /\ pc[r] = "commit"
  /\ CommitRow(r)
  /\ Close(r, "created")
  /\ UNCHANGED <<input, attempts, row, cache, known>>

\* The commit fails.
CommitFails(r) ==
  /\ pc[r] = "commit"
  /\ \E c \in DbErrorCodes : Raise(r, c)
  /\ UNCHANGED <<input, target, attempts, reply, row, committed, cache, known>>

\* The server commits, but its acknowledgement never comes.
CommitUnacknowledged(r) ==
  /\ pc[r] = "commit"
  /\ CommitRow(r)
  /\ \E c \in DbErrorCodes : Raise(r, c)
  /\ UNCHANGED <<input, target, attempts, reply, row, cache, known>>

\* Mutant: the clean-up deletes the row whether or not it was committed.
DiscardAnyRow(r) == row' = [row EXCEPT ![r] = NoRow]

\* What a transaction that has not committed leaves behind.
DiscardRow(r) ==
  row' = IF r \in committed THEN row ELSE [row EXCEPT ![r] = NoRow]

Rollback(r) ==
  /\ pc[r] = "rollback"
  /\ DiscardRow(r)
  /\ Close(r, code[r])
  /\ UNCHANGED <<input, attempts, committed, cache, known>>

\* A statement outside the try of _run_analysis fails, mark_failed included.
StatementFails(r) ==
  /\ pc[r] \in {"fetch", "dedup", "create", "mark_processing", "mark_failed"}
  /\ \E c \in DbErrorCodes : Raise(r, c)
  /\ UNCHANGED <<input, target, attempts, reply, row, committed, cache, known>>

\* mark_completed, or the read that follows its update, fails.
CompletionFails(r) ==
  /\ pc[r] = "mark_completed"
  /\ \E c \in DbErrorCodes : RaiseInRun(r, c)
  /\ UNCHANGED <<input, target, attempts, reply, row, committed, cache, known>>

\* The worker dies or the request's task is cancelled: PostgreSQL discards
\* the open transaction, Redis keeps what it was given.
Abort(r) ==
  /\ pc[r] \notin {"idle", "done"}
  /\ DiscardRow(r)
  /\ Close(r, "dropped")
  /\ UNCHANGED <<input, attempts, committed, cache, known>>

\* Mutant: SET without a TTL; the entry stays.
ExpireNever(h) ==
  /\ cache[h] # NoId
  /\ UNCHANGED vars

\* The 24 hours of an entry pass, or allkeys-lru evicts it.
Expire(h) ==
  /\ cache[h] # NoId
  /\ cache' = [cache EXCEPT ![h] = NoId]
  /\ UNCHANGED <<pc, input, target, attempts, reply, code, row, committed, known>>

-----------------------------------------------------------------------------

\* What the event loop does for r once it has been posted.
Step(r) ==
  \/ Validate(r)
  \/ CacheHit(r)
  \/ CacheMiss(r)
  \/ FetchCached(r)
  \/ DatabaseHit(r)
  \/ DatabaseMiss(r)
  \/ BackfillCache(r)
  \/ CreateRecord(r)
  \/ MarkProcessing(r)
  \/ CallFails(r)
  \/ CallRefused(r)
  \/ CallAnswered(r)
  \/ MarkCompleted(r)
  \/ CacheResult(r)
  \/ MarkFailed(r)
  \/ Commit(r)
  \/ CommitFails(r)
  \/ CommitUnacknowledged(r)
  \/ Rollback(r)
  \/ StatementFails(r)
  \/ CompletionFails(r)

Next ==
  \/ \E r \in Requests :
       \/ \E in \in Inputs : Arrive(r, in)
       \/ Step(r)
       \/ Abort(r)
  \/ \E h \in Hashes : Expire(h)

Spec == Init /\ [][Next]_vars

\* Every await returns or raises (socket, pool and API timeouts), and every
\* cache entry is written with a TTL; nobody has to post or to crash.
Fairness ==
  /\ \A r \in Requests : WF_vars(Step(r))
  /\ \A h \in Hashes : WF_vars(Expire(h))

FairSpec == Spec /\ Fairness

-----------------------------------------------------------------------------
(* Properties.                                                             *)

\* Every variable keeps its type, and no request calls the LLM more often
\* than tenacity allows.
TypeOK ==
  /\ pc \in [Requests -> Labels]
  /\ input \in [Requests -> Inputs \cup {NoInput}]
  /\ target \in [Requests -> Requests \cup {NoId}]
  /\ attempts \in [Requests -> 0 .. MaxAttempts]
  /\ reply \in [Requests -> Replies \cup {NoReply}]
  /\ code \in [Requests -> Codes]
  /\ row \in [Requests -> [status : Statuses, result : Replies \cup {NoReply}]]
  /\ committed \subseteq Requests
  /\ cache \in [Hashes -> Requests \cup {NoId}]
  /\ known \subseteq Requests

\* Whatever fails or is lost on the way, a row other sessions can see is a
\* completed one whose result builds a response: get_by_id and
\* get_by_content_hash never hand out half an analysis.
CommittedRowsAreComplete ==
  \A r \in committed :
    /\ row[r].status = "completed"
    /\ row[r].result \in Replies
    /\ Conforms(row[r].result)

\* A client told 201 has an analysis that is committed, and of the content it
\* posted, whether it was made for it, found in the cache or in the database.
CreatedMeansStored ==
  \A r \in Requests :
    pc[r] = "done" /\ code[r] = "created" =>
      /\ target[r] \in committed
      /\ HashOf(target[r]) = HashOf(r)

\* The cache entry of a hash names a request of that very content, and one
\* whose analysis the LLM has been called for.
CacheNamesAnalysed ==
  \A h \in Hashes :
    cache[h] # NoId => HashOf(cache[h]) = h /\ attempts[cache[h]] > 0

\* A cache entry that names no committed row is the work of a request still
\* on its way to its commit, or of one that ended in a 500, a 503 or a lost
\* connection: never of one answered 201, and never of one the LLM failed.
CachedIsStoredOrLost ==
  \A h \in Hashes :
    LET s == cache[h] IN
    s \notin committed \cup {NoId} =>
      \/ pc[s] \in {"commit", "mark_failed", "rollback"}
      \/ pc[s] = "done" /\ code[s] \in {"unavailable", "internal", "dropped"}

\* A request whose content was already stored when it was posted never
\* reaches the LLM, whatever the cache forgets or gets wrong meanwhile.
KnownNotReanalysed == \A r \in known : attempts[r] = 0

\* A committed row is never changed or removed: not by the rollback of a
\* session whose commit went through unacknowledged, and not by a crash.
CommittedRowsAreFinal ==
  [][\A r \in committed : r \in committed' /\ row'[r] = row[r]]_vars

\* Clients see what AnalysisStore promises: the answer of a request is the id
\* of a stored analysis of its content, and only fresh requests store one.
Store ==
  INSTANCE AnalysisStore WITH
    asked <- input,
    fresh <- {r \in Requests : input[r] # NoInput} \ known,
    stored <- committed,
    served <- [r \in Requests |->
                 IF pc[r] = "done" /\ code[r] = "created" THEN target[r] ELSE NoId],
    answered <- {r \in Requests : pc[r] = "done"}

\* The pipeline implements AnalysisStore.
StoreImplemented == Store!Spec

\* How far a request has come: the awaits in the order of the code, and the
\* attempts, each of which is a step of its own at one and the same await.
Place == [l \in Labels |->
  CASE l = "idle" -> 0 [] l = "validate" -> 1 [] l = "cache_get" -> 2 [] l = "fetch" -> 3
    [] l = "dedup" -> 4 [] l = "backfill" -> 5 [] l = "create" -> 6
    [] l = "mark_processing" -> 7 [] l = "llm" -> 8 [] l = "mark_completed" -> 9
    [] l = "cache_set" -> 10 [] l = "mark_failed" -> 11 [] l = "commit" -> 12
    [] l = "rollback" -> 13 [] l = "done" -> 14]

Progress(r) == Place[pc[r]] + attempts[r]

\* No error path, retry or crash takes a request back to where it has been:
\* whatever moves it brings it further, so it ends after so many steps.
RequestsGoOn ==
  [][\A r \in Requests :
       pc'[r] # pc[r] \/ attempts'[r] # attempts[r] => Progress(r)' > Progress(r)]_vars

\* A request under way has something to do at every await, whatever the others
\* have done to the cache and the database meanwhile: none waits for another.
NeverStuck ==
  /\ \A r \in Requests : pc[r] \notin {"idle", "done"} => ENABLED <<Step(r)>>_vars
  /\ \A h \in Hashes : cache[h] # NoId => ENABLED <<Expire(h)>>_vars

\* Every posted request is answered, or its connection is known to be lost.
EveryRequestAnswered ==
  \A r \in Requests : pc[r] = "validate" ~> pc[r] = "done"

\* The cache entry of h names an analysis that is not there.
Dangling(h) == cache[h] # NoId /\ cache[h] \notin committed

\* A cache entry does not name a missing analysis for ever.
DanglingHeals == \A h \in Hashes : Dangling(h) ~> ~Dangling(h)

-----------------------------------------------------------------------------
(* The inductive invariant behind the safety properties.                   *)

\* Before the row exists; while the row is being worked on.
Early == {"idle", "validate", "cache_get", "fetch", "dedup", "backfill", "create"}
Working == {"mark_processing", "llm", "mark_completed", "cache_set", "mark_failed"}

\* What the position of a request says of its row and its locals.
PhaseOK(r) ==
  /\ pc[r] = "idle" <=> input[r] = NoInput
  /\ pc[r] \in Early => row[r] = NoRow /\ attempts[r] = 0
  /\ pc[r] = "mark_processing" => row[r].result = NoReply /\ attempts[r] = 0
  /\ pc[r] = "llm" => row[r].result = NoReply /\ attempts[r] < MaxAttempts
  /\ pc[r] = "mark_completed" => attempts[r] > 0 /\ reply[r] \in Replies
  /\ pc[r] = "cache_set" =>
       /\ attempts[r] > 0 /\ target[r] = r
       /\ row[r].status = "completed" /\ row[r].result \in Replies
  /\ pc[r] = "mark_failed" => attempts[r] > 0
  /\ pc[r] = "commit" =>
       \/ row[r] = NoRow /\ attempts[r] = 0 /\ target[r] # r
       \/ /\ attempts[r] > 0 /\ target[r] = r
          /\ row[r].status = "completed" /\ row[r].result \in Replies
          /\ Conforms(row[r].result)
  /\ pc[r] # "done" => code[r] # "created"

\* A committed row is complete, and its request has nothing left to do to it.
StoredOK(r) ==
  r \in committed =>
    /\ pc[r] \in {"rollback", "done"}
    /\ attempts[r] > 0
    /\ row[r].status = "completed"
    /\ row[r].result \in Replies
    /\ Conforms(row[r].result)

\* A request that has settled on an analysis other than the one it makes,
\* and one that has been answered 201.
Returning(r) ==
  \/ pc[r] = "backfill"
  \/ pc[r] = "commit" /\ target[r] # r
  \/ pc[r] = "done" /\ code[r] = "created"

\* What a request holds in its hands: an id from the cache is one of its
\* content; what it is about to return is its own row or a committed one.
TargetOK(r) ==
  /\ pc[r] = "fetch" =>
       /\ target[r] \in Requests
       /\ pc[target[r]] # "idle"
       /\ HashOf(target[r]) = HashOf(r)
  /\ Returning(r) =>
       /\ target[r] \in committed
       /\ HashOf(target[r]) = HashOf(r)

\* A request whose content was stored finds it, and makes nothing.
KnownOK(r) ==
  r \in known =>
    /\ pc[r] \notin Working \cup {"idle", "create"}
    /\ attempts[r] = 0
    /\ \E s \in committed : HashOf(s) = HashOf(r)

\* Where the owner of a cache entry can be.
EntryOK(h) ==
  LET s == cache[h] IN
  s # NoId =>
    /\ HashOf(s) = h
    /\ attempts[s] > 0
    /\ \/ s \in committed
       \/ pc[s] = "commit"
       \/ pc[s] \in {"mark_failed", "rollback"} /\ code[s] \in DbErrorCodes
       \/ pc[s] = "done" /\ code[s] \in DbErrorCodes \cup {"dropped"}

PipelineInv ==
  /\ TypeOK
  /\ \A r \in Requests : PhaseOK(r) /\ StoredOK(r) /\ TargetOK(r) /\ KnownOK(r)
  /\ \A h \in Hashes : EntryOK(h)

-----------------------------------------------------------------------------
(* What the repository says of the pipeline and the code does not do.      *)

\* README.md:218-228 and tests/integration/test_analysis_endpoints.py:17-48:
\* a completed analysis in the shape the prompt dictates is delivered.
PromptedReplyIsDelivered ==
  \A r \in Requests :
    row[r] = [status |-> "completed", result |-> "prompted"] => code[r] # "internal"

\* README.md:47: identical scenarios never hit the LLM twice, so there is at
\* most one stored analysis of one and the same posted scenario.
NeverAnalysedTwice ==
  \A r, s \in committed : input[r] = input[s] => r = s

\* README.md:296-298: what is stored is found, in Redis or in PostgreSQL.
StoredIsServed ==
  \A r \in known : ~ (pc[r] = "done" /\ code[r] = "not_found")

=============================================================================
