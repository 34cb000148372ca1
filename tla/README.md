# Verification of the LexAI Pro API

TLA+ models of `legal_research_api`: a FastAPI service that takes a legal scenario
or an uploaded case file, has an LLM analyse it, keeps the analysis in PostgreSQL
and remembers it in Redis. The models are written from the code (`app/`), and every
definition that stands for code is mapped to its lines in `PROJECT.json`.

Run a model with `tlc -config MCPipeline.cfg MCAnalysisPipeline.tla` (the other
configurations likewise, with the module `PROJECT.json` names) and check the proofs with
`tlapm AnalysisPipelineProofs.tla`, and likewise the other `*Proofs` modules.

## 1. The system

| Component | State | Operations | Talks to |
|---|---|---|---|
| Analysis pipeline (`services/analysis_service.py`, `endpoints/analysis.py`) | the locals of each request: hash, cached id, analysis id, LLM result | `create_scenario_analysis`, `create_file_analysis`, `_run_analysis` | all of the below, one await at a time |
| Repository and session (`repositories/analysis_repository.py`, `db/database.py`) | table `analyses`: `pending`, `processing`, `completed` or `failed`, with a result; one transaction per request | `create`, `get_by_id`, `get_by_content_hash`, `mark_*`, commit or rollback in `get_db` | PostgreSQL, a pool of 10 + 20 connections |
| Cache (`db/redis_client.py`) | `analysis_hash:<hash>` -> `{"id": ...}`, 24 h | `get`, `set`; a `RedisError` is a miss or is ignored | Redis, `allkeys-lru` |
| LLM service (`services/llm_service.py`) | none | prompt cut at `MAX_TEXT_CHARS`, call with up to three attempts, four-layer JSON repair | Anthropic API |
| Response schema (`schemas/analysis.py`) | none | `AnalysisResponse.model_validate` on every row that is returned | the result column |
| Rate limiter (`dependencies.py`, `redis_client.py`) | `rate:<identifier>:<endpoint>`: a counter with a TTL | `INCR` + `EXPIRE` in one `MULTI`, then `TTL` for a rejected call | Redis |
| Retrieval (`GET /analyses...`) | none, and `analysis:<id>` cache entries | get, list with count and page, statistics | repository, cache |
| File service (`services/file_service.py`) | none | extension, size and text checks, extraction, cleaning and capping of the text, its digest | PyPDF2, python-docx |
| Health and lifespan (`endpoints/health.py`, `main.py`) | the engine and the Redis client of a worker | connect, disconnect, `GET /health` as a request | PostgreSQL, Redis |
| Container (`Dockerfile`, `docker-compose.yml`) | the command, two uvicorn workers | migrations, start, restart, stop | Docker |
| API keys, exception handlers, configuration, logging | none | - | - |

Requests share nothing in memory: they meet in PostgreSQL, in Redis and at the LLM. Two
uvicorn workers, and any number of requests per worker, interleave at every `await`.

### What is hard here

* The cache is told of an analysis **before** its row is committed, and the commit happens
  after the endpoint returned, in `get_db` (FastAPI 0.111 leaves the dependency before it
  sends the response).
* Looking a hash up and storing an analysis of it are a transaction of a minute apart.
* Every failure path goes through `mark_failed`, an exception and a rollback; each of these
  can itself fail, a commit can succeed without the service hearing of it, a worker can die.
* The prompt, the parser and the response schema have to agree on names, and the first to
  find out is `_to_response`, after the result was stored and cached.
* The limiter's counter, its TTL and the Retry-After are three reads at different times, and
  Redis rounds the last to seconds.
* A request keeps its database connection while it waits for the LLM, up to three times, and
  for Redis after that, so the pool of 30 is what bounds the analyses in progress, and everything else queues for it.
* A long reply is cut anywhere; what the repair may assume of it is nothing.
* What a client is given may be an analysis that another request, with other extra context,
  has caused.
* Workers only connect when they start, and a worker that cannot is not replaced.

### What makes each component correct

* Pipeline: an answer 201 carries a stored analysis of what was posted; nothing half done is
  ever visible; what is stored does not change; what is stored is not analysed again; every
  request is answered.
* Cache: an entry is never about another content; an entry without a row is only left by a
  request that was lost between the cache write and its commit, and does not last.
* Limiter: no window sees more admissions than the limit; a Retry-After can be relied on, to
  half a second.
* Retrieval: a page is a slice of what is stored; total, pages and items agree.
* Pool: every way out of a request gives its connection back; nobody waits longer than the
  timeouts add up to; a full pool has room again.
* JSON repair: a complete object is returned as it is; what layers 1 to 3 return is never
  another object than the one of the reply, and misses nothing of one that was cut.
* File service and prompt: the analysis a client is given has read the text that was posted;
  a file with enough text, of an allowed size and type, is not refused for either.
* Lifespan: a worker that is told to stop closes what it has open, also what a last request
  opened, and a stop comes to an end, whatever has happened to the workers.

The hazards behind these, each at its line, are listed in `PROJECT.json`.

## 2. Modules

```
ResponseSchema ─┐
ContentKey ─────┴─> AnalysisPipeline ──implements──> AnalysisStore (EXTENDS ContentKey)
                         ├─> MCAnalysisPipeline     (TLC)
                         └─> AnalysisPipelineProofs (TLAPS)
RateLimiter ────> MCRateLimiter (TLC), RateLimiterProofs    (TLAPS)
Retrieval ──────> MCRetrieval   (TLC), RetrievalProofs      (TLAPS)
ConnectionPool ─> TLC,                 ConnectionPoolProofs (TLAPS)
Deployment ─────> TLC,                 DeploymentProofs     (TLAPS)
Subsequences ─┬─> JsonRepair                                   (TLC)
              ├─> CaseText ──> CaseUpload ──> MCCaseUpload     (TLC)
              └─> SubsequencesProofs ─┬─> JsonRepairProofs     (TLAPS, of JsonRepair)
                                      ├─> CaseUploadProofs     (TLAPS, of CaseUpload)
                                      └─> ConnectionPoolProofs (TLAPS, its Induction)
```

**`ResponseSchema`** reduces an LLM reply to four kinds and works out, from the key sets
of the prompt, the fallback parser and the Pydantic model, which of them builds a response.

**`ContentKey`** is a POST: which fields are hashed (text, jurisdiction and client side,
separately for scenarios and files; legal area and extra context are not) and whether
validation lets it through. SHA-256 is taken to be injective.

**`AnalysisStore`** is the promise to clients, without cache, sessions or LLM: requests are
asked, analyses of fresh contents are stored, answers carry stored analyses of the same content. It
translates no lines, and has none in the map.

**`AnalysisPipeline`** is both POST flows over all their collaborators. `pc[r]` is the await
request `r` is at, and an action is the code from one await to the next with the effect of
the awaited call:

| `pc` | code | actions |
|---|---|---|
| `idle` | request not posted | `Arrive` |
| `validate` | length check, `validate_and_extract` | `Validate` |
| `cache_get` | `cache.get(analysis_hash)` | `CacheHit`, `CacheMiss` |
| `fetch` | `get_by_id(cached id)` | `FetchCached` |
| `dedup` | `get_by_content_hash` | `DatabaseHit`, `DatabaseMiss` |
| `backfill` | `cache.set` after a database hit (scenarios only) | `BackfillCache` |
| `create`, `mark_processing` | insert, status update | `CreateRecord`, `MarkProcessing` |
| `llm` | `_call_with_retry` and parsing | `CallFails`, `CallRefused`, `CallAnswered` |
| `mark_completed` | update and read back | `MarkCompleted`, `CompletionFails` |
| `cache_set` | `cache.set`, then `_to_response` | `CacheResult` |
| `mark_failed` | the `except` of `_run_analysis` | `MarkFailed` |
| `commit`, `rollback` | `get_db` | `Commit`, `CommitFails`, `CommitUnacknowledged`, `Rollback` |
| any | a failing statement, a dying worker | `StatementFails`, `Abort` |

A request that inserts a row is the id of that row. `row[r]` is what `r`'s session sees;
other requests look only at the rows in `committed`, which is READ COMMITTED for this code
since no row is updated by a session other than the one that inserts it. `Expire` is the
TTL or an eviction. `known` is a history variable: the requests whose content was stored
when they arrived.

**`RateLimiter`** counts in ticks, of which a second has any number (`Second`): Redis keeps
milliseconds and answers the nearest second (`Nearest`), which may be less than what is left. `count`
and `ttl` are the Redis key, `pc` and `bucket` the calls waiting for their `TTL` answer; `age` and `told`
are history: when each number was last handed out, and what is left of the last Retry-After and half a
second. `Runs` is the client's
`retry_on_timeout`, which may run the pipeline twice.

**`Retrieval`** names a row by its `created_at`. That is the start of its transaction, so rows
commit in any order (`CommitRow`). A listing is `List`, `CountRows`, `SelectPage`; a page is
the set of rows whose `Position` among the newest falls in it. `seen` and `since` are the
history of a walk: a client that asks for page 1, then 2, and so on. `Get` to `CacheSet` are
`GET /analyses/{id}`. What it assumes of the table, that committed rows are complete and
never change or go away, is what `CommittedComplete` and `RowsFinal` prove of the pipeline.

**`ConnectionPool`** is the pool of one worker and the time requests spend with its
connections, whatever they do to rows. `pc[r]` is what `r` waits for (`checkout`,
`statements`, `llm`, `pause` between two attempts, `finishing`, `caching` for the write to Redis with the
connection held, `ping`, `ending`), `left[r]` how long that may still take, and `Tick` lets time pass
when nothing is due. A request is a `post` (a miss), `cached` (a hash in Redis, whose row is still read from the database), a `read`
or a `probe`. `Cancel` and `Crash` may come at any time. `age` is history.

**`Subsequences`** is what `str.replace` and `re.sub` leave when they replace by nothing: the
elements of a sequence at some positions (`Picked`).

**`JsonRepair`** is `_robust_parse`. A reply arrives token by token (`Emit`, `Trail`), every
prefix of it being a reply that was cut; `Read` is `json.loads` as a reader with a mode and
the brackets that are open; `LastBalanced` (the last bracket at depth 0), `Repaired` (trailing commas,
an odd quote, the stack of brackets) and `RobustParse` are the layers.

**`CaseText`** is what the service makes of a text: the extractor for a suffix, the pages or the
paragraphs and then the table cells that it takes (`Blocks`) and joins (`FullText`), `Clean` (runs of
blanks, control characters, NULs), `Capped`, the hash, the content merged with the extra
context and the `Prompt`. **`CaseUpload`** is both POST endpoints over it, as far as
`AnalysisPipeline` leaves them out with `Usable`: every refusal in its order, and, through the
analyses made so far, which prompt the answer of a request comes from.

**`Deployment`** is the container's command, the two workers with their lifespan, one request
each, while PostgreSQL and Redis come and go (`Change`). `ComposeUp` and `Stop` are what somebody does,
`Restart` is Docker's. `Migrations` says whether alembic finds its directory.

**`MC*`** give the constants values; **`*Proofs`** hold the theorems. A module that needs no
definitions for its instance has a configuration only.

## 3. Runs

| Run | Instance | Shows |
|---|---|---|
| `pipeline` | 2 requests, 3 inputs (the same text through both flows, and a scenario that is too short), replies in the schema's names, in the prompt's or without an object, 3 attempts | the inductive invariant, complete rows only, 201 means stored, the cache, no second analysis of known content, committed rows final, no request is taken back or stuck, `AnalysisStore` implemented, every request is answered, dangling cache entries heal |
| `rate_limiter` | 2 buckets, 2 calls in flight, 2 calls per 2 seconds of 3 ticks, counters to 4 | the inductive invariant, no window overrun, Retry-After honoured to half a second |
| `retrieval` | 4 rows, 1 client, 2 filters, pages of 1 or 2, page numbers to 3 | the inductive invariant, walks miss nothing, items reach the total, `total_pages` exact when nothing commits, entries name stored rows |
| `connection_pool` | 2 requests, 1 connection, waits of 1 to 3 ticks, 3 attempts | connections are given back and bounded, answers in time, room again |
| `json_repair` | every reply of up to 8 tokens | the inductive invariant, complete objects come back, nothing is invented or lost, exactly which cuts are repaired |
| `case_upload` | 2 requests; every suffix and format, sizes 0 to 3 of 2, 13 texts of up to 7 characters around a cap of 5, 5 of several pages, paragraphs or cells around a limit of 2 pages, extra context or none | the inductive invariant, answers read their case, no file with enough text is refused for it, how extra context is lost |
| `deployment` | 2 workers, 2 services, migrations | the inductive invariant, nothing left open by a worker that stops, nothing waits for what never comes, a stop ends |
| `prompted_reply`, `analysed_twice`, `stored_served`, `sliding_window`, `deployed` | one to three requests; 2 workers without migrations | the repository says otherwise, section 6 |

The inductive invariant of each module begins with its `TypeOK`.

Every property of a passing run is broken by a mutant of the code's model: a definition
beside the original, marked `Mutant:`.

*Why the bounds are enough.* Two requests of one content are enough for one to find what the other
has left at any of its awaits: in the cache, in the table, or in the cache alone. The story of three, one
that stores, one that leaves a stale entry and one that meets both, is the one of `stored_served`. Two
contents let a mix-up show, and the three attempts are the code's own. `MaxCalls` 2 in six ticks gives
admissions of different ages in one window, three ticks a second give a TTL that is rounded up and one
that is rounded down, and `CountBound` 4 gives calls rejected and resent; beyond it, calls are left
out. Four rows over pages of two let rows commit before,
inside and behind the page being read; one client is enough, since clients only share the
table, which never shrinks, and the entries, which decide nothing about an answer. For the
pool, one connection and two requests are the least with a wait, and what the proofs say of it
holds for every number and time. Eight tokens hold an object in an object or array with
a key, a comma and a string with an escape or a bracket in it, cut anywhere; five characters
around the cap hold a run of four blanks; three pages are one more than are read.
The theorems hold for all values: of every property that a passing run checks there is one, but for the two `NeverStuck` (section 4).

*Deadlock* is not checked for the pipeline: when every request of an instance has been
answered and the cache is empty, it stops; nor for `case_upload`, whose requests are answered
once, nor for `json_repair`, where a reply ends at the bound or inside a key. The limiter, the
retrieval, the pool and the deployment never stop and are checked.

*Fairness.* In `pipeline`: weak fairness of `Step(r)`, since every await
returns or raises (socket timeouts of Redis, the pool timeout, the API client's timeout and
at most three attempts), and of `Expire(h)`, since every entry is written with a TTL. Nothing
is assumed of `Arrive` and `Abort`. In `connection_pool`: weak fairness of `Step(r)`, for the same
reason, and `TimePasses`, since infinitely many requests do not come at one moment; nothing of
`Ask`, `Cancel` and `Crash`. In `deployment` and `deployed`: weak fairness of starting a
container again that has ended by itself (`Restart`, `restart: unless-stopped`), of its command, of its
end once its workers have ended, and of each worker's connects, answers and disconnects, all of which
have timeouts; nothing of `ComposeUp`, `Stop`, `Serve`, `Change` and `Kill`, which is also what Docker
does ten seconds after a stop.

## 4. Proofs

`RateLimiterProofs` proves `LimiterInv` inductive: a counter exists exactly as long as its
TTL, whenever the `n`-th admission is younger than `Period`, the counter is at least `n`
and will outlive the window, and what was told, with half a second, is never less than the TTL
(`NearestLate`). `RetryAfter` and `Window` follow; `Window` is an action property, and its step rests on
the invariant alone.

`AnalysisPipelineProofs` proves `PipelineInv` inductive, with one lemma per action. The properties are not
inductive by themselves: that a committed row is complete needs to know what a request
waiting at `commit` holds, that in turn what it held at `cache_set`, and so on back to the
insert (`PhaseOK`). The parts are: `PhaseOK`, the row and locals of a request at each await;
`StoredOK`, the owner of a committed row can no longer touch it; `TargetOK`, an id in a
request's hands is of its content and, once it is about to be returned, committed; `KnownOK`,
a request that came to stored content finds it; `EntryOK`, where the owner of a cache entry
can be. From it follow `CommittedComplete`, `CreatedStored`, `CacheAnalysed`,
`CachedStoredOrLost`, `KnownContent`, `RowsFinal`, and `Implementation`: under the mapping in
`AnalysisPipeline` (`asked <- input`, `stored <- committed`, `served` the target of a request
answered 201) every step is a step of `AnalysisStore` or leaves it as it is.

`RetrievalProofs` proves `RetrievalInv` inductive: every row that was there when a walk began has
been given to the client or sits at a position no smaller than where the next page begins
(`Ahead`). It rests on `PositionGrows`: adding rows moves a row to a later position at most,
whatever its `created_at`. `CachedStored` follows. `WholeWalk`, `ItemsAndTotal` and `PagesExact`
need more: that a page which is not full is the last one, that is, that the positions of a
finite set have no gaps. That is proved without an induction over the set, by counting: the
positions are as many as the rows, differ from each other and lie in `0 .. Cardinality - 1`.

`ConnectionPoolProofs` proves `PoolInv` inductive, action by action: who is
where has a connection or not (`RequestOK`), and `age + left` never exceeds `Due`, the latest
time at which a request goes on from the await it is at. Every action that goes on sets `left`
to at most the difference of two values of `Due`, and `Tick` moves one from `left` to `age`.
`CallsBounded` follows by counting, `Timely` since `Due` is greatest at the end. The multiplication
in `CallsTime` is kept apart in lemmas, since the step of a retry is `CallsTime(n + 1)` less
`CallsTime(n)`.

`DeploymentProofs` proves `DeploymentInv` inductive for any number of workers: what each worker has
open at each point of its life (`WorkerOK`), so that one that has stopped has closed everything
(`AllClosed`). `NothingWithoutMigrations` is the safety half of what `deployed` shows: no worker is ever
started.

`SubsequencesProofs` is the ground for the next two. Its `Induction` is stated of a set instead of a
predicate, and rests on the well-foundedness of `<`; with it, what a recursive function (`f[n]` from
`f[n - 1]`) computes is proved for every length. Each such function has a lemma `...Steps`, that the
function exists and goes from step to step, and the rest is induction over the steps. The lemmas on
`Picked` say where each element goes (`Rank`), and that picking keeps prefixes (`PickedFront`,
`PickedFrom`) and composes (`PickedTwice`).

`JsonRepairProofs` is about replies of any length. `RepairInv` says that the reader that is carried along
with a reply is where reading it anew ends. An object ends only once in a text (`LoadsOnce`), so that
layers 1 and 2, which try prefixes, can find nothing but the object of the reply: `WhatCameKeptAlways`
and, with the depth at its end, `CompleteReturnedAlways`. That layer 3 invents nothing rests on
`PickedReading`: a trailing comma that is read without an error is in a string, and to remove it does
not change where the reader gets. `CutRepairedAlways` follows the reader through a reply with plain
strings, where the parity of the quotes is whether a string is open and the stack is the reader's own
(`PlainReading`); closing from the top then reads to the end (`ClosingReads`), whatever was open, except
from a key that has no value yet.

`CaseUploadProofs` takes reading as a scan that keeps visible characters and one space for each gap.
`CleanReads` says that cleaning, step by step (`NullsUnread`, `SpacedUnread`, `SurplusUnread`,
`BlanksAroundUnread`), changes nothing of what is read and leaves no NUL; `SurplusUnread` needs that the
first blank of a run always stays. `NormalOfPrefix` and the cap give `PromptReads`. `UploadInv` is
inductive; since an answer then carries an analysis of the same hash, and the hash has the whole text,
`AnswerReads` and `ContextRead` are about two cases with one text. Of the extraction they need that what
it takes and joins is a text (`JoiningSteps`, `FullTextType`). `EnoughTextTaken` is that cleaning does not
make a text shorter than what is read of it.

The assumptions are those on the constants, which TLC evaluates in every run: for the pipeline
`NamesAssumption`, `InputsAssumption`, `RepliesAssumption`, `AttemptsAssumption`; for the limiter
`LimitAssumption`, `BoundAssumption`, `TimeoutAssumption`, `ToldAssumption`; for retrieval
`AnalysesAssumption`, `FiltersAssumption`, `SizesAssumption`, `NoneAssumption`; for the pool
`RequestsAssumption`, `SizeAssumption`, `TimesAssumption`; for the deployment `MigrationsAssumption`;
for replies `LengthAssumption`; for texts `TextAssumption`, `ScenarioAssumption`, `CharsAssumption`;
for cases `NoCaseAssumption` and `CasesAssumption` (a case is a scenario or a file, its text is a
sequence of blocks of characters, some of which may be table cells, and a scenario has no extra context).

*Liveness.* Weak fairness of an action says nothing unless the action is `ENABLED`, and no prover here
can tell when it is. So the liveness proofs are split: `NeverStuck`, an invariant that TLC checks in
`pipeline` and in `deployment`, says where an action is `ENABLED`, and the theorems have
`[]NeverStuck` as a hypothesis. What they prove is that this and the fairness are enough.

* `AllAnswered`: `Progress`, the place of the await plus the attempts made, is raised by every step of a
  request and left alone by all others (`Further`, `GoesOn`, an action property checked in
  `pipeline`). A request that is not done has progress 16 at most with three attempts, so a chain
  of sixteen leads-to steps (`OneFurther`) ends in an answer. Its hypothesis `MaxAttempts <= 3` is
  the `stop_after_attempt(3)` of the code. `DanglingEnds` takes one step.
* `StopComesToAnEnd`: a worker of a container that is told to stop goes from its connects, or from its
  last request, to its end (`WorkerSettles`), stays there, and when both have, uvicorn ends. The hypothesis
  is that there are two workers, as in the Dockerfile. The module also has `AllServe`, the conditional that
  the missing directory leaves: *if* there were migrations to run, both workers would come to serve.
  It says nothing of the repository as it is and is not listed among the results.
* `FullNotForEver` needs neither `NeverStuck` nor the fairness of a request, only that time passes.
  While there is no room, whoever has a connection keeps it and gets older (`KeepsIt`, `GetsOlder`), up to
  any number of seconds, against `AnsweredInTime`. That is an induction over a temporal formula, with the set of
  the `n` for which `<>(conn[r] /\ age[r] >= n)` holds. Such a set is there in every behaviour, but a set
  constructor of TLA+ takes no temporal formula; `[]AgesAreASet` is therefore a hypothesis,
  which restricts nothing.

*Only model-checked:* `NeverStuck` of `AnalysisPipeline` and of `Deployment`, since `ENABLED` is out of
the provers' reach.

## 5. What is abstracted

* SHA-256 collisions, and a scenario that is the hex digest of a file.
* Which of several completed rows of one hash is the newest by `created_at`: any is taken.
* Token counts and latencies, and the LLM client's own retries inside one call. Waiting times
  are in `ConnectionPool` only.
* In the pipeline, the checks of one uploaded file: `Usable`. They are `CaseUpload`'s.
* The bytes of a file: its format, its size and the text in it are independent. The markup of
  an RTF is text, as it is for the code. Tabs are blanks that nothing removes, and are left out.
* How long the statements between two waits take: `StatementTime`, whatever the statement. A
  query has no timeout in the code, so the time of an answer is relative to it.
* The order of waiters at the pool: any may be next. The pool of one worker; the two workers'
  pools share nothing.
* In `JsonRepair`, whitespace, and scalars other than strings and one number. Only replies that are JSON
  up to where they are cut, or with words behind, are generated: one that is malformed before its end, such
  as with a trailing comma of the LLM's own, does not occur.
* What uvicorn 0.29 does with its workers (`pyproject.toml:12`) and Docker with a command that
  ends is external: the parent does not replace a worker that ended, and ends only when it is told to.
* A reply that is an object is one of three kinds; a reply whose names are right but whose
  values are not is refused in the same way as one whose names are wrong.
* Eviction of a rate counter starts its history again: the code promises nothing across it.
* Two rows with the same `created_at` microsecond: their order, and so a page, is then up to
  PostgreSQL.
* Time in the limiter is in ticks, three of them a second in the run; the proofs hold for any number.
* The title of a listed analysis, and the statistics: one statement over rows of which
  `CommittedRowsAreComplete` says everything that could be said of the counts.
* The report of `GET /health`: two probes, each reported as it was answered.

## 6. Where the code does not do what the repository says

* `prompted_reply` - a reply in the prompt's camelCase is refused by `AnalysisResult`, which
  has no aliases: the result the README shows ends in a 500.
* `analysed_twice` - identical scenarios in flight at once are both analysed.
* `stored_served` - a failed commit leaves its id in the cache; the content, though stored,
  is answered 404 until the entry expires.
* `sliding_window` - `EXPIRE` with every call: neither a sliding window nor a TTL set by the
  first call; calls within the limit are rejected after some time.
* `deployed` - there is no `alembic` directory, which `alembic.ini:2` names, `scripts/init_db.sql:2` counts
  on and `Dockerfile:47` needs: the container starts over for ever, and after the `docker compose up` of
  `README.md:178-188` nothing answers. `NothingWithoutMigrations` proves it for any number of workers.

Found on the way, without a run that is violated, since a property of a passing run states exactly
what does hold; the first three are listed as findings too:

* The failed status `mark_failed` writes is rolled back by `get_db`: no failed analysis is ever
  stored or counted (`CommittedRowsAreComplete`, proved), although `README.md:288` shows `"failed": 4`.
* A `.doc` is offered by `endpoints/analysis.py:64`, accepted by its suffix and refused by the extractor,
  with a 422 (`UploadInv` has the status of every refusal).
* A PDF whose text has a lone surrogate ends in a 500, although `file_service.py:59` says "Raises typed
  exceptions on any failure" (likewise).
* The pages of a PDF behind the fortieth are not read (`file_service.py:118`), and nobody is told: two
  files that differ only there are one analysis, and one with its text only there is refused as too short
  (`AnswerReadsCase`, `EnoughTextIsTaken` are about the pages that are read).
* A Retry-After may be up to half a second less than the counter lives: whoever waits exactly that long
  can be rejected again, for another whole period (`RetryAfterHonoured` gives the half second).
* `cache_hit` is never true and `llm_calls` always 1 in a stored row, so the hit rate of
  `README.md:288` is always 0.
* A hash found in Redis, "instant return" in `README.md:297`, still needs a connection for its row, and
  fails after the pool's timeout when analyses hold them all; the probe of `GET /health` then
  calls the database unhealthy (`CheckoutTimesOut`).
* Layer 2 of the repair counts brackets in strings: an object with words behind it is not found if its
  strings open more than they close (`CompleteIsReturned` has the exact condition). Layer 3
  counts escaped quotes and brackets in strings: a cut in such a string is not repaired
  (`CutIsRepaired` leaves those strings out; `KeepsWhatCame` shows that nothing false comes of it).
* Extra context is not hashed, so a reused analysis may not have read it, and it is what is cut
  off behind a long file (`ContextIsRead`).
* A worker whose connect fails is gone until the container is started anew, which nothing does
  while uvicorn's parent process runs: `EveryWorkerServes` is only about workers that are not missing.

## 7. State of the work

Done, in this order: the pipeline, its specification and its proof; the limiter; the list and the
retrieval of single analyses; the pool; the JSON repair; uploads, texts and prompts; the container and
the lifespan; then the proofs of the last three, and of liveness. Every safety property that a passing run checks is a theorem, but for `NeverStuck`, and every
liveness property is one under the hypotheses of section 4.

What could still be added: the title of a listed analysis; the 20 connections to Redis as a
second pool; `ConnectionPool` composed with `RateLimiter`, whose limit per client bounds how many
analyses one client can have waiting.

### Not modelled

* The statistics: of the rows they count, `CommittedRowsAreComplete` and `CommittedRowsAreFinal` say what
  there is to say.
* The report of `GET /health`; what it does with the pool is in `ConnectionPool`.
* API key authentication: a stub that reads a cache entry without a writer and returns None.
  That the header names a rate bucket is in `RateLimiter`.
* Configuration and logging: values read once at start, and log output.
* The text of error bodies, CORS, gzip and the logging middleware: no state, and nothing
  depends on them.
* PyPDF2, python-docx and the Anthropic client: libraries, taken by what they may answer.
* The regular expressions of layer 4: of its answer, the keys (`ResponseSchema`).
* `get_db_context`, `CacheManager.delete`, `exists` and `keys_by_pattern`: nothing calls them.
* `init_db.sql`: the tables and indexes, without behaviour.
