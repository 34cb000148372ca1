----------------------------- MODULE Deployment -----------------------------
(***************************************************************************)
(* The container of the API: its command, which runs the migrations and    *)
(* then uvicorn, the workers of uvicorn, and the lifespan of each.  Docker *)
(* starts the container again whenever its command ends by itself.         *)
(* PostgreSQL and Redis come and go.                                       *)
(***************************************************************************)
EXTENDS Naturals

CONSTANTS Workers,     \* the processes of --workers
          Migrations   \* there is the directory that alembic.ini's script_location names

ASSUME MigrationsAssumption == Migrations \in BOOLEAN

VARIABLES
  container,  \* what the container's command is doing
  worker,     \* worker[w]: where w is between its start and its end
  pool,       \* pool[w]: the engine of w has connections
  client,     \* client[w]: the Redis client of w is there
  busy,       \* busy[w]: w has a request
  up          \* which of "database" and "redis" answer

vars == <<container, worker, pool, client, busy, up>>

Services == {"database", "redis"}

Init ==
  /\ container = "stopped"
  /\ worker = [w \in Workers |-> "none"]
  /\ pool = [w \in Workers |-> FALSE]
  /\ client = [w \in Workers |-> FALSE]
  /\ busy = [w \in Workers |-> FALSE]
  /\ up \in SUBSET Services

GoTo(w, p) == worker' = [worker EXCEPT ![w] = p]

\* w has ended.
Over(w) == worker[w] \in {"gone", "stopped"}

\* The process ends, and what it has open ends with it.
Exit(w) ==
  /\ GoTo(w, "gone")
  /\ pool' = [pool EXCEPT ![w] = FALSE]
  /\ client' = [client EXCEPT ![w] = FALSE]
  /\ busy' = [busy EXCEPT ![w] = FALSE]

-----------------------------------------------------------------------------
(* The container.                                                          *)

\* docker compose up.  It waits for a health check of both services, which may
\* have gone again by now.
ComposeUp ==
  /\ container = "stopped"
  /\ container' = "migrating"
  /\ UNCHANGED <<worker, pool, client, busy, up>>

\* restart: unless-stopped.
Restart ==
  /\ container = "down"
  /\ container' = "migrating"
  /\ UNCHANGED <<worker, pool, client, busy, up>>

\* alembic upgrade head, and uvicorn if that succeeds.
Migrate ==
  /\ container = "migrating"
  /\ IF Migrations /\ "database" \in up
       THEN container' = "up" /\ worker' = [w \in Workers |-> "starting"]
       ELSE container' = "down" /\ UNCHANGED worker
  /\ UNCHANGED <<pool, client, busy, up>>

\* docker compose stop: uvicorn tells its workers, if it has been started.
Stop ==
  /\ container \in {"down", "migrating", "up"}
  /\ container' = IF container = "up" THEN "stopping" ELSE "stopped"
  /\ UNCHANGED <<worker, pool, client, busy, up>>

\* Mutant: the workers of the last run are still counted.
EndKeepsWorkers ==
  /\ container = "stopping"
  /\ \A w \in Workers : Over(w)
  /\ container' = "stopped"
  /\ UNCHANGED <<worker, pool, client, busy, up>>

\* Mutant: uvicorn waits for the shutdown of a worker that is gone.
EndAwaitsShutdowns ==
  /\ container = "stopping"
  /\ \A w \in Workers : worker[w] = "stopped"
  /\ container' = "stopped"
  /\ worker' = [w \in Workers |-> "none"]
  /\ UNCHANGED <<pool, client, busy, up>>

\* uvicorn waits for its workers when it is told to stop, and not before.
End ==
  /\ container = "stopping"
  /\ \A w \in Workers : Over(w)
  /\ container' = "stopped"
  /\ worker' = [w \in Workers |-> "none"]
  /\ UNCHANGED <<pool, client, busy, up>>

-----------------------------------------------------------------------------
(* The lifespan of a worker.                                               *)

\* connect_db: engine.begin leaves a connection in the pool; an error is
\* raised again and ends the worker.
ConnectDb(w) ==
  /\ worker[w] = "starting"
  /\ IF "database" \in up
       THEN /\ GoTo(w, "connecting_redis")
            /\ pool' = [pool EXCEPT ![w] = TRUE]
            /\ UNCHANGED <<client, busy>>
       ELSE Exit(w)
  /\ UNCHANGED <<container, up>>

\* Mutant: a failed ping is not raised but waited out.
ConnectRedisWaits(w) ==
  /\ worker[w] = "connecting_redis"
  /\ "redis" \in up
  /\ GoTo(w, "serving")
  /\ client' = [client EXCEPT ![w] = TRUE]
  /\ UNCHANGED <<container, pool, busy, up>>

\* connect_redis: likewise.
ConnectRedis(w) ==
  /\ worker[w] = "connecting_redis"
  /\ IF "redis" \in up
       THEN /\ GoTo(w, "serving")
            /\ client' = [client EXCEPT ![w] = TRUE]
            /\ UNCHANGED <<pool, busy>>
       ELSE Exit(w)
  /\ UNCHANGED <<container, up>>

\* A request, which may use the pool and the client: get_redis makes one if
\* there is none.
Serve(w) ==
  /\ worker[w] = "serving" /\ container = "up" /\ ~busy[w]
  /\ busy' = [busy EXCEPT ![w] = TRUE]
  /\ UNCHANGED <<container, worker, pool, client, up>>

Work(w) ==
  /\ busy[w]
  /\ \/ pool' = [pool EXCEPT ![w] = TRUE] /\ UNCHANGED client
     \/ client' = [client EXCEPT ![w] = TRUE] /\ UNCHANGED pool
  /\ UNCHANGED <<container, worker, busy, up>>

Answer(w) ==
  /\ busy[w]
  /\ busy' = [busy EXCEPT ![w] = FALSE]
  /\ UNCHANGED <<container, worker, pool, client, up>>

\* Mutant: the pool is disposed of while a request is still there.
DisconnectDbAtOnce(w) ==
  /\ worker[w] = "serving" /\ container = "stopping"
  /\ GoTo(w, "disconnecting_redis")
  /\ pool' = [pool EXCEPT ![w] = FALSE]
  /\ UNCHANGED <<container, client, busy, up>>

\* The worker takes no more requests and waits for the one it has; then the
\* lifespan goes on: disconnect_db.
DisconnectDb(w) ==
  /\ worker[w] = "serving" /\ container = "stopping" /\ ~busy[w]
  /\ GoTo(w, "disconnecting_redis")
  /\ pool' = [pool EXCEPT ![w] = FALSE]
  /\ UNCHANGED <<container, client, busy, up>>

DisconnectRedis(w) ==
  /\ worker[w] = "disconnecting_redis"
  /\ GoTo(w, "stopped")
  /\ client' = [client EXCEPT ![w] = FALSE]
  /\ UNCHANGED <<container, pool, busy, up>>

\* The process is killed, as by Docker ten seconds after docker compose stop.
Kill(w) ==
  /\ worker[w] \notin {"none", "gone", "stopped"}
  /\ Exit(w)
  /\ UNCHANGED <<container, up>>

-----------------------------------------------------------------------------

\* A service goes away, or comes back.
Change(s) ==
  /\ up' = IF s \in up THEN up \ {s} ELSE up \cup {s}
  /\ UNCHANGED <<container, worker, pool, client, busy>>

WorkerStep(w) ==
  \/ ConnectDb(w) \/ ConnectRedis(w)
  \/ Answer(w)
  \/ DisconnectDb(w) \/ DisconnectRedis(w)

Next ==
  \/ ComposeUp \/ Restart \/ Migrate \/ Stop \/ End
  \/ \E w \in Workers : WorkerStep(w) \/ Serve(w) \/ Work(w) \/ Kill(w)
  \/ \E s \in Services : Change(s)

Spec == Init /\ [][Next]_vars

\* Docker starts again what has ended by itself, commands end, and no connect or
\* request lasts for ever.
FairSpec ==
  /\ Spec
  /\ WF_vars(Restart) /\ WF_vars(Migrate) /\ WF_vars(End)
  /\ \A w \in Workers : WF_vars(WorkerStep(w))

-----------------------------------------------------------------------------
(* Properties.                                                             *)

\* Every variable keeps its type, and there are workers exactly while there is
\* an uvicorn.
TypeOK ==
  /\ container \in {"stopped", "down", "migrating", "up", "stopping"}
  /\ worker \in [Workers -> {"none", "starting", "connecting_redis", "serving",
                             "disconnecting_redis", "stopped", "gone"}]
  /\ pool \in [Workers -> BOOLEAN]
  /\ client \in [Workers -> BOOLEAN]
  /\ busy \in [Workers -> BOOLEAN]
  /\ up \subseteq Services
  /\ \A w \in Workers : worker[w] = "none" <=> container \in {"stopped", "down", "migrating"}

\* A worker that has been told to stop leaves no connection of its own open: the
\* lifespan closes what requests have opened after the last of them, and none
\* opens anything again.
NothingLeftOpen ==
  \A w \in Workers :
    /\ worker[w] \in {"disconnecting_redis", "stopped"} => ~pool[w] /\ ~busy[w]
    /\ worker[w] \in {"stopped", "gone", "none"} => ~client[w] /\ ~pool[w]

\* Where a worker is decides what it may have open: a connection to the database
\* from its first connect until the lifespan disposes of the pool, a Redis client
\* a step longer, and a request only while it serves.  It closes what it has only
\* once uvicorn has been told to stop.
WorkerOK(w) ==
  /\ busy[w] => worker[w] = "serving"
  /\ pool[w] => worker[w] \in {"connecting_redis", "serving"}
  /\ client[w] => worker[w] \in {"serving", "disconnecting_redis"}
  /\ worker[w] \in {"disconnecting_redis", "stopped"} => container = "stopping"

\* The inductive invariant.
DeploymentInv == TypeOK /\ \A w \in Workers : WorkerOK(w)

\* Nothing waits for what never comes, whichever services are gone: a container
\* that has ended by itself, is migrating, or is told to stop and has no worker
\* left, and a worker that connects, has a request or is told to stop, can go on.
NeverStuck ==
  /\ container = "down" => ENABLED <<Restart>>_vars
  /\ container = "migrating" => ENABLED <<Migrate>>_vars
  /\ container = "stopping" /\ (\A w \in Workers : Over(w)) => ENABLED <<End>>_vars
  /\ \A w \in Workers :
       worker[w] \in {"starting", "connecting_redis"} \/ busy[w]
         \/ (container = "stopping" /\ ~Over(w)) => ENABLED <<WorkerStep(w)>>_vars

\* docker compose stop comes to an end wherever it finds the workers, one that was
\* gone before, one that still connects or one with a request, and whichever services
\* are gone.
StopEnds == container = "stopping" ~> container = "stopped"

\* README.md:178 to 188: after docker compose up the API answers.  However the
\* services came and went: if from some time on both answer, nobody stops the
\* container and no worker is missing, every worker comes to serve and stays.
\* A worker that is missing stays so, since only a new container replaces it.
EveryWorkerServes ==
  <>[](/\ up = Services /\ container \notin {"stopping", "stopped"}
       /\ \A w \in Workers : worker[w] # "gone")
    => <>[](\A w \in Workers : worker[w] = "serving")

=============================================================================
