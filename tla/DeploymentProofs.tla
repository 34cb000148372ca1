-------------------------- MODULE DeploymentProofs --------------------------
(***************************************************************************)
(* What a worker has open, for any number of workers and however the       *)
(* services come and go; that docker compose stop comes to an end; and     *)
(* that no worker is started without migrations, which the repository does *)
(* not have.                                                               *)
(***************************************************************************)
EXTENDS Deployment, TLAPS

\* The invariant holds before the container is started.
LEMMA InitInv == Init => DeploymentInv
BY DEF Init, DeploymentInv, TypeOK, WorkerOK, Services

\* A step of the container leaves what its workers have alone, or finds that they
\* have nothing.
LEMMA ContainerInv ==
  ASSUME DeploymentInv, ComposeUp \/ Restart \/ Migrate \/ Stop \/ End
  PROVE  DeploymentInv'
<1> USE DEF DeploymentInv
<1>1. TypeOK'
  BY DEF TypeOK, ComposeUp, Restart, Migrate, Stop, End
<1>2. ASSUME NEW w \in Workers PROVE WorkerOK(w)'
  BY DEF TypeOK, WorkerOK, ComposeUp, Restart, Migrate, Stop, End, Over
<1> QED BY <1>1, <1>2

\* A worker connects, or cannot and ends with what it has.
LEMMA ConnectInv ==
  ASSUME DeploymentInv, NEW w \in Workers, ConnectDb(w) \/ ConnectRedis(w) \/ Kill(w)
  PROVE  DeploymentInv'
<1> USE DEF DeploymentInv
<1>1. TypeOK'
  BY DEF TypeOK, ConnectDb, ConnectRedis, Kill, Exit, GoTo
<1>2. ASSUME NEW v \in Workers PROVE WorkerOK(v)'
  BY DEF TypeOK, WorkerOK, ConnectDb, ConnectRedis, Kill, Exit, GoTo
<1> QED BY <1>1, <1>2

\* Only a worker that serves has a request, and only a request opens anything.
LEMMA RequestInv ==
  ASSUME DeploymentInv, NEW w \in Workers, Serve(w) \/ Work(w) \/ Answer(w)
  PROVE  DeploymentInv'
<1> USE DEF DeploymentInv
<1>1. TypeOK'
  BY DEF TypeOK, Serve, Work, Answer
<1>2. ASSUME NEW v \in Workers PROVE WorkerOK(v)'
  BY DEF TypeOK, WorkerOK, Serve, Work, Answer
<1> QED BY <1>1, <1>2

\* The lifespan closes the pool once there is no request, and then the client.
LEMMA DisconnectInv ==
  ASSUME DeploymentInv, NEW w \in Workers, DisconnectDb(w) \/ DisconnectRedis(w)
  PROVE  DeploymentInv'
<1> USE DEF DeploymentInv
<1>1. TypeOK'
  BY DEF TypeOK, DisconnectDb, DisconnectRedis, GoTo
<1>2. ASSUME NEW v \in Workers PROVE WorkerOK(v)'
  BY DEF TypeOK, WorkerOK, DisconnectDb, DisconnectRedis, GoTo
<1> QED BY <1>1, <1>2

\* Whether a service answers is not part of it.
LEMMA ChangeInv ==
  ASSUME DeploymentInv, NEW s \in Services, Change(s)
  PROVE  DeploymentInv'
<1> USE DEF DeploymentInv
<1>1. TypeOK'
  BY DEF TypeOK, Change
<1>2. ASSUME NEW w \in Workers PROVE WorkerOK(w)'
  BY DEF WorkerOK, Change
<1> QED BY <1>1, <1>2

\* The inductive invariant of the container and its workers.
THEOREM DeploymentInvariant == Spec => []DeploymentInv
<1>1. DeploymentInv /\ [Next]_vars => DeploymentInv'
  <2> SUFFICES ASSUME DeploymentInv, [Next]_vars PROVE DeploymentInv'
    OBVIOUS
  <2>1. CASE Next
    BY <2>1, ContainerInv, ConnectInv, RequestInv, DisconnectInv, ChangeInv DEF Next, WorkerStep
  <2>2. CASE UNCHANGED vars
    BY <2>2 DEF vars, DeploymentInv, TypeOK, WorkerOK
  <2> QED BY <2>1, <2>2
<1> QED BY InitInv, <1>1, PTL DEF Spec

\* Types of all variables; a container has workers exactly while its uvicorn runs.
THEOREM TypeCorrect == Spec => []TypeOK
<1>1. DeploymentInv => TypeOK
  BY DEF DeploymentInv
<1> QED BY <1>1, DeploymentInvariant, PTL

\* A worker that stops closes what it and its requests have opened.
THEOREM AllClosed == Spec => []NothingLeftOpen
<1>1. DeploymentInv => NothingLeftOpen
  BY DEF DeploymentInv, TypeOK, WorkerOK, NothingLeftOpen
<1> QED BY <1>1, DeploymentInvariant, PTL

\* Without the directory of the migrations uvicorn is not started, whatever the services
\* and whoever calls docker compose do: the command ends, and Docker starts it again.
THEOREM NothingWithoutMigrations ==
  ~Migrations => (Spec => [](\A w \in Workers : worker[w] = "none"))
<1> SUFFICES ASSUME ~Migrations PROVE Spec => [](\A w \in Workers : worker[w] = "none")
  OBVIOUS
<1> DEFINE Down == container \in {"stopped", "down", "migrating"}
<1>1. Init => Down
  BY DEF Init
<1>2. DeploymentInv /\ Down /\ [Next]_vars => Down'
  BY DEF DeploymentInv, TypeOK, WorkerOK, Next, vars, ComposeUp, Restart, Migrate, Stop, End,
         WorkerStep, ConnectDb, ConnectRedis, Answer, DisconnectDb, DisconnectRedis, Serve, Work,
         Kill, Change
<1>3. DeploymentInv /\ Down => \A w \in Workers : worker[w] = "none"
  BY DEF DeploymentInv, TypeOK
<1> QED BY <1>1, <1>2, <1>3, DeploymentInvariant, PTL DEF Spec

-----------------------------------------------------------------------------
(* Liveness.  That an action is ENABLED is out of the provers' reach, so   *)
(* NeverStuck, which TLC checks, is a hypothesis.                          *)

\* Both services answer, nobody stops the container, and no worker is missing.
Calm == /\ up = Services /\ container \notin {"stopping", "stopped"}
        /\ \A w \in Workers : worker[w] # "gone"

\* The fairness of a worker, and what comes of it.
StepsFairly(w) == WF_vars(WorkerStep(w))
Serves(w) == <>[](worker[w] = "serving")
Going == Spec /\ []NeverStuck /\ WF_vars(Restart) /\ WF_vars(Migrate)

\* While all is calm the container comes up and stays so.
LEMMA ContainerComesUp == Migrations = TRUE => (Going => []([]Calm => <>[](container = "up")))
<1> SUFFICES ASSUME Migrations = TRUE PROVE Going => []([]Calm => <>[](container = "up"))
  OBVIOUS
<1> USE DEF Calm
<1>1. DeploymentInv /\ Calm =>
        container = "down" \/ container = "migrating" \/ container = "up"
  BY DEF DeploymentInv, TypeOK
<1>2. Calm' /\ container = "up" /\ [Next]_vars => (container = "up")'
  BY DEF Next, vars, ComposeUp, Restart, Migrate, Stop, End, Over, WorkerStep, ConnectDb, ConnectRedis,
         Answer, DisconnectDb, DisconnectRedis, Serve, Work, Kill, Change
<1>3. container = "down" /\ <<Restart>>_vars => (container = "migrating")'
  BY DEF Restart
<1>4. Calm /\ container = "migrating" /\ <<Migrate>>_vars => (container = "up")'
  BY DEF Migrate, Services
<1>5. Calm /\ Calm' /\ container = "migrating" /\ [Next]_vars
        => (container = "migrating")' \/ (container = "up")'
  BY DEF Next, vars, ComposeUp, Restart, Migrate, Stop, End, Over, WorkerStep, ConnectDb, ConnectRedis,
         Answer, DisconnectDb, DisconnectRedis, Serve, Work, Kill, Change, Services
<1>6. NeverStuck => /\ container = "down" => ENABLED <<Restart>>_vars
                    /\ container = "migrating" => ENABLED <<Migrate>>_vars
  BY DEF NeverStuck
<1> HIDE DEF Calm
<1> QED BY <1>1, <1>2, <1>3, <1>4, <1>5, <1>6, DeploymentInvariant, PTL DEF Going, Spec

\* A worker of such a container connects, one service after the other, and serves.
LEMMA WorkerComesToServe ==
  ASSUME NEW w \in Workers, Migrations = TRUE
  PROVE  Going /\ StepsFairly(w) => (<>[]Calm => Serves(w))
<1> DEFINE Up == Calm /\ container = "up"
           At(p) == worker[w] = p
<1>1. DeploymentInv /\ Up => At("starting") \/ At("connecting_redis") \/ At("serving")
  BY DEF DeploymentInv, TypeOK, WorkerOK, Calm
<1>2. DeploymentInv /\ Up /\ Up' /\ At("starting") /\ [Next]_vars
        => At("starting")' \/ At("connecting_redis")'
  BY DEF DeploymentInv, TypeOK, Calm, Next, vars, ComposeUp, Restart, Migrate, Stop, End, Over, WorkerStep,
         ConnectDb, ConnectRedis, Answer, DisconnectDb, DisconnectRedis, Serve, Work, Kill, Exit,
         GoTo, Change
<1>3. DeploymentInv /\ Up /\ At("starting") /\ <<WorkerStep(w)>>_vars => At("connecting_redis")'
  BY DEF DeploymentInv, TypeOK, WorkerOK, Calm, WorkerStep, ConnectDb, ConnectRedis, Answer,
         DisconnectDb, DisconnectRedis, GoTo, Services
<1>4. DeploymentInv /\ Up /\ Up' /\ At("connecting_redis") /\ [Next]_vars
        => At("connecting_redis")' \/ At("serving")'
  BY DEF DeploymentInv, TypeOK, Calm, Next, vars, ComposeUp, Restart, Migrate, Stop, End, Over, WorkerStep,
         ConnectDb, ConnectRedis, Answer, DisconnectDb, DisconnectRedis, Serve, Work, Kill, Exit,
         GoTo, Change
<1>5. DeploymentInv /\ Up /\ At("connecting_redis") /\ <<WorkerStep(w)>>_vars => At("serving")'
  BY DEF DeploymentInv, TypeOK, WorkerOK, Calm, WorkerStep, ConnectDb, ConnectRedis, Answer,
         DisconnectDb, DisconnectRedis, GoTo, Services
<1>6. DeploymentInv /\ Up /\ Up' /\ At("serving") /\ [Next]_vars => At("serving")'
  BY DEF DeploymentInv, TypeOK, Calm, Next, vars, ComposeUp, Restart, Migrate, Stop, End, Over, WorkerStep,
         ConnectDb, ConnectRedis, Answer, DisconnectDb, DisconnectRedis, Serve, Work, Kill, Exit,
         GoTo, Change
<1>7. NeverStuck /\ (At("starting") \/ At("connecting_redis")) => ENABLED <<WorkerStep(w)>>_vars
  BY DEF NeverStuck
<1>8. Going => []([]Calm => <>[](container = "up"))
  BY ContainerComesUp
<1> HIDE DEF At
<1> QED BY <1>1, <1>2, <1>3, <1>4, <1>5, <1>6, <1>7, <1>8, DeploymentInvariant, PTL
        DEF Going, Spec, StepsFairly, Serves, At

\* The fairness under which docker compose stop ends.
Stopping == container = "stopping"
Ends == Spec /\ []NeverStuck /\ WF_vars(End)
Settles(w) == [](Stopping => <>(~Stopping \/ Over(w)))

\* A worker of a container that is told to stop goes on to its end.
LEMMA WorkerSettles ==
  ASSUME NEW w \in Workers
  PROVE  Ends /\ StepsFairly(w) => Settles(w)
<1> DEFINE At(p) == worker[w] = p
           Free == At("serving") /\ ~busy[w]
           Held == At("serving") /\ busy[w]
<1> USE DEF Stopping
<1>1. DeploymentInv /\ Stopping =>
        At("starting") \/ At("connecting_redis") \/ Held \/ Free \/ At("disconnecting_redis")
        \/ Over(w)
  BY DEF DeploymentInv, TypeOK, Over
<1>2. DeploymentInv /\ Stopping /\ At("starting") /\ [Next]_vars
        => At("starting")' \/ At("connecting_redis")' \/ Over(w)' \/ ~Stopping'
  BY DEF DeploymentInv, TypeOK, Next, vars, ComposeUp, Restart, Migrate, Stop, End, Over, WorkerStep,
         ConnectDb, ConnectRedis, Answer, DisconnectDb, DisconnectRedis, Serve, Work, Kill, Exit,
         GoTo, Change
<1>3. DeploymentInv /\ At("starting") /\ <<WorkerStep(w)>>_vars
        => At("connecting_redis")' \/ Over(w)'
  BY DEF DeploymentInv, TypeOK, WorkerOK, WorkerStep, ConnectDb, ConnectRedis, Answer,
         DisconnectDb, DisconnectRedis, GoTo, Exit, Over
<1>4. DeploymentInv /\ Stopping /\ At("connecting_redis") /\ [Next]_vars
        => At("connecting_redis")' \/ Held' \/ Free' \/ Over(w)' \/ ~Stopping'
  BY DEF DeploymentInv, TypeOK, Next, vars, ComposeUp, Restart, Migrate, Stop, End, Over, WorkerStep,
         ConnectDb, ConnectRedis, Answer, DisconnectDb, DisconnectRedis, Serve, Work, Kill, Exit,
         GoTo, Change
<1>5. DeploymentInv /\ At("connecting_redis") /\ <<WorkerStep(w)>>_vars
        => Held' \/ Free' \/ Over(w)'
  BY DEF DeploymentInv, TypeOK, WorkerOK, WorkerStep, ConnectDb, ConnectRedis, Answer,
         DisconnectDb, DisconnectRedis, GoTo, Exit, Over
<1>6. DeploymentInv /\ Stopping /\ Held /\ [Next]_vars
        => Held' \/ Free' \/ Over(w)' \/ ~Stopping'
  BY DEF DeploymentInv, TypeOK, Next, vars, ComposeUp, Restart, Migrate, Stop, End, Over, WorkerStep,
         ConnectDb, ConnectRedis, Answer, DisconnectDb, DisconnectRedis, Serve, Work, Kill, Exit,
         GoTo, Change
<1>7. DeploymentInv /\ Held /\ <<WorkerStep(w)>>_vars => Free'
  BY DEF DeploymentInv, TypeOK, WorkerOK, WorkerStep, ConnectDb, ConnectRedis, Answer,
         DisconnectDb, DisconnectRedis
<1>8. DeploymentInv /\ Stopping /\ Free /\ [Next]_vars
        => Free' \/ At("disconnecting_redis")' \/ Over(w)' \/ ~Stopping'
  BY DEF DeploymentInv, TypeOK, Next, vars, ComposeUp, Restart, Migrate, Stop, End, Over, WorkerStep,
         ConnectDb, ConnectRedis, Answer, DisconnectDb, DisconnectRedis, Serve, Work, Kill, Exit,
         GoTo, Change
<1>9. DeploymentInv /\ Free /\ <<WorkerStep(w)>>_vars => At("disconnecting_redis")'
  BY DEF DeploymentInv, TypeOK, WorkerOK, WorkerStep, ConnectDb, ConnectRedis, Answer,
         DisconnectDb, DisconnectRedis, GoTo
<1>10. DeploymentInv /\ Stopping /\ At("disconnecting_redis") /\ [Next]_vars
        => At("disconnecting_redis")' \/ Over(w)' \/ ~Stopping'
  BY DEF DeploymentInv, TypeOK, Next, vars, ComposeUp, Restart, Migrate, Stop, End, Over, WorkerStep,
         ConnectDb, ConnectRedis, Answer, DisconnectDb, DisconnectRedis, Serve, Work, Kill, Exit,
         GoTo, Change
<1>11. DeploymentInv /\ At("disconnecting_redis") /\ <<WorkerStep(w)>>_vars => Over(w)'
  BY DEF DeploymentInv, TypeOK, WorkerOK, WorkerStep, ConnectDb, ConnectRedis, Answer,
         DisconnectDb, DisconnectRedis, GoTo, Over
<1>12. NeverStuck /\ Stopping /\ ~Over(w) => ENABLED <<WorkerStep(w)>>_vars
  BY DEF NeverStuck
<1> HIDE DEF At, Free, Held, Stopping
<1>13. Ends /\ StepsFairly(w)
         => [](Stopping /\ At("disconnecting_redis") => <>(~Stopping \/ Over(w)))
  BY <1>10, <1>11, <1>12, DeploymentInvariant, PTL DEF Ends, Spec, StepsFairly
<1>14. Ends /\ StepsFairly(w) => [](Stopping /\ Free => <>(~Stopping \/ Over(w)))
  BY <1>8, <1>9, <1>12, <1>13, DeploymentInvariant, PTL DEF Ends, Spec, StepsFairly
<1>15. Ends /\ StepsFairly(w) => [](Stopping /\ Held => <>(~Stopping \/ Over(w)))
  BY <1>6, <1>7, <1>12, <1>14, DeploymentInvariant, PTL DEF Ends, Spec, StepsFairly
<1>16. Ends /\ StepsFairly(w)
         => [](Stopping /\ At("connecting_redis") => <>(~Stopping \/ Over(w)))
  BY <1>4, <1>5, <1>12, <1>14, <1>15, DeploymentInvariant, PTL DEF Ends, Spec, StepsFairly
<1>17. Ends /\ StepsFairly(w) => [](Stopping /\ At("starting") => <>(~Stopping \/ Over(w)))
  BY <1>2, <1>3, <1>12, <1>16, DeploymentInvariant, PTL DEF Ends, Spec, StepsFairly
<1> QED BY <1>1, <1>13, <1>14, <1>15, <1>16, <1>17, DeploymentInvariant, PTL DEF Ends, Spec, Settles

\* docker compose stop comes to an end.
THEOREM StopComesToAnEnd ==
  ASSUME NEW a, NEW b, Workers = {a, b}
  PROVE  FairSpec /\ []NeverStuck => StopEnds
<1> DEFINE AllOver == Over(a) /\ Over(b)
<1> USE DEF Stopping
<1>1. Ends /\ (\A w \in Workers : StepsFairly(w)) => Settles(a) /\ Settles(b)
  BY WorkerSettles
<1>2. FairSpec /\ []NeverStuck => Ends /\ (\A w \in Workers : StepsFairly(w))
  BY PTL DEF Ends, FairSpec, StepsFairly
<1>3. ASSUME NEW w \in Workers
      PROVE  DeploymentInv /\ Stopping /\ Over(w) /\ [Next]_vars
               => (container = "stopped")' \/ (Stopping /\ Over(w))'
  BY DEF DeploymentInv, TypeOK, WorkerOK, Next, vars, ComposeUp, Restart, Migrate, Stop, End, Over, WorkerStep,
         ConnectDb, ConnectRedis, Answer, DisconnectDb, DisconnectRedis, Serve, Work, Kill, Exit,
         GoTo, Change
<1>4. Stopping /\ [Next]_vars => (container = "stopped")' \/ Stopping'
  BY DEF Next, vars, ComposeUp, Restart, Migrate, Stop, End, WorkerStep, ConnectDb, ConnectRedis,
         Answer, DisconnectDb, DisconnectRedis, Serve, Work, Kill, Change
<1>5. <<End>>_vars => (container = "stopped")'
  BY DEF End
<1>6. NeverStuck /\ Stopping /\ AllOver => ENABLED <<End>>_vars
  BY DEF NeverStuck
<1>7. ~(Stopping /\ container = "stopped")
  OBVIOUS
<1>8. /\ DeploymentInv /\ Stopping /\ Over(a) /\ [Next]_vars
           => (container = "stopped")' \/ (Stopping /\ Over(a))'
      /\ DeploymentInv /\ Stopping /\ Over(b) /\ [Next]_vars
           => (container = "stopped")' \/ (Stopping /\ Over(b))'
  BY <1>3
<1> HIDE DEF Stopping
<1>9. Ends /\ Settles(a) /\ Settles(b) => [](Stopping => <>(container = "stopped"))
  BY <1>4, <1>5, <1>6, <1>8, DeploymentInvariant, PTL DEF Ends, Spec, Settles, AllOver
<1>10. [](Stopping => <>(container = "stopped")) => StopEnds
  BY PTL DEF StopEnds, Stopping
<1> QED BY <1>1, <1>2, <1>9, <1>10

\* If there were migrations to run, both workers would come to serve, and stay.
THEOREM AllServe ==
  ASSUME NEW a, NEW b, Workers = {a, b}, Migrations = TRUE
  PROVE  FairSpec /\ []NeverStuck => EveryWorkerServes
<1>1. Going /\ (\A w \in Workers : StepsFairly(w)) =>
        (<>[]Calm => Serves(a)) /\ (<>[]Calm => Serves(b))
  BY WorkerComesToServe
<1>2. worker[a] = "serving" /\ worker[b] = "serving"
        => \A w \in Workers : worker[w] = "serving"
  OBVIOUS
<1>3. FairSpec /\ []NeverStuck => Going /\ (\A w \in Workers : StepsFairly(w))
  BY PTL DEF Going, FairSpec, StepsFairly
<1>4. Serves(a) /\ Serves(b) => <>[](\A w \in Workers : worker[w] = "serving")
  BY <1>2, PTL DEF Serves
<1>5. EveryWorkerServes <=> (<>[]Calm => <>[](\A w \in Workers : worker[w] = "serving"))
  BY PTL DEF EveryWorkerServes, Calm
<1> QED BY <1>1, <1>3, <1>4, <1>5, PTL

=============================================================================
