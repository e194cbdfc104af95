----------------------------- MODULE SupplyStartup -----------------------------
(***************************************************************************)
(* The life of one supply-api process: main (cmd/supply-api/main.go) and   *)
(* what it calls of internal/app.  BuildRuntime connects to PostgreSQL and *)
(* Redis, the HTTP server listens in a goroutine, StartBackgroundWorkers   *)
(* runs in main's own, and only then does main wait for a signal or for a  *)
(* failure of the server.                                                  *)
(*                                                                         *)
(* StartRevocationSubscriber is called in main's goroutine and returns     *)
(* when the root context ends, which main itself ends later: with both     *)
(* backends up, main stays in phase "subscribed".  The configuration is    *)
(* valid and names both backends; a backend that fails later is an error   *)
(* of the call that meets it and never clears db or redis.                 *)
(***************************************************************************)
EXTENDS Integers, FiniteSets

VARIABLES
  env,      \* the -env flag
  db,       \* runtime.resources.db is set
  redis,    \* runtime.resources.redisCache is set
  phase,    \* the call main is in
  server,   \* the goroutine of ListenAndServe
  workers   \* the background goroutines

startVars == <<env, db, redis, phase, server, workers>>

Envs    == {"dev", "staging", "prod"}
Ended   == {"fatal", "killed", "stopped"}
Phases  == {"build", "background", "subscribed", "outbox", "workers", "select", "shutdown"} \cup Ended
Workers == {"outbox", "partition", "compensation"}

StartTypeOK ==
  /\ env \in Envs
  /\ db \in BOOLEAN /\ redis \in BOOLEAN
  /\ phase \in Phases
  /\ server \in {"off", "starting", "serving", "failed"}
  /\ workers \subseteq Workers

StartInit ==
  /\ env \in Envs
  /\ db = FALSE /\ redis = FALSE
  /\ phase = "build" /\ server = "off" /\ workers = {}

\* The process is gone and its goroutines with it.
Exit(how) ==
  /\ phase' = how /\ server' = "off" /\ workers' = {}
  /\ UNCHANGED <<env, db, redis>>

--------------------------------------------------------------------------------
\* Mutant: production falls back to the in-memory stores like the others.
BuildRuntimeAnyEnv ==
  /\ phase = "build"
  /\ \E d, c \in BOOLEAN : db' = d /\ redis' = c
  /\ phase' = "background" /\ server' = "starting"
  /\ UNCHANGED <<env, workers>>

\* BuildRuntime, BuildServer and the start of the server goroutine: a database
\* that cannot be reached is fatal in production and replaced by the in-memory
\* stores elsewhere; Redis is optional.
BuildRuntime ==
  /\ phase = "build"
  /\ \E d, c \in BOOLEAN :
       \/ /\ env = "prod" /\ ~d
          /\ Exit("fatal")
       \/ /\ ~(env = "prod" /\ ~d)
          /\ db' = d /\ redis' = c
          /\ phase' = "background" /\ server' = "starting"
          /\ UNCHANGED <<env, workers>>

\* ListenAndServe binds the port.
Listen ==
  /\ server = "starting"
  /\ server' = "serving"
  /\ UNCHANGED <<env, db, redis, phase, workers>>

\* ListenAndServe returns an error, which waits in serverErrCh.
ServerFails ==
  /\ server \in {"starting", "serving"}
  /\ server' = "failed"
  /\ UNCHANGED <<env, db, redis, phase, workers>>

\* startRevocationSubscriber: with both backends it subscribes and stays there.
\* Without a database StartBackgroundWorkers returns right after it.
StartRevocationSubscriber ==
  /\ phase = "background"
  /\ phase' = IF db /\ redis THEN "subscribed" ELSE IF db THEN "outbox" ELSE "select"
  /\ UNCHANGED <<env, db, redis, server, workers>>

\* startOutboxProcessor: without Redis there is no broker, which production
\* refuses and the others accept.
StartOutboxProcessor ==
  /\ phase = "outbox"
  /\ \/ /\ env = "prod" /\ ~redis
        /\ Exit("fatal")
     \/ /\ ~(env = "prod" /\ ~redis)
        /\ workers' = workers \cup (IF redis THEN {"outbox"} ELSE {})
        /\ phase' = "workers"
        /\ UNCHANGED <<env, db, redis, server>>

\* startPartitionMaintenanceWorker and startCompensationWorker.
StartWorkers ==
  /\ phase = "workers"
  /\ workers' = workers \cup {"partition", "compensation"}
  /\ phase' = "select"
  /\ UNCHANGED <<env, db, redis, server>>

\* main takes the error of the server out of serverErrCh.
ServerError ==
  /\ phase = "select" /\ server = "failed"
  /\ Exit("fatal")

\* SIGINT or SIGTERM.  main asks for it only when it reaches its select; before
\* that the default action of the signal ends the process.
Signal ==
  \/ /\ phase = "select"
     /\ phase' = "shutdown" /\ workers' = {}
     /\ UNCHANGED <<env, db, redis, server>>
  \/ /\ phase \notin Ended \cup {"select", "shutdown"}
     /\ Exit("killed")

\* srv.Shutdown returned, or its timeout ended.
Shutdown ==
  /\ phase = "shutdown"
  /\ Exit("stopped")

\* The supervisor starts the program again.
Restart ==
  /\ phase \in Ended
  /\ db' = FALSE /\ redis' = FALSE /\ phase' = "build"
  /\ UNCHANGED <<env, server, workers>>

\* The process comes up, serves or meets an error.
StartStep ==
  \/ BuildRuntime \/ Listen \/ ServerFails \/ StartRevocationSubscriber
  \/ StartOutboxProcessor \/ StartWorkers

\* The process ends or is started again.
EndStep == ServerError \/ Signal \/ Shutdown \/ Restart

================================================================================
