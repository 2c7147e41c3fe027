------------------------------ MODULE Startup -------------------------------
(***************************************************************************)
(* How cmd/consumer starts: config.Load, the clients it pings, and the     *)
(* goroutines it wires together in Redis mode and in Kafka mode.  Process, *)
(* RedisConsumer and KafkaConsumer begin where this module ends.           *)
(***************************************************************************)
EXTENDS Config

VARIABLES
    env,        \* the environment
    reachable,  \* the Redis addresses that answer a ping (external)
    step,       \* main's next step
    broker,     \* "none" before NewBroker, then "nil" or "open"
    backend,    \* NewBackendRedis returned a client
    exporter,   \* the consumer's calcExportProducer is set
    kafkaOut,   \* the worker's Kafka producer is set
    consumer    \* the loop that feeds ProcessMessage

environment == <<env, reachable>>
startupVars == <<environment, step, broker, backend, exporter, kafkaOut,
                 consumer>>

Init ==
    /\ env \in Environment
    /\ reachable \in SUBSET {RedisAddr(env), BackendRedisAddr(env)}
    /\ step = "load"
    /\ broker = "none"
    /\ backend = FALSE
    /\ exporter = FALSE
    /\ kafkaOut = FALSE
    /\ consumer = "none"

Load ==
    /\ step = "load"
    /\ step' = IF validate(env) THEN "broker" ELSE "exit1"
    /\ UNCHANGED <<environment, broker, backend, exporter, kafkaOut, consumer>>

\* Mutant: the Redis mode goes on without a broker, as the Kafka mode does.
BrokerRequired_Never == FALSE

BrokerRequired == ~UseKafka(env)

NewBroker ==
    /\ step = "broker"
    /\ broker' = IF RedisAddr(env) \in reachable THEN "open" ELSE "nil"
    /\ step' = IF broker' = "nil" /\ BrokerRequired THEN "exit1" ELSE "backend"
    /\ UNCHANGED <<environment, backend, exporter, kafkaOut, consumer>>

NewBackendRedis ==
    /\ step = "backend"
    /\ backend' = (BackendRedisAddr(env) \in reachable)
    /\ step' = IF backend' THEN "wire" ELSE "exit1"
    /\ UNCHANGED <<environment, broker, exporter, kafkaOut, consumer>>

\* The consumer and the worker are set up and their goroutines started.
Wire ==
    /\ step = "wire"
    /\ exporter' = UseKafka(env)
    /\ kafkaOut' = UseKafka(env)
    /\ consumer' = IF UseKafka(env) THEN "kafka" ELSE "redis"
    /\ step' = "running"
    /\ UNCHANGED <<environment, broker, backend>>

\* SIGTERM or SIGINT.
Stop ==
    /\ step = "running"
    /\ step' = "exit0"
    /\ UNCHANGED <<environment, broker, backend, exporter, kafkaOut, consumer>>

Next == Load \/ NewBroker \/ NewBackendRedis \/ Wire \/ Stop

Spec == Init /\ [][Next]_startupVars

-----------------------------------------------------------------------------

\* handleItem passes results to the broker instead of Kafka.
UsesBroker == ~(UseKafka(env) /\ kafkaOut)

(* The goroutines run only with all they dereference: a nil broker is never *)
(* used by the loop or by the worker, the backend is there, and every name  *)
(* the mode needs is set, whatever the environment and whichever Redis      *)
(* server is down.  Exports have a producer in Kafka mode only.             *)
WiredForItsMode ==
    step = "running" =>
        /\ backend
        /\ (UsesBroker \/ consumer = "redis") => broker = "open"
        /\ consumer = "redis" => \A name \in Streams : env[name] # ""
        /\ exporter = (consumer = "kafka")

\* No host, and no port, is given for both roles.
OneRedis ==
    /\ env["APP_REDIS_HOST"] = "" \/ env["APP_BACKEND_REDIS_SERVER"] = ""
    /\ env["APP_REDIS_PORT"] = "" \/ env["APP_BACKEND_REDIS_PORT"] = ""

(* One Redis server is enough: however it is named, by the broker's or the  *)
(* backend's settings or by a mix of both, broker and backend find it, and  *)
(* the process does not exit while it answers.                              *)
OneRedisIsEnough ==
    OneRedis /\ validate(env) /\ RedisAddr(env) \in reachable
        => step # "exit1"
=============================================================================
