------------------------------- MODULE Config -------------------------------
(***************************************************************************)
(* The settings that decide how the two programs start: config.Load with   *)
(* its fallbacks and validation.  Timeouts are constants of the modules    *)
(* that use them; settings that are only copied (stores, APIs, white       *)
(* label, tracing) are left out.                                           *)
(***************************************************************************)

\* Settings of the stream and topic names; the topics have defaults.
Streams == {"APP_DISPATCHER_INPUT_STREAM", "APP_DISPATCHER_CONSUMER_GROUP",
            "APP_DISPATCHER_CONSUMER_NAME",
            "APP_DISPATCHER_OUTPUT_STREAM_PREFIX",
            "APP_DISPATCHER_REJECTED_STREAM"}
Topics  == {"STACI_TOPIC_DISPATCHER_REQUESTS", "STACI_TOPIC_DISPATCHER_OUTPUT",
            "STACI_CONSUMER_GROUP_DISPATCHER"}
Redis   == {"APP_REDIS_HOST", "APP_REDIS_PORT", "APP_BACKEND_REDIS_SERVER",
            "APP_BACKEND_REDIS_PORT"}
Names   == Streams \cup Topics \cup Redis \cup {"KAFKA_BOOTSTRAP_SERVERS"}

\* An environment: "" is an unset variable; one that is set has a value that
\* no other setting has.
Environment == {[name \in Names |-> IF name \in given THEN name ELSE ""] :
                    given \in SUBSET Names}

getEnv(value, def) == IF value # "" THEN value ELSE def

\* Load, in the order of the code: broker first, then backend.
RedisHost(e) ==
    getEnv(e["APP_REDIS_HOST"],
           getEnv(e["APP_BACKEND_REDIS_SERVER"], "localhost"))
RedisPort(e) ==
    getEnv(e["APP_REDIS_PORT"], getEnv(e["APP_BACKEND_REDIS_PORT"], "6379"))

\* Mutant: the backend does not follow the broker.
BackendRedisHost_Local(e) == getEnv(e["APP_BACKEND_REDIS_SERVER"], "localhost")

BackendRedisHost(e) == getEnv(e["APP_BACKEND_REDIS_SERVER"], RedisHost(e))
BackendRedisPort(e) == getEnv(e["APP_BACKEND_REDIS_PORT"], RedisPort(e))

RedisAddr(e)        == <<RedisHost(e), RedisPort(e)>>
BackendRedisAddr(e) == <<BackendRedisHost(e), BackendRedisPort(e)>>

Topic(e, name) == getEnv(e[name], "default")

UseKafka(e) == e["KAFKA_BOOTSTRAP_SERVERS"] # ""

validate(e) ==
    IF UseKafka(e) THEN \A name \in Topics : Topic(e, name) # ""
                   ELSE \A name \in Streams : e[name] # ""
=============================================================================
