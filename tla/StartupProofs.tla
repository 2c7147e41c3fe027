---------------------------- MODULE StartupProofs ----------------------------
(***************************************************************************)
(* Theorems about the start of cmd/consumer, for every environment and     *)
(* every set of Redis servers that answer.                                 *)
(***************************************************************************)
EXTENDS Startup, TLAPS

-----------------------------------------------------------------------------
(* What each step of main leaves behind for the next ones.                  *)

\* A Redis mode without a broker, or any mode without a backend, went no
\* further; what is wired follows from the mode alone.
Prepared ==
    /\ step \in {"load", "broker", "backend", "wire", "running", "exit0", "exit1"}
    /\ step \in {"broker", "backend", "wire", "running"} => validate(env)
    /\ step \in {"backend", "wire", "running"} /\ BrokerRequired =>
           broker = "open"
    /\ step \in {"wire", "running"} => backend
    /\ step = "running" =>
           /\ exporter = UseKafka(env) /\ kafkaOut = UseKafka(env)
           /\ consumer = IF UseKafka(env) THEN "kafka" ELSE "redis"

(* Prepared holds in every state of a start.                                *)
LEMMA PreparedInvariant == Spec => []Prepared
  <1>1. Init => Prepared
    BY DEF Init, Prepared
  <1>2. Prepared /\ [Next]_startupVars => Prepared'
    <2> SUFFICES ASSUME Prepared, [Next]_startupVars PROVE Prepared'
      OBVIOUS
    <2>1. ASSUME env' = env
          PROVE  /\ validate(env)' <=> validate(env)
                 /\ UseKafka(env)' = UseKafka(env)
                 /\ BrokerRequired' <=> BrokerRequired
      BY <2>1 DEF BrokerRequired
    <2>2. CASE Load
      BY <2>1, <2>2 DEF Load, Prepared, environment
    <2>3. CASE NewBroker
      BY <2>1, <2>3 DEF NewBroker, Prepared, environment
    <2>4. CASE NewBackendRedis
      BY <2>1, <2>4 DEF NewBackendRedis, Prepared, environment
    <2>5. CASE Wire
      BY <2>1, <2>5 DEF Wire, Prepared, environment
    <2>6. CASE Stop
      BY <2>6 DEF Stop, Prepared, environment
    <2>7. CASE UNCHANGED startupVars
      BY <2>1, <2>7 DEF startupVars, Prepared, environment
    <2> QED
      BY <2>2, <2>3, <2>4, <2>5, <2>6, <2>7 DEF Next
  <1> QED
    BY <1>1, <1>2, PTL DEF Spec

(* WiredForItsMode holds: a running process has every client that its       *)
(* goroutines dereference, in any environment and whichever server is down. *)
THEOREM WiredForItsModeHolds == Spec => []WiredForItsMode
  <1>1. Prepared => WiredForItsMode
    <2> SUFFICES ASSUME Prepared, step = "running"
                 PROVE  /\ backend
                        /\ (UsesBroker \/ consumer = "redis") => broker = "open"
                        /\ consumer = "redis" =>
                               \A name \in Streams : env[name] # ""
                        /\ exporter = (consumer = "kafka")
      BY DEF WiredForItsMode
    <2>1. CASE UseKafka(env)
      BY <2>1 DEF Prepared, UsesBroker, UseKafka
    <2>2. CASE ~UseKafka(env)
      BY <2>2 DEF Prepared, BrokerRequired, validate, UseKafka
    <2> QED
      BY <2>1, <2>2
  <1> QED
    BY <1>1, PreparedInvariant, PTL

-----------------------------------------------------------------------------
(* The fallbacks of config.Load.                                            *)

(* A host or port that is given for one role only serves both.              *)
LEMMA OneAddress ==
    ASSUME OneRedis
    PROVE  BackendRedisAddr(env) = RedisAddr(env)
  <1>1. BackendRedisHost(env) = RedisHost(env)
    BY DEF OneRedis, BackendRedisHost, RedisHost, getEnv
  <1>2. BackendRedisPort(env) = RedisPort(env)
    BY DEF OneRedis, BackendRedisPort, RedisPort, getEnv
  <1> QED
    BY <1>1, <1>2 DEF BackendRedisAddr, RedisAddr

(* OneRedisIsEnough holds: while the one Redis server that is configured    *)
(* answers, neither ping of the start fails.                                *)
THEOREM OneRedisIsEnoughHolds == Spec => []OneRedisIsEnough
  <1>1. Init => OneRedisIsEnough
    BY DEF Init, OneRedisIsEnough
  <1>2. OneRedisIsEnough /\ [Next]_startupVars => OneRedisIsEnough'
    <2> SUFFICES ASSUME OneRedisIsEnough, [Next]_startupVars,
                        OneRedis', validate(env)', (RedisAddr(env) \in reachable)'
                 PROVE  step' # "exit1"
      BY DEF OneRedisIsEnough
    <2>1. env' = env /\ reachable' = reachable
      BY DEF Next, Load, NewBroker, NewBackendRedis, Wire, Stop, startupVars,
             environment
    <2>2. OneRedis /\ validate(env) /\ RedisAddr(env) \in reachable
      BY <2>1 DEF OneRedis
    <2>3. BackendRedisAddr(env) \in reachable
      BY <2>2, OneAddress
    <2>4. step # "exit1"
      BY <2>2 DEF OneRedisIsEnough
    <2> QED
      BY <2>2, <2>3, <2>4
      DEF Next, Load, NewBroker, NewBackendRedis, Wire, Stop, startupVars
  <1> QED
    BY <1>1, <1>2, PTL DEF Spec
=============================================================================
