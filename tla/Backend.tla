------------------------------ MODULE Backend -------------------------------
(***************************************************************************)
(* internal/redis/backend.go: the buffer hash and the event status that    *)
(* the stream_tech API path keeps in the backend Redis, one operator per   *)
(* Redis command.  The hash field __meta__ (total_messages) is written by  *)
(* the service that sends the requests, before it sends them.              *)
(***************************************************************************)
EXTENDS Integers, Sequences, Events

CONSTANTS RoutingKey,     \* routing keys that name a buffer
          TotalMessages   \* total_messages of __meta__, per routing key

NoMeta == -1              \* __meta__ absent or not JSON

ASSUME BackendAssumption ==
    /\ RoutingKey \subseteq Text
    /\ TotalMessages \in [RoutingKey -> Nat \cup {NoMeta}]

VARIABLES buffer,   \* PUBLISH_ENGINE::BUFFER::{routing_key}
          status    \* EVENT::STATUS::{routing_key}

backendVars == <<buffer, status>>

PROCESSING == "PROCESSING_EVENT_IN_PUBLISHER_CONTROLLER"
BUFFERED   == "BUFFERED_EVENT_IN_GO_DISPATCHER_TO_REDIS"
NoStatus   == ""

\* A hash: result fields (name and the entry whose result it holds),
\* __processed_count__, __meta__, and whether the key has a time to live.
Hash == [fields : SUBSET (Seq(Text) \X Nat), count : Nat,
         meta : Nat \cup {NoMeta}, ttl : BOOLEAN]

EmptyHash == [fields |-> {}, count |-> 0, meta |-> NoMeta, ttl |-> FALSE]

BackendTypeOK ==
    /\ buffer \in [RoutingKey -> Hash]
    /\ status \in [RoutingKey -> {NoStatus, PROCESSING, BUFFERED}]

BackendInit ==
    /\ buffer = [rk \in RoutingKey |->
                    [EmptyHash EXCEPT !.meta = TotalMessages[rk]]]
    /\ status = [rk \in RoutingKey |-> NoStatus]

\* HSET of the field, which replaces an earlier value of it, and EXPIRE.
StoreDataInRedis(rk, eventName, id) ==
    /\ buffer' = [buffer EXCEPT
            ![rk].fields = {f \in @ : f[1] # eventName} \cup {<<eventName, id>>},
            ![rk].ttl = TRUE]
    /\ UNCHANGED status

\* HINCRBY __processed_count__: creates the hash, without a time to live.
IncrementProcessedCount(rk) ==
    /\ buffer' = [buffer EXCEPT ![rk].count = @ + 1]
    /\ UNCHANGED status

\* Mutants: complete one marker early or late; an absent __meta__ read as zero.
CompletionReached_Early(rk, n) ==
    buffer[rk].meta # NoMeta /\ n + 1 >= buffer[rk].meta

CompletionReached_Late(rk, n) ==
    buffer[rk].meta # NoMeta /\ n > buffer[rk].meta

CompletionReached_NoMeta(rk, n) == n >= buffer[rk].meta

\* The comparison made with what HGET __meta__ returned.
CompletionReached(rk, n) ==
    buffer[rk].meta # NoMeta /\ n >= buffer[rk].meta

SetStatus(rk, s) ==
    /\ status' = [status EXCEPT ![rk] = s]
    /\ UNCHANGED buffer

\* Redis drops a key whose time to live has passed.
ExpireBuffer(rk) ==
    /\ buffer[rk].ttl
    /\ buffer' = [buffer EXCEPT ![rk] = EmptyHash]
    /\ UNCHANGED status

ExpireStatus(rk) ==
    /\ status[rk] # NoStatus
    /\ SetStatus(rk, NoStatus)
=============================================================================
