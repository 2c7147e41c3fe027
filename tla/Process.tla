------------------------------ MODULE Process -------------------------------
(***************************************************************************)
(* Processes of cmd/consumer: in each one the consumer goroutine runs      *)
(* ProcessMessage and pushes results on the sender queue, and the worker   *)
(* goroutine takes them from the queue and dispatches them.  How entries   *)
(* are read, acknowledged and dead-lettered is left to the modules that    *)
(* extend this one (pc values "setup", "read", "export", "ack", "dead").   *)
(*                                                                         *)
(* A call to Redis, Kafka or the live service is one step that takes       *)
(* effect or not.  Once the context is cancelled every new call fails.     *)
(***************************************************************************)
EXTENDS Intake, Backend, Functions, FiniteSets

CONSTANTS Proc,             \* processes, each with its own consumer name
          Payloads,         \* the entries a client may send
          MaxEntries,       \* bound: entries sent
          Elapsed,          \* bound: ages of a request when it is looked at
          SenderQueueCap,   \* capacity of senderCh
          OverrideRoutingKey, \* "" unless the output is overridden
          LiveServiceURL,   \* TRUE iff APP_LIVE_SERVICE_URL is set
          Faults            \* the faults of this instance

AllFaults == {"crash",    \* a process is killed
              "signal",   \* SIGTERM or SIGINT
              "call",     \* a call fails while the context is alive
              "timeout",  \* EventTimeout passes while a message is processed
              "setup",    \* the consumer group cannot be created
              "rebalance", \* Kafka assigns the partition anew
              "ttl"}      \* a backend key reaches its time to live

ASSUME ProcessAssumption ==
    /\ Payloads \subseteq Request
    /\ {r.RoutingKey : r \in Payloads} \subseteq RoutingKey
    /\ MaxEntries \in Nat
    /\ Elapsed \subseteq Int
    /\ SenderQueueCap \in Nat \ {0}
    /\ OverrideRoutingKey \in RoutingKey \cup {""}
    /\ LiveServiceURL \in BOOLEAN
    /\ Faults \subseteq AllFaults

VARIABLES
    input,     \* the entries of the input stream; an entry's id is its index
    mode,      \* per process: "down", "up", or "stopping" (context cancelled)
    pc,        \* the consumer goroutine's next step
    cur,       \* id of the entry it processes, 0 if none
    incoming,  \* that entry as ProcessMessage has mutated it
    reason,    \* why it is dead-lettered
    queue,     \* senderCh
    wpc,       \* the worker goroutine's next step
    hand,      \* the item the worker has taken
    n,         \* what HINCRBY returned to the worker
    handled,   \* history: what each process's worker has dispatched
    lost       \* history: items a process held when it ended

consumerVars == <<pc, cur, incoming, reason>>
workerVars   == <<wpc, hand, n, handled>>
processVars  == <<input, mode, consumerVars, queue, workerVars, lost>>

\* A queued result or completion marker of entry id.
Message == [EventName : Seq(Text), StreamTech : Text]
Item    == [id : Nat, marker : BOOLEAN, message : Message, rk : RoutingKey]
NoMessage == [EventName |-> <<>>, StreamTech |-> ""]
NoItem  == [id |-> 0, marker |-> FALSE, message |-> NoMessage, rk |-> ""]

\* One dispatched item: where it went, under which key, and whether the call
\* took effect.
Sinks    == {"live", "buffer", "output", "count"}
Dispatch == [id : Nat, marker : BOOLEAN, rk : RoutingKey, sink : Sinks,
             ok : BOOLEAN]

Reason == {"", "stale_request", "export_xlsx_timeout", "controller_error",
           "export_send_failed"}

ProcessTypeOK ==
    /\ input \in Seq(Request)
    /\ mode \in [Proc -> {"down", "up", "stopping"}]
    /\ pc \in [Proc -> {"down", "setup", "read", "process", "export", "status",
                        "run", "marker", "dead", "ack", "exited"}]
    /\ cur \in [Proc -> Nat]
    /\ incoming \in [Proc -> Request]
    /\ reason \in [Proc -> Reason]
    /\ queue \in [Proc -> Seq(Item)]
    /\ \A p \in Proc : Len(queue[p]) <= SenderQueueCap
    /\ wpc \in [Proc -> {"idle", "handle", "meta", "set", "exited"}]
    /\ hand \in [Proc -> Item \cup {NoItem}]
    /\ \A p \in Proc : wpc[p] \in {"handle", "meta", "set"} => hand[p] \in Item
    /\ n \in [Proc -> Nat]
    /\ handled \in [Proc -> Seq(Dispatch)]
    /\ lost \in SUBSET Item

ProcessInit ==
    /\ input = <<>>
    /\ mode = [p \in Proc |-> "down"]
    /\ pc = [p \in Proc |-> "down"]
    /\ cur = [p \in Proc |-> 0]
    /\ incoming = [p \in Proc |-> ZeroRequest]
    /\ reason = [p \in Proc |-> ""]
    /\ queue = [p \in Proc |-> <<>>]
    /\ wpc = [p \in Proc |-> "idle"]
    /\ hand = [p \in Proc |-> NoItem]
    /\ n = [p \in Proc |-> 0]
    /\ handled = [p \in Proc |-> <<>>]
    /\ lost = {}

-----------------------------------------------------------------------------
(* Faults and contexts.                                                    *)

CallSucceeds(p) == mode[p] = "up"
CallFails(p)    == mode[p] = "stopping" \/ (mode[p] = "up" /\ "call" \in Faults)

\* <-runCtx.Done() is ready: the process stops, or EventTimeout has passed.
RunCtxDone(p)   == mode[p] = "stopping" \/ "timeout" \in Faults

-----------------------------------------------------------------------------
(* The client of the input stream (external).                              *)

Produce(r) ==
    /\ Len(input) < MaxEntries
    /\ input' = Append(input, r)
    /\ UNCHANGED <<mode, consumerVars, queue, workerVars, lost, backendVars>>

-----------------------------------------------------------------------------
(* Consumer.ProcessMessage.                                                *)

\* Everything up to the run context: nothing here leaves the process.
Triage(p) ==
    /\ pc[p] = "process"
    /\ \E elapsed1, elapsed2 \in Elapsed :
        LET r == incoming[p]
            v == Verdict(r, elapsed1, elapsed2)
        IN  /\ elapsed1 <= elapsed2
            /\ \/ /\ v = "ack"
                  /\ pc' = [pc EXCEPT ![p] = "ack"]
                  /\ UNCHANGED <<incoming, reason>>
               \/ /\ v = "export"
                  /\ pc' = [pc EXCEPT ![p] = "export"]
                  /\ UNCHANGED <<incoming, reason>>
               \/ /\ v \in {"stale_request", "export_xlsx_timeout"}
                  /\ pc' = [pc EXCEPT ![p] = "dead"]
                  /\ incoming' = [incoming EXCEPT ![p] = Merged(r)]
                  /\ reason' = [reason EXCEPT ![p] = v]
               \/ /\ v = "run"
                  /\ pc' = [pc EXCEPT ![p] =
                                IF Buffered(r) THEN "status" ELSE "run"]
                  /\ incoming' = [incoming EXCEPT ![p] = Enriched(r)]
                  /\ UNCHANGED reason
    /\ UNCHANGED <<input, mode, cur, queue, workerVars, lost, backendVars>>

\* stream_tech API: status "processing"; an error is ignored.
UpdateEventStatus(p) ==
    /\ pc[p] = "status"
    /\ pc' = [pc EXCEPT ![p] = "run"]
    /\ \/ CallSucceeds(p) /\ SetStatus(incoming[p].RoutingKey, PROCESSING)
       \/ (CallFails(p) \/ RunCtxDone(p)) /\ UNCHANGED backendVars
    /\ UNCHANGED <<input, mode, cur, incoming, reason, queue, workerVars, lost>>

\* Mutant: one item too many.
HasRoom_OffByOne(p) == Len(queue[p]) <= SenderQueueCap

HasRoom(p) == Len(queue[p]) < SenderQueueCap

DataItem(p) ==
    [id |-> cur[p], marker |-> FALSE, message |-> OutgoingMessage(incoming[p]),
     rk |-> incoming[p].RoutingKey]

MarkerItem(p) ==
    [id |-> cur[p], marker |-> TRUE, message |-> NoMessage,
     rk |-> incoming[p].RoutingKey]

\* Mutant: the error of Controller.Run is ignored.
ControllerFailed_Ignored(p) ==
    /\ pc' = [pc EXCEPT ![p] = IF Buffered(incoming[p]) THEN "marker" ELSE "ack"]
    /\ UNCHANGED reason

\* Controller.Run returned an error: the message is dead-lettered.
ControllerFailed(p) ==
    /\ pc' = [pc EXCEPT ![p] = "dead"]
    /\ reason' = [reason EXCEPT ![p] = "controller_error"]

\* Controller.Run: the strategy's select between the queue and the context.
RunController(p) ==
    /\ pc[p] = "run"
    /\ \/ /\ HasRoom(p)
          /\ queue' = [queue EXCEPT ![p] = Append(@, DataItem(p))]
          /\ pc' = [pc EXCEPT ![p] =
                        IF Buffered(incoming[p]) THEN "marker" ELSE "ack"]
          /\ UNCHANGED reason
       \/ RunCtxDone(p) /\ ControllerFailed(p) /\ UNCHANGED queue
    /\ UNCHANGED <<input, mode, cur, incoming, workerVars, lost, backendVars>>

\* Mutants: the marker waits for the queue, whatever the run context; a message
\* whose marker cannot be queued is dead-lettered.
SendMarker_Blocks(p) ==
    /\ pc[p] = "marker" /\ HasRoom(p)
    /\ queue' = [queue EXCEPT ![p] = Append(@, MarkerItem(p))]
    /\ pc' = [pc EXCEPT ![p] = "ack"]
    /\ UNCHANGED <<input, mode, cur, incoming, reason, workerVars, lost,
                   backendVars>>

SendMarker_DeadLetters(p) ==
    /\ pc[p] = "marker"
    /\ \/ /\ HasRoom(p) /\ queue' = [queue EXCEPT ![p] = Append(@, MarkerItem(p))]
          /\ pc' = [pc EXCEPT ![p] = "ack"]
       \/ RunCtxDone(p) /\ UNCHANGED queue /\ pc' = [pc EXCEPT ![p] = "dead"]
    /\ UNCHANGED <<input, mode, cur, incoming, reason, workerVars, lost,
                   backendVars>>

\* Mutant: a select with a default branch, which drops the marker.
SendMarker_Default(p) ==
    /\ pc[p] = "marker"
    /\ pc' = [pc EXCEPT ![p] = "ack"]
    /\ queue' = IF HasRoom(p) THEN [queue EXCEPT ![p] = Append(@, MarkerItem(p))]
                ELSE queue
    /\ UNCHANGED <<input, mode, cur, incoming, reason, workerVars, lost,
                   backendVars>>

\* The completion marker's select; the message is acked on either branch.
SendMarker(p) ==
    /\ pc[p] = "marker"
    /\ pc' = [pc EXCEPT ![p] = "ack"]
    /\ \/ HasRoom(p) /\ queue' = [queue EXCEPT ![p] = Append(@, MarkerItem(p))]
       \/ RunCtxDone(p) /\ UNCHANGED queue
    /\ UNCHANGED <<input, mode, cur, incoming, reason, workerVars, lost,
                   backendVars>>

\* <-ctx.Done() at the top of the consumer's loop.
ConsumerReturn(p) ==
    /\ pc[p] = "read" /\ mode[p] = "stopping"
    /\ pc' = [pc EXCEPT ![p] = "exited"]
    /\ UNCHANGED <<input, mode, cur, incoming, reason, queue, workerVars, lost,
                   backendVars>>

\* The consumer's loop goes round.
Continue(p) ==
    /\ pc' = [pc EXCEPT ![p] = "read"]
    /\ cur' = [cur EXCEPT ![p] = 0]
    /\ incoming' = [incoming EXCEPT ![p] = ZeroRequest]
    /\ reason' = [reason EXCEPT ![p] = ""]

-----------------------------------------------------------------------------
(* The dispatcher's worker.                                                *)

Take(p) ==
    /\ mode[p] # "down" /\ wpc[p] = "idle" /\ queue[p] # <<>>
    /\ hand' = [hand EXCEPT ![p] = Head(queue[p])]
    /\ queue' = [queue EXCEPT ![p] = Tail(@)]
    /\ wpc' = [wpc EXCEPT ![p] = "handle"]
    /\ UNCHANGED <<input, mode, consumerVars, n, handled, lost, backendVars>>

\* <-ctx.Done(): the worker's loop returns, whatever is left in the queue.
WorkerReturn(p) ==
    /\ mode[p] = "stopping" /\ wpc[p] = "idle"
    /\ wpc' = [wpc EXCEPT ![p] = "exited"]
    /\ UNCHANGED <<input, mode, consumerVars, queue, hand, n, handled, lost,
                   backendVars>>

\* The routing key of results; completion markers keep their own.
OutputKey(rk) == IF OverrideRoutingKey # "" THEN OverrideRoutingKey ELSE rk

Record(p, rk, sink, ok) ==
    handled' = [handled EXCEPT ![p] =
        Append(@, [id |-> hand[p].id, marker |-> hand[p].marker, rk |-> rk,
                   sink |-> sink, ok |-> ok])]

WorkerDone(p) ==
    /\ wpc' = [wpc EXCEPT ![p] = "idle"]
    /\ hand' = [hand EXCEPT ![p] = NoItem]
    /\ n' = [n EXCEPT ![p] = 0]

\* stream_tech SSE: POST to the live service; skipped when it has no URL.
SendSSEEvent(p) ==
    /\ wpc[p] = "handle" /\ ~hand[p].marker
    /\ hand[p].message.StreamTech = "SSE"
    /\ \/ LiveServiceURL /\ CallSucceeds(p) /\ Record(p, hand[p].rk, "live", TRUE)
       \/ (~LiveServiceURL \/ CallFails(p)) /\ Record(p, hand[p].rk, "live", FALSE)
    /\ WorkerDone(p)
    /\ UNCHANGED <<input, mode, consumerVars, queue, lost, backendVars>>

\* stream_tech API: store in the backend buffer.
StoreResult(p) ==
    LET rk == OutputKey(hand[p].rk)
    IN  /\ wpc[p] = "handle" /\ ~hand[p].marker
        /\ hand[p].message.StreamTech = "API"
        /\ \/ /\ CallSucceeds(p)
              /\ StoreDataInRedis(rk, hand[p].message.EventName, hand[p].id)
              /\ Record(p, rk, "buffer", TRUE)
           \/ /\ CallFails(p)
              /\ Record(p, rk, "buffer", FALSE)
              /\ UNCHANGED backendVars
        /\ WorkerDone(p)
        /\ UNCHANGED <<input, mode, consumerVars, queue, lost>>

\* kafka-go writes batches in the background: a write whose caller has seen the
\* cancelled context may still reach the topic.
OutputWritten(p) == CallSucceeds(p) \/ CalcExportProducer

\* Mutant: a result that could not be sent is tried again.
DispatchToStream_Retries(p) ==
    /\ wpc[p] = "handle" /\ ~hand[p].marker
    /\ hand[p].message.StreamTech \notin {"SSE", "API"}
    /\ \/ /\ CallSucceeds(p)
          /\ Record(p, OutputKey(hand[p].rk), "output", TRUE)
          /\ WorkerDone(p)
       \/ /\ CallFails(p)
          /\ Record(p, OutputKey(hand[p].rk), "output", FALSE)
          /\ UNCHANGED <<wpc, hand, n>>
    /\ UNCHANGED <<input, mode, consumerVars, queue, lost, backendVars>>

\* Default: one entry on the output stream (Redis) or output topic (Kafka).
DispatchToStream(p) ==
    /\ wpc[p] = "handle" /\ ~hand[p].marker
    /\ hand[p].message.StreamTech \notin {"SSE", "API"}
    /\ \E ok \in BOOLEAN :
        /\ IF ok THEN OutputWritten(p) ELSE CallFails(p)
        /\ Record(p, OutputKey(hand[p].rk), "output", ok)
    /\ WorkerDone(p)
    /\ UNCHANGED <<input, mode, consumerVars, queue, lost, backendVars>>

\* IncrementAndCheckCompletion, first command: HINCRBY.  It may fail, or take
\* effect and report an error; the error ends the handling of the marker.
IncrementCompletion(p) ==
    LET rk == hand[p].rk
    IN  /\ wpc[p] = "handle" /\ hand[p].marker
        /\ \/ /\ CallSucceeds(p)
              /\ IncrementProcessedCount(rk)
              /\ Record(p, rk, "count", TRUE)
              /\ \/ /\ wpc' = [wpc EXCEPT ![p] = "meta"]
                    /\ n' = [n EXCEPT ![p] = buffer[rk].count + 1]
                    /\ UNCHANGED hand
                 \/ "call" \in Faults /\ WorkerDone(p)
           \/ /\ CallFails(p)
              /\ Record(p, rk, "count", FALSE)
              /\ WorkerDone(p)
              /\ UNCHANGED backendVars
        /\ UNCHANGED <<input, mode, consumerVars, queue, lost>>

\* Second command: HGET __meta__, and the comparison with the count.
CheckCompletion(p) ==
    /\ wpc[p] = "meta"
    /\ \/ /\ CallSucceeds(p) /\ CompletionReached(hand[p].rk, n[p])
          /\ wpc' = [wpc EXCEPT ![p] = "set"]
          /\ UNCHANGED <<hand, n>>
       \/ /\ CallFails(p) \/ ~CompletionReached(hand[p].rk, n[p])
          /\ WorkerDone(p)
    /\ UNCHANGED <<input, mode, consumerVars, queue, handled, lost, backendVars>>

\* Third command: SET of the event status.
SetCompletion(p) ==
    /\ wpc[p] = "set"
    /\ \/ CallSucceeds(p) /\ SetStatus(hand[p].rk, BUFFERED)
       \/ CallFails(p) /\ UNCHANGED backendVars
    /\ WorkerDone(p)
    /\ UNCHANGED <<input, mode, consumerVars, queue, handled, lost>>

-----------------------------------------------------------------------------
(* The process's life.                                                     *)

\* SIGTERM: main cancels the context.
Signal(p) ==
    /\ "signal" \in Faults
    /\ mode[p] = "up"
    /\ mode' = [mode EXCEPT ![p] = "stopping"]
    /\ UNCHANGED <<input, consumerVars, queue, workerVars, lost, backendVars>>

\* What the process still had to dispatch.
Undispatched(p) ==
    Range(queue[p]) \cup (IF wpc[p] = "handle" THEN {hand[p]} ELSE {})

\* main returns after cancel() without waiting for its goroutines, or the
\* process is killed: what it held in memory is gone.
End(p) ==
    /\ \/ mode[p] = "stopping"
       \/ mode[p] = "up" /\ "crash" \in Faults
    /\ mode' = [mode EXCEPT ![p] = "down"]
    /\ lost' = lost \cup Undispatched(p)
    /\ queue' = [queue EXCEPT ![p] = <<>>]
    /\ pc' = [pc EXCEPT ![p] = "down"]
    /\ cur' = [cur EXCEPT ![p] = 0]
    /\ incoming' = [incoming EXCEPT ![p] = ZeroRequest]
    /\ reason' = [reason EXCEPT ![p] = ""]
    /\ WorkerDone(p)
    /\ UNCHANGED <<input, handled, backendVars>>

\* main starts both goroutines; the consumer begins at firstStep.
Begin(p, firstStep) ==
    /\ mode[p] = "down"
    /\ mode' = [mode EXCEPT ![p] = "up"]
    /\ pc' = [pc EXCEPT ![p] = firstStep]
    /\ UNCHANGED <<input, cur, incoming, reason, queue, workerVars, lost,
                   backendVars>>

Expire(rk) ==
    /\ "ttl" \in Faults
    /\ ExpireBuffer(rk) \/ ExpireStatus(rk)
    /\ UNCHANGED processVars

ConsumerStep(p) ==
    Triage(p) \/ UpdateEventStatus(p) \/ RunController(p) \/ SendMarker(p)

WorkerStep(p) ==
    \/ Take(p) \/ SendSSEEvent(p) \/ StoreResult(p) \/ DispatchToStream(p)
    \/ IncrementCompletion(p) \/ CheckCompletion(p) \/ SetCompletion(p)

-----------------------------------------------------------------------------
(* Vocabulary and properties that both modes share.                       *)

\* Entries that the code acknowledges without producing anything.
NeedsNoResult(r) == Unreadable(r) \/ Ignored(r) \/ Skipped(r)

\* A result (or, with m TRUE, a completion marker) of entry id was queued: it
\* still is, or was dispatched, or was lost with a process.
Queued(id, m) ==
    \/ \E p \in Proc : \E x \in Undispatched(p) \cup Range(handled[p]) :
            x.id = id /\ x.marker = m
    \/ \E x \in lost : x.id = id /\ x.marker = m

HasItem(id)   == Queued(id, FALSE)
HasMarker(id) == Queued(id, TRUE)

(* A completion is counted only after the worker has handled the result it  *)
(* completes: the marker of an entry is dispatched after its data.          *)
CompletionAfterData ==
    \A p \in Proc : \A i \in DOMAIN handled[p] :
        handled[p][i].marker =>
            \E j \in 1..(i-1) : /\ handled[p][j].id = handled[p][i].id
                                /\ ~handled[p][j].marker

\* Entries whose completion marker has incremented the count of rk.
Counted(rk) ==
    UNION {{d.id : d \in {x \in Range(handled[p]) :
                             x.marker /\ x.ok /\ x.rk = rk}} : p \in Proc}

(* The frontend is told that a batch is complete only when total_messages   *)
(* different requests of it have been counted, with several workers         *)
(* incrementing, reading __meta__ and setting the status in any order.      *)
BufferedIsComplete ==
    \A rk \in RoutingKey :
        status[rk] = BUFFERED => Cardinality(Counted(rk)) >= TotalMessages[rk]
=============================================================================
