# GoDispatcher: TLA+ models, model checking and proofs

GoDispatcher reads dashboard requests from a Redis stream (or a Kafka topic),
finds the strategy that answers each one, and dispatches the results to an
output stream, a Redis buffer or a live service. This directory holds TLA+
models of that program, the TLC configurations that check them, and theorems
checked by TLAPS. Paths below are relative to `src/`.

## 1. Inventory

| Component | State it keeps | Operations | Talks to |
|---|---|---|---|
| models (`internal/models`) | tables of event and page names | `EventToPageEnrichment` | called by the consumer |
| controller and registry (`internal/controller`) | registered strategies | `Register`, `Get`, `Controller.Run` | called by the consumer, calls a strategy |
| strategies (`internal/strategies`) | none | `CallPageData`, `RegisterStubStrategies` | push on the sender queue |
| consumer (`internal/consumer`) | the request in hand, the run context | `Run`, `ProcessMessage`, `deadLetter` | broker, controller, backend, sender queue |
| redis broker (`internal/redis/broker.go`) | input, output and dead-letter streams, consumer group, pending list | `EnsureConsumerGroup`, `ReadGroup`, `Ack`, `AddToStream` | Redis |
| backend redis (`internal/redis/backend.go`) | buffer hash and status per routing key | `UpdateEventStatus`, `StoreDataInRedis`, `IncrementAndCheckCompletion` | Redis |
| dispatcher (`internal/dispatcher`) | the item in hand | `Run`, `handleItem` | sender queue, live service, backend, broker or Kafka |
| process (`cmd/consumer`) | two goroutines, one bounded channel | start, signal, exit | all of the above |
| kafka client (`internal/kafka`) | offsets | fetch, commit, DLQ, data fetcher, producers | consumer, dispatcher |
| configuration (`internal/config`) | settings | `Load`, validation | both programs |
| http server (`internal/server`, `cmd/server`) | listener, requests under way | `/health`, `/ready`, shutdown | nobody |
| stores, telemetry | client handles | wrappers and stubs | no caller |

How the parts interact: in one process the *consumer goroutine* reads an entry,
runs `ProcessMessage` and acknowledges; the strategy pushes the result, and the
consumer pushes a completion marker, on the *sender queue*, a bounded channel;
the *worker goroutine* takes items from the queue. Several processes share the
consumer group and the backend Redis; nothing else is shared. In Kafka mode the
loop is `RunConsumer` of the Kafka client, which calls the same
`ProcessMessage`, commits offsets instead of acknowledging, and serves as the
worker's output and as the producer of export requests; the broker is then
optional, the backend is not. `cmd/server` shares the configuration with the
consumer and nothing else.

What is hard:

* the acknowledgement only means that the result is on an in-memory queue;
* three selects race the queue against a context (strategy, marker, worker);
* every Redis error on the acknowledgement, dead-letter and status paths is
  ignored, and a command may take effect although its caller sees an error;
* completion of a batch is HINCRBY, HGET and SET, interleaved between the
  workers of several processes and with expiring keys;
* Kafka delivers a message again after a crash, a failed commit or a rebalance,
  a reader that lost its partition may still be processing and committing, and
  what `ProcessMessage` does is not idempotent;
* a goroutine that gives up (no consumer group, no listener) is only logged, and
  `main` waits on;
* `main` returns after a signal without waiting for its goroutines;
* `ProcessMessage` mutates the request before it may dead-letter it;
* the page name passes through two tables, an override and a fallback before
  it meets a registry written by hand.

What makes each component correct: the enrichment must be stable and lead to
registered strategies; the consumer must neither lose nor duplicate a request
on any way out of `ProcessMessage`; the worker must dispatch in order and once;
the backend must announce a batch only when it is complete; the two goroutines
must not block each other; the committed offset must not run ahead of the
processing, and must advance; the process must start only with what its mode
uses; the server must shut down in time without cutting requests short. The
hazards behind these are listed, line by line,
in `PROJECT.json`.

## 2. Modules

| Module | Models | Extends |
|---|---|---|
| `Events` | `models/events.go`: accepted names, tables, enrichment | |
| `Controller` | `controller.go`, `stub.go`: keys, registry, lookup, the message produced | `Events` |
| `Routing` | the path of one request: enrichment, then lookup | `Controller` |
| `Intake` | the decisions of `ProcessMessage` as functions of the request and two clock readings | `Controller` |
| `Backend` | `backend.go`, one operator per Redis command | `Events` |
| `Process` | both goroutines of a process, the sender queue, signals, crashes, restarts | `Intake`, `Backend` |
| `RedisConsumer` | `Consumer.Run`, `deadLetter` and the broker's consumer group; the specification and its properties | `Process` |
| `Delivery` | what the Redis mode promises: an abstract at-most-once specification | |
| `KafkaConsumer` | `kafka/client.go`: `RunConsumer`, exports, DLQ, commits; the consumer group around it | `Process` |
| `Config` | `config.go`: fallbacks, validation, mode | |
| `Startup` | `cmd/consumer/main.go` up to the start of the goroutines | `Config` |
| `Server` | `cmd/server/main.go`, `server/http.go` | |
| `MCRouting`, `MCRedis`, `MCKafka` | small instances (`Startup` and `Server` need none) | |
| `EventsProofs` | lemmas about the tables and the registry | `Controller` |
| `ProcessProofs` | lemmas about one process and the counts of the workers, for both modes | `Process`, `EventsProofs` |
| `RedisConsumerProofs` | types, fates and dead letters of the Redis mode | `RedisConsumer`, `ProcessProofs` |
| `OrderProofs` | order of dispatch, and batches | `RedisConsumerProofs` |
| `DeliveryProofs` | the refinement of `Delivery`; markers of undisturbed requests | `OrderProofs` |
| `KafkaProofs` | types, offsets, duplicates, counts and order of the Kafka mode | `KafkaConsumer`, `ProcessProofs` |
| `RoutingProofs` | theorems about the path of a request | `Routing` |
| `StartupProofs` | theorems about the start of `cmd/consumer` | `Startup` |

Definitions whose comment begins with "Mutant" are variants of the definition
that follows, each a plausible bug that a property must detect; no
specification uses them.

Correspondence of state:

* `input` is the input stream; the id of an entry is its index. `reads[id]` is
  the consumer the group delivered it to (`Nobody` for entries older than the
  group, which starts at `$`), so `Len(reads)` is the last delivered id; `pel`
  is the pending list and `dead` the dead-letter stream.
* `pc[p]` is where the consumer goroutine is: `setup` (XGROUP CREATE), `read`
  (XREADGROUP), `process` (the checks of `ProcessMessage`), `status`
  (`UpdateEventStatus`), `run` (`Controller.Run`), `marker` (the marker's
  select), `dead` (XADD of `deadLetter`), `ack` (XACK), `exited` (`Run`
  returned). `cur`, `incoming` and `reason` are its local variables.
* `queue[p]` is `senderCh`. `wpc[p]`, `hand[p]` and `n[p]` are the worker's
  position and locals: `handle`, and `meta` and `set` inside
  `IncrementAndCheckCompletion`.
* `handled` and `lost` are history variables: what each worker dispatched (where,
  under which key, and with what effect) and what processes held when they ended.
* `buffer` and `status` are the two keys of the backend. The field `__meta__`
  is written by the service that sends the requests, which is outside this
  repository; `TotalMessages` gives its value.

* In `KafkaConsumer` a message's offset is its index in `input`. `committed` is
  the group's offset, `position[p]` the last message the reader of `p` has
  fetched (-1 when it has no partition), `owner` the process the partition was
  assigned to last, `generation` the number of assignments; `exports` and `dlq`
  are histories. `pc[p]` is also `export` (`SendDataFetcher`), and `ack` is the
  commit.
* `Outcome(id)` in `RedisConsumer` is the refinement mapping to `Delivery`: the
  one place where the result of an entry, or its dead letter, is found (`sent`
  if its call took effect, `lost` if it failed or its process ended); `several`
  if there is more than one, which `Delivery` never allows.

Every call that leaves the process is a step of its own, because another
process may act before it and a crash may follow it. Code between two calls is
one step: it only touches the goroutine's own data. A call succeeds or fails;
XGROUP CREATE, XREADGROUP and HINCRBY may also take effect and report an error,
which makes a difference to what the caller does next. For the other calls the
caller goes on alike after success and error, so these two outcomes cover that
one. A write to Kafka may in addition take effect after its caller saw the
cancelled context, since kafka-go writes in the background. A read in flight
when the context is cancelled has, seen from every other process, happened
before the cancellation.

Abstractions of data: an optional string that is only tested for presence is a
Boolean; a strategy key is the tuple of the parts the code joins with `|`
(names are assumed to hold no `|`); a message keeps the parts of its name and
its `stream_tech`; a result is identified by the id of its entry. `Text` stands
for Go's `string`; every configuration sets it to `STRING`. Time appears as the
two readings of the clock (`elapsed1 <= elapsed2`) that `ProcessMessage`
compares with the request's timestamp; the deadline of the run context may
pass at any moment, since Go bounds the time of no step.

## 3. Runs

`tlc -config MC_<run>.cfg <module>`; the bounds are the constants of the cfg.

| Run | Module | Shows |
|---|---|---|
| `routing` | `MCRouting` | enrichment is idempotent, and the pages it decides reach a strategy |
| `fates` | `MCRedis` | what becomes of each request under crashes, signals, failing calls and timeouts; `RedisConsumer` implements `Delivery` |
| `intake` | `MCRedis` | no kind of entry slips through the checks, and a dead letter can be replayed |
| `batch` | `MCRedis` | a batch is announced complete only when it is, and stays so; no marker is dropped without a signal or a timeout |
| `live` | `MCRedis` | consumer and worker never block each other; entries are acknowledged, batches announced |
| `kafka` | `MCKafka` | commits and duplicates under reassignments, crashes and failing calls |
| `kafka_live` | `MCKafka` | every message is committed in the end, and never too early; what a batch is told when messages are processed again |
| `startup` | `Startup` | start-up in every environment |
| `server` | `Server` | graceful shutdown |

Properties:

* `AckedIsAccounted`: an acknowledged entry needed no result, was offered to
  the dead-letter stream, or its result reached the sender queue. This is what
  at-most-once delivery can promise: what a process holds in memory when it
  ends is lost, and nothing else is.
* `OneFate`: no request is both queued and dead-lettered.
* `FifoOncePerProcess`: a worker dispatches in the order of delivery, nothing
  twice, across restarts. `NoSharedDispatch`: no entry is dispatched by two
  processes. `CompletionAfterData`: a completion is counted after its result
  was handled, in Kafka mode too, where a process may be given a message again.
* `UndisturbedIsMarked`: a completion marker is dropped for one reason only, a
  signal or the deadline of the run context. It delimits what `lost_marker` finds.
* `DeadLetterReplays`: the mutated payload in the dead-letter stream leads to
  the same message and widgets as the request that was read.
* `BufferedIsComplete`: the status BUFFERED means that `total_messages`
  different requests were counted, whatever the interleaving and the expiry of
  keys. `StatusNeverRegresses`: a complete batch is not put back to
  "processing" while no more requests than `total_messages` were sent for it.
* `EntriesAreProcessed`: every entry sent once the group exists is read by a process
  and let go by both goroutines while the workers run, unless every process lost its
  XGROUP CREATE; a process that starts late, with entries waiting, does not move the
  group past them. Nothing is said of entries older than the group, which are never
  read (`consumer/consumer.go:71`), nor of failing calls: an XREADGROUP whose reply is
  lost leaves an entry pending that no process gets. `DeliveredIsAcked`: even if
  the workers hang, what is delivered is acknowledged. `BatchIsAnnounced`: the
  last marker of a batch, whichever process counts it, announces the batch.
* `ImplementsDelivery`: the refinement. It implies that no result is produced
  twice by any processes, that queued and dead-lettered exclude each other, and
  that an entry is acknowledged only once its outcome is decided, as one
  statement about steps.
* `EarlyOnlyByReassignment`: in Kafka mode a batch is announced early only as far
  as the partition was assigned anew: a request is counted at most once per
  assignment, whatever the workers of the processes interleave. It delimits what
  `recount` finds.
* `CommittedIsAccounted`: every message below the committed offset needed no
  result, was exported, was offered to the DLQ, or its result reached a sender
  queue. `DuplicatesNeedReassignment`: at most one result per message and
  assignment. `EventuallyCommitted`: the offset passes every message.
* `WiredForItsMode`: neither goroutine can meet a nil broker or backend, or an
  empty stream name. It justifies `RedisAssumption` and `KafkaAssumption`: there
  is an export producer in Kafka mode only. `OneRedisIsEnough`: the fallbacks of
  the two addresses on each other agree.
* `SignalEndsServer`: a signal ends `cmd/server`, whether its listener is open, failed
  or not there yet, and however slow its clients are.
* `EnrichmentIdempotent`, `EnrichedPageReachesStrategy`: about routing.

Bounds, and why they are enough:

* `routing`: every accepted event name, every key of both tables, and products
  and alerts that hit and miss the registry. The path of a request ends, which
  is why `routing` and `alerts` do not check for deadlock.
* `fates`: two processes, two entries of three kinds (no result, result, result
  and marker), a queue of one slot. Two processes are what it takes to share a
  group; two entries of which one needs two slots make the queue full, put one
  item in each of queue and hand, and let a restart happen between them. All
  faults but the start-up failure and the time to live are on.
* `intake`: one process, six kinds of entries, ages below, between and above
  the two thresholds (`EventTimeout` 1, `messageDispatcherTimeoutSec` 2, ages 0,
  2 and 3), start-up failures.
* `batch`: three requests for a batch of two, two workers, failing calls,
  expiry: one request more than the batch needs, so that counts overshoot and
  a status may be overwritten. No signals and timeouts, so that
  `UndisturbedIsMarked` has something to say; the queue has one slot, so a marker
  waits for room. Crashes only end counts early, and the theorems include them.
* `live`: two processes, two entries, a batch of two, a queue of one slot,
  timeouts and start-up failures. It does not check for deadlock: when both
  processes failed to create the group, nothing more happens.
* `kafka`: two processes, two messages (a result, an export, one for another
  pipeline), faults until the third assignment (`MaxGenerations`): a reader that
  lost the partition can set the offset back, and a third assignment starts from
  there. Signals, timeouts and expiring keys are left to `kafka_live`
  (two processes, two messages that are broken, exports or API requests, a batch of
  two, two assignments, no failing calls and no rebalances): a process that ends
  after it counted a request and before it committed it makes another one count it
  again, which is enough to announce the batch. Faults happen while the partition
  has a reader and end with the bound; recovery is not bounded.
* `startup`: all 2^13 environments over the settings that decide anything, and
  every set of reachable addresses among the two that are used.
* `server`: three requests, one of them slow, a bad configuration or port.
* `startup` and `server` do not check for deadlock: these programs exit.
* Symmetry over processes is used in `fates`, `batch` and `kafka`, which check safety
  properties only.

Three further runs check what a comment says of the code, and TLC finds each one
violated:

| Run | The code | The text |
|---|---|---|
| `alerts` | an alert request is looked up as `Alerts\|X\|X` and never finds `Alerts\|X` | `strategies/stub.go:72`, `controller/controller.go:81` |
| `lost_marker` | a marker that does not get on the queue in time is dropped, and the request acknowledged | `consumer/consumer.go:194` |
| `recount` | a redelivered API request counts twice for its batch | `consumer/consumer.go:194` |

The models also contain these behaviours. They are stated here for the reader;
no property forbids them, and the ones named in brackets say how far they go.

* Two pages of the engagements table, `EngagementsProfileDataPage` and
  `EngagementsSlasPage`, have no strategy (`strategies/stub.go:42` speaks of
  "every event").
* The placeholder carries no `stream_tech`, so an API request without a strategy
  is answered on the output stream (`dispatcher/worker.go:90`).
* With an output override results go under the override key and the completion
  under the request's own (`dispatcher/worker.go:80`).
* A result that could not be stored is counted as complete
  (`dispatcher/worker.go:92`); it was at least tried (`CompletionAfterData`).
* After a failed XGROUP CREATE the process stays up and never reads
  (`cmd/consumer/main.go:79`); other processes still read (`EntriesAreProcessed`).
* A Kafka message whose DLQ write failed is committed (`kafka/client.go:161`);
  it is lost on no other path (`CommittedIsAccounted`).
* After a failed listen the server process stays up (`cmd/server/main.go:32`); a
  signal still ends it (`SignalEndsServer`).

## 4. Fairness

`FairSpec` of `RedisConsumer` assumes weak fairness of `Start` and
`ConsumerProgress` of each process: an operator starts processes again (the
program has no supervisor of its own), the Go scheduler runs the goroutine, and
every Redis command returns, because the client has timeouts. Nothing is assumed
about which branch of a select is taken or about timeouts happening: with
`timeout` among the faults it may go either way every time. The one exception is
the read: `ReadNothing`, the turn of the loop whose XREADGROUP times out or fails
without effect, is not part of `ConsumerProgress`, so Redis is assumed not to
refuse the read for ever while an entry is waiting.

The worker is not assumed to run: with a negative `APP_AI_APIS_TIMEOUT` its POST
has no timeout (`http.Client` takes a negative value for none), and it may hang.
`DeliveredIsAcked` holds all the same: the deadline of the run context gets the
consumer out of its selects, since the step of a select is fair and the deadline
is its only branch while the queue is full. `EntriesAreProcessed` and
`BatchIsAnnounced` need the worker, and have its fairness (`WorkersRun`) as
their hypothesis.

The Kafka mode assumes that both goroutines run, and adds that the group assigns a free partition to some live member,
and that a process told to stop ends. `kafka_live` runs without rebalances: after
one, a late commit may set the offset back and leave it there until the next.
`Server` assumes that goroutines run and that the deadline of `Shutdown` passes;
a slow request may never end.

`live` runs without crashes and signals. With them an entry may stay
pending for ever: a restarted process only reads `>`, and
`APP_DISPATCHER_CLAIM_MIN_IDLE` is read by the configuration and used by nobody.
It runs without failing calls too, since the error of an XACK is ignored and
that of HINCRBY loses a completion. Liveness under failing calls is not checked:
apart from XGROUP CREATE, which is, a failing call leads to the next step of the
loop, as a successful one does, or to the dead letter, as a timeout does.

## 5. Proofs

`tlapm <module>.tla`. Every safety property of the passing runs is proved for
every value of the constants allowed by the assumptions of the modules: any set
of processes, any number of entries, any requests, any queue capacity of at least
one, any `EventTimeout`, any batch sizes, any combination of faults, any number
of assignments of the partition.

How the modules build on each other: `EventsProofs` holds facts about the tables,
`ProcessProofs` about the goroutines of a process (types, and that items move
from queue to hand to histories and neither appear nor vanish: `WorkerMoves`,
`PushAdds`, `EndKeeps`) and about the count of a batch (`Tally`), which both modes
use. `RedisConsumerProofs`,
`OrderProofs` and `DeliveryProofs` extend each other in this order, as their
inductive invariants do. `KafkaProofs`, `StartupProofs` and `RoutingProofs` stand
beside them.

| Theorem | Module | Inductive invariant |
|---|---|---|
| `EnrichmentIdempotentHolds`, `EnrichedPageReachesStrategyHolds` | `RoutingProofs` | `Derived` |
| `TypeOKHolds` | `RedisConsumerProofs` | `Typed` |
| `AckedIsAccountedHolds`, `OneFateHolds` | `RedisConsumerProofs` | `FateInv` |
| `DeadLetterReplaysHolds` | `RedisConsumerProofs` | `ReplayInv` |
| `FifoOncePerProcessHolds`, `NoSharedDispatchHolds`, `CompletionAfterDataHolds` | `OrderProofs` | `OrderInv` |
| `BufferedIsCompleteHolds`, `StatusNeverRegressesHolds` | `OrderProofs` | `BatchInv` |
| `ImplementsDeliveryHolds` | `DeliveryProofs` | `DeliveryInv` |
| `UndisturbedIsMarkedHolds` | `DeliveryProofs` | `MarkInv` |
| `TypeOKHolds` | `KafkaProofs` | `Typed` |
| `CommittedIsAccountedHolds` | `KafkaProofs` | `OffsetInv` |
| `DuplicatesNeedReassignmentHolds` | `KafkaProofs` | `TokenInv(FALSE)` |
| `EarlyOnlyByReassignmentHolds` | `KafkaProofs` | `TallyInv`, `TokenInv(TRUE)` |
| `CompletionAfterDataHolds` | `KafkaProofs` | `InOrderInv` |
| `WiredForItsModeHolds` | `StartupProofs` | `Prepared` |
| `OneRedisIsEnoughHolds` | `StartupProofs` | itself |

Why each invariant is needed, and the argument:

* `Typed`. `TypeOK` alone is not inductive: that a queued item's routing key
  names a buffer rests on the keys of the entries and of the request in hand,
  which `KeyedInput` and `KeyedIncoming` add.
* `FateInv`. That an acknowledgement is justified depends on the position of the
  process that holds the entry. `FateInv` adds `Owned` (a busy process holds an
  entry that was delivered to it, so no two hold the same one, and there is no
  group before anything was read), `Known` (results and dead letters belong to
  entries that were read, so a newly read one has none) and `Pending` (what each
  `pc` says of the entry in hand: no result yet, no dead letter yet, accounted
  for). Each action is either quiet (`QuietStep`) or a step on the process's own
  request (`OwnStep`).
* `ReplayInv`. `ProcessMessage` changes the request before it may dead-letter it.
  `CarriedOf` says what the request in hand is at each `pc`: the entry as it
  was sent, merged, or enriched. The rest is that enriching a merged or an
  enriched request gives what enriching the one sent does, from the lemmas about
  the tables.
* `OrderInv` follows the items of a process along its *line*: dispatched, in hand,
  queued. Ranks increase along it (`OrderedLine`), and the entry that the consumer
  goroutine holds comes after all of them, because a process is given entries in
  the order of their ids (`Latest`). `LineOwner` gives every line its own entries,
  which is why none is dispatched by two processes. `LostGone` says that what a
  process lost never comes back. `DataFirst` and `NoMarkerYet` order a marker
  after its data, and make it the only one.
* `BatchInv`. Between HINCRBY, HGET and SET other workers count, and the buffer may
  expire and start from zero. `Tally(N)` says that the count in Redis, and the one a
  worker still has in hand, never exceed `N`, and that BUFFERED means that `N` has
  reached `total_messages`. An expired or stale count is only ever too low. `N` is
  any number for each batch that every increment raises: its lemmas (`TallyWorker`,
  `TallyOther`) serve both modes. In the Redis mode `N` is the number of *different*
  requests counted; this needs that a marker is counted once (from `OrderInv`) and
  under the key of its own request (`MarkerKeys`). For `StatusNeverRegresses`: a
  process about to set "processing" holds an API request of the batch whose marker
  is not even queued, so fewer requests than the batch has were counted, and the
  batch cannot have been announced.
* `DeliveryInv` adds to `OrderInv` that an entry has one dead letter at most, and
  that an entry being processed is pending. Then the result of an entry and its
  dead letter are in one place at most (`OneCopy`), and the refinement mapping
  `Outcome` is a table of those places (`OutcomeTable`). One lemma for each kind of
  step shows what it maps to: `PushMaps` (`Enqueue`), `WorkerMaps` (`Send`, `Lose`
  or a stutter), `EndMaps` (`Lose`), `DeadLetterMaps` (`Reject`), `AckMaps`
  (`Settle` or `Ignore`), `GroupMaps` (a stutter).
* `MarkInv`. The marker must be there when the request is acknowledged, so
  `MarkedAt` asks for it one step earlier: a process at `ack` that holds an API
  request whose result was queued has queued the marker. Without timeouts it gets
  there from `marker` by the push alone, and without signals no process is
  "stopping". That an acknowledged request never gets a result later is
  `BusyIsPending`, from `DeliveryInv`.
* `OffsetInv`. A reader that has lost its partition may still commit. It is harmless
  because of what `OffsetOf` says of *every* reader, owner or not: all messages up
  to its position but the one in hand are accounted for. A new reader starts at
  `committed`, for which `CommittedIsAccounted` says the same, so the two must be
  shown together. `Grows` says that nothing accounted for is taken back.
* `TokenInv(m)`. The bound on duplicates counts things at different stages. Each is
  a *token* of a message: a reader that will come to it, a process that works on it,
  a result (`m` FALSE) or a completion marker (`m` TRUE) in a line (`Slot`). An
  assignment hands out at most one token of each message and adds one to
  `generation`; every other step exchanges a token for another (`Exchange`,
  `TokenExchange`) or loses it. There are therefore at most `generation` tokens of a
  message, and its results, or its counted markers, are among them.
* `TallyInv` is `Tally` with the number of *increments*, since a request may be
  counted more than once. Each increment is a marker in a line, so by
  `TokenInv(TRUE)` there are at most `generation` of the same request. `FibresBound`
  turns this into the bound on their number: a finite set of which at most `g`
  elements map to each element of `I` has at most `g` times as many elements as `I`.
* `InOrderInv`. A message may pass through a process twice, so ranks do not increase
  along a line and `OrderInv` has no counterpart. It suffices that places in a line
  are never reordered: every marker in it has a result of the same message before
  it (`DataBefore`), and a process about to push a marker has one anywhere in its
  line, because the push goes to the end. `SlotTaken`, `SlotDispatched` and
  `SlotPushed` follow a place through the steps of the worker and the consumer.
* `Prepared` says, step by step of `main`, what the earlier steps have opened.
  `OneRedisIsEnough` is inductive by itself, with `OneAddress`: with one host and one
  port, both addresses are the same.
* `Derived` (routing): the page is the request's, or what the tables made of it; no
  table returns one of its own keys, and every page that the unified_json table
  or an event fixes is registered.

Assumptions on constants: `TextAssumption` and `NamesAssumption` (the literals
of the code are strings), `IntakeAssumption`, `BackendAssumption`,
`ProcessAssumption`, `RedisAssumption` (Redis mode: no Kafka export producer),
`KafkaAssumption` (Kafka mode: there is one) and `RoutingAssumption`. TLC
evaluates them in the runs of the modules that state them. `RedisAssumption` and
`KafkaAssumption` are what `WiredForItsMode` proves of the start.
`ServerAssumption` serves the run `server` only; no theorem is about `Server`.

Only model-checked:

* liveness (`EntriesAreProcessed`, `DeliveredIsAcked`, `BatchIsAnnounced`,
  `EventuallyCommitted`, `SignalEndsServer`): fairness and ENABLED are out of the
  prover's reach;
* the three violations, which are single behaviours.

## 6. Not modelled

* MAXLEN trimming of streams: `dead` and `handled` are histories.
* Retries inside the Redis and Kafka client libraries: a call is one attempt
  with one outcome.
* HSET and EXPIRE of `StoreDataInRedis` are sent as one pipeline and are one step.
* JSON marshalling errors of messages the program built itself.
* More than one partition of the requests topic: the code keeps no state across
  partitions but the order of its results, and promises none.
* Settings that are only copied into messages, or read by packages without a
  caller; `APP_REDIS_TLS`, whose value changes nothing (`broker.go:26`).
* The width of durations: `time.Duration(k) * time.Second` wraps for a very large
  setting (`internal/config/config.go:183`). `EventTimeout` is any integer, so the safety
  theorems hold of a wrapped one too.
* The inside of net/http: that `Shutdown` waits for the requests being answered is
  its contract, and external.
* `PrepareDataToFrontend`, the stores and telemetry: no caller, no state.

## 7. What could follow

* Trimming: with MAXLEN in the model, a bound on how long a dead letter stays.
* More than one partition, should the code come to keep state across them.
* Liveness under failing calls, once the program retries or claims pending entries.
