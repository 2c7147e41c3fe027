--------------------------- MODULE RedisConsumer ----------------------------
(***************************************************************************)
(* The Redis mode of cmd/consumer: processes of one consumer group read    *)
(* the input stream with XREADGROUP, run ProcessMessage on each entry and  *)
(* acknowledge it, after a copy to the dead-letter stream when the         *)
(* processing failed.  Only new entries (">") are ever read.               *)
(***************************************************************************)
EXTENDS Process

CONSTANT Nobody    \* the reader of entries older than the consumer group

ASSUME RedisAssumption ==
    /\ Nobody \notin Proc
    /\ ~CalcExportProducer

VARIABLES
    group,   \* TRUE once the consumer group exists
    reads,   \* reads[id] is the process entry id was delivered to; the
             \* group's last-delivered-id is Len(reads)
    pel,     \* the group's pending entries: delivered, not acknowledged
    dead     \* the dead-letter stream

groupVars == <<group, reads, pel>>
vars == <<processVars, backendVars, groupVars, dead>>

DeadLetter == [id : Nat, reason : Reason, payload : Request, ok : BOOLEAN]

TypeOK ==
    /\ ProcessTypeOK
    /\ BackendTypeOK
    /\ group \in BOOLEAN
    /\ reads \in Seq(Proc \cup {Nobody})
    /\ pel \in SUBSET Nat
    /\ dead \in Seq(DeadLetter)

Init ==
    /\ ProcessInit
    /\ BackendInit
    /\ group = FALSE
    /\ reads = <<>>
    /\ pel = {}
    /\ dead = <<>>

-----------------------------------------------------------------------------

\* Mutants: every start resets the group to the stream's first entry, or moves
\* it to the last one.
CreateGroup_Resets == group' = TRUE /\ reads' = <<>>

CreateGroup_MovesOn ==
    /\ group' = TRUE
    /\ reads' = [i \in 1..Len(input) |->
                    IF i <= Len(reads) THEN reads[i] ELSE Nobody]

\* XGROUP CREATE ... $: entries already in the stream are never delivered, and
\* a group that exists stays as it is (BUSYGROUP).
CreateGroup ==
    /\ group' = TRUE
    /\ reads' = IF group THEN reads ELSE [i \in 1..Len(input) |-> Nobody]

\* On an error Run returns and the process lives on without a consumer; the
\* command may have taken effect all the same.
EnsureConsumerGroup(p) ==
    /\ pc[p] = "setup"
    /\ \/ /\ CallSucceeds(p)
          /\ CreateGroup
          /\ \/ pc' = [pc EXCEPT ![p] = "read"]
             \/ "setup" \in Faults /\ pc' = [pc EXCEPT ![p] = "exited"]
       \/ /\ mode[p] = "stopping" \/ "setup" \in Faults
          /\ pc' = [pc EXCEPT ![p] = "exited"]
          /\ UNCHANGED <<group, reads>>
    /\ UNCHANGED <<input, mode, cur, incoming, reason, queue, workerVars, lost,
                   backendVars, pel, dead>>

\* Mutant: XREADGROUP with NOACK, which leaves nothing pending.
AddPending_NoAck(id) == UNCHANGED pel

\* A delivered entry is pending until it is acknowledged.
AddPending(id) == pel' = pel \cup {id}

\* XREADGROUP ... >: the next entry goes to p and to the pending list.  When
\* the reply is lost the loop goes on to the next entry.
ReadGroup(p) ==
    /\ pc[p] = "read" /\ CallSucceeds(p)
    /\ Len(reads) < Len(input)
    /\ reads' = Append(reads, p)
    /\ LET id == Len(reads) + 1
       IN  /\ AddPending(id)
           /\ \/ /\ cur' = [cur EXCEPT ![p] = id]
                 /\ incoming' = [incoming EXCEPT ![p] = input[id]]
                 /\ pc' = [pc EXCEPT ![p] =
                            IF Unreadable(input[id]) THEN "ack" ELSE "process"]
              \/ "call" \in Faults /\ UNCHANGED <<cur, incoming, pc>>
    /\ UNCHANGED <<input, mode, reason, queue, workerVars, lost, backendVars,
                   group, dead>>

\* XREADGROUP times out or fails: the loop goes round.
ReadNothing(p) ==
    /\ pc[p] = "read" /\ mode[p] = "up"
    /\ Len(reads) = Len(input) \/ "call" \in Faults
    /\ UNCHANGED vars

\* XACK; its error is ignored.
Ack(p) ==
    /\ pc[p] = "ack"
    /\ \/ CallSucceeds(p) /\ pel' = pel \ {cur[p]}
       \/ CallFails(p) /\ UNCHANGED pel
    /\ Continue(p)
    /\ UNCHANGED <<input, mode, queue, workerVars, lost, backendVars, group,
                   reads, dead>>

\* deadLetter's XADD, whose error is ignored (ok is FALSE when it had no
\* effect); XACK follows.
AddDeadLetter(p) ==
    /\ pc[p] = "dead"
    /\ \E ok \in BOOLEAN :
        /\ IF ok THEN CallSucceeds(p) ELSE CallFails(p)
        /\ dead' = Append(dead, [id |-> cur[p], reason |-> reason[p],
                                 payload |-> incoming[p], ok |-> ok])
    /\ pc' = [pc EXCEPT ![p] = "ack"]
    /\ UNCHANGED <<input, mode, cur, incoming, reason, queue, workerVars, lost,
                   backendVars, groupVars>>

Start(p) == Begin(p, "setup") /\ UNCHANGED <<groupVars, dead>>

\* The steps shared with the Kafka mode.
Shared(p) ==
    /\ \/ ConsumerStep(p)
       \/ ConsumerReturn(p)
       \/ WorkerStep(p)
       \/ WorkerReturn(p)
       \/ Signal(p)
       \/ End(p)
    /\ UNCHANGED <<groupVars, dead>>

Next ==
    \/ \E r \in Payloads : Produce(r) /\ UNCHANGED <<groupVars, dead>>
    \/ \E rk \in RoutingKey : Expire(rk) /\ UNCHANGED <<groupVars, dead>>
    \/ \E p \in Proc :
        \/ Start(p)
        \/ EnsureConsumerGroup(p)
        \/ ReadGroup(p)
        \/ ReadNothing(p)
        \/ Ack(p)
        \/ AddDeadLetter(p)
        \/ Shared(p)

Spec == Init /\ [][Next]_vars

-----------------------------------------------------------------------------
(* Fairness.  A started process is scheduled, every Redis command returns, *)
(* and the operator starts processes again after they ended.  The worker   *)
(* may hang (with a negative APP_AI_APIS_TIMEOUT its POST has no timeout), *)
(* so a property that needs it says so.                                    *)

ConsumerProgress(p) ==
    \/ EnsureConsumerGroup(p) \/ ReadGroup(p) \/ Ack(p) \/ AddDeadLetter(p)
    \/ ConsumerStep(p) /\ UNCHANGED <<groupVars, dead>>

WorkerProgress(p) == WorkerStep(p) /\ UNCHANGED <<groupVars, dead>>

FairSpec ==
    /\ Spec
    /\ \A p \in Proc : WF_vars(Start(p)) /\ WF_vars(ConsumerProgress(p))

WorkersRun == \A p \in Proc : WF_vars(WorkerProgress(p))

-----------------------------------------------------------------------------
(* Vocabulary of the properties.                                           *)

Delivered == {id \in 1..Len(reads) : reads[id] # Nobody}

\* The items a process has still to dispatch, in the order it will do so.
Pipeline(p) == (IF wpc[p] = "handle" THEN <<hand[p]>> ELSE <<>>) \o queue[p]

HasDeadLetter(id) == \E d \in Range(dead) : d.id = id

Accounted(id) == NeedsNoResult(input[id]) \/ HasDeadLetter(id) \/ HasItem(id)

(* No acknowledged request disappears inside the consumer: an entry that    *)
(* left the pending list needed no result, or was offered to the            *)
(* dead-letter stream, or its result reached the sender queue (and is       *)
(* there, dispatched, or lost with the process that held it).               *)
AckedIsAccounted ==
    \A id \in Delivered \ pel : Accounted(id)

(* A request has one fate: an entry whose result was queued is never also   *)
(* dead-lettered, whatever the run context, signals and crashes do between  *)
(* the strategy's select and deadLetter.                                    *)
OneFate ==
    \A id \in 1..Len(reads) : ~(HasItem(id) /\ HasDeadLetter(id))

\* Position of an item in the order of delivery: the marker follows its data.
Rank(x) == 2 * x.id + (IF x.marker THEN 1 ELSE 0)

(* Each process dispatches in the order of delivery, and nothing twice: the *)
(* ranks of what its worker dispatched, holds and will take are strictly    *)
(* increasing, across restarts too.                                         *)
FifoOncePerProcess ==
    \A p \in Proc :
        LET done == [i \in DOMAIN handled[p] |-> Rank(handled[p][i])]
            todo == [i \in DOMAIN Pipeline(p) |-> Rank(Pipeline(p)[i])]
            all  == done \o todo
        IN  \A i, j \in DOMAIN all : i < j => all[i] < all[j]

\* The result of entry id, wherever it is or went, and its dead letters.
Copies(id) ==
    LET of(s) == {i \in DOMAIN s : s[i].id = id /\ ~s[i].marker}
        went(d) == IF d.ok THEN "sent" ELSE "lost"
    IN  (UNION {{<<"handled", p, i, went(handled[p][i])>> : i \in of(handled[p])}
                \cup {<<"held", p, i, "queued">> : i \in of(Pipeline(p))}
                    : p \in Proc})
        \cup {<<"ended", Nobody, x.id, "lost">> :
                 x \in {y \in lost : y.id = id /\ ~y.marker}}
        \cup {<<"dead", Nobody, i, "rejected">> :
                 i \in {k \in DOMAIN dead : dead[k].id = id}}

\* The outcome of an entry; "several" is none that Delivery allows.
Outcome(id) ==
    LET copies == Copies(id)
    IN  IF copies = {}
        THEN IF id \in Delivered \ pel /\ NeedsNoResult(input[id])
             THEN "ignored" ELSE "open"
        ELSE IF Cardinality(copies) = 1
             THEN (CHOOSE c \in copies : TRUE)[4] ELSE "several"

AtMostOnce == INSTANCE Delivery WITH
    Id <- 1..MaxEntries,
    outcome <- [id \in 1..MaxEntries |-> Outcome(id)],
    settled <- Delivered \ pel

(* The Redis mode implements at-most-once delivery: whatever crashes,       *)
(* signals, timeouts, lost replies and failing calls do, a request has one  *)
(* outcome, reached through the queue, and is acknowledged only after it.   *)
ImplementsDelivery == AtMostOnce!DeliverySpec

(* No entry is dispatched by two processes of the group.                    *)
NoSharedDispatch ==
    \A p, q \in Proc : \A i \in DOMAIN handled[p], j \in DOMAIN handled[q] :
        handled[p][i].id = handled[q][j].id => p = q

\* API requests of a batch.
Batch(rk) == {id \in 1..Len(input) : /\ input[id].RoutingKey = rk
                                     /\ input[id].StreamTech = "API"}

(* A complete batch never goes back to "processing": while no more than     *)
(* total_messages requests were sent for a routing key, the status BUFFERED *)
(* can only be set again or expire.                                         *)
StatusNeverRegresses ==
    [][\A rk \in RoutingKey :
        (status[rk] = BUFFERED /\ Cardinality(Batch(rk)) <= TotalMessages[rk])
            => status'[rk] # PROCESSING]_vars

(* A dead letter can be replayed: the payload deadLetter stores, which      *)
(* ProcessMessage has mutated, leads to the same message and the same set   *)
(* of selected widgets as the request that was read.                        *)
DeadLetterReplays ==
    \A i \in DOMAIN dead :
        LET sent == input[dead[i].id]  kept == dead[i].payload
            widgets(r) == {Enriched(r).SelectedWidgets[k] :
                               k \in DOMAIN Enriched(r).SelectedWidgets}
        IN  /\ OutgoingMessage(Enriched(kept)) = OutgoingMessage(Enriched(sent))
            /\ widgets(kept) = widgets(sent)

\* Sent while the group exists, and not delivered to any process yet.
Waiting(id) == group /\ id \in (Len(reads) + 1)..Len(input)

\* A process of the group was given the entry, and neither goroutine of any
\* process holds any of it.
ReadAndLetGo(id) ==
    /\ id \in Delivered
    /\ \A p \in Proc : /\ cur[p] # id
                       /\ \A it \in Undispatched(p) : it.id # id

\* No process could create the group: all are up, and none reads.
NoConsumer == \A p \in Proc : mode[p] = "up" /\ pc[p] = "exited"

(* While the workers run and calls other than XGROUP CREATE succeed, every  *)
(* entry sent once the group exists is eventually read by a process and let *)
(* go by both goroutines: no start of another process moves the group past  *)
(* it, and a full sender queue and timeouts never block the consumer and the *)
(* worker on each other.  Such an entry waits for ever only when every      *)
(* process lost its XGROUP CREATE and stays up without reading.  (Entries   *)
(* older than the group are never read: it starts at "$", consumer.go:71.)  *)
EntriesAreProcessed ==
    WorkersRun => \A id \in 1..MaxEntries :
                      Waiting(id) ~> ReadAndLetGo(id) \/ NoConsumer

(* Without failing calls every entry the group delivers is eventually       *)
(* acknowledged, even if the worker never comes back for the next item: the *)
(* run context ends every wait for the sender queue.                        *)
DeliveredIsAcked ==
    \A id \in 1..MaxEntries : id \in Delivered ~> id \notin pel

(* While the workers run and their calls succeed, a batch whose markers     *)
(* were all queued is announced: the last of them, whichever process counts *)
(* it, sets the status BUFFERED.                                            *)
BatchIsAnnounced ==
    WorkersRun => \A rk \in RoutingKey :
        Cardinality({id \in Batch(rk) : HasMarker(id)}) >= TotalMessages[rk]
            ~> status[rk] = BUFFERED

(* An acknowledged API request whose result was queued has its completion   *)
(* marker queued too, "so frontend knows all widgets are done"              *)
(* (consumer.go:194).                                                       *)
AckedApiRequestIsMarked ==
    \A id \in Delivered \ pel :
        Buffered(input[id]) /\ HasItem(id) => HasMarker(id)

(* The marker is dropped for one reason only: with failing calls, expiring  *)
(* keys and killed processes, but no signal and no timeout that ends the    *)
(* run context, the promise above is kept, however full the sender queue    *)
(* (consumer.go:196-203).                                                   *)
UndisturbedIsMarked ==
    Faults \cap {"timeout", "signal"} = {} => AckedApiRequestIsMarked
=============================================================================
