--------------------------- MODULE KafkaConsumer ----------------------------
(***************************************************************************)
(* The Kafka mode of cmd/consumer: processes of one consumer group fetch   *)
(* from staci.dispatcher.requests, run ProcessMessage on each message and  *)
(* commit its offset, after a copy to the DLQ topic when the processing    *)
(* failed.  The topic has one partition, read from its first message.      *)
(*                                                                         *)
(* The group coordinator and the reader of kafka-go are external: an       *)
(* assignment makes a reader begin after the committed offset, a reader    *)
(* that lost the partition may go on with what it has prefetched, and      *)
(* offsets are committed as they come, lower ones too.                     *)
(***************************************************************************)
EXTENDS Process

CONSTANTS Nobody,          \* no process
          MaxGenerations   \* bound: assignments before the faults end

ASSUME KafkaAssumption ==
    /\ Nobody \notin Proc
    /\ CalcExportProducer
    /\ MaxGenerations \in Nat

VARIABLES
    generation,  \* number of assignments of the partition
    owner,       \* the process it was assigned to last, or Nobody
    position,    \* messages a process has fetched or skipped; -1: not assigned
    committed,   \* the committed offset: messages 1..committed are done
    exports,     \* history: messages exported to staci.calc.data_fetcher
    dlq          \* history: what was offered to the DLQ

assignment == <<generation, owner, position>>
topicVars  == <<assignment, committed, exports, dlq>>
vars == <<processVars, backendVars, topicVars>>

Rejection == [id : Nat, reason : Reason, ok : BOOLEAN]

TypeOK ==
    /\ ProcessTypeOK
    /\ BackendTypeOK
    /\ generation \in Nat
    /\ owner \in Proc \cup {Nobody}
    /\ position \in [Proc -> Nat \cup {-1}]
    /\ committed \in Nat
    /\ exports \in SUBSET Nat
    /\ dlq \in SUBSET Rejection

Init ==
    /\ ProcessInit
    /\ BackendInit
    /\ generation = 0
    /\ owner = Nobody
    /\ position = [p \in Proc |-> -1]
    /\ committed = 0
    /\ exports = {}
    /\ dlq = {}

-----------------------------------------------------------------------------
(* The consumer group (external).                                          *)

\* Bound: faults happen while the partition has a reader, and end some day.
FaultsGoOn == owner # Nobody /\ generation < MaxGenerations

Assign(p) ==
    /\ mode[p] = "up"
    /\ owner' = p
    /\ position' = [position EXCEPT ![p] = committed]
    /\ generation' = generation + 1
    /\ UNCHANGED <<processVars, backendVars, committed, exports, dlq>>

\* The partition has no reader.
Join(p) == owner = Nobody /\ Assign(p)

\* The group is rebalanced: p may be the old reader or another one.
Rebalance(p) ==
    /\ "rebalance" \in Faults /\ FaultsGoOn
    /\ Assign(p)

\* A reader notices that it lost the partition.
Revoke(p) ==
    /\ owner # p /\ position[p] # -1
    /\ position' = [position EXCEPT ![p] = -1]
    /\ UNCHANGED <<processVars, backendVars, generation, owner, committed,
                   exports, dlq>>

-----------------------------------------------------------------------------
(* Client.RunConsumer.                                                     *)

\* Mutant: ReadMessage, which commits the offset by itself.
OnFetch_Commits(id) == committed' = id

\* FetchMessage leaves the committed offset alone.
OnFetch(id) == UNCHANGED committed

\* reader.FetchMessage and json.Unmarshal.
FetchMessage(p) ==
    LET id == position[p] + 1
    IN  /\ pc[p] = "read" /\ mode[p] = "up"
        /\ position[p] # -1 /\ position[p] < Len(input)
        /\ position' = [position EXCEPT ![p] = id]
        /\ cur' = [cur EXCEPT ![p] = id]
        /\ incoming' = [incoming EXCEPT ![p] = input[id]]
        /\ pc' = [pc EXCEPT ![p] =
                    IF Unreadable(input[id]) THEN "ack" ELSE "process"]
        /\ OnFetch(id)
        /\ UNCHANGED <<input, mode, reason, queue, workerVars, lost,
                       backendVars, generation, owner, exports, dlq>>

\* FetchMessage blocks, or fails and the loop goes round.
FetchNothing(p) ==
    /\ pc[p] = "read" /\ mode[p] = "up"
    /\ UNCHANGED vars

\* The export path of ProcessMessage.  A write may take effect and report an
\* error; the error dead-letters the request.
SendDataFetcher(p) ==
    /\ pc[p] = "export"
    /\ \E written, ok \in BOOLEAN :
        /\ IF ok THEN CallSucceeds(p) /\ written ELSE CallFails(p)
        /\ exports' = IF written THEN exports \cup {cur[p]} ELSE exports
        /\ pc' = [pc EXCEPT ![p] = IF ok THEN "ack" ELSE "dead"]
        /\ reason' = IF ok THEN reason
                     ELSE [reason EXCEPT ![p] = "export_send_failed"]
    /\ UNCHANGED <<input, mode, cur, incoming, queue, workerVars, lost,
                   backendVars, assignment, committed, dlq>>

\* Mutant: the loop goes on without committing what it dead-lettered.
AfterDeadLetter_NoCommit(p) == Continue(p)

AfterDeadLetter(p) ==
    /\ pc' = [pc EXCEPT ![p] = "ack"]
    /\ UNCHANGED <<cur, incoming, reason>>

\* The write to the DLQ topic, whose error is ignored (ok is FALSE when it had
\* no effect); the commit follows.
DeadLetter(p) ==
    /\ pc[p] = "dead"
    /\ \E ok \in BOOLEAN :
        /\ ok \/ CallFails(p)
        /\ dlq' = dlq \cup {[id |-> cur[p], reason |-> reason[p], ok |-> ok]}
    /\ AfterDeadLetter(p)
    /\ UNCHANGED <<input, mode, queue, workerVars, lost, backendVars,
                   assignment, committed, exports>>

\* Mutant: a message whose offset could not be committed is fetched again.
OnCommitError_Refetches(p) ==
    /\ position' = [position EXCEPT ![p] = IF @ = -1 THEN -1 ELSE cur[p] - 1]
    /\ UNCHANGED committed

\* The error is logged and the loop goes on.
OnCommitError(p) == UNCHANGED <<position, committed>>

\* reader.CommitMessages.  A process that lost the partition may fail or commit
\* all the same.
CommitMessages(p) ==
    /\ pc[p] = "ack"
    /\ \/ committed' = cur[p] /\ UNCHANGED position
       \/ (CallFails(p) \/ owner # p) /\ OnCommitError(p)
    /\ Continue(p)
    /\ UNCHANGED <<input, mode, queue, workerVars, lost, backendVars,
                   generation, owner, exports, dlq>>

-----------------------------------------------------------------------------
(* The process's life.                                                     *)

Start(p) == Begin(p, "read") /\ UNCHANGED topicVars

Cancel(p) == FaultsGoOn /\ Signal(p) /\ UNCHANGED topicVars

\* The reader leaves the group with its process.
Leave(p) ==
    /\ mode[p] = "stopping" \/ FaultsGoOn
    /\ End(p)
    /\ owner' = IF owner = p THEN Nobody ELSE owner
    /\ position' = [position EXCEPT ![p] = -1]
    /\ UNCHANGED <<generation, committed, exports, dlq>>

Shared(p) ==
    /\ \/ ConsumerStep(p)
       \/ ConsumerReturn(p)
       \/ WorkerStep(p)
       \/ WorkerReturn(p)
    /\ UNCHANGED topicVars

Next ==
    \/ \E r \in Payloads : Produce(r) /\ UNCHANGED topicVars
    \/ \E rk \in RoutingKey : Expire(rk) /\ UNCHANGED topicVars
    \/ \E p \in Proc :
        \/ Start(p) \/ Cancel(p) \/ Leave(p)
        \/ Join(p) \/ Rebalance(p) \/ Revoke(p)
        \/ FetchMessage(p)
        \/ FetchNothing(p)
        \/ SendDataFetcher(p)
        \/ DeadLetter(p)
        \/ CommitMessages(p)
        \/ Shared(p)

Spec == Init /\ [][Next]_vars

-----------------------------------------------------------------------------
(* Fairness.  A started process is scheduled and its calls return; the     *)
(* group assigns a free partition to a live member; a process told to stop *)
(* ends (main returns), and the operator starts processes again.           *)

ConsumerProgress(p) ==
    \/ FetchMessage(p) \/ SendDataFetcher(p) \/ DeadLetter(p)
    \/ CommitMessages(p)
    \/ ConsumerStep(p) /\ UNCHANGED topicVars

WorkerProgress(p) == WorkerStep(p) /\ UNCHANGED topicVars

FairSpec ==
    /\ Spec
    /\ WF_vars(\E p \in Proc : Join(p))
    /\ \A p \in Proc : /\ WF_vars(Start(p))
                       /\ WF_vars(mode[p] = "stopping" /\ Leave(p))
                       /\ WF_vars(ConsumerProgress(p))
                       /\ WF_vars(WorkerProgress(p))

-----------------------------------------------------------------------------
(* Properties.                                                             *)

\* ProcessMessage hands the request to the export pipeline.
ForExport(r) == ~Unreadable(r) /\ ~Ignored(r) /\ IsExportRequest(r)

Rejected(id) == \E d \in dlq : d.id = id

Accounted(id) ==
    \/ NeedsNoResult(input[id]) /\ ~ForExport(input[id])
    \/ id \in exports \/ Rejected(id) \/ HasItem(id)

(* The committed offset never runs ahead of the processing: every message   *)
(* it covers needed no result, or was exported, or was offered to the DLQ,  *)
(* or its result reached the sender queue of some process, whatever         *)
(* rebalances, late commits and crashes happen in between.                  *)
CommittedIsAccounted ==
    \A id \in 1..committed : Accounted(id)

\* Results of message id that processes have dispatched.
Results(id) ==
    LET of(s) == {i \in DOMAIN s : s[i].id = id /\ ~s[i].marker}
    IN  UNION {{<<p, i>> : i \in of(handled[p])} : p \in Proc}

(* A result is produced again only because the partition was assigned anew: *)
(* a message has at most one result per assignment, however many commits    *)
(* fail.                                                                    *)
DuplicatesNeedReassignment ==
    \A id \in 1..Len(input) : Cardinality(Results(id)) <= generation

(* A batch is announced early only because the partition was assigned anew: *)
(* a request is counted at most once per assignment, so after g assignments *)
(* the count of a batch is at most g times the number of different requests *)
(* it stands for, whatever calls fail and keys expire.                      *)
EarlyOnlyByReassignment ==
    \A rk \in RoutingKey : status[rk] = BUFFERED =>
        generation * Cardinality(Counted(rk)) >= TotalMessages[rk]

(* The committed offset comes to cover every message: crashes, signals and  *)
(* timeouts delay it, and a message that cannot be processed does not hold  *)
(* up the partition.  (Without rebalances: after one, a late commit may set *)
(* the offset back and leave it there until the next commit.)               *)
EventuallyCommitted ==
    \A id \in 1..MaxEntries : id <= Len(input) ~> committed >= id
=============================================================================
