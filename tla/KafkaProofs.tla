---------------------------- MODULE KafkaProofs -----------------------------
(***************************************************************************)
(* Theorems about KafkaConsumer for any number of processes, any messages, *)
(* any queue capacity, any faults and any number of assignments: type      *)
(* correctness, what the committed offset covers, how often a message is   *)
(* processed, how early a batch may be announced, and that a completion is *)
(* counted after its result was handled.                                   *)
(***************************************************************************)
EXTENDS KafkaConsumer, ProcessProofs, FiniteSetTheorems

(* The inductive form of TypeOK.                                            *)
Typed == TypeOK /\ KeyedInput /\ KeyedIncoming

(* What Typed says of the processes.                                        *)
LEMMA TypedProcesses == Typed => ProcessTyped
  BY DEF Typed, TypeOK, ProcessTyped

(* A step of the processes keeps the types.                                 *)
LEMMA TypedShared ==
    ASSUME Typed, ProcessTyped', UNCHANGED <<committed, exports, dlq>>,
           generation' \in Nat, owner' \in Proc \cup {Nobody},
           position' \in [Proc -> Nat \cup {-1}]
    PROVE  Typed'
  BY DEF Typed, TypeOK, ProcessTyped

(* The initial state is well typed.                                         *)
LEMMA TypedInit == Init => Typed
  <1> SUFFICES ASSUME Init PROVE Typed
    OBVIOUS
  <1>1. ProcessTyped
    BY ProcessTypedInit DEF Init
  <1> QED
    BY <1>1 DEF Init, Typed, TypeOK, ProcessTyped

(* FetchMessage fetches a message of the topic.                             *)
LEMMA Fetched ==
    ASSUME Typed, NEW p \in Proc, FetchMessage(p)
    PROVE  /\ position[p] \in Nat /\ position[p] + 1 \in 1..Len(input)
           /\ Len(input) \in Nat
           /\ input[position[p] + 1] \in Request
           /\ input[position[p] + 1].RoutingKey \in RoutingKey
  <1>1. position[p] \in Nat /\ position[p] < Len(input) /\ Len(input) \in Nat
    BY LenProperties DEF FetchMessage, Typed, TypeOK, ProcessTypeOK
  <1>2. position[p] + 1 \in 1..Len(input) /\ DOMAIN input = 1..Len(input)
    BY <1>1, LenProperties DEF Typed, TypeOK, ProcessTypeOK
  <1>3. input[position[p] + 1] \in Request
    BY <1>2, ElementOfSeq DEF Typed, TypeOK, ProcessTypeOK
  <1>4. input[position[p] + 1].RoutingKey \in RoutingKey
    BY <1>2 DEF Typed, KeyedInput
  <1> QED
    BY <1>1, <1>2, <1>3, <1>4

(* Every step keeps the types, whichever process takes it.                  *)
LEMMA TypedNext == Typed /\ [Next]_vars => Typed'
  <1> SUFFICES ASSUME Typed, [Next]_vars
               PROVE  Typed'
    OBVIOUS
  <1>1. ProcessTyped
    BY TypedProcesses
  <1>2. /\ generation \in Nat /\ owner \in Proc \cup {Nobody}
        /\ position \in [Proc -> Nat \cup {-1}] /\ committed \in Nat
        /\ exports \in SUBSET Nat /\ dlq \in SUBSET Rejection
    BY DEF Typed, TypeOK
  <1>3. ASSUME ProcessTyped', UNCHANGED topicVars
        PROVE  Typed'
    BY <1>2, <1>3, TypedShared DEF topicVars, assignment
  <1>4. ASSUME NEW r \in Payloads, Produce(r), UNCHANGED topicVars
        PROVE  Typed'
    BY <1>1, <1>3, <1>4, TypedLife
  <1>14. ASSUME NEW rk \in RoutingKey, Expire(rk), UNCHANGED topicVars
         PROVE  Typed'
    BY <1>1, <1>3, <1>14, TypedLife
  <1>5. ASSUME NEW p \in Proc, Start(p) \/ Cancel(p)
        PROVE  Typed'
    BY <1>1, <1>3, <1>5, TypedLife DEF Start, Cancel
  <1>6. ASSUME NEW p \in Proc, Leave(p)
        PROVE  Typed'
    <2>1. ProcessTyped'
      BY <1>1, <1>6, TypedLife DEF Leave
    <2>2. owner' \in Proc \cup {Nobody} /\ position' \in [Proc -> Nat \cup {-1}]
      BY <1>2, <1>6 DEF Leave
    <2> QED
      BY <1>2, <1>6, <2>1, <2>2, TypedShared DEF Leave
  <1>7. ASSUME NEW p \in Proc, Assign(p) \/ Revoke(p)
        PROVE  Typed'
    <2>1. ProcessTyped'
      BY <1>1, <1>7, TypedLife DEF Assign, Revoke
    <2>2. /\ owner' \in Proc \cup {Nobody} /\ generation' \in Nat
          /\ position' \in [Proc -> Nat \cup {-1}]
      BY <1>2, <1>7 DEF Assign, Revoke
    <2> QED
      BY <1>7, <2>1, <2>2, TypedShared DEF Assign, Revoke
  <1>8. ASSUME NEW p \in Proc, Shared(p)
        PROVE  Typed'
    <2>1. ProcessTyped'
      BY <1>1, <1>8, TypedLife, TypedConsumer, TypedWorker DEF Shared
    <2> QED
      BY <1>3, <1>8, <2>1 DEF Shared
  <1>9. CASE UNCHANGED vars
    BY <1>1, <1>3, <1>9, TypedLife DEF vars
  <1> USE DEF Typed, TypeOK, KeyedInput, KeyedIncoming
  <1>10. ASSUME NEW p \in Proc, FetchMessage(p)
         PROVE  Typed'
    <2> DEFINE id == position[p] + 1
    <2>1. /\ id \in Nat /\ input[id] \in Request
          /\ input[id].RoutingKey \in RoutingKey
      BY <1>10, Fetched
    <2>2. /\ position' = [position EXCEPT ![p] = id]
          /\ cur' = [cur EXCEPT ![p] = id]
          /\ incoming' = [incoming EXCEPT ![p] = input[id]]
          /\ \/ pc' = [pc EXCEPT ![p] = "ack"]
             \/ pc' = [pc EXCEPT ![p] = "process"]
      BY <1>10 DEF FetchMessage
    <2> HIDE DEF id
    <2>3. /\ position' \in [Proc -> Nat \cup {-1}]
          /\ cur' \in [Proc -> Nat] /\ incoming' \in [Proc -> Request]
          /\ pc' \in [Proc -> {"down", "setup", "read", "process", "export",
                               "status", "run", "marker", "dead", "ack", "exited"}]
      BY <2>1, <2>2 DEF ProcessTypeOK
    <2>4. KeyedIncoming'
      BY <2>1, <2>2 DEF ProcessTypeOK
    <2> QED
      BY <1>10, <2>3, <2>4
      DEF FetchMessage, OnFetch, ProcessTypeOK, BackendTypeOK, workerVars,
          backendVars
  <1>11. ASSUME NEW p \in Proc, SendDataFetcher(p)
         PROVE  Typed'
    <2>1. /\ exports' \in SUBSET Nat
          /\ reason' \in [Proc -> Reason]
          /\ pc' \in [Proc -> {"down", "setup", "read", "process", "export",
                               "status", "run", "marker", "dead", "ack", "exited"}]
          /\ KeyedIncoming'
      <3>1. /\ exports' = exports \/ exports' = exports \cup {cur[p]}
            /\ \/ reason' = reason
               \/ reason' = [reason EXCEPT ![p] = "export_send_failed"]
            /\ \/ pc' = [pc EXCEPT ![p] = "ack"]
               \/ pc' = [pc EXCEPT ![p] = "dead"]
            /\ incoming' = incoming
        BY <1>11 DEF SendDataFetcher
      <3>2. exports' \in SUBSET Nat
        <4>1. cur[p] \in Nat
          BY DEF ProcessTypeOK
        <4> HIDE DEF Typed, TypeOK, KeyedInput, KeyedIncoming
        <4> QED
          BY <1>2, <3>1, <4>1
      <3>3. reason' \in [Proc -> Reason]
        BY <3>1 DEF ProcessTypeOK, Reason
      <3>4. /\ pc' \in [Proc -> {"down", "setup", "read", "process", "export",
                               "status", "run", "marker", "dead", "ack", "exited"}]
            /\ KeyedIncoming'
        BY <3>1 DEF ProcessTypeOK
      <3> QED
        BY <3>2, <3>3, <3>4
    <2> QED
      BY <1>11, <2>1
      DEF SendDataFetcher, ProcessTypeOK, BackendTypeOK, workerVars,
          backendVars, assignment
  <1>12. ASSUME NEW p \in Proc, DeadLetter(p)
         PROVE  Typed'
    <2>1. \A ok \in BOOLEAN :
              [id |-> cur[p], reason |-> reason[p], ok |-> ok] \in Rejection
      BY DEF ProcessTypeOK, Rejection
    <2>2. dlq' \in SUBSET Rejection
      BY <1>12, <2>1 DEF DeadLetter
    <2> QED
      BY <1>12, <2>2
      DEF DeadLetter, AfterDeadLetter, ProcessTypeOK, BackendTypeOK,
          workerVars, backendVars, assignment
  <1>13. ASSUME NEW p \in Proc, CommitMessages(p)
         PROVE  Typed'
    <2>1. committed' \in Nat /\ position' = position
      BY <1>13 DEF CommitMessages, OnCommitError, ProcessTypeOK
    <2> QED
      BY <1>13, <2>1, ZeroType
      DEF CommitMessages, Continue, ProcessTypeOK, BackendTypeOK, workerVars,
          backendVars, Reason
  <1> HIDE DEF Typed, TypeOK, KeyedInput, KeyedIncoming
  <1> QED
    BY <1>4, <1>5, <1>6, <1>7, <1>8, <1>9, <1>10, <1>11, <1>12, <1>13,
       <1>14
    DEF Next, Join, Rebalance, FetchNothing

(* Every variable keeps its type in every reachable state, for any          *)
(* processes, messages, capacity, faults and assignments.                   *)
THEOREM TypeOKHolds == Spec => []TypeOK
  <1>1. Typed => TypeOK
    BY DEF Typed
  <1> QED
    BY TypedInit, TypedNext, <1>1, PTL DEF Spec

-----------------------------------------------------------------------------
(* What the committed offset covers.  A process that has fetched a message  *)
(* has accounted for every message before it, whichever process did so.     *)

Busy == {"process", "export", "status", "run", "marker", "dead", "ack"}

OffsetOf(p) ==
    /\ mode[p] = "down" => pc[p] \notin Busy
    /\ position[p] <= Len(input)
    /\ \A id \in 1..position[p] :
           Accounted(id) \/ (pc[p] \in Busy /\ id = cur[p])
    /\ pc[p] \in Busy => /\ cur[p] \in 1..Len(input)
                         /\ \A id \in 1..(cur[p] - 1) : Accounted(id)
    /\ pc[p] = "process" => incoming[p] = input[cur[p]]
    /\ pc[p] = "marker" => HasItem(cur[p])
    /\ pc[p] = "ack" => Accounted(cur[p])

OffsetInv ==
    /\ Typed
    /\ committed <= Len(input)
    /\ CommittedIsAccounted
    /\ \A p \in Proc : OffsetOf(p)

\* What no step takes back.
Grows ==
    /\ Len(input) <= Len(input')
    /\ \A i \in 1..Len(input) : input'[i] = input[i]
    /\ exports \subseteq exports' /\ dlq \subseteq dlq'
    /\ \A id : HasItem(id) => HasItem(id)'

(* Offsets are numbers.                                                     *)
LEMMA OffsetTypes ==
    ASSUME Typed, NEW p \in Proc
    PROVE  /\ Len(input) \in Nat /\ committed \in Nat /\ cur[p] \in Nat
           /\ position[p] \in Nat \cup {-1} /\ position[p] \in Int
  <1>1. /\ Len(input) \in Nat /\ committed \in Nat /\ cur[p] \in Nat
        /\ position[p] \in Nat \cup {-1}
    BY LenProperties DEF Typed, TypeOK, ProcessTypeOK
  <1> QED
    BY <1>1

(* A message that is accounted for stays so.                                *)
LEMMA AccountedGrows ==
    ASSUME Grows, NEW id \in 1..Len(input), Accounted(id)
    PROVE  Accounted(id)'
  BY DEF Grows, Accounted, Rejected

(* A process that does not act.                                             *)
LEMMA OffsetKept ==
    ASSUME OffsetInv, Typed', Grows, NEW p \in Proc,
           mode'[p] = "down" => mode[p] = "down",
           pc'[p] = pc[p], cur'[p] = cur[p], incoming'[p] = incoming[p],
           position'[p] = position[p]
    PROVE  OffsetOf(p)'
  <1>1. OffsetOf(p) /\ Typed
    BY DEF OffsetInv
  <1>2. /\ Len(input) \in Nat /\ Len(input') \in Nat /\ cur[p] \in Nat
        /\ position[p] \in Int /\ Len(input) <= Len(input')
    BY <1>1, OffsetTypes, LenProperties
    DEF Grows, Typed, TypeOK, ProcessTypeOK
  <1>3. \A id \in 1..Len(input) : Accounted(id) => Accounted(id)'
    BY AccountedGrows
  <1>4. \A id \in 1..position[p] :
            Accounted(id)' \/ (pc'[p] \in Busy /\ id = cur'[p])
    BY <1>1, <1>2, <1>3 DEF OffsetOf
  <1>5. ASSUME pc[p] \in Busy
        PROVE  /\ cur[p] \in 1..Len(input') /\ input'[cur[p]] = input[cur[p]]
               /\ \A id \in 1..(cur[p] - 1) : Accounted(id)'
    BY <1>1, <1>2, <1>3, <1>5 DEF OffsetOf, Grows
  <1>6. pc[p] = "process" => incoming'[p] = input'[cur[p]]
    BY <1>1, <1>5 DEF OffsetOf, Busy
  <1>7. HasItem(cur[p]) => HasItem(cur[p])'
    <2>1. PICK id : id = cur[p]
      OBVIOUS
    <2>2. HasItem(id) => HasItem(id)'
      BY DEF Grows
    <2> QED
      BY <2>1, <2>2 DEF HasItem
  <1>8. pc[p] = "ack" => Accounted(cur[p])'
    <2> SUFFICES ASSUME pc[p] = "ack" PROVE Accounted(cur[p])'
      OBVIOUS
    <2>1. PICK id \in 1..Len(input) : id = cur[p] /\ Accounted(id)
      BY <1>1 DEF OffsetOf, Busy
    <2>2. Accounted(id)'
      BY <2>1, <1>3
    <2> QED
      BY <2>1, <2>2 DEF Accounted, Rejected, HasItem
  <1> QED
    BY <1>1, <1>2, <1>4, <1>5, <1>6, <1>7, <1>8 DEF OffsetOf

(* A process that moves on with the message c it has.                       *)
LEMMA OffsetBusy ==
    ASSUME OffsetInv, Typed', Grows, NEW p \in Proc, NEW c,
           c = cur[p], c = cur'[p], mode'[p] = mode[p],
           position'[p] = position[p],
           pc[p] \in Busy, pc'[p] \in Busy \ {"process"},
           pc'[p] = "marker" => HasItem(c)',
           pc'[p] = "ack" => Accounted(c)'
    PROVE  OffsetOf(p)'
  <1>1. OffsetOf(p) /\ Typed
    BY DEF OffsetInv
  <1>2. /\ Len(input) \in Nat /\ Len(input') \in Nat /\ c \in Nat
        /\ position[p] \in Int /\ Len(input) <= Len(input')
    BY <1>1, OffsetTypes, LenProperties
    DEF Grows, Typed, TypeOK, ProcessTypeOK
  <1>3. \A id \in 1..Len(input) : Accounted(id) => Accounted(id)'
    BY AccountedGrows
  <1>4. \A id \in 1..position[p] :
            Accounted(id)' \/ (pc'[p] \in Busy /\ id = cur'[p])
    BY <1>1, <1>2, <1>3 DEF OffsetOf
  <1>5. c \in 1..Len(input') /\ \A id \in 1..(c - 1) : Accounted(id)'
    BY <1>1, <1>2, <1>3 DEF OffsetOf
  <1>6. /\ pc'[p] = "marker" => HasItem(cur[p])'
        /\ pc'[p] = "ack" => Accounted(cur[p])'
    BY DEF Accounted, Rejected, HasItem
  <1>7. mode'[p] # "down"
    BY <1>1 DEF OffsetOf
  <1> QED
    BY <1>1, <1>2, <1>4, <1>5, <1>6, <1>7 DEF OffsetOf

(* A process that has no message after the step: what it has fetched is     *)
(* accounted for.                                                           *)
LEMMA OffsetIdle ==
    ASSUME Typed', NEW p \in Proc, pc'[p] \notin Busy,
           position'[p] <= Len(input'),
           \A id \in 1..position'[p] : Accounted(id)'
    PROVE  OffsetOf(p)'
  BY DEF OffsetOf, Busy

(* The acting process p, and the others.                                    *)
LEMMA OffsetStep ==
    ASSUME OffsetInv, Typed', Grows, NEW p \in Proc, OffsetOf(p)',
           \A q \in Proc \ {p} :
               /\ mode'[q] = mode[q] /\ pc'[q] = pc[q] /\ cur'[q] = cur[q]
               /\ incoming'[q] = incoming[q] /\ position'[q] = position[q],
           committed' = committed \/ (pc[p] = "ack" /\ committed' = cur[p])
    PROVE  OffsetInv'
  <1>1. Typed /\ OffsetOf(p)
    BY DEF OffsetInv
  <1>2. \A q \in Proc : OffsetOf(q)'
    BY OffsetKept
  <1>3. /\ Len(input) \in Nat /\ Len(input') \in Nat
        /\ committed \in Nat /\ cur[p] \in Nat /\ Len(input) <= Len(input')
    BY <1>1, OffsetTypes, LenProperties
    DEF Grows, Typed, TypeOK, ProcessTypeOK
  <1>4. \A id \in 1..Len(input) : Accounted(id) => Accounted(id)'
    BY AccountedGrows
  <1>5. CASE committed' = committed
    BY <1>2, <1>3, <1>4, <1>5 DEF OffsetInv, CommittedIsAccounted
  <1>6. CASE pc[p] = "ack" /\ committed' = cur[p]
    <2>1. /\ cur[p] \in 1..Len(input)
          /\ \A id \in 1..(cur[p] - 1) : Accounted(id)
          /\ Accounted(cur[p])
      BY <1>1, <1>6 DEF OffsetOf, Busy
    <2>2. \A id \in 1..cur[p] : Accounted(id)
      <3> SUFFICES ASSUME NEW id \in 1..cur[p] PROVE Accounted(id)
        OBVIOUS
      <3>1. id = cur[p] \/ id \in 1..(cur[p] - 1)
        BY <1>3
      <3> QED
        BY <2>1, <3>1
    <2> QED
      BY <1>2, <1>3, <1>4, <1>6, <2>1, <2>2 DEF OffsetInv, CommittedIsAccounted
  <1> QED
    BY <1>5, <1>6

(* Nothing is committed or fetched in the beginning.                        *)
LEMMA OffsetInit == Init => OffsetInv
  <1> SUFFICES ASSUME Init PROVE OffsetInv
    OBVIOUS
  <1>1. Typed
    BY TypedInit
  <1>2. Len(input) = 0 /\ committed = 0
    BY NoElements DEF Init, ProcessInit
  <1>3. \A p \in Proc : position[p] = -1 /\ pc[p] = "down"
    BY DEF Init, ProcessInit
  <1> QED
    BY <1>1, <1>2, <1>3 DEF OffsetInv, OffsetOf, Busy, CommittedIsAccounted

(* The steps of ProcessMessage.                                             *)
LEMMA OffsetConsumer ==
    ASSUME OffsetInv, Typed', NEW p \in Proc, ConsumerStep(p),
           UNCHANGED topicVars
    PROVE  OffsetInv'
  <1>1. Typed /\ ProcessTyped /\ OffsetOf(p)
    BY TypedProcesses DEF OffsetInv
  <1>2. PICK c : c = cur[p]
    OBVIOUS
  <1>3. /\ UNCHANGED <<input, mode, cur, wpc, hand, handled, lost, position,
                       committed, exports, dlq>>
        /\ pc[p] \in Busy
        /\ \A q \in Proc \ {p} : pc'[q] = pc[q] /\ incoming'[q] = incoming[q]
    <2>1. pc \in [Proc -> {"down", "setup", "read", "process", "export", "status",
                           "run", "marker", "dead", "ack", "exited"}]
          /\ incoming \in [Proc -> Request]
      BY <1>1 DEF ProcessTyped, ProcessTypeOK
    <2>2. CASE Triage(p)
      <3>1. /\ UNCHANGED <<input, mode, cur, wpc, hand, handled, lost, position,
                           committed, exports, dlq>>
            /\ pc[p] \in Busy
        BY <2>2 DEF Triage, workerVars, topicVars, assignment, Busy
      <3>2. \A q \in Proc \ {p} : pc'[q] = pc[q] /\ incoming'[q] = incoming[q]
        BY <1>1, <2>1, <2>2, TriageOutcome DEF ProcessTyped
      <3> QED
        BY <3>1, <3>2
    <2>3. CASE UpdateEventStatus(p) \/ RunController(p) \/ SendMarker(p)
      BY <2>1, <2>3 DEF UpdateEventStatus, RunController, ControllerFailed,
                        SendMarker, workerVars, topicVars, assignment, Busy
    <2> QED
      BY <2>2, <2>3 DEF ConsumerStep
  <1>4. ASSUME Grows, pc'[p] \in Busy \ {"process"},
               pc'[p] = "marker" => HasItem(c)',
               pc'[p] = "ack" => Accounted(c)'
        PROVE  OffsetInv'
    <2>1. OffsetOf(p)'
      BY <1>2, <1>3, <1>4, OffsetBusy
    <2> QED
      BY <1>3, <1>4, <2>1, OffsetStep
  <1>5. ASSUME queue' = queue PROVE Grows
    <2>1. \A id, m : Queued(id, m)' <=> Queued(id, m)
      BY <1>3, <1>5, QueuedUnchanged
    <2>2. Len(input) \in Nat
      BY <1>1, OffsetTypes
    <2>3. \A id : HasItem(id) => HasItem(id)'
      BY <2>1 DEF HasItem
    <2> QED
      BY <1>3, <2>2, <2>3 DEF Grows
  <1>6. ASSUME NEW it \in Item, queue' = [queue EXCEPT ![p] = Append(@, it)]
        PROVE  Grows /\ (it.id = c /\ ~it.marker => HasItem(c)')
    <2>1. \A id, m : Queued(id, m)' <=>
                         Queued(id, m) \/ (it.id = id /\ it.marker = m)
      BY <1>1, <1>3, <1>6, PushAdds
    <2>2. Len(input) \in Nat
      BY <1>1, OffsetTypes
    <2>3. it.marker \in BOOLEAN
      BY DEF Item
    <2>4. \A id : HasItem(id) => HasItem(id)'
      BY <2>1 DEF HasItem
    <2>5. it.id = c /\ ~it.marker => HasItem(c)'
      BY <2>1, <2>3 DEF HasItem
    <2> QED
      BY <1>3, <2>2, <2>4, <2>5 DEF Grows
  <1>7. HasItem(c)' => Accounted(c)'
    BY DEF Accounted
  <1>8. CASE Triage(p)
    <2>1. PICK k \in {"ack", "export", "dead", "status", "run"} :
              /\ pc' = [pc EXCEPT ![p] = k]
              /\ k = "ack" => \/ Ignored(incoming[p])
                              \/ /\ Skipped(incoming[p])
                                 /\ ~IsExportRequest(incoming[p])
      BY <1>1, <1>8, TriageOutcome DEF ProcessTyped
    <2>2. pc'[p] = k
      BY <1>1, <2>1 DEF ProcessTyped, ProcessTypeOK
    <2>3. incoming[p] = input[c]
      BY <1>1, <1>2, <1>8 DEF Triage, OffsetOf
    <2>4. k = "ack" => NeedsNoResult(input'[c]) /\ ~ForExport(input'[c])
      BY <1>3, <2>1, <2>3 DEF NeedsNoResult, ForExport
    <2>5. k = "ack" => Accounted(c)'
      BY <2>4 DEF Accounted
    <2>6. queue' = queue
      BY <1>8 DEF Triage
    <2> QED
      BY <1>4, <1>5, <2>2, <2>5, <2>6 DEF Busy
  <1>9. CASE UpdateEventStatus(p)
    <2>1. queue' = queue /\ pc'[p] = "run"
      BY <1>1, <1>9 DEF UpdateEventStatus, ProcessTyped, ProcessTypeOK
    <2> QED
      BY <1>4, <1>5, <2>1 DEF Busy
  <1>10. CASE RunController(p)
    <2>1. CASE queue' = [queue EXCEPT ![p] = Append(@, DataItem(p))]
      <3>1. DataItem(p) \in Item
        BY <1>1, <1>10, DataItemType DEF RunController
      <3>2. PICK it \in Item : it = DataItem(p)
        BY <3>1
      <3>3. it.id = c /\ ~it.marker
        BY <1>2, <3>2 DEF DataItem
      <3>4. Grows /\ HasItem(c)'
        BY <1>6, <2>1, <3>2, <3>3
      <3>5. pc'[p] \in {"marker", "ack", "dead"}
        BY <1>1, <1>10
        DEF RunController, ControllerFailed, ProcessTyped, ProcessTypeOK
      <3> QED
        BY <1>4, <1>7, <3>4, <3>5 DEF Busy
    <2>2. CASE queue' = queue /\ ControllerFailed(p)
      <3>1. pc'[p] = "dead"
        BY <1>1, <2>2 DEF ControllerFailed, ProcessTyped, ProcessTypeOK
      <3> QED
        BY <1>4, <1>5, <2>2, <3>1 DEF Busy
    <2> QED
      BY <1>10, <2>1, <2>2 DEF RunController
  <1>11. CASE SendMarker(p)
    <2>1. pc[p] = "marker" /\ pc'[p] = "ack"
      BY <1>1, <1>11 DEF SendMarker, ProcessTyped, ProcessTypeOK
    <2>2. HasItem(c)
      BY <1>1, <1>2, <2>1 DEF OffsetOf
    <2>3. Grows
      <3>1. MarkerItem(p) \in Item
        BY <1>1, <2>1, DataItemType
      <3>2. PICK it \in Item : it = MarkerItem(p)
        BY <3>1
      <3> QED
        BY <1>5, <1>6, <1>11, <3>2 DEF SendMarker
    <2>4. HasItem(c)'
      BY <2>2, <2>3 DEF Grows
    <2> QED
      BY <1>4, <1>7, <2>1, <2>3, <2>4 DEF Busy
  <1> QED
    BY <1>8, <1>9, <1>10, <1>11 DEF ConsumerStep

(* The steps of RunConsumer.                                                *)
LEMMA OffsetClient ==
    ASSUME OffsetInv, Typed', NEW p \in Proc,
           \/ FetchMessage(p) \/ SendDataFetcher(p) \/ DeadLetter(p)
           \/ CommitMessages(p)
    PROVE  OffsetInv'
  <1>1. Typed /\ OffsetOf(p)
    BY DEF OffsetInv
  <1>2. /\ pc \in [Proc -> {"down", "setup", "read", "process", "export", "status",
                            "run", "marker", "dead", "ack", "exited"}]
        /\ cur \in [Proc -> Nat] /\ incoming \in [Proc -> Request]
        /\ position \in [Proc -> Nat \cup {-1}] /\ Len(input) \in Nat
    BY <1>1, OffsetTypes DEF Typed, TypeOK, ProcessTypeOK
  <1>3. /\ UNCHANGED <<input, mode, queue, wpc, hand, handled, lost>>
        /\ exports \subseteq exports' /\ dlq \subseteq dlq'
    BY DEF FetchMessage, SendDataFetcher, DeadLetter, CommitMessages, workerVars
  <1>4. Grows
    <2>1. \A id, m : Queued(id, m)' <=> Queued(id, m)
      BY <1>3, QueuedUnchanged
    <2>2. \A id : HasItem(id) => HasItem(id)'
      BY <2>1 DEF HasItem
    <2> QED
      BY <1>2, <1>3, <2>2 DEF Grows
  <1>5. \A id \in 1..Len(input) : Accounted(id) => Accounted(id)'
    BY <1>4, AccountedGrows
  <1>6. PICK c : c = cur[p]
    OBVIOUS
  <1>7. CASE FetchMessage(p)
    <2> DEFINE id == position[p] + 1
    <2>1. position[p] \in Nat /\ id \in 1..Len(input)
      BY <1>1, <1>7, Fetched
    <2>2. /\ pc[p] = "read" /\ mode[p] = "up"
          /\ position'[p] = id /\ cur'[p] = id
          /\ incoming'[p] = input[id] /\ committed' = committed
          /\ pc'[p] = IF Unreadable(input[id]) THEN "ack" ELSE "process"
          /\ \A q \in Proc \ {p} :
                 /\ pc'[q] = pc[q] /\ cur'[q] = cur[q]
                 /\ incoming'[q] = incoming[q] /\ position'[q] = position[q]
      BY <1>2, <1>7 DEF FetchMessage, OnFetch
    <2>3. \A i \in 1..position[p] : Accounted(i)'
      BY <1>1, <1>2, <1>5, <2>1, <2>2 DEF OffsetOf, Busy
    <2>4. PICK k : k = id
      OBVIOUS
    <2>5. pc'[p] = "ack" => Accounted(k)'
      <3>1. pc'[p] = "ack" => NeedsNoResult(input[k]) /\ ~ForExport(input[k])
        BY <2>2, <2>4 DEF NeedsNoResult, ForExport
      <3> QED
        BY <1>3, <3>1 DEF Accounted
    <2>6. pc'[p] = "ack" => Accounted(cur[p])'
      BY <2>2, <2>4, <2>5 DEF Accounted, Rejected, HasItem
    <2>7. pc'[p] \in {"process", "ack"}
      BY <2>2
    <2>8. \A i \in 1..id : i \in 1..position[p] \/ i = id
      BY <1>2, <2>1
    <2>9. mode'[p] # "down" /\ id - 1 = position[p] /\ Len(input') = Len(input)
      BY <1>3, <2>1, <2>2
    <2> HIDE DEF id
    <2>10. OffsetOf(p)'
      BY <1>2, <1>3, <2>1, <2>2, <2>3, <2>6, <2>7, <2>8, <2>9 DEF OffsetOf, Busy
    <2> QED
      BY <1>3, <1>4, <2>2, <2>10, OffsetStep
  <1>8. CASE SendDataFetcher(p)
    <2>1. /\ pc[p] = "export" /\ pc'[p] \in {"ack", "dead"}
          /\ pc'[p] = "ack" => c \in exports'
          /\ UNCHANGED <<cur, incoming, position, committed>>
          /\ \A q \in Proc \ {p} : pc'[q] = pc[q]
      BY <1>2, <1>6, <1>8 DEF SendDataFetcher, assignment
    <2>2. pc'[p] = "ack" => Accounted(c)'
      BY <2>1 DEF Accounted
    <2>3. OffsetOf(p)'
      BY <1>3, <1>4, <1>6, <2>1, <2>2, OffsetBusy DEF Busy
    <2> QED
      BY <1>3, <1>4, <2>1, <2>3, OffsetStep
  <1>9. CASE DeadLetter(p)
    <2>1. /\ pc[p] = "dead" /\ pc'[p] = "ack"
          /\ UNCHANGED <<cur, incoming, position, committed>>
          /\ \A q \in Proc \ {p} : pc'[q] = pc[q]
      BY <1>2, <1>9 DEF DeadLetter, AfterDeadLetter, assignment
    <2>2. Accounted(c)'
      <3>1. PICK ok \in BOOLEAN :
                dlq' = dlq \cup {[id |-> cur[p], reason |-> reason[p], ok |-> ok]}
        BY <1>9 DEF DeadLetter
      <3>2. \E d \in dlq' : d.id = c
        <4> DEFINE d == [id |-> cur[p], reason |-> reason[p], ok |-> ok]
        <4>1. d \in dlq' /\ d.id = c
          BY <1>6, <3>1
        <4> QED
          BY <4>1
      <3> QED
        BY <3>2 DEF Accounted, Rejected
    <2>3. OffsetOf(p)'
      BY <1>3, <1>4, <1>6, <2>1, <2>2, OffsetBusy DEF Busy
    <2> QED
      BY <1>3, <1>4, <2>1, <2>3, OffsetStep
  <1>10. CASE CommitMessages(p)
    <2>1. /\ pc[p] = "ack" /\ pc'[p] = "read" /\ position' = position
          /\ committed' = committed \/ committed' = cur[p]
          /\ \A q \in Proc \ {p} : /\ pc'[q] = pc[q] /\ cur'[q] = cur[q]
                                   /\ incoming'[q] = incoming[q]
      BY <1>2, <1>10 DEF CommitMessages, OnCommitError, Continue
    <2>2. Accounted(cur[p]) /\ position[p] <= Len(input) /\ position[p] \in Int
      BY <1>1, <2>1, OffsetTypes DEF OffsetOf
    <2>3. \A id \in 1..position[p] : Accounted(id)
      BY <1>1, <2>2 DEF OffsetOf
    <2>4. \A id \in 1..position[p] : Accounted(id)'
      BY <1>2, <1>5, <2>2, <2>3
    <2>5. OffsetOf(p)'
      BY <1>3, <2>1, <2>2, <2>4, OffsetIdle DEF Busy
    <2> QED
      BY <1>3, <1>4, <2>1, <2>5, OffsetStep
  <1> QED
    BY <1>7, <1>8, <1>9, <1>10

(* A commit covers messages that its reader has accounted for, and a new    *)
(* assignment starts at a committed offset.                                 *)
LEMMA OffsetNext == OffsetInv /\ [Next]_vars => OffsetInv'
  <1> SUFFICES ASSUME OffsetInv, [Next]_vars PROVE OffsetInv'
    OBVIOUS
  <1>1. Typed /\ Typed' /\ ProcessTyped
    BY TypedNext, TypedProcesses DEF OffsetInv
  <1>2. /\ pc \in [Proc -> {"down", "setup", "read", "process", "export", "status",
                            "run", "marker", "dead", "ack", "exited"}]
        /\ mode \in [Proc -> {"down", "up", "stopping"}]
        /\ cur \in [Proc -> Nat] /\ incoming \in [Proc -> Request]
        /\ position \in [Proc -> Nat \cup {-1}]
        /\ input \in Seq(Request) /\ Len(input) \in Nat /\ committed \in Nat
    BY <1>1, LenProperties DEF Typed, TypeOK, ProcessTypeOK
  <1>3. ASSUME UNCHANGED <<input, exports, dlq>>,
               \A id, m : Queued(id, m)' <=> Queued(id, m)
        PROVE  Grows
    <2>1. \A id : HasItem(id) => HasItem(id)'
      BY <1>3 DEF HasItem
    <2> QED
      BY <1>2, <1>3, <2>1 DEF Grows
  <1>4. ASSUME Grows, UNCHANGED <<pc, cur, incoming, position, committed>>,
               \A p \in Proc : mode'[p] = "down" => mode[p] = "down"
        PROVE  OffsetInv'
    <2>1. \A p \in Proc : OffsetOf(p)'
      BY <1>1, <1>4, OffsetKept
    <2>2. Len(input') \in Nat /\ Len(input) <= Len(input')
      BY <1>1, <1>4, LenProperties DEF Grows, Typed, TypeOK, ProcessTypeOK
    <2>3. \A id \in 1..Len(input) : Accounted(id) => Accounted(id)'
      BY <1>4, AccountedGrows
    <2> QED
      BY <1>1, <1>2, <1>4, <2>1, <2>2, <2>3 DEF OffsetInv, CommittedIsAccounted
  <1>5. ASSUME UNCHANGED <<processVars, topicVars>>
        PROVE  OffsetInv'
    <2>1. \A id, m : Queued(id, m)' <=> Queued(id, m)
      BY <1>5, QueuedUnchanged DEF processVars, workerVars
    <2> QED
      BY <1>3, <1>4, <1>5, <2>1
      DEF processVars, consumerVars, topicVars, assignment
  <1>6. ASSUME NEW r \in Payloads, Produce(r), UNCHANGED topicVars
        PROVE  OffsetInv'
    <2>1. r \in Request
      BY ProcessAssumption
    <2>2. /\ Len(input') = Len(input) + 1
          /\ \A i \in 1..Len(input) : input'[i] = input[i]
      BY <1>2, <1>6, <2>1, AppendProperties DEF Produce
    <2>3. \A id, m : Queued(id, m)' <=> Queued(id, m)
      BY <1>6, QueuedUnchanged DEF Produce, workerVars
    <2>4. \A id : HasItem(id) => HasItem(id)'
      BY <2>3 DEF HasItem
    <2>5. Grows
      BY <1>2, <1>6, <2>2, <2>4 DEF Grows, topicVars
    <2> QED
      BY <1>4, <1>6, <2>5 DEF Produce, consumerVars, topicVars, assignment
  <1>7. ASSUME NEW p \in Proc, Shared(p)
        PROVE  OffsetInv'
    <2>1. UNCHANGED topicVars
      BY <1>7 DEF Shared
    <2>2. CASE ConsumerStep(p)
      BY <1>1, <2>1, <2>2, OffsetConsumer
    <2>3. CASE WorkerStep(p) \/ WorkerReturn(p)
      <3>1. UNCHANGED <<input, mode, pc, cur, incoming>>
        BY <1>1, <2>3, WorkerMoves
      <3>2. \A id, m : Queued(id, m)' <=> Queued(id, m)
        BY <1>1, <2>3, WorkerKeeps
      <3> QED
        BY <1>3, <1>4, <2>1, <3>1, <3>2 DEF topicVars, assignment
    <2>4. CASE ConsumerReturn(p)
      <3>1. /\ pc[p] = "read" /\ pc'[p] = "exited"
            /\ UNCHANGED <<input, mode, cur, incoming, queue, wpc, hand, handled,
                           lost, position, committed, exports, dlq>>
            /\ \A q \in Proc \ {p} : pc'[q] = pc[q]
        BY <1>2, <2>1, <2>4 DEF ConsumerReturn, workerVars, topicVars, assignment
      <3>2. Grows
        BY <1>3, <3>1, QueuedUnchanged
      <3>3. OffsetOf(p) /\ position[p] \in Int
        BY <1>1, OffsetTypes DEF OffsetInv
      <3>4. \A id \in 1..position[p] : Accounted(id)'
        BY <1>2, <3>1, <3>2, <3>3, AccountedGrows DEF OffsetOf, Busy
      <3>5. OffsetOf(p)'
        BY <1>1, <3>1, <3>3, <3>4, OffsetIdle DEF OffsetOf, Busy
      <3> QED
        BY <1>1, <3>1, <3>2, <3>5, OffsetStep
    <2> QED
      BY <1>7, <2>2, <2>3, <2>4 DEF Shared
  <1>8. ASSUME NEW p \in Proc, Start(p)
        PROVE  OffsetInv'
    <2>1. /\ mode[p] = "down" /\ pc'[p] = "read"
          /\ UNCHANGED <<input, cur, incoming, queue, wpc, hand, handled,
                         lost, position, committed, exports, dlq>>
          /\ \A q \in Proc \ {p} : pc'[q] = pc[q] /\ mode'[q] = mode[q]
      BY <1>2, <1>8 DEF Start, Begin, workerVars, topicVars, assignment
    <2>2. Grows
      BY <1>3, <2>1, QueuedUnchanged
    <2>3. OffsetOf(p) /\ position[p] \in Int
      BY <1>1, OffsetTypes DEF OffsetInv
    <2>4. \A id \in 1..position[p] : Accounted(id)'
      BY <1>2, <2>1, <2>2, <2>3, AccountedGrows DEF OffsetOf
    <2>5. OffsetOf(p)'
      BY <1>1, <2>1, <2>3, <2>4, OffsetIdle DEF OffsetOf, Busy
    <2> QED
      BY <1>1, <2>1, <2>2, <2>5, OffsetStep
  <1>9. ASSUME NEW p \in Proc, Cancel(p)
        PROVE  OffsetInv'
    <2>1. /\ UNCHANGED <<input, pc, cur, incoming, queue, wpc, hand, handled,
                         lost, position, committed, exports, dlq>>
          /\ mode' = [mode EXCEPT ![p] = "stopping"]
      BY <1>9
      DEF Cancel, Signal, consumerVars, workerVars, topicVars, assignment
    <2>2. \A q \in Proc : mode'[q] = "down" => mode[q] = "down"
      BY <1>2, <2>1
    <2> QED
      BY <1>3, <1>4, <2>1, <2>2, QueuedUnchanged
  <1>10. ASSUME NEW p \in Proc, Leave(p)
         PROVE  OffsetInv'
    <2>1. /\ pc'[p] = "down" /\ position'[p] = -1
          /\ UNCHANGED <<input, committed, exports, dlq>>
          /\ \A q \in Proc \ {p} :
                 /\ mode'[q] = mode[q] /\ pc'[q] = pc[q] /\ cur'[q] = cur[q]
                 /\ incoming'[q] = incoming[q] /\ position'[q] = position[q]
      BY <1>2, <1>10 DEF Leave, End
    <2>2. \A id, m : Queued(id, m)' <=> Queued(id, m)
      BY <1>1, <1>10, EndKeeps DEF Leave
    <2>3. Grows
      BY <1>3, <2>1, <2>2
    <2>4. OffsetOf(p)'
      <3>1. position'[p] <= Len(input') /\ 1..position'[p] = {}
        BY <1>2, <2>1
      <3>2. \A id \in 1..position'[p] : Accounted(id)'
        BY <3>1
      <3>3. pc'[p] \notin Busy
        BY <2>1 DEF Busy
      <3> QED
        BY <1>1, <3>1, <3>2, <3>3, OffsetIdle
    <2> QED
      BY <1>1, <2>1, <2>3, <2>4, OffsetStep
  <1>11. ASSUME NEW p \in Proc, Assign(p) \/ Revoke(p)
         PROVE  OffsetInv'
    <2>1. /\ UNCHANGED <<input, mode, pc, cur, incoming, queue, wpc, hand,
                         handled, lost, committed, exports, dlq>>
          /\ position'[p] \in {committed, -1}
          /\ \A q \in Proc \ {p} : position'[q] = position[q]
      BY <1>2, <1>11
      DEF Assign, Revoke, processVars, consumerVars, workerVars
    <2>2. Grows
      BY <1>3, <2>1, QueuedUnchanged
    <2>3. OffsetOf(p) /\ position[p] \in Int
      BY <1>1, OffsetTypes DEF OffsetInv
    <2>4. \A id \in 1..Len(input) : Accounted(id) => Accounted(id)'
      BY <2>2, AccountedGrows
    <2>5. /\ position'[p] <= Len(input)
          /\ \A id \in 1..position'[p] : Accounted(id)'
      BY <1>2, <2>1, <2>4 DEF OffsetInv, CommittedIsAccounted
    <2>6. /\ pc[p] = "marker" => HasItem(cur[p])'
          /\ pc[p] = "ack" => Accounted(cur[p])'
      BY <2>1, <2>3 DEF OffsetOf, Accounted, Rejected, HasItem, Queued,
                        Undispatched
    <2>7. pc[p] \in Busy => \A id \in 1..(cur[p] - 1) : Accounted(id)'
      BY <1>2, <2>3, <2>4 DEF OffsetOf
    <2>8. OffsetOf(p)'
      BY <2>1, <2>3, <2>5, <2>6, <2>7 DEF OffsetOf
    <2> QED
      BY <1>1, <2>1, <2>2, <2>8, OffsetStep
  <1>12. ASSUME NEW p \in Proc,
                \/ FetchMessage(p) \/ SendDataFetcher(p) \/ DeadLetter(p)
                \/ CommitMessages(p)
         PROVE  OffsetInv'
    BY <1>1, <1>12, OffsetClient
  <1> QED
    BY <1>5, <1>6, <1>7, <1>8, <1>9, <1>10, <1>11, <1>12
    DEF Next, Join, Rebalance, FetchNothing, Expire, vars

(* CommittedIsAccounted holds: whatever process commits, and however late,  *)
(* the messages its offset covers were all dealt with.                      *)
THEOREM CommittedIsAccountedHolds == Spec => []CommittedIsAccounted
  <1>1. OffsetInv => CommittedIsAccounted
    BY DEF OffsetInv
  <1> QED
    BY OffsetInit, OffsetNext, <1>1, PTL DEF Spec

-----------------------------------------------------------------------------
(* How often a message is processed.  Every assignment hands out one token  *)
(* per message that is still to come.  A process turns it into the message  *)
(* it has fetched, then into a place in its line of results; tokens are     *)
(* lost, and never made by anything but an assignment.                      *)

Held(p) == IF wpc[p] = "handle" THEN 1 ELSE 0

\* The i-th item of p, dispatched, in hand or queued, is a result (with m TRUE
\* a completion marker) of message id.
Slot(p, i, id, m) ==
    \/ /\ i \in 1..Len(handled[p])
       /\ handled[p][i].id = id /\ handled[p][i].marker = m
    \/ /\ wpc[p] = "handle" /\ i = Len(handled[p]) + 1
       /\ hand[p].id = id /\ hand[p].marker = m
    \/ \E k \in 1..Len(queue[p]) :
           /\ i = Len(handled[p]) + Held(p) + k
           /\ queue[p][k].id = id /\ queue[p][k].marker = m

\* p has fetched message id and not yet queued its result (its marker).
Before(m) ==
    {k \in {"process", "status", "run", "marker"} : k = "marker" => m = TRUE}

Working(p, id, m) == pc[p] \in Before(m) /\ cur[p] = id

\* p will come to message id.
Ahead(p, id) == position[p] # -1 /\ position[p] < id

Token(p, i, id, m) ==
    Slot(p, i, id, m) \/ (i = 0 /\ Working(p, id, m)) \/ (i = -1 /\ Ahead(p, id))

Tokens(id, m) == {t \in Proc \X Int : Token(t[1], t[2], id, m)}

TokenInv(m) ==
    /\ Typed
    /\ \A id \in Nat : /\ IsFiniteSet(Tokens(id, m))
                       /\ Cardinality(Tokens(id, m)) <= generation

(* A token that is exchanged for another one.                               *)
LEMMA Exchange ==
    ASSUME NEW S, NEW T, IsFiniteSet(S), NEW x \in S, NEW y,
           T \subseteq (S \ {x}) \cup {y}
    PROVE  /\ IsFiniteSet(T) /\ Cardinality(T) <= Cardinality(S)
           /\ Cardinality(T) \in Nat /\ Cardinality(S) \in Nat
  <1>1. /\ IsFiniteSet(S \ {x}) /\ Cardinality(S \ {x}) = Cardinality(S) - 1
        /\ Cardinality(S) \in Nat /\ Cardinality(S \ {x}) \in Nat
    BY FS_RemoveElement, FS_CardinalityType
  <1> DEFINE U == (S \ {x}) \cup {y}
  <1>2. IsFiniteSet(U) /\ Cardinality(U) <= Cardinality(S) /\ Cardinality(U) \in Nat
    <2> DEFINE V == S \ {x}
    <2> HIDE DEF V
    <2>1. /\ IsFiniteSet(V \cup {y})
          /\ Cardinality(V \cup {y}) =
                 IF y \in V THEN Cardinality(V) ELSE Cardinality(V) + 1
      <3>1. IsFiniteSet(V)
        BY <1>1 DEF V
      <3> QED
        BY <3>1, FS_AddElement
    <2>2. Cardinality(V) = Cardinality(S) - 1
      BY <1>1 DEF V
    <2>3. Cardinality(V \cup {y}) <= Cardinality(S)
      BY <1>1, <2>1, <2>2
    <2>4. Cardinality(V \cup {y}) \in Nat
      BY <2>1, FS_CardinalityType
    <2> QED
      BY <2>1, <2>3, <2>4 DEF V
  <1>3. T \in SUBSET U
    OBVIOUS
  <1> HIDE DEF U
  <1>4. IsFiniteSet(T) /\ Cardinality(T) <= Cardinality(U)
    BY <1>2, <1>3, FS_Subset
  <1> QED
    BY <1>1, <1>2, <1>4, FS_CardinalityType

(* A new token.                                                             *)
LEMMA Handout ==
    ASSUME NEW S, NEW T, IsFiniteSet(S), NEW y, T \subseteq S \cup {y}
    PROVE  /\ IsFiniteSet(T) /\ Cardinality(T) <= Cardinality(S) + 1
           /\ Cardinality(T) \in Nat /\ Cardinality(S) \in Nat
  <1>1. /\ IsFiniteSet(S \cup {y}) /\ Cardinality(S) \in Nat
        /\ Cardinality(S \cup {y}) <= Cardinality(S) + 1
        /\ Cardinality(S \cup {y}) \in Nat
    BY FS_AddElement, FS_CardinalityType
  <1> QED
    BY <1>1, FS_Subset, FS_CardinalityType

(* No process has a partition in the beginning, so there are no tokens.     *)
LEMMA TokenInit == Init => \A m : TokenInv(m)
  <1> SUFFICES ASSUME Init, NEW m PROVE TokenInv(m)
    OBVIOUS
  <1>1. \A p \in Proc : /\ handled[p] = <<>> /\ queue[p] = <<>>
                        /\ wpc[p] = "idle" /\ pc[p] = "down" /\ position[p] = -1
    BY DEF Init, ProcessInit
  <1>2. \A p \in Proc : \A i, id : ~Token(p, i, id, m)
    BY <1>1, NoElements DEF Token, Slot, Working, Ahead, Before
  <1>3. \A id : Tokens(id, m) = {}
    BY <1>2 DEF Tokens
  <1>4. IsFiniteSet({}) /\ Cardinality({}) = 0 /\ generation = 0
    BY FS_EmptySet DEF Init
  <1> QED
    BY <1>3, <1>4, TypedInit DEF TokenInv

(* A step that makes no token.                                              *)
LEMMA TokenQuiet ==
    ASSUME NEW m, TokenInv(m), Typed',
           generation' = generation,
           \A p \in Proc, i \in Int, id \in Nat :
               Token(p, i, id, m)' => Token(p, i, id, m)
    PROVE  TokenInv(m)'
  <1> SUFFICES ASSUME NEW id \in Nat
               PROVE  /\ IsFiniteSet(Tokens(id, m)')
                      /\ Cardinality(Tokens(id, m)') <= generation
    BY DEF TokenInv
  <1>1. Tokens(id, m)' \subseteq Tokens(id, m)
    BY DEF Tokens
  <1>2. IsFiniteSet(Tokens(id, m)) /\ Cardinality(Tokens(id, m)) <= generation
    BY DEF TokenInv
  <1>3. generation \in Nat
    BY DEF TokenInv, Typed, TypeOK
  <1> QED
    BY <1>1, <1>2, <1>3, FS_Subset, FS_CardinalityType

\* The only token a step makes is p's at place j, of message c.
MakesOnly(p, j, c, m) ==
    \A q \in Proc, k \in Int, id \in Nat :
        Token(q, k, id, m)' => Token(q, k, id, m) \/ (q = p /\ k = j /\ id = c)

(* Process p exchanges its token at place i for one at place j, both of     *)
(* message c.                                                               *)
LEMMA TokenExchange ==
    ASSUME NEW m, TokenInv(m), Typed',
           generation' = generation,
           NEW p \in Proc, NEW i \in Int, NEW j \in Int, NEW c \in Nat,
           Token(p, i, c, m), ~Token(p, i, c, m)', MakesOnly(p, j, c, m)
    PROVE  TokenInv(m)'
  <1> SUFFICES ASSUME NEW id \in Nat
               PROVE  /\ IsFiniteSet(Tokens(id, m)')
                      /\ Cardinality(Tokens(id, m)') <= generation
    BY DEF TokenInv
  <1>1. IsFiniteSet(Tokens(id, m)) /\ Cardinality(Tokens(id, m)) <= generation
    BY DEF TokenInv
  <1>2. generation \in Nat
    BY DEF TokenInv, Typed, TypeOK
  <1>3. CASE id # c
    <2>1. Tokens(id, m)' \subseteq Tokens(id, m)
      BY <1>3 DEF Tokens, MakesOnly
    <2> QED
      BY <1>1, <1>2, <2>1, FS_Subset, FS_CardinalityType
  <1>4. CASE id = c
    <2>1. <<p, i>> \in Tokens(id, m)
      BY <1>4 DEF Tokens
    <2>2. Tokens(id, m)' \subseteq (Tokens(id, m) \ {<<p, i>>}) \cup {<<p, j>>}
      <3> SUFFICES ASSUME NEW t \in Tokens(id, m)', t # <<p, j>>
                   PROVE  t \in Tokens(id, m) /\ t # <<p, i>>
        OBVIOUS
      <3>1. PICK q \in Proc, k \in Int : t = <<q, k>> /\ Token(q, k, id, m)'
        BY DEF Tokens
      <3>2. Token(q, k, id, m)
        BY <3>1 DEF MakesOnly
      <3>3. t # <<p, i>>
        BY <1>4, <3>1
      <3> QED
        BY <3>1, <3>2, <3>3 DEF Tokens
    <2>3. /\ IsFiniteSet(Tokens(id, m)')
          /\ Cardinality(Tokens(id, m)') <= Cardinality(Tokens(id, m))
          /\ Cardinality(Tokens(id, m)') \in Nat /\ Cardinality(Tokens(id, m)) \in Nat
      BY <1>1, <2>1, <2>2, Exchange
    <2> QED
      BY <1>1, <1>2, <2>3
  <1> QED
    BY <1>3, <1>4

(* The parts of a line of results are sequences.                            *)
LEMMA LineLengths ==
    ASSUME ProcessTyped, NEW p \in Proc
    PROVE  /\ handled[p] \in Seq(Dispatch) /\ Len(handled[p]) \in Nat
           /\ queue[p] \in Seq(Item) /\ Len(queue[p]) \in Nat
           /\ Held(p) \in {0, 1}
  BY LenProperties DEF ProcessTyped, ProcessTypeOK, Held

(* A process whose line does not change.                                    *)
LEMMA SlotSame ==
    ASSUME NEW p, NEW i, NEW id, NEW m,
           queue'[p] = queue[p], handled'[p] = handled[p],
           wpc'[p] = "handle" <=> wpc[p] = "handle",
           wpc[p] = "handle" => hand'[p] = hand[p]
    PROVE  Slot(p, i, id, m)' <=> Slot(p, i, id, m)
  <1>1. Held(p)' = Held(p)
    BY DEF Held
  <1> QED
    BY <1>1 DEF Slot

(* The worker takes an item: it keeps its place.                            *)
LEMMA SlotTakes ==
    ASSUME ProcessTyped, NEW p \in Proc, Takes(p), NEW i, NEW id, NEW m,
           Slot(p, i, id, m)'
    PROVE  Slot(p, i, id, m)
  <1> DEFINE h == Len(handled[p])
             s == queue[p]
  <1>1. h \in Nat /\ s \in Seq(Item) /\ Len(s) \in Nat
    BY LineLengths
  <1>2. /\ wpc[p] = "idle" /\ wpc'[p] = "handle" /\ handled'[p] = handled[p]
        /\ hand'[p] = Head(s) /\ s # <<>> /\ queue'[p] = Tail(s)
    BY DEF Takes, ProcessTyped, ProcessTypeOK
  <1>3. /\ Len(Tail(s)) = Len(s) - 1 /\ Len(s) >= 1
        /\ \A k \in 1..(Len(s) - 1) : Tail(s)[k] = s[k + 1]
        /\ Head(s) = s[1]
    <2>1. Len(s) # 0
      BY <1>1, <1>2, EmptySeq
    <2> QED
      BY <1>1, <1>2, <2>1, HeadTailProperties
  <1>4. Held(p) = 0 /\ Held(p)' = 1
    BY <1>2 DEF Held
  <1>5. CASE /\ i \in 1..h
             /\ handled[p][i].id = id /\ handled[p][i].marker = m
    BY <1>5 DEF Slot
  <1>6. CASE i = h + 1 /\ Head(s).id = id /\ Head(s).marker = m
    <2>1. /\ 1 \in 1..Len(s) /\ i = h + Held(p) + 1
          /\ s[1].id = id /\ s[1].marker = m
      BY <1>1, <1>3, <1>4, <1>6
    <2> QED
      BY <2>1 DEF Slot
  <1>7. ASSUME NEW k \in 1..(Len(s) - 1), i = h + 1 + k,
               Tail(s)[k].id = id, Tail(s)[k].marker = m
        PROVE  Slot(p, i, id, m)
    <2> HIDE DEF h, s
    <2>1. k + 1 \in 1..Len(s) /\ i = h + Held(p) + (k + 1)
      BY <1>1, <1>4, <1>7
    <2>2. s[k + 1].id = id /\ s[k + 1].marker = m
      BY <1>3, <1>7
    <2> QED
      BY <2>1, <2>2 DEF Slot, h, s
  <1>8. \/ /\ i \in 1..h
           /\ handled[p][i].id = id /\ handled[p][i].marker = m
        \/ i = h + 1 /\ Head(s).id = id /\ Head(s).marker = m
        \/ \E k \in 1..(Len(s) - 1) :
               /\ i = h + 1 + k
               /\ Tail(s)[k].id = id /\ Tail(s)[k].marker = m
    BY <1>2, <1>3, <1>4 DEF Slot
  <1> QED
    BY <1>5, <1>6, <1>7, <1>8

(* The worker dispatches what it holds: it keeps its place.                 *)
LEMMA SlotDispatches ==
    ASSUME ProcessTyped, NEW p \in Proc, NEW d \in Dispatch, Dispatches(p, d),
           NEW i, NEW id, NEW m, Slot(p, i, id, m)'
    PROVE  Slot(p, i, id, m)
  <1> DEFINE h == Len(handled[p])
             s == queue[p]
  <1>1. h \in Nat /\ Len(s) \in Nat /\ handled[p] \in Seq(Dispatch)
    BY LineLengths
  <1>2. /\ wpc[p] = "handle" /\ wpc'[p] # "handle" /\ queue'[p] = s
        /\ handled'[p] = Append(handled[p], d)
        /\ d.id = hand[p].id /\ d.marker = hand[p].marker
    BY DEF Dispatches, ProcessTyped, ProcessTypeOK
  <1>3. /\ Len(handled'[p]) = h + 1 /\ handled'[p][h + 1] = d
        /\ \A k \in 1..h : handled'[p][k] = handled[p][k]
    BY <1>1, <1>2, AppendProperties
  <1>4. Held(p) = 1 /\ Held(p)' = 0
    BY <1>2 DEF Held
  <1>5. CASE /\ i \in 1..(h + 1)
             /\ handled'[p][i].id = id /\ handled'[p][i].marker = m
    <2>1. i = h + 1 \/ i \in 1..h
      BY <1>1, <1>5
    <2> QED
      BY <1>2, <1>3, <1>5, <2>1 DEF Slot
  <1>6. ASSUME NEW k \in 1..Len(s), i = (h + 1) + 0 + k,
               s[k].id = id, s[k].marker = m
        PROVE  Slot(p, i, id, m)
    <2>1. i = h + Held(p) + k
      BY <1>1, <1>4, <1>6
    <2> QED
      BY <1>6, <2>1 DEF Slot
  <1>7. \/ /\ i \in 1..(h + 1)
           /\ handled'[p][i].id = id /\ handled'[p][i].marker = m
        \/ \E k \in 1..Len(s) : /\ i = (h + 1) + 0 + k
                                /\ s[k].id = id /\ s[k].marker = m
    BY <1>2, <1>3, <1>4 DEF Slot
  <1> QED
    BY <1>5, <1>6, <1>7

(* The consumer queues an item: it gets the next place.                     *)
LEMMA SlotPush ==
    ASSUME ProcessTyped, NEW p \in Proc, NEW it \in Item,
           queue' = [queue EXCEPT ![p] = Append(@, it)],
           UNCHANGED <<wpc, hand, handled>>, NEW j \in Int,
           j = Len(handled[p]) + Held(p) + Len(queue[p]) + 1,
           NEW i, NEW id, NEW m, Slot(p, i, id, m)'
    PROVE  Slot(p, i, id, m) \/ (i = j /\ id = it.id /\ it.marker = m)
  <1> DEFINE h == Len(handled[p])
             s == queue[p]
  <1>1. /\ h \in Nat /\ s \in Seq(Item) /\ Len(s) \in Nat /\ Held(p) \in Int
        /\ Held(p)' = Held(p)
    BY LineLengths DEF Held
  <1>2. queue'[p] = Append(s, it) /\ handled'[p] = handled[p]
    BY DEF ProcessTyped, ProcessTypeOK
  <1>3. /\ Len(queue'[p]) = Len(s) + 1 /\ queue'[p][Len(s) + 1] = it
        /\ \A k \in 1..Len(s) : queue'[p][k] = s[k]
    BY <1>1, <1>2, AppendProperties
  <1>4. ASSUME NEW k \in 1..(Len(s) + 1), i = h + Held(p) + k,
               queue'[p][k].id = id, queue'[p][k].marker = m
        PROVE  Slot(p, i, id, m) \/ (i = j /\ id = it.id /\ it.marker = m)
    <2>1. k = Len(s) + 1 \/ k \in 1..Len(s)
      BY <1>1
    <2>2. CASE k = Len(s) + 1
      BY <1>1, <1>3, <1>4, <2>2
    <2>3. CASE k \in 1..Len(s)
      BY <1>3, <1>4, <2>3 DEF Slot
    <2> QED
      BY <2>1, <2>2, <2>3
  <1>5. \/ Slot(p, i, id, m)
        \/ \E k \in 1..(Len(s) + 1) :
               /\ i = h + Held(p) + k
               /\ queue'[p][k].id = id /\ queue'[p][k].marker = m
    BY <1>1, <1>2, <1>3 DEF Slot
  <1> QED
    BY <1>4, <1>5

(* Results have positive places, so none is mistaken for the message in     *)
(* hand (place 0) or for those ahead (place -1).                            *)
LEMMA SlotPlaces ==
    ASSUME ProcessTyped, NEW p \in Proc, NEW i, NEW id, NEW m, Slot(p, i, id, m)
    PROVE  i \in Nat \ {0}
  BY LineLengths DEF Slot

(* Steps that make no token: results move on or are lost, requests are let  *)
(* go, the partition is lost.                                               *)
LEMMA TokenLines ==
    ASSUME NEW m, TokenInv(m), Typed',
           generation' = generation,
           \A p \in Proc, i \in Int, id \in Nat :
               Slot(p, i, id, m)' => Slot(p, i, id, m),
           \A p \in Proc : pc'[p] \in Before(m) =>
               /\ pc[p] \in Before(m)
               /\ cur'[p] = cur[p],
           \A p \in Proc : position'[p] \in {position[p], -1}
    PROVE  TokenInv(m)'
  <1>1. \A p \in Proc, i \in Int, id \in Nat :
            Token(p, i, id, m)' => Token(p, i, id, m)
    <2> SUFFICES ASSUME NEW p \in Proc, NEW i \in Int, NEW id \in Nat,
                        Token(p, i, id, m)'
                 PROVE  Token(p, i, id, m)
      OBVIOUS
    <2>1. CASE Slot(p, i, id, m)'
      BY <2>1 DEF Token
    <2>2. CASE i = 0 /\ Working(p, id, m)'
      BY <2>2 DEF Token, Working
    <2>3. CASE i = -1 /\ Ahead(p, id)'
      BY <2>3 DEF Token, Ahead
    <2> QED
      BY <2>1, <2>2, <2>3 DEF Token
  <1> QED
    BY <1>1, TokenQuiet

(* The worker makes no token.                                               *)
LEMMA TokenWorker ==
    ASSUME NEW m, TokenInv(m), Typed',
           NEW p \in Proc, WorkerStep(p) \/ WorkerReturn(p),
           UNCHANGED topicVars
    PROVE  TokenInv(m)'
  <1>1. ProcessTyped
    BY TypedProcesses DEF TokenInv
  <1>2. /\ UNCHANGED <<pc, cur>>
        /\ \A q \in Proc \ {p} : wpc'[q] = wpc[q] /\ hand'[q] = hand[q]
        /\ Takes(p) \/ (\E d \in Dispatch : Dispatches(p, d)) \/ Rests(p)
    BY <1>1, WorkerMoves
  <1>3. \A q \in Proc \ {p} : queue'[q] = queue[q] /\ handled'[q] = handled[q]
    BY <1>1, <1>2 DEF Takes, Dispatches, Rests, ProcessTyped, ProcessTypeOK
  <1>4. \A q \in Proc, i \in Int, id \in Nat : Slot(q, i, id, m)' => Slot(q, i, id, m)
    <2> SUFFICES ASSUME NEW q \in Proc, NEW i \in Int, NEW id \in Nat,
                        Slot(q, i, id, m)'
                 PROVE  Slot(q, i, id, m)
      OBVIOUS
    <2>1. CASE q # p
      BY <1>2, <1>3, <2>1, SlotSame
    <2>2. CASE q = p /\ Takes(p)
      BY <1>1, <2>2, SlotTakes
    <2>3. CASE q = p /\ \E d \in Dispatch : Dispatches(p, d)
      BY <1>1, <2>3, SlotDispatches
    <2>4. CASE q = p /\ Rests(p)
      BY <2>4, SlotSame DEF Rests
    <2> QED
      BY <1>2, <2>1, <2>2, <2>3, <2>4
  <1>5. generation' = generation /\ position' = position
    BY DEF topicVars, assignment
  <1> QED
    BY <1>2, <1>4, <1>5, TokenLines

(* The consumer's own steps: queueing a result uses up the fetched message. *)
LEMMA TokenConsumer ==
    ASSUME NEW m, TokenInv(m), Typed',
           NEW p \in Proc, ConsumerStep(p),
           UNCHANGED topicVars
    PROVE  TokenInv(m)'
  <1>1. Typed /\ ProcessTyped
    BY TypedProcesses DEF TokenInv
  <1>2. /\ pc \in [Proc -> {"down", "setup", "read", "process", "export", "status",
                            "run", "marker", "dead", "ack", "exited"}]
        /\ cur \in [Proc -> Nat] /\ queue \in [Proc -> Seq(Item)]
    BY <1>1 DEF ProcessTyped, ProcessTypeOK
  <1>3. /\ generation' = generation /\ position' = position
        /\ UNCHANGED <<cur, wpc, hand, handled>>
    BY DEF ConsumerStep, Triage, UpdateEventStatus, RunController, SendMarker,
           topicVars, assignment, workerVars
  <1>4. /\ \A q \in Proc \ {p} : pc'[q] = pc[q]
        /\ pc'[p] \in Before(m) =>
               pc[p] \in Before(m)
    <2>1. CASE Triage(p)
      BY <1>1, <1>2, <2>1, TriageOutcome DEF ProcessTyped, Triage, Before
    <2>2. CASE UpdateEventStatus(p) \/ RunController(p) \/ SendMarker(p)
      BY <1>2, <2>2
      DEF UpdateEventStatus, RunController, ControllerFailed, SendMarker, Before
    <2> QED
      BY <2>1, <2>2 DEF ConsumerStep
  <1>5. ASSUME \A q \in Proc, i \in Int, id \in Nat :
                   Slot(q, i, id, m)' => Slot(q, i, id, m)
        PROVE  TokenInv(m)'
    BY <1>3, <1>4, <1>5, TokenLines
  <1>6. CASE queue' = queue
    <2>1. \A q \in Proc, i \in Int, id \in Nat :
              Slot(q, i, id, m)' => Slot(q, i, id, m)
      BY <1>3, <1>6, SlotSame
    <2> QED
      BY <1>5, <2>1
  <1>7. ASSUME NEW it \in Item, queue' = [queue EXCEPT ![p] = Append(@, it)],
               NEW j \in Int, j = Len(handled[p]) + Held(p) + Len(queue[p]) + 1
        PROVE  \A q \in Proc, i \in Int, id \in Nat :
                   Slot(q, i, id, m)' =>
                       \/ Slot(q, i, id, m)
                       \/ q = p /\ i = j /\ id = it.id /\ it.marker = m
    <2> SUFFICES ASSUME NEW q \in Proc, NEW i \in Int, NEW id \in Nat,
                        Slot(q, i, id, m)'
                 PROVE  \/ Slot(q, i, id, m)
                        \/ q = p /\ i = j /\ id = it.id /\ it.marker = m
      OBVIOUS
    <2>1. CASE q # p
      <3>1. queue'[q] = queue[q]
        BY <1>2, <1>7, <2>1
      <3> QED
        BY <1>3, <3>1, SlotSame
    <2>2. CASE q = p
      <3>1. Slot(p, i, id, m)'
        BY <2>2
      <3>2. Slot(p, i, id, m) \/ (i = j /\ id = it.id /\ it.marker = m)
        BY <1>1, <1>3, <1>7, <3>1, SlotPush
      <3> QED
        BY <2>2, <3>2
    <2> QED
      BY <2>1, <2>2
  <1>8. PICK j \in Int : j = Len(handled[p]) + Held(p) + Len(queue[p]) + 1
    <2>1. /\ Len(handled[p]) \in Nat /\ Len(queue[p]) \in Nat
          /\ Held(p) \in {0, 1}
      BY <1>1, LineLengths
    <2> QED
      BY <2>1
  <1>9. ASSUME NEW it \in Item, queue' = [queue EXCEPT ![p] = Append(@, it)],
               it.id = cur[p], it.marker = (pc[p] = "marker"),
               pc[p] \in {"run", "marker"}, pc'[p] \in {"marker", "ack"},
               pc[p] = "marker" => pc'[p] = "ack"
        PROVE  TokenInv(m)'
    <2>1. CASE it.marker # m
      BY <1>5, <1>7, <1>8, <1>9, <2>1
    <2>2. CASE it.marker = m
      <3>1. PICK c \in Nat : c = cur[p]
        BY <1>2
      <3>2. \A q \in Proc, i \in Int, id \in Nat :
                Slot(q, i, id, m)' =>
                    Slot(q, i, id, m) \/ (q = p /\ i = j /\ id = c)
        <4>1. queue' = [queue EXCEPT ![p] = Append(@, it)] /\ it.id = c
          BY <1>9, <3>1
        <4> QED
          BY <1>7, <1>8, <4>1
      <3>3. pc[p] \in Before(m) /\ pc'[p] \notin Before(m)
        BY <1>9, <2>2 DEF Before
      <3>4. Token(p, 0, c, m)
        BY <3>1, <3>3 DEF Token, Working
      <3>5. ~Token(p, 0, c, m)'
        <4>1. j # 0
          BY <1>1, <1>8, LineLengths
        <4>2. ~Slot(p, 0, c, m)
          BY <1>1, SlotPlaces
        <4>3. ~Slot(p, 0, c, m)'
          BY <3>2, <4>1, <4>2
        <4>4. ~Working(p, c, m)'
          BY <3>3 DEF Working
        <4> QED
          BY <4>3, <4>4 DEF Token
      <3>6. MakesOnly(p, j, c, m)
        <4> SUFFICES ASSUME NEW q \in Proc, NEW i \in Int, NEW id \in Nat,
                            Token(q, i, id, m)'
                     PROVE  Token(q, i, id, m) \/ (q = p /\ i = j /\ id = c)
          BY DEF MakesOnly
        <4>1. CASE Slot(q, i, id, m)'
          BY <3>2, <4>1 DEF Token
        <4>2. CASE i = 0 /\ Working(q, id, m)'
          BY <1>3, <1>4, <4>2 DEF Token, Working
        <4>3. CASE i = -1 /\ Ahead(q, id)'
          BY <1>3, <4>3 DEF Token, Ahead
        <4> QED
          BY <4>1, <4>2, <4>3 DEF Token
      <3> QED
        BY <1>3, <3>4, <3>5, <3>6, TokenExchange
    <2> QED
      BY <2>1, <2>2
  <1>10. CASE SendMarker(p) /\ queue' # queue
    <2>1. /\ queue' = [queue EXCEPT ![p] = Append(@, MarkerItem(p))]
          /\ pc[p] = "marker" /\ pc'[p] = "ack" /\ MarkerItem(p) \in Item
      BY <1>1, <1>2, <1>10, DataItemType DEF SendMarker
    <2>2. MarkerItem(p).id = cur[p] /\ MarkerItem(p).marker = TRUE
      BY DEF MarkerItem
    <2> QED
      BY <1>9, <2>1, <2>2
  <1>11. CASE RunController(p) /\ queue' # queue
    <2>1. /\ queue' = [queue EXCEPT ![p] = Append(@, DataItem(p))]
          /\ pc[p] = "run" /\ pc'[p] \in {"marker", "ack"}
          /\ DataItem(p) \in Item
      BY <1>1, <1>2, <1>11, DataItemType DEF RunController
    <2>2. DataItem(p).id = cur[p] /\ DataItem(p).marker = FALSE
      BY DEF DataItem
    <2> QED
      BY <1>9, <2>1, <2>2
  <1>12. CASE Triage(p) \/ UpdateEventStatus(p)
    BY <1>6, <1>12 DEF Triage, UpdateEventStatus
  <1> QED
    BY <1>6, <1>10, <1>11, <1>12 DEF ConsumerStep

(* FetchMessage turns the token of the next message into the fetched one.   *)
LEMMA TokenFetch ==
    ASSUME NEW m, TokenInv(m), Typed',
           NEW p \in Proc, FetchMessage(p)
    PROVE  TokenInv(m)'
  <1>1. Typed /\ ProcessTyped
    BY TypedProcesses DEF TokenInv
  <1>2. /\ pc \in [Proc -> {"down", "setup", "read", "process", "export", "status",
                            "run", "marker", "dead", "ack", "exited"}]
        /\ cur \in [Proc -> Nat] /\ position \in [Proc -> Nat \cup {-1}]
    BY <1>1 DEF Typed, TypeOK, ProcessTypeOK
  <1>3. position[p] \in Nat
    BY <1>1, Fetched
  <1>4. PICK c \in Nat : c = position[p] + 1
    BY <1>3
  <1>5. /\ generation' = generation /\ UNCHANGED <<queue, wpc, hand, handled>>
        /\ pc[p] = "read" /\ position'[p] = c /\ cur'[p] = c
        /\ \A q \in Proc \ {p} : /\ pc'[q] = pc[q] /\ cur'[q] = cur[q]
                                 /\ position'[q] = position[q]
    BY <1>2, <1>4 DEF FetchMessage, workerVars
  <1>6. \A q \in Proc, i \in Int, id \in Nat :
            Slot(q, i, id, m)' <=> Slot(q, i, id, m)
    BY <1>5, SlotSame
  <1>7. Token(p, -1, c, m)
    BY <1>3, <1>4 DEF Token, Ahead
  <1>8. ~Token(p, -1, c, m)'
    <2>1. ~Slot(p, -1, c, m)
      BY <1>1, SlotPlaces
    <2>2. ~Slot(p, -1, c, m)'
      BY <1>6, <2>1
    <2>3. ~Ahead(p, c)'
      BY <1>5 DEF Ahead
    <2> QED
      BY <2>2, <2>3 DEF Token
  <1>9. MakesOnly(p, 0, c, m)
    <2> SUFFICES ASSUME NEW q \in Proc, NEW i \in Int, NEW id \in Nat,
                        Token(q, i, id, m)'
                 PROVE  Token(q, i, id, m) \/ (q = p /\ i = 0 /\ id = c)
      BY DEF MakesOnly
    <2>1. CASE Slot(q, i, id, m)'
      BY <1>6, <2>1 DEF Token
    <2>2. CASE i = 0 /\ Working(q, id, m)'
      BY <1>5, <2>2 DEF Token, Working
    <2>3. CASE i = -1 /\ Ahead(q, id)'
      <3>1. CASE q = p
        BY <1>3, <1>4, <1>5, <2>3, <3>1 DEF Token, Ahead
      <3>2. CASE q # p
        BY <1>5, <2>3, <3>2 DEF Token, Ahead
      <3> QED
        BY <3>1, <3>2
    <2> QED
      BY <2>1, <2>2, <2>3 DEF Token
  <1> QED
    BY <1>5, <1>7, <1>8, <1>9, TokenExchange

(* An assignment hands out one token per message.                           *)
LEMMA TokenAssign ==
    ASSUME NEW m, TokenInv(m), Typed',
           NEW p \in Proc, Assign(p)
    PROVE  TokenInv(m)'
  <1>1. Typed
    BY DEF TokenInv
  <1>2. /\ UNCHANGED <<queue, wpc, hand, handled, pc, cur>>
        /\ generation' = generation + 1
        /\ \A q \in Proc \ {p} : position'[q] = position[q]
    BY <1>1 DEF Assign, processVars, consumerVars, workerVars, Typed, TypeOK
  <1>3. ASSUME NEW q \in Proc, NEW i \in Int, NEW id \in Nat,
               Token(q, i, id, m)'
        PROVE  Token(q, i, id, m) \/ (q = p /\ i = -1)
    <2>1. Slot(q, i, id, m)' <=> Slot(q, i, id, m)
      BY <1>2, SlotSame
    <2>2. Working(q, id, m)' <=> Working(q, id, m)
      BY <1>2 DEF Working
    <2>3. q # p => (Ahead(q, id)' <=> Ahead(q, id))
      BY <1>2 DEF Ahead
    <2> QED
      BY <1>3, <2>1, <2>2, <2>3 DEF Token
  <1> SUFFICES ASSUME NEW id \in Nat
               PROVE  /\ IsFiniteSet(Tokens(id, m)')
                      /\ Cardinality(Tokens(id, m)') <= generation + 1
    BY <1>2 DEF TokenInv
  <1>4. Tokens(id, m)' \subseteq Tokens(id, m) \cup {<<p, -1>>}
    <2> SUFFICES ASSUME NEW t \in Tokens(id, m)'
                 PROVE  t \in Tokens(id, m) \cup {<<p, -1>>}
      OBVIOUS
    <2>1. PICK q \in Proc, i \in Int : t = <<q, i>> /\ Token(q, i, id, m)'
      BY DEF Tokens
    <2>2. Token(q, i, id, m) \/ (q = p /\ i = -1)
      BY <1>3, <2>1
    <2> QED
      BY <2>1, <2>2 DEF Tokens
  <1>5. IsFiniteSet(Tokens(id, m)) /\ Cardinality(Tokens(id, m)) <= generation
    BY DEF TokenInv
  <1>6. /\ IsFiniteSet(Tokens(id, m)')
        /\ Cardinality(Tokens(id, m)') <= Cardinality(Tokens(id, m)) + 1
        /\ Cardinality(Tokens(id, m)') \in Nat /\ Cardinality(Tokens(id, m)) \in Nat
    BY <1>4, <1>5, Handout
  <1>7. generation \in Nat
    BY <1>1 DEF Typed, TypeOK
  <1> QED
    BY <1>5, <1>6, <1>7

(* Only an assignment adds a token, at most one for each message, and it    *)
(* raises the generation.                                                   *)
LEMMA TokenNext ==
    ASSUME NEW m, TokenInv(m), [Next]_vars
    PROVE  TokenInv(m)'
  <1>1. Typed /\ Typed' /\ ProcessTyped
    BY TypedNext, TypedProcesses DEF TokenInv
  <1>2. /\ pc \in [Proc -> {"down", "setup", "read", "process", "export", "status",
                            "run", "marker", "dead", "ack", "exited"}]
        /\ position \in [Proc -> Nat \cup {-1}]
    BY <1>1 DEF Typed, TypeOK, ProcessTypeOK
  <1>3. ASSUME UNCHANGED <<queue, wpc, hand, handled, generation>>,
               \A p \in Proc : pc'[p] \in Before(m) =>
                   pc'[p] = pc[p] /\ cur'[p] = cur[p],
               \A p \in Proc : position'[p] \in {position[p], -1}
        PROVE  TokenInv(m)'
    <2>1. \A p \in Proc, i \in Int, id \in Nat :
              Slot(p, i, id, m)' => Slot(p, i, id, m)
      BY <1>3, SlotSame
    <2>2. \A p \in Proc : pc'[p] \in Before(m) =>
              pc[p] \in Before(m) /\ cur'[p] = cur[p]
      BY <1>3
    <2> QED
      BY <1>1, <1>3, <2>1, <2>2, TokenLines
  <1>4. ASSUME UNCHANGED <<processVars, topicVars>>
        PROVE  TokenInv(m)'
    BY <1>3, <1>4
    DEF processVars, consumerVars, workerVars, topicVars, assignment
  <1>5. ASSUME NEW r \in Payloads, Produce(r), UNCHANGED topicVars
        PROVE  TokenInv(m)'
    BY <1>3, <1>5 DEF Produce, consumerVars, workerVars, topicVars, assignment
  <1>6. ASSUME NEW p \in Proc, Start(p) \/ Cancel(p)
        PROVE  TokenInv(m)'
    BY <1>2, <1>3, <1>6 DEF Start, Begin, Cancel, Signal, consumerVars,
                            workerVars, topicVars, assignment, Before
  <1>7. ASSUME NEW p \in Proc, Leave(p)
        PROVE  TokenInv(m)'
    <2>1. /\ pc'[p] = "down" /\ queue'[p] = <<>> /\ wpc'[p] = "idle"
          /\ handled' = handled /\ generation' = generation
          /\ \A q \in Proc : position'[q] \in {position[q], -1}
          /\ \A q \in Proc \ {p} : /\ pc'[q] = pc[q] /\ cur'[q] = cur[q]
                                   /\ queue'[q] = queue[q]
                                   /\ wpc'[q] = wpc[q] /\ hand'[q] = hand[q]
      BY <1>1, <1>2, <1>7 DEF Leave, End, WorkerDone, ProcessTyped, ProcessTypeOK
    <2>2. \A q \in Proc, i \in Int, id \in Nat :
              Slot(q, i, id, m)' => Slot(q, i, id, m)
      <3> SUFFICES ASSUME NEW q \in Proc, NEW i \in Int, NEW id \in Nat,
                          Slot(q, i, id, m)'
                   PROVE  Slot(q, i, id, m)
        OBVIOUS
      <3>1. CASE q = p
        BY <2>1, <3>1, NoElements DEF Slot
      <3>2. CASE q # p
        BY <2>1, <3>2, SlotSame
      <3> QED
        BY <3>1, <3>2
    <2>3. \A q \in Proc : pc'[q] \in Before(m) =>
              pc[q] \in Before(m) /\ cur'[q] = cur[q]
      BY <2>1 DEF Before
    <2> QED
      BY <1>1, <2>1, <2>2, <2>3, TokenLines
  <1>8. ASSUME NEW p \in Proc, Revoke(p)
        PROVE  TokenInv(m)'
    BY <1>2, <1>3, <1>8 DEF Revoke, processVars, consumerVars, workerVars
  <1>9. ASSUME NEW p \in Proc,
               SendDataFetcher(p) \/ DeadLetter(p) \/ CommitMessages(p)
        PROVE  TokenInv(m)'
    <2>1. /\ UNCHANGED <<queue, wpc, hand, handled, generation, position>>
          /\ pc'[p] \in {"ack", "dead", "read"}
          /\ \A q \in Proc \ {p} : pc'[q] = pc[q] /\ cur'[q] = cur[q]
      <3>1. cur \in [Proc -> Nat]
        BY <1>1 DEF ProcessTyped, ProcessTypeOK
      <3>2. CASE SendDataFetcher(p)
        BY <1>2, <3>2 DEF SendDataFetcher, workerVars, assignment
      <3>3. CASE DeadLetter(p)
        BY <1>2, <3>3 DEF DeadLetter, AfterDeadLetter, workerVars, assignment
      <3>4. CASE CommitMessages(p)
        BY <1>2, <3>1, <3>4 DEF CommitMessages, OnCommitError, Continue, workerVars
      <3> QED
        BY <1>9, <3>2, <3>3, <3>4
    <2> QED
      BY <1>3, <2>1 DEF Before
  <1>10. ASSUME NEW p \in Proc, Shared(p)
         PROVE  TokenInv(m)'
    <2>1. UNCHANGED topicVars
      BY <1>10 DEF Shared
    <2>2. CASE ConsumerStep(p)
      BY <1>1, <2>1, <2>2, TokenConsumer
    <2>3. CASE WorkerStep(p) \/ WorkerReturn(p)
      BY <1>1, <2>1, <2>3, TokenWorker
    <2>4. CASE ConsumerReturn(p)
      BY <1>2, <1>3, <2>1, <2>4
      DEF ConsumerReturn, workerVars, topicVars, assignment, Before
    <2> QED
      BY <1>10, <2>2, <2>3, <2>4 DEF Shared
  <1> QED
    BY <1>1, <1>4, <1>5, <1>6, <1>7, <1>8, <1>9, <1>10, TokenFetch, TokenAssign
    DEF Next, Join, Rebalance, FetchNothing, Expire, vars

(* DuplicatesNeedReassignment holds: failing commits, crashes and restarts  *)
(* lose results and never repeat one, and each result of a message uses up  *)
(* one assignment of the partition.                                         *)
THEOREM DuplicatesNeedReassignmentHolds == Spec => []DuplicatesNeedReassignment
  <1>1. TokenInv(FALSE) => DuplicatesNeedReassignment
    <2> SUFFICES ASSUME TokenInv(FALSE), NEW id \in 1..Len(input)
                 PROVE  Cardinality(Results(id)) <= generation
      BY DEF DuplicatesNeedReassignment
    <2> DEFINE By(p) == {<<p, i>> : i \in {i \in DOMAIN handled[p] :
                              handled[p][i].id = id /\ ~handled[p][i].marker}}
    <2>1. ProcessTyped /\ generation \in Nat /\ id \in Nat
      BY TypedProcesses DEF TokenInv, Typed, TypeOK
    <2>2. Results(id) = UNION {By(p) : p \in Proc}
      BY DEF Results
    <2>3. ASSUME NEW p \in Proc, NEW x \in By(p)
          PROVE  x \in Tokens(id, FALSE)
      <3>1. PICK i \in DOMAIN handled[p] :
                /\ x = <<p, i>>
                /\ handled[p][i].id = id /\ ~handled[p][i].marker
        BY <2>3
      <3>2. /\ i \in 1..Len(handled[p]) /\ i \in Int
            /\ handled[p][i].marker = FALSE
        <4>1. /\ handled[p] \in Seq(Dispatch)
              /\ DOMAIN handled[p] = 1..Len(handled[p])
          BY <2>1, LineLengths, LenProperties
        <4>2. handled[p][i] \in Dispatch
          BY <4>1, ElementOfSeq
        <4> QED
          BY <3>1, <4>1, <4>2 DEF Dispatch
      <3> QED
        BY <3>1, <3>2 DEF Tokens, Token, Slot
    <2> HIDE DEF By
    <2>4. Results(id) \subseteq Tokens(id, FALSE)
      BY <2>2, <2>3
    <2>5. IsFiniteSet(Tokens(id, FALSE)) /\ Cardinality(Tokens(id, FALSE)) <= generation
      BY <2>1 DEF TokenInv
    <2> DEFINE T == Tokens(id, FALSE)
    <2>6. Results(id) \subseteq T /\ IsFiniteSet(T) /\ Cardinality(T) <= generation
      BY <2>4, <2>5
    <2> HIDE DEF T
    <2>7. /\ Cardinality(Results(id)) <= Cardinality(T)
          /\ Cardinality(Results(id)) \in Nat /\ Cardinality(T) \in Nat
      BY <2>6, FS_Subset, FS_CardinalityType
    <2> QED
      BY <2>1, <2>6, <2>7
  <1>2. Init => TokenInv(FALSE)
    BY TokenInit
  <1>3. TokenInv(FALSE) /\ [Next]_vars => TokenInv(FALSE)'
    BY TokenNext
  <1> QED
    BY <1>1, <1>2, <1>3, PTL DEF Spec


-----------------------------------------------------------------------------
(* What is counted for a batch.  A request may be counted once for every    *)
(* token that became its marker, so the count of a batch is not the number  *)
(* of its requests; it is the number of increments.                         *)

\* The i-th dispatch of p is a marker whose HINCRBY took effect for rk.
IncrementAt(rk, p, i) ==
    /\ i \in 1..Len(handled[p])
    /\ handled[p][i].marker /\ handled[p][i].ok /\ handled[p][i].rk = rk

Increments(rk) == {t \in Proc \X Int : IncrementAt(rk, t[1], t[2])}

Numbers == [rk \in RoutingKey |-> Cardinality(Increments(rk))]

TallyInv ==
    /\ Typed
    /\ \A rk \in RoutingKey : IsFiniteSet(Increments(rk))
    /\ Tally(Numbers)

(* A dispatch is an increment of rk or leaves the increments alone.         *)
LEMMA IncrementsGrow ==
    ASSUME ProcessTyped, NEW p \in Proc, NEW d \in Dispatch,
           handled' = [handled EXCEPT ![p] = Append(@, d)], NEW rk,
           IsFiniteSet(Increments(rk))
    PROVE  /\ IsFiniteSet(Increments(rk)')
           /\ Cardinality(Increments(rk)) \in Nat
           /\ Cardinality(Increments(rk)') \in Nat
           /\ Cardinality(Increments(rk)) <= Cardinality(Increments(rk)')
           /\ d.marker /\ d.ok /\ d.rk = rk =>
                  Cardinality(Increments(rk)') = Cardinality(Increments(rk)) + 1
  <1>1. /\ handled \in [Proc -> Seq(Dispatch)]
        /\ handled[p] \in Seq(Dispatch) /\ Len(handled[p]) \in Nat
    BY LineLengths DEF ProcessTyped, ProcessTypeOK
  <1>2. \A q \in Proc \ {p} : handled'[q] = handled[q]
    BY <1>1
  <1>3. handled'[p] = Append(handled[p], d)
    BY <1>1
  <1>4. /\ Len(handled'[p]) = Len(handled[p]) + 1
        /\ \A i \in 1..Len(handled[p]) : handled'[p][i] = handled[p][i]
        /\ handled'[p][Len(handled[p]) + 1] = d
    BY <1>1, <1>3, AppendProperties
  <1> DEFINE x == <<p, Len(handled[p]) + 1>>
  <1>5. \A q \in Proc \ {p}, i \in Int :
            IncrementAt(rk, q, i)' <=> IncrementAt(rk, q, i)
    BY <1>2 DEF IncrementAt
  <1>6. \A i \in Int : IncrementAt(rk, p, i)' <=>
            \/ IncrementAt(rk, p, i)
            \/ i = Len(handled[p]) + 1 /\ d.marker /\ d.ok /\ d.rk = rk
    BY <1>1, <1>4 DEF IncrementAt
  <1>7. x \in Proc \X Int /\ x \notin Increments(rk)
    BY <1>1 DEF Increments, IncrementAt
  <1>8. CASE d.marker /\ d.ok /\ d.rk = rk
    <2>1. Increments(rk)' = Increments(rk) \cup {x}
      <3>1. \A t \in Proc \X Int :
                IncrementAt(rk, t[1], t[2])' <=>
                    IncrementAt(rk, t[1], t[2]) \/ t = x
        BY <1>5, <1>6, <1>8
      <3> HIDE DEF x
      <3> QED
        BY <1>7, <3>1 DEF Increments
    <2> HIDE DEF x
    <2>2. PICK S : S = Increments(rk)
      OBVIOUS
    <2>3. /\ IsFiniteSet(S \cup {x}) /\ Cardinality(S \cup {x}) = Cardinality(S) + 1
          /\ Cardinality(S) \in Nat /\ Cardinality(S \cup {x}) \in Nat
      BY <1>7, <2>2, FS_AddElement, FS_CardinalityType
    <2> QED
      BY <2>1, <2>2, <2>3
  <1>9. CASE ~(d.marker /\ d.ok /\ d.rk = rk)
    <2>1. \A t \in Proc \X Int :
              IncrementAt(rk, t[1], t[2])' <=> IncrementAt(rk, t[1], t[2])
      BY <1>5, <1>6, <1>9
    <2>2. Increments(rk)' = Increments(rk)
      BY <2>1 DEF Increments
    <2> QED
      BY <1>9, <2>2, FS_CardinalityType
  <1> QED
    BY <1>8, <1>9

(* Nothing is counted in the beginning.                                     *)
LEMMA TallyInvInit == Init => TallyInv
  <1> SUFFICES ASSUME Init PROVE TallyInv
    OBVIOUS
  <1>1. \A p \in Proc : handled[p] = <<>>
    BY DEF Init, ProcessInit
  <1>2. \A rk : \A p \in Proc, i \in Int : ~IncrementAt(rk, p, i)
    BY <1>1, NoElements DEF IncrementAt
  <1>3. \A rk : Increments(rk) = {}
    BY <1>2 DEF Increments
  <1>4. IsFiniteSet({}) /\ Cardinality({}) = 0
    BY FS_EmptySet
  <1>5. Numbers \in [RoutingKey -> Nat]
    BY <1>3, <1>4 DEF Numbers
  <1>6. Tally(Numbers)
    BY <1>5, TallyInit DEF Init
  <1> QED
    BY <1>3, <1>4, <1>6, TypedInit DEF TallyInv

(* Increments grow by the one that HINCRBY makes, and stand for whatever    *)
(* the buffers, the workers and the status hold.                            *)
LEMMA TallyInvNext == TallyInv /\ [Next]_vars => TallyInv'
  <1> SUFFICES ASSUME TallyInv, [Next]_vars PROVE TallyInv'
    OBVIOUS
  <1>1. Typed /\ Typed' /\ ProcessTyped /\ ProcessTyped'
    <2>1. Typed' => ProcessTyped'
      BY TypedProcesses, PTL
    <2> QED
      BY <2>1, TypedNext, TypedProcesses DEF TallyInv
  <1>2. \A rk \in RoutingKey : /\ IsFiniteSet(Increments(rk))
                               /\ Cardinality(Increments(rk)) \in Nat
    BY FS_CardinalityType DEF TallyInv
  <1>3. PICK N : N = Numbers
    OBVIOUS
  <1>4. PICK M : M = Numbers'
    OBVIOUS
  <1>5. \A rk \in RoutingKey : /\ N[rk] = Cardinality(Increments(rk))
                               /\ M[rk] = Cardinality(Increments(rk)')
    BY <1>3, <1>4 DEF Numbers
  <1>6. N \in [RoutingKey -> Nat] /\ Tally(N)
    <2>1. N = [rk \in RoutingKey |-> Cardinality(Increments(rk))]
      BY <1>3 DEF Numbers
    <2> QED
      BY <1>2, <1>3, <2>1 DEF TallyInv
  <1>7. ASSUME \A rk \in RoutingKey :
                   /\ IsFiniteSet(Increments(rk)')
                   /\ Cardinality(Increments(rk)') \in Nat
                   /\ Cardinality(Increments(rk)) <= Cardinality(Increments(rk)')
        PROVE  NoLess(N, M) /\ (Tally(M)' => TallyInv')
    <2>1. M = [rk \in RoutingKey |-> Cardinality(Increments(rk)')]
      BY <1>4 DEF Numbers
    <2>2. NoLess(N, M)
      BY <1>5, <1>6, <1>7, <2>1 DEF NoLess
    <2>3. Tally(M)' => Tally(Numbers)'
      BY <1>4 DEF Tally
    <2> QED
      BY <1>1, <1>7, <2>2, <2>3 DEF TallyInv
  <1>8. ASSUME handled' = handled
        PROVE  NoLess(N, M) /\ (Tally(M)' => TallyInv')
    <2>1. \A rk : Increments(rk)' = Increments(rk)
      BY <1>8 DEF Increments, IncrementAt
    <2> QED
      BY <1>2, <1>7, <2>1
  <1>9. ASSUME \/ UNCHANGED <<workerVars, backendVars>>
               \/ \E rk \in RoutingKey : Expire(rk)
               \/ \E p \in Proc : \/ ConsumerStep(p) \/ ConsumerReturn(p)
                                  \/ Signal(p) \/ End(p)
        PROVE  TallyInv'
    <2>1. NoLess(N, M) /\ (Tally(M)' => TallyInv')
      BY <1>8, <1>9, HandledKept
    <2> QED
      BY <1>1, <1>6, <1>9, <2>1, TallyOther
  <1>10. ASSUME NEW p \in Proc, WorkerStep(p) \/ WorkerReturn(p)
         PROVE  TallyInv'
    <2>1. ASSUME NEW d \in Dispatch,
                 handled' = [handled EXCEPT ![p] = Append(@, d)]
          PROVE  /\ NoLess(N, M) /\ (Tally(M)' => TallyInv')
                 /\ d.marker /\ d.ok /\ d.rk \in RoutingKey => N[d.rk] < M[d.rk]
      <3>1. \A rk \in RoutingKey :
                /\ IsFiniteSet(Increments(rk)')
                /\ Cardinality(Increments(rk)') \in Nat
                /\ Cardinality(Increments(rk)) <= Cardinality(Increments(rk)')
                /\ d.marker /\ d.ok /\ d.rk = rk =>
                       Cardinality(Increments(rk)')
                           = Cardinality(Increments(rk)) + 1
        BY <1>1, <1>2, <2>1, IncrementsGrow
      <3> QED
        BY <1>2, <1>5, <1>7, <3>1
    <2>2. NoLess(N, M) /\ (Tally(M)' => TallyInv')
      <3>1. Takes(p) \/ (\E d \in Dispatch : Dispatches(p, d)) \/ Rests(p)
        BY <1>1, <1>10, WorkerMoves
      <3> QED
        BY <1>8, <2>1, <3>1 DEF Takes, Dispatches, Rests
    <2>3. IncrementCompletion(p) /\ buffer' # buffer =>
              N[hand[p].rk] < M[hand[p].rk]
      BY <1>1, <2>1, CountedMarker
    <2> QED
      BY <1>1, <1>6, <1>10, <2>2, <2>3, TallyWorker
  <1>11. CASE UNCHANGED vars
    BY <1>9, <1>11 DEF vars, processVars
  <1>12. ASSUME NEW r \in Payloads, Produce(r)
         PROVE  TallyInv'
    BY <1>9, <1>12 DEF Produce
  <1>13. ASSUME NEW p \in Proc,
                \/ Start(p) \/ Cancel(p) \/ Leave(p)
                \/ Assign(p) \/ Revoke(p)
         PROVE  TallyInv'
    BY <1>9, <1>13
    DEF Start, Begin, Cancel, Leave, Assign, Revoke, processVars
  <1>14. ASSUME NEW p \in Proc,
                \/ FetchMessage(p) \/ SendDataFetcher(p) \/ DeadLetter(p)
                \/ CommitMessages(p)
         PROVE  TallyInv'
    BY <1>9, <1>14
    DEF FetchMessage, SendDataFetcher, DeadLetter, CommitMessages
  <1>15. ASSUME NEW p \in Proc, Shared(p)
         PROVE  TallyInv'
    BY <1>9, <1>10, <1>15 DEF Shared
  <1> QED
    BY <1>9, <1>11, <1>12, <1>13, <1>14, <1>15
    DEF Next, Join, Rebalance, FetchNothing

(* If every i stands for at most g members of S, then S has at most g times *)
(* as many members as there are i.                                          *)
LEMMA FibresBound ==
    ASSUME NEW S, NEW I, IsFiniteSet(I), NEW f \in [S -> I], NEW g \in Nat,
           \A i \in I : /\ IsFiniteSet({x \in S : f[x] = i})
                        /\ Cardinality({x \in S : f[x] = i}) <= g
    PROVE  /\ IsFiniteSet(S)
           /\ Cardinality(S) <= Cardinality(I) * g
  <1> DEFINE Fibre(i) == {x \in S : f[x] = i}
             Lists(h, i) == \A x \in Fibre(i) : \E k \in 1..g : h[k] = x
             list(i) == CHOOSE h : Lists(h, i)
             place(x) == CHOOSE k \in 1..g : list(f[x])[k] = x
             F == [x \in S |-> <<f[x], place(x)>>]
  <1>1. \A i \in I : \E h : Lists(h, i)
    <2> SUFFICES ASSUME NEW i \in I PROVE \E h : Lists(h, i)
      OBVIOUS
    <2>1. IsFiniteSet(Fibre(i)) /\ Cardinality(Fibre(i)) <= g
      OBVIOUS
    <2> HIDE DEF Fibre
    <2>2. /\ Cardinality(Fibre(i)) \in Nat
          /\ Bijection(1..Cardinality(Fibre(i)), Fibre(i)) # {}
      BY <2>1, FS_CardinalityType DEF ExistsBijection
    <2>3. PICK h \in Bijection(1..Cardinality(Fibre(i)), Fibre(i)) : TRUE
      BY <2>2
    <2>4. \A x \in Fibre(i) : \E k \in 1..Cardinality(Fibre(i)) : h[k] = x
      BY <2>3 DEF Bijection, Surjection
    <2>5. Lists(h, i)
      BY <2>1, <2>2, <2>4
    <2> QED
      BY <2>5
  <1>2. \A i \in I : Lists(list(i), i)
    <2> HIDE DEF Lists
    <2> QED
      BY <1>1
  <1>3. \A x \in S : place(x) \in 1..g /\ list(f[x])[place(x)] = x
    <2> SUFFICES ASSUME NEW x \in S
                 PROVE  place(x) \in 1..g /\ list(f[x])[place(x)] = x
      OBVIOUS
    <2>1. f[x] \in I /\ x \in Fibre(f[x])
      OBVIOUS
    <2>2. \E k \in 1..g : list(f[x])[k] = x
      <3>1. Lists(list(f[x]), f[x])
        BY <1>2, <2>1
      <3> HIDE DEF list, Fibre
      <3> QED
        BY <2>1, <3>1
    <2> HIDE DEF list, Lists, Fibre
    <2> QED
      BY <2>2
  <1> HIDE DEF list, place, Lists, Fibre
  <1>4. F \in [S -> I \X (1..g)]
    BY <1>3
  <1>5. \A x, y \in S : F[x] = F[y] => x = y
    <2> SUFFICES ASSUME NEW x \in S, NEW y \in S, F[x] = F[y]
                 PROVE  x = y
      OBVIOUS
    <2>1. f[x] = f[y] /\ place(x) = place(y)
      OBVIOUS
    <2> QED
      BY <1>3, <2>1
  <1> HIDE DEF F
  <1>6. F \in Injection(S, I \X (1..g))
    BY <1>4, <1>5 DEF Injection, IsInjective
  <1>7. IsFiniteSet(1..g) /\ Cardinality(1..g) = g
    BY FS_Interval
  <1>8. /\ IsFiniteSet(I \X (1..g))
        /\ Cardinality(I \X (1..g)) = Cardinality(I) * g
    BY <1>7, FS_Product
  <1> QED
    BY <1>6, <1>8, FS_Injection

(* The increments of one request are markers of it, each with its token.    *)
LEMMA IncrementsBound ==
    ASSUME TallyInv, TokenInv(TRUE), NEW rk \in RoutingKey
    PROVE  /\ Cardinality(Counted(rk)) \in Nat
           /\ Cardinality(Increments(rk)) <= generation * Cardinality(Counted(rk))
  <1>1. ProcessTyped /\ generation \in Nat
    BY TypedProcesses DEF TallyInv, Typed, TypeOK
  <1>2. \A p \in Proc : /\ handled[p] \in Seq(Dispatch) /\ Len(handled[p]) \in Nat
                        /\ DOMAIN handled[p] = 1..Len(handled[p])
    BY <1>1, LineLengths, LenProperties
  <1>3. \A p \in Proc : \A i \in 1..Len(handled[p]) :
            /\ handled[p][i] \in Range(handled[p])
            /\ handled[p][i].id \in Nat /\ handled[p][i].marker \in BOOLEAN
    <2> SUFFICES ASSUME NEW p \in Proc, NEW i \in 1..Len(handled[p])
                 PROVE  /\ handled[p][i] \in Range(handled[p])
                        /\ handled[p][i].id \in Nat
                        /\ handled[p][i].marker \in BOOLEAN
      OBVIOUS
    <2>1. handled[p][i] \in Dispatch
      BY <1>2, ElementOfSeq
    <2> QED
      BY <1>2, <2>1 DEF Dispatch, Range
  <1> DEFINE By(p) == {d.id : d \in {x \in Range(handled[p]) :
                                        x.marker /\ x.ok /\ x.rk = rk}}
             S == Increments(rk)
             I == Counted(rk)
             f == [t \in S |-> handled[t[1]][t[2]].id]
  <1>4. I = UNION {By(p) : p \in Proc}
    BY DEF Counted
  <1>5. f \in [S -> I]
    <2> SUFFICES ASSUME NEW t \in S PROVE handled[t[1]][t[2]].id \in I
      OBVIOUS
    <2>1. /\ t[1] \in Proc /\ t[2] \in 1..Len(handled[t[1]])
          /\ handled[t[1]][t[2]].marker /\ handled[t[1]][t[2]].ok
          /\ handled[t[1]][t[2]].rk = rk
      BY DEF Increments, IncrementAt
    <2>2. handled[t[1]][t[2]].id \in By(t[1])
      BY <1>3, <2>1
    <2> HIDE DEF By, I
    <2> QED
      BY <1>4, <2>1, <2>2
  <1>6. \A id \in I : \E t \in S : f[t] = id
    <2> SUFFICES ASSUME NEW id \in I PROVE \E t \in S : f[t] = id
      OBVIOUS
    <2>1. PICK p \in Proc : id \in By(p)
      <3> HIDE DEF By, I
      <3> QED
        BY <1>4
    <2>2. PICK x \in Range(handled[p]) : x.marker /\ x.ok /\ x.rk = rk /\ x.id = id
      BY <2>1
    <2>3. PICK i \in 1..Len(handled[p]) : handled[p][i] = x
      BY <1>2 DEF Range
    <2>4. <<p, i>> \in S
      BY <1>2, <2>2, <2>3 DEF Increments, IncrementAt
    <2>5. f[<<p, i>>] = id
      BY <2>2, <2>3, <2>4
    <2> QED
      BY <2>4, <2>5
  <1>7. \A id \in I : /\ IsFiniteSet({t \in S : f[t] = id})
                      /\ Cardinality({t \in S : f[t] = id}) <= generation
    <2> SUFFICES ASSUME NEW id \in I
                 PROVE  /\ IsFiniteSet({t \in S : f[t] = id})
                        /\ Cardinality({t \in S : f[t] = id}) <= generation
      OBVIOUS
    <2> DEFINE T == Tokens(id, TRUE)
               U == {t \in S : f[t] = id}
    <2>1. ASSUME NEW t \in U PROVE t \in T
      <3>1. /\ t \in Proc \X Int /\ t[1] \in Proc
            /\ t[2] \in 1..Len(handled[t[1]])
            /\ handled[t[1]][t[2]].marker /\ handled[t[1]][t[2]].id = id
        BY DEF Increments, IncrementAt
      <3>2. handled[t[1]][t[2]].marker = TRUE
        BY <1>3, <3>1
      <3> QED
        BY <3>1, <3>2 DEF Tokens, Token, Slot
    <2>2. id \in Nat
      <3>1. PICK t \in S : f[t] = id
        BY <1>6
      <3> QED
        BY <1>3, <3>1 DEF Increments, IncrementAt
    <2>3. IsFiniteSet(T) /\ Cardinality(T) <= generation
      BY <2>2 DEF TokenInv
    <2> HIDE DEF T, U
    <2>4. U \in SUBSET T
      BY <2>1
    <2>5. /\ IsFiniteSet(U) /\ Cardinality(U) <= Cardinality(T)
          /\ Cardinality(U) \in Nat /\ Cardinality(T) \in Nat
      BY <2>3, <2>4, FS_Subset, FS_CardinalityType
    <2>6. IsFiniteSet(U) /\ Cardinality(U) <= generation
      BY <1>1, <2>3, <2>5
    <2> QED
      BY <2>6 DEF U
  <1>8. IsFiniteSet(S)
    BY DEF TallyInv
  <1> HIDE DEF S, I, f
  <1>9. IsFiniteSet(I) /\ Cardinality(I) \in Nat
    <2>1. f \in Surjection(S, I)
      BY <1>5, <1>6 DEF Surjection
    <2> QED
      BY <1>8, <2>1, FS_Surjection, FS_CardinalityType
  <1>10. Cardinality(S) <= Cardinality(I) * generation
    BY <1>1, <1>5, <1>7, <1>9, FibresBound
  <1>11. Cardinality(I) * generation = generation * Cardinality(I)
    BY <1>1, <1>9
  <1> QED
    BY <1>9, <1>10, <1>11 DEF S, I

(* EarlyOnlyByReassignment holds: whatever is fetched again after a         *)
(* rebalance, a crash or a restart is counted again, and each assignment    *)
(* counts a request at most once; so a batch of different requests is       *)
(* announced early only if the partition was assigned more than once.       *)
THEOREM EarlyOnlyByReassignmentHolds == Spec => []EarlyOnlyByReassignment
  <1>1. TallyInv /\ TokenInv(TRUE) => EarlyOnlyByReassignment
    <2> SUFFICES ASSUME TallyInv, TokenInv(TRUE), NEW rk \in RoutingKey,
                        status[rk] = BUFFERED
                 PROVE  generation * Cardinality(Counted(rk)) >= TotalMessages[rk]
      BY DEF EarlyOnlyByReassignment
    <2>1. Cardinality(Increments(rk)) >= TotalMessages[rk]
      BY DEF TallyInv, Tally, Numbers
    <2>2. /\ Cardinality(Counted(rk)) \in Nat
          /\ Cardinality(Increments(rk)) <= generation * Cardinality(Counted(rk))
      BY IncrementsBound
    <2>3. /\ Cardinality(Increments(rk)) \in Nat /\ TotalMessages[rk] \in Int
          /\ generation \in Nat
      BY TypedProcesses, TallyTypes, FS_CardinalityType
      DEF TallyInv, Typed, TypeOK
    <2>4. PICK x \in Nat : x = generation * Cardinality(Counted(rk))
      BY <2>2, <2>3
    <2> QED
      BY <2>1, <2>2, <2>3, <2>4
  <1>2. Init => TokenInv(TRUE)
    BY TokenInit
  <1>3. TokenInv(TRUE) /\ [Next]_vars => TokenInv(TRUE)'
    BY TokenNext
  <1> QED
    BY <1>1, <1>2, <1>3, TallyInvInit, TallyInvNext, PTL DEF Spec


-----------------------------------------------------------------------------
(* Completion after data.  The marker of a message has a place behind its   *)
(* result in the line of the same process, and no step changes an order.    *)

\* The result of message id has a place before i in the line of p.
DataBefore(p, i, id) == \E j \in Int : j < i /\ Slot(p, j, id, FALSE)

MarkedInOrder(p) ==
    \A id \in Nat :
        /\ \A i \in Int : Slot(p, i, id, TRUE) => DataBefore(p, i, id)
        /\ pc[p] = "marker" /\ cur[p] = id =>
               \E j \in Int : Slot(p, j, id, FALSE)

InOrderInv == Typed /\ \A p \in Proc : MarkedInOrder(p)

(* The worker takes an item: none is lost.                                  *)
LEMMA SlotTaken ==
    ASSUME ProcessTyped, NEW p \in Proc, Takes(p), NEW i, NEW id, NEW m,
           Slot(p, i, id, m)
    PROVE  Slot(p, i, id, m)'
  <1> DEFINE h == Len(handled[p])
             s == queue[p]
  <1>1. h \in Nat /\ s \in Seq(Item) /\ Len(s) \in Nat
    BY LineLengths
  <1>2. /\ wpc[p] = "idle" /\ wpc'[p] = "handle" /\ handled'[p] = handled[p]
        /\ hand'[p] = Head(s) /\ s # <<>> /\ queue'[p] = Tail(s)
    BY DEF Takes, ProcessTyped, ProcessTypeOK
  <1>3. /\ Len(Tail(s)) = Len(s) - 1 /\ Len(s) >= 1
        /\ \A k \in 1..(Len(s) - 1) : Tail(s)[k] = s[k + 1]
        /\ Head(s) = s[1]
    <2>1. Len(s) # 0
      BY <1>1, <1>2, EmptySeq
    <2> QED
      BY <1>1, <1>2, <2>1, HeadTailProperties
  <1>4. Held(p) = 0 /\ Held(p)' = 1
    BY <1>2 DEF Held
  <1>5. CASE /\ i \in 1..h
             /\ handled[p][i].id = id /\ handled[p][i].marker = m
    BY <1>2, <1>5 DEF Slot
  <1>6. ASSUME NEW k \in 1..Len(s), i = h + 0 + k,
               s[k].id = id, s[k].marker = m
        PROVE  Slot(p, i, id, m)'
    <2>1. CASE k = 1
      BY <1>1, <1>2, <1>3, <1>6, <2>1 DEF Slot
    <2>2. CASE k # 1
      <3> HIDE DEF h, s
      <3>1. k - 1 \in 1..(Len(s) - 1) /\ i = h + 1 + (k - 1) /\ (k - 1) + 1 = k
        BY <1>1, <1>6, <2>2
      <3>2. Tail(s)[k - 1] = s[k] /\ k - 1 \in 1..Len(Tail(s))
        BY <1>3, <3>1
      <3> QED
        BY <1>2, <1>4, <1>6, <3>1, <3>2 DEF Slot, h, s
    <2> QED
      BY <2>1, <2>2
  <1>7. \/ /\ i \in 1..h
           /\ handled[p][i].id = id /\ handled[p][i].marker = m
        \/ \E k \in 1..Len(s) : /\ i = h + 0 + k
                                /\ s[k].id = id /\ s[k].marker = m
    BY <1>2, <1>4 DEF Slot
  <1> QED
    BY <1>5, <1>6, <1>7

(* The worker dispatches what it holds: none is lost.                       *)
LEMMA SlotDispatched ==
    ASSUME ProcessTyped, NEW p \in Proc, NEW d \in Dispatch, Dispatches(p, d),
           NEW i, NEW id, NEW m, Slot(p, i, id, m)
    PROVE  Slot(p, i, id, m)'
  <1> DEFINE h == Len(handled[p])
             s == queue[p]
  <1>1. h \in Nat /\ Len(s) \in Nat /\ handled[p] \in Seq(Dispatch)
    BY LineLengths
  <1>2. /\ wpc[p] = "handle" /\ wpc'[p] # "handle" /\ queue'[p] = s
        /\ handled'[p] = Append(handled[p], d)
        /\ d.id = hand[p].id /\ d.marker = hand[p].marker
    BY DEF Dispatches, ProcessTyped, ProcessTypeOK
  <1>3. /\ Len(handled'[p]) = h + 1 /\ handled'[p][h + 1] = d
        /\ \A k \in 1..h : handled'[p][k] = handled[p][k]
    BY <1>1, <1>2, AppendProperties
  <1>4. Held(p) = 1 /\ Held(p)' = 0
    BY <1>2 DEF Held
  <1>5. CASE /\ i \in 1..h
             /\ handled[p][i].id = id /\ handled[p][i].marker = m
    BY <1>1, <1>3, <1>5 DEF Slot
  <1>6. CASE i = h + 1 /\ hand[p].id = id /\ hand[p].marker = m
    BY <1>1, <1>2, <1>3, <1>6 DEF Slot
  <1>7. ASSUME NEW k \in 1..Len(s), i = h + 1 + k,
               s[k].id = id, s[k].marker = m
        PROVE  Slot(p, i, id, m)'
    <2>1. i = (h + 1) + 0 + k
      BY <1>1, <1>7
    <2> QED
      BY <1>2, <1>3, <1>4, <1>7, <2>1 DEF Slot
  <1>8. \/ /\ i \in 1..h
           /\ handled[p][i].id = id /\ handled[p][i].marker = m
        \/ i = h + 1 /\ hand[p].id = id /\ hand[p].marker = m
        \/ \E k \in 1..Len(s) : /\ i = h + 1 + k
                                /\ s[k].id = id /\ s[k].marker = m
    BY <1>2, <1>4 DEF Slot
  <1> QED
    BY <1>5, <1>6, <1>7, <1>8

(* The consumer queues an item: the others stay, and it gets the next place. *)
LEMMA SlotPushed ==
    ASSUME ProcessTyped, NEW p \in Proc, NEW it \in Item,
           queue' = [queue EXCEPT ![p] = Append(@, it)],
           UNCHANGED <<wpc, hand, handled>>, NEW j \in Int,
           j = Len(handled[p]) + Held(p) + Len(queue[p]) + 1
    PROVE  /\ \A i, id, m : Slot(p, i, id, m) => Slot(p, i, id, m)' /\ i < j
           /\ Slot(p, j, it.id, it.marker)'
  <1> DEFINE h == Len(handled[p])
             s == queue[p]
  <1>1. /\ h \in Nat /\ s \in Seq(Item) /\ Len(s) \in Nat /\ Held(p) \in Nat
        /\ Held(p)' = Held(p)
    BY LineLengths DEF Held
  <1>6. /\ \A k \in Int : k <= Len(s) => h + Held(p) + k < j
        /\ Held(p) = 1 => h + 1 < j
        /\ j = h + Held(p) + (Len(s) + 1) /\ Len(s) + 1 \in 1..(Len(s) + 1)
    <2>1. PICK l \in Nat : l = Len(s)
      BY <1>1
    <2>2. PICK a \in Nat : a = h
      BY <1>1
    <2>3. PICK b \in Nat : b = Held(p)
      BY <1>1
    <2>4. j = a + b + l + 1
      BY <2>1, <2>2, <2>3
    <2>5. /\ \A k \in Int : k <= l => a + b + k < j
          /\ b = 1 => a + 1 < j
          /\ j = a + b + (l + 1) /\ l + 1 \in 1..(l + 1)
      BY <2>4
    <2> HIDE DEF h, s
    <2> QED
      BY <2>1, <2>2, <2>3, <2>5
  <1>2. queue'[p] = Append(s, it) /\ handled'[p] = handled[p]
    BY DEF ProcessTyped, ProcessTypeOK
  <1>3. /\ Len(queue'[p]) = Len(s) + 1 /\ queue'[p][Len(s) + 1] = it
        /\ \A k \in 1..Len(s) : queue'[p][k] = s[k]
    BY <1>1, <1>2, AppendProperties
  <1>4. ASSUME NEW i, NEW id, NEW m, Slot(p, i, id, m)
        PROVE  Slot(p, i, id, m)' /\ i < j
    <2>1. CASE i \in 1..h /\ handled[p][i].id = id /\ handled[p][i].marker = m
      BY <1>1, <1>2, <2>1 DEF Slot
    <2>2. CASE /\ wpc[p] = "handle" /\ i = h + 1
               /\ hand[p].id = id /\ hand[p].marker = m
      <3>1. Held(p) = 1
        BY <2>2 DEF Held
      <3>2. i < j
        BY <1>6, <2>2, <3>1
      <3>3. /\ wpc'[p] = "handle" /\ i = Len(handled'[p]) + 1
            /\ hand'[p].id = id /\ hand'[p].marker = m
        BY <1>2, <2>2
      <3> QED
        BY <3>2, <3>3 DEF Slot
    <2>3. ASSUME NEW k \in 1..Len(s), i = h + Held(p) + k,
                 s[k].id = id, s[k].marker = m
          PROVE  Slot(p, i, id, m)' /\ i < j
      <3>1. k \in 1..Len(queue'[p]) /\ queue'[p][k] = s[k] /\ i < j
        BY <1>1, <1>3, <2>3
      <3> QED
        BY <1>1, <1>2, <2>3, <3>1 DEF Slot
    <2> QED
      BY <1>4, <2>1, <2>2, <2>3 DEF Slot
  <1>5. Slot(p, j, it.id, it.marker)'
    <2>1. Len(s) + 1 \in 1..Len(queue'[p])
      BY <1>3, <1>6
    <2> QED
      BY <1>1, <1>2, <1>3, <1>6, <2>1 DEF Slot
  <1> QED
    BY <1>4, <1>5


(* A step that keeps p's results in their places and queues no marker.      *)
LEMMA InOrderKept ==
    ASSUME NEW p \in Proc, MarkedInOrder(p),
           \A i \in Int, id \in Nat :
               /\ Slot(p, i, id, TRUE)' => Slot(p, i, id, TRUE)
               /\ Slot(p, i, id, FALSE) => Slot(p, i, id, FALSE)',
           pc'[p] = "marker" => pc[p] = "marker" /\ cur'[p] = cur[p]
    PROVE  MarkedInOrder(p)'
  <1> SUFFICES ASSUME NEW id \in Nat
               PROVE  /\ \A i \in Int :
                             Slot(p, i, id, TRUE)' => DataBefore(p, i, id)'
                      /\ pc'[p] = "marker" /\ cur'[p] = id =>
                             \E j \in Int : Slot(p, j, id, FALSE)'
    BY DEF MarkedInOrder
  <1>1. ASSUME NEW i \in Int, Slot(p, i, id, TRUE)'
        PROVE  DataBefore(p, i, id)'
    <2>1. PICK j \in Int : j < i /\ Slot(p, j, id, FALSE)
      BY <1>1 DEF MarkedInOrder, DataBefore
    <2> QED
      BY <2>1 DEF DataBefore
  <1>2. ASSUME pc'[p] = "marker", cur'[p] = id
        PROVE  \E j \in Int : Slot(p, j, id, FALSE)'
    BY <1>2 DEF MarkedInOrder
  <1> QED
    BY <1>1, <1>2

(* Process p acts, and the others rest.                                     *)
LEMMA InOrderStep ==
    ASSUME InOrderInv, Typed', NEW p \in Proc, MarkedInOrder(p)',
           \A q \in Proc \ {p} :
               /\ queue'[q] = queue[q] /\ handled'[q] = handled[q]
               /\ wpc'[q] = wpc[q] /\ hand'[q] = hand[q]
               /\ pc'[q] = pc[q] /\ cur'[q] = cur[q]
    PROVE  InOrderInv'
  <1>1. ASSUME NEW q \in Proc \ {p} PROVE MarkedInOrder(q)'
    <2>1. MarkedInOrder(q)
      BY DEF InOrderInv
    <2>2. \A i, id, m : Slot(q, i, id, m)' <=> Slot(q, i, id, m)
      BY SlotSame
    <2> QED
      BY <2>1, <2>2, InOrderKept
  <1> QED
    BY <1>1 DEF InOrderInv

(* The consumer queues a result, or the marker behind it.                   *)
LEMMA InOrderPush ==
    ASSUME InOrderInv, Typed', NEW p \in Proc, NEW it \in Item,
           queue' = [queue EXCEPT ![p] = Append(@, it)],
           UNCHANGED <<wpc, hand, handled, cur>>, it.id = cur[p],
           it.marker => pc[p] = "marker",
           pc'[p] = "marker" => ~it.marker,
           \A q \in Proc \ {p} : pc'[q] = pc[q]
    PROVE  InOrderInv'
  <1>1. ProcessTyped /\ MarkedInOrder(p)
    BY TypedProcesses DEF InOrderInv
  <1>2. /\ Len(handled[p]) \in Nat /\ Len(queue[p]) \in Nat
        /\ Held(p) \in {0, 1}
    BY <1>1, LineLengths
  <1>3. PICK j \in Int : j = Len(handled[p]) + Held(p) + Len(queue[p]) + 1
    BY <1>2
  <1>4. /\ \A i, id, m : Slot(p, i, id, m) => Slot(p, i, id, m)' /\ i < j
        /\ Slot(p, j, it.id, it.marker)'
    BY <1>1, <1>3, SlotPushed
  <1>5. it.marker \in BOOLEAN
    BY DEF Item
  <1>6. MarkedInOrder(p)'
    <2> SUFFICES ASSUME NEW id \in Nat
                 PROVE  /\ \A i \in Int :
                               Slot(p, i, id, TRUE)' => DataBefore(p, i, id)'
                        /\ pc'[p] = "marker" /\ cur'[p] = id =>
                               \E k \in Int : Slot(p, k, id, FALSE)'
      BY DEF MarkedInOrder
    <2>1. ASSUME NEW i \in Int, Slot(p, i, id, TRUE)'
          PROVE  DataBefore(p, i, id)'
      <3>1. Slot(p, i, id, TRUE) \/ (i = j /\ id = it.id /\ it.marker = TRUE)
        BY <1>1, <1>3, <2>1, SlotPush
      <3>2. CASE Slot(p, i, id, TRUE)
        <4>1. PICK k \in Int : k < i /\ Slot(p, k, id, FALSE)
          BY <1>1, <3>2 DEF MarkedInOrder, DataBefore
        <4> QED
          BY <1>4, <4>1 DEF DataBefore
      <3>3. CASE i = j /\ id = it.id /\ it.marker = TRUE
        <4>1. PICK k \in Int : Slot(p, k, id, FALSE)
          BY <1>1, <3>3 DEF MarkedInOrder
        <4> QED
          BY <1>4, <3>3, <4>1 DEF DataBefore
      <3> QED
        BY <3>1, <3>2, <3>3
    <2>2. ASSUME pc'[p] = "marker", cur'[p] = id
          PROVE  \E k \in Int : Slot(p, k, id, FALSE)'
      <3>1. it.marker = FALSE /\ it.id = id
        BY <1>5, <2>2
      <3> QED
        BY <1>4, <3>1
    <2> QED
      BY <2>1, <2>2
  <1>7. \A q \in Proc \ {p} : queue'[q] = queue[q]
    BY <1>1 DEF ProcessTyped, ProcessTypeOK
  <1> QED
    BY <1>6, <1>7, InOrderStep

(* The process ends: what it has dispatched stays, in its order.            *)
LEMMA InOrderEnd ==
    ASSUME ProcessTyped, NEW p \in Proc, MarkedInOrder(p),
           handled'[p] = handled[p], queue'[p] = <<>>, wpc'[p] = "idle",
           pc'[p] = "down"
    PROVE  MarkedInOrder(p)'
  <1>1. /\ Len(handled[p]) \in Nat /\ Len(queue[p]) \in Nat
        /\ Held(p) \in {0, 1}
    BY LineLengths
  <1>2. \A i, id, m : Slot(p, i, id, m)' <=>
                          /\ i \in 1..Len(handled[p])
                          /\ handled[p][i].id = id /\ handled[p][i].marker = m
    BY NoElements DEF Slot
  <1> SUFFICES ASSUME NEW id \in Nat, NEW i \in Int, Slot(p, i, id, TRUE)'
               PROVE  DataBefore(p, i, id)'
    BY DEF MarkedInOrder
  <1>3. i \in 1..Len(handled[p]) /\ Slot(p, i, id, TRUE)
    BY <1>2 DEF Slot
  <1>4. PICK j \in Int : j < i /\ Slot(p, j, id, FALSE)
    BY <1>3 DEF MarkedInOrder, DataBefore
  <1>5. /\ j \in 1..Len(handled[p])
        /\ handled[p][j].id = id /\ handled[p][j].marker = FALSE
    <2>1. j < Len(handled[p])
      BY <1>1, <1>3, <1>4
    <2>2. \A k \in 1..Len(queue[p]) : j # Len(handled[p]) + Held(p) + k
      BY <1>1, <2>1
    <2>3. j # Len(handled[p]) + 1
      BY <1>1, <2>1
    <2> QED
      BY <1>4, <2>2, <2>3 DEF Slot
  <1> QED
    BY <1>2, <1>4, <1>5 DEF DataBefore

(* The worker takes from the front and dispatches what it holds.            *)
LEMMA InOrderWorker ==
    ASSUME InOrderInv, Typed', NEW p \in Proc, WorkerStep(p) \/ WorkerReturn(p)
    PROVE  InOrderInv'
  <1>1. ProcessTyped /\ MarkedInOrder(p)
    BY TypedProcesses DEF InOrderInv
  <1>2. /\ pc' = pc /\ cur' = cur
        /\ \A q \in Proc \ {p} : wpc'[q] = wpc[q] /\ hand'[q] = hand[q]
        /\ Takes(p) \/ (\E d \in Dispatch : Dispatches(p, d)) \/ Rests(p)
    BY <1>1, WorkerMoves
  <1>3. \A q \in Proc \ {p} : queue'[q] = queue[q] /\ handled'[q] = handled[q]
    BY <1>1, <1>2 DEF Takes, Dispatches, Rests, ProcessTyped, ProcessTypeOK
  <1>4. \A i, id, m : Slot(p, i, id, m)' <=> Slot(p, i, id, m)
    <2>1. CASE Takes(p)
      BY <1>1, <2>1, SlotTakes, SlotTaken
    <2>2. ASSUME NEW d \in Dispatch, Dispatches(p, d)
          PROVE  \A i, id, m : Slot(p, i, id, m)' <=> Slot(p, i, id, m)
      BY <1>1, <2>2, SlotDispatches, SlotDispatched
    <2>3. CASE Rests(p)
      BY <2>3, SlotSame DEF Rests
    <2> QED
      BY <1>2, <2>1, <2>2, <2>3
  <1>5. MarkedInOrder(p)'
    BY <1>1, <1>2, <1>4, InOrderKept
  <1> QED
    BY <1>2, <1>3, <1>5, InOrderStep


(* Nothing is in a line in the beginning.                                   *)
LEMMA InOrderInit == Init => InOrderInv
  <1> SUFFICES ASSUME Init PROVE InOrderInv
    OBVIOUS
  <1>1. \A p \in Proc : /\ handled[p] = <<>> /\ queue[p] = <<>>
                        /\ wpc[p] = "idle" /\ pc[p] = "down"
    BY DEF Init, ProcessInit
  <1>2. \A p \in Proc : \A i, id, m : ~Slot(p, i, id, m)
    BY <1>1, NoElements DEF Slot
  <1> QED
    BY <1>1, <1>2, TypedInit DEF InOrderInv, MarkedInOrder

(* Only Controller.Run leads to the marker, and it has queued the result.   *)
LEMMA InOrderNext == InOrderInv /\ [Next]_vars => InOrderInv'
  <1> SUFFICES ASSUME InOrderInv, [Next]_vars PROVE InOrderInv'
    OBVIOUS
  <1>1. Typed /\ Typed' /\ ProcessTyped
    BY TypedNext, TypedProcesses DEF InOrderInv
  <1>2. /\ pc \in [Proc -> {"down", "setup", "read", "process", "export", "status",
                            "run", "marker", "dead", "ack", "exited"}]
        /\ cur \in [Proc -> Nat] /\ queue \in [Proc -> Seq(Item)]
    BY <1>1 DEF Typed, TypeOK, ProcessTypeOK
  <1>3. ASSUME UNCHANGED <<queue, wpc, hand, handled>>,
               \A p \in Proc : pc'[p] = "marker" =>
                   pc[p] = "marker" /\ cur'[p] = cur[p]
        PROVE  InOrderInv'
    <2>1. ASSUME NEW p \in Proc PROVE MarkedInOrder(p)'
      <3>1. \A i, id, m : Slot(p, i, id, m)' <=> Slot(p, i, id, m)
        BY <1>3, SlotSame
      <3>2. MarkedInOrder(p)
        BY DEF InOrderInv
      <3> QED
        BY <1>3, <3>1, <3>2, InOrderKept
    <2> QED
      BY <1>1, <2>1 DEF InOrderInv
  <1>4. ASSUME NEW p \in Proc, RunController(p)
        PROVE  InOrderInv'
    <2>1. CASE queue' = [queue EXCEPT ![p] = Append(@, DataItem(p))]
      <3>1. /\ DataItem(p) \in Item /\ DataItem(p).id = cur[p]
            /\ ~DataItem(p).marker
        <4>1. pc[p] = "run"
          BY <1>4 DEF RunController
        <4>2. DataItem(p) \in Item
          BY <1>1, <4>1, DataItemType
        <4> QED
          BY <4>2 DEF DataItem
      <3>2. /\ UNCHANGED <<wpc, hand, handled, cur>>
            /\ \A q \in Proc \ {p} : pc'[q] = pc[q]
        BY <1>2, <1>4 DEF RunController, ControllerFailed, workerVars
      <3> HIDE DEF DataItem
      <3> QED
        BY <1>1, <2>1, <3>1, <3>2, InOrderPush
    <2>2. CASE ControllerFailed(p) /\ UNCHANGED queue
      BY <1>2, <1>3, <1>4, <2>2 DEF RunController, ControllerFailed, workerVars
    <2> QED
      BY <1>4, <2>1, <2>2 DEF RunController
  <1>5. ASSUME NEW p \in Proc, SendMarker(p)
        PROVE  InOrderInv'
    <2>1. CASE queue' = [queue EXCEPT ![p] = Append(@, MarkerItem(p))]
      <3>1. /\ MarkerItem(p) \in Item /\ MarkerItem(p).id = cur[p]
            /\ MarkerItem(p).marker /\ pc[p] = "marker"
        <4>1. pc[p] = "marker"
          BY <1>5 DEF SendMarker
        <4>2. MarkerItem(p) \in Item
          BY <1>1, <4>1, DataItemType
        <4> QED
          BY <4>1, <4>2 DEF MarkerItem
      <3>2. /\ UNCHANGED <<wpc, hand, handled, cur>>
            /\ pc'[p] # "marker" /\ \A q \in Proc \ {p} : pc'[q] = pc[q]
        BY <1>2, <1>5 DEF SendMarker, workerVars
      <3> HIDE DEF MarkerItem
      <3> QED
        BY <1>1, <2>1, <3>1, <3>2, InOrderPush
    <2>2. CASE UNCHANGED queue
      BY <1>2, <1>3, <1>5, <2>2 DEF SendMarker, workerVars
    <2> QED
      BY <1>5, <2>1, <2>2 DEF SendMarker
  <1>6. ASSUME NEW p \in Proc,
               \/ Triage(p) \/ UpdateEventStatus(p) \/ ConsumerReturn(p)
        PROVE  InOrderInv'
    <2>1. /\ UNCHANGED <<queue, wpc, hand, handled, cur>>
          /\ \A q \in Proc : pc'[q] = "marker" => pc[q] = "marker"
      <3>1. CASE Triage(p)
        <4>1. /\ UNCHANGED <<queue, wpc, hand, handled, cur>>
              /\ \E k \in {"ack", "export", "dead", "status", "run"} :
                     pc' = [pc EXCEPT ![p] = k]
          BY <3>1 DEF Triage, workerVars
        <4> QED
          BY <1>2, <4>1
      <3>2. CASE UpdateEventStatus(p) \/ ConsumerReturn(p)
        BY <1>2, <3>2 DEF UpdateEventStatus, ConsumerReturn, workerVars
      <3> QED
        BY <1>6, <3>1, <3>2
    <2> QED
      BY <1>3, <2>1
  <1>7. ASSUME NEW p \in Proc, Shared(p)
        PROVE  InOrderInv'
    <2>1. CASE WorkerStep(p) \/ WorkerReturn(p)
      BY <1>1, <2>1, InOrderWorker
    <2> QED
      BY <1>4, <1>5, <1>6, <1>7, <2>1 DEF Shared, ConsumerStep
  <1>8. ASSUME NEW p \in Proc, Leave(p)
        PROVE  InOrderInv'
    <2>1. /\ pc'[p] = "down" /\ queue'[p] = <<>> /\ wpc'[p] = "idle"
          /\ handled' = handled
          /\ \A q \in Proc \ {p} : /\ pc'[q] = pc[q] /\ cur'[q] = cur[q]
                                   /\ queue'[q] = queue[q]
                                   /\ wpc'[q] = wpc[q] /\ hand'[q] = hand[q]
      BY <1>1, <1>2, <1>8 DEF Leave, End, WorkerDone, ProcessTyped, ProcessTypeOK
    <2>2. MarkedInOrder(p)
      BY DEF InOrderInv
    <2>3. MarkedInOrder(p)'
      BY <1>1, <2>1, <2>2, InOrderEnd
    <2> QED
      BY <1>1, <2>1, <2>3, InOrderStep
  <1>9. ASSUME NEW p \in Proc,
               \/ FetchMessage(p) \/ SendDataFetcher(p) \/ DeadLetter(p)
               \/ CommitMessages(p)
        PROVE  InOrderInv'
    <2>1. /\ UNCHANGED <<queue, wpc, hand, handled>>
          /\ pc'[p] # "marker"
          /\ \A q \in Proc \ {p} : pc'[q] = pc[q] /\ cur'[q] = cur[q]
      <3>1. CASE FetchMessage(p)
        BY <1>2, <3>1 DEF FetchMessage, workerVars
      <3>2. CASE SendDataFetcher(p)
        BY <1>2, <3>2 DEF SendDataFetcher, workerVars
      <3>3. CASE DeadLetter(p)
        BY <1>2, <3>3 DEF DeadLetter, AfterDeadLetter, workerVars
      <3>4. CASE CommitMessages(p)
        BY <1>2, <3>4 DEF CommitMessages, Continue, workerVars
      <3> QED
        BY <1>9, <3>1, <3>2, <3>3, <3>4
    <2> QED
      BY <1>3, <2>1
  <1>10. ASSUME NEW p \in Proc,
                Start(p) \/ Cancel(p) \/ Assign(p) \/ Revoke(p)
         PROVE  InOrderInv'
    BY <1>2, <1>3, <1>10
    DEF Start, Begin, Cancel, Signal, Assign, Revoke, processVars,
        consumerVars, workerVars
  <1>11. ASSUME \/ UNCHANGED processVars
                \/ \E r \in Payloads : Produce(r)
                \/ \E rk \in RoutingKey : Expire(rk)
         PROVE  InOrderInv'
    BY <1>3, <1>11 DEF Produce, Expire, processVars, consumerVars, workerVars
  <1> QED
    BY <1>7, <1>8, <1>9, <1>10, <1>11
    DEF Next, Join, Rebalance, FetchNothing, vars

(* CompletionAfterData holds in Kafka mode too, where a message may be      *)
(* processed again by another process while the first still dispatches it:  *)
(* each process keeps its own markers behind its own results.               *)
THEOREM CompletionAfterDataHolds == Spec => []CompletionAfterData
  <1>1. InOrderInv => CompletionAfterData
    <2> SUFFICES ASSUME InOrderInv, NEW p \in Proc, NEW i \in DOMAIN handled[p],
                        handled[p][i].marker
                 PROVE  \E j \in 1..(i-1) :
                            /\ handled[p][j].id = handled[p][i].id
                            /\ ~handled[p][j].marker
      BY DEF CompletionAfterData
    <2>1. ProcessTyped /\ MarkedInOrder(p)
      BY TypedProcesses DEF InOrderInv
    <2>2. /\ handled[p] \in Seq(Dispatch) /\ Len(handled[p]) \in Nat
          /\ DOMAIN handled[p] = 1..Len(handled[p])
          /\ Len(queue[p]) \in Nat /\ Held(p) \in {0, 1}
      BY <2>1, LineLengths, LenProperties
    <2>3. i \in 1..Len(handled[p]) /\ i \in Int /\ handled[p][i] \in Dispatch
      BY <2>2, ElementOfSeq
    <2>4. PICK id \in Nat : id = handled[p][i].id /\ handled[p][i].marker = TRUE
      BY <2>3 DEF Dispatch
    <2>5. Slot(p, i, id, TRUE)
      BY <2>3, <2>4 DEF Slot
    <2>6. PICK j \in Int : j < i /\ Slot(p, j, id, FALSE)
      BY <2>1, <2>3, <2>5 DEF MarkedInOrder, DataBefore
    <2>7. j \in Nat \ {0}
      BY <2>1, <2>6, SlotPlaces
    <2>8. j \in 1..(i - 1) /\ j < Len(handled[p])
      BY <2>2, <2>3, <2>6, <2>7
    <2>9. \A k \in 1..Len(queue[p]) : j # Len(handled[p]) + Held(p) + k
      BY <2>2, <2>8
    <2>10. j # Len(handled[p]) + 1
      BY <2>2, <2>8
    <2>11. handled[p][j].id = id /\ handled[p][j].marker = FALSE
      BY <2>6, <2>9, <2>10 DEF Slot
    <2> QED
      BY <2>4, <2>8, <2>11
  <1> QED
    BY InOrderInit, InOrderNext, <1>1, PTL DEF Spec
=============================================================================
