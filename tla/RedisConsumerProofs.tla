------------------------ MODULE RedisConsumerProofs -------------------------
(***************************************************************************)
(* Theorems about RedisConsumer for any number of processes, any entries,  *)
(* any queue capacity and any faults: type correctness, what becomes of a  *)
(* request that a process of the group has read (AckedIsAccounted,         *)
(* OneFate), and that a dead letter can be replayed (DeadLetterReplays).   *)
(***************************************************************************)
EXTENDS RedisConsumer, ProcessProofs

(* The inductive form of TypeOK.                                            *)
Typed == TypeOK /\ KeyedInput /\ KeyedIncoming

(* What Typed says of the processes.                                        *)
LEMMA TypedProcesses == Typed => ProcessTyped
  BY DEF Typed, TypeOK, ProcessTyped

(* A step of the processes keeps the types.                                 *)
LEMMA TypedShared ==
    ASSUME Typed, ProcessTyped', UNCHANGED <<groupVars, dead>>
    PROVE  Typed'
  BY DEF Typed, TypeOK, ProcessTyped, groupVars

(* The initial state is well typed.                                         *)
LEMMA TypedInit == Init => Typed
  <1> SUFFICES ASSUME Init PROVE Typed
    OBVIOUS
  <1>1. ProcessTyped
    BY ProcessTypedInit DEF Init
  <1> QED
    BY <1>1, NoElements DEF Init, Typed, TypeOK, ProcessTyped

(* Every step keeps the types, whichever process takes it.                  *)
LEMMA TypedNext == Typed /\ [Next]_vars => Typed'
  <1> SUFFICES ASSUME Typed, [Next]_vars
               PROVE  Typed'
    OBVIOUS
  <1>1. ProcessTyped
    BY TypedProcesses
  <1>2. ASSUME NEW r \in Payloads, Produce(r), UNCHANGED <<groupVars, dead>>
        PROVE  Typed'
    BY <1>1, <1>2, TypedLife, TypedShared
  <1>3. ASSUME NEW rk \in RoutingKey, Expire(rk), UNCHANGED <<groupVars, dead>>
        PROVE  Typed'
    BY <1>1, <1>3, TypedLife, TypedShared
  <1> USE DEF Typed, TypeOK, KeyedInput, KeyedIncoming
  <1>4. ASSUME NEW p \in Proc, EnsureConsumerGroup(p)
        PROVE  Typed'
    <2>1. reads' \in Seq(Proc \cup {Nobody}) /\ group' \in BOOLEAN
      <3>1. Len(input) \in Nat
        BY DEF ProcessTypeOK
      <3>2. [i \in 1..Len(input) |-> Nobody] \in Seq(Proc \cup {Nobody})
        BY <3>1, SeqDef
      <3> QED
        BY <1>4, <3>2 DEF EnsureConsumerGroup, CreateGroup
    <2>2. /\ pc' \in [Proc -> {"down", "setup", "read", "process", "export",
                               "status", "run", "marker", "dead", "ack", "exited"}]
          /\ KeyedIncoming'
      BY <1>4 DEF EnsureConsumerGroup, ProcessTypeOK
    <2> QED
      BY <1>4, <2>1, <2>2
      DEF EnsureConsumerGroup, ProcessTypeOK, BackendTypeOK, workerVars,
          backendVars
  <1>5. ASSUME NEW p \in Proc, ReadGroup(p)
        PROVE  Typed'
    <2>1. /\ Len(reads) + 1 \in Nat
          /\ Len(reads) + 1 \in DOMAIN input
      BY <1>5 DEF ReadGroup, ProcessTypeOK
    <2>2. /\ input[Len(reads) + 1] \in Request
          /\ input[Len(reads) + 1].RoutingKey \in RoutingKey
      BY <2>1 DEF ProcessTypeOK
    <2>3. /\ reads' \in Seq(Proc \cup {Nobody})
          /\ pel' \in SUBSET Nat
      <3>1. reads' = Append(reads, p) /\ pel' = pel \cup {Len(reads) + 1}
        BY <1>5 DEF ReadGroup, AddPending
      <3>2. reads' \in Seq(Proc \cup {Nobody})
        BY <3>1, AppendProperties
      <3> QED
        BY <2>1, <3>1, <3>2
    <2>4. /\ pc' \in [Proc -> {"down", "setup", "read", "process", "export",
                               "status", "run", "marker", "dead", "ack", "exited"}]
          /\ cur' \in [Proc -> Nat]
          /\ incoming' \in [Proc -> Request]
      <3>1. CASE UNCHANGED <<cur, incoming, pc>>
        BY <3>1 DEF ProcessTypeOK
      <3> DEFINE id == Len(reads) + 1
      <3>2. CASE /\ cur' = [cur EXCEPT ![p] = id]
                 /\ incoming' = [incoming EXCEPT ![p] = input[id]]
                 /\ \/ pc' = [pc EXCEPT ![p] = "ack"]
                    \/ pc' = [pc EXCEPT ![p] = "process"]
        BY <2>1, <2>2, <3>2 DEF ProcessTypeOK
      <3> QED
        BY <1>5, <3>1, <3>2 DEF ReadGroup
    <2>5. KeyedIncoming'
      <3>1. \/ incoming'[p] = input[Len(reads) + 1]
            \/ pc'[p] = "read"
        BY <1>5 DEF ReadGroup, ProcessTypeOK
      <3>2. \A q \in Proc \ {p} : pc'[q] = pc[q] /\ incoming'[q] = incoming[q]
        BY <1>5 DEF ReadGroup, ProcessTypeOK
      <3> QED
        BY <2>2, <3>1, <3>2
    <2> QED
      BY <1>5, <2>3, <2>4, <2>5
      DEF ReadGroup, ProcessTypeOK, BackendTypeOK, workerVars, backendVars
  <1>6. ASSUME NEW p \in Proc, Start(p)
        PROVE  Typed'
    BY <1>1, <1>6, TypedLife, TypedShared DEF Start
  <1>8. ASSUME NEW p \in Proc, Ack(p)
        PROVE  Typed'
    BY <1>8, ZeroType
    DEF Ack, Continue, ProcessTypeOK, BackendTypeOK, workerVars, backendVars,
        Reason
  <1>9. ASSUME NEW p \in Proc, AddDeadLetter(p)
        PROVE  Typed'
    <2>1. \A ok \in BOOLEAN :
              [id |-> cur[p], reason |-> reason[p], payload |-> incoming[p],
               ok |-> ok] \in DeadLetter
      BY DEF ProcessTypeOK, DeadLetter
    <2>2. dead' \in Seq(DeadLetter)
      BY <1>9, <2>1 DEF AddDeadLetter
    <2> QED
      BY <1>9, <2>2
      DEF AddDeadLetter, ProcessTypeOK, BackendTypeOK, workerVars, groupVars,
          backendVars
  <1> HIDE DEF Typed, TypeOK, KeyedInput, KeyedIncoming
  <1>10. ASSUME NEW p \in Proc, Shared(p)
         PROVE  Typed'
    <2>1. UNCHANGED <<groupVars, dead>>
      BY <1>10 DEF Shared
    <2>2. ProcessTyped'
      BY <1>1, <1>10, TypedLife, TypedConsumer, TypedWorker DEF Shared
    <2> QED
      BY <2>1, <2>2, TypedShared
  <1>11. CASE UNCHANGED vars
    BY <1>1, <1>11, TypedLife, TypedShared DEF vars
  <1> QED
    BY <1>2, <1>3, <1>4, <1>5, <1>6, <1>8, <1>9, <1>10, <1>11
    DEF Next, ReadNothing

(* Every variable keeps its type in every reachable state, the sender queue *)
(* its capacity, and every queued item a routing key that names a buffer,   *)
(* for any processes, entries, capacity and faults.                         *)
THEOREM TypeOKHolds == Spec => []TypeOK
  <1>1. Typed /\ [Next]_vars => Typed'
    BY TypedNext
  <1>2. Typed => TypeOK
    BY DEF Typed
  <1> QED
    BY TypedInit, <1>1, <1>2, PTL DEF Spec
-----------------------------------------------------------------------------
(* The fates of requests.  Between the read and the acknowledgement a       *)
(* request belongs to the process it was delivered to, and its pc tells     *)
(* what has become of it so far.                                            *)
Busy == {"process", "status", "run", "marker", "dead", "ack"}

Owned ==
    /\ Len(reads) <= Len(input)
    /\ ~group => reads = <<>>
    /\ \A p \in Proc : pc[p] = "read" => group
    /\ \A p \in Proc : pc[p] \in Busy =>
            cur[p] \in 1..Len(reads) /\ reads[cur[p]] = p

Known == \A id \in Nat : HasItem(id) \/ HasDeadLetter(id) => id <= Len(reads)

PendingOf(p) ==
    /\ pc[p] = "process" => incoming[p] = input[cur[p]]
    /\ pc[p] \in {"process", "status", "run", "dead"} => ~HasItem(cur[p])
    /\ pc[p] \in {"process", "status", "run", "dead", "marker"} =>
            ~HasDeadLetter(cur[p])
    /\ pc[p] = "marker" => HasItem(cur[p])
    /\ pc[p] = "ack" => Accounted(cur[p])

Pending == \A p \in Proc : PendingOf(p)

FateInv == Typed /\ Owned /\ Known /\ Pending /\ OneFate /\ AckedIsAccounted

(* Steps that leave every request where it is: no consumer moves on with a  *)
(* request, nothing is queued, read, acknowledged or dead-lettered.         *)
LEMMA QuietStep ==
    ASSUME FateInv, Typed',
           Len(input) <= Len(input'),
           \A i \in 1..Len(input) : input'[i] = input[i],
           UNCHANGED <<groupVars, dead>>,
           \A id : HasItem(id)' <=> HasItem(id),
           \A p \in Proc : pc'[p] = "read" => pc[p] = "read",
           \A p \in Proc : pc'[p] \in Busy =>
               /\ pc'[p] = pc[p]
               /\ cur'[p] = cur[p]
               /\ incoming'[p] = incoming[p]
    PROVE  FateInv'
  <1> USE DEF FateInv
  <1>1. /\ reads' = reads /\ group' = group /\ pel' = pel /\ dead' = dead
        /\ Len(reads) \in Nat /\ Len(input) \in Nat /\ Len(input') \in Nat
    BY DEF groupVars, Typed, TypeOK, ProcessTypeOK
  <1>2. \A id : HasDeadLetter(id)' <=> HasDeadLetter(id)
    BY <1>1 DEF HasDeadLetter
  <1>3. \A id \in 1..Len(reads) : Accounted(id)' <=> Accounted(id)
    <2>1. \A id \in 1..Len(reads) : input'[id] = input[id]
      BY <1>1 DEF Owned
    <2> QED
      BY <1>2, <2>1 DEF Accounted
  <1>4. Owned'
    BY <1>1 DEF Owned
  <1>5. Known'
    BY <1>1, <1>2 DEF Known
  <1>6. Pending'
    <2> SUFFICES ASSUME NEW p \in Proc
                 PROVE  PendingOf(p)'
      BY DEF Pending
    <2>1. CASE pc'[p] \in Busy
      <3>1. /\ pc'[p] = pc[p] /\ cur'[p] = cur[p]
            /\ incoming'[p] = incoming[p]
            /\ cur[p] \in 1..Len(reads)
        BY <2>1 DEF Owned
      <3>2. input'[cur[p]] = input[cur[p]]
        BY <1>1, <3>1 DEF Owned
      <3> QED
        BY <1>2, <1>3, <3>1, <3>2 DEF Pending, PendingOf
    <2>2. CASE pc'[p] \notin Busy
      BY <2>2 DEF PendingOf, Busy
    <2> QED
      BY <2>1, <2>2
  <1>7. OneFate'
    BY <1>1, <1>2 DEF OneFate
  <1>8. AckedIsAccounted'
    BY <1>1, <1>3 DEF AckedIsAccounted, Delivered
  <1> QED
    BY <1>4, <1>5, <1>6, <1>7, <1>8

(* A step of the consumer of p that moves its own request on: it disturbs   *)
(* no other request, because no other process owns this one.                *)
LEMMA OwnStep ==
    ASSUME FateInv, Typed', NEW p \in Proc,
           pc[p] \in Busy, cur' = cur,
           UNCHANGED <<input, groupVars>>,
           \A q \in Proc \ {p} : pc'[q] = pc[q] /\ incoming'[q] = incoming[q],
           \A id : id # cur[p] => /\ HasItem(id)' <=> HasItem(id)
                                  /\ HasDeadLetter(id)' <=> HasDeadLetter(id),
           ~(HasItem(cur[p])' /\ HasDeadLetter(cur[p])'),
           Accounted(cur[p]) => Accounted(cur[p])',
           PendingOf(p)'
    PROVE  FateInv'
  <1> USE DEF FateInv
  <1>1. /\ reads' = reads /\ group' = group /\ pel' = pel /\ input' = input
        /\ Len(reads) \in Nat
    BY DEF groupVars, Typed, TypeOK
  <1>2. cur[p] \in 1..Len(reads) /\ reads[cur[p]] = p
    BY DEF Owned
  <1>3. \A id : id # cur[p] => (Accounted(id)' <=> Accounted(id))
    BY <1>1 DEF Accounted
  <1>4. Owned'
    <2>1. group
      BY <1>2, NoElements DEF Owned
    <2> QED
      BY <1>1, <1>2, <2>1 DEF Owned
  <1>5. Known'
    BY <1>1, <1>2 DEF Known
  <1>6. Pending'
    <2> SUFFICES ASSUME NEW q \in Proc, q # p
                 PROVE  PendingOf(q)'
      BY DEF Pending
    <2>1. CASE pc[q] \in Busy
      <3>1. cur[q] # cur[p]
        BY <1>2, <2>1 DEF Owned
      <3> QED
        BY <1>1, <1>3, <3>1 DEF Pending, PendingOf
    <2>2. CASE pc[q] \notin Busy
      BY <2>2 DEF PendingOf, Busy
    <2> QED
      BY <2>1, <2>2
  <1>7. OneFate'
    BY <1>1 DEF OneFate
  <1>8. AckedIsAccounted'
    BY <1>1, <1>3 DEF AckedIsAccounted, Delivered
  <1> QED
    BY <1>4, <1>5, <1>6, <1>7, <1>8

(* Initially nothing was read.                                              *)
LEMMA FateInit == Init => FateInv
  <1> SUFFICES ASSUME Init PROVE FateInv
    OBVIOUS
  <1>1. Typed
    BY TypedInit
  <1>2. /\ reads = <<>> /\ Len(reads) = 0 /\ Len(input) = 0
        /\ \A p \in Proc : pc[p] = "down"
    BY NoElements DEF Init, ProcessInit
  <1>3. \A id : ~HasItem(id) /\ ~HasDeadLetter(id)
    BY RangeOfEmpty
    DEF Init, ProcessInit, HasItem, Queued, Undispatched, HasDeadLetter
  <1>4. Owned
    BY <1>2 DEF Owned, Busy
  <1>5. Known /\ Pending /\ OneFate
    BY <1>2, <1>3 DEF Known, Pending, PendingOf, OneFate
  <1>6. AckedIsAccounted
    BY <1>2 DEF AckedIsAccounted, Delivered
  <1> QED
    BY <1>1, <1>4, <1>5, <1>6 DEF FateInv

(* The steps of ProcessMessage keep the fates (consumer.go:119-208): a      *)
(* request goes to the queue only while it has no dead letter, and to the   *)
(* dead letters only while it has no result.                                *)
LEMMA FateConsumer ==
    ASSUME FateInv, Typed', NEW p \in Proc, ConsumerStep(p),
           UNCHANGED <<groupVars, dead>>
    PROVE  FateInv'
  <1>1. /\ Typed /\ ProcessTypeOK /\ PendingOf(p)
        /\ pc \in [Proc -> {"down", "setup", "read", "process", "export",
                            "status", "run", "marker", "dead", "ack", "exited"}]
    BY DEF FateInv, Typed, TypeOK, ProcessTypeOK, Pending
  <1>2. \A id : HasDeadLetter(id)' <=> HasDeadLetter(id)
    BY DEF HasDeadLetter
  <1>3. CASE Triage(p)
    <2>1. PICK k \in {"ack", "dead", "status", "run"}, r \in Request,
               v \in Reason :
              /\ pc' = [pc EXCEPT ![p] = k]
              /\ incoming' = [incoming EXCEPT ![p] = r]
              /\ k = "ack" => Ignored(incoming[p]) \/ Skipped(incoming[p])
      BY <1>1, <1>3, RedisAssumption, TriageOutcome DEF IsExportRequest
    <2>2. /\ pc[p] = "process" /\ cur' = cur /\ input' = input
          /\ UNCHANGED <<queue, wpc, hand, handled, lost>>
      BY <1>3 DEF Triage, workerVars
    <2>3. \A id : HasItem(id)' <=> HasItem(id)
      BY <2>2, QueuedUnchanged DEF HasItem
    <2>4. /\ ~HasItem(cur[p]) /\ ~HasDeadLetter(cur[p])
          /\ incoming[p] = input[cur[p]]
      BY <1>1, <2>2 DEF PendingOf
    <2>5. pc'[p] = k
      BY <1>1, <2>1
    <2>6. k = "ack" => Accounted(cur[p])'
      BY <2>1, <2>2, <2>4 DEF Accounted, NeedsNoResult
    <2>7. PendingOf(p)'
      BY <1>2, <2>2, <2>3, <2>4, <2>5, <2>6 DEF PendingOf
    <2>8. Accounted(cur[p]) => Accounted(cur[p])'
      BY <1>2, <2>2, <2>3 DEF Accounted
    <2>9. \A q \in Proc \ {p} : pc'[q] = pc[q] /\ incoming'[q] = incoming[q]
      BY <1>1, <2>1 DEF ProcessTypeOK
    <2> QED
      BY <1>2, <2>2, <2>3, <2>4, <2>7, <2>8, <2>9, OwnStep DEF Busy
  <1>4. CASE UpdateEventStatus(p)
    <2>1. /\ pc[p] = "status" /\ pc' = [pc EXCEPT ![p] = "run"]
          /\ UNCHANGED <<input, cur, incoming, queue, wpc, hand, handled, lost>>
      BY <1>4 DEF UpdateEventStatus, workerVars
    <2>2. \A id : HasItem(id)' <=> HasItem(id)
      BY <2>1, QueuedUnchanged DEF HasItem
    <2>3. pc'[p] = "run" /\ ~HasItem(cur[p]) /\ ~HasDeadLetter(cur[p])
      BY <1>1, <2>1 DEF PendingOf
    <2>4. PendingOf(p)'
      BY <1>2, <2>1, <2>2, <2>3 DEF PendingOf
    <2>5. Accounted(cur[p]) => Accounted(cur[p])'
      BY <1>2, <2>1, <2>2 DEF Accounted
    <2>6. \A q \in Proc \ {p} : pc'[q] = pc[q]
      BY <1>1, <2>1
    <2> QED
      BY <1>2, <2>1, <2>2, <2>3, <2>4, <2>5, <2>6, OwnStep DEF Busy
  <1>5. CASE RunController(p)
    <2>1. /\ pc[p] = "run"
          /\ UNCHANGED <<input, cur, incoming, wpc, hand, handled, lost>>
      BY <1>5 DEF RunController, workerVars
    <2>2. ~HasItem(cur[p]) /\ ~HasDeadLetter(cur[p])
      BY <1>1, <2>1 DEF PendingOf
    <2>3. CASE /\ queue' = [queue EXCEPT ![p] = Append(@, DataItem(p))]
               /\ \E k \in {"marker", "ack"} : pc' = [pc EXCEPT ![p] = k]
      <3>1. DataItem(p) \in Item
        BY <1>1, <2>1, TypedProcesses, DataItemType
      <3>2. DataItem(p).id = cur[p] /\ DataItem(p).marker = FALSE
        BY DEF DataItem
      <3>3. \A id : HasItem(id)' <=> HasItem(id) \/ id = cur[p]
        BY <1>1, <2>1, <2>3, <3>1, <3>2, TypedProcesses, PushAdds
        DEF HasItem
      <3>4. PICK k \in {"marker", "ack"} : pc' = [pc EXCEPT ![p] = k]
        BY <2>3
      <3>5. HasItem(cur[p])' /\ ~HasDeadLetter(cur[p])' /\ pc'[p] = k
        BY <1>1, <1>2, <2>1, <2>2, <3>3, <3>4
      <3>6. PendingOf(p)' /\ Accounted(cur[p])'
        BY <2>1, <3>5 DEF PendingOf, Accounted
      <3>7. \A q \in Proc \ {p} : pc'[q] = pc[q]
        BY <1>1, <3>4
      <3> QED
        BY <1>2, <2>1, <3>3, <3>5, <3>6, <3>7, OwnStep DEF Busy
    <2>4. CASE pc' = [pc EXCEPT ![p] = "dead"] /\ queue' = queue
      <3>1. \A id : HasItem(id)' <=> HasItem(id)
        BY <2>1, <2>4, QueuedUnchanged DEF HasItem
      <3>2. pc'[p] = "dead" /\ \A q \in Proc \ {p} : pc'[q] = pc[q]
        BY <1>1, <2>4
      <3>3. PendingOf(p)'
        BY <1>2, <2>1, <2>2, <3>1, <3>2 DEF PendingOf
      <3>4. Accounted(cur[p]) => Accounted(cur[p])'
        BY <1>2, <2>1, <3>1 DEF Accounted
      <3> QED
        BY <1>2, <2>1, <2>2, <3>1, <3>2, <3>3, <3>4, OwnStep DEF Busy
    <2> QED
      BY <1>5, <2>3, <2>4 DEF RunController, ControllerFailed
  <1>6. CASE SendMarker(p)
    <2>1. /\ pc[p] = "marker" /\ pc' = [pc EXCEPT ![p] = "ack"]
          /\ UNCHANGED <<input, cur, incoming, wpc, hand, handled, lost>>
      BY <1>6 DEF SendMarker, workerVars
    <2>2. HasItem(cur[p]) /\ ~HasDeadLetter(cur[p])
      BY <1>1, <2>1 DEF PendingOf
    <2>3. \A id : HasItem(id)' <=> HasItem(id)
      <3>1. CASE queue' = [queue EXCEPT ![p] = Append(@, MarkerItem(p))]
        <4>1. MarkerItem(p) \in Item
          BY <1>1, <2>1, TypedProcesses, DataItemType
        <4>2. MarkerItem(p).marker = TRUE
          BY DEF MarkerItem
        <4> QED
          BY <1>1, <2>1, <3>1, <4>1, <4>2, TypedProcesses, PushAdds
        DEF HasItem
      <3>2. CASE queue' = queue
        BY <2>1, <3>2, QueuedUnchanged DEF HasItem
      <3> QED
        BY <1>6, <3>1, <3>2 DEF SendMarker
    <2>4. pc'[p] = "ack" /\ \A q \in Proc \ {p} : pc'[q] = pc[q]
      BY <1>1, <2>1
    <2>5. PendingOf(p)' /\ Accounted(cur[p])'
      BY <1>2, <2>1, <2>2, <2>3, <2>4 DEF PendingOf, Accounted
    <2> QED
      BY <1>2, <2>1, <2>2, <2>3, <2>4, <2>5, OwnStep DEF Busy
  <1> QED
    BY <1>3, <1>4, <1>5, <1>6 DEF ConsumerStep

(* deadLetter keeps the fates: the dead letter is the request's only one,   *)
(* and accounts for the acknowledgement that follows (consumer.go:210).     *)
LEMMA FateDeadLetter ==
    ASSUME FateInv, Typed', NEW p \in Proc, AddDeadLetter(p)
    PROVE  FateInv'
  <1>1. PICK ok \in BOOLEAN :
            dead' = Append(dead, [id |-> cur[p], reason |-> reason[p],
                                  payload |-> incoming[p], ok |-> ok])
    BY DEF AddDeadLetter
  <1> DEFINE d == [id |-> cur[p], reason |-> reason[p],
                   payload |-> incoming[p], ok |-> ok]
  <1>2. dead \in Seq(DeadLetter) /\ d \in DeadLetter
    BY DEF FateInv, Typed, TypeOK, ProcessTypeOK, DeadLetter
  <1>3. d.id = cur[p] /\ dead' = Append(dead, d)
    BY <1>1
  <1> HIDE DEF d
  <1>4. \A id : HasDeadLetter(id)' <=> HasDeadLetter(id) \/ id = cur[p]
    BY <1>2, <1>3, RangeOfAppend DEF HasDeadLetter
  <1>5. /\ pc[p] = "dead" /\ pc' = [pc EXCEPT ![p] = "ack"]
        /\ UNCHANGED <<input, cur, incoming, groupVars>>
        /\ UNCHANGED <<queue, wpc, hand, handled, lost>>
    BY DEF AddDeadLetter, workerVars
  <1>6. pc'[p] = "ack" /\ \A q \in Proc \ {p} : pc'[q] = pc[q]
    BY <1>5 DEF FateInv, Typed, TypeOK, ProcessTypeOK
  <1>7. \A id : HasItem(id)' <=> HasItem(id)
    BY <1>5, QueuedUnchanged DEF HasItem
  <1>8. ~HasItem(cur[p])
    BY <1>5 DEF FateInv, Pending, PendingOf
  <1>9. PendingOf(p)' /\ Accounted(cur[p])'
    BY <1>4, <1>5, <1>6 DEF PendingOf, Accounted
  <1> QED
    BY <1>4, <1>5, <1>6, <1>7, <1>8, <1>9, OwnStep DEF Busy

(* Reading an entry keeps the fates: its id is new, so nothing is known of  *)
(* it yet (consumer.go:83-106, broker.go:50).                               *)
LEMMA FateRead ==
    ASSUME FateInv, Typed', NEW p \in Proc, ReadGroup(p)
    PROVE  FateInv'
  <1> DEFINE new == Len(reads) + 1
  <1>1. /\ pc[p] = "read" /\ Len(reads) < Len(input)
        /\ reads' = Append(reads, p) /\ pel' = pel \cup {new}
        /\ UNCHANGED <<input, group, dead>>
        /\ UNCHANGED <<queue, wpc, hand, handled, lost>>
    BY DEF ReadGroup, AddPending, workerVars
  <1>2. /\ reads \in Seq(Proc \cup {Nobody}) /\ Len(reads) \in Nat
        /\ Len(input) \in Nat /\ new \in Nat /\ p # Nobody
        /\ pc \in [Proc -> {"down", "setup", "read", "process", "export",
                            "status", "run", "marker", "dead", "ack", "exited"}]
        /\ cur \in [Proc -> Nat] /\ incoming \in [Proc -> Request]
    BY RedisAssumption DEF FateInv, Typed, TypeOK, ProcessTypeOK
  <1>3. /\ Len(reads') = new
        /\ \A i \in 1..Len(reads) : reads'[i] = reads[i]
        /\ reads'[new] = p
    BY <1>1, <1>2, AppendProperties
  <1>4. \A id : /\ HasItem(id)' <=> HasItem(id)
                /\ HasDeadLetter(id)' <=> HasDeadLetter(id)
                /\ Accounted(id)' <=> Accounted(id)
    BY <1>1, QueuedUnchanged DEF HasItem, HasDeadLetter, Accounted
  <1>5. ~HasItem(new) /\ ~HasDeadLetter(new)
    BY <1>2 DEF FateInv, Known
  <1>6. /\ \A q \in Proc \ {p} : /\ pc'[q] = pc[q] /\ cur'[q] = cur[q]
                                 /\ incoming'[q] = incoming[q]
        /\ \/ pc'[p] = "read"
           \/ /\ cur'[p] = new /\ incoming'[p] = input[new]
              /\ \/ pc'[p] = "process"
                 \/ pc'[p] = "ack" /\ Unreadable(input[new])
    <2>1. CASE UNCHANGED <<cur, incoming, pc>>
      BY <1>1, <2>1
    <2>2. CASE /\ cur' = [cur EXCEPT ![p] = new]
               /\ incoming' = [incoming EXCEPT ![p] = input[new]]
               /\ pc' = [pc EXCEPT ![p] =
                            IF Unreadable(input[new]) THEN "ack" ELSE "process"]
      BY <1>2, <2>2
    <2> QED
      BY <2>1, <2>2 DEF ReadGroup
  <1> HIDE DEF new
  <1>7. new = Len(reads) + 1
    BY DEF new
  <1>8. Owned'
    <2>1. group
      BY <1>1 DEF FateInv, Owned
    <2>2. \A q \in Proc : pc'[q] \in Busy =>
              cur'[q] \in 1..Len(reads') /\ reads'[cur'[q]] = q
      BY <1>2, <1>3, <1>6, <1>7 DEF FateInv, Owned, Busy
    <2> QED
      BY <1>1, <1>2, <1>3, <1>7, <2>1, <2>2 DEF Owned
  <1>9. Known'
    BY <1>2, <1>3, <1>4, <1>7 DEF FateInv, Known
  <1>10. Pending'
    <2>1. PendingOf(p)'
      BY <1>1, <1>4, <1>5, <1>6 DEF PendingOf, Accounted, NeedsNoResult
    <2>2. \A q \in Proc \ {p} : PendingOf(q)'
      BY <1>1, <1>4, <1>6 DEF FateInv, Pending, PendingOf
    <2> QED
      BY <2>1, <2>2 DEF Pending
  <1>11. OneFate'
    BY <1>2, <1>3, <1>4, <1>5, <1>7 DEF FateInv, OneFate
  <1>12. AckedIsAccounted'
    <2> SUFFICES ASSUME NEW id \in Delivered' \ pel'
                 PROVE  Accounted(id)'
      BY DEF AckedIsAccounted
    <2>1. id \in 1..Len(reads) /\ id \notin pel /\ reads[id] # Nobody
      BY <1>1, <1>2, <1>3, <1>7 DEF Delivered
    <2> QED
      BY <1>4, <2>1 DEF FateInv, AckedIsAccounted, Delivered
  <1> QED
    BY <1>8, <1>9, <1>10, <1>11, <1>12 DEF FateInv

(* Acknowledging keeps the fates: only the process's own request leaves the *)
(* pending list, and it is accounted for (consumer.go:110, consumer.go:222). *)
LEMMA FateAck ==
    ASSUME FateInv, Typed', NEW p \in Proc, Ack(p)
    PROVE  FateInv'
  <1>1. /\ pc[p] = "ack" /\ pc' = [pc EXCEPT ![p] = "read"]
        /\ pel' = pel \ {cur[p]} \/ pel' = pel
        /\ cur' = [cur EXCEPT ![p] = 0]
        /\ incoming' = [incoming EXCEPT ![p] = ZeroRequest]
        /\ UNCHANGED <<input, group, reads, dead>>
        /\ UNCHANGED <<queue, wpc, hand, handled, lost>>
    BY DEF Ack, Continue, workerVars
  <1>2. \A id : /\ HasItem(id)' <=> HasItem(id)
                /\ HasDeadLetter(id)' <=> HasDeadLetter(id)
                /\ Accounted(id)' <=> Accounted(id)
    BY <1>1, QueuedUnchanged DEF HasItem, HasDeadLetter, Accounted
  <1>3. /\ pc'[p] = "read"
        /\ \A q \in Proc \ {p} : /\ pc'[q] = pc[q] /\ cur'[q] = cur[q]
                                 /\ incoming'[q] = incoming[q]
    BY <1>1 DEF FateInv, Typed, TypeOK, ProcessTypeOK
  <1>4. /\ Accounted(cur[p]) /\ cur[p] \in 1..Len(reads)
    BY <1>1 DEF FateInv, Pending, PendingOf, Owned, Busy
  <1>5. Owned'
    <2>1. group
      BY <1>4, NoElements DEF FateInv, Owned
    <2> QED
      BY <1>1, <1>3, <2>1 DEF FateInv, Owned, Busy
  <1>6. Known' /\ OneFate'
    BY <1>1, <1>2 DEF FateInv, Known, OneFate
  <1>7. Pending'
    BY <1>1, <1>2, <1>3 DEF FateInv, Pending, PendingOf
  <1>8. AckedIsAccounted'
    BY <1>1, <1>2, <1>4 DEF FateInv, AckedIsAccounted, Delivered
  <1> QED
    BY <1>5, <1>6, <1>7, <1>8 DEF FateInv

(* Creating the group keeps the fates: while there is no group nothing was  *)
(* read, and the entries it skips are delivered to nobody (consumer.go:71). *)
LEMMA FateSetup ==
    ASSUME FateInv, Typed', NEW p \in Proc, EnsureConsumerGroup(p)
    PROVE  FateInv'
  <1>1. /\ pc[p] = "setup"
        /\ \E k \in {"read", "exited"} : pc' = [pc EXCEPT ![p] = k]
        /\ UNCHANGED <<input, cur, incoming, pel, dead>>
        /\ UNCHANGED <<queue, wpc, hand, handled, lost>>
        /\ CreateGroup \/ (UNCHANGED <<group, reads>> /\ pc'[p] = "exited")
    BY DEF EnsureConsumerGroup, workerVars, FateInv, Typed, TypeOK,
           ProcessTypeOK
  <1>2. \A id : /\ HasItem(id)' <=> HasItem(id)
                /\ HasDeadLetter(id)' <=> HasDeadLetter(id)
                /\ Accounted(id)' <=> Accounted(id)
    BY <1>1, QueuedUnchanged DEF HasItem, HasDeadLetter, Accounted
  <1>3. /\ pc'[p] \in {"read", "exited"}
        /\ \A q \in Proc \ {p} : pc'[q] = pc[q]
    BY <1>1 DEF FateInv, Typed, TypeOK, ProcessTypeOK
  <1>4. Len(reads) \in Nat /\ Len(input) \in Nat
    BY DEF FateInv, Typed, TypeOK, ProcessTypeOK
  <1>5. \A q \in Proc : pc'[q] \in Busy => pc[q] \in Busy /\ pc'[q] = pc[q]
    BY <1>3 DEF Busy
  <1>6. Pending'
    <2> SUFFICES ASSUME NEW q \in Proc
                 PROVE  PendingOf(q)'
      BY DEF Pending
    <2>1. CASE pc'[q] \in Busy
      BY <1>1, <1>2, <1>5, <2>1 DEF FateInv, Pending, PendingOf
    <2>2. CASE pc'[q] \notin Busy
      BY <2>2 DEF PendingOf, Busy
    <2> QED
      BY <2>1, <2>2
  <1>7. CASE UNCHANGED <<group, reads>>
    <2>1. Owned'
      <3>1. \A q \in Proc : pc'[q] = "read" => group
        BY <1>1, <1>3, <1>7 DEF FateInv, Owned, CreateGroup
      <3> QED
        BY <1>1, <1>5, <1>7, <3>1 DEF FateInv, Owned
    <2>2. Known' /\ OneFate' /\ AckedIsAccounted'
      BY <1>1, <1>2, <1>7
      DEF FateInv, Known, OneFate, AckedIsAccounted, Delivered
    <2> QED
      BY <1>6, <2>1, <2>2 DEF FateInv
  <1>8. CASE ~group /\ group' /\ reads' = [i \in 1..Len(input) |-> Nobody]
    <2>1. Len(reads) = 0 /\ \A q \in Proc : pc[q] \notin Busy
      BY <1>8, NoElements DEF FateInv, Owned
    <2>2. Len(reads') = Len(input) /\ \A i \in 1..Len(input) : reads'[i] = Nobody
      BY <1>4, <1>8
    <2>3. Owned'
      BY <1>1, <1>4, <1>5, <1>8, <2>1, <2>2 DEF Owned
    <2>4. Known'
      BY <1>2, <1>4, <2>1, <2>2 DEF FateInv, Known
    <2>5. OneFate'
      <3>1. \A id \in 1..Len(input) : ~HasItem(id)
        BY <1>4, <2>1 DEF FateInv, Known
      <3> QED
        BY <1>2, <2>2, <3>1 DEF OneFate
    <2>6. AckedIsAccounted'
      BY <2>2 DEF AckedIsAccounted, Delivered
    <2> QED
      BY <1>6, <2>3, <2>4, <2>5, <2>6 DEF FateInv
  <1> QED
    BY <1>1, <1>7, <1>8 DEF CreateGroup, FateInv, Typed, TypeOK

(* Every step keeps the fates.                                              *)
LEMMA FateNext == FateInv /\ [Next]_vars => FateInv'
  <1> SUFFICES ASSUME FateInv, [Next]_vars
               PROVE  FateInv'
    OBVIOUS
  <1>1. Typed /\ Typed'
    BY TypedNext DEF FateInv
  <1>2. /\ pc \in [Proc -> {"down", "setup", "read", "process", "export",
                            "status", "run", "marker", "dead", "ack", "exited"}]
        /\ input \in Seq(Request) /\ Len(input) \in Nat
    BY <1>1 DEF Typed, TypeOK, ProcessTypeOK
  <1>3. ASSUME NEW r \in Payloads, Produce(r), UNCHANGED <<groupVars, dead>>
        PROVE  FateInv'
    <2>1. r \in Request
      BY ProcessAssumption
    <2>2. /\ Len(input') = Len(input) + 1
          /\ \A i \in 1..Len(input) : input'[i] = input[i]
      BY <1>2, <1>3, <2>1, AppendProperties DEF Produce
    <2>3. /\ UNCHANGED <<pc, cur, incoming>>
          /\ UNCHANGED <<queue, wpc, hand, handled, lost>>
      BY <1>3 DEF Produce, consumerVars, workerVars
    <2>4. \A id : HasItem(id)' <=> HasItem(id)
      BY <2>3, QueuedUnchanged DEF HasItem
    <2> QED
      BY <1>1, <1>2, <1>3, <2>2, <2>3, <2>4, QuietStep
  <1>4. ASSUME UNCHANGED processVars, UNCHANGED <<groupVars, dead>>
        PROVE  FateInv'
    <2>1. /\ UNCHANGED <<input, pc, cur, incoming>>
          /\ UNCHANGED <<queue, wpc, hand, handled, lost>>
      BY <1>4 DEF processVars, consumerVars, workerVars
    <2>2. \A id : HasItem(id)' <=> HasItem(id)
      BY <2>1, QueuedUnchanged DEF HasItem
    <2> QED
      BY <1>1, <1>2, <1>4, <2>1, <2>2, QuietStep
  <1>5. ASSUME NEW p \in Proc, UNCHANGED <<groupVars, dead>>, input' = input,
               NEW k \in {"down", "setup", "exited"},
               pc' = [pc EXCEPT ![p] = k],
               \A q \in Proc \ {p} : cur'[q] = cur[q] /\ incoming'[q] = incoming[q],
               \A id, m : Queued(id, m)' <=> Queued(id, m)
        PROVE  FateInv'
    <2>1. \A q \in Proc : pc'[q] \in Busy \cup {"read"} =>
              pc'[q] = pc[q] /\ cur'[q] = cur[q] /\ incoming'[q] = incoming[q]
      BY <1>2, <1>5 DEF Busy
    <2>2. \A id : HasItem(id)' <=> HasItem(id)
      BY <1>5 DEF HasItem
    <2> QED
      BY <1>1, <1>2, <1>5, <2>1, <2>2, QuietStep DEF Busy
  <1>6. ASSUME NEW p \in Proc, Start(p)
        PROVE  FateInv'
    <2>1. /\ pc' = [pc EXCEPT ![p] = "setup"]
          /\ UNCHANGED <<groupVars, dead>> /\ UNCHANGED <<input, cur, incoming>>
          /\ UNCHANGED <<queue, wpc, hand, handled, lost>>
      BY <1>6 DEF Start, Begin, workerVars
    <2> QED
      BY <1>5, <2>1, QueuedUnchanged
  <1>7. ASSUME NEW p \in Proc, ConsumerReturn(p),
               UNCHANGED <<groupVars, dead>>
        PROVE  FateInv'
    <2>1. /\ pc' = [pc EXCEPT ![p] = "exited"]
          /\ UNCHANGED <<groupVars, dead>> /\ UNCHANGED <<input, cur, incoming>>
          /\ UNCHANGED <<queue, wpc, hand, handled, lost>>
      BY <1>7 DEF ConsumerReturn, workerVars
    <2> QED
      BY <1>5, <2>1, QueuedUnchanged
  <1>8. ASSUME NEW p \in Proc, End(p), UNCHANGED <<groupVars, dead>>
        PROVE  FateInv'
    <2>1. /\ pc' = [pc EXCEPT ![p] = "down"] /\ input' = input
          /\ \A q \in Proc \ {p} : /\ cur'[q] = cur[q]
                                   /\ incoming'[q] = incoming[q]
      BY <1>1, <1>8 DEF End, Typed, TypeOK, ProcessTypeOK
    <2> QED
      BY <1>1, <1>5, <1>8, <2>1, TypedProcesses, EndKeeps
  <1>9. ASSUME NEW p \in Proc, UNCHANGED <<groupVars, dead>>,
               WorkerStep(p) \/ WorkerReturn(p) \/ Signal(p)
        PROVE  FateInv'
    <2>1. UNCHANGED <<input, pc, cur, incoming>>
      BY <1>9 DEF WorkerStep, WorkerReturn, Signal, Take, SendSSEEvent,
                  StoreResult, DispatchToStream, IncrementCompletion,
                  CheckCompletion, SetCompletion, consumerVars
    <2>2. \A id, m : Queued(id, m)' <=> Queued(id, m)
      <3>1. CASE WorkerStep(p) \/ WorkerReturn(p)
        BY <1>1, <3>1, TypedProcesses, WorkerKeeps
      <3>2. CASE Signal(p)
        BY <3>2, QueuedUnchanged DEF Signal, workerVars
      <3> QED
        BY <1>9, <3>1, <3>2
    <2>3. \A id : HasItem(id)' <=> HasItem(id)
      BY <2>2 DEF HasItem
    <2> QED
      BY <1>1, <1>2, <1>9, <2>1, <2>3, QuietStep
  <1>10. CASE UNCHANGED vars
    BY <1>4, <1>10 DEF vars
  <1> QED
    BY <1>1, <1>3, <1>4, <1>6, <1>7, <1>8, <1>9, <1>10, FateConsumer,
       FateDeadLetter, FateRead, FateAck, FateSetup
    DEF Next, Shared, Expire, ReadNothing, vars

(* No acknowledged request disappears inside the consumer: it needed no     *)
(* result, was offered to the dead letters, or its result was queued        *)
(* (consumer.go, Run, ProcessMessage and deadLetter).                       *)
THEOREM AckedIsAccountedHolds == Spec => []AckedIsAccounted
  <1>1. FateInv => AckedIsAccounted
    BY DEF FateInv
  <1> QED
    BY FateInit, FateNext, <1>1, PTL DEF Spec

(* A request whose result was queued is never dead-lettered as well,        *)
(* whatever timeouts, signals and crashes happen (consumer.go,              *)
(* ProcessMessage and deadLetter).                                          *)
THEOREM OneFateHolds == Spec => []OneFate
  <1>1. FateInv => OneFate
    BY DEF FateInv
  <1> QED
    BY FateInit, FateNext, <1>1, PTL DEF Spec

-----------------------------------------------------------------------------
(* Dead letters.                                                            *)

\* What ProcessMessage has made of the entry that a process works on.
CarriedOf(p) ==
    /\ pc[p] \in {"status", "run", "marker"} =>
           incoming[p] = Enriched(input[cur[p]])
    /\ pc[p] \in {"status", "marker"} => Buffered(input[cur[p]])
    /\ pc[p] = "dead" =>
           incoming[p] \in {Merged(input[cur[p]]), Enriched(input[cur[p]])}

\* A dead letter keeps its request, merged or merged and enriched.
KeptPayloads ==
    \A i \in DOMAIN dead :
        LET sent == input[dead[i].id]
        IN  /\ dead[i].id \in 1..Len(input)
            /\ dead[i].payload \in {Merged(sent), Enriched(sent)}

ReplayInv ==
    FateInv /\ (\A p \in Proc : CarriedOf(p)) /\ KeptPayloads

(* The entry that a process works on is in the stream.                      *)
LEMMA CurIsEntry ==
    ASSUME FateInv, NEW p \in Proc, pc[p] \in Busy
    PROVE  cur[p] \in 1..Len(input) /\ input[cur[p]] \in Request
  <1>1. input \in Seq(Request) /\ reads \in Seq(Proc \cup {Nobody})
    BY DEF FateInv, Typed, TypeOK, ProcessTypeOK
  <1>2. cur[p] \in 1..Len(input)
    BY <1>1, LenProperties DEF FateInv, Owned
  <1> QED
    BY <1>1, <1>2, ElementOfSeq

\* A step after which every process carries what it carried.
LEMMA ReplayQuiet ==
    ASSUME ReplayInv, FateInv', dead' = dead,
           Len(input) <= Len(input'),
           \A i \in 1..Len(input) : input'[i] = input[i],
           \A p \in Proc : pc'[p] \in {"status", "run", "marker", "dead"} =>
               /\ pc'[p] = pc[p]
               /\ cur'[p] = cur[p]
               /\ incoming'[p] = incoming[p]
    PROVE  ReplayInv'
  <1>1. ASSUME NEW p \in Proc
        PROVE  CarriedOf(p)'
    <2>1. CASE pc'[p] \in {"status", "run", "marker", "dead"}
      <3>1. pc[p] \in Busy
        BY <2>1 DEF Busy
      <3>2. input'[cur[p]] = input[cur[p]]
        BY <3>1, CurIsEntry DEF ReplayInv
      <3> QED
        BY <2>1, <3>2 DEF ReplayInv, CarriedOf
    <2>2. CASE pc'[p] \notin {"status", "run", "marker", "dead"}
      BY <2>2 DEF CarriedOf
    <2> QED
      BY <2>1, <2>2
  <1>2. KeptPayloads'
    <2>1. Len(input) \in Nat /\ Len(input') \in Nat
      BY LenProperties DEF ReplayInv, FateInv, Typed, TypeOK, ProcessTypeOK
    <2> QED
      BY <2>1 DEF ReplayInv, KeptPayloads
  <1> QED
    BY <1>1, <1>2 DEF ReplayInv

(* The steps of ProcessMessage change a request as they should.             *)
LEMMA ReplayConsumer ==
    ASSUME ReplayInv, FateInv', NEW p \in Proc, ConsumerStep(p),
           UNCHANGED <<groupVars, dead>>
    PROVE  ReplayInv'
  <1>1. /\ Typed /\ ProcessTyped /\ PendingOf(p) /\ CarriedOf(p) /\ KeptPayloads
        /\ FateInv
    BY TypedProcesses DEF ReplayInv, FateInv, Pending
  <1>2. /\ pc \in [Proc -> {"down", "setup", "read", "process", "export",
                            "status", "run", "marker", "dead", "ack", "exited"}]
        /\ incoming \in [Proc -> Request]
    BY <1>1 DEF ProcessTyped, ProcessTypeOK
  <1>3. UNCHANGED <<input, cur, dead>> /\ pc[p] \in Busy
    BY DEF ConsumerStep, Triage, UpdateEventStatus, RunController, SendMarker,
           Busy
  <1>4. input[cur[p]] \in Request
    BY <1>1, <1>3, CurIsEntry
  <1>5. /\ \A q \in Proc \ {p} : pc'[q] = pc[q] /\ incoming'[q] = incoming[q]
        /\ CarriedOf(p)'
    <2>1. CASE Triage(p)
      <3>1. PICK k \in {"ack", "export", "dead", "status", "run"}, r \in Request :
              /\ pc' = [pc EXCEPT ![p] = k]
              /\ incoming' = [incoming EXCEPT ![p] = r]
              /\ k = "dead" => r = Merged(incoming[p])
              /\ k \in {"status", "run"} => r = Enriched(incoming[p])
              /\ k = "status" => Buffered(incoming[p])
        BY <1>1, <2>1, TriageOutcome DEF ProcessTyped
      <3>2. incoming[p] = input[cur[p]]
        BY <1>1, <2>1 DEF Triage, PendingOf
      <3>3. /\ pc'[p] = k /\ incoming'[p] = r
            /\ \A q \in Proc \ {p} : pc'[q] = pc[q] /\ incoming'[q] = incoming[q]
        BY <1>2, <3>1
      <3> QED
        BY <1>3, <3>1, <3>2, <3>3 DEF CarriedOf
    <2>2. CASE UpdateEventStatus(p)
      <3>1. pc[p] = "status" /\ pc' = [pc EXCEPT ![p] = "run"] /\ incoming' = incoming
        BY <2>2 DEF UpdateEventStatus
      <3> QED
        BY <1>1, <1>2, <1>3, <3>1 DEF CarriedOf
    <2>3. CASE RunController(p)
      <3>1. /\ pc[p] = "run" /\ incoming' = incoming
            /\ \/ pc' = [pc EXCEPT ![p] = "marker"] /\ Buffered(incoming[p])
               \/ pc' = [pc EXCEPT ![p] = "ack"]
               \/ pc' = [pc EXCEPT ![p] = "dead"]
        BY <2>3 DEF RunController, ControllerFailed
      <3>2. incoming[p] = Enriched(input[cur[p]])
        BY <1>1, <3>1 DEF CarriedOf
      <3>3. Buffered(incoming[p]) => Buffered(input[cur[p]])
        BY <1>4, <3>2, EnrichedType DEF Buffered
      <3> QED
        BY <1>2, <1>3, <3>1, <3>2, <3>3 DEF CarriedOf
    <2>4. CASE SendMarker(p)
      <3>1. pc' = [pc EXCEPT ![p] = "ack"] /\ incoming' = incoming
        BY <2>4 DEF SendMarker
      <3> QED
        BY <1>2, <3>1 DEF CarriedOf
    <2> QED
      BY <2>1, <2>2, <2>3, <2>4 DEF ConsumerStep
  <1>6. \A q \in Proc \ {p} : CarriedOf(q)'
    BY <1>3, <1>5 DEF ReplayInv, CarriedOf
  <1>7. KeptPayloads'
    BY <1>1, <1>3 DEF KeptPayloads
  <1> QED
    BY <1>5, <1>6, <1>7 DEF ReplayInv

(* deadLetter stores the request as ProcessMessage left it                  *)
(* (consumer.go:210-222).                                                   *)
LEMMA ReplayDeadLetter ==
    ASSUME ReplayInv, FateInv', NEW p \in Proc, AddDeadLetter(p)
    PROVE  ReplayInv'
  <1>1. Typed /\ CarriedOf(p) /\ KeptPayloads /\ FateInv
    BY DEF ReplayInv, FateInv
  <1>2. /\ pc[p] = "dead" /\ pc' = [pc EXCEPT ![p] = "ack"]
        /\ UNCHANGED <<input, cur, incoming>>
    BY DEF AddDeadLetter
  <1>3. PICK d \in DeadLetter : /\ d.id = cur[p] /\ d.payload = incoming[p]
                                /\ dead' = Append(dead, d)
    <2>1. PICK ok \in BOOLEAN :
              dead' = Append(dead, [id |-> cur[p], reason |-> reason[p],
                                    payload |-> incoming[p], ok |-> ok])
      BY DEF AddDeadLetter
    <2>2. [id |-> cur[p], reason |-> reason[p], payload |-> incoming[p],
           ok |-> ok] \in DeadLetter
      BY <1>1 DEF Typed, TypeOK, ProcessTypeOK, DeadLetter
    <2> QED
      BY <2>1, <2>2
  <1>4. /\ cur[p] \in 1..Len(input)
        /\ d.payload \in {Merged(input[d.id]), Enriched(input[d.id])}
    BY <1>1, <1>2, <1>3, CurIsEntry DEF CarriedOf, Busy
  <1>5. dead \in Seq(DeadLetter)
    BY <1>1 DEF Typed, TypeOK
  <1>6. KeptPayloads'
    <2>1. /\ DOMAIN dead' = 1..(Len(dead) + 1) /\ Len(dead) \in Nat
          /\ DOMAIN dead = 1..Len(dead)
          /\ \A i \in 1..Len(dead) : dead'[i] = dead[i]
          /\ dead'[Len(dead) + 1] = d
      BY <1>3, <1>5, AppendProperties, LenProperties
    <2> SUFFICES ASSUME NEW i \in 1..(Len(dead) + 1)
                 PROVE  /\ dead'[i].id \in 1..Len(input)
                        /\ dead'[i].payload \in {Merged(input[dead'[i].id]),
                                                 Enriched(input[dead'[i].id])}
      BY <1>2, <2>1 DEF KeptPayloads
    <2>2. CASE i \in 1..Len(dead)
      BY <1>1, <2>1, <2>2 DEF KeptPayloads
    <2>3. CASE i = Len(dead) + 1
      BY <1>3, <1>4, <2>1, <2>3
    <2> QED
      BY <2>1, <2>2, <2>3
  <1>7. \A q \in Proc : CarriedOf(q)'
    <2>1. /\ pc'[p] = "ack"
          /\ \A q \in Proc \ {p} : pc'[q] = pc[q]
      BY <1>1, <1>2 DEF Typed, TypeOK, ProcessTypeOK
    <2> QED
      BY <1>2, <2>1 DEF ReplayInv, CarriedOf
  <1> QED
    BY <1>6, <1>7 DEF ReplayInv


(* A request in hand is changed by merging and enrichment only, and put on  *)
(* the dead-letter stream as it is.                                         *)
LEMMA ReplayNext == ReplayInv /\ [Next]_vars => ReplayInv'
  <1> SUFFICES ASSUME ReplayInv, [Next]_vars
               PROVE  ReplayInv'
    OBVIOUS
  <1>1. Typed /\ FateInv /\ FateInv'
    BY FateNext DEF ReplayInv, FateInv
  <1>2. /\ pc \in [Proc -> {"down", "setup", "read", "process", "export",
                            "status", "run", "marker", "dead", "ack", "exited"}]
        /\ cur \in [Proc -> Nat] /\ incoming \in [Proc -> Request]
        /\ input \in Seq(Request) /\ Len(input) \in Nat
    BY <1>1, LenProperties DEF Typed, TypeOK, ProcessTypeOK
  <1>3. ASSUME UNCHANGED <<input, pc, cur, incoming, dead>>
        PROVE  ReplayInv'
    BY <1>1, <1>2, <1>3, ReplayQuiet
  <1>4. ASSUME NEW p \in Proc, UNCHANGED <<input, dead>>,
               NEW k \in {"down", "setup", "read", "process", "ack", "exited"},
               pc' = [pc EXCEPT ![p] = k],
               \A q \in Proc \ {p} : cur'[q] = cur[q] /\ incoming'[q] = incoming[q]
        PROVE  ReplayInv'
    <2>1. \A q \in Proc : pc'[q] \in {"status", "run", "marker", "dead"} =>
              pc'[q] = pc[q] /\ cur'[q] = cur[q] /\ incoming'[q] = incoming[q]
      BY <1>2, <1>4
    <2> QED
      BY <1>1, <1>2, <1>4, <2>1, ReplayQuiet
  <1>5. ASSUME NEW r \in Payloads, Produce(r), UNCHANGED <<groupVars, dead>>
        PROVE  ReplayInv'
    <2>1. r \in Request
      BY ProcessAssumption
    <2>2. /\ Len(input') = Len(input) + 1
          /\ \A i \in 1..Len(input) : input'[i] = input[i]
      BY <1>2, <1>5, <2>1, AppendProperties DEF Produce
    <2>3. UNCHANGED <<pc, cur, incoming>>
      BY <1>5 DEF Produce, consumerVars
    <2> QED
      BY <1>1, <1>2, <1>5, <2>2, <2>3, ReplayQuiet
  <1>6. ASSUME NEW rk \in RoutingKey, Expire(rk), UNCHANGED <<groupVars, dead>>
        PROVE  ReplayInv'
    BY <1>3, <1>6 DEF Expire, processVars, consumerVars
  <1>7. ASSUME NEW p \in Proc, Start(p)
        PROVE  ReplayInv'
    BY <1>4, <1>7 DEF Start, Begin
  <1>8. ASSUME NEW p \in Proc, EnsureConsumerGroup(p)
        PROVE  ReplayInv'
    BY <1>4, <1>8 DEF EnsureConsumerGroup
  <1>9. ASSUME NEW p \in Proc, ReadGroup(p)
        PROVE  ReplayInv'
    <2>1. /\ UNCHANGED <<input, dead>>
          /\ \/ UNCHANGED <<pc, cur, incoming>>
             \/ /\ cur' = [cur EXCEPT ![p] = Len(reads) + 1]
                /\ incoming' = [incoming EXCEPT ![p] = input[Len(reads) + 1]]
                /\ \E k \in {"ack", "process"} : pc' = [pc EXCEPT ![p] = k]
      BY <1>9 DEF ReadGroup
    <2> QED
      BY <1>2, <1>3, <1>4, <2>1
  <1>10. ASSUME NEW p \in Proc, Ack(p)
         PROVE  ReplayInv'
    <2>1. \A q \in Proc \ {p} : cur'[q] = cur[q] /\ incoming'[q] = incoming[q]
      BY <1>2, <1>10 DEF Ack, Continue
    <2> QED
      BY <1>4, <1>10, <2>1 DEF Ack, Continue
  <1>11. ASSUME NEW p \in Proc, Shared(p)
         PROVE  ReplayInv'
    <2>1. UNCHANGED <<groupVars, dead>>
      BY <1>11 DEF Shared
    <2>2. CASE ConsumerReturn(p)
      BY <1>4, <2>1, <2>2 DEF ConsumerReturn
    <2>3. CASE WorkerStep(p) \/ WorkerReturn(p)
      BY <1>1, <1>3, <2>1, <2>3, TypedProcesses, WorkerMoves
    <2>4. CASE Signal(p)
      BY <1>3, <2>1, <2>4 DEF Signal, consumerVars
    <2>5. CASE End(p)
      <3>1. \A q \in Proc \ {p} : cur'[q] = cur[q] /\ incoming'[q] = incoming[q]
        BY <1>2, <2>5 DEF End
      <3> QED
        BY <1>4, <2>1, <2>5, <3>1 DEF End
    <2> QED
      BY <1>1, <1>11, <2>1, <2>2, <2>3, <2>4, <2>5, ReplayConsumer DEF Shared
  <1>12. CASE UNCHANGED vars
    BY <1>3, <1>12 DEF vars, processVars, consumerVars
  <1> QED
    BY <1>1, <1>5, <1>6, <1>7, <1>8, <1>9, <1>10, <1>11, <1>12, ReplayDeadLetter
    DEF Next, ReadNothing

(* There are no dead letters in the beginning.                              *)
LEMMA ReplayInit == Init => ReplayInv
  <1> SUFFICES ASSUME Init PROVE ReplayInv
    OBVIOUS
  <1>1. \A p \in Proc : CarriedOf(p)
    BY DEF Init, ProcessInit, CarriedOf
  <1>2. KeptPayloads
    BY NoElements DEF Init, KeptPayloads
  <1> QED
    BY <1>1, <1>2, FateInit DEF ReplayInv

(* A dead letter can be replayed: the payload deadLetter stores, which      *)
(* ProcessMessage has mutated, leads to the same message and the same set   *)
(* of widgets as the request that was read, for every request               *)
(* (consumer.go:155-161, 210-222, events.go:71).                            *)
THEOREM DeadLetterReplaysHolds == Spec => []DeadLetterReplays
  <1>1. ReplayInv => DeadLetterReplays
    <2> SUFFICES ASSUME ReplayInv, NEW i \in DOMAIN dead
                 PROVE  LET sent == input[dead[i].id]  kept == dead[i].payload
                            widgets(r) == {Enriched(r).SelectedWidgets[k] :
                               k \in DOMAIN Enriched(r).SelectedWidgets}
                        IN  /\ OutgoingMessage(Enriched(kept))
                                   = OutgoingMessage(Enriched(sent))
                            /\ widgets(kept) = widgets(sent)
      BY DEF DeadLetterReplays
    <2> DEFINE sent == input[dead[i].id]
               kept == dead[i].payload
    <2>1. kept \in {Merged(sent), Enriched(sent)} /\ dead[i].id \in 1..Len(input)
      BY DEF ReplayInv, KeptPayloads
    <2>2. sent \in Request
      BY <2>1, ElementOfSeq
      DEF ReplayInv, FateInv, Typed, TypeOK, ProcessTypeOK
    <2>3. /\ OutgoingMessage(Enriched(kept)) = OutgoingMessage(Enriched(sent))
          /\ Range(Enriched(kept).SelectedWidgets)
                 = Range(Enriched(sent).SelectedWidgets)
      BY <2>1, <2>2, ReplayedAlike
    <2> QED
      BY <2>3 DEF Range
  <1> QED
    BY ReplayInit, ReplayNext, <1>1, PTL DEF Spec
=============================================================================
