---------------------------- MODULE ProcessProofs ---------------------------
(***************************************************************************)
(* Facts about Process that hold in both modes, for any number of          *)
(* processes, any entries, any queue capacity and any faults: its steps    *)
(* keep the types, and items move without appearing or vanishing.          *)
(***************************************************************************)
EXTENDS Process, EventsProofs, SequenceTheorems, TLAPS

USE DEF Message

(* Short sequences, for the names and lists of a message.                  *)
LEMMA ShortSeqs ==
    ASSUME NEW S, NEW a \in S, NEW b \in S
    PROVE  <<>> \in Seq(S) /\ <<a>> \in Seq(S) /\ <<a, b>> \in Seq(S)
  OBVIOUS

(* The empty sequence.                                                     *)
LEMMA NoElements ==
    /\ \A S : <<>> \in Seq(S)
    /\ Len(<<>>) = 0
    /\ DOMAIN <<>> = {}
  BY EmptySeq

(* The capacity is a number (consumer.go:17).                              *)
LEMMA CapacityIsNat == SenderQueueCap \in Nat
  BY ProcessAssumption

(* The enrichment keeps a string a string (events.go:71).                  *)
LEMMA EnrichedPageType ==
    ASSUME NEW e, NEW page \in Text
    PROVE  EnrichedPage(e, page) \in Text
  <1>1. "EngagementsProductPage" \in Text
    <2>1. /\ "engagements" \in DOMAIN EngagementsPageNameMapping
          /\ EngagementsPageNameMapping["engagements"] = "EngagementsProductPage"
      BY DEF EngagementsPageNameMapping
    <2> QED
      BY <2>1, TextAssumption
  <1> QED
    BY <1>1, TextAssumption DEF EnrichedPage, Mapped

(* Merging widgets and enriching keep a request a request with the same    *)
(* routing key and stream_tech (consumer.go:157, consumer.go:177).         *)
LEMMA EnrichedType ==
    ASSUME NEW r \in Request
    PROVE  /\ Merged(r) \in Request
           /\ Merged(r).RoutingKey = r.RoutingKey
           /\ Enriched(r) \in Request
           /\ Enriched(r).RoutingKey = r.RoutingKey
           /\ Enriched(r).StreamTech = r.StreamTech
  <1>1. r.SelectedWidgets \o r.TopWidgets \in Seq(Text)
    BY DEF Request
  <1>2. /\ Merged(r) \in Request
        /\ Merged(r).RoutingKey = r.RoutingKey
        /\ Merged(r).StreamTech = r.StreamTech
    BY <1>1 DEF Merged, Request
  <1> DEFINE m == Merged(r)
             e == r.EventName
  <1>3. /\ EnrichedPage(e, m.PageName) \in Text
        /\ m.Product \in Text /\ "Dashboards" \in Text
        /\ m.DataSourceName \in Text /\ "Fediprivate" \in Text
    BY <1>2, EnrichedPageType, TextAssumption DEF Request
  <1> HIDE DEF m, e
  <1>4. /\ EventToPageEnrichment(e, m) \in Request
        /\ EventToPageEnrichment(e, m).RoutingKey = m.RoutingKey
        /\ EventToPageEnrichment(e, m).StreamTech = m.StreamTech
    BY <1>2, <1>3 DEF EventToPageEnrichment, Request, m
  <1> QED
    BY <1>2, <1>4 DEF Enriched, m, e

(* What the controller pushes is a message (stub.go:21, controller.go:93). *)
LEMMA OutgoingType ==
    ASSUME NEW r \in Request
    PROVE  OutgoingMessage(r) \in Message
  <1>1. /\ r.PageName \in Text /\ r.StreamTech \in Text
        /\ "__stub" \in Text /\ "Stub__Widget" \in Text
        /\ "Dispatcher__Placeholder" \in Text /\ "" \in Text
    BY NamesAssumption, TextAssumption DEF Request
  <1>2. /\ <<r.PageName, "__stub">> \in Seq(Text)
        /\ <<"Stub__Widget">> \in Seq(Text)
        /\ <<"Dispatcher__Placeholder">> \in Seq(Text)
    BY <1>1, ShortSeqs
  <1>3. CallPageData(r) \in Message
    BY <1>1, <1>2 DEF CallPageData
  <1>4. Placeholder \in Message
    BY <1>1, <1>2 DEF Placeholder
  <1> QED
    BY <1>3, <1>4 DEF OutgoingMessage

(* The zero value of a message is a request.                               *)
LEMMA ZeroType == ZeroRequest \in Request
  <1>1. "" \in Text
    BY TextAssumption
  <1>2. <<>> \in Seq(Text)
    BY <1>1, ShortSeqs
  <1> QED
    BY <1>1, <1>2 DEF ZeroRequest, Request
-----------------------------------------------------------------------------
(* Type correctness.  The types alone are not inductive: that an item's     *)
(* routing key names a buffer comes from the entry that was read.           *)
KeyedInput == \A i \in DOMAIN input : input[i].RoutingKey \in RoutingKey

KeyedIncoming ==
    \A p \in Proc : pc[p] \in {"process", "status", "run", "marker"} =>
        incoming[p].RoutingKey \in RoutingKey

ProcessTyped ==
    ProcessTypeOK /\ BackendTypeOK /\ KeyedInput /\ KeyedIncoming

(* Every write to the backend leaves hashes and states (backend.go:44-93).  *)
LEMMA BackendWrites ==
    ASSUME BackendTypeOK, NEW rk \in RoutingKey
    PROVE  /\ \A name \in Seq(Text), id \in Nat :
                  StoreDataInRedis(rk, name, id) => BackendTypeOK'
           /\ IncrementProcessedCount(rk) => BackendTypeOK'
           /\ \A s \in {NoStatus, PROCESSING, BUFFERED} :
                  SetStatus(rk, s) => BackendTypeOK'
           /\ ExpireBuffer(rk) => BackendTypeOK'
           /\ ExpireStatus(rk) => BackendTypeOK'
           /\ UNCHANGED backendVars => BackendTypeOK'
  <1>1. buffer[rk] \in Hash
    BY DEF BackendTypeOK
  <1>2. ASSUME NEW name \in Seq(Text), NEW id \in Nat,
               StoreDataInRedis(rk, name, id)
        PROVE  BackendTypeOK'
    <2> DEFINE fs == {f \in buffer[rk].fields : f[1] # name} \cup {<<name, id>>}
    <2>1. fs \in SUBSET (Seq(Text) \X Nat)
      BY <1>1 DEF Hash
    <2>2. buffer' = [buffer EXCEPT ![rk] =
                        [buffer[rk] EXCEPT !.fields = fs, !.ttl = TRUE]]
      BY <1>2, <1>1 DEF StoreDataInRedis, BackendTypeOK, Hash
    <2> HIDE DEF fs
    <2>3. [buffer[rk] EXCEPT !.fields = fs, !.ttl = TRUE] \in Hash
      BY <1>1, <2>1 DEF Hash
    <2> QED
      BY <1>2, <2>2, <2>3 DEF StoreDataInRedis, BackendTypeOK
  <1>3. ASSUME IncrementProcessedCount(rk)
        PROVE  BackendTypeOK'
    <2>1. [buffer[rk] EXCEPT !.count = @ + 1] \in Hash
      BY <1>1 DEF Hash
    <2> QED
      BY <1>3, <2>1 DEF IncrementProcessedCount, BackendTypeOK
  <1>4. ASSUME NEW s \in {NoStatus, PROCESSING, BUFFERED}, SetStatus(rk, s)
        PROVE  BackendTypeOK'
    BY <1>4 DEF SetStatus, BackendTypeOK
  <1>5. EmptyHash \in Hash
    BY DEF EmptyHash, Hash, NoMeta
  <1>6. ExpireBuffer(rk) => BackendTypeOK'
    BY <1>5 DEF ExpireBuffer, BackendTypeOK
  <1>7. ExpireStatus(rk) => BackendTypeOK'
    BY <1>4 DEF ExpireStatus
  <1>8. UNCHANGED backendVars => BackendTypeOK'
    BY DEF backendVars, BackendTypeOK
  <1> QED
    BY <1>2, <1>3, <1>4, <1>6, <1>7, <1>8

(* The initial state is well typed.                                         *)
LEMMA ProcessTypedInit == ProcessInit /\ BackendInit => ProcessTyped
  <1> SUFFICES ASSUME ProcessInit, BackendInit PROVE ProcessTyped
    OBVIOUS
  <1>1. BackendTypeOK
    <2>1. \A rk \in RoutingKey :
              [EmptyHash EXCEPT !.meta = TotalMessages[rk]] \in Hash
      BY BackendAssumption DEF EmptyHash, Hash
    <2> QED
      BY <2>1 DEF BackendInit, BackendTypeOK
  <1>2. ProcessTypeOK
    <2>1. /\ input \in Seq(Request)
          /\ queue \in [Proc -> Seq(Item)]
          /\ handled \in [Proc -> Seq(Dispatch)]
      BY NoElements DEF ProcessInit
    <2>2. \A p \in Proc : Len(queue[p]) <= SenderQueueCap
      <3>1. \A p \in Proc : Len(queue[p]) = 0
        BY NoElements DEF ProcessInit
      <3> QED
        BY <3>1, CapacityIsNat
    <2> QED
      BY <2>1, <2>2, ZeroType DEF ProcessInit, ProcessTypeOK, Reason
  <1> QED
    BY <1>1, <1>2, NoElements
    DEF ProcessInit, ProcessTyped, KeyedInput, KeyedIncoming

(* How ProcessMessage's checks end (consumer.go:119-177): with an           *)
(* acknowledgement of a request that needs no result, with the export, with *)
(* a dead letter of the merged request, or with the enriched request in the *)
(* hands of the controller.                                                 *)
LEMMA TriageOutcome ==
    ASSUME ProcessTypeOK, NEW p \in Proc, Triage(p)
    PROVE  \E k \in {"ack", "export", "dead", "status", "run"}, r \in Request,
              v \in Reason :
              /\ pc' = [pc EXCEPT ![p] = k]
              /\ incoming' = [incoming EXCEPT ![p] = r]
              /\ reason' = [reason EXCEPT ![p] = v]
              /\ r.RoutingKey = incoming[p].RoutingKey
              /\ k = "ack" => \/ Ignored(incoming[p])
                              \/ /\ Skipped(incoming[p])
                                 /\ ~IsExportRequest(incoming[p])
              /\ k = "export" => IsExportRequest(incoming[p])
              /\ k = "dead" => r = Merged(incoming[p])
              /\ k \in {"status", "run"} => r = Enriched(incoming[p])
              /\ k = "status" => Buffered(incoming[p])
  <1>1. PICK elapsed1 \in Elapsed, elapsed2 \in Elapsed :
          LET r == incoming[p]
              v == Verdict(r, elapsed1, elapsed2)
          IN  \/ /\ v = "ack"
                 /\ pc' = [pc EXCEPT ![p] = "ack"]
                 /\ UNCHANGED <<incoming, reason>>
              \/ /\ v = "export"
                 /\ pc' = [pc EXCEPT ![p] = "export"]
                 /\ UNCHANGED <<incoming, reason>>
              \/ /\ v \in {"stale_request", "export_xlsx_timeout"}
                 /\ pc' = [pc EXCEPT ![p] = "dead"]
                 /\ incoming' = [incoming EXCEPT ![p] = Merged(r)]
                 /\ reason' = [reason EXCEPT ![p] = v]
              \/ /\ v = "run"
                 /\ pc' = [pc EXCEPT ![p] =
                               IF Buffered(r) THEN "status" ELSE "run"]
                 /\ incoming' = [incoming EXCEPT ![p] = Enriched(r)]
                 /\ UNCHANGED reason
    BY DEF Triage
  <1> DEFINE v == Verdict(incoming[p], elapsed1, elapsed2)
  <1>2. /\ v = "ack" => \/ Ignored(incoming[p])
                        \/ /\ Skipped(incoming[p])
                           /\ ~IsExportRequest(incoming[p])
        /\ v = "export" => IsExportRequest(incoming[p])
    BY DEF Verdict
  <1>3. /\ incoming[p] \in Request /\ reason[p] \in Reason
        /\ incoming = [incoming EXCEPT ![p] = incoming[p]]
        /\ reason = [reason EXCEPT ![p] = reason[p]]
    BY DEF ProcessTypeOK
  <1>4. /\ Merged(incoming[p]) \in Request
        /\ Merged(incoming[p]).RoutingKey = incoming[p].RoutingKey
        /\ Enriched(incoming[p]) \in Request
        /\ Enriched(incoming[p]).RoutingKey = incoming[p].RoutingKey
    BY <1>3, EnrichedType
  <1> HIDE DEF v
  <1>5. CASE v \in {"ack", "export"}
    <2>1. /\ pc' = [pc EXCEPT ![p] = v]
          /\ incoming' = incoming /\ reason' = reason
      BY <1>1, <1>5 DEF v
    <2> QED
      BY <1>2, <1>3, <1>5, <2>1
  <1>6. CASE v \in {"stale_request", "export_xlsx_timeout"}
    <2>1. /\ pc' = [pc EXCEPT ![p] = "dead"]
          /\ incoming' = [incoming EXCEPT ![p] = Merged(incoming[p])]
          /\ reason' = [reason EXCEPT ![p] = v]
      BY <1>1, <1>6 DEF v
    <2> QED
      BY <1>4, <1>6, <2>1 DEF Reason
  <1>7. CASE v = "run"
    <2>1. /\ \/ pc' = [pc EXCEPT ![p] = "status"] /\ Buffered(incoming[p])
             \/ pc' = [pc EXCEPT ![p] = "run"]
          /\ incoming' = [incoming EXCEPT ![p] = Enriched(incoming[p])]
          /\ reason' = reason
      BY <1>1, <1>7 DEF v
    <2> QED
      BY <1>3, <1>4, <2>1
  <1> QED
    BY <1>1, <1>5, <1>6, <1>7 DEF v

(* What ProcessMessage pushes is an item (stub.go:19, consumer.go:197).     *)
LEMMA DataItemType ==
    ASSUME ProcessTyped, NEW p \in Proc, pc[p] = "run" \/ pc[p] = "marker"
    PROVE  DataItem(p) \in Item /\ MarkerItem(p) \in Item
  <1>1. /\ incoming[p] \in Request /\ cur[p] \in Nat
        /\ incoming[p].RoutingKey \in RoutingKey
    BY DEF ProcessTyped, ProcessTypeOK, KeyedIncoming
  <1>2. OutgoingMessage(incoming[p]) \in Message
    BY <1>1, OutgoingType
  <1>3. NoMessage \in Message
    BY TextAssumption, NoElements DEF NoMessage
  <1> QED
    BY <1>1, <1>2, <1>3 DEF DataItem, MarkerItem, Item

(* The steps of ProcessMessage keep the types (consumer.go:119-208).        *)
LEMMA TypedConsumer ==
    ASSUME ProcessTyped, NEW p \in Proc, ConsumerStep(p)
    PROVE  ProcessTyped'
  <1> USE DEF ProcessTyped, KeyedInput, KeyedIncoming
  <1>1. incoming[p] \in Request
    BY DEF ProcessTypeOK
  <1>2. CASE Triage(p)
    <2>1. PICK k \in {"ack", "export", "dead", "status", "run"}, r \in Request,
               v \in Reason :
              /\ pc' = [pc EXCEPT ![p] = k]
              /\ incoming' = [incoming EXCEPT ![p] = r]
              /\ reason' = [reason EXCEPT ![p] = v]
              /\ r.RoutingKey = incoming[p].RoutingKey
      BY <1>2, TriageOutcome
    <2>2. incoming[p].RoutingKey \in RoutingKey
      BY <1>2 DEF Triage
    <2>3. KeyedIncoming'
      BY <2>1, <2>2 DEF ProcessTypeOK
    <2>4. /\ pc' \in [Proc -> {"down", "setup", "read", "process", "export",
                               "status", "run", "marker", "dead", "ack", "exited"}]
          /\ incoming' \in [Proc -> Request]
          /\ reason' \in [Proc -> Reason]
      BY <2>1 DEF ProcessTypeOK
    <2> QED
      BY <1>2, <2>3, <2>4
      DEF Triage, ProcessTypeOK, BackendTypeOK, workerVars,
          backendVars
  <1>3. CASE UpdateEventStatus(p)
    <2>1. BackendTypeOK'
      BY <1>3, BackendWrites DEF UpdateEventStatus
    <2> QED
      BY <1>3, <2>1 DEF UpdateEventStatus, ProcessTypeOK, workerVars
  <1>4. pc[p] = "run" \/ pc[p] = "marker" =>
            DataItem(p) \in Item /\ MarkerItem(p) \in Item
    BY DataItemType
  <1>5. ASSUME NEW it \in Item, HasRoom(p),
               queue' = [queue EXCEPT ![p] = Append(@, it)]
        PROVE  /\ queue' \in [Proc -> Seq(Item)]
               /\ \A q \in Proc : Len(queue'[q]) <= SenderQueueCap
    <2>1. queue[p] \in Seq(Item)
      BY DEF ProcessTypeOK
    <2> QED
      BY <1>5, <2>1, CapacityIsNat DEF HasRoom, ProcessTypeOK
  <1>6. CASE RunController(p)
    <2>1. /\ queue' \in [Proc -> Seq(Item)]
          /\ \A q \in Proc : Len(queue'[q]) <= SenderQueueCap
      BY <1>4, <1>5, <1>6 DEF RunController, ProcessTypeOK
    <2> QED
      BY <1>6, <2>1
      DEF RunController, ControllerFailed, ProcessTypeOK, BackendTypeOK, Reason,
          workerVars, backendVars
  <1>7. CASE SendMarker(p)
    <2>1. /\ queue' \in [Proc -> Seq(Item)]
          /\ \A q \in Proc : Len(queue'[q]) <= SenderQueueCap
      BY <1>4, <1>5, <1>7 DEF SendMarker, ProcessTypeOK
    <2> QED
      BY <1>7, <2>1
      DEF SendMarker, ProcessTypeOK, BackendTypeOK, workerVars,
          backendVars
  <1> QED
    BY <1>2, <1>3, <1>6, <1>7 DEF ConsumerStep

(* What the worker records of a dispatch is well typed (worker.go:60-111).  *)
LEMMA RecordType ==
    ASSUME ProcessTypeOK, NEW p \in Proc, hand[p] \in Item,
           NEW rk \in RoutingKey, NEW sink \in Sinks, NEW ok \in BOOLEAN,
           Record(p, rk, sink, ok)
    PROVE  handled' \in [Proc -> Seq(Dispatch)]
  <1>1. [id |-> hand[p].id, marker |-> hand[p].marker, rk |-> rk,
         sink |-> sink, ok |-> ok] \in Dispatch
    BY DEF Item, Dispatch
  <1> QED
    BY <1>1 DEF Record, ProcessTypeOK

(* The steps of the worker keep the types (worker.go:46-111).               *)
LEMMA TypedWorker ==
    ASSUME ProcessTyped, NEW p \in Proc, WorkerStep(p)
    PROVE  ProcessTyped'
  <1> USE DEF ProcessTyped, KeyedInput, KeyedIncoming
  <1>1. CASE Take(p)
    <2>1. queue[p] \in Seq(Item) /\ queue[p] # <<>>
      BY <1>1 DEF Take, ProcessTypeOK
    <2>2. /\ Head(queue[p]) \in Item
          /\ Tail(queue[p]) \in Seq(Item)
          /\ Len(Tail(queue[p])) <= Len(queue[p])
      BY <2>1, HeadTailProperties
    <2>3. Len(Tail(queue[p])) <= SenderQueueCap
      <3>1. /\ Len(queue[p]) <= SenderQueueCap
            /\ Len(queue[p]) \in Nat /\ Len(Tail(queue[p])) \in Nat
        BY <2>1, <2>2 DEF ProcessTypeOK
      <3> QED
        BY <2>2, <3>1, CapacityIsNat
    <2>4. /\ queue' \in [Proc -> Seq(Item)]
          /\ \A q \in Proc : Len(queue'[q]) <= SenderQueueCap
      BY <1>1, <2>2, <2>3 DEF Take, ProcessTypeOK
    <2>5. /\ hand' \in [Proc -> Item \cup {NoItem}]
          /\ wpc' \in [Proc -> {"idle", "handle", "meta", "set", "exited"}]
          /\ \A q \in Proc : wpc'[q] \in {"handle", "meta", "set"} =>
                                 hand'[q] \in Item
      BY <1>1, <2>2 DEF Take, ProcessTypeOK
    <2> QED
      BY <1>1, <2>4, <2>5
      DEF Take, ProcessTypeOK, BackendTypeOK, consumerVars,
          backendVars
  <1>2. ASSUME wpc[p] \in {"handle", "meta", "set"}
        PROVE  /\ hand[p] \in Item
               /\ hand[p].rk \in RoutingKey
               /\ OutputKey(hand[p].rk) \in RoutingKey
    BY <1>2, ProcessAssumption DEF ProcessTypeOK, Item, OutputKey
  <1> DEFINE WorkerTyped ==
        /\ wpc' \in [Proc -> {"idle", "handle", "meta", "set", "exited"}]
        /\ hand' \in [Proc -> Item \cup {NoItem}]
        /\ n' \in [Proc -> Nat]
        /\ \A q \in Proc : wpc'[q] \in {"handle", "meta", "set"} =>
                               hand'[q] \in Item
  <1>4. CASE SendSSEEvent(p)
    <2>1. handled' \in [Proc -> Seq(Dispatch)]
      BY <1>2, <1>4, RecordType DEF SendSSEEvent, Sinks
    <2> QED
      BY <1>4, <2>1
      DEF SendSSEEvent, WorkerDone, ProcessTypeOK, BackendTypeOK, consumerVars,
          backendVars
  <1>5. CASE StoreResult(p)
    <2>1. handled' \in [Proc -> Seq(Dispatch)]
      BY <1>2, <1>5, RecordType DEF StoreResult, Sinks
    <2>2. BackendTypeOK'
      <3>1. hand[p].message.EventName \in Seq(Text) /\ hand[p].id \in Nat
        BY <1>2, <1>5 DEF StoreResult, Item
      <3> QED
        BY <1>2, <1>5, <3>1, BackendWrites DEF StoreResult
    <2> QED
      BY <1>5, <2>1, <2>2
      DEF StoreResult, WorkerDone, ProcessTypeOK, consumerVars
  <1>6. CASE DispatchToStream(p)
    <2>1. handled' \in [Proc -> Seq(Dispatch)]
      BY <1>2, <1>6, RecordType DEF DispatchToStream, Sinks
    <2> QED
      BY <1>6, <2>1
      DEF DispatchToStream, WorkerDone, ProcessTypeOK, BackendTypeOK,
          consumerVars, backendVars
  <1>7. CASE IncrementCompletion(p)
    <2>1. handled' \in [Proc -> Seq(Dispatch)]
      BY <1>2, <1>7, RecordType DEF IncrementCompletion, Sinks
    <2>2. BackendTypeOK'
      BY <1>2, <1>7, BackendWrites DEF IncrementCompletion
    <2>3. buffer[hand[p].rk].count + 1 \in Nat /\ hand[p] \in Item
      BY <1>2, <1>7 DEF IncrementCompletion, BackendTypeOK, Hash
    <2>4. WorkerTyped
      <3>1. \/ WorkerDone(p)
            \/ /\ wpc' = [wpc EXCEPT ![p] = "meta"]
               /\ n' = [n EXCEPT ![p] = buffer[hand[p].rk].count + 1]
               /\ hand' = hand
        BY <1>7 DEF IncrementCompletion
      <3>2. CASE WorkerDone(p)
        BY <3>2 DEF WorkerDone, ProcessTypeOK
      <3>3. CASE /\ wpc' = [wpc EXCEPT ![p] = "meta"]
                 /\ n' = [n EXCEPT ![p] = buffer[hand[p].rk].count + 1]
                 /\ hand' = hand
        BY <2>3, <3>3 DEF ProcessTypeOK
      <3> QED
        BY <3>1, <3>2, <3>3
    <2> QED
      BY <1>7, <2>1, <2>2, <2>4
      DEF IncrementCompletion, ProcessTypeOK, consumerVars
  <1>8. CASE CheckCompletion(p)
    <2>1. WorkerTyped
      <3>1. /\ \/ WorkerDone(p)
               \/ wpc' = [wpc EXCEPT ![p] = "set"] /\ UNCHANGED <<hand, n>>
            /\ wpc[p] = "meta"
        BY <1>8 DEF CheckCompletion
      <3>2. CASE WorkerDone(p)
        BY <3>2 DEF WorkerDone, ProcessTypeOK
      <3>3. CASE wpc' = [wpc EXCEPT ![p] = "set"] /\ UNCHANGED <<hand, n>>
        BY <1>2, <3>1, <3>3 DEF ProcessTypeOK
      <3> QED
        BY <3>1, <3>2, <3>3
    <2> QED
      BY <1>8, <2>1
      DEF CheckCompletion, ProcessTypeOK, BackendTypeOK, consumerVars,
          backendVars
  <1>9. CASE SetCompletion(p)
    <2>1. BackendTypeOK'
      BY <1>2, <1>9, BackendWrites DEF SetCompletion
    <2> QED
      BY <1>9, <2>1
      DEF SetCompletion, WorkerDone, ProcessTypeOK, consumerVars
  <1> QED
    BY <1>1, <1>4, <1>5, <1>6, <1>7, <1>8, <1>9 DEF WorkerStep

(* The client, the expiry of keys, and the start, signal and end of a       *)
(* process keep the types (main.go:20-90).                                  *)
LEMMA TypedLife ==
    ASSUME ProcessTyped
    PROVE  /\ \A r \in Payloads : Produce(r) => ProcessTyped'
           /\ \A rk \in RoutingKey : Expire(rk) => ProcessTyped'
           /\ \A p \in Proc :
                  /\ Begin(p, "setup") => ProcessTyped'
                  /\ Begin(p, "read") => ProcessTyped'
                  /\ ConsumerReturn(p) => ProcessTyped'
                  /\ WorkerReturn(p) => ProcessTyped'
                  /\ Signal(p) => ProcessTyped'
                  /\ End(p) => ProcessTyped'
           /\ UNCHANGED <<processVars, backendVars>> => ProcessTyped'
  <1> USE DEF ProcessTyped, KeyedInput, KeyedIncoming
  <1>1. ASSUME NEW r \in Payloads, Produce(r)
        PROVE  ProcessTyped'
    <2>1. r \in Request /\ r.RoutingKey \in RoutingKey
      BY ProcessAssumption
    <2>2. input' \in Seq(Request) /\ KeyedInput'
      BY <1>1, <2>1 DEF Produce, ProcessTypeOK
    <2> QED
      BY <1>1, <2>2
      DEF Produce, ProcessTypeOK, BackendTypeOK, consumerVars, workerVars,
          backendVars
  <1>2. ASSUME NEW rk \in RoutingKey, Expire(rk)
        PROVE  ProcessTyped'
    <2>1. BackendTypeOK'
      BY <1>2, BackendWrites DEF Expire
    <2> QED
      BY <1>2, <2>1 DEF Expire, ProcessTypeOK, processVars, consumerVars,
                        workerVars
  <1>3. ASSUME NEW p \in Proc, Begin(p, "setup") \/ Begin(p, "read")
        PROVE  ProcessTyped'
    BY <1>3 DEF Begin, ProcessTypeOK, BackendTypeOK, workerVars, backendVars
  <1>4. ASSUME NEW p \in Proc, ConsumerReturn(p)
        PROVE  ProcessTyped'
    BY <1>4 DEF ConsumerReturn, ProcessTypeOK, BackendTypeOK, workerVars,
                backendVars
  <1>5. ASSUME NEW p \in Proc, WorkerReturn(p) \/ Signal(p)
        PROVE  ProcessTyped'
    BY <1>5 DEF WorkerReturn, Signal, ProcessTypeOK, BackendTypeOK,
                consumerVars, workerVars, backendVars
  <1>6. ASSUME NEW p \in Proc, End(p)
        PROVE  ProcessTyped'
    <2>1. Undispatched(p) \subseteq Item
      <3>1. Range(queue[p]) \subseteq Item
        BY RangeOfSeq DEF ProcessTypeOK
      <3> QED
        BY <3>1 DEF Undispatched, ProcessTypeOK
    <2>2. Len(<<>>) <= SenderQueueCap
      BY NoElements, CapacityIsNat
    <2>3. /\ queue' \in [Proc -> Seq(Item)]
          /\ \A q \in Proc : Len(queue'[q]) <= SenderQueueCap
      BY <1>6, <2>2, NoElements DEF End, ProcessTypeOK
    <2>4. /\ mode' \in [Proc -> {"down", "up", "stopping"}]
          /\ pc' \in [Proc -> {"down", "setup", "read", "process", "export",
                               "status", "run", "marker", "dead", "ack", "exited"}]
          /\ cur' \in [Proc -> Nat]
          /\ incoming' \in [Proc -> Request]
          /\ reason' \in [Proc -> Reason]
          /\ lost' \in SUBSET Item
          /\ KeyedIncoming'
      BY <1>6, <2>1, ZeroType DEF End, ProcessTypeOK, Reason
    <2>5. /\ wpc' \in [Proc -> {"idle", "handle", "meta", "set", "exited"}]
          /\ hand' \in [Proc -> Item \cup {NoItem}]
          /\ n' \in [Proc -> Nat]
          /\ \A q \in Proc : wpc'[q] \in {"handle", "meta", "set"} =>
                                 hand'[q] \in Item
      BY <1>6 DEF End, WorkerDone, ProcessTypeOK
    <2> QED
      BY <1>6, <2>3, <2>4, <2>5
      DEF End, ProcessTypeOK, BackendTypeOK, backendVars
  <1>7. ASSUME UNCHANGED <<processVars, backendVars>>
        PROVE  ProcessTyped'
    BY <1>7 DEF processVars, consumerVars, workerVars, backendVars,
                ProcessTypeOK, BackendTypeOK
  <1> QED
    BY <1>1, <1>2, <1>3, <1>4, <1>5, <1>6, <1>7

-----------------------------------------------------------------------------
(* The range of an appended sequence: pushing on the sender queue or        *)
(* recording a dispatch adds one item.                                      *)
LEMMA RangeOfAppend ==
    ASSUME NEW S, NEW s \in Seq(S), NEW e \in S
    PROVE  Range(Append(s, e)) = Range(s) \cup {e}
  <1>1. /\ Append(s, e) \in Seq(S)
        /\ Len(Append(s, e)) = Len(s) + 1
        /\ \A i \in 1..Len(s) : Append(s, e)[i] = s[i]
        /\ Append(s, e)[Len(s) + 1] = e
    BY AppendProperties
  <1>2. /\ DOMAIN Append(s, e) = 1..(Len(s) + 1)
        /\ DOMAIN s = 1..Len(s) /\ Len(s) \in Nat
    BY <1>1, LenProperties
  <1> QED
    BY <1>1, <1>2 DEF Range

(* Taking the head of a sequence splits its range (worker.go:51).           *)
LEMMA RangeOfHeadTail ==
    ASSUME NEW S, NEW s \in Seq(S), s # <<>>
    PROVE  Range(s) = Range(Tail(s)) \cup {Head(s)}
  <1>1. /\ Tail(s) \in Seq(S)
        /\ Len(Tail(s)) = Len(s) - 1
        /\ \A i \in 1..Len(Tail(s)) : Tail(s)[i] = s[i + 1]
    BY HeadTailProperties
  <1>2. /\ DOMAIN s = 1..Len(s) /\ Len(s) \in Nat \ {0}
        /\ DOMAIN Tail(s) = 1..(Len(s) - 1)
        /\ Head(s) = s[1]
    BY <1>1, LenProperties, EmptySeq
  <1>3. \A i \in 1..Len(s) : i = 1 \/ i - 1 \in 1..(Len(s) - 1)
    BY <1>2
  <1>4. \A x \in Range(s) : x \in Range(Tail(s)) \cup {Head(s)}
    <2> SUFFICES ASSUME NEW i \in 1..Len(s), i # 1
                 PROVE  s[i] \in Range(Tail(s))
      BY <1>2 DEF Range
    <2>1. i - 1 \in 1..(Len(s) - 1) /\ (i - 1) + 1 = i
      BY <1>3
    <2>2. Tail(s)[i - 1] = s[i]
      BY <1>1, <2>1
    <2> QED
      BY <1>2, <2>1, <2>2 DEF Range
  <1>5. \A x \in Range(Tail(s)) \cup {Head(s)} : x \in Range(s)
    BY <1>1, <1>2 DEF Range
  <1> QED
    BY <1>4, <1>5

(* An empty queue holds nothing.                                            *)
LEMMA RangeOfEmpty == Range(<<>>) = {}
  BY NoElements DEF Range
-----------------------------------------------------------------------------
(* The three ways a step of the worker moves items.                         *)

\* The oldest item of the queue goes to the worker's hand.
Takes(p) ==
    /\ wpc[p] = "idle" /\ queue[p] # <<>>
    /\ wpc'[p] = "handle" /\ hand'[p] = Head(queue[p])
    /\ queue' = [queue EXCEPT ![p] = Tail(@)]
    /\ handled' = handled

\* The item in the worker's hand is dispatched, and recorded as d.
Dispatches(p, d) ==
    /\ wpc[p] = "handle" /\ wpc'[p] # "handle"
    /\ d.id = hand[p].id /\ d.marker = hand[p].marker
    /\ d.marker => d.rk = hand[p].rk
    /\ handled' = [handled EXCEPT ![p] = Append(@, d)]
    /\ queue' = queue

\* Nothing moves.
Rests(p) ==
    /\ wpc[p] # "handle" /\ wpc'[p] # "handle"
    /\ queue' = queue /\ handled' = handled

(* Every step of the worker is one of the three, and the other processes    *)
(* keep what they hold (worker.go:40-111).                                  *)
LEMMA WorkerMoves ==
    ASSUME ProcessTyped, NEW p \in Proc, WorkerStep(p) \/ WorkerReturn(p)
    PROVE  /\ UNCHANGED <<input, mode, pc, cur, incoming, reason, lost>>
           /\ \A q \in Proc \ {p} : wpc'[q] = wpc[q] /\ hand'[q] = hand[q]
           /\ \/ Takes(p)
              \/ \E d \in Dispatch : Dispatches(p, d)
              \/ Rests(p)
  <1>1. UNCHANGED <<input, mode, pc, cur, incoming, reason, lost>>
    BY DEF WorkerStep, WorkerReturn, Take, SendSSEEvent, StoreResult,
           DispatchToStream, IncrementCompletion, CheckCompletion,
           SetCompletion, consumerVars
  <1>2. \A q \in Proc \ {p} : wpc'[q] = wpc[q] /\ hand'[q] = hand[q]
    BY DEF WorkerStep, WorkerReturn, Take, SendSSEEvent, StoreResult,
           DispatchToStream, IncrementCompletion, CheckCompletion,
           SetCompletion, WorkerDone, ProcessTyped, ProcessTypeOK
  <1>3. WorkerDone(p) => wpc'[p] = "idle"
    BY DEF WorkerDone, ProcessTyped, ProcessTypeOK
  <1>4. ASSUME NEW rk \in RoutingKey, NEW sink \in Sinks, NEW ok \in BOOLEAN,
               Record(p, rk, sink, ok), wpc[p] = "handle", queue' = queue,
               wpc'[p] # "handle", hand[p].marker => rk = hand[p].rk
        PROVE  \E d \in Dispatch : Dispatches(p, d)
    <2> DEFINE d == [id |-> hand[p].id, marker |-> hand[p].marker, rk |-> rk,
                     sink |-> sink, ok |-> ok]
    <2>1. d \in Dispatch
      BY <1>4 DEF ProcessTyped, ProcessTypeOK, Item, Dispatch
    <2>2. Dispatches(p, d)
      BY <1>4 DEF Dispatches, Record
    <2> QED
      BY <2>1, <2>2
  <1>5. wpc[p] = "handle" => /\ hand[p].rk \in RoutingKey
                             /\ OutputKey(hand[p].rk) \in RoutingKey
    BY ProcessAssumption
    DEF ProcessTyped, ProcessTypeOK, Item, OutputKey
  <1>6. CASE Take(p)
    <2>1. Takes(p)
      BY <1>6 DEF Take, Takes, ProcessTyped, ProcessTypeOK
    <2> QED
      BY <1>1, <1>2, <2>1
  <1>7. CASE SendSSEEvent(p)
    <2>1. /\ \E ok \in BOOLEAN : Record(p, hand[p].rk, "live", ok)
          /\ "live" \in Sinks /\ wpc[p] = "handle" /\ queue' = queue
          /\ WorkerDone(p)
      BY <1>7 DEF SendSSEEvent, Sinks
    <2> QED
      BY <1>1, <1>2, <1>3, <1>4, <1>5, <2>1
  <1>8. CASE StoreResult(p)
    <2>1. /\ \E ok \in BOOLEAN : Record(p, OutputKey(hand[p].rk), "buffer", ok)
          /\ "buffer" \in Sinks /\ wpc[p] = "handle" /\ queue' = queue
          /\ ~hand[p].marker
          /\ WorkerDone(p)
      BY <1>8 DEF StoreResult, Sinks
    <2> QED
      BY <1>1, <1>2, <1>3, <1>4, <1>5, <2>1
  <1>9. CASE DispatchToStream(p)
    <2>1. /\ \E ok \in BOOLEAN : Record(p, OutputKey(hand[p].rk), "output", ok)
          /\ "output" \in Sinks /\ wpc[p] = "handle" /\ queue' = queue
          /\ ~hand[p].marker
          /\ WorkerDone(p)
      BY <1>9 DEF DispatchToStream, Sinks
    <2> QED
      BY <1>1, <1>2, <1>3, <1>4, <1>5, <2>1
  <1>10. CASE IncrementCompletion(p)
    <2>1. /\ \E ok \in BOOLEAN : Record(p, hand[p].rk, "count", ok)
          /\ "count" \in Sinks /\ wpc[p] = "handle" /\ queue' = queue
          /\ WorkerDone(p) \/ wpc' = [wpc EXCEPT ![p] = "meta"]
      BY <1>10 DEF IncrementCompletion, Sinks
    <2>2. wpc'[p] # "handle"
      BY <1>3, <2>1 DEF ProcessTyped, ProcessTypeOK
    <2> QED
      BY <1>1, <1>2, <1>4, <1>5, <2>1, <2>2
  <1>11. CASE CheckCompletion(p) \/ SetCompletion(p) \/ WorkerReturn(p)
    <2>1. /\ wpc[p] # "handle" /\ queue' = queue /\ handled' = handled
          /\ WorkerDone(p) \/ \E k \in {"set", "exited"} :
                                  wpc' = [wpc EXCEPT ![p] = k]
      BY <1>11 DEF CheckCompletion, SetCompletion, WorkerReturn
    <2>2. wpc'[p] # "handle"
      BY <1>3, <2>1 DEF ProcessTyped, ProcessTypeOK
    <2> QED
      BY <1>1, <1>2, <2>1, <2>2 DEF Rests
  <1> QED
    BY <1>1, <1>2, <1>6, <1>7, <1>8, <1>9, <1>10, <1>11 DEF WorkerStep

-----------------------------------------------------------------------------
(* Items move, they do not appear or vanish.                                *)

(* A step of process p that keeps the items p holds or has dispatched keeps *)
(* what is queued.                                                          *)
LEMMA QueuedKept ==
    ASSUME NEW p \in Proc, NEW id, NEW m,
           lost' = lost,
           \A q \in Proc \ {p} : /\ Undispatched(q)' = Undispatched(q)
                                 /\ handled'[q] = handled[q],
           (\E x \in Undispatched(p)' \cup Range(handled'[p]) :
                x.id = id /\ x.marker = m)
           <=> (\E x \in Undispatched(p) \cup Range(handled[p]) :
                x.id = id /\ x.marker = m)
    PROVE  Queued(id, m)' <=> Queued(id, m)
  BY DEF Queued

(* No step of the worker changes what was queued (worker.go:40-111).        *)
LEMMA WorkerKeeps ==
    ASSUME ProcessTyped, NEW p \in Proc, WorkerStep(p) \/ WorkerReturn(p)
    PROVE  \A id, m : Queued(id, m)' <=> Queued(id, m)
  <1>1. /\ lost' = lost
        /\ \A q \in Proc \ {p} : wpc'[q] = wpc[q] /\ hand'[q] = hand[q]
    BY WorkerMoves
  <1>2. /\ queue[p] \in Seq(Item) /\ handled[p] \in Seq(Dispatch)
        /\ queue \in [Proc -> Seq(Item)] /\ handled \in [Proc -> Seq(Dispatch)]
    BY DEF ProcessTyped, ProcessTypeOK
  <1>3. CASE Takes(p)
    <2>1. Range(queue[p]) = Range(Tail(queue[p])) \cup {Head(queue[p])}
      BY <1>2, <1>3, RangeOfHeadTail DEF Takes
    <2>2. \A q \in Proc : Undispatched(q)' = Undispatched(q)
      BY <1>1, <1>2, <1>3, <2>1 DEF Takes, Undispatched
    <2> QED
      BY <1>1, <1>3, <2>2, QueuedKept DEF Takes
  <1>4. CASE \E d \in Dispatch : Dispatches(p, d)
    <2>1. PICK d \in Dispatch : Dispatches(p, d)
      BY <1>4
    <2>2. Range(handled'[p]) = Range(handled[p]) \cup {d}
      BY <1>2, <2>1, RangeOfAppend DEF Dispatches
    <2>3. /\ Undispatched(p) = Range(queue[p]) \cup {hand[p]}
          /\ Undispatched(p)' = Range(queue[p])
      BY <2>1 DEF Undispatched, Dispatches
    <2>4. \A q \in Proc \ {p} : /\ Undispatched(q)' = Undispatched(q)
                                /\ handled'[q] = handled[q]
      BY <1>1, <1>2, <2>1 DEF Undispatched, Dispatches
    <2>5. ASSUME NEW id, NEW m
          PROVE  (\E x \in Undispatched(p)' \cup Range(handled'[p]) :
                      x.id = id /\ x.marker = m)
                 <=> (\E x \in Undispatched(p) \cup Range(handled[p]) :
                      x.id = id /\ x.marker = m)
      BY <2>1, <2>2, <2>3 DEF Dispatches
    <2> QED
      BY <1>1, <2>4, <2>5, QueuedKept
  <1>5. CASE Rests(p)
    <2>1. \A q \in Proc : Undispatched(q)' = Undispatched(q)
      BY <1>1, <1>5 DEF Rests, Undispatched
    <2> QED
      BY <1>1, <1>5, <2>1, QueuedKept DEF Rests
  <1> QED
    BY <1>3, <1>4, <1>5, WorkerMoves

(* A process that ends loses what it held, and that is recorded             *)
(* (main.go:85-90).                                                         *)
LEMMA EndKeeps ==
    ASSUME ProcessTyped, NEW p \in Proc, End(p)
    PROVE  \A id, m : Queued(id, m)' <=> Queued(id, m)
  <1>1. /\ lost' = lost \cup Undispatched(p)
        /\ handled' = handled
    BY DEF End
  <1>2. queue'[p] = <<>> /\ wpc'[p] = "idle"
    BY DEF End, WorkerDone, ProcessTyped, ProcessTypeOK
  <1>3. Undispatched(p)' = {}
    BY <1>2, RangeOfEmpty DEF Undispatched
  <1>4. \A q \in Proc \ {p} : Undispatched(q)' = Undispatched(q)
    BY DEF End, WorkerDone, Undispatched, ProcessTyped, ProcessTypeOK
  <1> QED
    BY <1>1, <1>3, <1>4 DEF Queued

(* Pushing an item on the sender queue adds that item and nothing else      *)
(* (stub.go:34, consumer.go:196).                                           *)
LEMMA PushAdds ==
    ASSUME ProcessTyped, NEW p \in Proc, NEW it \in Item,
           queue' = [queue EXCEPT ![p] = Append(@, it)],
           UNCHANGED <<wpc, hand, handled, lost>>
    PROVE  \A id, m : Queued(id, m)' <=>
                          Queued(id, m) \/ (it.id = id /\ it.marker = m)
  <1>1. queue[p] \in Seq(Item) /\ queue'[p] = Append(queue[p], it)
    BY DEF ProcessTyped, ProcessTypeOK
  <1>2. Range(queue'[p]) = Range(queue[p]) \cup {it}
    BY <1>1, RangeOfAppend
  <1>3. Undispatched(p)' = Undispatched(p) \cup {it}
    BY <1>2 DEF Undispatched
  <1>4. \A q \in Proc \ {p} : Undispatched(q)' = Undispatched(q)
    BY DEF Undispatched, ProcessTyped, ProcessTypeOK
  <1> QED
    BY <1>3, <1>4 DEF Queued

(* What was queued depends on the queues, the workers and the histories.    *)
LEMMA QueuedUnchanged ==
    ASSUME UNCHANGED <<queue, wpc, hand, handled, lost>>
    PROVE  \A id, m : Queued(id, m)' <=> Queued(id, m)
  BY DEF Queued, Undispatched


-----------------------------------------------------------------------------
(* Replaying a dead letter.                                                 *)

(* The elements of a concatenation.                                        *)
LEMMA RangeOfConcat ==
    ASSUME NEW S, NEW s \in Seq(S), NEW t \in Seq(S)
    PROVE  Range(s \o t) = Range(s) \cup Range(t)
  <1>1. /\ s \o t \in Seq(S) /\ Len(s \o t) = Len(s) + Len(t)
        /\ \A i \in 1..(Len(s) + Len(t)) :
               (s \o t)[i] = IF i <= Len(s) THEN s[i] ELSE t[i - Len(s)]
    BY ConcatProperties
  <1>2. /\ Len(s) \in Nat /\ Len(t) \in Nat
        /\ DOMAIN s = 1..Len(s) /\ DOMAIN t = 1..Len(t)
        /\ DOMAIN (s \o t) = 1..(Len(s) + Len(t))
    BY <1>1, LenProperties
  <1>3. Range(s \o t) \subseteq Range(s) \cup Range(t)
    <2> SUFFICES ASSUME NEW i \in 1..(Len(s) + Len(t))
                 PROVE  (s \o t)[i] \in Range(s) \cup Range(t)
      BY <1>2 DEF Range
    <2>1. CASE i <= Len(s)
      BY <1>1, <1>2, <2>1 DEF Range
    <2>2. CASE ~(i <= Len(s))
      <3>1. i - Len(s) \in 1..Len(t)
        BY <1>2, <2>2
      <3> QED
        BY <1>1, <1>2, <2>2, <3>1 DEF Range
    <2> QED
      BY <2>1, <2>2
  <1>4. ASSUME NEW x \in Range(s)
        PROVE  x \in Range(s \o t)
    <2>1. PICK i \in 1..Len(s) : x = s[i]
      BY <1>2 DEF Range
    <2>2. i \in 1..(Len(s) + Len(t)) /\ (s \o t)[i] = x
      BY <1>1, <1>2, <2>1
    <2> QED
      BY <1>2, <2>2 DEF Range
  <1>5. ASSUME NEW x \in Range(t)
        PROVE  x \in Range(s \o t)
    <2>1. PICK i \in 1..Len(t) : x = t[i]
      BY <1>2 DEF Range
    <2>2. /\ Len(s) + i \in 1..(Len(s) + Len(t)) /\ ~(Len(s) + i <= Len(s))
          /\ (Len(s) + i) - Len(s) = i
      BY <1>2
    <2>3. (s \o t)[Len(s) + i] = x
      BY <1>1, <2>1, <2>2
    <2> QED
      BY <1>2, <2>2, <2>3 DEF Range
  <1> QED
    BY <1>3, <1>4, <1>5

(* The fields of a merged and of an enriched request (consumer.go:155-161,  *)
(* events.go:71).                                                           *)
LEMMA EnrichedFields ==
    ASSUME NEW r \in Request
    PROVE  /\ Merged(r).EventName = r.EventName
           /\ Merged(r).PageName = r.PageName
           /\ Merged(r).Product = r.Product
           /\ Merged(r).PageAlertNotification = r.PageAlertNotification
           /\ Merged(r).StreamTech = r.StreamTech
           /\ Merged(r).TopWidgets = r.TopWidgets
           /\ Merged(r).SelectedWidgets = r.SelectedWidgets \o r.TopWidgets
           /\ Enriched(r).EventName = r.EventName
           /\ Enriched(r).PageName = EnrichedPage(r.EventName, r.PageName)
           /\ Enriched(r).Product =
                  IF r.EventName \in {"aggregate_dashboard_go_dispatcher",
                                      "custom_dashboard_go_dispatcher"}
                  THEN "Dashboards" ELSE r.Product
           /\ Enriched(r).PageAlertNotification = r.PageAlertNotification
           /\ Enriched(r).StreamTech = r.StreamTech
           /\ Enriched(r).TopWidgets = r.TopWidgets
           /\ Enriched(r).SelectedWidgets = r.SelectedWidgets \o r.TopWidgets
  <1>1. Merged(r) \in Request
    BY EnrichedType
  <1>2. /\ Merged(r).EventName = r.EventName
        /\ Merged(r).PageName = r.PageName
        /\ Merged(r).Product = r.Product
        /\ Merged(r).PageAlertNotification = r.PageAlertNotification
        /\ Merged(r).StreamTech = r.StreamTech
        /\ Merged(r).TopWidgets = r.TopWidgets
        /\ Merged(r).SelectedWidgets = r.SelectedWidgets \o r.TopWidgets
    BY DEF Merged, Request
  <1> DEFINE m == Merged(r)
             e == r.EventName
  <1>3. m \in Request
    BY <1>1
  <1> HIDE DEF m, e
  <1>4. LET f == EventToPageEnrichment(e, m)
        IN  /\ f.EventName = m.EventName
            /\ f.PageName = EnrichedPage(e, m.PageName)
            /\ f.Product = IF e \in {"aggregate_dashboard_go_dispatcher",
                                     "custom_dashboard_go_dispatcher"}
                           THEN "Dashboards" ELSE m.Product
            /\ f.PageAlertNotification = m.PageAlertNotification
            /\ f.StreamTech = m.StreamTech
            /\ f.TopWidgets = m.TopWidgets
            /\ f.SelectedWidgets = m.SelectedWidgets
    BY <1>3 DEF EventToPageEnrichment, Request
  <1> QED
    BY <1>2, <1>4 DEF Enriched, m, e

(* A request is routed by its page, product and alert, and the message      *)
(* carries its page and stream_tech.                                        *)
LEMMA AlikeMessages ==
    ASSUME NEW a, NEW b, a.PageName = b.PageName, a.Product = b.Product,
           a.PageAlertNotification = b.PageAlertNotification,
           a.StreamTech = b.StreamTech
    PROVE  OutgoingMessage(a) = OutgoingMessage(b)
  <1>1. HasStrategy(a) <=> HasStrategy(b)
    BY DEF HasStrategy, LookupPage
  <1>2. CallPageData(a) = CallPageData(b)
    BY DEF CallPageData
  <1> QED
    BY <1>1, <1>2 DEF OutgoingMessage

(* What ProcessMessage made of a request leads, processed again, to the     *)
(* same message and the same widgets.                                       *)
LEMMA ReplayedAlike ==
    ASSUME NEW r \in Request, NEW kept \in {Merged(r), Enriched(r)}
    PROVE  /\ OutgoingMessage(Enriched(kept)) = OutgoingMessage(Enriched(r))
           /\ Range(Enriched(kept).SelectedWidgets)
                  = Range(Enriched(r).SelectedWidgets)
  <1>1. kept \in Request
    BY EnrichedType
  <1>2. /\ kept.EventName = r.EventName
        /\ kept.PageName \in {r.PageName, EnrichedPage(r.EventName, r.PageName)}
        /\ kept.Product \in {r.Product, Enriched(r).Product}
        /\ kept.PageAlertNotification = r.PageAlertNotification
        /\ kept.StreamTech = r.StreamTech
        /\ kept.TopWidgets = r.TopWidgets
        /\ kept.SelectedWidgets = r.SelectedWidgets \o r.TopWidgets
    BY EnrichedFields
  <1>3. Enriched(kept).PageName = Enriched(r).PageName
    <2>1. /\ Enriched(kept).PageName = EnrichedPage(kept.EventName, kept.PageName)
          /\ Enriched(r).PageName = EnrichedPage(r.EventName, r.PageName)
      BY <1>1, EnrichedFields
    <2>2. EnrichedPage(r.EventName, EnrichedPage(r.EventName, r.PageName))
              = EnrichedPage(r.EventName, r.PageName)
      BY EnrichedPageStable
    <2> QED
      BY <1>2, <2>1, <2>2
  <1>4. Enriched(kept).Product = Enriched(r).Product
    BY <1>1, <1>2, EnrichedFields
  <1>5. /\ Enriched(kept).PageAlertNotification = Enriched(r).PageAlertNotification
        /\ Enriched(kept).StreamTech = Enriched(r).StreamTech
    BY <1>1, <1>2, EnrichedFields
  <1>6. Range(Enriched(kept).SelectedWidgets) = Range(Enriched(r).SelectedWidgets)
    <2>1. r.SelectedWidgets \in Seq(Text) /\ r.TopWidgets \in Seq(Text)
      BY DEF Request
    <2>2. r.SelectedWidgets \o r.TopWidgets \in Seq(Text)
      BY <2>1, ConcatProperties
    <2>3. Enriched(kept).SelectedWidgets
              = (r.SelectedWidgets \o r.TopWidgets) \o r.TopWidgets
      BY <1>1, <1>2, EnrichedFields
    <2>4. /\ Range((r.SelectedWidgets \o r.TopWidgets) \o r.TopWidgets)
                 = Range(r.SelectedWidgets \o r.TopWidgets) \cup Range(r.TopWidgets)
          /\ Range(r.SelectedWidgets \o r.TopWidgets)
                 = Range(r.SelectedWidgets) \cup Range(r.TopWidgets)
      BY <2>1, <2>2, RangeOfConcat
    <2>5. Enriched(r).SelectedWidgets = r.SelectedWidgets \o r.TopWidgets
      BY EnrichedFields
    <2> QED
      BY <2>3, <2>4, <2>5
  <1> QED
    BY <1>3, <1>4, <1>5, <1>6, AlikeMessages

-----------------------------------------------------------------------------
(* What the workers count.  N[rk] stands for a number that grows whenever   *)
(* HINCRBY takes effect on the buffer of rk.                                *)

Tally(N) ==
    /\ \A rk \in RoutingKey :
           /\ buffer[rk].count <= N[rk]
           /\ buffer[rk].meta \in {TotalMessages[rk], NoMeta}
           /\ status[rk] = BUFFERED => N[rk] >= TotalMessages[rk]
    /\ \A p \in Proc, rk \in RoutingKey :
           wpc[p] \in {"meta", "set"} /\ hand[p].rk = rk =>
               /\ n[p] <= N[rk]
               /\ wpc[p] = "set" => n[p] >= TotalMessages[rk]

\* From N to M nothing is taken back.
NoLess(N, M) ==
    /\ N \in [RoutingKey -> Nat] /\ M \in [RoutingKey -> Nat]
    /\ \A rk \in RoutingKey : N[rk] <= M[rk]

(* The types of what is counted and compared.                               *)
LEMMA TallyTypes ==
    ASSUME ProcessTyped
    PROVE  /\ \A rk \in RoutingKey : /\ buffer[rk].count \in Nat
                                     /\ buffer[rk].meta \in Nat \cup {NoMeta}
                                     /\ TotalMessages[rk] \in Int
                                     /\ TotalMessages[rk] \in Nat \cup {NoMeta}
           /\ \A p \in Proc :
                  /\ n[p] \in Nat
                  /\ wpc[p] \in {"handle", "meta", "set"} =>
                         hand[p] \in Item /\ hand[p].rk \in RoutingKey
  <1>1. buffer \in [RoutingKey -> Hash]
    BY DEF ProcessTyped, BackendTypeOK
  <1>2. \A rk \in RoutingKey : /\ buffer[rk].count \in Nat
                               /\ buffer[rk].meta \in Nat \cup {NoMeta}
    BY <1>1 DEF Hash
  <1>3. \A rk \in RoutingKey : TotalMessages[rk] \in Nat \cup {NoMeta}
    BY BackendAssumption
  <1>4. \A rk \in RoutingKey : TotalMessages[rk] \in Int
    BY <1>3 DEF NoMeta
  <1>5. \A p \in Proc :
            /\ n[p] \in Nat
            /\ wpc[p] \in {"handle", "meta", "set"} => hand[p] \in Item
    BY DEF ProcessTyped, ProcessTypeOK
  <1> QED
    BY <1>2, <1>3, <1>4, <1>5 DEF Item

(* Nothing is counted in the beginning, and no batch has a status.          *)
LEMMA TallyInit ==
    ASSUME ProcessInit, BackendInit, NEW N \in [RoutingKey -> Nat]
    PROVE  Tally(N)
  <1>1. \A rk \in RoutingKey : /\ buffer[rk].count = 0
                               /\ buffer[rk].meta = TotalMessages[rk]
                               /\ status[rk] # BUFFERED
    BY DEF BackendInit, EmptyHash, NoStatus, BUFFERED
  <1>2. \A p \in Proc : wpc[p] = "idle"
    BY DEF ProcessInit
  <1> QED
    BY <1>1, <1>2 DEF Tally

(* A step that counts nothing for the buffer, keeps what the workers have   *)
(* in hand and completes nothing.                                           *)
LEMMA TallyQuiet ==
    ASSUME ProcessTyped, ProcessTyped', NEW N, NEW M, NoLess(N, M), Tally(N),
           \A rk \in RoutingKey :
               /\ buffer'[rk].count <= buffer[rk].count
               /\ buffer'[rk].meta \in {buffer[rk].meta, NoMeta}
               /\ status'[rk] = BUFFERED => status[rk] = BUFFERED,
           \A p \in Proc : wpc'[p] \in {"meta", "set"} =>
               wpc'[p] = wpc[p] /\ n'[p] = n[p] /\ hand'[p] = hand[p]
    PROVE  Tally(M)'
  <1>1. \A rk \in RoutingKey : N[rk] \in Nat /\ M[rk] \in Nat /\ N[rk] <= M[rk]
    BY DEF NoLess
  <1>2. \A rk \in RoutingKey : buffer[rk].count \in Nat /\ buffer'[rk].count \in Nat
    <2>1. \A rk \in RoutingKey : buffer'[rk].count \in Nat
      BY DEF ProcessTyped, BackendTypeOK, Hash
    <2> QED
      BY <2>1, TallyTypes
  <1>3. \A rk \in RoutingKey : TotalMessages[rk] \in Int
    BY TallyTypes
  <1>4. \A rk \in RoutingKey :
            /\ buffer'[rk].count <= M[rk]
            /\ buffer'[rk].meta \in {TotalMessages[rk], NoMeta}
            /\ status'[rk] = BUFFERED => M[rk] >= TotalMessages[rk]
    BY <1>1, <1>2, <1>3 DEF Tally
  <1>5. ASSUME NEW p \in Proc, NEW rk \in RoutingKey,
               wpc'[p] \in {"meta", "set"}, hand'[p].rk = rk
        PROVE  /\ n'[p] <= M[rk]
               /\ wpc'[p] = "set" => n'[p] >= TotalMessages[rk]
    <2>1. wpc'[p] = wpc[p] /\ n'[p] = n[p] /\ hand'[p] = hand[p] /\ n[p] \in Nat
      BY <1>5, TallyTypes
    <2>2. /\ n[p] <= N[rk]
          /\ wpc[p] = "set" => n[p] >= TotalMessages[rk]
      BY <1>5, <2>1 DEF Tally
    <2> QED
      BY <1>1, <2>1, <2>2
  <1> QED
    BY <1>4, <1>5 DEF Tally

(* HINCRBY: the count it returns is one that the number stands for.         *)
LEMMA TallyIncrement ==
    ASSUME ProcessTyped, NEW N, NEW M, NoLess(N, M), Tally(N),
           NEW p \in Proc, IncrementCompletion(p), buffer' # buffer,
           N[hand[p].rk] < M[hand[p].rk]
    PROVE  Tally(M)'
  <1>1. \A rk \in RoutingKey : /\ N[rk] \in Nat /\ M[rk] \in Nat /\ N[rk] <= M[rk]
                               /\ TotalMessages[rk] \in Int
    BY TallyTypes DEF NoLess
  <1>2. /\ wpc \in [Proc -> {"idle", "handle", "meta", "set", "exited"}]
        /\ n \in [Proc -> Nat] /\ hand \in [Proc -> Item \cup {NoItem}]
        /\ buffer \in [RoutingKey -> Hash]
    BY DEF ProcessTyped, ProcessTypeOK, BackendTypeOK
  <1>3. /\ wpc[p] = "handle" /\ status' = status
        /\ buffer' = [buffer EXCEPT ![hand[p].rk].count = @ + 1]
        /\ \/ /\ wpc' = [wpc EXCEPT ![p] = "meta"]
              /\ n' = [n EXCEPT ![p] = buffer[hand[p].rk].count + 1]
              /\ UNCHANGED hand
           \/ WorkerDone(p)
    BY DEF IncrementCompletion, IncrementProcessedCount, backendVars
  <1>4. PICK k \in RoutingKey : k = hand[p].rk
    BY <1>3, TallyTypes
  <1>5. /\ \A rk \in RoutingKey : buffer'[rk].meta = buffer[rk].meta
        /\ \A rk \in RoutingKey \ {k} : buffer'[rk].count = buffer[rk].count
        /\ buffer'[k].count = buffer[k].count + 1
        /\ \A rk \in RoutingKey : buffer[rk].count \in Nat
    BY <1>2, <1>3, <1>4 DEF Hash
  <1>6. ASSUME NEW rk \in RoutingKey
        PROVE  /\ buffer'[rk].count <= M[rk]
               /\ buffer'[rk].meta \in {TotalMessages[rk], NoMeta}
               /\ status'[rk] = BUFFERED => M[rk] >= TotalMessages[rk]
    <2>1. /\ buffer[rk].count <= N[rk]
          /\ buffer[rk].meta \in {TotalMessages[rk], NoMeta}
          /\ status[rk] = BUFFERED => N[rk] >= TotalMessages[rk]
      BY DEF Tally
    <2>2. CASE rk = k
      BY <1>1, <1>3, <1>4, <1>5, <2>1, <2>2
    <2>3. CASE rk # k
      BY <1>1, <1>3, <1>5, <2>1, <2>3
    <2> QED
      BY <2>2, <2>3
  <1>7. ASSUME NEW q \in Proc, NEW rk \in RoutingKey,
               wpc'[q] \in {"meta", "set"}, hand'[q].rk = rk
        PROVE  /\ n'[q] <= M[rk]
               /\ wpc'[q] = "set" => n'[q] >= TotalMessages[rk]
    <2>1. CASE q = p
      <3>1. /\ wpc'[p] = "meta" /\ hand' = hand
            /\ n'[p] = buffer[k].count + 1
        BY <1>2, <1>3, <1>4, <1>7, <2>1 DEF WorkerDone
      <3>2. rk = k /\ buffer'[rk].count <= M[rk]
        BY <1>4, <1>6, <1>7, <2>1, <3>1
      <3> QED
        BY <1>5, <2>1, <3>1, <3>2
    <2>2. CASE q # p
      <3>1. wpc'[q] = wpc[q] /\ hand'[q] = hand[q] /\ n'[q] = n[q] /\ n[q] \in Nat
        BY <1>2, <1>3, <2>2 DEF WorkerDone
      <3>2. /\ n[q] <= N[rk]
            /\ wpc[q] = "set" => n[q] >= TotalMessages[rk]
        BY <1>7, <3>1 DEF Tally
      <3> QED
        BY <1>1, <3>1, <3>2
    <2> QED
      BY <2>1, <2>2
  <1> QED
    BY <1>6, <1>7 DEF Tally

(* HGET __meta__ and SET: the status says BUFFERED only if the count that   *)
(* the worker holds reached the total.                                      *)
LEMMA TallyComplete ==
    ASSUME ProcessTyped, NEW N, NEW M, NoLess(N, M), Tally(N),
           NEW p \in Proc, CheckCompletion(p) \/ SetCompletion(p)
    PROVE  Tally(M)'
  <1>1. /\ wpc \in [Proc -> {"idle", "handle", "meta", "set", "exited"}]
        /\ n \in [Proc -> Nat] /\ hand \in [Proc -> Item \cup {NoItem}]
        /\ status \in [RoutingKey -> {NoStatus, PROCESSING, BUFFERED}]
    BY DEF ProcessTyped, ProcessTypeOK, BackendTypeOK
  <1>2. buffer' = buffer /\ wpc[p] \in {"meta", "set"}
    BY DEF CheckCompletion, SetCompletion, SetStatus, backendVars
  <1>3. PICK k \in RoutingKey : k = hand[p].rk
    BY <1>2, TallyTypes
  <1>4. ASSUME NEW rk \in RoutingKey
        PROVE  /\ N[rk] \in Nat /\ M[rk] \in Nat /\ N[rk] <= M[rk]
               /\ TotalMessages[rk] \in Int /\ buffer[rk].count \in Nat
               /\ buffer[rk].count <= N[rk]
               /\ buffer[rk].meta \in {TotalMessages[rk], NoMeta}
               /\ status[rk] = BUFFERED => N[rk] >= TotalMessages[rk]
    BY TallyTypes DEF NoLess, Tally
  <1>5. ASSUME NEW q \in Proc, NEW rk \in RoutingKey,
               wpc[q] \in {"meta", "set"}, hand[q].rk = rk
        PROVE  /\ n[q] \in Nat /\ n[q] <= N[rk]
               /\ wpc[q] = "set" => n[q] >= TotalMessages[rk]
    BY <1>5, TallyTypes DEF Tally
  <1>6. ASSUME NEW q \in Proc, NEW rk \in RoutingKey,
               wpc'[q] \in {"meta", "set"}, hand'[q].rk = rk
        PROVE  /\ n'[q] <= M[rk]
               /\ wpc'[q] = "set" => n'[q] >= TotalMessages[rk]
    <2>1. n'[q] = n[q] /\ hand'[q] = hand[q] /\ wpc[q] \in {"meta", "set"}
      BY <1>1, <1>2, <1>6 DEF CheckCompletion, SetCompletion, WorkerDone
    <2>2. n[q] \in Nat /\ n'[q] <= M[rk]
      BY <1>4, <1>5, <1>6, <2>1
    <2>3. CASE wpc'[q] = wpc[q]
      BY <1>5, <1>6, <2>1, <2>2, <2>3
    <2>4. CASE wpc'[q] # wpc[q]
      <3>1. q = p /\ CompletionReached(hand[p].rk, n[p])
        BY <1>1, <1>6, <2>4 DEF CheckCompletion, SetCompletion, WorkerDone
      <3>2. rk = k /\ buffer[rk].meta # NoMeta /\ n[p] >= buffer[rk].meta
        BY <1>3, <1>6, <2>1, <3>1 DEF CompletionReached
      <3> QED
        BY <1>4, <2>1, <2>2, <3>1, <3>2
    <2> QED
      BY <2>3, <2>4
  <1>7. ASSUME NEW rk \in RoutingKey, status'[rk] = BUFFERED
        PROVE  M[rk] >= TotalMessages[rk]
    <2>1. CASE status[rk] = BUFFERED
      BY <1>4, <2>1
    <2>2. CASE status[rk] # BUFFERED
      <3>1. /\ SetCompletion(p)
            /\ status' = [status EXCEPT ![hand[p].rk] = BUFFERED]
        BY <1>7, <2>2 DEF CheckCompletion, SetCompletion, SetStatus, backendVars
      <3>2. rk = k /\ wpc[p] = "set"
        BY <1>1, <1>3, <1>7, <2>2, <3>1 DEF SetCompletion
      <3> QED
        BY <1>3, <1>4, <1>5, <3>2
    <2> QED
      BY <2>1, <2>2
  <1>8. \A rk \in RoutingKey : buffer'[rk].count <= M[rk]
    BY <1>2, <1>4
  <1> QED
    BY <1>2, <1>4, <1>6, <1>7, <1>8 DEF Tally

(* A worker counts one marker at a time, and announces a batch when the     *)
(* count it read back reaches the total.                                    *)
LEMMA TallyWorker ==
    ASSUME ProcessTyped, ProcessTyped', NEW N, NEW M, NoLess(N, M), Tally(N),
           NEW p \in Proc, WorkerStep(p) \/ WorkerReturn(p),
           IncrementCompletion(p) /\ buffer' # buffer =>
               N[hand[p].rk] < M[hand[p].rk]
    PROVE  Tally(M)'
  <1>1. /\ wpc \in [Proc -> {"idle", "handle", "meta", "set", "exited"}]
        /\ n \in [Proc -> Nat] /\ hand \in [Proc -> Item \cup {NoItem}]
        /\ buffer \in [RoutingKey -> Hash]
    BY DEF ProcessTyped, ProcessTypeOK, BackendTypeOK
  <1>2. \A rk \in RoutingKey : buffer[rk].count \in Nat
    BY TallyTypes
  <1>3. ASSUME \A rk \in RoutingKey : /\ buffer'[rk].count = buffer[rk].count
                                      /\ buffer'[rk].meta = buffer[rk].meta,
               status' = status,
               wpc'[p] \notin {"meta", "set"},
               \A q \in Proc \ {p} : /\ wpc'[q] = wpc[q]
                                     /\ hand'[q] = hand[q] /\ n'[q] = n[q]
        PROVE  Tally(M)'
    BY <1>2, <1>3, TallyQuiet
  <1>4. CASE Take(p) \/ WorkerReturn(p)
    BY <1>1, <1>3, <1>4 DEF Take, WorkerReturn, backendVars
  <1>5. CASE SendSSEEvent(p) \/ DispatchToStream(p)
    BY <1>1, <1>3, <1>5 DEF SendSSEEvent, DispatchToStream, WorkerDone, backendVars
  <1>6. CASE StoreResult(p)
    <2>1. /\ \A rk \in RoutingKey : /\ buffer'[rk].count = buffer[rk].count
                                    /\ buffer'[rk].meta = buffer[rk].meta
          /\ status' = status
      <3>1. ASSUME NEW k, NEW name, NEW id, StoreDataInRedis(k, name, id)
            PROVE  /\ \A rk \in RoutingKey :
                          /\ buffer'[rk].count = buffer[rk].count
                          /\ buffer'[rk].meta = buffer[rk].meta
                   /\ status' = status
        <4> SUFFICES ASSUME NEW rk \in RoutingKey
                     PROVE  /\ buffer'[rk].count = buffer[rk].count
                            /\ buffer'[rk].meta = buffer[rk].meta
          BY <3>1 DEF StoreDataInRedis
        <4>1. CASE rk = k
          BY <1>1, <3>1, <4>1 DEF StoreDataInRedis, Hash
        <4>2. CASE rk # k
          BY <1>1, <3>1, <4>2 DEF StoreDataInRedis
        <4> QED
          BY <4>1, <4>2
      <3>2. CASE UNCHANGED backendVars
        BY <3>2 DEF backendVars
      <3> QED
        BY <1>6, <3>1, <3>2 DEF StoreResult
    <2> QED
      BY <1>1, <1>3, <1>6, <2>1 DEF StoreResult, WorkerDone
  <1>7. CASE IncrementCompletion(p) /\ buffer' = buffer
    <2>1. WorkerDone(p) /\ status' = status
      <3>1. CASE IncrementProcessedCount(hand[p].rk)
        <4>1. wpc[p] = "handle" /\ hand[p].rk \in RoutingKey
          BY <1>7, TallyTypes DEF IncrementCompletion
        <4>2. buffer'[hand[p].rk].count = buffer[hand[p].rk].count + 1
          BY <1>1, <3>1, <4>1 DEF IncrementProcessedCount, Hash
        <4> QED
          BY <1>2, <1>7, <4>1, <4>2
      <3> QED
        BY <1>7, <3>1 DEF IncrementCompletion, backendVars
    <2> QED
      BY <1>1, <1>3, <1>7, <2>1 DEF WorkerDone
  <1>8. CASE IncrementCompletion(p) /\ buffer' # buffer
    BY <1>8, TallyIncrement
  <1>9. CASE CheckCompletion(p) \/ SetCompletion(p)
    BY <1>9, TallyComplete
  <1> QED
    BY <1>4, <1>5, <1>6, <1>7, <1>8, <1>9 DEF WorkerStep

(* The other steps count nothing: they set PROCESSING, let keys expire or   *)
(* end the process.                                                         *)
LEMMA TallyOther ==
    ASSUME ProcessTyped, ProcessTyped', NEW N, NEW M, NoLess(N, M), Tally(N),
           \/ UNCHANGED <<workerVars, backendVars>>
           \/ \E rk \in RoutingKey : Expire(rk)
           \/ \E p \in Proc : \/ ConsumerStep(p) \/ ConsumerReturn(p)
                              \/ Signal(p) \/ End(p)
    PROVE  Tally(M)'
  <1>1. /\ wpc \in [Proc -> {"idle", "handle", "meta", "set", "exited"}]
        /\ n \in [Proc -> Nat] /\ hand \in [Proc -> Item \cup {NoItem}]
        /\ buffer \in [RoutingKey -> Hash]
        /\ status \in [RoutingKey -> {NoStatus, PROCESSING, BUFFERED}]
    BY DEF ProcessTyped, ProcessTypeOK, BackendTypeOK
  <1>2. \A rk \in RoutingKey : buffer[rk].count \in Nat
    BY TallyTypes
  <1>3. CASE UNCHANGED <<workerVars, backendVars>>
    BY <1>2, <1>3, TallyQuiet DEF workerVars, backendVars
  <1>4. ASSUME NEW rk \in RoutingKey, Expire(rk)
        PROVE  Tally(M)'
    <2>1. UNCHANGED workerVars
      BY <1>4 DEF Expire, processVars
    <2>2. CASE ExpireBuffer(rk)
      BY <1>1, <1>2, <2>1, <2>2, TallyQuiet DEF ExpireBuffer, EmptyHash, workerVars
    <2>3. CASE ExpireStatus(rk)
      <3>1. /\ buffer' = buffer
            /\ \A k \in RoutingKey : status'[k] \in {status[k], NoStatus}
        BY <1>1, <2>3 DEF ExpireStatus, SetStatus
      <3>2. NoStatus # BUFFERED
        BY DEF NoStatus, BUFFERED
      <3>3. \A k \in RoutingKey :
                /\ buffer'[k].count <= buffer[k].count
                /\ buffer'[k].meta \in {buffer[k].meta, NoMeta}
                /\ status'[k] = BUFFERED => status[k] = BUFFERED
        BY <1>2, <3>1, <3>2
      <3> QED
        BY <2>1, <3>3, TallyQuiet DEF workerVars
    <2> QED
      BY <1>4, <2>2, <2>3 DEF Expire
  <1>5. ASSUME NEW p \in Proc, UpdateEventStatus(p)
        PROVE  Tally(M)'
    <2>1. /\ UNCHANGED <<workerVars, buffer>>
          /\ status' = status
             \/ status' = [status EXCEPT ![incoming[p].RoutingKey] = PROCESSING]
      BY <1>5 DEF UpdateEventStatus, SetStatus, backendVars
    <2>2. \A k \in RoutingKey : status'[k] \in {status[k], PROCESSING}
      BY <1>1, <2>1
    <2> QED
      BY <1>2, <2>1, <2>2, TallyQuiet DEF workerVars, PROCESSING, BUFFERED
  <1>6. ASSUME NEW p \in Proc, End(p)
        PROVE  Tally(M)'
    <2>1. buffer' = buffer /\ status' = status
      BY <1>6 DEF End, backendVars
    <2>2. \A q \in Proc : wpc'[q] \in {"meta", "set"} =>
              wpc'[q] = wpc[q] /\ n'[q] = n[q] /\ hand'[q] = hand[q]
      BY <1>1, <1>6 DEF End, WorkerDone
    <2> QED
      BY <1>2, <2>1, <2>2, TallyQuiet
  <1>7. ASSUME NEW p \in Proc,
               \/ Triage(p) \/ RunController(p) \/ SendMarker(p)
               \/ ConsumerReturn(p) \/ Signal(p)
        PROVE  Tally(M)'
    BY <1>3, <1>7
    DEF Triage, RunController, SendMarker, ConsumerReturn, Signal
  <1> QED
    BY <1>3, <1>4, <1>5, <1>6, <1>7 DEF ConsumerStep

(* A worker only adds to what it has handled.                               *)
LEMMA HandledGrows ==
    ASSUME ProcessTyped, NEW p \in Proc, WorkerStep(p) \/ WorkerReturn(p)
    PROVE  \A q \in Proc : Range(handled[q]) \subseteq Range(handled'[q])
  <1>1. handled \in [Proc -> Seq(Dispatch)]
    BY DEF ProcessTyped, ProcessTypeOK
  <1>2. Takes(p) \/ (\E d \in Dispatch : Dispatches(p, d)) \/ Rests(p)
    BY WorkerMoves
  <1>3. CASE handled' = handled
    BY <1>3
  <1>4. ASSUME NEW d \in Dispatch, Dispatches(p, d)
        PROVE  \A q \in Proc : Range(handled[q]) \subseteq Range(handled'[q])
    <2>1. /\ handled'[p] = Append(handled[p], d)
          /\ \A q \in Proc \ {p} : handled'[q] = handled[q]
      BY <1>1, <1>4 DEF Dispatches
    <2>2. Range(handled'[p]) = Range(handled[p]) \cup {d}
      BY <1>1, <2>1, RangeOfAppend
    <2> QED
      BY <2>1, <2>2
  <1> QED
    BY <1>2, <1>3, <1>4 DEF Takes, Rests

(* The marker that an effective HINCRBY stands for.                         *)
LEMMA CountedMarker ==
    ASSUME ProcessTyped, NEW p \in Proc, IncrementCompletion(p), buffer' # buffer
    PROVE  \E d \in Dispatch :
               /\ d.id = hand[p].id /\ d.marker /\ d.ok /\ d.rk = hand[p].rk
               /\ handled' = [handled EXCEPT ![p] = Append(@, d)]
               /\ wpc[p] = "handle" /\ hand[p].marker
               /\ d.rk \in RoutingKey
  <1>1. /\ wpc[p] = "handle" /\ hand[p].marker
        /\ Record(p, hand[p].rk, "count", TRUE)
    BY DEF IncrementCompletion, backendVars
  <1>2. hand[p] \in Item /\ hand[p].rk \in RoutingKey
    BY <1>1, TallyTypes
  <1> DEFINE d == [id |-> hand[p].id, marker |-> hand[p].marker,
                   rk |-> hand[p].rk, sink |-> "count", ok |-> TRUE]
  <1>3. d \in Dispatch
    BY <1>2 DEF Item, Dispatch, Sinks
  <1>4. handled' = [handled EXCEPT ![p] = Append(@, d)]
    BY <1>1 DEF Record
  <1> HIDE DEF d
  <1>5. d.id = hand[p].id /\ d.marker /\ d.ok /\ d.rk = hand[p].rk
    BY <1>1 DEF d
  <1> QED
    BY <1>1, <1>2, <1>3, <1>4, <1>5

(* The steps that are not a worker's dispatch nothing.                      *)
LEMMA HandledKept ==
    ASSUME \/ UNCHANGED <<workerVars, backendVars>>
           \/ \E rk \in RoutingKey : Expire(rk)
           \/ \E p \in Proc : \/ ConsumerStep(p) \/ ConsumerReturn(p)
                              \/ Signal(p) \/ End(p)
    PROVE  handled' = handled
  BY DEF workerVars, processVars, Expire, ConsumerStep, Triage,
         UpdateEventStatus, RunController, SendMarker, ConsumerReturn, Signal, End
=============================================================================
