----------------------------- MODULE OrderProofs ----------------------------
(***************************************************************************)
(* The line of items of each process: what its worker has dispatched,      *)
(* holds and will take; and the batches whose markers those workers count. *)
(* Proofs of FifoOncePerProcess, NoSharedDispatch, CompletionAfterData,    *)
(* BufferedIsComplete and StatusNeverRegresses for any processes, entries  *)
(* and faults.                                                             *)
(***************************************************************************)
EXTENDS RedisConsumerProofs, FiniteSetTheorems

Line(p) == Undispatched(p) \cup Range(handled[p])

Increasing(s) == \A i, j \in 1..Len(s) : i < j => Rank(s[i]) < Rank(s[j])

\* A process reads entries in the order of their ids.
Latest ==
    \A p \in Proc : pc[p] \in Busy =>
        \A id \in 1..Len(reads) : reads[id] = p => id <= cur[p]

\* Its line holds only items of entries it was given.
LineOwner ==
    \A p \in Proc : \A x \in Line(p) :
        x.id \in 1..Len(reads) /\ reads[x.id] = p

\* What was lost belongs to entries that nobody processes any more, and is in
\* no line.
LostGone ==
    \A x \in lost :
        /\ x.id \in 1..Len(reads)
        /\ \A p \in Proc : pc[p] \in Busy => cur[p] # x.id
        /\ \A p \in Proc : \A y \in Line(p) :
               ~(y.id = x.id /\ y.marker = x.marker)

\* The marker comes after everything else that happens to an entry.
NoMarkerYet ==
    \A p \in Proc : pc[p] \in Busy \ {"ack"} => ~HasMarker(cur[p])

OrderedLine(p) ==
    /\ Increasing(handled[p])
    /\ Increasing(queue[p])
    /\ wpc[p] = "handle" =>
           \A y \in Range(queue[p]) : Rank(hand[p]) < Rank(y)
    /\ \A x \in Range(handled[p]), y \in Undispatched(p) : Rank(x) < Rank(y)

\* A marker in a line has its data there, and dispatched data once dispatched.
DataFirst(p) ==
    /\ \A x \in Line(p) : x.marker =>
           \E y \in Line(p) : y.id = x.id /\ ~y.marker
    /\ \A x \in Range(handled[p]) : x.marker =>
           \E y \in Range(handled[p]) : y.id = x.id /\ ~y.marker

LineOK(p) == OrderedLine(p) /\ DataFirst(p)

OrderInv ==
    /\ FateInv /\ Latest /\ LineOwner /\ LostGone /\ NoMarkerYet
    /\ \A p \in Proc : LineOK(p)

-----------------------------------------------------------------------------
(* Ranks order items by entry, data before marker.                          *)
LEMMA RankFacts ==
    ASSUME NEW x, NEW y, x.id \in Nat, y.id \in Nat,
           x.marker \in BOOLEAN, y.marker \in BOOLEAN
    PROVE  /\ Rank(x) \in Nat
           /\ x.id < y.id => Rank(x) < Rank(y)
           /\ x.id = y.id /\ ~x.marker /\ y.marker => Rank(x) < Rank(y)
           /\ x.id = y.id /\ x.marker = y.marker => Rank(x) = Rank(y)
           /\ Rank(x) < Rank(y) => \/ x.id < y.id
                                   \/ x.id = y.id /\ ~x.marker /\ y.marker
  BY DEF Rank

(* Appending an item of higher rank keeps a sequence increasing.            *)
LEMMA IncreasingAppend ==
    ASSUME NEW S, NEW s \in Seq(S), NEW e \in S, Increasing(s),
           \A x \in Range(s) : Rank(x) < Rank(e)
    PROVE  Increasing(Append(s, e))
  <1>1. /\ Len(Append(s, e)) = Len(s) + 1
        /\ \A i \in 1..Len(s) : Append(s, e)[i] = s[i]
        /\ Append(s, e)[Len(s) + 1] = e
        /\ Len(s) \in Nat
    BY AppendProperties
  <1>2. \A i \in 1..Len(s) : s[i] \in Range(s)
    BY LenProperties DEF Range
  <1> QED
    BY <1>1, <1>2 DEF Increasing

(* The head of an increasing sequence ranks below its tail.                 *)
LEMMA IncreasingTail ==
    ASSUME NEW S, NEW s \in Seq(S), s # <<>>, Increasing(s)
    PROVE  /\ Increasing(Tail(s))
           /\ \A y \in Range(Tail(s)) : Rank(Head(s)) < Rank(y)
  <1>1. /\ Tail(s) \in Seq(S)
        /\ Len(Tail(s)) = Len(s) - 1
        /\ \A i \in 1..Len(Tail(s)) : Tail(s)[i] = s[i + 1]
        /\ Len(s) \in Nat \ {0} /\ Head(s) = s[1]
    BY HeadTailProperties, EmptySeq
  <1>2. DOMAIN Tail(s) = 1..Len(Tail(s))
    BY <1>1, LenProperties
  <1>3. \A i, j \in 1..Len(Tail(s)) : i < j => Rank(Tail(s)[i]) < Rank(Tail(s)[j])
    BY <1>1 DEF Increasing
  <1>4. \A i \in 1..Len(Tail(s)) : Rank(s[1]) < Rank(s[i + 1])
    BY <1>1 DEF Increasing
  <1> QED
    BY <1>1, <1>2, <1>3, <1>4 DEF Increasing, Range

(* The items of a line are typed alike.                                     *)
LEMMA LineTypes ==
    ASSUME ProcessTyped, NEW p \in Proc
    PROVE  /\ \A x \in Line(p) : x.id \in Nat /\ x.marker \in BOOLEAN
           /\ \A x \in lost : x.id \in Nat /\ x.marker \in BOOLEAN
  <1>1. Range(queue[p]) \subseteq Item /\ Range(handled[p]) \subseteq Dispatch
    BY RangeOfSeq DEF ProcessTyped, ProcessTypeOK
  <1>2. wpc[p] = "handle" => hand[p] \in Item
    BY DEF ProcessTyped, ProcessTypeOK
  <1>3. lost \subseteq Item
    BY DEF ProcessTyped, ProcessTypeOK
  <1> QED
    BY <1>1, <1>2, <1>3 DEF Line, Undispatched, Item, Dispatch

-----------------------------------------------------------------------------
(* How the moves of items change a line.                                    *)

(* Taking the next item keeps the line (worker.go:51).                      *)
LEMMA LineTakes ==
    ASSUME ProcessTyped, NEW p \in Proc, LineOK(p), Takes(p)
    PROVE  LineOK(p)' /\ Line(p)' = Line(p)
  <1>1. /\ queue[p] \in Seq(Item) /\ queue[p] # <<>>
        /\ queue'[p] = Tail(queue[p]) /\ hand'[p] = Head(queue[p])
        /\ wpc[p] = "idle" /\ wpc'[p] = "handle" /\ handled' = handled
    BY DEF Takes, ProcessTyped, ProcessTypeOK
  <1>2. Range(queue[p]) = Range(Tail(queue[p])) \cup {Head(queue[p])}
    BY <1>1, RangeOfHeadTail
  <1>3. Undispatched(p)' = Undispatched(p)
    BY <1>1, <1>2 DEF Undispatched
  <1>4. Line(p)' = Line(p)
    BY <1>1, <1>3 DEF Line
  <1>5. /\ Increasing(queue'[p])
        /\ \A y \in Range(queue'[p]) : Rank(hand'[p]) < Rank(y)
    BY <1>1, IncreasingTail DEF LineOK, OrderedLine
  <1>6. OrderedLine(p)'
    BY <1>1, <1>3, <1>5 DEF LineOK, OrderedLine, Increasing, Rank
  <1>7. DataFirst(p)'
    BY <1>1, <1>4 DEF LineOK, DataFirst
  <1> QED
    BY <1>4, <1>6, <1>7 DEF LineOK

(* Dispatching the item in hand keeps the line: it is the first of those    *)
(* not dispatched yet, so a marker finds its data already dispatched        *)
(* (worker.go:60-111).                                                      *)
LEMMA LineDispatches ==
    ASSUME ProcessTyped, ProcessTyped', NEW p \in Proc, LineOK(p),
           NEW d \in Dispatch, Dispatches(p, d)
    PROVE  /\ LineOK(p)'
           /\ \A x \in Line(p)' : \E y \in Line(p) :
                  y.id = x.id /\ y.marker = x.marker
  <1>1. /\ queue'[p] = queue[p] /\ queue[p] \in Seq(Item)
        /\ handled[p] \in Seq(Dispatch)
        /\ handled'[p] = Append(handled[p], d)
        /\ wpc[p] = "handle" /\ wpc'[p] # "handle" /\ hand[p] \in Item
        /\ d.id = hand[p].id /\ d.marker = hand[p].marker
    BY DEF Dispatches, ProcessTyped, ProcessTypeOK
  <1>2. Range(handled'[p]) = Range(handled[p]) \cup {d}
    BY <1>1, RangeOfAppend
  <1>3. /\ Undispatched(p) = Range(queue[p]) \cup {hand[p]}
        /\ Undispatched(p)' = Range(queue[p])
    BY <1>1 DEF Undispatched
  <1>4. Rank(d) = Rank(hand[p])
    BY <1>1 DEF Rank
  <1>5. /\ \A x \in Range(handled[p]) : Rank(x) < Rank(d)
        /\ \A y \in Range(queue[p]) : Rank(d) < Rank(y)
    BY <1>1, <1>3, <1>4 DEF LineOK, OrderedLine
  <1>6. Increasing(handled'[p])
    BY <1>1, <1>5, IncreasingAppend DEF LineOK, OrderedLine
  <1>7. OrderedLine(p)'
    <2>1. Increasing(queue'[p])
      BY <1>1 DEF LineOK, OrderedLine
    <2>2. \A x \in Range(handled'[p]), y \in Undispatched(p)' :
              Rank(x) < Rank(y)
      BY <1>2, <1>3, <1>5 DEF LineOK, OrderedLine
    <2> QED
      BY <1>1, <1>6, <2>1, <2>2 DEF OrderedLine, Increasing, Rank
  <1>8. /\ Line(p) = Range(queue[p]) \cup {hand[p]} \cup Range(handled[p])
        /\ Line(p)' = Range(queue[p]) \cup {d} \cup Range(handled[p])
    BY <1>2, <1>3 DEF Line
  <1>9. \A x \in Line(p)' : \E y \in Line(p) :
            y.id = x.id /\ y.marker = x.marker
    BY <1>1, <1>8
  <1>10. \A x \in Line(p) : \E y \in Line(p)' :
            y.id = x.id /\ y.marker = x.marker
    BY <1>1, <1>8
  <1>11. ASSUME d.marker
         PROVE  \E y \in Range(handled[p]) : y.id = d.id /\ ~y.marker
    <2>1. PICK y \in Line(p) : y.id = hand[p].id /\ ~y.marker
      BY <1>1, <1>8, <1>11 DEF LineOK, DataFirst
    <2>2. y \notin Range(queue[p])
      <3> SUFFICES ASSUME y \in Range(queue[p]) PROVE FALSE
        OBVIOUS
      <3>1. Rank(d) < Rank(y)
        BY <1>5
      <3>2. /\ y.id \in Nat /\ y.marker \in BOOLEAN
            /\ d.id \in Nat /\ d.marker \in BOOLEAN
        BY LineTypes DEF Dispatch
      <3>3. Rank(y) < Rank(d) /\ Rank(y) \in Nat /\ Rank(d) \in Nat
        BY <1>1, <1>11, <2>1, <3>2, RankFacts
      <3> QED
        BY <3>1, <3>3
    <2> QED
      BY <1>1, <1>8, <1>11, <2>1, <2>2
  <1>12. DataFirst(p)'
    <2>1. \A x \in Line(p)' : x.marker =>
              \E y \in Line(p)' : y.id = x.id /\ ~y.marker
      BY <1>9, <1>10 DEF LineOK, DataFirst
    <2>2. \A x \in Range(handled'[p]) : x.marker =>
              \E y \in Range(handled'[p]) : y.id = x.id /\ ~y.marker
      BY <1>2, <1>11 DEF LineOK, DataFirst
    <2> QED
      BY <2>1, <2>2 DEF DataFirst
  <1> QED
    BY <1>7, <1>9, <1>12 DEF LineOK

(* An item that ranks above the line, a marker with its data in it, may be  *)
(* pushed (stub.go:34, consumer.go:196).                                    *)
LEMMA LinePush ==
    ASSUME ProcessTyped, NEW p \in Proc, LineOK(p), NEW it \in Item,
           queue' = [queue EXCEPT ![p] = Append(@, it)],
           UNCHANGED <<wpc, hand, handled>>,
           \A y \in Line(p) : Rank(y) < Rank(it),
           it.marker => \E y \in Line(p) : y.id = it.id /\ ~y.marker
    PROVE  LineOK(p)' /\ Line(p)' = Line(p) \cup {it}
  <1>1. queue[p] \in Seq(Item) /\ queue'[p] = Append(queue[p], it)
    BY DEF ProcessTyped, ProcessTypeOK
  <1>2. Range(queue'[p]) = Range(queue[p]) \cup {it}
    BY <1>1, RangeOfAppend
  <1>3. Undispatched(p)' = Undispatched(p) \cup {it}
    BY <1>2 DEF Undispatched
  <1>4. Line(p)' = Line(p) \cup {it}
    BY <1>3 DEF Line
  <1>5. /\ \A y \in Undispatched(p) \cup Range(handled[p]) : Rank(y) < Rank(it)
        /\ \A y \in Range(queue[p]) : Rank(y) < Rank(it)
        /\ wpc[p] = "handle" => Rank(hand[p]) < Rank(it)
    BY DEF Line, Undispatched
  <1>6. Increasing(queue'[p])
    BY <1>1, <1>5, IncreasingAppend DEF LineOK, OrderedLine
  <1>7. OrderedLine(p)'
    <2>1. wpc[p] = "handle" =>
              \A y \in Range(queue'[p]) : Rank(hand[p]) < Rank(y)
      BY <1>2, <1>5 DEF LineOK, OrderedLine
    <2>2. \A x \in Range(handled[p]), y \in Undispatched(p)' : Rank(x) < Rank(y)
      BY <1>3, <1>5 DEF LineOK, OrderedLine
    <2>3. Increasing(handled[p])
      BY DEF LineOK, OrderedLine
    <2> QED
      BY <1>6, <2>1, <2>2, <2>3 DEF OrderedLine, Increasing, Rank
  <1>8. DataFirst(p)'
    BY <1>4 DEF LineOK, DataFirst
  <1> QED
    BY <1>4, <1>7, <1>8 DEF LineOK

(* A process that ends leaves the line it has dispatched (main.go:85-90).   *)
LEMMA LineEnd ==
    ASSUME NEW p \in Proc, LineOK(p),
           queue'[p] = <<>>, wpc'[p] = "idle", handled' = handled
    PROVE  LineOK(p)' /\ Line(p)' = Range(handled[p])
  <1>1. Undispatched(p)' = {}
    BY RangeOfEmpty DEF Undispatched
  <1>2. Line(p)' = Range(handled[p])
    BY <1>1 DEF Line
  <1>3. Increasing(queue'[p])
    BY NoElements DEF Increasing
  <1>4. OrderedLine(p)'
    BY <1>1, <1>3 DEF LineOK, OrderedLine, Increasing, Rank
  <1>5. DataFirst(p)'
    BY <1>2 DEF LineOK, DataFirst
  <1> QED
    BY <1>2, <1>4, <1>5 DEF LineOK

(* A line depends on the queue, the worker and the history of its process.  *)
LEMMA LineUnchanged ==
    ASSUME NEW p \in Proc,
           queue'[p] = queue[p], handled'[p] = handled[p],
           wpc'[p] = "handle" <=> wpc[p] = "handle",
           wpc[p] = "handle" => hand'[p] = hand[p]
    PROVE  /\ Undispatched(p)' = Undispatched(p)
           /\ Line(p)' = Line(p)
           /\ LineOK(p) => LineOK(p)'
  <1>1. Undispatched(p)' = Undispatched(p)
    BY DEF Undispatched
  <1>2. Line(p)' = Line(p)
    BY <1>1 DEF Line
  <1>3. OrderedLine(p) => OrderedLine(p)'
    BY <1>1 DEF OrderedLine, Increasing, Rank
  <1>4. DataFirst(p) => DataFirst(p)'
    BY <1>2 DEF DataFirst
  <1> QED
    BY <1>1, <1>2, <1>3, <1>4 DEF LineOK

-----------------------------------------------------------------------------
(* Nothing is dispatched, held or lost at first.                            *)
LEMMA OrderInit == Init => OrderInv
  <1> SUFFICES ASSUME Init PROVE OrderInv
    OBVIOUS
  <1>1. FateInv
    BY FateInit
  <1>2. \A p \in Proc : /\ pc[p] = "down" /\ wpc[p] = "idle"
                        /\ queue[p] = <<>> /\ handled[p] = <<>>
    BY DEF Init, ProcessInit
  <1>3. \A p \in Proc : Undispatched(p) = {} /\ Range(handled[p]) = {}
    BY <1>2, RangeOfEmpty DEF Undispatched
  <1>4. \A p \in Proc : Line(p) = {}
    BY <1>3 DEF Line
  <1>5. Latest /\ LineOwner /\ NoMarkerYet
    BY <1>2, <1>4 DEF Latest, LineOwner, NoMarkerYet, Busy
  <1>6. LostGone
    BY DEF Init, ProcessInit, LostGone
  <1>7. \A p \in Proc : LineOK(p)
    BY <1>2, <1>3, <1>4, NoElements
    DEF LineOK, OrderedLine, DataFirst, Increasing
  <1> QED
    BY <1>1, <1>5, <1>6, <1>7 DEF OrderInv

(* A step that reads no entry and queues no item, after which every         *)
(* consumer is where it was, further on with the same entry, or done with   *)
(* it.                                                                      *)
LEMMA OrderQuiet ==
    ASSUME OrderInv, FateInv', reads' = reads, lost' = lost,
           \A p \in Proc : /\ LineOK(p)'
                           /\ \A x \in Line(p)' : \E y \in Line(p) :
                                  y.id = x.id /\ y.marker = x.marker,
           \A id : HasMarker(id)' <=> HasMarker(id),
           \A p \in Proc : pc'[p] \in Busy =>
               pc[p] \in Busy /\ cur'[p] = cur[p],
           \A p \in Proc : pc'[p] \in Busy \ {"ack"} => pc[p] # "ack"
    PROVE  OrderInv'
  <1>1. Latest'
    BY DEF OrderInv, Latest
  <1>2. LineOwner'
    BY DEF OrderInv, LineOwner
  <1>3. LostGone'
    BY DEF OrderInv, LostGone
  <1>4. NoMarkerYet'
    BY DEF OrderInv, NoMarkerYet
  <1> QED
    BY <1>1, <1>2, <1>3, <1>4 DEF OrderInv

(* Steps of the worker move items along the line of its process, and only   *)
(* there (worker.go:40-111).                                                *)
LEMMA OrderWorker ==
    ASSUME OrderInv, FateInv', NEW p \in Proc,
           WorkerStep(p) \/ WorkerReturn(p), UNCHANGED <<groupVars, dead>>
    PROVE  OrderInv'
  <1>1. ProcessTyped /\ ProcessTyped'
    <2>1. Typed /\ Typed'
      BY DEF OrderInv, FateInv
    <2> QED
      BY <2>1, TypedProcesses DEF Typed, TypeOK, ProcessTyped
  <1>2. /\ UNCHANGED <<pc, cur, lost>> /\ reads' = reads
        /\ \A q \in Proc \ {p} : wpc'[q] = wpc[q] /\ hand'[q] = hand[q]
    BY <1>1, WorkerMoves DEF groupVars
  <1>3. \A id : HasMarker(id)' <=> HasMarker(id)
    BY <1>1, WorkerKeeps DEF HasMarker
  <1>4. \A q \in Proc \ {p} : queue'[q] = queue[q] /\ handled'[q] = handled[q]
    <2>1. queue \in [Proc -> Seq(Item)] /\ handled \in [Proc -> Seq(Dispatch)]
      BY <1>1 DEF ProcessTyped, ProcessTypeOK
    <2>2. Takes(p) \/ (\E d \in Dispatch : Dispatches(p, d)) \/ Rests(p)
      BY <1>1, WorkerMoves
    <2> QED
      BY <2>1, <2>2 DEF Takes, Dispatches, Rests
  <1>5. \A q \in Proc \ {p} : LineOK(q)' /\ Line(q)' = Line(q)
    BY <1>2, <1>4, LineUnchanged DEF OrderInv
  <1>6. LineOK(p)' /\ \A x \in Line(p)' : \E y \in Line(p) :
                          y.id = x.id /\ y.marker = x.marker
    <2>1. LineOK(p)
      BY DEF OrderInv
    <2>2. CASE Takes(p)
      BY <1>1, <2>1, <2>2, LineTakes
    <2>3. CASE \E d \in Dispatch : Dispatches(p, d)
      BY <1>1, <2>1, <2>3, LineDispatches
    <2>4. CASE Rests(p)
      BY <2>1, <2>4, LineUnchanged DEF Rests
    <2> QED
      BY <1>1, <2>2, <2>3, <2>4, WorkerMoves
  <1> QED
    BY <1>2, <1>3, <1>5, <1>6, OrderQuiet

(* A step that leaves all lines alone.                                      *)
LEMMA OrderSame ==
    ASSUME OrderInv, FateInv', reads' = reads,
           UNCHANGED <<queue, wpc, hand, handled, lost>>,
           \A p \in Proc : pc'[p] \in Busy =>
               pc[p] \in Busy /\ cur'[p] = cur[p],
           \A p \in Proc : pc'[p] \in Busy \ {"ack"} => pc[p] # "ack"
    PROVE  OrderInv'
  <1>1. \A id : HasMarker(id)' <=> HasMarker(id)
    BY QueuedUnchanged DEF HasMarker
  <1>2. \A p \in Proc : LineOK(p)' /\ Line(p)' = Line(p)
    BY LineUnchanged DEF OrderInv
  <1> QED
    BY <1>1, <1>2, OrderQuiet

(* A process pushes items of the entry it read last, first the data and     *)
(* then the marker (stub.go:34, consumer.go:194-199).                       *)
LEMMA OrderPush ==
    ASSUME OrderInv, FateInv', NEW p \in Proc, NEW it \in Item,
           pc[p] \in {"run", "marker"}, pc'[p] \in {"marker", "ack"},
           it.id = cur[p], it.marker = (pc[p] = "marker"),
           pc[p] = "marker" => pc'[p] = "ack",
           \A q \in Proc \ {p} : pc'[q] = pc[q],
           queue' = [queue EXCEPT ![p] = Append(@, it)],
           UNCHANGED <<wpc, hand, handled, lost, cur, reads>>
    PROVE  OrderInv'
  <1>1. Typed /\ ProcessTyped /\ Owned /\ PendingOf(p) /\ LineOK(p)
    BY TypedProcesses DEF OrderInv, FateInv, Pending
  <1>2. cur[p] \in 1..Len(reads) /\ reads[cur[p]] = p
    BY <1>1 DEF Owned, Busy
  <1>3. \A id, m : Queued(id, m)' <=>
                       Queued(id, m) \/ (it.id = id /\ it.marker = m)
    BY <1>1, PushAdds
  <1>4. ~HasMarker(cur[p])
    BY DEF OrderInv, NoMarkerYet, Busy
  <1>5. pc[p] = "run" => ~HasItem(cur[p])
    BY <1>1 DEF PendingOf
  <1>6. pc[p] = "marker" => \E y \in Line(p) : y.id = cur[p] /\ ~y.marker
    <2> SUFFICES ASSUME pc[p] = "marker"
                 PROVE  \E y \in Line(p) : y.id = cur[p] /\ ~y.marker
      OBVIOUS
    <2>1. HasItem(cur[p])
      BY <1>1 DEF PendingOf
    <2>2. ~ \E x \in lost : x.id = cur[p]
      BY DEF OrderInv, LostGone, Busy
    <2>3. PICK q \in Proc : \E x \in Line(q) : x.id = cur[p] /\ ~x.marker
      BY <2>1, <2>2 DEF HasItem, Queued, Line
    <2>4. q = p
      BY <1>2, <2>3 DEF OrderInv, LineOwner
    <2> QED
      BY <2>3, <2>4
  <1>7. \A y \in Line(p) : Rank(y) < Rank(it)
    <2> SUFFICES ASSUME NEW y \in Line(p)
                 PROVE  Rank(y) < Rank(it)
      OBVIOUS
    <2>1. /\ y.id \in Nat /\ y.marker \in BOOLEAN
          /\ it.id \in Nat /\ it.marker \in BOOLEAN
      BY <1>1, LineTypes DEF Item
    <2>2. y.id \in 1..Len(reads) /\ reads[y.id] = p
      BY DEF OrderInv, LineOwner
    <2>3. y.id <= cur[p]
      BY <2>2 DEF OrderInv, Latest, Busy
    <2>4. CASE y.id < cur[p]
      BY <2>1, <2>4, RankFacts
    <2>5. CASE y.id = cur[p]
      <3>1. Queued(cur[p], y.marker)
        BY <2>5 DEF Queued, Line
      <3>2. y.marker = FALSE /\ pc[p] = "marker"
        BY <1>4, <1>5, <2>1, <3>1 DEF HasItem, HasMarker
      <3> QED
        BY <2>1, <2>5, <3>2, RankFacts
    <2> QED
      BY <2>1, <2>3, <2>4, <2>5
  <1>8. LineOK(p)' /\ Line(p)' = Line(p) \cup {it}
    BY <1>1, <1>6, <1>7, LinePush
  <1>9. \A q \in Proc \ {p} : LineOK(q)' /\ Line(q)' = Line(q)
    <2>1. \A q \in Proc \ {p} : queue'[q] = queue[q]
      BY <1>1 DEF ProcessTyped, ProcessTypeOK
    <2> QED
      BY <2>1, LineUnchanged DEF OrderInv
  <1>10. Latest'
    BY DEF OrderInv, Latest, Busy
  <1>11. LineOwner'
    BY <1>2, <1>8, <1>9 DEF OrderInv, LineOwner
  <1>12. LostGone'
    <2> SUFFICES ASSUME NEW x \in lost
                 PROVE  /\ x.id \in 1..Len(reads)
                        /\ \A q \in Proc : pc'[q] \in Busy => cur[q] # x.id
                        /\ \A q \in Proc : \A y \in Line(q)' :
                               ~(y.id = x.id /\ y.marker = x.marker)
      BY DEF LostGone
    <2>1. x.id # cur[p] /\ \A q \in Proc : pc[q] \in Busy => cur[q] # x.id
      BY DEF OrderInv, LostGone, Busy
    <2> QED
      BY <1>8, <1>9, <2>1 DEF OrderInv, LostGone
  <1>13. NoMarkerYet'
    <2>1. \A id : HasMarker(id)' => HasMarker(id) \/ (id = cur[p] /\ pc'[p] = "ack")
      BY <1>3 DEF HasMarker
    <2>2. \A q \in Proc \ {p} : pc[q] \in Busy => cur[q] # cur[p]
      BY <1>1, <1>2 DEF Owned
    <2> QED
      BY <1>4, <2>1, <2>2 DEF OrderInv, NoMarkerYet
  <1> QED
    BY <1>8, <1>9, <1>10, <1>11, <1>12, <1>13 DEF OrderInv

(* An entry is read after all that its process has read before              *)
(* (broker.go:50).                                                          *)
LEMMA OrderRead ==
    ASSUME OrderInv, FateInv', NEW p \in Proc, ReadGroup(p)
    PROVE  OrderInv'
  <1> DEFINE new == Len(reads) + 1
  <1>1. /\ reads \in Seq(Proc \cup {Nobody}) /\ Len(reads) \in Nat
        /\ pc \in [Proc -> {"down", "setup", "read", "process", "export",
                            "status", "run", "marker", "dead", "ack", "exited"}]
        /\ cur \in [Proc -> Nat] /\ Owned
    BY DEF OrderInv, FateInv, Typed, TypeOK, ProcessTypeOK
  <1>2. /\ pc[p] = "read" /\ reads' = Append(reads, p)
        /\ UNCHANGED <<queue, wpc, hand, handled, lost>>
    BY DEF ReadGroup, workerVars
  <1>3. /\ Len(reads') = new
        /\ \A i \in 1..Len(reads) : reads'[i] = reads[i]
        /\ reads'[new] = p
    BY <1>1, <1>2, AppendProperties
  <1>4. /\ \A q \in Proc \ {p} : pc'[q] = pc[q] /\ cur'[q] = cur[q]
        /\ pc'[p] \in Busy => cur'[p] = new
    <2>1. CASE UNCHANGED <<cur, pc>>
      BY <1>2, <2>1 DEF Busy
    <2>2. CASE /\ cur' = [cur EXCEPT ![p] = new]
               /\ \E k \in {"ack", "process"} : pc' = [pc EXCEPT ![p] = k]
      BY <1>1, <2>2
    <2> QED
      BY <2>1, <2>2 DEF ReadGroup
  <1> HIDE DEF new
  <1>5. new = Len(reads) + 1 /\ new \notin 1..Len(reads)
    BY <1>1 DEF new
  <1>6. \A q \in Proc : LineOK(q)' /\ Line(q)' = Line(q)
    BY <1>2, LineUnchanged DEF OrderInv
  <1>7. Latest'
    <2> SUFFICES ASSUME NEW q \in Proc, pc'[q] \in Busy,
                        NEW id \in 1..Len(reads'), reads'[id] = q
                 PROVE  id <= cur'[q]
      BY DEF Latest
    <2>1. CASE q = p
      BY <1>1, <1>3, <1>4, <1>5, <2>1
    <2>2. CASE q # p
      <3>1. id \in 1..Len(reads) /\ reads[id] = q
        BY <1>1, <1>3, <1>5, <2>2
      <3> QED
        BY <1>4, <2>2, <3>1 DEF OrderInv, Latest
    <2> QED
      BY <2>1, <2>2
  <1>8. LineOwner'
    BY <1>1, <1>3, <1>5, <1>6 DEF OrderInv, LineOwner
  <1>9. LostGone'
    <2>1. \A x \in lost : x.id \in 1..Len(reads) /\ x.id \in 1..Len(reads')
      BY <1>1, <1>3, <1>5 DEF OrderInv, LostGone
    <2>2. \A x \in lost : \A q \in Proc : pc'[q] \in Busy => cur'[q] # x.id
      BY <1>4, <1>5, <2>1 DEF OrderInv, LostGone
    <2> QED
      BY <1>2, <1>6, <2>1, <2>2 DEF OrderInv, LostGone
  <1>10. NoMarkerYet'
    <2>1. \A id : HasMarker(id)' <=> HasMarker(id)
      BY <1>2, QueuedUnchanged DEF HasMarker
    <2>2. ~HasMarker(new)
      BY <1>5 DEF OrderInv, LineOwner, LostGone, HasMarker, Queued, Line
    <2> QED
      BY <1>4, <2>1, <2>2 DEF OrderInv, NoMarkerYet
  <1> QED
    BY <1>6, <1>7, <1>8, <1>9, <1>10 DEF OrderInv

(* The group is created before anything is read (consumer.go:71).           *)
LEMMA OrderSetup ==
    ASSUME OrderInv, FateInv', NEW p \in Proc, EnsureConsumerGroup(p)
    PROVE  OrderInv'
  <1>1. /\ pc[p] = "setup" /\ cur' = cur
        /\ \E k \in {"read", "exited"} : pc' = [pc EXCEPT ![p] = k]
        /\ UNCHANGED <<queue, wpc, hand, handled, lost>>
        /\ CreateGroup \/ UNCHANGED <<group, reads>>
    BY DEF EnsureConsumerGroup, workerVars
  <1>2. Typed /\ Owned
    BY DEF OrderInv, FateInv
  <1>3. \A q \in Proc : pc'[q] \in Busy => pc[q] = pc'[q] /\ pc[q] \in Busy
    BY <1>1, <1>2 DEF Busy, Typed, TypeOK, ProcessTypeOK
  <1>4. CASE reads' = reads
    BY <1>1, <1>3, <1>4, OrderSame
  <1>5. CASE ~group /\ reads' # reads
    <2>1. Len(reads) = 0 /\ \A q \in Proc : pc[q] \notin Busy
      BY <1>2, <1>5, NoElements DEF Owned
    <2>2. lost = {} /\ \A q \in Proc : Line(q) = {}
      BY <2>1 DEF OrderInv, LineOwner, LostGone
    <2>3. \A q \in Proc : LineOK(q)' /\ Line(q)' = Line(q)
      BY <1>1, LineUnchanged DEF OrderInv
    <2>4. Latest' /\ NoMarkerYet'
      BY <1>3, <2>1 DEF Latest, NoMarkerYet
    <2>5. LineOwner' /\ LostGone'
      BY <1>1, <2>2, <2>3 DEF LineOwner, LostGone
    <2> QED
      BY <2>3, <2>4, <2>5 DEF OrderInv
  <1> QED
    BY <1>1, <1>4, <1>5 DEF CreateGroup

(* What a process loses when it ends is in no line, because it ranked above *)
(* all that the process has dispatched (main.go:85-90).                     *)
LEMMA OrderEnd ==
    ASSUME OrderInv, FateInv', NEW p \in Proc, End(p),
           UNCHANGED <<groupVars, dead>>
    PROVE  OrderInv'
  <1>1. Typed /\ ProcessTyped /\ LineOK(p)
    BY TypedProcesses DEF OrderInv, FateInv
  <1>2. /\ lost' = lost \cup Undispatched(p) /\ handled' = handled
        /\ reads' = reads
        /\ queue'[p] = <<>> /\ wpc'[p] = "idle" /\ pc'[p] = "down"
        /\ \A q \in Proc \ {p} : /\ pc'[q] = pc[q] /\ cur'[q] = cur[q]
                                 /\ queue'[q] = queue[q]
                                 /\ wpc'[q] = wpc[q] /\ hand'[q] = hand[q]
    BY <1>1 DEF End, WorkerDone, ProcessTyped, ProcessTypeOK, groupVars
  <1>3. LineOK(p)' /\ Line(p)' = Range(handled[p])
    BY <1>1, <1>2, LineEnd
  <1>4. \A q \in Proc \ {p} : LineOK(q)' /\ Line(q)' = Line(q)
    BY <1>2, LineUnchanged DEF OrderInv
  <1>5. \A q \in Proc : pc'[q] \in Busy => q # p /\ pc[q] = pc'[q] /\ cur[q] = cur'[q]
    BY <1>2 DEF Busy
  <1>6. Latest'
    BY <1>2, <1>5 DEF OrderInv, Latest
  <1>7. LineOwner'
    BY <1>2, <1>3, <1>4 DEF OrderInv, LineOwner, Line
  <1>8. NoMarkerYet'
    <2>1. \A id : HasMarker(id)' <=> HasMarker(id)
      BY <1>1, EndKeeps DEF HasMarker
    <2> QED
      BY <1>5, <2>1 DEF OrderInv, NoMarkerYet
  <1>9. LostGone'
    <2> SUFFICES ASSUME NEW x \in lost'
                 PROVE  /\ x.id \in 1..Len(reads)
                        /\ \A q \in Proc : pc'[q] \in Busy => cur'[q] # x.id
                        /\ \A q \in Proc : \A y \in Line(q)' :
                               ~(y.id = x.id /\ y.marker = x.marker)
      BY <1>2 DEF LostGone
    <2>1. CASE x \in lost
      BY <1>3, <1>4, <1>5, <2>1 DEF OrderInv, LostGone, Line
    <2>2. CASE x \in Undispatched(p)
      <3>1. x.id \in 1..Len(reads) /\ reads[x.id] = p
        BY <2>2 DEF OrderInv, LineOwner, Line
      <3>2. \A q \in Proc : pc'[q] \in Busy => cur'[q] # x.id
        BY <1>5, <3>1 DEF OrderInv, FateInv, Owned
      <3>3. ASSUME NEW q \in Proc, q # p, NEW y \in Line(q)'
            PROVE  y.id # x.id
        BY <1>4, <3>1, <3>3 DEF OrderInv, LineOwner
      <3>4. ASSUME NEW y \in Line(p)'
            PROVE  ~(y.id = x.id /\ y.marker = x.marker)
        <4>1. Rank(y) < Rank(x) /\ y \in Line(p) /\ x \in Line(p)
          BY <1>1, <1>3, <2>2, <3>4 DEF LineOK, OrderedLine, Line
        <4>2. /\ y.id \in Nat /\ y.marker \in BOOLEAN
              /\ x.id \in Nat /\ x.marker \in BOOLEAN
          BY <1>1, <4>1, LineTypes
        <4> QED
          BY <4>1, <4>2, RankFacts
      <3> QED
        BY <3>1, <3>2, <3>3, <3>4
    <2> QED
      BY <1>2, <2>1, <2>2
  <1> QED
    BY <1>3, <1>4, <1>6, <1>7, <1>8, <1>9 DEF OrderInv

(* Every step keeps the order.                                              *)
LEMMA OrderNext == OrderInv /\ [Next]_vars => OrderInv'
  <1> SUFFICES ASSUME OrderInv, [Next]_vars
               PROVE  OrderInv'
    OBVIOUS
  <1>1. Typed /\ ProcessTyped /\ FateInv'
    BY FateNext, TypedProcesses DEF OrderInv, FateInv
  <1>2. pc \in [Proc -> {"down", "setup", "read", "process", "export",
                         "status", "run", "marker", "dead", "ack", "exited"}]
    BY <1>1 DEF ProcessTyped, ProcessTypeOK
  <1>3. ASSUME UNCHANGED <<pc, cur, queue, wpc, hand, handled, lost, reads>>
        PROVE  OrderInv'
    BY <1>1, <1>3, OrderSame
  <1>4. ASSUME NEW p \in Proc, NEW k, pc' = [pc EXCEPT ![p] = k],
               \/ k \notin Busy
               \/ pc[p] \in Busy \ {"ack"} /\ cur' = cur,
               \A q \in Proc \ {p} : cur'[q] = cur[q],
               UNCHANGED <<queue, wpc, hand, handled, lost, reads>>
        PROVE  OrderInv'
    <2>1. \A q \in Proc : pc'[q] \in Busy =>
              /\ pc[q] \in Busy /\ cur'[q] = cur[q]
              /\ pc'[q] # "ack" => pc[q] # "ack"
      BY <1>2, <1>4
    <2> QED
      BY <1>1, <1>4, <2>1, OrderSame
  <1>5. ASSUME NEW r \in Payloads, Produce(r), UNCHANGED <<groupVars, dead>>
        PROVE  OrderInv'
    BY <1>3, <1>5 DEF Produce, consumerVars, workerVars, groupVars
  <1>6. ASSUME NEW rk \in RoutingKey, Expire(rk), UNCHANGED <<groupVars, dead>>
        PROVE  OrderInv'
    BY <1>3, <1>6 DEF Expire, processVars, consumerVars, workerVars, groupVars
  <1>7. ASSUME NEW p \in Proc, Start(p)
        PROVE  OrderInv'
    BY <1>4, <1>7 DEF Start, Begin, Busy, workerVars, groupVars
  <1>8. ASSUME NEW p \in Proc, Ack(p)
        PROVE  OrderInv'
    <2>1. \A q \in Proc \ {p} : cur'[q] = cur[q]
      BY <1>1, <1>8 DEF Ack, Continue, ProcessTyped, ProcessTypeOK
    <2> QED
      BY <1>4, <1>8, <2>1 DEF Ack, Continue, Busy, workerVars
  <1>9. ASSUME NEW p \in Proc, AddDeadLetter(p)
        PROVE  OrderInv'
    BY <1>4, <1>9 DEF AddDeadLetter, Busy, workerVars, groupVars
  <1>10. ASSUME NEW p \in Proc, UNCHANGED <<groupVars, dead>>,
                ConsumerReturn(p) \/ Triage(p) \/ UpdateEventStatus(p)
         PROVE  OrderInv'
    <2>1. CASE ConsumerReturn(p)
      BY <1>4, <1>10, <2>1 DEF ConsumerReturn, Busy, workerVars, groupVars
    <2>2. CASE Triage(p)
      <3>1. \E k : pc' = [pc EXCEPT ![p] = k]
        BY <1>1, <2>2, TriageOutcome DEF ProcessTyped
      <3> QED
        BY <1>4, <1>10, <2>2, <3>1 DEF Triage, Busy, workerVars, groupVars
    <2>3. CASE UpdateEventStatus(p)
      BY <1>4, <1>10, <2>3 DEF UpdateEventStatus, Busy, workerVars, groupVars
    <2> QED
      BY <1>10, <2>1, <2>2, <2>3
  <1>11. ASSUME NEW p \in Proc, UNCHANGED <<groupVars, dead>>,
                RunController(p) \/ SendMarker(p)
         PROVE  OrderInv'
    <2>1. /\ pc[p] \in {"run", "marker"}
          /\ UNCHANGED <<cur, wpc, hand, handled, lost, reads>>
      BY <1>11 DEF RunController, SendMarker, workerVars, groupVars
    <2>2. DataItem(p) \in Item /\ MarkerItem(p) \in Item
      BY <1>1, <2>1, DataItemType
    <2>3. CASE queue' = queue
      <3>1. \E k : pc' = [pc EXCEPT ![p] = k]
        BY <1>11 DEF RunController, SendMarker, ControllerFailed
      <3> QED
        BY <1>4, <2>1, <2>3, <3>1 DEF Busy
    <2>4. CASE RunController(p) /\ queue' # queue
      <3>1. /\ queue' = [queue EXCEPT ![p] = Append(@, DataItem(p))]
            /\ \E k \in {"marker", "ack"} : pc' = [pc EXCEPT ![p] = k]
            /\ pc[p] = "run"
        BY <2>4 DEF RunController
      <3>2. /\ pc'[p] \in {"marker", "ack"}
            /\ \A q \in Proc \ {p} : pc'[q] = pc[q]
        BY <1>2, <3>1
      <3>3. DataItem(p).id = cur[p] /\ DataItem(p).marker = FALSE
        BY DEF DataItem
      <3> QED
        BY <1>1, <2>1, <2>2, <3>1, <3>2, <3>3, OrderPush
    <2>5. CASE SendMarker(p) /\ queue' # queue
      <3>1. /\ queue' = [queue EXCEPT ![p] = Append(@, MarkerItem(p))]
            /\ pc' = [pc EXCEPT ![p] = "ack"]
            /\ pc[p] = "marker"
        BY <2>5 DEF SendMarker
      <3>2. pc'[p] = "ack" /\ \A q \in Proc \ {p} : pc'[q] = pc[q]
        BY <1>2, <3>1
      <3>3. MarkerItem(p).id = cur[p] /\ MarkerItem(p).marker = TRUE
        BY DEF MarkerItem
      <3> QED
        BY <1>1, <2>1, <2>2, <3>1, <3>2, <3>3, OrderPush
    <2> QED
      BY <1>11, <2>3, <2>4, <2>5
  <1>12. ASSUME NEW p \in Proc, Shared(p)
         PROVE  OrderInv'
    <2>1. CASE Signal(p)
      BY <1>3, <1>12, <2>1 DEF Shared, Signal, consumerVars, workerVars, groupVars
    <2> QED
      BY <1>1, <1>10, <1>11, <1>12, <2>1, OrderWorker, OrderEnd
      DEF Shared, ConsumerStep
  <1>13. CASE UNCHANGED vars
    BY <1>3, <1>13 DEF vars, processVars, consumerVars, workerVars, groupVars
  <1> QED
    BY <1>1, <1>5, <1>6, <1>7, <1>8, <1>9, <1>12, <1>13, OrderRead, OrderSetup
    DEF Next, ReadNothing

-----------------------------------------------------------------------------
(* No entry is dispatched by two processes of the group, whatever crashes   *)
(* and restarts: a process dispatches only what was delivered to it         *)
(* (broker.go:50, XREADGROUP).                                              *)
THEOREM NoSharedDispatchHolds == Spec => []NoSharedDispatch
  <1>1. OrderInv => NoSharedDispatch
    <2> SUFFICES ASSUME OrderInv, NEW p \in Proc, NEW q \in Proc,
                        NEW i \in DOMAIN handled[p], NEW j \in DOMAIN handled[q],
                        handled[p][i].id = handled[q][j].id
                 PROVE  p = q
      BY DEF NoSharedDispatch
    <2>1. handled[p][i] \in Line(p) /\ handled[q][j] \in Line(q)
      BY DEF Line, Range
    <2> QED
      BY <2>1 DEF OrderInv, LineOwner
  <1> QED
    BY OrderInit, OrderNext, <1>1, PTL DEF Spec

(* A completion is counted only after the data it completes was handled, by *)
(* the same worker (consumer.go:194, worker.go:95-111).                     *)
THEOREM CompletionAfterDataHolds == Spec => []CompletionAfterData
  <1>1. OrderInv => CompletionAfterData
    <2> SUFFICES ASSUME OrderInv, NEW p \in Proc, NEW i \in DOMAIN handled[p],
                        handled[p][i].marker
                 PROVE  \E j \in 1..(i-1) :
                            /\ handled[p][j].id = handled[p][i].id
                            /\ ~handled[p][j].marker
      BY DEF CompletionAfterData
    <2>1. ProcessTyped /\ LineOK(p)
      BY TypedProcesses DEF OrderInv, FateInv
    <2>2. DOMAIN handled[p] = 1..Len(handled[p]) /\ Len(handled[p]) \in Nat
      BY <2>1, LenProperties DEF ProcessTyped, ProcessTypeOK
    <2>3. handled[p][i] \in Range(handled[p])
      BY DEF Range
    <2>4. PICK j \in DOMAIN handled[p] : /\ handled[p][j].id = handled[p][i].id
                                         /\ ~handled[p][j].marker
      BY <2>1, <2>3 DEF LineOK, DataFirst, Range
    <2>5. handled[p][j] \in Line(p) /\ handled[p][i] \in Line(p)
      BY <2>3 DEF Line, Range
    <2>6. /\ Rank(handled[p][j]) < Rank(handled[p][i])
          /\ Rank(handled[p][j]) \in Nat /\ Rank(handled[p][i]) \in Nat
      BY <2>1, <2>4, <2>5, LineTypes, RankFacts
    <2>7. ~(i < j) /\ i # j
      BY <2>1, <2>2, <2>4, <2>6 DEF LineOK, OrderedLine, Increasing
    <2>8. j \in 1..(i - 1)
      BY <2>2, <2>7
    <2> QED
      BY <2>4, <2>8
  <1> QED
    BY OrderInit, OrderNext, <1>1, PTL DEF Spec

(* Two increasing sequences, the second above the first, are increasing one *)
(* after the other.                                                         *)
LEMMA IncreasingConcat ==
    ASSUME NEW s \in Seq(Nat), NEW t \in Seq(Nat),
           \A i, j \in 1..Len(s) : i < j => s[i] < s[j],
           \A i, j \in 1..Len(t) : i < j => t[i] < t[j],
           \A i \in 1..Len(s), j \in 1..Len(t) : s[i] < t[j],
           NEW i \in DOMAIN (s \o t), NEW j \in DOMAIN (s \o t), i < j
    PROVE  (s \o t)[i] < (s \o t)[j]
  <1>1. /\ s \o t \in Seq(Nat)
        /\ Len(s \o t) = Len(s) + Len(t)
        /\ \A k \in 1..Len(s) + Len(t) :
               (s \o t)[k] = IF k <= Len(s) THEN s[k] ELSE t[k - Len(s)]
        /\ Len(s) \in Nat /\ Len(t) \in Nat
    BY ConcatProperties
  <1>2. i \in 1..(Len(s) + Len(t)) /\ j \in 1..(Len(s) + Len(t))
    BY <1>1, LenProperties
  <1>3. /\ (s \o t)[i] = IF i <= Len(s) THEN s[i] ELSE t[i - Len(s)]
        /\ (s \o t)[j] = IF j <= Len(s) THEN s[j] ELSE t[j - Len(s)]
    BY <1>1, <1>2
  <1>4. CASE j <= Len(s)
    BY <1>1, <1>2, <1>3, <1>4
  <1>5. CASE j > Len(s) /\ i <= Len(s)
    <2>1. i \in 1..Len(s) /\ j - Len(s) \in 1..Len(t)
      BY <1>1, <1>2, <1>5
    <2> QED
      BY <1>1, <1>2, <1>3, <1>5, <2>1
  <1>6. CASE i > Len(s)
    <2>1. /\ i - Len(s) \in 1..Len(t) /\ j - Len(s) \in 1..Len(t)
          /\ i - Len(s) < j - Len(s)
      BY <1>1, <1>2, <1>6
    <2> QED
      BY <1>1, <1>2, <1>3, <1>6, <2>1
  <1> QED
    BY <1>1, <1>2, <1>4, <1>5, <1>6

(* The pipeline of a process is what it has still to dispatch, in order.    *)
LEMMA PipelineFacts ==
    ASSUME ProcessTyped, NEW p \in Proc, LineOK(p)
    PROVE  /\ Pipeline(p) \in Seq(Item)
           /\ Increasing(Pipeline(p))
           /\ Range(Pipeline(p)) = Undispatched(p)
  <1>1. /\ queue[p] \in Seq(Item) /\ Len(queue[p]) \in Nat
        /\ DOMAIN queue[p] = 1..Len(queue[p])
        /\ wpc[p] = "handle" => hand[p] \in Item
    BY LenProperties DEF ProcessTyped, ProcessTypeOK
  <1>2. CASE wpc[p] # "handle"
    <2>1. Pipeline(p) = queue[p]
      BY <1>1, <1>2, ConcatEmptySeq DEF Pipeline
    <2> QED
      BY <1>1, <1>2, <2>1 DEF LineOK, OrderedLine, Undispatched
  <1>3. CASE wpc[p] = "handle"
    <2> DEFINE s == <<hand[p]>> \o queue[p]
    <2>1. /\ s \in Seq(Item) /\ Len(s) = 1 + Len(queue[p])
          /\ s[1] = hand[p]
          /\ \A k \in 1..Len(queue[p]) : s[k + 1] = queue[p][k]
      BY <1>1, <1>3
    <2>2. Pipeline(p) = s
      BY <1>3 DEF Pipeline
    <2> HIDE DEF s
    <2>3. DOMAIN s = 1..(1 + Len(queue[p]))
      BY <2>1, LenProperties
    <2>4. \A k \in 1..(1 + Len(queue[p])) :
              \/ k = 1
              \/ k - 1 \in 1..Len(queue[p]) /\ s[k] = queue[p][k - 1]
      <3> SUFFICES ASSUME NEW k \in 1..(1 + Len(queue[p])), k # 1
                   PROVE  k - 1 \in 1..Len(queue[p]) /\ s[k] = queue[p][k - 1]
        OBVIOUS
      <3>1. k - 1 \in 1..Len(queue[p]) /\ (k - 1) + 1 = k
        BY <1>1
      <3> QED
        BY <2>1, <3>1
    <2>5. Range(s) = Range(queue[p]) \cup {hand[p]}
      <3>1. \A x \in Range(s) : x \in Range(queue[p]) \cup {hand[p]}
        <4> SUFFICES ASSUME NEW k \in 1..(1 + Len(queue[p]))
                     PROVE  s[k] \in Range(queue[p]) \cup {hand[p]}
          BY <2>3 DEF Range
        <4>1. \/ s[k] = hand[p]
              \/ k - 1 \in 1..Len(queue[p]) /\ s[k] = queue[p][k - 1]
          BY <2>1, <2>4
        <4> QED
          BY <1>1, <4>1 DEF Range
      <3>2. \A k \in 1..Len(queue[p]) : k + 1 \in 1..(1 + Len(queue[p]))
        BY <1>1
      <3>3. 1 \in 1..(1 + Len(queue[p]))
        BY <1>1
      <3>4. \A x \in Range(queue[p]) \cup {hand[p]} : x \in Range(s)
        <4>1. hand[p] \in Range(s)
          BY <2>1, <2>3, <3>3 DEF Range
        <4>2. \A k \in 1..Len(queue[p]) : queue[p][k] \in Range(s)
          BY <2>1, <2>3, <3>2 DEF Range
        <4> QED
          BY <1>1, <4>1, <4>2 DEF Range
      <3> QED
        BY <3>1, <3>4
    <2>6. Increasing(s)
      <3> SUFFICES ASSUME NEW i \in 1..(1 + Len(queue[p])),
                          NEW j \in 1..(1 + Len(queue[p])), i < j
                   PROVE  Rank(s[i]) < Rank(s[j])
        BY <2>1 DEF Increasing
      <3>1. j - 1 \in 1..Len(queue[p]) /\ s[j] = queue[p][j - 1]
        BY <1>1, <2>4
      <3>2. CASE i = 1
        <4>1. s[j] \in Range(queue[p])
          BY <1>1, <3>1 DEF Range
        <4> QED
          BY <1>3, <2>1, <3>2, <4>1 DEF LineOK, OrderedLine
      <3>3. CASE i # 1
        <4>1. /\ i - 1 \in 1..Len(queue[p]) /\ s[i] = queue[p][i - 1]
              /\ i - 1 < j - 1
          BY <1>1, <2>4, <3>3
        <4> QED
          BY <3>1, <4>1 DEF LineOK, OrderedLine, Increasing
      <3> QED
        BY <3>2, <3>3
    <2> QED
      BY <1>3, <2>1, <2>2, <2>5, <2>6 DEF Undispatched
  <1> QED
    BY <1>2, <1>3

(* Each process dispatches in the order of delivery, and nothing twice,     *)
(* across restarts too (worker.go:46-58, and the sender queue).             *)
THEOREM FifoOncePerProcessHolds == Spec => []FifoOncePerProcess
  <1>1. OrderInv => FifoOncePerProcess
    <2> SUFFICES ASSUME OrderInv, NEW p \in Proc
                 PROVE  LET done == [i \in DOMAIN handled[p] |->
                                        Rank(handled[p][i])]
                            todo == [i \in DOMAIN Pipeline(p) |->
                                        Rank(Pipeline(p)[i])]
                            all  == done \o todo
                        IN  \A i, j \in DOMAIN all : i < j => all[i] < all[j]
      BY DEF FifoOncePerProcess
    <2> DEFINE h == handled[p]
               s == Pipeline(p)
               done == [i \in DOMAIN h |-> Rank(h[i])]
               todo == [i \in DOMAIN s |-> Rank(s[i])]
    <2>1. ProcessTyped /\ LineOK(p)
      BY TypedProcesses DEF OrderInv, FateInv
    <2>2. /\ h \in Seq(Dispatch) /\ Len(h) \in Nat /\ DOMAIN h = 1..Len(h)
          /\ s \in Seq(Item) /\ Len(s) \in Nat /\ DOMAIN s = 1..Len(s)
          /\ Increasing(h) /\ Increasing(s) /\ Range(s) = Undispatched(p)
      BY <2>1, PipelineFacts, LenProperties
      DEF ProcessTyped, ProcessTypeOK, LineOK, OrderedLine
    <2>3. \A i \in 1..Len(h) : h[i] \in Range(handled[p]) /\ Rank(h[i]) \in Nat
      <3>1. \A i \in 1..Len(h) : h[i] \in Range(handled[p])
        BY <2>2 DEF Range
      <3> QED
        BY <2>1, <3>1, LineTypes, RankFacts DEF Line
    <2>4. \A i \in 1..Len(s) : s[i] \in Undispatched(p) /\ Rank(s[i]) \in Nat
      <3>1. \A i \in 1..Len(s) : s[i] \in Range(s)
        BY <2>2 DEF Range
      <3> QED
        BY <2>1, <2>2, <3>1, LineTypes, RankFacts DEF Line
    <2>5. \A i \in 1..Len(h), j \in 1..Len(s) : Rank(h[i]) < Rank(s[j])
      BY <2>1, <2>3, <2>4 DEF LineOK, OrderedLine
    <2> HIDE DEF h, s
    <2>6. /\ done \in Seq(Nat) /\ Len(done) = Len(h)
          /\ \A i \in 1..Len(h) : done[i] = Rank(h[i])
      BY <2>2, <2>3
    <2>7. /\ todo \in Seq(Nat) /\ Len(todo) = Len(s)
          /\ \A i \in 1..Len(s) : todo[i] = Rank(s[i])
      BY <2>2, <2>4
    <2> HIDE DEF done, todo
    <2>8. \A i, j \in DOMAIN (done \o todo) :
              i < j => (done \o todo)[i] < (done \o todo)[j]
      <3>1. /\ \A i, j \in 1..Len(done) : i < j => done[i] < done[j]
            /\ \A i, j \in 1..Len(todo) : i < j => todo[i] < todo[j]
        BY <2>2, <2>6, <2>7 DEF Increasing
      <3>2. \A i \in 1..Len(done), j \in 1..Len(todo) : done[i] < todo[j]
        BY <2>5, <2>6, <2>7
      <3> QED
        BY <2>6, <2>7, <3>1, <3>2, IncreasingConcat
    <2> QED
      BY <2>8 DEF done, todo, h, s
  <1> QED
    BY OrderInit, OrderNext, <1>1, PTL DEF Spec


-----------------------------------------------------------------------------
(* Batches: what the completion counts and the status say.                  *)

\* A marker belongs to an API request of the batch that it is counted for.
MarkerKeys ==
    \A p \in Proc : \A x \in Line(p) : x.marker => x.id \in Batch(x.rk)

\* How many entries were counted for each batch.  The count of a buffer, and
\* the one a worker still has in hand, were reached by different markers,
\* however often the buffer expired since.
Numbers == [rk \in RoutingKey |-> Cardinality(Counted(rk))]

BatchInv == OrderInv /\ ReplayInv /\ MarkerKeys /\ Tally(Numbers)

\* The entries whose markers p has counted for rk.
CountedBy(p, rk) ==
    {d.id : d \in {x \in Range(handled[p]) : x.marker /\ x.ok /\ x.rk = rk}}

CountedMeans ==
    \A rk, id : id \in Counted(rk) <=>
                   \E p \in Proc : \E x \in Range(handled[p]) :
                       x.marker /\ x.ok /\ x.rk = rk /\ x.id = id

(* Counted in terms of its elements.                                        *)
LEMMA CountedIs == CountedMeans
  <1> SUFFICES ASSUME NEW rk, NEW id
               PROVE  id \in Counted(rk) <=>
                          \E p \in Proc : \E x \in Range(handled[p]) :
                              x.marker /\ x.ok /\ x.rk = rk /\ x.id = id
    BY DEF CountedMeans
  <1>1. Counted(rk) = UNION {CountedBy(p, rk) : p \in Proc}
    BY DEF Counted, CountedBy
  <1>2. id \in UNION {CountedBy(p, rk) : p \in Proc}
            <=> \E p \in Proc : id \in CountedBy(p, rk)
    BY Zenon
  <1>3. \A p : id \in CountedBy(p, rk) <=>
                   \E x \in Range(handled[p]) :
                       x.marker /\ x.ok /\ x.rk = rk /\ x.id = id
    BY DEF CountedBy
  <1> QED
    BY <1>1, <1>2, <1>3

FiniteBatches ==
    \A rk : /\ Counted(rk) \subseteq Batch(rk)
            /\ IsFiniteSet(Batch(rk))
            /\ IsFiniteSet(Counted(rk))
            /\ Cardinality(Counted(rk)) \in Nat
            /\ Cardinality(Batch(rk)) \in Nat

(* Only requests of a batch are counted for it, so the count is finite.     *)
LEMMA CountedInBatch == Typed /\ MarkerKeys => FiniteBatches
  <1> SUFFICES ASSUME Typed, MarkerKeys, NEW rk
               PROVE  /\ Counted(rk) \subseteq Batch(rk)
                      /\ IsFiniteSet(Batch(rk))
                      /\ IsFiniteSet(Counted(rk))
                      /\ Cardinality(Counted(rk)) \in Nat
                      /\ Cardinality(Batch(rk)) \in Nat
    BY DEF FiniteBatches
  <1>1. Counted(rk) \subseteq Batch(rk)
    <2> SUFFICES ASSUME NEW id \in Counted(rk) PROVE id \in Batch(rk)
      OBVIOUS
    <2>1. PICK p \in Proc : \E x \in Range(handled[p]) :
              x.marker /\ x.ok /\ x.rk = rk /\ x.id = id
      BY CountedIs DEF CountedMeans
    <2> QED
      BY <2>1 DEF MarkerKeys, Line
  <1>2. IsFiniteSet(Batch(rk))
    <2>1. Len(input) \in Nat
      BY LenProperties DEF Typed, TypeOK, ProcessTypeOK
    <2>2. IsFiniteSet(1..Len(input))
      BY <2>1, FS_Interval
    <2>3. Batch(rk) \subseteq 1..Len(input)
      BY DEF Batch
    <2> QED
      BY <2>2, <2>3, FS_Subset
  <1>3. IsFiniteSet(Counted(rk))
    BY <1>1, <1>2, FS_Subset
  <1> QED
    BY <1>1, <1>2, <1>3, FS_CardinalityType

(* A step that counts nothing, or one marker more.                          *)
LEMMA CountedGrows ==
    ASSUME Typed, Typed', MarkerKeys, MarkerKeys',
           \A p \in Proc : Range(handled[p]) \subseteq Range(handled'[p]),
           NEW rk
    PROVE  /\ Counted(rk) \subseteq Counted(rk)'
           /\ Cardinality(Counted(rk)) <= Cardinality(Counted(rk)')
           /\ IsFiniteSet(Counted(rk)') /\ Cardinality(Counted(rk)') \in Nat
  <1>1. \A id : id \in Counted(rk)' <=>
               \E p \in Proc : \E x \in Range(handled'[p]) :
                   x.marker /\ x.ok /\ x.rk = rk /\ x.id = id
    <2>1. CountedMeans'
      BY CountedIs, PTL
    <2> QED
      BY <2>1 DEF CountedMeans
  <1>2. Counted(rk) \subseteq Counted(rk)'
    BY <1>1, CountedIs DEF CountedMeans
  <1>3. IsFiniteSet(Counted(rk)')
    <2>1. Typed' /\ MarkerKeys' => FiniteBatches'
      BY CountedInBatch, PTL
    <2> QED
      BY <2>1 DEF FiniteBatches
  <1> QED
    BY <1>2, <1>3, FS_Subset, FS_CardinalityType


\* A step that adds no marker to a line.
LEMMA MarkersKept ==
    ASSUME Typed, MarkerKeys, Len(input) <= Len(input'), Len(input') \in Nat,
           \A i \in 1..Len(input) : input'[i] = input[i],
           \A p \in Proc : \A x \in Line(p)' : x.marker =>
               \E y \in Line(p) : y.marker /\ y.id = x.id /\ y.rk = x.rk
    PROVE  MarkerKeys'
  <1>1. Len(input) \in Nat
    BY LenProperties DEF Typed, TypeOK, ProcessTypeOK
  <1>2. \A rk : Batch(rk) \subseteq Batch(rk)'
    BY <1>1 DEF Batch
  <1> QED
    BY <1>2 DEF MarkerKeys

(* A marker is queued for the API request that the process holds, under its *)
(* own routing key.                                                         *)
LEMMA MarkerNext ==
    OrderInv /\ ReplayInv /\ MarkerKeys /\ [Next]_vars => MarkerKeys'
  <1> SUFFICES ASSUME OrderInv, ReplayInv, MarkerKeys, [Next]_vars
               PROVE  MarkerKeys'
    OBVIOUS
  <1>1. Typed /\ ProcessTyped /\ FateInv
    BY TypedProcesses DEF ReplayInv, FateInv
  <1>2. /\ input \in Seq(Request) /\ Len(input) \in Nat
        /\ queue \in [Proc -> Seq(Item)] /\ handled \in [Proc -> Seq(Dispatch)]
        /\ wpc \in [Proc -> {"idle", "handle", "meta", "set", "exited"}]
    BY <1>1, LenProperties DEF ProcessTyped, ProcessTypeOK
  <1>3. ASSUME input' = input, \A p \in Proc : Line(p)' \subseteq Line(p)
        PROVE  MarkerKeys'
    BY <1>1, <1>2, <1>3, MarkersKept
  <1>4. ASSUME UNCHANGED <<input, queue, wpc, hand, handled>>
        PROVE  MarkerKeys'
    <2>1. \A p \in Proc : Line(p)' = Line(p)
      BY <1>4, LineUnchanged
    <2> QED
      BY <1>3, <1>4, <2>1
  <1>5. ASSUME NEW r \in Payloads, Produce(r)
        PROVE  MarkerKeys'
    <2>1. r \in Request
      BY ProcessAssumption
    <2>2. /\ Len(input') = Len(input) + 1
          /\ \A i \in 1..Len(input) : input'[i] = input[i]
      BY <1>2, <1>5, <2>1, AppendProperties DEF Produce
    <2>3. \A p \in Proc : Line(p)' = Line(p)
      BY <1>5, LineUnchanged DEF Produce, workerVars
    <2> QED
      BY <1>1, <1>2, <2>2, <2>3, MarkersKept
  <1>6. ASSUME NEW p \in Proc, RunController(p) \/ SendMarker(p)
        PROVE  MarkerKeys'
    <2>1. /\ pc[p] \in {"run", "marker"} /\ input' = input
          /\ UNCHANGED <<wpc, hand, handled>>
      BY <1>6 DEF RunController, SendMarker, workerVars
    <2>2. DataItem(p) \in Item /\ MarkerItem(p) \in Item
      BY <1>1, <2>1, DataItemType
    <2>3. CASE queue' = queue
      BY <1>4, <2>1, <2>3
    <2>4. ASSUME NEW it \in Item, queue' = [queue EXCEPT ![p] = Append(@, it)],
                 it.marker => it.id \in Batch(it.rk)
          PROVE  MarkerKeys'
      <3>1. \A q \in Proc \ {p} : Line(q)' = Line(q)
        BY <1>2, <2>1, <2>4, LineUnchanged
      <3>2. Line(p)' = Line(p) \cup {it}
        <4>1. queue'[p] = Append(queue[p], it)
          BY <1>2, <2>4
        <4>2. Range(queue'[p]) = Range(queue[p]) \cup {it}
          BY <1>2, <4>1, RangeOfAppend
        <4> QED
          BY <2>1, <4>2 DEF Line, Undispatched
      <3>3. \A rk : Batch(rk)' = Batch(rk)
        BY <2>1 DEF Batch
      <3> QED
        BY <2>4, <3>1, <3>2, <3>3 DEF MarkerKeys
    <2>5. CASE RunController(p) /\ queue' # queue
      <3>1. queue' = [queue EXCEPT ![p] = Append(@, DataItem(p))]
        BY <2>5 DEF RunController
      <3>2. ~DataItem(p).marker
        BY DEF DataItem
      <3> QED
        BY <2>2, <2>4, <3>1, <3>2
    <2>6. CASE SendMarker(p) /\ queue' # queue
      <3>1. /\ queue' = [queue EXCEPT ![p] = Append(@, MarkerItem(p))]
            /\ pc[p] = "marker"
        BY <2>6 DEF SendMarker
      <3>2. /\ incoming[p] = Enriched(input[cur[p]])
            /\ Buffered(input[cur[p]])
        BY <3>1 DEF ReplayInv, CarriedOf
      <3>3. cur[p] \in 1..Len(input) /\ input[cur[p]] \in Request
        BY <1>1, <3>1, CurIsEntry DEF Busy
      <3>4. cur[p] \in Batch(incoming[p].RoutingKey)
        BY <3>2, <3>3, EnrichedType DEF Buffered, Batch
      <3>5. MarkerItem(p).id = cur[p] /\ MarkerItem(p).rk = incoming[p].RoutingKey
        BY DEF MarkerItem
      <3> QED
        BY <2>2, <2>4, <3>1, <3>4, <3>5
    <2> QED
      BY <1>6, <2>3, <2>5, <2>6
  <1>7. ASSUME NEW p \in Proc, WorkerStep(p) \/ WorkerReturn(p)
        PROVE  MarkerKeys'
    <2>1. /\ input' = input
          /\ \A q \in Proc \ {p} : wpc'[q] = wpc[q] /\ hand'[q] = hand[q]
          /\ Takes(p) \/ (\E d \in Dispatch : Dispatches(p, d)) \/ Rests(p)
      BY <1>1, <1>7, WorkerMoves
    <2>2. \A q \in Proc \ {p} : queue'[q] = queue[q] /\ handled'[q] = handled[q]
      BY <1>2, <2>1 DEF Takes, Dispatches, Rests
    <2>3. \A q \in Proc \ {p} : Line(q)' = Line(q)
      BY <2>1, <2>2, LineUnchanged
    <2>4. LineOK(p)
      BY DEF OrderInv
    <2>5. CASE Takes(p)
      BY <1>1, <1>3, <2>1, <2>3, <2>4, <2>5, LineTakes
    <2>6. CASE Rests(p)
      BY <1>3, <2>1, <2>3, <2>6, LineUnchanged DEF Rests
    <2>7. ASSUME NEW d \in Dispatch, Dispatches(p, d)
          PROVE  MarkerKeys'
      <3>1. handled'[p] = Append(handled[p], d)
        BY <1>2, <2>7 DEF Dispatches
      <3>2. Range(handled'[p]) = Range(handled[p]) \cup {d}
        BY <1>2, <3>1, RangeOfAppend
      <3>3. Line(p)' \subseteq Line(p) \cup {d} /\ hand[p] \in Line(p)
        BY <2>7, <3>2 DEF Line, Undispatched, Dispatches
      <3>4. d.marker => hand[p].marker /\ hand[p].id = d.id /\ hand[p].rk = d.rk
        BY <2>7 DEF Dispatches
      <3>5. \A q \in Proc : \A x \in Line(q)' : x.marker =>
                \E y \in Line(q) : y.marker /\ y.id = x.id /\ y.rk = x.rk
        BY <2>3, <3>3, <3>4
      <3> QED
        BY <1>1, <1>2, <2>1, <3>5, MarkersKept
    <2> QED
      BY <2>1, <2>5, <2>6, <2>7
  <1>8. ASSUME NEW p \in Proc, End(p)
        PROVE  MarkerKeys'
    <2>1. /\ input' = input /\ handled' = handled
          /\ queue'[p] = <<>> /\ wpc'[p] = "idle"
          /\ \A q \in Proc \ {p} : /\ queue'[q] = queue[q]
                                   /\ wpc'[q] = wpc[q] /\ hand'[q] = hand[q]
      BY <1>1, <1>8 DEF End, WorkerDone, ProcessTyped, ProcessTypeOK
    <2>2. LineOK(p)
      BY DEF OrderInv
    <2>3. Line(p)' \subseteq Line(p)
      BY <2>1, <2>2, LineEnd DEF Line
    <2>4. \A q \in Proc \ {p} : Line(q)' = Line(q)
      BY <2>1, LineUnchanged
    <2> QED
      BY <1>3, <2>1, <2>3, <2>4
  <1>9. ASSUME NEW p \in Proc, Shared(p)
        PROVE  MarkerKeys'
    <2>1. CASE Triage(p) \/ UpdateEventStatus(p) \/ ConsumerReturn(p) \/ Signal(p)
      BY <1>4, <2>1
      DEF Triage, UpdateEventStatus, ConsumerReturn, Signal, workerVars
    <2> QED
      BY <1>6, <1>7, <1>8, <1>9, <2>1 DEF Shared, ConsumerStep
  <1>10. ASSUME NEW p \in Proc,
                \/ Start(p) \/ EnsureConsumerGroup(p) \/ ReadGroup(p)
                \/ Ack(p) \/ AddDeadLetter(p)
         PROVE  MarkerKeys'
    BY <1>4, <1>10 DEF Start, Begin, EnsureConsumerGroup, ReadGroup, Ack,
                       AddDeadLetter, workerVars
  <1>11. CASE UNCHANGED processVars
    BY <1>4, <1>11 DEF processVars, workerVars
  <1> QED
    BY <1>5, <1>9, <1>10, <1>11 DEF Next, ReadNothing, Expire, vars


(* Two steps of IncrementCompletion never count the same marker: the marker *)
(* a worker holds raises the number of entries counted.                     *)
LEMMA CountedOnce ==
    ASSUME BatchInv, Typed', MarkerKeys', NEW p \in Proc, NEW d \in Dispatch,
           wpc[p] = "handle", hand[p].marker,
           d.id = hand[p].id, d.marker, d.ok, d.rk = hand[p].rk,
           handled' = [handled EXCEPT ![p] = Append(@, d)]
    PROVE  /\ \A q \in Proc : Range(handled[q]) \subseteq Range(handled'[q])
           /\ Cardinality(Counted(d.rk)') = Cardinality(Counted(d.rk)) + 1
  <1>1. Typed /\ ProcessTyped /\ OrderInv /\ MarkerKeys
    BY TypedProcesses DEF BatchInv, ReplayInv, FateInv
  <1>2. handled \in [Proc -> Seq(Dispatch)]
    BY <1>1 DEF Typed, TypeOK, ProcessTypeOK
  <1>3. /\ Range(handled'[p]) = Range(handled[p]) \cup {d}
        /\ \A q \in Proc \ {p} : handled'[q] = handled[q]
    <2>1. handled'[p] = Append(handled[p], d)
      BY <1>2
    <2>2. Range(handled'[p]) = Range(handled[p]) \cup {d}
      BY <1>2, <2>1, RangeOfAppend
    <2> QED
      BY <1>2, <2>2
  <1>4. hand[p] \in Line(p) /\ hand[p] \in Undispatched(p)
    BY DEF Line, Undispatched
  <1> DEFINE rk == d.rk
  <1>5. d.id \notin Counted(rk)
    <2> SUFFICES ASSUME d.id \in Counted(rk) PROVE FALSE
      OBVIOUS
    <2>1. PICK q \in Proc : \E x \in Range(handled[q]) :
              x.marker /\ x.ok /\ x.rk = rk /\ x.id = d.id
      BY CountedIs DEF CountedMeans
    <2>2. PICK x \in Range(handled[q]) : x.marker /\ x.id = d.id
      BY <2>1
    <2>3. x \in Line(q)
      BY DEF Line
    <2>4. q = p
      BY <1>1, <1>4, <2>2, <2>3 DEF OrderInv, LineOwner
    <2>5. Rank(x) < Rank(hand[p])
      BY <1>1, <1>4, <2>4 DEF OrderInv, LineOK, OrderedLine
    <2>6. /\ x.id \in Nat /\ x.marker \in BOOLEAN
          /\ hand[p].id \in Nat /\ hand[p].marker \in BOOLEAN
      BY <1>1, <1>4, <2>3, <2>4, LineTypes
    <2>7. x.marker = hand[p].marker
      BY <2>2, <2>6
    <2>8. Rank(x) = Rank(hand[p]) /\ Rank(x) \in Nat
      BY <2>2, <2>6, <2>7, RankFacts
    <2> QED
      BY <2>5, <2>8
  <1>6. Counted(rk)' = Counted(rk) \cup {d.id}
    <2>1. \A id : id \in Counted(rk)' <=>
               \E q \in Proc : \E x \in Range(handled'[q]) :
                   x.marker /\ x.ok /\ x.rk = rk /\ x.id = id
      <3>1. CountedMeans'
        BY CountedIs, PTL
      <3> QED
        BY <3>1 DEF CountedMeans
    <2>2. \A id : id \in Counted(rk) <=>
               \E q \in Proc : \E x \in Range(handled[q]) :
                   x.marker /\ x.ok /\ x.rk = rk /\ x.id = id
      BY CountedIs DEF CountedMeans
    <2>3. \A id : id \in Counted(rk)' <=> id \in Counted(rk) \/ id = d.id
      <3> SUFFICES ASSUME NEW id
                   PROVE  id \in Counted(rk)' <=> id \in Counted(rk) \/ id = d.id
        OBVIOUS
      <3>1. id \in Counted(rk)' => id \in Counted(rk) \/ id = d.id
        <4> SUFFICES ASSUME id \in Counted(rk)'
                     PROVE  id \in Counted(rk) \/ id = d.id
          OBVIOUS
        <4>1. PICK q \in Proc : \E x \in Range(handled'[q]) :
                   x.marker /\ x.ok /\ x.rk = rk /\ x.id = id
          BY <2>1
        <4>2. PICK x \in Range(handled'[q]) :
                   x.marker /\ x.ok /\ x.rk = rk /\ x.id = id
          BY <4>1
        <4>3. x \in Range(handled[q]) \/ x = d
          BY <1>3
        <4> QED
          BY <2>2, <4>2, <4>3
      <3>2. id \in Counted(rk) => id \in Counted(rk)'
        BY <1>3, <2>1, <2>2
      <3>3. d.id \in Counted(rk)'
        BY <1>3, <2>1
      <3> QED
        BY <3>1, <3>2, <3>3
    <2> QED
      BY <2>3
  <1>7. IsFiniteSet(Counted(rk))
    BY <1>1, CountedInBatch DEF FiniteBatches
  <1> HIDE DEF rk
  <1>8. Cardinality(Counted(rk)') = Cardinality(Counted(rk)) + 1
    BY <1>5, <1>6, <1>7, FS_AddElement
  <1> QED
    BY <1>3, <1>8 DEF rk

(* The numbers of a batch, and what they mean for its status.               *)
LEMMA BatchNumbers ==
    ASSUME Typed, MarkerKeys
    PROVE  /\ Numbers \in [RoutingKey -> Nat]
           /\ Tally(Numbers) => BufferedIsComplete
  <1>1. \A rk \in RoutingKey : Cardinality(Counted(rk)) \in Nat
    BY CountedInBatch DEF FiniteBatches
  <1> QED
    BY <1>1 DEF Numbers, Tally, BufferedIsComplete

(* Nothing is counted in the beginning.                                     *)
LEMMA BatchInit == Init => BatchInv
  <1> SUFFICES ASSUME Init PROVE BatchInv
    OBVIOUS
  <1>1. OrderInv /\ ReplayInv
    BY OrderInit, ReplayInit
  <1>2. MarkerKeys
    <2>1. \A p \in Proc : /\ handled[p] = <<>> /\ queue[p] = <<>>
                          /\ wpc[p] = "idle"
      BY DEF Init, ProcessInit
    <2>2. \A p \in Proc : Line(p) = {}
      BY <2>1, RangeOfEmpty DEF Line, Undispatched
    <2> QED
      BY <2>2 DEF MarkerKeys
  <1>3. Numbers \in [RoutingKey -> Nat]
    BY <1>1, <1>2, BatchNumbers DEF OrderInv, FateInv
  <1>4. Tally(Numbers)
    BY <1>3, TallyInit DEF Init
  <1> QED
    BY <1>1, <1>2, <1>4 DEF BatchInv

(* What is counted grows by the marker whose HINCRBY takes effect, and is   *)
(* never taken back.                                                        *)
LEMMA BatchNext == BatchInv /\ [Next]_vars => BatchInv'
  <1> SUFFICES ASSUME BatchInv, [Next]_vars PROVE BatchInv'
    OBVIOUS
  <1>1. OrderInv' /\ ReplayInv' /\ MarkerKeys'
    BY OrderNext, ReplayNext, MarkerNext DEF BatchInv
  <1>2. Typed /\ Typed' /\ MarkerKeys
    BY <1>1 DEF BatchInv, ReplayInv, FateInv
  <1>3. ProcessTyped /\ ProcessTyped'
    <2>1. Typed' => ProcessTyped'
      BY TypedProcesses, PTL
    <2> QED
      BY <1>2, <2>1, TypedProcesses
  <1>4. PICK N : N = Numbers
    OBVIOUS
  <1>5. PICK M : M = Numbers'
    OBVIOUS
  <1>6. N \in [RoutingKey -> Nat] /\ Tally(N)
    BY <1>2, <1>4, BatchNumbers DEF BatchInv
  <1>7. M \in [RoutingKey -> Nat]
    <2>1. (Typed /\ MarkerKeys => Numbers \in [RoutingKey -> Nat])'
      BY BatchNumbers, PTL
    <2> QED
      BY <1>1, <1>2, <1>5, <2>1
  <1>8. \A rk \in RoutingKey : /\ N[rk] = Cardinality(Counted(rk))
                               /\ M[rk] = Cardinality(Counted(rk)')
    BY <1>4, <1>5 DEF Numbers
  <1>9. ASSUME \A q \in Proc : Range(handled[q]) \subseteq Range(handled'[q])
        PROVE  NoLess(N, M)
    <2>1. \A rk : Cardinality(Counted(rk)) <= Cardinality(Counted(rk)')
      BY <1>1, <1>2, <1>9, CountedGrows
    <2> QED
      BY <1>6, <1>7, <1>8, <2>1 DEF NoLess
  <1>10. Tally(M)' => BatchInv'
    BY <1>1, <1>5 DEF BatchInv, Tally
  <1>11. ASSUME \/ UNCHANGED <<workerVars, backendVars>>
                \/ \E rk \in RoutingKey : Expire(rk)
                \/ \E p \in Proc : \/ ConsumerStep(p) \/ ConsumerReturn(p)
                                   \/ Signal(p) \/ End(p)
         PROVE  BatchInv'
    <2>1. NoLess(N, M)
      BY <1>9, <1>11, HandledKept
    <2> QED
      BY <1>3, <1>6, <1>10, <1>11, <2>1, TallyOther
  <1>12. ASSUME NEW p \in Proc, WorkerStep(p) \/ WorkerReturn(p)
         PROVE  BatchInv'
    <2>1. NoLess(N, M)
      BY <1>3, <1>9, <1>12, HandledGrows
    <2>2. IncrementCompletion(p) /\ buffer' # buffer =>
              N[hand[p].rk] < M[hand[p].rk]
      <3> SUFFICES ASSUME IncrementCompletion(p), buffer' # buffer
                   PROVE  N[hand[p].rk] < M[hand[p].rk]
        OBVIOUS
      <3>1. PICK d \in Dispatch :
                /\ d.id = hand[p].id /\ d.marker /\ d.ok /\ d.rk = hand[p].rk
                /\ handled' = [handled EXCEPT ![p] = Append(@, d)]
                /\ wpc[p] = "handle" /\ hand[p].marker
                /\ d.rk \in RoutingKey
        BY <1>3, CountedMarker
      <3>2. Cardinality(Counted(d.rk)') = Cardinality(Counted(d.rk)) + 1
        BY <1>1, <1>2, <3>1, CountedOnce
      <3> QED
        BY <1>6, <1>7, <1>8, <3>1, <3>2
    <2> QED
      BY <1>3, <1>6, <1>10, <1>12, <2>1, <2>2, TallyWorker
  <1>13. CASE UNCHANGED vars
    BY <1>11, <1>13 DEF vars, processVars
  <1>14. ASSUME NEW r \in Payloads, Produce(r)
         PROVE  BatchInv'
    BY <1>11, <1>14 DEF Produce
  <1>15. ASSUME NEW p \in Proc, Shared(p)
         PROVE  BatchInv'
    BY <1>11, <1>12, <1>15 DEF Shared
  <1>16. ASSUME NEW p \in Proc,
                \/ Start(p) \/ EnsureConsumerGroup(p) \/ ReadGroup(p)
                \/ Ack(p) \/ AddDeadLetter(p)
         PROVE  BatchInv'
    BY <1>11, <1>16 DEF Start, Begin, EnsureConsumerGroup, ReadGroup, Ack,
                        AddDeadLetter
  <1> QED
    BY <1>11, <1>13, <1>14, <1>15, <1>16 DEF Next, ReadNothing

(* BufferedIsComplete holds: whatever the interleaving of several workers'  *)
(* HINCRBY, HGET and SET, with expiring keys, failing calls and crashes,    *)
(* the status BUFFERED means that total_messages different requests of the  *)
(* batch were counted.                                                      *)
THEOREM BufferedIsCompleteHolds == Spec => []BufferedIsComplete
  <1>1. BatchInv => BufferedIsComplete
    BY BatchNumbers DEF BatchInv, ReplayInv, FateInv
  <1> QED
    BY BatchInit, BatchNext, <1>1, PTL DEF Spec

(* Only UpdateEventStatus sets PROCESSING, and for the request it carries.  *)
LEMMA OnlyStatusProcesses ==
    ASSUME Typed, Next, NEW rk \in RoutingKey,
           status[rk] # PROCESSING, status'[rk] = PROCESSING
    PROVE  \E p \in Proc : pc[p] = "status" /\ incoming[p].RoutingKey = rk
  <1>1. status \in [RoutingKey -> {NoStatus, PROCESSING, BUFFERED}]
    BY DEF Typed, TypeOK, BackendTypeOK
  <1>2. NoStatus # PROCESSING /\ BUFFERED # PROCESSING
    BY DEF NoStatus, PROCESSING, BUFFERED
  <1>3. status' # status
    OBVIOUS
  <1>4. ASSUME NEW k, NEW s, SetStatus(k, s), s # PROCESSING
        PROVE  FALSE
    BY <1>1, <1>4 DEF SetStatus
  <1>5. ASSUME NEW p \in Proc, UpdateEventStatus(p)
        PROVE  pc[p] = "status" /\ incoming[p].RoutingKey = rk
    BY <1>1, <1>3, <1>5 DEF UpdateEventStatus, SetStatus, backendVars
  <1>6. ASSUME NEW k \in RoutingKey, Expire(k)
        PROVE  FALSE
    BY <1>2, <1>3, <1>4, <1>6 DEF Expire, ExpireBuffer, ExpireStatus
  <1>7. ASSUME NEW p \in Proc, WorkerStep(p)
        PROVE  FALSE
    <2>1. ~UNCHANGED backendVars
      BY <1>3 DEF backendVars
    <2>2. \A k, name, id : ~StoreDataInRedis(k, name, id)
      BY <1>3 DEF StoreDataInRedis
    <2>3. \A k : ~IncrementProcessedCount(k) /\ ~SetStatus(k, BUFFERED)
      BY <1>2, <1>3, <1>4 DEF IncrementProcessedCount
    <2> QED
      BY <1>7, <2>1, <2>2, <2>3
      DEF WorkerStep, Take, SendSSEEvent, StoreResult, DispatchToStream,
          IncrementCompletion, CheckCompletion, SetCompletion
  <1>8. ASSUME UNCHANGED backendVars PROVE FALSE
    BY <1>3, <1>8 DEF backendVars
  <1>9. ASSUME NEW p \in Proc, Shared(p)
        PROVE  UpdateEventStatus(p)
    BY <1>7, <1>8, <1>9
    DEF Shared, ConsumerStep, Triage, RunController, SendMarker,
        ConsumerReturn, WorkerReturn, Signal, End
  <1>10. \A p \in Proc :
             /\ ~Start(p) /\ ~EnsureConsumerGroup(p) /\ ~ReadGroup(p)
             /\ ~ReadNothing(p) /\ ~Ack(p) /\ ~AddDeadLetter(p)
    BY <1>8 DEF Start, Begin, EnsureConsumerGroup, ReadGroup, ReadNothing,
                vars, Ack, AddDeadLetter
  <1>11. \A r \in Payloads : ~Produce(r)
    BY <1>8 DEF Produce
  <1> QED
    BY <1>5, <1>6, <1>9, <1>10, <1>11 DEF Next

\* What StatusNeverRegresses says of one step.
KeepsBuffered ==
    \A rk \in RoutingKey :
        (status[rk] = BUFFERED /\ Cardinality(Batch(rk)) <= TotalMessages[rk])
            => status'[rk] # PROCESSING

(* StatusNeverRegresses holds: a request that is about to set PROCESSING    *)
(* has not been counted, so a batch that is BUFFERED and still has one was  *)
(* sent more than total_messages requests.                                  *)
THEOREM StatusNeverRegressesHolds == Spec => StatusNeverRegresses
  <1>1. BatchInv /\ [Next]_vars => [KeepsBuffered]_vars
    <2> SUFFICES ASSUME BatchInv, Next, NEW rk \in RoutingKey,
                        status[rk] = BUFFERED,
                        Cardinality(Batch(rk)) <= TotalMessages[rk],
                        status'[rk] = PROCESSING
                 PROVE  FALSE
      BY DEF KeepsBuffered
    <2>1. /\ Typed /\ FateInv /\ OrderInv /\ ReplayInv /\ MarkerKeys
          /\ BufferedIsComplete
      BY BatchNumbers DEF BatchInv, ReplayInv, FateInv
    <2>2. BUFFERED # PROCESSING
      BY DEF BUFFERED, PROCESSING
    <2>3. PICK p \in Proc : pc[p] = "status" /\ incoming[p].RoutingKey = rk
      BY <2>1, <2>2, OnlyStatusProcesses
    <2>4. cur[p] \in 1..Len(input) /\ input[cur[p]] \in Request
      BY <2>1, <2>3, CurIsEntry DEF Busy
    <2>5. cur[p] \in Batch(rk)
      <3>1. incoming[p] = Enriched(input[cur[p]]) /\ Buffered(input[cur[p]])
        BY <2>1, <2>3 DEF ReplayInv, CarriedOf
      <3> QED
        BY <2>3, <2>4, <3>1, EnrichedType DEF Buffered, Batch
    <2>6. cur[p] \notin Counted(rk)
      <3> SUFFICES ASSUME cur[p] \in Counted(rk) PROVE FALSE
        OBVIOUS
      <3>1. PICK q \in Proc : \E x \in Range(handled[q]) :
                x.marker /\ x.ok /\ x.rk = rk /\ x.id = cur[p]
        BY CountedIs DEF CountedMeans
      <3>2. PICK x \in Range(handled[q]) : x.marker /\ x.id = cur[p]
        BY <3>1
      <3>3. x \in Line(q)
        BY DEF Line
      <3>4. x.marker \in BOOLEAN
        BY <2>1, <3>3, TypedProcesses, LineTypes
      <3>5. HasMarker(cur[p])
        BY <3>2, <3>4 DEF HasMarker, Queued
      <3>6. pc[p] \in Busy \ {"ack"}
        BY <2>3 DEF Busy
      <3> QED
        BY <2>1, <3>5, <3>6 DEF OrderInv, NoMarkerYet
    <2>7. /\ Counted(rk) \subseteq Batch(rk) \ {cur[p]}
          /\ IsFiniteSet(Batch(rk))
          /\ Cardinality(Counted(rk)) \in Nat /\ Cardinality(Batch(rk)) \in Nat
      BY <2>1, <2>6, CountedInBatch DEF FiniteBatches
    <2>8. /\ IsFiniteSet(Batch(rk) \ {cur[p]})
          /\ Cardinality(Batch(rk) \ {cur[p]}) = Cardinality(Batch(rk)) - 1
      BY <2>5, <2>7, FS_RemoveElement
    <2>9. Cardinality(Counted(rk)) <= Cardinality(Batch(rk) \ {cur[p]})
      BY <2>7, <2>8, FS_Subset
    <2>10. Cardinality(Counted(rk)) >= TotalMessages[rk]
      BY <2>1 DEF BufferedIsComplete
    <2>11. TotalMessages[rk] \in Int
      BY <2>1, TypedProcesses, TallyTypes
    <2> QED
      BY <2>7, <2>8, <2>9, <2>10, <2>11
  <1>2. [][KeepsBuffered]_vars => StatusNeverRegresses
    BY PTL DEF StatusNeverRegresses, KeepsBuffered
  <1> QED
    BY BatchInit, BatchNext, <1>1, <1>2, PTL DEF Spec
=============================================================================
